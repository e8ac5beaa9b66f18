# Verification of AzLocalDev

TLA+ models of the AzLocalDev emulator (Service Bus, Storage and Application
Insights emulators behind a tray application and a web dashboard), checked with
TLC on small instances and, where it says so, proved with TLAPS for every value
of the constants.

## 1. The system

| Part | State it keeps | Operations | Talks to |
|---|---|---|---|
| **Entity state** `servicebus/core/src/actor/state.rs` | the buckets `active`, `scheduled`, `deferred`, `dead_letter`, `locked_messages`; `locks`; `locked_sessions`; `next_sequence` | enqueue, try_receive, try_receive_session, accept/release_session, complete, abandon, dead_letter, defer, renew_lock, tick, purge, delete_message, resubmit_dead_letter, export, restore | called only by its actor task |
| **Actor and handle** `actor/task.rs`, `actor/handle.rs` | command queue (1024), a `Notify`, a 250 ms ticker | one command or tick at a time; `receive` = try, then wait for a notification or the deadline | AMQP links and HTTP handlers call through `EntityHandle` |
| **Broker** `servicebus/core/src/lib.rs` | sharded concurrent maps of queues, topics, subscriptions | create/get/delete, publish_to_topic, export, import | entity handles; the routes of the engine and AMQP links call it |
| **AMQP front end** `servicebus/amqp` | per connection and link tasks; a granted session per session receiver | accept connection, session, link; poll for a session lock; pump messages and apply outcomes | broker, entity handles |
| **Service Bus engine** `servicebus/engine` | running state (broker, listeners, autosave task), data file | start, stop, HTTP management routes | broker, persistence, AMQP listeners |
| **Persistence** `services/persistence` | one JSON file per instance | load, save, spawn_autosave | engines |
| **Engine registry** `services/engine` | engines, their groups, factories, id counters | create, create_with_config, remove, groups, snapshot and restore | engines, dashboard |
| **Dashboard** `ui/web` | none of its own; group files on disk | HTTP handlers over the registry, persist_group, load_all_groups | registry |
| **Composition root** `ui/gui` | port and instance counters | factories, restore at start-up | registry, dashboard |
| **Storage Queue, Table, Blob** `storage/queue`, `storage/table`, `storage/blob` | one concurrent map each: queues of messages, tables of entities with etags, containers of blobs | the Azure REST subset, dump, restore | HTTP servers and the dashboard's routes call them |
| **Storage engine** `storage/engine` | running state (three stores, four servers, autosave task), data file | start, stop, data routes | the stores, persistence |
| **Application Insights** `module/appinsights` | a bounded list of telemetry in memory, an id counter | start, stop; ingest Breeze and OTLP; list, traces, clear | HTTP ingestion, the dashboard's routes |
| **Dev certificate** `services/dev-cert` | certificate files | load_or_generate | listeners |

`vendor/fe2o3-amqp` is a patched third-party AMQP library and is left aside.

What is hard here:

* *time against late calls*: locks expire under receivers that still hold them,
  scheduled messages fall due, a settle arrives after its lock was taken back;
* *notification*: `receive` tries first and registers for a notification after;
* *ownership across tasks*: a session lock lives in the entity, its owner is a
  chain of tasks (attach poll, accept loop, link loop) any of which can end;
* *persistence*: a timer, a clean stop and a crash all write, or half-write, the
  same file from copies taken at different times;
* *dashboard requests* run concurrently, and each is a sequence of registry
  calls with awaits between them;
* *two-step operations*: most stores are concurrent maps that are asked in one
  step and changed in the next, with anybody's steps between;
* *blocking*: a lock of such a map that is held across an await blocks threads,
  not tasks;
* *restart*: identities are generated by counters that restart from what was
  persisted.

## 2. What makes each part correct

* Entity: a message is in exactly one place from the moment it is accepted until
  an operation that may remove it does; a lock and its message agree; an old
  token cannot touch a newer delivery; nothing is handed out early; order of
  fresh messages; nothing waits for ever because a receiver went silent.
* Handle: a receiver that waits is woken when a message becomes available.
* Links: a session has at most one receiver, and is released when its receiver
  is gone.
* Broker: what a registered queue accepted stays until somebody asks for its
  removal; an export misses no queue that was there throughout, and comes to an
  end although it makes others wait.
* Engine and persistence: what a start restores is what the last stop saved; a
  crash loses at most what changed since the last autosave.
* Registry and dashboard: an id names one instance, live or in a file; no port or
  address is given twice; an engine that is registered or runs is within the
  dashboard's reach; group files describe the registry.
* Stores: a lease is honoured until its time is over and only its newest receipt
  works; a conditional write replaces only what its writer saw; what was confirmed
  is there.
* Telemetry: ids are distinct, lists are in order, the newest are kept, a trace's
  key goes on naming what it named.

## 3. Modules

| Module | Models | Role |
|---|---|---|
| `Buckets` | `VecDeque`, `Vec`, `HashMap` operations | library |
| `EntityState` | `actor/state.rs` and the dispatch loop of `actor/task.rs` | the core |
| `MessageLifecycle` | what an entity promises about each message | abstract specification of `EntityState` |
| `ReceiverLinks` | `actor/handle.rs` (receive and its `Notify`), `actor/task.rs`, `amqp/links.rs` | composes the links' tasks with `EntityState` |
| `SessionLinks` | `amqp/connection.rs`, `amqp/session_filter.rs`, the start and end of `amqp/links.rs` | ownership of session locks |
| `EngineLifecycle` | `servicebus/engine` start and stop, `services/persistence`, `amqp/listener.rs` | durability of messages |
| `Broker` | `servicebus/core/src/lib.rs`, the queue routes of `servicebus/engine` | queues in shards, worker threads, export |
| `EngineRegistry` | `services/engine`, the factories of `ui/gui` | what is done under one hold of the registry's lock, or by one atomic operation of a factory |
| `Dashboard` | `ui/web` | extends `EngineRegistry` with the requests and the group files |
| `StorageRequests` | the two steps of a request, UUIDs | shared by the stores |
| `QueueStore`, `TableStore`, `BlobStore` | `storage/{queue,table,blob}` core and server | one store each |
| `StorageData` | a storage account between its starts | composes the three stores |
| `StorageEngine` | `storage/engine` start, stop, autosave and routes, `services/persistence` | durability of the stores |
| `Telemetry` | `module/appinsights` | ingestion and traces |
| `MC...` | constants of the TLC runs, one for each module that is run | model checking |
| `BucketsProofs` | facts about `Buckets`: elements, places and order of a sequence | lemmas |
| `EntityProofs` | `EntityState`, its refinement of `MessageLifecycle`, `ReceiverLinks`, `SessionLinks` | theorems |
| `EngineLifecycleProofs`, `StorageEngineProofs` | the two engines | theorems |
| `BrokerProofs` | `Broker` | theorems |
| `DashboardProofs` | `EngineRegistry` and `Dashboard` | theorems |
| `StorageDataProofs` | the stores and `StorageData` | theorems |
| `TelemetryProofs` | `Telemetry` | theorems |

### EntityState

State: `msg[s]` is the message with sequence number `s` (the record keeps the
fields the code decides by), `Gone` once it left the entity. The buckets
`active`, `scheduled`, `deferred`, `deadLetter` hold sequence numbers in the
order of the code's deques and vectors; `locks` maps a token to its entry and
`lockedMessages` is the key set of `locked_messages`. A token is the pair of the
sequence number and the delivery count it was issued for: the code draws a UUID,
and all that matters is that it is fresh.

Each action is a whole handler: `Send`, `TryReceive`, `TryReceiveSession`,
`AcceptSession`, `AcceptNextSession`, `ReleaseSession`, `Complete`, `Abandon`,
`DeadLetter`, `Defer`, `RenewLock`, `Purge`, `DeleteMessage`,
`ResubmitDeadLetter`. `Tick` is the whole of `tick`: it promotes what is due,
takes back expired locks (to `active` in the front, or to `dead_letter`), then
applies the time to live. `Restart` is `export` followed by `restore`. One
action at a time is what the actor guarantees: it owns the state and handles one
command or one tick per turn of its loop.

Time is counted down instead of up: an instant is the number of units left until
it, `Elapse` takes one from every instant still ahead, and a comparison with
`now` is a comparison with zero. Nothing is compared but an instant with now, so
this loses nothing, and it keeps the state space finite.

### ReceiverLinks

Extends `EntityState` with the phase of each receiver link's task. `receive`
(handle.rs) is not atomic: the command is queued (`asked`), the actor answers
(`Serve`), and only after an empty answer is the `Notified` future created
(`Register`). `Woken` is `notify_waiters`, which reaches only futures that
exist. `Detach` is the `tokio::select!` of links.rs dropping the receive future
wherever it stands; the command it left in the queue is still handled
(`dropped`). `Settle`, `GiveBack` and `Close` are the outcome, and the timeout or
failure, of the send.

### SessionLinks

A link goes through the polling task, the channel to the accept loop, and the
link's own task; `session[l]` is what the present one of them remembers. The
queue may be deleted and created meanwhile: `locked[g]` is the `locked_sessions`
of its `g`-th actor, `on[l]` the actor whose handle the link's task has.

### EngineLifecycle

A start makes a broker (a life). `saver[n]` is the autosave task of life `n`,
`saver[0]` is `stop`. A save is three kinds of steps: `Visit` asks one queue,
`Truncate` and `Write` are the two halves of `fs::write`; everything else,
clients included, happens in between. `engine` is the engine's mutex: `stop`
holds it in the phases `saving` and `closing`, `start` is one step because
nothing sees its inside. Clients keep their connection, and so the broker of its
life, until they disconnect or the process dies.

### Broker

A request that writes the map of queues takes two steps: `CreateQueue` is the
lookup, `Insert` the insertion, with `Park` between them when the shard is locked.
A parked request keeps its worker thread, and every other step needs a free one
(`FreeThread`). `Enter`, `Answer` and `Leave` are `export`: it locks one shard
after the other and awaits an actor at a time. Requests on messages find the
actor first (`Resolve`) and are answered by it later, when the queue may be
somebody else's; what an actor does in detail is `EntityState`.

### EngineRegistry and Dashboard

`EngineRegistry` has an operator for each hold of the registry's lock and for each
atomic operation of a factory. `Dashboard` strings them together: `request[c].step`
is where client `c`'s request stands, and anything else may happen before its next
step. `create` draws an id under the lock and leaves it; the factory then draws the
port (`take_port`) and the octet of the loopback address (`take_octet`) in steps of
their own, so that requests that overlap may take octets out of the order of their
ids. The octet comes from a counter that wraps at `Span` and saturates after a
restore. A removal goes on to stop an engine only if it found it registered.
`persist_group` is four steps (`Lookup`, `Collect`, `Truncate`, `Write`). `Restart`
ends the process anywhere and restores the registry and the counters from the files.

Two variables are history: `spent`, whether the last octet has ever been given, and
`contested`, the engines that one request was making or starting while another one
removed them or deleted their group.

### The stores and StorageData

An operation whose lookup and write are under one guard is one action. One that
asks and then changes (`create_queue`, `create_table`, `create_container`,
`insert_entity`, `delete_entity` with an etag) is two; what it found is in
`request[c]` in between. `TableStore.Guarded` is the exception: operations on
entities keep the shard of their table read-locked to the end. A message id, a
receipt and an etag are UUIDs in the code and numbers of one counter here, so
that newer and older can be told apart by properties; the model only ever
compares them for equality. `since`, in a request of two steps, is the last UUID there
was at its first step: history, by which `Overtaken` and IfMatchHonoured tell what
came in between. Times count down, as in `EntityState`. A restart is `dump`
followed by `restore`.

### StorageEngine

As `EngineLifecycle`, with the differences of the code: the three dumps of a save
are a step each and never await, so that an abort does not end a save halfway;
`stop` closes its servers after the save; the dashboard's routes take a handle on a
store and use it once, later (`Resolve`, `Operate`). An item is one of the things a
store holds, whichever of its operations put it there.

### Telemetry

A request is the items still to be pushed: `Number` draws the next id, `Push` is
one hold of the store's lock. Breeze requests number and push item by item, OTLP
requests number all of their items first. `list_traces`, `build_trace_summary` and
`get_trace` are operators on a store. `single` is history: the items of each life
that ever became traces of their own, which KeysStay compares with what their keys
list and open later.

## 4. Runs

| Run | Asks | Properties |
|---|---|---|
| `entity_plain` | does every order of commands, ticks, clock steps and restarts keep a queue consistent, and does it implement `MessageLifecycle` | TypeOK, OnePlace, Accounted, LocksMatch, StateMatchesBucket, FreshInOrder, OneHolder, LifecycleSpec |
| `entity_fair` | with two sessions and a blank one: are session rules kept, do scheduled messages and locks move on by themselves | SessionsCarried, ScheduledPromoted, LocksEnd |
| `links_plain` | two links compete and settle late | OthersKeepTheirLock, ArrivalsWake |
| `links_stay` | a session link and an ordinary one: is every message a staying link may take served, and does one that is never settled end in the dead-letter bucket | ActiveServed, PoisonBuried |
| `session_links` | attaches, failures, disconnects and a replaced queue | OneReceiver, LocksOwnedWhileOpen, AttachAnswered |
| `session_leak` | is every session lock owned by somebody who will release it | LocksOwned, violated |
| `engine_stops` | stops, crashes, autosaves and clients in every order | CalmStopSaves, AutosaveCatchesUp |
| `broker` | queues created, deleted and used while exports walk their shards and block threads | ExportComplete, AcceptedKept, ExportGetsThrough |
| `registry` | overlapping requests of the dashboard, and a process that ends anywhere | TypeOK, IdsDistinct, AddressesDistinct, WithinReach, FilesInSync |
| `storage_data` | two clients on a queue, or on a table and a container of an account, expiries and restarts | AcceptedKept, LeasesAgree, LeaseHonoured, PeekShowsNext, EtagNamesContent, IfMatchHonoured |
| `storage_engine` | stops, crashes, autosaves and requests on the three stores | CausalCut, CalmStopSaves |
| `telemetry` | ingestion by two protocols, clears, stops and restarts | DistinctIds, ListedInOrder, NewestKept, KeysStay |

A module's type invariant is a property of a run only of `EntityState` and
`Dashboard`; those of the others are proved.

### Bounds

* `MaxSequence` (2 or 3 messages sent): two messages show every overtaking and
  every confusion of two; with three, one overtakes a pair, and front insertion,
  back insertion and sorting differ.
* `DeliveryCap` 3 (a conjunct of the receive's guard): a lock that expires counts
  a delivery itself, so a message can be received, expire, and be received again,
  with an old and a new token about; the expiry after that reaches
  `MaxDeliveryCount`, 3.
* `LockDuration` 1, `Delays` and `TimesToLive` none or 1: an instant is ahead,
  now, or past, and the code tells no more apart.
* Two receivers: one that holds and one that interferes. Three session links on
  two AMQP sessions and two session ids: two links share an accept loop and one
  does not, and one more link than sessions has to poll.
* `MaxGeneration` 2: one replacement of the queue. More replacements only add
  actors nobody can find.
* `MaxLives` 2, one client, two queues with one message each: an autosave of an
  earlier life next to the present one and `stop`, a dump taken from two queues at
  different times, a connection of an earlier life. Two lives, one client and two
  items in any stores for the storage engine, for the same reasons.
* Broker: two queues in one of two shards, two actors, two messages; two clients
  and three worker threads, so that both clients may block theirs and one is left.
  The other shard is empty, which gives requests a moment between two locks.
* Registry: two clients are enough to overlap, two groups and two engines to be
  confused with each other, `Span` 4 makes the octet wrap and saturate. One kind of
  resource, Service Bus, because it is the one with both a port and an address;
  kinds share only the id counter. `MaxChanged` 1: one name at a time is a changed
  one, that of the first group or of the first engine. `Small` is a constraint: states
  in which both groups' and both engines' ids are drawn are not explored further while
  two requests are under way or a name is a changed one. The theorems have neither
  bound.
* Stores: `MaxStamp` 4 UUIDs over all three stores, so that a message can be put,
  leased twice and updated, or an entity written four times. One queue, table and
  key, as operations on different ones never meet but in the map; two blobs, since
  an upload creates the container of another. `OneStore` is a constraint: states
  with the queue and one of the others in use are not explored further. The stores
  share nothing but the UUIDs and the clients, who wait for one answer at a time;
  the theorems are about all three at once.
* Telemetry: a store of three items and bodies of one and two, so that a request
  is cut by the cap; five items in a life, three requests, one operation.

`links_plain`, `registry`, `storage_data` and `telemetry` use the symmetry of their
clients or links (and of blobs), and check no liveness. Deadlock is not checked
where the bounds themselves stop the system (all numbers used up, every accept
loop ended, every client's request at its bound), nor in `broker`, where the system
really may stop: with as many requests writing the map as there are threads, an
export waits for an actor that no thread is left to run. In the runs of the two
engines it is checked.

### Fairness

* `FairSpec`: the ticker (`interval(250 ms)` in task.rs) and the clock. Nobody is
  obliged to receive or settle; `LocksEnd` excepts a receiver that renews its
  lock for ever.
* `StaySpec` of the links: tokio runs a task that can run, the deadline of
  `receive` fires, a `send` is answered or given up after 30 s. Attach and detach
  are the client's and get no fairness. Links here do not abandon and the engine
  is not restarted: a client that abandons for ever keeps the message behind the
  abandoned one waiting for ever, by the order the code intends.
* `SessionSpec`: the polling task ends after
  `SESSION_POLL_MAX_ATTEMPTS` (`GiveUp`), its result is sent and taken from the
  channel. That a lock is granted is not assumed.
* `Spec` of the engine: the steps of a save and the autosave interval of 5 s.
  Clients, `start`, `stop` and crashes get none.
* `Spec` of the broker: tokio runs the export and the actors it asks as long as a
  worker thread is free. Requests get none: a parked one may stay for ever.

### Mutants

Each property of a passing run has a mutant: a variant of one definition, next to
it and called `<Definition>_Mistake`, that a plausible slip in that code would
give. Put in the place of the definition, it violates the property.

| Property | Slip |
|---|---|
| entity TypeOK | accept_session(None) takes the session of a message without one |
| OnePlace | taking a locked message back leaves it locked too |
| Accounted | export forgets the locked messages |
| LocksMatch | unlocking leaves the token |
| StateMatchesBucket | promotion leaves the state field as it was |
| FreshInOrder | export sorts the wrong way round |
| ScheduledPromoted | tick promotes only what has no time at all |
| OneHolder | receive hands out the front message without taking it from the queue |
| LifecycleSpec | export folds deferred messages into active |
| SessionsCarried | enqueue does not look at the session |
| LocksEnd | tick looks at the locks only when `active` is empty |
| PoisonBuried | tick compares the count with `==` instead of `>=` |
| OthersKeepTheirLock | an outcome settles the lock the message has now |
| ArrivalsWake | `notify_one` for `notify_waiters` |
| ActiveServed | no deadline in receive |
| OneReceiver | a grant does not look at the locks |
| LocksOwnedWhileOpen, AttachAnswered | a link ends without releasing; polling without an end |
| engine CalmStopSaves | stop saves the last autosave's dump |
| AutosaveCatchesUp | the autosave task saves once |
| ExportComplete | one answer from each shard is enough |
| broker AcceptedKept, ExportGetsThrough | create_queue does not look; one thread less |
| registry TypeOK, AddressesDistinct | the octet does not saturate; ports are bumped to the last one in use |
| IdsDistinct, WithinReach, FilesInSync | the id counter looks at one file only; a group is deleted with those of its engines that run; rename does not persist |
| LeasesAgree, LeaseHonoured, PeekShowsNext | receipts are dumped; restored messages are visible; peek shows the expired |
| storage AcceptedKept | insert_entity does not look whether there is an entity |
| EtagNamesContent, IfMatchHonoured | a merge keeps the etag; a delete takes any |
| CausalCut, storage engine CalmStopSaves | the stores are dumped in the opposite order; stop does not save |
| DistinctIds, ListedInOrder | ids count the items; items are taken from the end |
| NewestKept, KeysStay | room is made too early; a clear sets the id counter back |

## 5. What the checks show about the documentation

Most of what the comments promise holds. What does not, with a run that shows it:

* **A session lock can be leaked** (`session_leak`). When the accept loop ends
  around the moment a lock is granted, the result is dropped and nobody releases
  it (connection.rs:92). `LocksOwnedWhileOpen`, checked and proved, says that this
  is the only way.

Others are visible in the models as steps they allow, and have no run:

* A receiver can park while its message is there: `receive` asks first and creates
  the `Notified` future afterwards (handle.rs:70); a send in between (`Serve`,
  `Arrive`, `Register`) wakes nobody. `ActiveServed` shows the damage is bounded:
  the deadline of `receive` and the link's loop ask again.
* The ticker does not wake every session receiver: it notifies only when `active`
  was empty before (task.rs:29). For ordinary links that is enough
  (`ArrivalsWake`), for session links it is not.
* A link may serve a session it has not locked, after the queue was deleted and
  created again between grant and start (links.rs:79).
* A stopped engine goes on accepting messages on the connections that were open,
  into a broker nobody saves (servicebus/engine/src/lib.rs:267); so do a stopped
  storage account and a stopped Application Insights instance. `CalmStopSaves`
  says what does hold of the first two: everything the stop found is saved, if no
  autosave was in the middle of its own save.
* `export` of an entity folds a locked message back without counting a delivery,
  while model.rs:107-108 says "as if its lock had just expired", and an expired lock
  counts one and may dead-letter.
* An export of the broker and as many requests that write its map as there are
  worker threads stop each other for good (core/src/lib.rs:159).
* docs/DESIGN.md:215 says of the group files "everything is always in sync": two
  overlapping requests may write the older snapshot last. `FilesInSync` says it of
  requests that do not overlap.
* An engine created while its group is deleted stays registered in a group nobody
  sees, and one that is started while it is removed runs unregistered, although
  `remove` is documented to stop what it removes (services/engine/src/lib.rs:333).
  `WithinReach` excepts just these engines: all others are where the dashboard finds
  them.
* "a resource created afterward in this run can't collide" with a restored one
  (ui/gui/src/main.rs:152-153), yet an instance restored with the last octet makes
  the counter saturate there, so that the next one is given the same loopback
  address; without a restart the counter wraps to 0. `AddressesDistinct` promises
  addresses of their own until the last octet is given, ports always.
* Both of two concurrent creators of a queue, a table or a container are told they
  created it, and the second empties what was put into it meanwhile. Both of two
  concurrent `insert_entity` of one key succeed, although the second should fail "if
  one already exists" (table/core/src/lib.rs:97-99), and the first entity is gone.
  AcceptedKept bounds these losses: what a client was told is stored is lost unasked
  only to a creation that had looked, and found nothing in that very place, before
  it came. AcceptedKept of the broker bounds those of its queues.
* `delete_entity` with an etag may remove a version its client has not seen, one
  written between the comparison and the removal (table/core/src/lib.rs:174).
  `IfMatchHonoured` says that it removes no other.
* Telemetry ids are drawn outside the lock, so that "everything after id N"
  (model.rs:79) may miss an item that is pushed late with a lower id.
  `operation_name`, "used as a trace's display name when no root request span was
  captured" (model.rs:102-103), never is: the earliest item's name comes first
  (appinsights/core/src/lib.rs:240-248).
* The receipt of a storage queue's message is documented as none once the message
  is visible again; the code keeps it, so that a late delete works until somebody
  else gets the message. `LeasesAgree` says it stops working then.

## 6. Proofs

Every safety property that a run of the project checks and finds to hold is a
theorem, for every value of the constants. Each proof has an inductive invariant,
one lemma for each action that disturbs it, and a theorem `SpecInv` (`LinkSpecInv`
and so on where modules share one) from which the properties follow. The invariants
were checked by TLC on the instances of section 4 before they were proved.

**Entity** (`EntityProofs`). TypeOK, OnePlace, Accounted, LocksMatch and
SessionsCarried are inductive only together: that a settle keeps a message in one
place needs that a token's message is in `lockedMessages` and in no bucket
(LocksMatch, OnePlace), and that a new token is fresh needs `TokensOwn`: the lock
entry of a token names the message the token was issued for. `Inv` is their
conjunction. `DeliverInv`, `SettleInv`, `SessionsInv` and `RetainInv` cover what
several handlers share, and `TickInv` treats the two phases of `tick` one after the
other.

StateMatchesBucket and FreshInOrder need `OrderInv`, which adds two facts that keep
a message that comes back from being taken for a fresh one: one that is out on a
lock has been delivered (`Delivered`), and one that is scheduled has a time
(`Timed`). FreshInOrder is then about sequences that change at either end, are
filtered, concatenated and sorted; `Before` and its lemmas in `BucketsProofs` say
what each of these does to the order of two elements.

DeliveriesGrow and OneHolder are action properties: in every step, a message that is
there before and after either keeps its token and does not lose deliveries, or was
taken from its lock (`NextSteady`).

`SpecImplementsLifecycle` is the refinement: under the mapping of `EntityState`,
initial states are initial states of `MessageLifecycle`, and every handler moves
each message as one of its steps says, or not at all. `tick` moves many at once,
which is why the abstract step is about all messages.

**Links** (`EntityProofs`). `LinkSpec => Spec`: whatever the links' tasks do, the
entity behaves as specified, so all theorems about it carry over. With `LinkInv`,
which adds that a link's token was issued (`Issued`: its count is not ahead of its
message's) and that two links never hold the same (`Differ`), LinkTypeOK and
OthersKeepTheirLock follow for any number of links. ArrivalsWake is proved for links
that all receive without a session, any number of them, which is the configuration
of its run. For session links it does not hold (section 5).

**Session links** (`EntityProofs`). SessionTypeOK, OneReceiver and
LocksOwnedWhileOpen for any number of links, AMQP sessions and queue generations.
`Past` is the strengthening: no link is ahead of the present generation, and a
generation to come has no locks.

**Service Bus engine** (`EngineLifecycleProofs`). TypeOK and CalmStopSaves for any
number of queues, messages, clients and starts. CalmStopSaves speaks of the end of a
stop; its invariant follows the stop through its phases (`Undisturbed`): once it
found the savers at rest none of them wakes, its dump covers what was promised for
the queues it has asked, and the file it truncated stays empty until it writes. That
no message counted as gone can come back needs `AllSent` and `GoneStays`: all that
is in a broker, a dump or the file was sent, and a message is sent once.

**Broker** (`BrokerProofs`). TypeOK, AcceptedKept and ExportComplete for any number
of queues, shards, clients and worker threads. That an insertion costs nobody a
message they were promised needs `SinceOK`: a creator found no queue, so that
whatever is registered by now is newer than its lookup, and the promise excepts
that. An export in progress is described by `DumpOK` (a queue in the dump is in a
shard that is done, or in the present one and not left to be asked) and `StableOK`
(a queue that was there throughout has been or will be asked); a shard that is
locked is not written, so what is left to ask stays registered.

**Registry and dashboard** (`DashboardProofs`). TypeOK, IdsDistinct,
AddressesDistinct, WithinReach and FilesInSync for any number of clients, groups,
engines and kinds. Ids are distinct because an engine belongs to one group wherever
it is remembered, in the registry, in a file, or in a snapshot that a request is
about to write (`IdsOwned`): a restart takes the files for the truth, whichever of
the writers came last. That the counters are ahead of all that is remembered after a
restart needs that a snapshot says of an engine what it was made with
(`SnapshotsTrue`). `AddressesOwned` keeps apart the ports of all that was built and
of requests that have drawn one and have yet to build, and the octets, each below the
counter, until the last one is given (`spent`); nothing about them follows from the
order of ids, as octets are drawn out of it. WithinReach needs `ReachOwned`, which
says of each engine that is not contested what the requests under way may do to it:
none starts what another is about to remove, none creates in a group that another
deletes, and whoever deletes a group has all its engines on its list. FilesInSync is
about requests that come one at a time; its invariant (`Alone`) says that a request
that is alone finds what it looked up unchanged (`Found`), and that only the group
whose file it has yet to write is behind.

**Stores** (`StorageDataProofs`). TypeOK, LeasesAgree, PeekShowsNext,
EtagNamesContent, AcceptedKept, LeaseHonoured and IfMatchHonoured for any number of
clients, queues, tables, containers and UUIDs. A lease is a fact of the past, so the
invariant says of each message which of the leases granted so far are its own, that
its count is the number of those it was got under, that its receipt is the newest,
and that it is hidden until that one ends (`Agreed`); ids and receipts are unique
because a counter draws them (`IdsUnique`, `ReceiptsUnique`). A conditional delete
compares and deletes in two steps: that it removes the version it names or one written
since needs that nothing but a newer version can come in between (`Compared`) and that
the table cannot go meanwhile (`GuardsHold`, the shard's guard). AcceptedKept needs of
a creation under way that all that stands where it will insert came after it had
looked (`Unseen`): what it takes away unasked is then what `Overtaken` names.

**Storage engine** (`StorageEngineProofs`). TypeOK, CalmStopSaves and CausalCut for
any number of clients, items and starts. CausalCut is about a finished file; the
invariant says it of every store (`AllClosed`) and, of a dump under way, that what
precedes an item is in the dump or waits in a store that is still to be dumped
(`Cut`). A store is closed because it has everything its life was given and nobody
removed (`Present`), which holds as long as somebody may put things into it.
CalmStopSaves follows a stop through its phases as in `EngineLifecycleProofs`.

**Telemetry** (`TelemetryProofs`). TypeOK, DistinctIds, ListedInOrder, NewestKept
and KeysStay for any number of connections, bodies, starts and any cap. Ids are
drawn outside the lock, so the invariant is about items on their way as well as
those that arrived: numbers are behind the counter, distinct between requests and
increasing in each (`RequestsOK`, `RequestsApart`), and an item with a number is new
to its store and comes after what its request has pushed (`ComingNew`).
ListedInOrder also compares requests that did not overlap: what was over when a
request began is not under way any more (`Past`, `Ongoing`), so nothing of it can be
pushed after it. KeysStay needs that an item that ever became a trace of its own has
its number for itself, in the store and among the numbered items still to be pushed
(`SinglesKept`), also after it was dropped or cleared, since the counter is never set
back; that what is listed and what is opened are two ways to filter the same store
(`KeepTwice`) does the rest.

Assumptions: `EntityAssumption`, `ReceiverAssumption`, `SessionLinksAssumption`,
`EngineLifecycleAssumption`, `BrokerAssumption`, `RegistryAssumption`,
`QueueAssumption`, `TableAssumption`, `BlobAssumption`, `StorageEngineAssumption`
and `TelemetryAssumption`, which only type the constants and keep the null values
apart. The proofs use the bounds (`MaxSequence`, `DeliveryCap`, `MaxGeneration`,
`MaxLives`, `MaxActors`, `MaxSeq`, `MaxItems`, `MaxRequests`, `MaxStamp`) only as
numbers, whatever they are.

Only model-checked: liveness (ScheduledPromoted, LocksEnd, PoisonBuried,
ActiveServed, AttachAnswered, AutosaveCatchesUp, ExportGetsThrough), which is beyond
the prover. LocksOwned is not proved because it is false (`session_leak`).

## 7. Left out

* `peek`, `stats` and the list operations only read, apart from those a property
  compares. `Command::Tick` is never sent. The AMQP front end calls neither `defer`
  nor `renew_lock`; `EntityState` has them, `ReceiverLinks` does not.
* The bound of the command channel and a closed channel: the actor lives as long
  as a handle to it.
* Topics, subscriptions and `publish_to_topic`: nothing in the product creates a
  topic, and the import of a dump finds none.
* A start whose ports are taken: it changes nothing in an engine. In `Dashboard` a
  creation whose start fails is modelled, since it uses up an id, a port and an
  octet.
* The data file a deleted instance leaves behind, which an instance with the same id
  would find after a restart: registry and data files are in different modules.
* Telemetry pages that were loaded before a restart of the engine: the keys of traces
  without an operation begin again with the store, and then name other items.
* An operation id that has the form of such a key, `standalone-` and a number, which
  would share its trace.
* Widths: ports are unbounded; the octet of the loopback address wraps and
  saturates as in the code.
* Message bodies, properties, AMQP encoding, SASL and CBS, the parsing of requests
  and query options, severities and names of telemetry: data, or handshakes that
  accept everybody.
* The vendored AMQP library, the web assets, the tray icon, the self-update of
  `update.rs`, certificates: input and output only.

## 8. Plan

1. `SessionDelivery`: `ReceiverLinks` and `SessionLinks` together, for the order
   of a session's messages over a change of its receiver. The product of the two
   needs an abstraction of one of them first.
2. More proofs: the steps under each liveness property that need no fairness, such
   as that a tick never puts off what is due and that a poll comes closer to its end;
   an abstract specification of the registry, implemented by `Dashboard`.
