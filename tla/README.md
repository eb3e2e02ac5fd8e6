# TinyMQ broker: formal models

TLA+ modules of the TinyMQ broker, the TLC runs that check them on small
instances, and theorems that TLAPS checks for every size. Paths below are
relative to the repository (`src/src/broker.cpp` and so on); `PROJECT.json`
maps every definition to the lines it models.

## 1. The system

| part | state | operations | who calls it |
|---|---|---|---|
| **Session** (`session.cpp`), one per TCP connection | socket, `client_id_`, `is_authenticated_`, the packet being read | the chain `read_header → read_payload → process_packet → read_header`; `handle_connect`, `handle_subscribe`, `handle_unsubscribe`, `handle_publish` and the administrative handlers; `send_packet` and the completion handler of its write; `disconnect` | asio completion handlers on any thread of the pool; other sessions' handlers (a publisher writes to its subscribers) |
| **Broker: registry and routing** (`broker.cpp`) | `sessions_` (id → session), `topic_subscribers_` (topic → vector of sessions), `topic_id_cache_`, three mutexes, the threads | `register_session`, `remove_session`, `subscribe`, `unsubscribe`, `publish` | sessions, the activity monitor |
| **Broker: activity monitor** | timer, list of ids | `check_client_activity` every two seconds | the timer |
| **Topic administration** (`broker.cpp`, `db_manager.cpp`) | tables `topic_admins`, `admin_requests`, `admin_sensor_config` | request, answer, revoke, resign, set a sensor, mark it activable; lists | `ADMIN_*` packets and JSON messages inside `publish` |
| **DbManager** (`db_manager.cpp`, `schema.sql`) | PostgreSQL tables, `db_mutex_` | one transaction per call, on a connection of its own; every error becomes `false`, `""`, `-1` or `"ERROR"` | the broker |
| **Packet** (`packet.cpp`) | none | `serialize`, `deserialize` | sessions |
| **Lifecycle** (`broker.cpp`, `main.cpp`) | `running_`, acceptor, threads | `start`, `stop`, signal handler | `main` |
| **Terminal interface, scripts** | none | output, deployment | – |

What is hard in it: all handlers run on a pool of threads, with no strand per
connection; `remove_session` may run for one connection on several threads;
lists of subscribers and ids are copied under a mutex and used after it is
released; a client may reconnect under its id while its old connection is
still served; decisions read one database transaction and act in another;
every database call may fail; an exception ends a thread of the pool; a signal
handler runs `stop` while `main` is anywhere; packets are written from buffers
that are freed before the write has ended.

What makes each part correct:

* Registry: an ended connection leaves nothing behind; removing one connection
  touches no other; the id, the session and the database row agree.
* Routing: a publication goes to the subscribers of one instant, once each, in
  its publisher's order, and is acknowledged after them.
* Monitor: a client marked inactive loses its session, and only such a client.
* Handlers: every one of them gives its thread back.
* Administration: at most one administrator, who asked and was approved; what
  was revoked stays revoked; devices and clients are told what the tables say.
* Topics in the database: no row refers to one that is missing, the id cache
  names the right row, what is published is logged, and a subscriber's
  subscription is not inactive.
* Lifecycle: `stop` returns, leaves no thread behind and destroys nothing that
  a handler still uses.
* Packets: a peer reads the packets that were sent, in their order.

## 2. Modules

`Broker` – sessions, registry, routing, monitor and thread pool. One action is
one completion handler or the part of it between two points another thread can
observe.

| code | model |
|---|---|
| pending or running read chain of a connection | `reader[s]`: "reading" is an armed read; "connack", "register", "enter", "subscribe", … are points inside `process_packet`; "log", "erase", "purge" are the three parts of `remove_session` |
| completion handlers of failed writes | `failed[s]` queued, `writer[s]` running |
| activity timer | `monitor`, `listed`, `victim` |
| `sessions_`, `sessions_mutex_` | `sessions`, `sessLock` |
| `topic_subscribers_` | `subs[t][s]`, the number of entries for `s` |
| a publication's local copy of the subscribers | `recips[p][r]` |
| clients table: `active`, `last_ip`/`last_port` | `db`, `addr` |
| socket | `sock`: "dead" means that reads fail, and that a write fails or is lost silently |
| pool | `workers`, and `FreeWorker` as a guard of every handler's start |

Choices in it. The subscriber vectors are multiplicities: their order only
orders independent sends. The critical sections of `topics_mutex_` and of
`db_mutex_` take no other lock inside, so each is one step, and steps that only
follow such a section on the same thread are merged with it. `register_session`
holds `sessions_mutex_` across a database call and the purge of the old
session, so that mutex is a variable. Of the write-failure handlers of one
connection one runs at a time, others wait in `failed`; reader and monitor run
removals beside it. A message is named by its publisher and number. A write to
an open socket is delivered (section 6). The database side of `subscribe`,
`unsubscribe` and `publish` does not influence routing and is in
`TopicRegistry`. A broker without database behaves as one whose
every call fails (`DbMayFail`).

`PubSub` – what routing promises, without sessions, threads or databases:
joining, leaving, routing at one instant, delivery of each copy at most once,
acknowledgement at the end. `Broker` implements it (`RoutesAsPromised`).

`TopicAdmin` – topic administration. A DbManager call is a step; `task[h]` is
where the handler on thread `h` is between two of them. The tables are `owner`
(topics), `subscribed`, `request`, `admin`, `sensor`; `online` stands for the ids
in `sessions_`, `known` for the clients table. The present session of a client
is the last to send CONN as it: `Connect` may take the place of another,
`Disconnect` is the end of the present one, and `CutOff` is `remove_session` of
one whose place was taken, which erases the id's entry although the present
session lives on and keeps what it was told. Until it connects again nothing is
sent to it; the history variable `cut` names these clients. `Checks` lists the checks of a request in the order of the
packet handler and of the JSON branch of `publish`; they differ in where the
requester is compared with the owner. `Outcome` says what a failing query reads
as. The owner is the one the message names (`named`): the prefix of the topic
name for packets (`Prefix`), a field for JSON. Rows of `topics` carry no client
prefix unless the name had two slashes, so packet requests find a topic only
then (`Nested` in `MCTopicAdmin`; `Plain` is the usual case). `device` and
`denied` are what the present session of the owner, or of a client, was last
sent; what older sessions were told is not kept. Replies that change nothing a
property relates to are left out. The module assumes a database is configured.
One sensor stands for each topic.
`Restart` is a crash, or `stop` and a new process, between any two transactions:
only the tables are left, and the handlers with what they had still to write or
to send are gone.

`AdminPost` – what administration promises, without packets, checks or failing
queries: a post that one client holds at most, asked for, filled by the answer
to an open request, vacated, and possibly confirmed once more by whoever made
that answer. `TopicAdmin` implements it (`PostAsPromised`): the holder is
`topic_admins`, an open request is one that is 'pending', and a noted
appointment is a JSON approval between its two transactions, which a restart
forgets (`Forget`).

`TopicRegistry` – the database side of SUB, UNSUB and PUB, and
`topic_id_cache_`.

| code | model |
|---|---|
| tables `clients`, `topics`, `subscriptions` | `known`; `owner` and `shared` (column `publish`); `active` |
| `message_logs` | only whether a publication is logged: `missed` |
| `client_id_`, `sessions_` | `clientId`, `sessions` |
| `topic_subscribers_`, `topic_id_cache_` | `members`, `cache` |
| a connection's handler between two DbManager calls | `task[s]`: "find" and "refind" are the two `get_topic_id`, "register" is `register_topic`, "record" and "drop" are `add_subscription` and `remove_subscription`, "memory" is the change under `topics_mutex_` |
| a name and its row | `RowOf` (what follows the first '/'), `PrefixOf` (the client before it) |

A call is one transaction under `db_mutex_` and one step, with the store of its
result in the cache; any call may fail, and the outcome of a failure is that of
the code's `catch`. `Restart` is a crash between any two steps, or `stop` and a
new process: the tables stay, the maps do not. A client may have any number of
connections, each with a handler of its own. `Connect` is CONN and
`register_session`: the session registered so far leaves the vectors and goes
on being served. `RemoveSession` may happen at any point of the session's own
handler, whoever runs it, and any number of times. Both are one step here; what
interleaves inside them is in `Broker`. Two history variables serve the
properties: `missed`, and `doubt`, the sessions in a vector whose SUB met a
failing call, who sent CONN as another client since, or whose client has since
sent an UNSUB of the row by another session or under another name. A handler's
`id` is
dropped when nothing uses it any more, and `due` is kept for SUB and PUB only, so
that states do not differ in what no step reads.

`TopicDirectory` – what those tables and lists promise together, without cache,
transactions or failing calls: a row has one owner and keeps it; a client's
subscription changes only while a session that speaks for it asks for that
name, and is recorded only when client and row are there; a session becomes a
member only by the answer to its own request, and may be taken out of
everything at any time, in the middle of a request too (`Depart`, `Arrive` of
another). `TopicRegistry` implements it (`DirectoryAsPromised`): a request
(`Asked`) lasts as long as the handler of the SUB or UNSUB, and a publication is
none, whatever rows it registers.

`Lifecycle` – `main`, `start`, `stop`, the destructor, the signal handler and the
threads in `io_context::run`. The signal handler runs on the main thread between
any two of its steps, `stop` included, so the calls of `stop` form a stack
(`calls`) and `main` goes on when it is empty. `accept`, `timer` and `reads` are the
work that keeps `run` from returning; the handlers that re-arm the first two
read `running_` in one step (`AskRunning`) and start the operation in another
(`Rearm`). A thread may be refused (`SpawnThrows`); an exception in a session's
handler ends its thread. The behaviour ends with the destruction of the broker.
`early` records that a signal stopped the broker during `start`.

`Wire` – packets on one connection. A packet is a header and a cell for each
byte of its payload; a cell is named by its packet and place, so that the
contents of packets never matter. `async_write` writes what there is room for at
once (`Send`); the rest comes from a buffer that was local to `send_packet`, so a
later write (`WriteOn`) takes the bytes that were there or junk, and other
packets may get ahead of it. The reader is `read_header` and `read_payload`; the
clients frame packets in the same way. The model does not say what a peer does
with a stream that has gone wrong, only that it has (`lost`, 0 in `got`). `torn`
records packets that were not written at once.

`MCBroker`, `MCTopicAdmin`, `MCTopicRegistry` – instances for TLC; `Lifecycle` and
`Wire` are parameterised by numbers and need none. `BrokerRegistryProofs`,
`BrokerRoutingProofs`, `PubSubProofs`, `TopicAdminProofs`,
`TopicRegistryProofs`, `LifecycleProofs`, `WireProofs` and `AdminPost` hold the
theorems.

## 3. Runs

Deadlock is checked in all runs but two: the activity timer of `Broker` and the
peers of `TopicAdmin` and `TopicRegistry` go on for ever. `Lifecycle` ends with the
process, and `Wire` with its last packet. Symmetry is used only in runs without temporal properties that need
fairness.

| run | instance | checks |
|---|---|---|
| takeover | 2 connections, 2 clients, 3 threads, repeated CONN, administrator | `TypeOK`, `NoGhostSubscriber`, `NoGhostSession`, `AddressOfRegistered` |
| routing | 2 connections of 1 client, 2 threads, 2 publications, failing database | `RoutesAsPromised` (refinement of `PubSub`), `DeliveredInOrderOnce`, `SubscriptionsIsolated` |
| live | `FairSpec`, 2 connections of 1 client that send CONN once, no publications, administrator | `DeadForgotten`, `InactiveKicked` |
| handlers | `HandlerSpec`, 1 publication per behaviour, payloads that are not UTF-8 | `HandlersReturn`, `ThrownReachesNobody` |
| admin_race | 2 clients, 2 threads, failing database, restarts, both ways of answering | `TypeOK`, `SingleAdmin`, `AdminsAsked`, `PostAsPromised` (refinement of `AdminPost`) |
| admin_packets | 2 clients, 2 threads, restarts, answers by packet | `RevokedIsNotAdmin` |
| admin_serial | 2 clients, 1 thread, sensors, restarts | `AdminIsApproved`, `NoticesInStep`, `DeviceInStep` |
| registry | 2 connections that send CONN once, 2 clients, name `c1/a`, failing database, restarts | `TypeOK`, `References`, `CacheTruthful`, `AllLogged`, `SubscribedIsActive`, `DirectoryAsPromised` (refinement of `TopicDirectory`) |
| lifecycle | `FairSpec`, 2 threads, 2 signals | `TypeOK`, `NobodyLeft`, `AbortedOnlyEarly`, `StopCompletes`, `EnterEnds` |
| wire | lengths modulo 3, payloads of 0, 2 and 3 bytes, room for 4, 4 packets | `TypeOK`, `ReadAsSent`, `AllRead` |

Two more runs find the violations of section 4.

Bounds. `Sessions`: each connection is used once, so two of them give one
takeover, the removal of the superseded connection beside the life of its
successor, and every race of reader, writer and monitor on one connection.
`Workers` = 3 lets three removals of one connection overlap; two threads are
enough where a property needs a publisher and one other. `MaxPub` bounds the
publications of a behaviour: two for order and duplicates, one to see a
publication throw or settle, none in `live`, where one multiplies the states
beyond what a run can check for liveness. So no thread and no chain is lost in
`live`, and the cases that its properties except do not arise there; the
instance with one publication that may throw (537,362 states) was checked once
with the same result. `Operations` in `TopicAdmin` leaves the
sensors out where the property is about administrators only. One topic: no step
relates two topics. Two threads are two handlers interleaved, the smallest
instance of every check-then-act race. Two clients are an owner and a
requester; the owner can be a second requester, by naming the other as the
owner of a topic of the same name, so that an administrator is also replaced.
One thread stands for `--threads 1`, or for handlers that happen not to overlap.
In `registry` the two connections are two clients', or one client's: one
overtakes the other between any two of its calls, takes its place, or is removed
meanwhile. `c1/a` takes every branch for names with a prefix. A second name
without prefix that shares the row (13,395,164 states), and a second CONN
(3.6 million), were each checked once with the same result and are left
to the theorems, which hold for any names and connections and for either value
of `ReConnects`. A `VIEW` keeps what no action and no checked property reads out of the
states that are told apart: in the admin runs without `NoticesInStep` and
`DeviceInStep` what clients and devices were told (`Untold`), in `registry`
doubts about sessions that are not in the vector and not about to be. In
`lifecycle` one thread can be inside a handler while another leaves or waits to
be joined, and the second signal can interrupt the `stop` of the first, that of
`main` or that of the destructor; two threads also let a thread be refused after
one runs. In `wire` the sizes are an empty payload, the longest that a header
can announce and the first that it cannot; the longest packet fits the room
(3 cells with its header) only when at most one other cell waits, so packets are
written whole, in part, or not at all, and four of them let others get ahead of
a torn one.

Fairness. `HandlerFairness` (weak) says that a handler with a thread goes on:
it runs to completion on its thread, its database calls return (they carry a
result, if only an error), its mutexes are released by holders that are
themselves fair. `QueueFairness` (strong) says that a completed operation's
handler starts: asio's queue is first in, first out, but a thread is free only
now and then. Peers and the administrator are never fair. Starvation of a
`std::mutex` beyond this is not modelled. In `Lifecycle` the main thread and its
calls of `stop` go on, and so do the pool threads inside a handler or on their way out of
`run`; Enter and signals are never fair, and no thread has to take up work. In
`Wire` the reader reads what has arrived; no write has to be completed.

## 4. Findings

Each is a run that must find the violation.

| run | what the code says | what it does |
|---|---|---|
| kicked | "Disconnecting client marked as inactive by admin" (142) | the removal of a superseded session marks the id inactive and the monitor disconnects its successor |
| admin_regrant | revoked means not administrator (`broker.cpp:1145`, `db_manager.cpp:1079`) | `add_topic_admin` after the approval's own transaction can restore the administrator |

Of the same kind, visible in the actions named, but without a run of their own:

* "disconnecting old session" (`broker.cpp:634`): `Enter` drops one reference; the
  old session stays open and is served.
* "Thread pool for handling multiple connections concurrently"
  (`README.md:18`): a payload that is not UTF-8 ends a thread of it for good
  (`PublishThrows`).
* "verify that the user is owner or administrator" (`db_manager.cpp:1160`): the
  owner is refused unless it is administrator too (`SetSensor`).
* "shutting down..." (`main.cpp:9`): a signal stops the broker, and `main` goes on
  waiting for Enter (`Signal`, `Enter`). A signal before `running_` is set does
  nothing and the broker starts; one during `start` ends the process by
  `std::terminate` if threads were started after it (`AbortedOnlyEarly` says that
  nothing else does).
* "Topic name (format: [client_id]/topic_name)" (`docs/database_schema.md:36`):
  `register_topic` stores what follows the first '/' (`db_manager.cpp:435-441`),
  so names that differ only before it share a row (`RowOf`). An UNSUB of
  one makes the other's subscription inactive while its subscriber still
  receives (`Others`, `doubt`). The second owner of such a name is not recorded.
* A payload of 65,536 bytes or more is announced modulo 2^16 (`Announced`), and a
  packet that does not fit the socket's buffer at once is written on from freed
  memory, possibly behind other packets (`WriteOn`); `ReadAsSent` is therefore
  stated up to the first such packet.
* `remove_session` erases `sessions_[client_id]` whoever is registered there
  (`RemovalStep`), so the removal of a superseded session takes its successor
  out of the "currently connected client IDs" (`broker.cpp:104`).
* A second CONN leaves the session registered under its old id too (`Connect`):
  an entry of "client_id -> session" (`broker.h:84`) leads to another client's
  session. `SubscriptionsIsolated` is therefore proved, and checked, for clients
  that send CONN once. When such a connection dies, `remove_session` erases the
  entry of its second id only (`broker.cpp:663`, 678), and the first leads to a
  dead session for ever; when an administrator marks the first id inactive, the
  monitor finds the session under it in every round and never erases it.
  `DeadForgotten` and `InactiveKicked` say `~ReConnects` for that reason.
* A publication that throws (`PublishThrows`) leaves its connection without a
  read, so that nobody notices when it dies: it stays registered and subscribed.
  If every thread ends that way, nobody is removed at all, by the monitor
  neither. `DeadForgotten` and `InactiveKicked` except both cases by name.
* The removal of a superseded session takes the entry of its successor
  (`CutOff`), whose connection is open and served: notices and commands for it
  are dropped ("not connected") although the tables change. A client told
  "rejected" is approved later and not told, a device stays "on" that the table
  says is "off", with one thread and a working database. `NoticesInStep` and
  `DeviceInStep` except the clients in `cut`, and nobody else.
* A superseded session is served on: its UNSUB makes the client's row inactive
  (`broker.cpp:779`) after the successor's SUB made it active, and the successor
  is a subscriber with an inactive subscription (`Others`, `doubt`).
* The check for a pending request "is already done in handle_admin_request"
  (`db_manager.cpp:931`), but in another transaction (`Check`, `WriteRequest`):
  two requests of one client can both pass it.
* "You cannot request administration of your own topic" (`broker.cpp:981`)
  compares the requester with the owner the message names, not with the row's
  (`Passes`, check "self").

Not findings, since no document promises otherwise, but shown by
`TopicAdmin` when its serial properties are checked with two threads: with
overlapping handlers a request may be pending for the administrator itself
(`AdminIsApproved`), commands may reach a device in another order than the table
was written (`DeviceInStep`), and notices may arrive in the wrong order
(`NoticesInStep`). With one thread they hold, for clients that are not in `cut`.

## 5. Theorems

All are proved from the assumption of their module. `BrokerAssumption`,
`AdminAssumption` and `RegistryAssumption` say that sentinels lie outside the sets,
that flags are Boolean and that names have a row and at most one prefix;
`LifecycleAssumption` that there is a thread; `WireAssumption` that sizes are
natural numbers, and that a header can announce something and a socket hold
something. `AdminPost` and `PubSub` assume nothing.
The sets may have any size, infinite ones included, and bounds any value.

* `TypeCorrect` – `TypeOK` with two facts it needs: a handler that works on a
  topic has one, and a disconnecting monitor has a victim.
* `EndedUnsubscribed`, `EndedUnregistered` – `NoGhostSubscriber` and
  `NoGhostSession` are not inductive: that an ended chain leaves nothing
  behind depends on what was erased before it ended. `Erased` says that from
  the chain's own purge on, only what a connection adds itself could be there,
  and that it adds nothing any more; `LoginInv` relates a chain inside
  `handle_connect` to its id; `RegistrationExclusive` says that at most one
  chain is between `Register` and `Enter`, and holds `sessions_mutex_`.
* `AddressRecorded` – `AddrInv`: while a registration holds the mutex the row
  already names the new connection, and nobody else can read the map.
* `Isolation` – `SubscriptionsIsolated`, for clients that send CONN once
  (`~ReConnects`). It needs `Keyed`: a session found under an id has that id,
  which a second CONN breaks (section 4).
* `Refinement` – `RoutesAsPromised`, every step of `Broker` is a step of
  `PubSub` or a stutter under the mapping from multiplicities to sets. Needs
  `NoDuplicates` (a vector holds a session at most once, hence so does every
  copy) and `Settled` (a copy is empty unless its publisher is sending).
* `AbsOrderedOnce`, `NoDuplicateDelivery` – along every outbox the numbers of
  one publisher increase strictly, proved for `PubSub` and carried over by the
  refinement.
* `AdminTypes`, `OneAdmin` – types, and `SingleAdmin`, which is inductive once
  every write of the two tables is known to be one of the five of `Effect`.
* `RevocationLasts` – `RevokedIsNotAdmin` where owners answer with packets:
  no handler is then ever about to grant a second time (`NoGrants`), the very
  step that breaks it for JSON answers (finding *admin_regrant*).
* `SerialAgreement` – `AdminIsApproved` for at most one thread and a database
  that answers: what a handler has checked is still so when it writes
  (`StillSo`), which is what fails with two threads.

* `ThrownReachNobody` – `ThrownReachesNobody`: every entry of an outbox names a
  publication that was routed (`ThrownInv`), so the one that throws is new when
  its handler ends, and a chain that ended that way never moves again.
* `PostRefinement` – `PostAsPromised`: every step of `TopicAdmin` is a step of
  `AdminPost` or a stutter. What a table says of a request is its status, so
  each of the writes of `Effect` is one abstract step; `Noted` follows a
  JSON approval from its first transaction to its second, or to the restart
  that comes before it (`RestartPost`).
* `PostsAreAskedFor`, `OnlyThoseWhoAsked` – no holder without a request, proved
  for `AdminPost`, where a noted appointment must be part of the invariant, and
  carried over by the refinement as `AdminsAsked`.
* `NoticesAreTrue`, `DevicesAreInStep` – `NoticesInStep` and `DeviceInStep` for at most
  one thread and a database that answers. `NoticeInv` and `DeviceInv` say what the
  running handler is still to send, which accounts for any difference, except
  for clients whose session is `cut` off: that these are the only ones is what
  the theorems show. That an entry is missing only for a client that is cut off
  or has no session at all, which was told nothing, is part of the invariants.
* `RegistryTypes`, `NoDanglingRows`, `CachedIdsAreRight` – `TypeOK`, `References`,
  `CacheTruthful` are inductive together with `Handlers`: the topic id a
  handler carries is that of its name's row, which exists (`TablesIInv`). It
  holds across transactions because rows are never deleted.
* `PublicationsLogged` – `AllLogged`: after `register_topic` succeeds the
  second lookup can miss the row only by failing.
* `MembersSubscribed` – `SubscribedIsActive`: `MembersOf` is the property for all
  sessions, `PendingOf` says what a handler between `add_subscription` or
  `remove_subscription` and the change in memory has done and owes. Other
  sessions of the client may be between any two calls at the same time, and
  each session may be removed between any two of its own.
* `DirectoryRefinement` – `DirectoryAsPromised`: every step of `TopicRegistry` is a
  step of `TopicDirectory` or a stutter, with any number of connections of one
  client and removals in the middle of handlers. That a subscription is of the row of
  the name asked for, which exists, is `Handlers`: the id came from a lookup, or
  from a cache filled by one, calls ago. `Prefixed` says that only names with a
  prefix reach the database in a SUB.
* `WireTypes` – `TypeOK` of `Wire`, with `Bounded`: what waits for room was torn, no
  more of a packet is left than it has, and the reader is inside the payload
  that it waits for.
* `InOrderOnce` – `ReadAsSent`. A packet is whole when it and all before it fit
  their headers and were written at once. `Follows`: on the wire each cell of a
  whole packet is followed by its successor, which is the next cell of that
  packet, then the header of the next one, then nothing if there is none.
  `ToRead`: if the next packet to be read is whole, the reader is at it, and so
  is the head of the wire. `LastWritten`: while every packet is whole, the wire
  ends with the last cell of the last one, so that a new one is appended in its
  place. `GotInOrder` says what has been read. With these the reader need never
  see more than the first cell of the wire.
* `LifecycleTypes`, `NobodyIsLeft`, `NoOtherAbort` – `TypeOK`, `NobodyLeft`,
  `AbortedOnlyEarly`, for any pool and any number of nested signals. `Stopping`: while
  threads are joinable the broker runs, or some call on the stack is yet to
  join them, or a signal came early; `Cleared`: a call at "clear" finds all of
  them gone; `Destroyed`: whoever destroys the broker has a call of `stop` before
  it.

Only model-checked: liveness (`DeadForgotten`, `InactiveKicked`, `HandlersReturn`,
`StopCompletes`, `EnterEnds`, `AllRead`), which rests on fairness and ENABLED.

## 6. Not modelled

* The lists sent to clients and `connection_events`, which are read, or written,
  without effect on anything else; the PUB without message, which returns without
  an acknowledgement and changes nothing.
* `initialize` and `setup_schema`, which run before there is a client;
  `deserialize`, which nobody calls.
* Writes in `Broker`: it takes one to an open socket as delivered whole. What
  becomes of packets that are torn is in `Wire`, without the broker around it.
* Signals that arrive inside a library call of the main thread, and on pool
  threads. `Lifecycle` runs the handler on `main`, between its steps. In the code
  the handler prints, locks and closes the acceptor, none of which is
  async-signal-safe: while `main` is inside `async_accept`, `localtime` or an
  allocation it can wait for a lock that `main` holds, for ever; and since pool
  threads do not mask signals it may run on one of them, beside `main`. What
  `StopCompletes` and `EnterEnds` show is the part of this that the code's own
  steps decide.
* What handlers find after `~Broker` has ended, and what a handler that a signal
  interrupts may see of the data race on `running_` beyond an old or a new value.
* The command line, terminal output, scripts.

## 7. Plan

The project keeps to a dozen runs and to eight modules with theorems, so a new
question joins one of them. What is left is `Wire` as an implementation of
`Broker`'s outboxes, for packets that are written at once.
