------------------------------- MODULE Broker -------------------------------
(***************************************************************************)
(* The core of the TinyMQ broker: class Session (src/src/session.cpp) and  *)
(* the registry, routing and activity-monitor parts of class Broker        *)
(* (src/src/broker.cpp), run by a pool of threads.                         *)
(*                                                                         *)
(* An action is one completion handler, or the part of one between two     *)
(* points where another thread can observe it: the critical sections of    *)
(* topics_mutex_ and of db_mutex_ take no other lock inside and are one    *)
(* step each; sessions_mutex_ is held by register_session across both of   *)
(* them, so it is a variable.  Three kinds of thread activity exist:       *)
(*   reader[s]   the chain read_header -> process_packet -> read_header    *)
(*   writer[s]   completion handlers of failed writes to s                 *)
(*   monitor     the 2-second activity timer                               *)
(* All three may run remove_session for the same connection.               *)
(***************************************************************************)
EXTENDS Integers, Sequences, FiniteSets
LOCAL INSTANCE Functions

CONSTANTS
    Sessions,        \* TCP connections (Session objects), each used once
    Clients,         \* client ids
    Topics,
    NoSession, NoClient, NoTopic,   \* sentinels outside those sets
    Workers,         \* thread_pool_size_
    MaxPub,          \* bound: publications in a behaviour
    ReConnects,      \* may a client send CONN again on the same connection?
    BinaryPayloads,  \* may a published payload be other than UTF-8?
    DbMayFail,       \* may a database call fail (or the database be absent)?
    Markable         \* clients an administrator may mark inactive in the table

ASSUME BrokerAssumption ==
    /\ NoSession \notin Sessions
    /\ NoClient \notin Clients
    /\ NoTopic \notin Topics
    /\ {Workers, MaxPub} \subseteq Nat
    /\ {ReConnects, BinaryPayloads, DbMayFail} \subseteq BOOLEAN
    /\ Markable \subseteq Clients

VARIABLES
    sock,       \* sock[s]: "none" before accept, "open", or "dead" (reads and writes fail)
    clientId,   \* client_id_; is_authenticated_ is clientId[s] # NoClient
    reader,     \* where the read chain of s is
    topic,      \* topic of the packet the read chain of s is processing
    recips,     \* recips[p][r]: entries for r left in p's copy of the subscribers
    seqno,      \* number of publications of s routed (names its messages)
    acked,      \* last publication of s whose PUBACK was written
    outbox,     \* messages written to s, in order
    writer,     \* where the running write-failure handler of s is
    failed,     \* write-failure handlers of s queued and not started
    monitor,    \* where the activity monitor is
    listed,     \* the monitor's list of client ids
    victim,     \* the session the monitor is disconnecting
    sessions,   \* sessions_: client id -> session
    sessLock,   \* holder of sessions_mutex_ across steps
    subs,       \* topic_subscribers_: subs[t][s] = entries for s in the vector of t
    db,         \* clients table: row absent, or its column active
    addr,       \* clients table, last_ip and last_port: the connection they name
    workers     \* threads still inside io_context::run

connVars == <<sock, clientId, reader, topic>>
msgVars  == <<recips, seqno, acked, outbox>>
wfVars   == <<writer, failed>>
monVars  == <<monitor, listed, victim>>
dbVars   == <<db, addr>>
regVars  == <<sessions, sessLock, subs, dbVars>>
vars == <<connVars, msgVars, wfVars, monVars, regVars, workers>>

RemovalState == {"log", "erase", "purge"}
ReaderRest   == {"off", "reading", "ended", "crashed"}
ReaderState  == ReaderRest \cup RemovalState \cup
                {"connack", "register", "enter", "subscribe", "unsubscribe",
                 "publish", "send"}

NoRecips == [r \in Sessions |-> 0]

Init ==
    /\ sock = [s \in Sessions |-> "none"]
    /\ clientId = [s \in Sessions |-> NoClient]
    /\ reader = [s \in Sessions |-> "off"]
    /\ topic = [s \in Sessions |-> NoTopic]
    /\ recips = [s \in Sessions |-> NoRecips]
    /\ seqno = [s \in Sessions |-> 0]
    /\ acked = [s \in Sessions |-> 0]
    /\ outbox = [s \in Sessions |-> <<>>]
    /\ writer = [s \in Sessions |-> "idle"]
    /\ failed = [s \in Sessions |-> 0]
    /\ monitor = "waiting"
    /\ listed = {}
    /\ victim = NoSession
    /\ sessions = [c \in Clients |-> NoSession]
    /\ sessLock = NoSession
    /\ subs = [t \in Topics |-> NoRecips]
    /\ db = [c \in Clients |-> "absent"]
    /\ addr = [c \in Clients |-> NoSession]
    /\ workers = Workers

-----------------------------------------------------------------------------
(* Helpers                                                                 *)

\* Handlers that occupy a thread, and whether a queued handler can start.
Running == Cardinality({s \in Sessions : reader[s] \notin ReaderRest})
         + Cardinality({s \in Sessions : writer[s] # "idle"})
         + (IF monitor = "waiting" THEN 0 ELSE 1)
FreeWorker == Running < workers

\* send_packet to a connection that is gone: the completion handler of the
\* failed write is queued, unless the kernel still accepted the bytes.
WriteToDead(s) ==
    /\ sock[s] # "open"
    /\ failed' = [failed EXCEPT ![s] = @ + 1] \/ UNCHANGED failed

\* An acknowledgement: nothing in the model reads it, only its failure counts.
SendAck(s) == (sock[s] = "open" /\ UNCHANGED failed) \/ WriteToDead(s)

\* Mutant: sessions are matched by client id instead of by pointer.
WithoutClient(s) ==
    [t \in Topics |-> [r \in Sessions |-> IF clientId[r] = clientId[s] THEN 0 ELSE subs[t][r]]]

\* The subscriber table without session s (the erase/remove_if loops).
Without(s) == [t \in Topics |-> [subs[t] EXCEPT ![s] = 0]]

Go(s, state) == reader' = [reader EXCEPT ![s] = state]

\* register_client: needs the peer address, which a dead socket may not have.
RegisterClient(c, s) ==
    \/ db' = [db EXCEPT ![c] = "active"] /\ addr' = [addr EXCEPT ![c] = s]
    \/ (DbMayFail \/ sock[s] = "dead") /\ UNCHANGED dbVars

\* log_client_disconnect: a client without a row is left alone.
LogDisconnect(c) ==
    /\ \/ db' = [db EXCEPT ![c] = IF @ = "absent" THEN @ ELSE "inactive"]
       \/ DbMayFail /\ UNCHANGED db
    /\ UNCHANGED addr

\* One step of remove_session(s), from phase to next.  The client id is read
\* through a reference at each step.
RemovalStep(s, phase, next) ==
    \/ /\ phase = "log" /\ next = "erase"
       /\ LogDisconnect(clientId[s])
       /\ UNCHANGED <<sessions, sessLock, subs>>
    \/ /\ phase = "erase" /\ next = "purge"
       /\ sessLock = NoSession
       /\ sessions' = [sessions EXCEPT ![clientId[s]] = NoSession]
       /\ UNCHANGED <<sessLock, subs, dbVars>>
    \/ /\ phase = "purge" /\ next = "done"
       /\ subs' = Without(s)
       /\ UNCHANGED <<sessions, sessLock, dbVars>>

\* Mutant: remove_session also leaves a session alone that is not registered.
RemovalStartRegistered(s) ==
    IF clientId[s] = NoClient \/ sessions[clientId[s]] # s THEN "done" ELSE "log"

\* remove_session returns at once for a connection that never sent CONN.
RemovalStart(s) == IF clientId[s] = NoClient THEN "done" ELSE "log"

-----------------------------------------------------------------------------
(* The peers and the administrator                                         *)

\* accept_connections: a new Session starts reading.
Accept(s) ==
    /\ reader[s] = "off"
    /\ FreeWorker
    /\ sock' = [sock EXCEPT ![s] = "open"]
    /\ Go(s, "reading")
    /\ UNCHANGED <<clientId, topic, msgVars, wfVars, monVars, regVars, workers>>

\* The peer or the network ends the connection, whatever the broker is doing.
Hangup(s) ==
    /\ sock[s] = "open"
    /\ sock' = [sock EXCEPT ![s] = "dead"]
    /\ UNCHANGED <<clientId, reader, topic, msgVars, wfVars, monVars, regVars, workers>>

\* An administrator sets active = FALSE in the clients table.
MarkInactive(c) ==
    /\ c \in Markable
    /\ db[c] = "active"
    /\ db' = [db EXCEPT ![c] = "inactive"]
    /\ UNCHANGED <<connVars, msgVars, wfVars, monVars, sessions, sessLock, subs, addr, workers>>

-----------------------------------------------------------------------------
(* The read chain: one packet at a time                                    *)

\* A packet has arrived on s and a thread picks up its completion handler.
Receives(s) ==
    /\ reader[s] = "reading"
    /\ sock[s] = "open"
    /\ FreeWorker

\* handle_connect up to the CONNACK.
Connect(s, c) ==
    /\ Receives(s)
    /\ clientId[s] = NoClient \/ ReConnects
    /\ clientId' = [clientId EXCEPT ![s] = c]
    /\ Go(s, "connack")
    /\ UNCHANGED <<sock, topic, msgVars, wfVars, monVars, regVars, workers>>

\* handle_connect with an empty client id closes the socket.
ConnectEmpty(s) ==
    /\ Receives(s)
    /\ sock' = [sock EXCEPT ![s] = "dead"]
    /\ UNCHANGED <<clientId, reader, topic, msgVars, wfVars, monVars, regVars, workers>>

SendConnack(s) ==
    /\ reader[s] = "connack"
    /\ SendAck(s)
    /\ Go(s, "register")
    /\ UNCHANGED <<sock, clientId, topic, msgVars, writer, monVars, regVars, workers>>

\* Mutant: the database is updated before the mutex is taken.
RegisterUnlocked(s) ==
    /\ reader[s] = "register"
    /\ sessLock = NoSession
    /\ RegisterClient(clientId[s], s)
    /\ Go(s, "enter")
    /\ UNCHANGED <<sock, clientId, topic, msgVars, wfVars, monVars,
                   sessions, sessLock, subs, workers>>

\* register_session: take sessions_mutex_, record the client in the database.
Register(s) ==
    /\ reader[s] = "register"
    /\ sessLock = NoSession
    /\ sessLock' = s
    /\ RegisterClient(clientId[s], s)
    /\ Go(s, "enter")
    /\ UNCHANGED <<sock, clientId, topic, msgVars, wfVars, monVars, sessions, subs, workers>>

\* register_session, the rest: a session already registered under the id loses
\* its subscriptions, the new one takes its place, the mutex is released and
\* the next read is armed.
Enter(s) ==
    LET old == sessions[clientId[s]] IN
    /\ reader[s] = "enter"
    /\ subs' = IF old = NoSession THEN subs ELSE Without(old)
    /\ sessions' = [sessions EXCEPT ![clientId[s]] = s]
    /\ sessLock' = NoSession
    /\ Go(s, "reading")
    /\ UNCHANGED <<sock, clientId, topic, msgVars, wfVars, monVars, dbVars, workers>>

\* Publications so far, for the bound.
Published == SumFunction(seqno) + Cardinality({s \in Sessions : reader[s] = "publish"})

\* A SUB, UNSUB or PUB packet of an authenticated client.
Request(s, t, kind) ==
    /\ Receives(s)
    /\ clientId[s] # NoClient
    /\ kind = "publish" => Published < MaxPub
    /\ topic' = [topic EXCEPT ![s] = t]
    /\ Go(s, kind)
    /\ UNCHANGED <<sock, clientId, msgVars, wfVars, monVars, regVars, workers>>

\* End of a handler: write the acknowledgement, then arm the next read.
AckAndRead(s) ==
    /\ SendAck(s)
    /\ topic' = [topic EXCEPT ![s] = NoTopic]
    /\ Go(s, "reading")
    /\ UNCHANGED <<sock, clientId, writer, monVars, workers>>

\* Mutant: the vector is not searched for s first.
SubscribeAgain(s) ==
    /\ reader[s] = "subscribe"
    /\ subs' = [subs EXCEPT ![topic[s]][s] = @ + 1]
    /\ AckAndRead(s)
    /\ UNCHANGED <<msgVars, sessions, sessLock, dbVars>>

\* Broker::subscribe: append s unless the vector of the topic has it already.
Subscribe(s) ==
    /\ reader[s] = "subscribe"
    /\ subs' = [subs EXCEPT ![topic[s]][s] = IF @ = 0 THEN @ + 1 ELSE @]
    /\ AckAndRead(s)
    /\ UNCHANGED <<msgVars, sessions, sessLock, dbVars>>

\* Mutant: one entry is erased whether or not there is one.
UnsubscribeOne(s) ==
    /\ reader[s] = "unsubscribe"
    /\ subs' = [subs EXCEPT ![topic[s]][s] = @ - 1]
    /\ AckAndRead(s)
    /\ UNCHANGED <<msgVars, sessions, sessLock, dbVars>>

Unsubscribe(s) ==
    /\ reader[s] = "unsubscribe"
    /\ subs' = [subs EXCEPT ![topic[s]][s] = 0]
    /\ AckAndRead(s)
    /\ UNCHANGED <<msgVars, sessions, sessLock, dbVars>>

\* Broker::publish copies the subscribers of the topic under topics_mutex_.
Snapshot(s) ==
    /\ reader[s] = "publish"
    /\ recips' = [recips EXCEPT ![s] = subs[topic[s]]]
    /\ seqno' = [seqno EXCEPT ![s] = @ + 1]
    /\ UNCHANGED <<sock, clientId, topic, acked, outbox, wfVars, monVars, regVars>>

Publish(s) ==
    /\ Snapshot(s)
    /\ Go(s, "send")
    /\ UNCHANGED workers

\* Mutant: the packet is serialized inside the loop, so it throws half-way.
ThrowsInLoop(s) ==
    /\ BinaryPayloads
    /\ reader[s] = "send"
    /\ \E r \in Sessions : recips[s][r] > 0
    /\ Go(s, "crashed")
    /\ workers' = workers - 1
    /\ UNCHANGED <<sock, clientId, topic, msgVars, wfVars, monVars, regVars>>

\* json_msg.dump() throws for a payload that is not UTF-8 once there is anyone
\* to send it to; nothing catches it before the thread's own handler, so the
\* thread leaves io_context::run and the chain of s is never re-armed.
PublishThrows(s) ==
    /\ BinaryPayloads
    /\ reader[s] = "publish"
    /\ \E r \in Sessions : subs[topic[s]][r] > 0
    /\ Snapshot(s)
    /\ Go(s, "crashed")
    /\ workers' = workers - 1

\* Mutant: a dead subscriber is retried instead of skipped.
SendToRetries(s, r) ==
    /\ reader[s] = "send"
    /\ recips[s][r] > 0
    /\ IF sock[r] = "open"
         THEN /\ recips' = [recips EXCEPT ![s][r] = @ - 1]
              /\ outbox' = [outbox EXCEPT ![r] = Append(@, [from |-> s, n |-> seqno[s]])]
         ELSE UNCHANGED <<recips, outbox>>
    /\ UNCHANGED <<connVars, seqno, acked, wfVars, monVars, regVars, workers>>

\* One iteration of the distribution loop.
SendTo(s, r) ==
    /\ reader[s] = "send"
    /\ recips[s][r] > 0
    /\ recips' = [recips EXCEPT ![s][r] = @ - 1]
    /\ \/ /\ sock[r] = "open"
          /\ outbox' = [outbox EXCEPT ![r] = Append(@, [from |-> s, n |-> seqno[s]])]
          /\ UNCHANGED failed
       \/ WriteToDead(r) /\ UNCHANGED outbox
    /\ UNCHANGED <<connVars, seqno, acked, writer, monVars, regVars, workers>>

\* Mutant: the publication is acknowledged before it is distributed.
PubackEarly(s) ==
    /\ reader[s] = "send"
    /\ acked' = IF sock[s] = "open" THEN [acked EXCEPT ![s] = seqno[s]] ELSE acked
    /\ AckAndRead(s)
    /\ UNCHANGED <<recips, seqno, outbox, regVars>>

\* PUBACK, after the distribution loop.
Puback(s) ==
    /\ reader[s] = "send"
    /\ \A r \in Sessions : recips[s][r] = 0
    /\ acked' = IF sock[s] = "open" THEN [acked EXCEPT ![s] = seqno[s]] ELSE acked
    /\ AckAndRead(s)
    /\ UNCHANGED <<recips, seqno, outbox, regVars>>

\* Mutant: no removal while a write-failure handler is already removing s.
ReadFailsOnce(s) ==
    /\ reader[s] = "reading"
    /\ sock[s] = "dead"
    /\ FreeWorker
    /\ Go(s, IF RemovalStart(s) = "done" \/ writer[s] # "idle" THEN "ended" ELSE "log")
    /\ UNCHANGED <<sock, clientId, topic, msgVars, wfVars, monVars, regVars, workers>>

\* The armed read completes with an error: the chain ends in remove_session.
ReadFails(s) ==
    /\ reader[s] = "reading"
    /\ sock[s] = "dead"
    /\ FreeWorker
    /\ Go(s, IF RemovalStart(s) = "done" THEN "ended" ELSE "log")
    /\ UNCHANGED <<sock, clientId, topic, msgVars, wfVars, monVars, regVars, workers>>

ReaderRemoves(s) ==
    /\ reader[s] \in RemovalState
    /\ \E next \in {"erase", "purge", "done"} :
          /\ RemovalStep(s, reader[s], next)
          /\ Go(s, IF next = "done" THEN "ended" ELSE next)
    /\ UNCHANGED <<sock, clientId, topic, msgVars, wfVars, monVars, workers>>

-----------------------------------------------------------------------------
(* Completion handlers of failed writes                                    *)

WriteFails(s) ==
    /\ writer[s] = "idle"
    /\ failed[s] > 0
    /\ FreeWorker
    /\ failed' = [failed EXCEPT ![s] = @ - 1]
    /\ writer' = [writer EXCEPT ![s] = IF RemovalStart(s) = "done" THEN "idle" ELSE "log"]
    /\ UNCHANGED <<connVars, msgVars, monVars, regVars, workers>>

WriterRemoves(s) ==
    /\ writer[s] \in RemovalState
    /\ \E next \in {"erase", "purge", "done"} :
          /\ RemovalStep(s, writer[s], next)
          /\ writer' = [writer EXCEPT ![s] = IF next = "done" THEN "idle" ELSE next]
    /\ UNCHANGED <<connVars, msgVars, failed, monVars, workers>>

-----------------------------------------------------------------------------
(* check_client_activity, every two seconds                                *)

\* Mutant: the early return for an empty list does not schedule the next round.
MonitorListStops ==
    /\ monitor = "waiting"
    /\ FreeWorker
    /\ sessLock = NoSession
    /\ listed' = {c \in Clients : sessions[c] # NoSession}
    /\ monitor' = IF listed' = {} THEN "stopped" ELSE "query"
    /\ UNCHANGED <<connVars, msgVars, wfVars, victim, regVars, workers>>

\* The ids of the registered sessions, read under sessions_mutex_.
MonitorList ==
    /\ monitor = "waiting"
    /\ FreeWorker
    /\ sessLock = NoSession
    /\ listed' = {c \in Clients : sessions[c] # NoSession}
    /\ monitor' = IF listed' = {} THEN "waiting" ELSE "query"
    /\ UNCHANGED <<connVars, msgVars, wfVars, victim, regVars, workers>>

\* get_inactive_clients; a query that fails leaves the clients found before it.
MonitorQuery ==
    LET inactive == {c \in listed : db[c] = "inactive"} IN
    /\ monitor = "query"
    /\ \/ listed' = inactive
       \/ DbMayFail /\ listed' \in SUBSET inactive
    /\ monitor' = "kick"
    /\ UNCHANGED <<connVars, msgVars, wfVars, victim, regVars, workers>>

\* The loop over the inactive clients: look the session up again, by id.
MonitorLookup(c) ==
    /\ monitor = "kick"
    /\ c \in listed
    /\ sessLock = NoSession
    /\ listed' = listed \ {c}
    /\ victim' = sessions[c]
    /\ monitor' = IF sessions[c] = NoSession THEN "kick" ELSE "disconnect"
    /\ UNCHANGED <<connVars, msgVars, wfVars, regVars, workers>>

MonitorDisconnect ==
    /\ monitor = "disconnect"
    /\ sock' = [sock EXCEPT ![victim] = "dead"]
    /\ monitor' = IF RemovalStart(victim) = "done" THEN "kick" ELSE "log"
    /\ UNCHANGED <<clientId, reader, topic, msgVars, wfVars, listed, victim, regVars, workers>>

MonitorRemoves ==
    /\ monitor \in RemovalState
    /\ \E next \in {"erase", "purge", "done"} :
          /\ RemovalStep(victim, monitor, next)
          /\ monitor' = IF next = "done" THEN "kick" ELSE next
          /\ victim' = IF next = "done" THEN NoSession ELSE victim
    /\ UNCHANGED <<connVars, msgVars, wfVars, listed, workers>>

\* The list is done: start_client_activity_check schedules the next round.
MonitorRearm ==
    /\ monitor = "kick"
    /\ listed = {}
    /\ monitor' = "waiting"
    /\ UNCHANGED <<connVars, msgVars, wfVars, listed, victim, regVars, workers>>

-----------------------------------------------------------------------------
Environment ==
    \/ \E s \in Sessions : Accept(s) \/ Hangup(s) \/ ConnectEmpty(s)
    \/ \E s \in Sessions, c \in Clients : Connect(s, c)
    \/ \E s \in Sessions, t \in Topics, kind \in {"subscribe", "unsubscribe", "publish"} :
          Request(s, t, kind)
    \/ \E c \in Clients : MarkInactive(c)

\* The steps of a handler that has a thread.
ReaderStep(s) ==
    \/ SendConnack(s) \/ Register(s) \/ Enter(s)
    \/ Subscribe(s) \/ Unsubscribe(s)
    \/ Publish(s) \/ PublishThrows(s) \/ Puback(s)
    \/ \E r \in Sessions : SendTo(s, r)
    \/ ReaderRemoves(s)

MonitorStep ==
    \/ MonitorQuery \/ MonitorDisconnect \/ MonitorRemoves \/ MonitorRearm
    \/ \E c \in Clients : MonitorLookup(c)

Next ==
    \/ Environment
    \/ \E s \in Sessions : ReaderStep(s) \/ ReadFails(s) \/ WriteFails(s) \/ WriterRemoves(s)
    \/ MonitorList
    \/ MonitorStep

Spec == Init /\ [][Next]_vars

\* A running handler keeps its thread until it returns: weak fairness.
HandlerFairness ==
    /\ \A s \in Sessions : WF_vars(ReaderStep(s)) /\ WF_vars(WriterRemoves(s))
    /\ WF_vars(MonitorStep)

\* A completed operation waits in the FIFO queue of the io_context, so its
\* handler starts although threads are only free now and then: strong fairness.
\* What peers and administrators do carries none.
QueueFairness ==
    /\ \A s \in Sessions : SF_vars(ReadFails(s)) /\ SF_vars(WriteFails(s))
    /\ SF_vars(MonitorList)

HandlerSpec == Spec /\ HandlerFairness
FairSpec == HandlerSpec /\ QueueFairness

-----------------------------------------------------------------------------
TypeOK ==
    /\ sock \in [Sessions -> {"none", "open", "dead"}]
    /\ clientId \in [Sessions -> Clients \cup {NoClient}]
    /\ reader \in [Sessions -> ReaderState]
    /\ topic \in [Sessions -> Topics \cup {NoTopic}]
    /\ recips \in [Sessions -> [Sessions -> Nat]]
    /\ seqno \in [Sessions -> Nat]
    /\ acked \in [Sessions -> Nat]
    /\ outbox \in [Sessions -> Seq([from : Sessions, n : Nat])]
    /\ writer \in [Sessions -> RemovalState \cup {"idle"}]
    /\ failed \in [Sessions -> Nat]
    /\ monitor \in RemovalState \cup {"waiting", "query", "kick", "disconnect"}
    /\ listed \subseteq Clients
    /\ victim \in Sessions \cup {NoSession}
    /\ sessions \in [Clients -> Sessions \cup {NoSession}]
    /\ sessLock \in Sessions \cup {NoSession}
    /\ subs \in [Topics -> [Sessions -> Nat]]
    /\ db \in [Clients -> {"absent", "active", "inactive"}]
    /\ addr \in [Clients -> Sessions \cup {NoSession}]
    /\ workers \in Int

\* The broker keeps the promise of module PubSub: a refinement mapping.
PS == INSTANCE PubSub WITH
        subscribed <- [t \in Topics |-> {r \in Sessions : subs[t][r] > 0}],
        todo <- [p \in Sessions |-> {r \in Sessions : recips[p][r] > 0}]

RoutesAsPromised == PS!AbsSpec

\* A connection whose read chain has ended is nobody's subscriber, although
\* removals by other threads race with its own last SUB.
NoGhostSubscriber ==
    \A s \in Sessions : reader[s] = "ended" => \A t \in Topics : subs[t][s] = 0

\* ... and it is not the registered session of its client id, although it may
\* have registered after a write-failure handler had already removed it.
NoGhostSession ==
    \A s \in Sessions : (reader[s] = "ended" /\ clientId[s] # NoClient)
                            => sessions[clientId[s]] # s

\* register_session writes the clients row and the map entry under one lock:
\* the row of a registered client names the address of the session registered
\* under it, however registrations and removals of the id interleave.  (When
\* the peer is gone the address may be unknown and the row keeps the old one.)
AddressOfRegistered ==
    \A c \in Clients :
        (~DbMayFail /\ sessLock = NoSession /\ sessions[c] # NoSession)
            => addr[c] = sessions[c] \/ sock[sessions[c]] = "dead"

\* A payload that throws reaches none of the subscribers, not some of them,
\* and is not acknowledged.
ThrownReachesNobody ==
    \A s \in Sessions : reader[s] = "crashed" =>
        /\ acked[s] < seqno[s]
        /\ \A r \in Sessions : \A i \in 1..Len(outbox[r]) :
              outbox[r][i] # [from |-> s, n |-> seqno[s]]

\* No connection loses a subscription on behalf of anybody else: only its own
\* UNSUB, its own removal (by whichever thread), or a session that registers
\* under the same client id takes it away.  The removal of a superseded session
\* leaves the subscriptions of its successor alone.
LosesOnlyOwn ==
    \A s \in Sessions, t \in Topics :
        (subs[t][s] > 0 /\ subs'[t][s] = 0) =>
            \/ reader[s] = "unsubscribe" /\ topic[s] = t
            \/ reader[s] = "purge" \/ writer[s] = "purge"
            \/ monitor = "purge" /\ victim = s
            \/ \E n \in Sessions : reader[n] = "enter" /\ clientId[n] = clientId[s]

SubscriptionsIsolated == [][LosesOnlyOwn]_vars

\* The receivers' side of RoutesAsPromised: nobody gets a message twice, and
\* the messages of one publisher arrive in the order it published them.
DeliveredInOrderOnce == PS!OrderedOnce

\* A connection that dies is eventually, and for good, out of the subscriber
\* lists and no longer the session of its client.  Not so, and left out by
\* name: after a second CONN the entry under the first id stays; a connection
\* whose publication threw has no read armed that could fail; and a pool whose
\* every thread has ended that way removes nobody.
DeadForgotten ==
    ~ReConnects => \A s \in Sessions :
        (sock[s] = "dead" /\ clientId[s] # NoClient) ~>
            \/ reader[s] = "crashed" \/ workers <= 0
            \/ []((\A t \in Topics : subs[t][s] = 0) /\ \A c \in Clients : sessions[c] # s)

\* A client marked inactive while it has a session is eventually without one
\* or active again, unless no thread is left to run the monitor.  Not so after
\* a second CONN of the session: it is found under its first id, removed under
\* the second, and found again in every round.
InactiveKicked ==
    ~ReConnects => \A c \in Clients :
        (db[c] = "inactive" /\ sessions[c] # NoSession) ~>
            (db[c] = "active" \/ sessions[c] = NoSession \/ workers <= 0)

\* Every handler that a thread has started returns the thread to the pool.
HandlersReturn ==
    /\ \A s \in Sessions : (reader[s] \notin ReaderRest) ~> (reader[s] \in ReaderRest)
    /\ \A s \in Sessions : (writer[s] # "idle") ~> (writer[s] = "idle")
    /\ (monitor # "waiting") ~> (monitor = "waiting")

-----------------------------------------------------------------------------
(* What the code says and does not do; see the README's findings.          *)

\* broker.cpp:142, "Disconnecting client marked as inactive by admin".
OnlyMarkedAreKicked ==
    (monitor = "disconnect" /\ sock[victim] = "open") => clientId[victim] \in Markable
=============================================================================
