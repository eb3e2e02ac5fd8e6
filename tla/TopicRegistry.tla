--------------------------- MODULE TopicRegistry ---------------------------
(***************************************************************************)
(* The database side of SUB, UNSUB and PUB: topics, subscriptions and      *)
(* message_logs, and the broker's topic_id_cache_.  A packet's topic is a  *)
(* full name, "[client_id]/topic_name" as a rule; the topics table has a   *)
(* row for what follows the first '/'.  Handlers of several connections    *)
(* run on several threads: each DbManager call is one transaction under    *)
(* db_mutex_ and one step here, and other handlers run between two of      *)
(* them.  A step that stores what a query returned in the cache includes   *)
(* the store.  A client may have several connections, each with a handler  *)
(* of its own: the one that is registered last takes the place of another, *)
(* which is served on.  register_session and remove_session are a step     *)
(* each; what interleaves with their parts is in module Broker.            *)
(***************************************************************************)
EXTENDS Naturals, FiniteSets

CONSTANTS
    Sessions,    \* connections, each used once by a process
    Clients,
    Names,       \* topic names that packets carry
    Rows,        \* names in the topics table
    NoSession, NoClient, NoRow,   \* sentinels: no session, no prefix or owner, topic id -1
    ReConnects,  \* may a client send CONN again on the same connection?
    PrefixOf,    \* extract_client_id_from_topic
    RowOf        \* pure_topic_name of a name

ASSUME RegistryAssumption ==
    /\ NoSession \notin Sessions
    /\ NoClient \notin Clients
    /\ NoRow \notin Rows
    /\ ReConnects \in BOOLEAN
    /\ PrefixOf \in [Names -> Clients \cup {NoClient}]
    /\ RowOf \in [Names -> Rows]

VARIABLES
    known,      \* clients table: ids with a row
    owner,      \* topics table: owner_client_id, NoClient without a row
    shared,     \* topics table: rows whose publish column is TRUE
    active,     \* subscriptions table: active[c][r], "none" without a row
    clientId,   \* client_id_: whom a connection has sent CONN as
    sessions,   \* sessions_: client id -> session
    members,    \* topic_subscribers_: members[n], the sessions in n's vector
    cache,      \* topic_id_cache_: the row whose id is cached for a name
    task,       \* where the handler of a connection is
    doubt,      \* history: doubt[n], the sessions whose last SUB of n met a
                \* database call that failed, whose client sent an UNSUB of
                \* the row under another name or by another session since, or
                \* who sent CONN as another client
    missed      \* history: names with a publication that should be logged and
                \* was not

tables == <<known, owner, shared, active>>
vars == <<tables, clientId, sessions, members, cache, task, doubt, missed>>

Idle == [op |-> "idle"]
Step == {"find", "register", "refind", "record", "drop", "log", "memory"}
Task == {Idle} \cup [op : {"subscribe", "unsubscribe", "publish"}, name : Names,
                     step : Step, id : Rows \cup {NoRow}, due : BOOLEAN]
    \* id: the handler's topic_id while it is used; due: no call of this SUB or
    \* PUB has failed, and the client a publication names had a row when it began

Init ==
    /\ known = {}
    /\ owner = [r \in Rows |-> NoClient]
    /\ shared = {}
    /\ active = [c \in Clients |-> [r \in Rows |-> "none"]]
    /\ clientId = [s \in Sessions |-> NoClient]
    /\ sessions = [c \in Clients |-> NoSession]
    /\ members = [n \in Names |-> {}]
    /\ cache = [n \in Names |-> NoRow]
    /\ task = [s \in Sessions |-> Idle]
    /\ doubt = [n \in Names |-> {}]
    /\ missed = {}

-----------------------------------------------------------------------------
(* Helpers                                                                 *)

Name(s) == task[s].name
Row(s) == RowOf[Name(s)]
At(s, ops, step) == task[s].op \in ops /\ task[s].step = step
Idles(s) == task' = [task EXCEPT ![s] = Idle]

\* The handler goes on to a step that uses no topic id; failed: the call it
\* made has failed, which UNSUB does not tell from having nothing to remove.
Goto(s, step, failed) ==
    task' = [task EXCEPT ![s].step = step, ![s].id = NoRow,
                         ![s].due = @ /\ (failed => task[s].op = "unsubscribe")]

\* The call has returned the id of the name's row.
GotoWithId(s, step) ==
    task' = [task EXCEPT ![s].step = step, ![s].id = Row(s)]

Begin(s, op, n, step, id) ==
    task' = [task EXCEPT ![s] = [op |-> op, name |-> n, step |-> step, id |-> id,
                                 due |-> op = "publish" => PrefixOf[n] \in known]]

\* The database part of a publication ends without a row in message_logs.
Unlogged(s, failed) ==
    /\ Idles(s)
    /\ missed' = IF task[s].due /\ ~failed THEN missed \cup {Name(s)} ELSE missed

\* The other ways of the client of s to the row of its packet's name: the
\* sessions that are in n's vector for it, or about to be.
Others(s, n) ==
    {q \in Sessions : /\ RowOf[n] = Row(s)
                      /\ clientId[q] = clientId[s]
                      /\ q # s \/ n # Name(s)}

Exists(r) == owner[r] # NoClient

\* Mutant: the row is given to whoever registers it last.
RegisteredOver(r, c) == [owner EXCEPT ![r] = c]

\* register_topic keeps a row that exists, whoever owns it.
Registered(r, c) == [owner EXCEPT ![r] = IF @ = NoClient THEN c ELSE @]

-----------------------------------------------------------------------------
(* Connections, and the process                                            *)

\* The vectors without a session (the erase/remove_if loops).
Without(s) == [n \in Names |-> members[n] \ {s}]

\* CONN, the first or a later one, and register_session: a session registered
\* under the id is taken out of all vectors, and is served on.
Connect(s, c) ==
    /\ task[s] = Idle
    /\ clientId[s] = NoClient \/ ReConnects
    /\ clientId' = [clientId EXCEPT ![s] = c]
    /\ \/ known' = known \cup {c}
       \/ UNCHANGED known
    /\ members' = IF sessions[c] = NoSession THEN members ELSE Without(sessions[c])
    /\ sessions' = [sessions EXCEPT ![c] = s]
    /\ doubt' = IF clientId[s] \in {c, NoClient} THEN doubt
                ELSE [n \in Names |-> doubt[n] \cup {s}]
    /\ UNCHANGED <<owner, shared, active, cache, task, missed>>

\* remove_session, by whichever thread, so at any point of the session's own
\* handler: whoever is registered under the id loses its entry, and s leaves
\* the vectors.  The subscriptions table is left alone.
RemoveSession(s) ==
    /\ clientId[s] # NoClient
    /\ sessions' = [sessions EXCEPT ![clientId[s]] = NoSession]
    /\ members' = Without(s)
    /\ UNCHANGED <<tables, clientId, cache, task, doubt, missed>>

\* A crash between any two steps and a new process: only the tables are left.
Restart ==
    /\ clientId' = [s \in Sessions |-> NoClient]
    /\ sessions' = [c \in Clients |-> NoSession]
    /\ members' = [n \in Names |-> {}]
    /\ cache' = [n \in Names |-> NoRow]
    /\ task' = [s \in Sessions |-> Idle]
    /\ doubt' = [n \in Names |-> {}]
    /\ UNCHANGED <<tables, missed>>

-----------------------------------------------------------------------------
(* The packets                                                             *)

\* Broker::subscribe: only names with a prefix are recorded in the database.
Subscribe(s, n) ==
    /\ clientId[s] # NoClient
    /\ task[s] = Idle
    /\ Begin(s, "subscribe", n, IF PrefixOf[n] = NoClient THEN "memory" ELSE "find", NoRow)
    /\ doubt' = [doubt EXCEPT ![n] = @ \ {s}]
    /\ UNCHANGED <<tables, clientId, sessions, members, cache, missed>>

\* Broker::unsubscribe looks in the cache first, whatever the name.
Unsubscribe(s, n) ==
    /\ clientId[s] # NoClient
    /\ task[s] = Idle
    /\ Begin(s, "unsubscribe", n, IF cache[n] = NoRow THEN "find" ELSE "drop", cache[n])
    /\ UNCHANGED <<tables, clientId, sessions, members, cache, doubt, missed>>

\* Broker::publish, the database part; the distribution to the subscribers
\* comes after it and is in module Broker.
Publish(s, n) ==
    /\ clientId[s] # NoClient
    /\ task[s] = Idle
    /\ PrefixOf[n] # NoClient
    /\ Begin(s, "publish", n, IF cache[n] = NoRow THEN "find" ELSE "log", cache[n])
    /\ UNCHANGED <<tables, clientId, sessions, members, cache, doubt, missed>>

\* The JSON messages __topic_create, __topic_publish_update and __topic_publish
\* name a client, which is not compared with the one that sends them, and a
\* topic, which stands for a row.
TopicCreate(r, c) ==
    /\ \E s \in Sessions : clientId[s] # NoClient
    /\ c \in known
    /\ owner' = Registered(r, c)
    /\ UNCHANGED <<known, shared, active, clientId, sessions, members, cache, task, doubt, missed>>

SetTopicPublish(r, on) ==
    /\ \E s \in Sessions : clientId[s] # NoClient
    /\ Exists(r)
    /\ shared' = IF on THEN shared \cup {r} ELSE shared \ {r}
    /\ UNCHANGED <<known, owner, active, clientId, sessions, members, cache, task, doubt, missed>>

-----------------------------------------------------------------------------
(* The handlers' database calls, in the order of the code                  *)

\* Mutant: what is not found is cached like what is.
GetTopicIdCaches(s) ==
    /\ At(s, {"subscribe", "unsubscribe", "publish"}, "find")
    /\ \/ Exists(Row(s)) /\ GotoWithId(s, IF task[s].op = "publish" THEN "log" ELSE "memory")
       \/ Goto(s, IF task[s].op = "unsubscribe" THEN "memory" ELSE "register", ~Exists(Row(s)))
    /\ cache' = [cache EXCEPT ![Name(s)] = Row(s)]
    /\ UNCHANGED <<tables, clientId, sessions, members, doubt, missed>>

\* The first get_topic_id.  unsubscribe and publish store an id that is found
\* in the cache, subscribe does not.
GetTopicId(s) ==
    /\ At(s, {"subscribe", "unsubscribe", "publish"}, "find")
    /\ \/ /\ Exists(Row(s))
          /\ GotoWithId(s, CASE task[s].op = "subscribe" -> "record"
                             [] task[s].op = "unsubscribe" -> "drop"
                             [] task[s].op = "publish" -> "log")
          /\ cache' = IF task[s].op = "subscribe" THEN cache
                      ELSE [cache EXCEPT ![Name(s)] = Row(s)]
       \/ \E failed \in BOOLEAN :
             /\ failed \/ ~Exists(Row(s))
             /\ Goto(s, IF task[s].op = "unsubscribe" THEN "memory" ELSE "register", failed)
             /\ UNCHANGED cache
    /\ UNCHANGED <<tables, clientId, sessions, members, doubt, missed>>

\* Mutant: client_exists is forgotten.
RegisterTopicAnyone(s) ==
    /\ At(s, {"subscribe", "publish"}, "register")
    /\ owner' = Registered(Row(s), PrefixOf[Name(s)])
    /\ Goto(s, "refind", FALSE)
    /\ UNCHANGED <<known, shared, active, clientId, sessions, members, cache, doubt, missed>>

\* register_topic, for the client the name begins with.
RegisterTopic(s) ==
    /\ At(s, {"subscribe", "publish"}, "register")
    /\ \/ /\ PrefixOf[Name(s)] \in known
          /\ owner' = Registered(Row(s), PrefixOf[Name(s)])
          /\ Goto(s, "refind", FALSE)
          /\ UNCHANGED missed
       \/ \E failed \in BOOLEAN :
             /\ failed \/ PrefixOf[Name(s)] \notin known
             /\ IF task[s].op = "subscribe"
                THEN Goto(s, "memory", failed) /\ UNCHANGED missed
                ELSE Unlogged(s, failed)
             /\ UNCHANGED owner
    /\ UNCHANGED <<known, shared, active, clientId, sessions, members, cache, doubt>>

\* Mutants: an id that is not found is used all the same; the publication
\* that registered its topic is not logged.
GetNewIdUnchecked(s) ==
    /\ At(s, {"subscribe", "publish"}, "refind")
    /\ \/ GotoWithId(s, IF task[s].op = "subscribe" THEN "record" ELSE "log")
       \/ Goto(s, IF task[s].op = "subscribe" THEN "record" ELSE "log", TRUE)
    /\ UNCHANGED <<tables, clientId, sessions, members, cache, doubt, missed>>

GetNewIdUnlogged(s) ==
    /\ At(s, {"subscribe", "publish"}, "refind")
    /\ IF task[s].op = "subscribe" THEN GotoWithId(s, "record") /\ UNCHANGED <<cache, missed>>
       ELSE Unlogged(s, FALSE) /\ cache' = [cache EXCEPT ![Name(s)] = Row(s)]
    /\ UNCHANGED <<tables, clientId, sessions, members, doubt>>

\* get_topic_id after a registration; publish stores what it returns, -1 too.
GetNewId(s) ==
    /\ At(s, {"subscribe", "publish"}, "refind")
    /\ \/ /\ Exists(Row(s))
          /\ GotoWithId(s, IF task[s].op = "subscribe" THEN "record" ELSE "log")
          /\ cache' = IF task[s].op = "subscribe" THEN cache
                      ELSE [cache EXCEPT ![Name(s)] = Row(s)]
          /\ UNCHANGED missed
       \/ \E failed \in BOOLEAN :
             /\ failed \/ ~Exists(Row(s))
             /\ IF task[s].op = "subscribe"
                THEN Goto(s, "memory", failed) /\ UNCHANGED <<cache, missed>>
                ELSE Unlogged(s, failed) /\ cache' = [cache EXCEPT ![Name(s)] = NoRow]
    /\ UNCHANGED <<tables, clientId, sessions, members, doubt>>

\* Mutant: an inactive subscription is taken for one that is there.
AddSubscriptionIfNone(s) ==
    /\ At(s, {"subscribe"}, "record")
    /\ clientId[s] \in known
    /\ active' = [active EXCEPT ![clientId[s]][task[s].id] = IF @ = "none" THEN "active" ELSE @]
    /\ Goto(s, "memory", FALSE)
    /\ UNCHANGED <<known, owner, shared, clientId, sessions, members, cache, doubt, missed>>

\* add_subscription refuses a client without a row; an inactive subscription
\* becomes active again.
AddSubscription(s) ==
    /\ At(s, {"subscribe"}, "record")
    /\ \/ /\ clientId[s] \in known
          /\ active' = [active EXCEPT ![clientId[s]][task[s].id] = "active"]
          /\ doubt' = [doubt EXCEPT ![Name(s)] = @ \ {s}]
          /\ Goto(s, "memory", FALSE)
       \/ \E failed \in BOOLEAN :
             /\ failed \/ clientId[s] \notin known
             /\ Goto(s, "memory", failed)
             /\ UNCHANGED <<active, doubt>>
    /\ UNCHANGED <<known, owner, shared, clientId, sessions, members, cache, missed>>

\* remove_subscription of the id that was cached or found.
RemoveSubscription(s) ==
    /\ At(s, {"unsubscribe"}, "drop")
    /\ \/ /\ active' = [active EXCEPT ![clientId[s]][task[s].id] =
                                       IF @ = "none" THEN @ ELSE "inactive"]
          /\ doubt' = [n \in Names |-> doubt[n] \cup Others(s, n)]
          /\ Goto(s, "memory", FALSE)
       \/ Goto(s, "memory", TRUE) /\ UNCHANGED <<active, doubt>>
    /\ UNCHANGED <<known, owner, shared, clientId, sessions, members, cache, missed>>

\* The change of topic_subscribers_ under topics_mutex_, which ends a handler.
JoinSubscribers(s) ==
    /\ At(s, {"subscribe"}, "memory")
    /\ members' = [members EXCEPT ![Name(s)] = @ \cup {s}]
    /\ doubt' = [doubt EXCEPT ![Name(s)] = IF task[s].due THEN @ ELSE @ \cup {s}]
    /\ Idles(s)
    /\ UNCHANGED <<tables, clientId, sessions, cache, missed>>

LeaveSubscribers(s) ==
    /\ At(s, {"unsubscribe"}, "memory")
    /\ members' = [members EXCEPT ![Name(s)] = @ \ {s}]
    /\ Idles(s)
    /\ UNCHANGED <<tables, clientId, sessions, cache, doubt, missed>>

\* log_message: message_logs refers to a row of clients.
LogMessage(s) ==
    /\ At(s, {"publish"}, "log")
    /\ \/ /\ PrefixOf[Name(s)] \in known
          /\ Idles(s)
          /\ UNCHANGED missed
       \/ \E failed \in BOOLEAN :
             /\ failed \/ PrefixOf[Name(s)] \notin known
             /\ Unlogged(s, failed)
    /\ UNCHANGED <<tables, clientId, sessions, members, cache, doubt>>

-----------------------------------------------------------------------------
Next ==
    \/ Restart
    \/ \E s \in Sessions : \/ RemoveSession(s)
                            \/ GetTopicId(s)
                            \/ RegisterTopic(s)
                            \/ GetNewId(s)
                            \/ AddSubscription(s)
                            \/ RemoveSubscription(s)
                            \/ JoinSubscribers(s)
                            \/ LeaveSubscribers(s)
                            \/ LogMessage(s)
    \/ \E s \in Sessions, c \in Clients : Connect(s, c)
    \/ \E s \in Sessions, n \in Names : \/ Subscribe(s, n)
                                         \/ Unsubscribe(s, n)
                                         \/ Publish(s, n)
    \/ \E r \in Rows, c \in Clients : TopicCreate(r, c)
    \/ \E r \in Rows, on \in BOOLEAN : SetTopicPublish(r, on)

Spec == Init /\ [][Next]_vars

-----------------------------------------------------------------------------
(* Properties                                                              *)

\* Every variable keeps to its type, no handler calls the database with -1 for
\* a topic id, and only connections that have sent CONN have handlers and are
\* in vectors.
TypeOK ==
    /\ known \subseteq Clients
    /\ owner \in [Rows -> Clients \cup {NoClient}]
    /\ shared \subseteq Rows
    /\ active \in [Clients -> [Rows -> {"none", "active", "inactive"}]]
    /\ clientId \in [Sessions -> Clients \cup {NoClient}]
    /\ sessions \in [Clients -> Sessions \cup {NoSession}]
    /\ members \in [Names -> SUBSET Sessions]
    /\ cache \in [Names -> Rows \cup {NoRow}]
    /\ task \in [Sessions -> Task]
    /\ \A s \in Sessions : task[s] # Idle /\ task[s].step \in {"record", "drop", "log"}
                             => task[s].id \in Rows
    /\ \A s \in Sessions : clientId[s] = NoClient
                             => task[s] = Idle /\ \A n \in Names : s \notin members[n]
    /\ doubt \in [Names -> SUBSET Sessions]
    /\ missed \subseteq Names

\* No row refers to one that is not there: owners are clients with a row, and
\* subscriptions are of clients and topics with a row.
References ==
    /\ \A r \in Rows : Exists(r) => owner[r] \in known
    /\ \A c \in Clients, r \in Rows : active[c][r] # "none" => c \in known /\ Exists(r)

\* The cache never leads a handler to another topic's row, or to one that is
\* gone: what is stored is the row of the name, which exists.
CacheTruthful ==
    \A n \in Names : cache[n] # NoRow => cache[n] = RowOf[n] /\ Exists(cache[n])

\* A publication under the name of a client with a row is logged unless one of
\* its database calls fails, however the topic comes to have a row meanwhile.
AllLogged == missed = {}

\* A session in the vector of a name with a prefix has no inactive subscription
\* of its row, unless a database call failed in its SUB, its client has since
\* sent an UNSUB of the row by another session or under another name, or it has
\* sent CONN as another client.  Its own removals and registrations, in the
\* middle of its handlers too, other clients' handlers and new processes leave
\* no such member.
SubscribedIsActive ==
    \A n \in Names : \A s \in members[n] \ doubt[n] :
        PrefixOf[n] # NoClient /\ task[s] = Idle => active[clientId[s]][RowOf[n]] # "inactive"

\* What a session has asked for, as module TopicDirectory has it.
Asked(op) == [s \in Sessions |-> IF task[s].op = op THEN {Name(s)} ELSE {}]

Directory == INSTANCE TopicDirectory WITH
    joining <- Asked("subscribe"),
    leaving <- Asked("unsubscribe")

\* Tables and subscriber lists change only as module TopicDirectory promises:
\* the cache, the transactions of other handlers between two calls of one, a
\* failing call and a crash add no change that a client did not ask for.
DirectoryAsPromised == Directory!DirectorySpec
=============================================================================
