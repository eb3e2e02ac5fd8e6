----------------------------- MODULE TopicAdmin -----------------------------
(***************************************************************************)
(* Topic administration: a client asks to administer a topic, the owner    *)
(* answers, revokes, the administrator resigns, and sets the sensors of    *)
(* the topic.  The requests arrive as packets or as JSON publications; all *)
(* state is in the database.  Every DbManager call is one transaction      *)
(* under db_mutex_, so it is one step here, and a handler that makes       *)
(* several calls (class Broker) can be interleaved between any two.        *)
(***************************************************************************)
EXTENDS Integers, Sequences

CONSTANTS
    Clients,
    Topics,
    NoClient,   \* sentinel outside Clients: no topics row, no client named
    Prefix,     \* Prefix[t]: the client id before a '/' in the row name of t, if any
    Threads,    \* threads that may be inside an administrative handler
    Answers,    \* ways in which owners answer: "packet", "json"
    Operations, \* bound: the operations clients use
    DbMayFail   \* may a database call fail?

ASSUME AdminAssumption ==
    /\ NoClient \notin Clients
    /\ Prefix \in [Topics -> Clients \cup {NoClient}]
    /\ Answers \subseteq {"packet", "json"}
    /\ Operations \subseteq {"request", "answer", "revoke", "resign", "set"}
    /\ DbMayFail \in BOOLEAN

VARIABLES
    known,       \* clients table: ids with a row
    online,      \* ids with a session in sessions_
    owner,       \* topics table: owner_client_id, or NoClient without a row
    subscribed,  \* subscriptions table: clients with an active row for the topic
    request,     \* admin_requests table: status, "none" without a row
    admin,       \* topic_admins table: the administrators of a topic
    sensor,      \* admin_sensor_config: active column of the topic's sensor
    device,      \* last command the owner's present session was sent for it; a
                 \* client's present session is the last one to send CONN
    denied,      \* clients whose present session was last told they are not admin
    cut,         \* history: clients whose present session lives on without an
                 \* entry in sessions_, so that nothing is sent to it
    task         \* what the handler on a thread is doing

dbTables == <<owner, subscribed, request, admin, sensor>>
seen == <<device, denied, cut>>
vars == <<known, online, dbTables, seen, task>>

Status == {"none", "pending", "approved", "rejected", "revoked"}
Value  == {"unset", "on", "off"}

\* The checks of a request, in the order of handle_admin_request and of the
\* JSON branch of publish.
Checks == [packet |-> <<"self", "status", "requester", "owner", "topic", "subscribed", "admin">>,
           json   |-> <<"status", "requester", "owner", "topic", "self", "subscribed", "admin">>]

Idle    == [op |-> "idle"]
Request == [op : {"request"}, via : {"packet", "json"}, step : 1..8,
            by : Clients, topic : Topics, named : Clients]
Result  == [op : {"grant", "notify"}, topic : Topics, about : Clients,
            value : {"approved", "rejected", "revoked"}]
Command == [op : {"set", "command"}, by : Clients, topic : Topics,
            to : Clients \cup {NoClient}, value : {"on", "off"}]
Task == {Idle} \cup Request \cup Result \cup Command

Init ==
    /\ known = {}
    /\ online = {}
    /\ owner = [t \in Topics |-> NoClient]
    /\ subscribed = [t \in Topics |-> {}]
    /\ request = [t \in Topics |-> [c \in Clients |-> "none"]]
    /\ admin = [t \in Topics |-> {}]
    /\ sensor = [t \in Topics |-> "unset"]
    /\ device = [t \in Topics |-> "unset"]
    /\ denied = [t \in Topics |-> {}]
    /\ cut = {}
    /\ task = [h \in Threads |-> Idle]

Becomes(h, next) == task' = [task EXCEPT ![h] = next]
Free(h) == task[h] = Idle

-----------------------------------------------------------------------------
(* What the other parts of the broker do to the state used here            *)

\* What is known of the peer when c gets another session, or none.
Forgotten(c) ==
    /\ device' = [t \in Topics |-> IF owner[t] = c THEN "unset" ELSE device[t]]
    /\ denied' = [t \in Topics |-> denied[t] \ {c}]
    /\ cut' = cut \ {c}

\* register_session: an entry in sessions_, or in the place of another one, and
\* a clients row unless the database call fails.
Connect(c) ==
    /\ online' = online \cup {c}
    /\ known' = known \cup {c} \/ (DbMayFail /\ UNCHANGED known)
    /\ Forgotten(c)
    /\ UNCHANGED <<dbTables, task>>

\* remove_session of the present session, when its connection ends.
Disconnect(c) ==
    /\ c \in online \cup cut
    /\ online' = online \ {c}
    /\ Forgotten(c)
    /\ UNCHANGED <<known, dbTables, task>>

\* remove_session of one that the present session took the place of: it erases
\* the entry of the id all the same.
CutOff(c) ==
    /\ c \in online
    /\ online' = online \ {c}
    /\ cut' = cut \cup {c}
    /\ UNCHANGED <<known, dbTables, device, denied, task>>

\* A crash between any two transactions, or stop, and a new process: only the
\* tables are left.
Restart ==
    /\ online' = {}
    /\ device' = [t \in Topics |-> "unset"]
    /\ denied' = [t \in Topics |-> {}]
    /\ cut' = {}
    /\ task' = [h \in Threads |-> Idle]
    /\ UNCHANGED <<known, dbTables>>

\* register_topic: the first client to register a name owns it.
RegisterTopic(c, t) ==
    /\ c \in known
    /\ owner[t] = NoClient
    /\ owner' = [owner EXCEPT ![t] = c]
    /\ UNCHANGED <<known, online, subscribed, request, admin, sensor, seen, task>>

\* add_subscription and remove_subscription.
AddSubscription(c, t) ==
    /\ c \in known
    /\ owner[t] # NoClient
    /\ subscribed' = [subscribed EXCEPT ![t] = @ \cup {c}]
    /\ UNCHANGED <<known, online, owner, request, admin, sensor, seen, task>>

RemoveSubscription(c, t) ==
    /\ subscribed' = [subscribed EXCEPT ![t] = @ \ {c}]
    /\ UNCHANGED <<known, online, owner, request, admin, sensor, seen, task>>

-----------------------------------------------------------------------------
(* A request, one database call per step                                   *)

\* A packet names the owner by the prefix of the topic name, a JSON message
\* by a field; JSON requests of clients without a session are dropped.
StartRequest(h, c, t, o, via) ==
    /\ Free(h)
    /\ via = "packet" => o = Prefix[t]
    /\ via = "json" => c \in online
    /\ Becomes(h, [op |-> "request", via |-> via, step |-> 1, by |-> c, topic |-> t, named |-> o])
    /\ UNCHANGED <<known, online, dbTables, seen>>

\* Mutant: the check of topic_has_admin is forgotten.
PassesAnyAdmin(check, r) ==
    \/ check = "self"       /\ r.named # r.by
    \/ check = "status"     /\ request[r.topic][r.by] # "pending"
    \/ check = "requester"  /\ r.by \in known
    \/ check = "owner"      /\ r.named \in known
    \/ check = "topic"      /\ owner[r.topic] # NoClient
    \/ check = "subscribed" /\ r.by \in subscribed[r.topic]
    \/ check = "admin"

Passes(check, r) ==
    \/ check = "self"       /\ r.named # r.by
    \/ check = "status"     /\ request[r.topic][r.by] # "pending"
    \/ check = "requester"  /\ r.by \in known
    \/ check = "owner"      /\ r.named \in known
    \/ check = "topic"      /\ owner[r.topic] # NoClient
    \/ check = "subscribed" /\ r.by \in subscribed[r.topic]
    \/ check = "admin"      /\ admin[r.topic] = {}

\* A query that fails reads as "ERROR" or false, which lets a request pass
\* check_admin_request_status and topic_has_admin and stops it elsewhere.
Outcome(check, r, ok) ==
    \/ ok = Passes(check, r)
    \/ DbMayFail /\ check # "self" /\ ok = (check \in {"status", "admin"})

\* The next check: the request goes on, or is answered with an error.
Check(h) ==
    LET r == task[h] IN
    /\ r.op = "request"
    /\ r.step \in 1..7
    /\ \E ok \in BOOLEAN :
          /\ Outcome(Checks[r.via][r.step], r, ok)
          /\ Becomes(h, IF ok THEN [r EXCEPT !.step = @ + 1] ELSE Idle)
    /\ UNCHANGED <<known, online, dbTables, seen>>

\* request_admin_status: whatever status the row has becomes pending.
WriteRequest(h) ==
    LET r == task[h] IN
    /\ r.op = "request"
    /\ r.step = 8
    /\ \/ owner[r.topic] # NoClient /\ request' = [request EXCEPT ![r.topic][r.by] = "pending"]
       \/ DbMayFail /\ UNCHANGED request
    /\ Becomes(h, Idle)
    /\ UNCHANGED <<known, online, owner, subscribed, admin, sensor, seen>>

-----------------------------------------------------------------------------
(* The owner's answer                                                      *)

\* Mutant: the approval does not delete the administrator there is.
RespondAdds(h, o, t, c, status, via) ==
    /\ Free(h)
    /\ via = "json" => o \in online
    /\ owner[t] = o
    /\ request[t][c] = "pending"
    /\ request' = [request EXCEPT ![t][c] = status]
    /\ admin' = IF status = "approved" THEN [admin EXCEPT ![t] = @ \cup {c}] ELSE admin
    /\ Becomes(h, [op |-> IF via = "json" /\ status = "approved" THEN "grant" ELSE "notify",
                   topic |-> t, about |-> c, value |-> status])
    /\ UNCHANGED <<known, online, owner, subscribed, sensor, seen>>

\* Mutant: nobody looks whether the UPDATE found a pending request.
RespondUnasked(h, o, t, c, status, via) ==
    /\ Free(h)
    /\ via = "json" => o \in online
    /\ owner[t] = o
    /\ request' = [request EXCEPT ![t][c] = IF @ = "pending" THEN status ELSE @]
    /\ admin' = IF status = "approved" THEN [admin EXCEPT ![t] = {c}] ELSE admin
    /\ Becomes(h, [op |-> IF via = "json" /\ status = "approved" THEN "grant" ELSE "notify",
                   topic |-> t, about |-> c, value |-> status])
    /\ UNCHANGED <<known, online, owner, subscribed, sensor, seen>>

\* respond_to_admin_request succeeds for the owner and a pending request; an
\* approval replaces the administrator.  (The JSON branch looks the owner's
\* session up first; nothing it does depends on the session afterwards.)
Respond(h, o, t, c, status, via) ==
    /\ Free(h)
    /\ via = "json" => o \in online
    /\ owner[t] = o
    /\ request[t][c] = "pending"
    /\ request' = [request EXCEPT ![t][c] = status]
    /\ admin' = IF status = "approved" THEN [admin EXCEPT ![t] = {c}] ELSE admin
    /\ Becomes(h, [op |-> IF via = "json" /\ status = "approved" THEN "grant" ELSE "notify",
                   topic |-> t, about |-> c, value |-> status])
    /\ UNCHANGED <<known, online, owner, subscribed, sensor, seen>>

\* Mutant: the second transaction replaces the administrator, as the first does.
GrantReplaces(h) ==
    LET r == task[h] IN
    /\ r.op = "grant"
    /\ admin' = [admin EXCEPT ![r.topic] = {r.about}]
    /\ Becomes(h, [r EXCEPT !.op = "notify"])
    /\ UNCHANGED <<known, online, owner, subscribed, request, sensor, seen>>

\* add_topic_admin, which the JSON branch calls after an approval: a second
\* transaction, that does nothing while the topic has an administrator.
Grant(h) ==
    LET r == task[h] IN
    /\ r.op = "grant"
    /\ \/ /\ admin[r.topic] = {}
          /\ admin' = [admin EXCEPT ![r.topic] = {r.about}]
       \/ (DbMayFail \/ admin[r.topic] # {}) /\ UNCHANGED admin
    /\ Becomes(h, [r EXCEPT !.op = "notify"])
    /\ UNCHANGED <<known, online, owner, subscribed, request, sensor, seen>>

\* Mutant: only the status of the request is changed.
RevokeKeepsRow(h, o, t, c) ==
    /\ Free(h)
    /\ owner[t] = o
    /\ c \in admin[t]
    /\ request' = [request EXCEPT ![t][c] = IF @ = "approved" THEN "revoked" ELSE @]
    /\ Becomes(h, [op |-> "notify", topic |-> t, about |-> c, value |-> "revoked"])
    /\ UNCHANGED <<known, online, owner, subscribed, admin, sensor, seen>>

\* revoke_admin_status.
Revoke(h, o, t, c) ==
    /\ Free(h)
    /\ owner[t] = o
    /\ c \in admin[t]
    /\ admin' = [admin EXCEPT ![t] = @ \ {c}]
    /\ request' = [request EXCEPT ![t][c] = IF @ = "approved" THEN "revoked" ELSE @]
    /\ Becomes(h, [op |-> "notify", topic |-> t, about |-> c, value |-> "revoked"])
    /\ UNCHANGED <<known, online, owner, subscribed, sensor, seen>>

\* notify_admin_result and notify_admin_revocation.
Notify(h) ==
    LET r == task[h] IN
    /\ r.op = "notify"
    /\ denied' = IF r.about \in online
                   THEN [denied EXCEPT ![r.topic] =
                            IF r.value = "approved" THEN @ \ {r.about} ELSE @ \cup {r.about}]
                   ELSE denied
    /\ Becomes(h, Idle)
    /\ UNCHANGED <<known, online, dbTables, device, cut>>

\* Mutants: only the status is changed; the status is one the table refuses.
ResignKeepsRow(h, c, t) ==
    /\ Free(h)
    /\ c \in admin[t]
    /\ request' = [request EXCEPT ![t][c] = IF @ = "approved" THEN "revoked" ELSE @]
    /\ UNCHANGED <<known, online, owner, subscribed, admin, sensor, seen, task>>

ResignResigned(h, c, t) ==
    /\ Free(h)
    /\ c \in admin[t]
    /\ admin' = [admin EXCEPT ![t] = @ \ {c}]
    /\ request' = [request EXCEPT ![t][c] = IF @ = "approved" THEN "resigned" ELSE @]
    /\ UNCHANGED <<known, online, owner, subscribed, sensor, seen, task>>

\* resign_admin_status; the owner is told, nobody else's state changes.
Resign(h, c, t) ==
    /\ Free(h)
    /\ c \in admin[t]
    /\ admin' = [admin EXCEPT ![t] = @ \ {c}]
    /\ request' = [request EXCEPT ![t][c] = IF @ = "approved" THEN "revoked" ELSE @]
    /\ UNCHANGED <<known, online, owner, subscribed, sensor, seen, task>>

-----------------------------------------------------------------------------
(* Sensors                                                                 *)

\* Whom to command: the client named in the topic, or else its owner as far
\* as get_topic_owner finds out.
Targets(t) ==
    IF Prefix[t] # NoClient THEN {Prefix[t]}
    ELSE {owner[t]} \cup (IF DbMayFail THEN {NoClient} ELSE {})

\* The set_sensor branch of publish looks for the owner before anything else.
StartSet(h, c, t, v) ==
    /\ Free(h)
    /\ \E to \in Targets(t) :
          Becomes(h, [op |-> "set", by |-> c, topic |-> t, to |-> to, value |-> v])
    /\ UNCHANGED <<known, online, dbTables, seen>>

\* Mutant: the command is sent whatever the database says.
SetSensorAnyway(h) ==
    LET r == task[h] IN
    /\ r.op = "set"
    /\ sensor' = IF r.by \in admin[r.topic] THEN [sensor EXCEPT ![r.topic] = r.value] ELSE sensor
    /\ Becomes(h, [r EXCEPT !.op = "command"])
    /\ UNCHANGED <<known, online, owner, subscribed, request, admin, seen>>

\* set_sensor_status.
SetSensor(h) ==
    LET r == task[h] IN
    /\ r.op = "set"
    /\ \/ /\ r.by \in admin[r.topic]
          /\ sensor' = [sensor EXCEPT ![r.topic] = r.value]
          /\ Becomes(h, [r EXCEPT !.op = "command"])
       \/ /\ r.by \notin admin[r.topic] \/ DbMayFail
          /\ Becomes(h, Idle)
          /\ UNCHANGED sensor
    /\ UNCHANGED <<known, online, owner, subscribed, request, admin, seen>>

\* The command to the owner's session, if it has one.
SendCommand(h) ==
    LET r == task[h] IN
    /\ r.op = "command"
    /\ device' = IF r.to = owner[r.topic] /\ r.to \in online
                   THEN [device EXCEPT ![r.topic] = r.value] ELSE device
    /\ Becomes(h, Idle)
    /\ UNCHANGED <<known, online, dbTables, denied, cut>>

\* set_sensor_activable: a row it inserts has the default active = TRUE.  The
\* activable column itself is only ever listed.
SetActivable(h, o, t) ==
    /\ Free(h)
    /\ owner[t] = o
    /\ sensor[t] = "unset"
    /\ sensor' = [sensor EXCEPT ![t] = "on"]
    /\ UNCHANGED <<known, online, owner, subscribed, request, admin, seen, task>>

-----------------------------------------------------------------------------
Elsewhere ==
    \/ \E c \in Clients : Connect(c) \/ Disconnect(c) \/ CutOff(c)
    \/ \E c \in Clients, t \in Topics :
          RegisterTopic(c, t) \/ AddSubscription(c, t) \/ RemoveSubscription(c, t)

Start(h) ==
    \E c \in Clients, t \in Topics :
        \/ /\ "request" \in Operations
           /\ \E o \in Clients, via \in {"packet", "json"} : StartRequest(h, c, t, o, via)
        \/ /\ "answer" \in Operations
           /\ \E o \in Clients, status \in {"approved", "rejected"}, via \in Answers :
                 Respond(h, o, t, c, status, via)
        \/ "revoke" \in Operations /\ \E o \in Clients : Revoke(h, o, t, c)
        \/ "resign" \in Operations /\ Resign(h, c, t)
        \/ "set" \in Operations /\ \E v \in {"on", "off"} : StartSet(h, c, t, v)
        \/ "set" \in Operations /\ SetActivable(h, c, t)

Continue(h) ==
    Check(h) \/ WriteRequest(h) \/ Grant(h) \/ Notify(h) \/ SetSensor(h) \/ SendCommand(h)

Next == Elsewhere \/ Restart \/ \E h \in Threads : Start(h) \/ Continue(h)

Spec == Init /\ [][Next]_vars

-----------------------------------------------------------------------------
TypeOK ==
    /\ known \subseteq Clients
    /\ online \subseteq Clients
    /\ owner \in [Topics -> Clients \cup {NoClient}]
    /\ subscribed \in [Topics -> SUBSET Clients]
    /\ request \in [Topics -> [Clients -> Status]]
    /\ admin \in [Topics -> SUBSET Clients]
    /\ sensor \in [Topics -> Value]
    /\ device \in [Topics -> Value]
    /\ denied \in [Topics -> SUBSET Clients]
    /\ cut \subseteq Clients
    /\ task \in [Threads -> Task]

\* A topic has at most one administrator, although the table allows more and
\* two transactions of one approval and those of other handlers write it.
SingleAdmin == \A t \in Topics : \A a, b \in admin[t] : a = b

\* Nobody becomes administrator who did not ask for it.
AdminsAsked == \A t \in Topics : \A c \in admin[t] : request[t][c] # "none"

\* Taking the administration away is for good: as long as the client has not
\* asked again it is not administrator, whatever else runs at the time.
RevokedIsNotAdmin ==
    \A t \in Topics, c \in Clients : request[t][c] = "revoked" => c \notin admin[t]

\* With one thread in the handlers the two tables agree: the administrator is
\* a client whose request is approved.
AdminIsApproved == \A t \in Topics : \A c \in admin[t] : request[t][c] = "approved"

AllIdle == \A h \in Threads : task[h] = Idle

\* ... the owner's present session was last sent what the table says of the
\* sensor, or nothing, unless the removal of an older session has cut it off
DeviceInStep ==
    AllIdle => \A t \in Topics : owner[t] \notin cut => device[t] \in {"unset", sensor[t]}

\* ... and a client whose present session was last told that it is rejected or
\* revoked is not administrator, unless the session is cut off.
NoticesInStep == AllIdle => \A t \in Topics : denied[t] \cap admin[t] \subseteq cut

\* The post of administrator is kept as module AdminPost promises: it is filled
\* by the answer to an open request, or once more by the second transaction of
\* that approval if it is vacant then, and by nothing else.
Post == INSTANCE AdminPost WITH
    Clerks <- Threads,
    open <- [t \in Topics |-> {c \in Clients : request[t][c] = "pending"}],
    asked <- [t \in Topics |-> {c \in Clients : request[t][c] # "none"}],
    holder <- admin,
    noted <- [h \in Threads |-> IF task[h].op = "grant"
                                  THEN {<<task[h].topic, task[h].about>>} ELSE {}]

PostAsPromised == Post!PostSpec
=============================================================================
