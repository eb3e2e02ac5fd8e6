------------------------ MODULE TopicRegistryProofs ------------------------
(* Theorems about module TopicRegistry, for any number of connections,     *)
(* clients, names and rows, any way of names to share rows, and whether or *)
(* not a connection may send CONN again.                                   *)
EXTENDS TopicRegistry, TLAPS

USE RegistryAssumption

\* The steps of a running handler, and all the others.
Continue(s) ==
    \/ GetTopicId(s)
    \/ RegisterTopic(s)
    \/ GetNewId(s)
    \/ AddSubscription(s)
    \/ RemoveSubscription(s)
    \/ JoinSubscribers(s)
    \/ LeaveSubscribers(s)
    \/ LogMessage(s)

Start(s, n) == Subscribe(s, n) \/ Unsubscribe(s, n) \/ Publish(s, n)

LEMMA NextCases ==
    ASSUME Next
    PROVE  \/ Restart
           \/ \E s \in Sessions : RemoveSession(s) \/ Continue(s)
           \/ \E s \in Sessions, c \in Clients : Connect(s, c)
           \/ \E s \in Sessions, n \in Names : Start(s, n)
           \/ \E r \in Rows, c \in Clients : TopicCreate(r, c)
           \/ \E r \in Rows, on \in BOOLEAN : SetTopicPublish(r, on)
BY DEF Next, Continue, Start

-----------------------------------------------------------------------------
(* Types                                                                   *)

\* A running handler's fields.
Fields(t) ==
    /\ t.op \in {"subscribe", "unsubscribe", "publish"}
    /\ t.name \in Names
    /\ t.step \in Step
    /\ t.id \in Rows \cup {NoRow}
    /\ t.due \in BOOLEAN
    /\ t.step \in {"record", "drop", "log"} => t.id \in Rows

LEMMA AtFields ==
    ASSUME TypeOK, NEW s \in Sessions, NEW ops, NEW step, "idle" \notin ops, At(s, ops, step)
    PROVE  Fields(task[s]) /\ task[s] \in Task \ {Idle}
BY DEF TypeOK, At, Task, Idle, Fields

\* The ways a step changes the tasks, each of which keeps their type.
LEMMA BeginType ==
    ASSUME TypeOK, NEW s \in Sessions, NEW n \in Names, NEW id \in Rows \cup {NoRow},
           NEW op \in {"subscribe", "unsubscribe", "publish"}, NEW step \in Step,
           Begin(s, op, n, step, id)
    PROVE  task' \in [Sessions -> Task]
BY DEF TypeOK, Begin, Task

LEMMA GotoType ==
    ASSUME TypeOK, NEW s \in Sessions, task[s] \in Task \ {Idle}, NEW step \in Step,
           NEW failed \in BOOLEAN, Goto(s, step, failed)
    PROVE  task' \in [Sessions -> Task]
BY DEF TypeOK, Goto, Task

LEMMA GotoWithIdType ==
    ASSUME TypeOK, NEW s \in Sessions, task[s] \in Task \ {Idle}, NEW step \in Step,
           GotoWithId(s, step)
    PROVE  task' \in [Sessions -> Task]
BY DEF TypeOK, GotoWithId, Task, Row, Name

LEMMA IdlesType ==
    ASSUME TypeOK, NEW s \in Sessions, Idles(s)
    PROVE  task' \in [Sessions -> Task]
BY DEF TypeOK, Idles, Task

LEMMA RegistryTypeInit == Init => TypeOK
BY DEF Init, TypeOK, Task, Idle

LEMMA RegisteredType ==
    ASSUME TypeOK, NEW r \in Rows, NEW c \in Clients
    PROVE  /\ Registered(r, c) \in [Rows -> Clients \cup {NoClient}]
           /\ Registered(r, c)[r] # NoClient
           /\ \A q \in Rows : owner[q] # NoClient => Registered(r, c)[q] = owner[q]
           /\ \A q \in Rows : Registered(r, c)[q] \in {owner[q], c}
BY DEF TypeOK, Registered

\* What a step leaves: the type of every variable but task ...
TablesKept ==
    /\ known' \subseteq Clients
    /\ owner' \in [Rows -> Clients \cup {NoClient}]
    /\ shared' \subseteq Rows
    /\ active' \in [Clients -> [Rows -> {"none", "active", "inactive"}]]
    /\ clientId' \in [Sessions -> Clients \cup {NoClient}]
    /\ sessions' \in [Clients -> Sessions \cup {NoSession}]
    /\ members' \in [Names -> SUBSET Sessions]
    /\ cache' \in [Names -> Rows \cup {NoRow}]
    /\ doubt' \in [Names -> SUBSET Sessions]
    /\ missed' \subseteq Names

\* ... and of the tasks.
TasksKept ==
    /\ task' \in [Sessions -> Task]
    /\ \A s \in Sessions : task'[s] # Idle /\ task'[s].step \in {"record", "drop", "log"}
                            => task'[s].id \in Rows

\* Only who has sent CONN has a handler or is in a vector.
NamedKept ==
    \A s \in Sessions : clientId'[s] = NoClient
                            => task'[s] = Idle /\ \A n \in Names : s \notin members'[n]

LEMMA TypeParts == TypeOK' <=> TablesKept /\ TasksKept /\ NamedKept
BY DEF TypeOK, TablesKept, TasksKept, NamedKept

LEMMA RunningIsNamed ==
    ASSUME TypeOK, NEW s \in Sessions, task[s] # Idle
    PROVE  clientId[s] \in Clients
BY DEF TypeOK

LEMMA AddSubscriptionSets ==
    ASSUME NEW s \in Sessions, AddSubscription(s)
    PROVE  UNCHANGED active \/ active' = [active EXCEPT ![clientId[s]][task[s].id] = "active"]
BY DEF AddSubscription

LEMMA RemoveSubscriptionSets ==
    ASSUME TypeOK, NEW s \in Sessions, RemoveSubscription(s)
    PROVE  \/ UNCHANGED active
           \/ active' = [active EXCEPT ![clientId[s]][task[s].id] =
                                IF active[clientId[s]][task[s].id] = "none" THEN "none" ELSE "inactive"]
BY DEF RemoveSubscription, TypeOK

LEMMA ContinueTables ==
    ASSUME TypeOK, NEW s \in Sessions, Continue(s)
    PROVE  TablesKept
<1>1. CASE GetTopicId(s)
  <2> Fields(task[s])
    BY <1>1, AtFields DEF GetTopicId
  <2> QED
    BY <1>1 DEF GetTopicId, TypeOK, TablesKept, tables, Row, Name, Fields
<1>2. CASE RegisterTopic(s)
  <2>1. Fields(task[s])
    BY <1>2, AtFields DEF RegisterTopic
  <2>2. owner' \in [Rows -> Clients \cup {NoClient}]
    <3>1. CASE PrefixOf[Name(s)] \in known /\ owner' = Registered(Row(s), PrefixOf[Name(s)])
      BY <2>1, <3>1, RegisteredType DEF TypeOK, Row, Name, Fields
    <3> QED
      BY <1>2, <3>1 DEF RegisterTopic, TypeOK
  <2>3. missed' \subseteq Names
    BY <1>2, <2>1 DEF RegisterTopic, TypeOK, Unlogged, Name, Fields
  <2> QED
    BY <1>2, <2>2, <2>3 DEF RegisterTopic, TypeOK, TablesKept
<1>3. CASE GetNewId(s)
  <2>1. Fields(task[s])
    BY <1>3, AtFields DEF GetNewId
  <2>2. missed' \subseteq Names
    BY <1>3, <2>1 DEF GetNewId, TypeOK, Unlogged, Name, Fields
  <2>3. cache' \in [Names -> Rows \cup {NoRow}]
    BY <1>3, <2>1 DEF GetNewId, TypeOK, Row, Name, Fields
  <2> QED
    BY <1>3, <2>2, <2>3 DEF GetNewId, TypeOK, TablesKept, tables
<1>4. CASE AddSubscription(s) \/ RemoveSubscription(s)
  <2>1. \/ UNCHANGED active
        \/ \E v \in {"none", "active", "inactive"} : active' = [active EXCEPT ![clientId[s]][task[s].id] = v]
    BY <1>4, AddSubscriptionSets, RemoveSubscriptionSets
  <2>2. active' \in [Clients -> [Rows -> {"none", "active", "inactive"}]]
    BY <2>1 DEF TypeOK
  <2>3. doubt' \in [Names -> SUBSET Sessions]
    <3>1. \A n \in Names : Others(s, n) \subseteq Sessions
      BY DEF Others
    <3>2. \/ UNCHANGED doubt
          \/ doubt' = [doubt EXCEPT ![Name(s)] = @ \ {s}]
          \/ doubt' = [n \in Names |-> doubt[n] \cup Others(s, n)]
      BY <1>4 DEF AddSubscription, RemoveSubscription
    <3> QED
      BY <3>1, <3>2 DEF TypeOK
  <2> QED
    BY <1>4, <2>2, <2>3 DEF AddSubscription, RemoveSubscription, TypeOK, TablesKept
<1>6. CASE JoinSubscribers(s)
  BY <1>6 DEF JoinSubscribers, TypeOK, TablesKept, tables
<1>7. CASE LeaveSubscribers(s)
  BY <1>7 DEF LeaveSubscribers, TypeOK, TablesKept, tables
<1>8. CASE LogMessage(s)
  <2>1. Fields(task[s])
    BY <1>8, AtFields DEF LogMessage
  <2>2. missed' \subseteq Names
    BY <1>8, <2>1 DEF LogMessage, TypeOK, Unlogged, Name, Fields
  <2> QED
    BY <1>8, <2>2 DEF LogMessage, TypeOK, TablesKept, tables
<1> QED
  BY <1>1, <1>2, <1>3, <1>4, <1>6, <1>7, <1>8 DEF Continue

\* The ways in which a handler goes on.
Moves(s) ==
    \/ Idles(s)
    \/ \E step \in Step \ {"record", "drop", "log"}, failed \in BOOLEAN : Goto(s, step, failed)
    \/ \E step \in {"record", "drop", "log"} : GotoWithId(s, step)

LEMMA ContinueMoves ==
    ASSUME TypeOK, NEW s \in Sessions, Continue(s)
    PROVE  Moves(s) /\ Fields(task[s]) /\ task[s] \in Task \ {Idle}
<1>1. \E ops, step : "idle" \notin ops /\ At(s, ops, step)
  BY DEF Continue, GetTopicId, RegisterTopic, GetNewId, AddSubscription, RemoveSubscription,
         JoinSubscribers, LeaveSubscribers, LogMessage
<1>2. Fields(task[s]) /\ task[s] \in Task \ {Idle}
  BY <1>1, AtFields
<1>3. CASE GetTopicId(s)
  BY <1>2, <1>3 DEF GetTopicId, Moves, Step, Fields
<1>4. CASE RegisterTopic(s) \/ GetNewId(s)
  BY <1>2, <1>4 DEF RegisterTopic, GetNewId, Unlogged, Moves, Step
<1>5. CASE AddSubscription(s) \/ RemoveSubscription(s)
  BY <1>2, <1>5 DEF AddSubscription, RemoveSubscription, Moves, Step
<1>6. CASE JoinSubscribers(s) \/ LeaveSubscribers(s) \/ LogMessage(s)
  BY <1>2, <1>6 DEF JoinSubscribers, LeaveSubscribers, LogMessage, Unlogged, Moves
<1> QED
  BY <1>2, <1>3, <1>4, <1>5, <1>6 DEF Continue

LEMMA MovesType ==
    ASSUME TypeOK, NEW s \in Sessions, Moves(s), Fields(task[s]), task[s] \in Task \ {Idle}
    PROVE  TasksKept
<1>1. CASE Idles(s)
  BY <1>1, IdlesType DEF TasksKept, Idles, TypeOK
<1>2. ASSUME NEW step \in Step \ {"record", "drop", "log"}, NEW failed \in BOOLEAN,
             Goto(s, step, failed)
      PROVE  TasksKept
  <2>1. task' \in [Sessions -> Task]
    BY <1>2, GotoType
  <2>3. task'[s].step = step /\ \A u \in Sessions \ {s} : task'[u] = task[u]
    BY <1>2 DEF Goto, TypeOK, Task
  <2> QED
    BY <2>1, <2>3 DEF TasksKept, TypeOK
<1>3. ASSUME NEW step \in {"record", "drop", "log"}, GotoWithId(s, step)
      PROVE  TasksKept
  <2>1. task' \in [Sessions -> Task]
    BY <1>3, GotoWithIdType DEF Step
  <2>2. task'[s].id = Row(s) /\ \A u \in Sessions \ {s} : task'[u] = task[u]
    BY <1>3 DEF GotoWithId, TypeOK, Task
  <2>3. Row(s) \in Rows
    BY DEF Row, Name, Fields
  <2> QED
    BY <2>1, <2>2, <2>3 DEF TasksKept, TypeOK
<1> QED
  BY <1>1, <1>2, <1>3 DEF Moves

LEMMA ContinueNamed ==
    ASSUME TypeOK, NEW s \in Sessions, Continue(s)
    PROVE  NamedKept /\ UNCHANGED clientId /\ \A u \in Sessions \ {s} : task'[u] = task[u]
<1>1. Moves(s) /\ clientId[s] # NoClient
  BY ContinueMoves, RunningIsNamed
<1>2. UNCHANGED clientId
  BY DEF Continue, GetTopicId, RegisterTopic, GetNewId, AddSubscription, RemoveSubscription,
         JoinSubscribers, LeaveSubscribers, LogMessage
<1>3. \A u \in Sessions \ {s} : task'[u] = task[u]
  BY <1>1 DEF Moves, Goto, GotoWithId, Idles, TypeOK
<1>4. ASSUME NEW u \in Sessions \ {s}, NEW n \in Names, u \in members'[n]
      PROVE  u \in members[n]
  <2>1. CASE JoinSubscribers(s)
    BY <1>4, <2>1 DEF JoinSubscribers, TypeOK
  <2>2. CASE LeaveSubscribers(s)
    BY <1>4, <2>2 DEF LeaveSubscribers, TypeOK
  <2> QED
    BY <1>4, <2>1, <2>2 DEF Continue, GetTopicId, RegisterTopic, GetNewId, AddSubscription,
       RemoveSubscription, LogMessage
<1> QED
  BY <1>1, <1>2, <1>3, <1>4 DEF NamedKept, TypeOK

LEMMA StartType ==
    ASSUME TypeOK, NEW s \in Sessions, NEW n \in Names, Start(s, n)
    PROVE  TypeOK'
<1>1. PICK op \in {"subscribe", "unsubscribe", "publish"}, step \in Step, id \in Rows \cup {NoRow} :
         Begin(s, op, n, step, id) /\ (step \in {"record", "drop", "log"} => id \in Rows)
  BY DEF Start, Subscribe, Unsubscribe, Publish, Step, TypeOK
<1>2. task' \in [Sessions -> Task]
  BY <1>1, BeginType
<1>3. TasksKept
  BY <1>1, <1>2 DEF TasksKept, Begin, TypeOK
<1>4. TablesKept
  BY DEF Start, Subscribe, Unsubscribe, Publish, tables, TypeOK, TablesKept
<1>5. NamedKept
  BY <1>1 DEF Start, Subscribe, Unsubscribe, Publish, Begin, TypeOK, NamedKept
<1> QED
  BY <1>3, <1>4, <1>5, TypeParts

LEMMA ConnectType ==
    ASSUME TypeOK, NEW s \in Sessions, NEW c \in Clients, Connect(s, c)
    PROVE  TypeOK'
<1>1. /\ known' \subseteq Clients
      /\ clientId' \in [Sessions -> Clients \cup {NoClient}]
      /\ sessions' \in [Clients -> Sessions \cup {NoSession}]
      /\ doubt' \in [Names -> SUBSET Sessions]
  BY DEF Connect, TypeOK
<1>2. /\ members' \in [Names -> SUBSET Sessions]
      /\ \A n \in Names : members'[n] \subseteq members[n]
  BY DEF Connect, Without, TypeOK
<1>3. \A u \in Sessions : clientId'[u] = NoClient => clientId[u] = NoClient
  BY DEF Connect, TypeOK
<1> QED
  BY <1>1, <1>2, <1>3 DEF Connect, TypeOK

LEMMA RemovalType ==
    ASSUME TypeOK, NEW s \in Sessions, RemoveSession(s)
    PROVE  TypeOK'
<1>1. /\ members' \in [Names -> SUBSET Sessions]
      /\ \A n \in Names : members'[n] \subseteq members[n]
  BY DEF RemoveSession, Without, TypeOK
<1> QED
  BY <1>1 DEF RemoveSession, TypeOK, tables

LEMMA RegistryTypeStep ==
    ASSUME TypeOK, [Next]_vars
    PROVE  TypeOK'
<1>1. CASE UNCHANGED vars
  BY <1>1 DEF vars, tables, TypeOK
<1>2. CASE Restart
  BY <1>2 DEF Restart, tables, TypeOK, Task
<1>4. ASSUME NEW s \in Sessions, Continue(s)
      PROVE  TypeOK'
  BY <1>4, ContinueTables, ContinueMoves, MovesType, ContinueNamed, TypeParts
<1>5. ASSUME NEW c \in Clients, NEW r \in Rows, TopicCreate(r, c)
      PROVE  TypeOK'
  BY <1>5, RegisteredType DEF TopicCreate, TypeOK
<1>6. ASSUME NEW r \in Rows, NEW on \in BOOLEAN, SetTopicPublish(r, on)
      PROVE  TypeOK'
  BY <1>6 DEF SetTopicPublish, TypeOK
<1> QED
  BY <1>1, <1>2, <1>4, <1>5, <1>6, StartType, ConnectType, RemovalType, NextCases

\* Every variable keeps to its type, and no handler ever calls the database
\* with -1 for a topic id.
THEOREM RegistryTypes == Spec => []TypeOK
BY RegistryTypeInit, RegistryTypeStep, PTL DEF Spec

-----------------------------------------------------------------------------
(* Rows that are referred to exist                                         *)

\* What a handler has read of the tables stays true while it runs.
Handlers ==
    \A s \in Sessions : task[s] # Idle =>
        /\ task[s].step \in {"record", "drop", "log"} => task[s].id = Row(s) /\ Exists(Row(s))
        /\ task[s].step = "refind" => Exists(Row(s))
        /\ task[s].op = "publish" /\ task[s].due => PrefixOf[Name(s)] \in known

\* Nothing is deleted from clients or topics.
LEMMA RowsStay ==
    ASSUME TypeOK, [Next]_vars
    PROVE  known \subseteq known' /\ \A r \in Rows : Exists(r) => Exists(r)' /\ owner'[r] = owner[r]
<1>1. CASE UNCHANGED vars
  BY <1>1 DEF vars, tables, Exists
<1>2. ASSUME NEW s \in Sessions, RegisterTopic(s)
      PROVE  known \subseteq known' /\ \A r \in Rows : Exists(r) => Exists(r)' /\ owner'[r] = owner[r]
  <2>1. Fields(task[s])
    BY <1>2, AtFields DEF RegisterTopic
  <2>2. CASE PrefixOf[Name(s)] \in known /\ owner' = Registered(Row(s), PrefixOf[Name(s)])
    <3>1. PrefixOf[Name(s)] \in Clients /\ Row(s) \in Rows
      BY <2>1, <2>2 DEF TypeOK, Row, Name, Fields
    <3>2. \A r \in Rows : owner[r] # NoClient => owner'[r] = owner[r]
      BY <2>2, <3>1, RegisteredType
    <3> QED
      BY <1>2, <3>2 DEF RegisterTopic, Exists
  <2>3. CASE UNCHANGED owner
    BY <1>2, <2>3 DEF RegisterTopic, Exists
  <2> QED
    BY <1>2, <2>2, <2>3 DEF RegisterTopic
<1>3. ASSUME NEW c \in Clients, NEW q \in Rows, TopicCreate(q, c)
      PROVE  known \subseteq known' /\ \A r \in Rows : Exists(r) => Exists(r)' /\ owner'[r] = owner[r]
  BY <1>3, RegisteredType DEF TopicCreate, Exists
<1>4. ASSUME NEW s \in Sessions, RemoveSession(s) \/ \E c \in Clients : Connect(s, c)
      PROVE  known \subseteq known' /\ \A r \in Rows : Exists(r) => Exists(r)' /\ owner'[r] = owner[r]
  BY <1>4 DEF Connect, RemoveSession, tables, Exists
<1>5. ASSUME Restart \/ \E r \in Rows, on \in BOOLEAN : SetTopicPublish(r, on)
      PROVE  known \subseteq known' /\ \A r \in Rows : Exists(r) => Exists(r)' /\ owner'[r] = owner[r]
  BY <1>5 DEF Restart, SetTopicPublish, tables, Exists
<1>6. ASSUME NEW s \in Sessions, Continue(s), ~RegisterTopic(s)
      PROVE  known \subseteq known' /\ \A r \in Rows : Exists(r) => Exists(r)' /\ owner'[r] = owner[r]
  BY <1>6 DEF Continue, GetTopicId, GetNewId, AddSubscription, RemoveSubscription,
              JoinSubscribers, LeaveSubscribers, LogMessage, tables, Exists
<1>7. ASSUME NEW s \in Sessions, NEW n \in Names, Start(s, n)
      PROVE  known \subseteq known' /\ \A r \in Rows : Exists(r) => Exists(r)' /\ owner'[r] = owner[r]
  BY <1>7 DEF Start, Subscribe, Unsubscribe, Publish, tables, Exists
<1> QED
  BY <1>1, <1>2, <1>3, <1>4, <1>5, <1>6, <1>7, NextCases

LEMMA ReferencesStep ==
    ASSUME TypeOK, References, Handlers, [Next]_vars
    PROVE  References'
<1>1. known \subseteq known' /\ \A r \in Rows : Exists(r) => Exists(r)' /\ owner'[r] = owner[r]
  BY RowsStay
<1>2. ASSUME NEW r \in Rows, Exists(r)' PROVE owner'[r] \in known'
  <2>1. CASE Exists(r)
    BY <1>1, <2>1 DEF References
  <2>2. CASE ~Exists(r)
    <3>1. \E q \in Rows, c \in known : owner' = Registered(q, c) /\ UNCHANGED known
      <4>1. ~(UNCHANGED owner)
        BY <1>2, <2>2 DEF Exists
      <4>2. \/ \E s \in Sessions : RegisterTopic(s)
            \/ \E c \in Clients, q \in Rows : TopicCreate(q, c)
        BY <4>1, NextCases DEF vars, tables, Restart, Connect, RemoveSession, Continue, GetTopicId,
           GetNewId, AddSubscription, RemoveSubscription, JoinSubscribers, LeaveSubscribers,
           LogMessage, Start, Subscribe, Unsubscribe, Publish, SetTopicPublish
      <4>3. ASSUME NEW s \in Sessions, RegisterTopic(s)
            PROVE  \E q \in Rows, c \in known : owner' = Registered(q, c) /\ UNCHANGED known
        <5>1. Row(s) \in Rows
          BY <4>3, AtFields DEF RegisterTopic, Fields, Row, Name
        <5> QED
          BY <4>1, <4>3, <5>1 DEF RegisterTopic
      <4>4. ASSUME NEW c \in Clients, NEW q \in Rows, TopicCreate(q, c)
            PROVE  \E p \in Rows, d \in known : owner' = Registered(p, d) /\ UNCHANGED known
        BY <4>4 DEF TopicCreate
      <4> QED
        BY <4>2, <4>3, <4>4
    <3>2. PICK q \in Rows, c \in known : owner' = Registered(q, c) /\ UNCHANGED known
      BY <3>1
    <3>3. owner'[r] \in {owner[r], c}
      BY <3>2, RegisteredType DEF TypeOK
    <3> QED
      BY <1>2, <2>2, <3>2, <3>3 DEF Exists
  <2> QED
    BY <2>1, <2>2
<1>3. ASSUME NEW c \in Clients, NEW r \in Rows, active'[c][r] # "none"
      PROVE  c \in known' /\ Exists(r)'
  <2>1. CASE active[c][r] # "none"
    BY <1>1, <2>1 DEF References
  <2>2. CASE active[c][r] = "none"
    <3>1. ~(UNCHANGED active)
      BY <1>3, <2>2
    <3>2. PICK s \in Sessions : AddSubscription(s) \/ RemoveSubscription(s)
      BY <3>1, NextCases DEF vars, tables, Restart, Connect, RemoveSession, Continue, GetTopicId,
         RegisterTopic, GetNewId, JoinSubscribers, LeaveSubscribers, LogMessage, Start, Subscribe,
         Unsubscribe, Publish, TopicCreate, SetTopicPublish
    <3>3. CASE AddSubscription(s)
      <4>1. clientId[s] \in known /\ active' = [active EXCEPT ![clientId[s]][task[s].id] = "active"]
        BY <3>1, <3>3 DEF AddSubscription
      <4>2. task[s].id = Row(s) /\ Exists(Row(s)) /\ Row(s) \in Rows
        BY <3>3, AtFields DEF AddSubscription, At, Handlers, Fields, Row, Name
      <4>3. clientId[s] \in Clients
        BY <4>1 DEF TypeOK
      <4>4. c = clientId[s] /\ r = Row(s)
        BY <1>3, <2>2, <4>1, <4>2, <4>3 DEF TypeOK
      <4> QED
        BY <1>1, <4>1, <4>2, <4>4
    <3>4. CASE RemoveSubscription(s)
      <4>1. active'[c][r] = "none"
        BY <2>2, <3>1, <3>4, RemoveSubscriptionSets DEF TypeOK
      <4> QED
        BY <1>3, <4>1
    <3> QED
      BY <3>2, <3>3, <3>4
  <2> QED
    BY <2>1, <2>2
<1> QED
  BY <1>2, <1>3 DEF References, Exists

LEMMA CacheStep ==
    ASSUME TypeOK, CacheTruthful, [Next]_vars
    PROVE  CacheTruthful'
<1>1. \A r \in Rows : Exists(r) => Exists(r)'
  BY RowsStay
<1>2. CASE UNCHANGED cache
  BY <1>1, <1>2 DEF CacheTruthful, TypeOK
<1>3. CASE Restart
  BY <1>3 DEF Restart, CacheTruthful
<1>4. ASSUME NEW s \in Sessions, GetTopicId(s) \/ GetNewId(s)
      PROVE  CacheTruthful'
  <2>1. Fields(task[s])
    BY <1>4, AtFields DEF GetTopicId, GetNewId
  <2>2. \/ UNCHANGED cache
        \/ cache' = [cache EXCEPT ![Name(s)] = NoRow]
        \/ cache' = [cache EXCEPT ![Name(s)] = Row(s)] /\ Exists(Row(s))
    BY <1>4 DEF GetTopicId, GetNewId
  <2>3. Name(s) \in Names /\ Row(s) = RowOf[Name(s)] /\ Row(s) \in Rows
    BY <2>1 DEF Fields, Name, Row
  <2> QED
    BY <1>1, <1>2, <2>2, <2>3 DEF CacheTruthful, TypeOK
<1> QED
  BY <1>2, <1>3, <1>4, NextCases DEF vars, Connect, RemoveSession, Continue, RegisterTopic, AddSubscription,
     RemoveSubscription, JoinSubscribers, LeaveSubscribers, LogMessage, Start, Subscribe,
     Unsubscribe, Publish, TopicCreate, SetTopicPublish

\* What Handlers says of one client.
HandlerOf(s) ==
    task[s] # Idle =>
        /\ task[s].step \in {"record", "drop", "log"} => task[s].id = Row(s) /\ Exists(Row(s))
        /\ task[s].step = "refind" => Exists(Row(s))
        /\ task[s].op = "publish" /\ task[s].due => PrefixOf[Name(s)] \in known

LEMMA HandlerStays ==
    ASSUME TypeOK, NEW s \in Sessions, HandlerOf(s), [Next]_vars, task'[s] = task[s]
    PROVE  HandlerOf(s)'
<1>1. task[s] # Idle => Row(s) \in Rows
  BY DEF TypeOK, Task, Row, Name
<1>2. Row(s)' = Row(s) /\ Name(s)' = Name(s)
  BY DEF Row, Name
<1> QED
  BY <1>1, <1>2, RowsStay DEF HandlerOf

LEMMA HandlerGoes ==
    ASSUME TypeOK, References, NEW s \in Sessions, HandlerOf(s), [Next]_vars, Continue(s)
    PROVE  HandlerOf(s)' /\ \A u \in Sessions \ {s} : task'[u] = task[u]
<1>1. Fields(task[s]) /\ task[s] \in Task \ {Idle} /\ Row(s) \in Rows
  BY ContinueMoves DEF Fields, Row, Name
<1>2. CASE Idles(s)
  BY <1>2 DEF Idles, TypeOK, HandlerOf
<1>3. ASSUME NEW step \in Step \ {"record", "drop", "log"}, NEW failed \in BOOLEAN,
             Goto(s, step, failed)
      PROVE  HandlerOf(s)' /\ \A u \in Sessions \ {s} : task'[u] = task[u]
  <2>1. /\ task'[s].step = step /\ task'[s].op = task[s].op /\ task'[s].name = task[s].name
        /\ (task'[s].due => task[s].due /\ (failed => task[s].op = "unsubscribe"))
        /\ \A u \in Sessions \ {s} : task'[u] = task[u]
    BY <1>1, <1>3 DEF Goto, TypeOK, Task
  <2>2. Row(s)' = Row(s) /\ Name(s)' = Name(s)
    BY <2>1 DEF Row, Name
  <2>3. step = "refind" => Exists(Row(s))'
    <3>1. CASE step = "refind"
      <4>1. RegisterTopic(s)
        <5>1. ~Idles(s)
          BY <1>1, <2>1 DEF Idles, TypeOK, Idle, Fields
        <5>2. \A p \in Step : GotoWithId(s, p) => p = "refind"
          BY <2>1, <3>1, <1>1 DEF GotoWithId, TypeOK, Task
        <5>3. \A p \in Step, f \in BOOLEAN : Goto(s, p, f) => p = "refind"
          BY <2>1, <3>1, <1>1 DEF Goto, TypeOK, Task
        <5>4. ~GetTopicId(s)
          BY <1>1, <5>2, <5>3 DEF GetTopicId, Step, Fields
        <5>5. ~GetNewId(s)
          BY <5>1, <5>2, <5>3 DEF GetNewId, Unlogged, Step
        <5>6. ~AddSubscription(s) /\ ~RemoveSubscription(s)
          BY <5>3 DEF AddSubscription, RemoveSubscription, Step
        <5> QED
          BY <5>1, <5>4, <5>5, <5>6 DEF Continue, JoinSubscribers, LeaveSubscribers, LogMessage, Unlogged
      <4>2. PrefixOf[Name(s)] \in known /\ owner' = Registered(Row(s), PrefixOf[Name(s)])
        BY <4>1, <2>1, <3>1, <1>1 DEF RegisterTopic, Goto, Idles, Unlogged, Idle, TypeOK, Task
      <4>3. owner'[Row(s)] # NoClient
        BY <1>1, <4>2, RegisteredType DEF TypeOK
      <4> QED
        BY <2>2, <4>3 DEF Exists
    <3> QED
      BY <3>1
  <2> QED
    BY <1>1, <2>1, <2>2, <2>3, RowsStay DEF HandlerOf
<1>4. ASSUME NEW step \in {"record", "drop", "log"}, GotoWithId(s, step)
      PROVE  HandlerOf(s)' /\ \A u \in Sessions \ {s} : task'[u] = task[u]
  <2>1. /\ task'[s].step = step /\ task'[s].op = task[s].op /\ task'[s].name = task[s].name
        /\ task'[s].due = task[s].due /\ task'[s].id = Row(s)
        /\ \A u \in Sessions \ {s} : task'[u] = task[u]
    BY <1>1, <1>4 DEF GotoWithId, TypeOK, Task
  <2>2. Row(s)' = Row(s) /\ Name(s)' = Name(s)
    BY <2>1 DEF Row, Name
  <2>3. Exists(Row(s))
    BY <1>4, <2>1, <1>1 DEF Continue, GetTopicId, GetNewId, RegisterTopic, AddSubscription, RemoveSubscription,
       JoinSubscribers, LeaveSubscribers, LogMessage, Goto, Idles, Unlogged, Idle, TypeOK, Task
  <2> QED
    BY <1>1, <2>1, <2>2, <2>3, RowsStay DEF HandlerOf
<1> QED
  BY <1>2, <1>3, <1>4, ContinueMoves DEF Moves, Idles, TypeOK

LEMMA HandlerStarts ==
    ASSUME TypeOK, CacheTruthful, NEW s \in Sessions, NEW n \in Names, Start(s, n)
    PROVE  HandlerOf(s)' /\ \A u \in Sessions \ {s} : task'[u] = task[u]
<1>1. PICK op \in {"subscribe", "unsubscribe", "publish"}, step \in Step :
         /\ Begin(s, op, n, step, cache[n]) \/ Begin(s, op, n, step, NoRow)
         /\ step \in {"find", "memory"} \/ (cache[n] # NoRow /\ Begin(s, op, n, step, cache[n]))
         /\ step # "refind"
  BY DEF Start, Subscribe, Unsubscribe, Publish, Step
<1>2. /\ task'[s].op = op /\ task'[s].name = n /\ task'[s].step = step
      /\ task'[s].due = (op = "publish" => PrefixOf[n] \in known)
      /\ step \notin {"find", "memory"} => task'[s].id = cache[n] /\ cache[n] # NoRow
      /\ \A u \in Sessions \ {s} : task'[u] = task[u]
  BY <1>1 DEF Begin, TypeOK
<1>3. UNCHANGED tables
  BY DEF Start, Subscribe, Unsubscribe, Publish
<1>4. Row(s)' = RowOf[n] /\ Name(s)' = n
  BY <1>2 DEF Row, Name
<1> QED
  BY <1>1, <1>2, <1>3, <1>4 DEF HandlerOf, CacheTruthful, tables, Exists

LEMMA HandlersStep ==
    ASSUME TypeOK, References, CacheTruthful, Handlers, [Next]_vars
    PROVE  Handlers'
<1>1. \A s \in Sessions : HandlerOf(s)
  BY DEF Handlers, HandlerOf
<1>2. CASE UNCHANGED task
  BY <1>1, <1>2, HandlerStays DEF Handlers, HandlerOf
<1>3. CASE Restart
  BY <1>3 DEF Restart, Handlers
<1>4. ASSUME NEW s \in Sessions, Continue(s)
      PROVE  Handlers'
  <2>1. HandlerOf(s)' /\ \A u \in Sessions \ {s} : task'[u] = task[u]
    BY <1>1, <1>4, HandlerGoes
  <2> QED
    BY <1>1, <2>1, HandlerStays DEF Handlers, HandlerOf
<1>5. ASSUME NEW s \in Sessions, NEW n \in Names, Start(s, n)
      PROVE  Handlers'
  <2>1. HandlerOf(s)' /\ \A u \in Sessions \ {s} : task'[u] = task[u]
    BY <1>5, HandlerStarts
  <2> QED
    BY <1>1, <2>1, HandlerStays DEF Handlers, HandlerOf
<1> QED
  BY <1>2, <1>3, <1>4, <1>5, NextCases DEF vars, Connect, RemoveSession, TopicCreate, SetTopicPublish

TablesIInv == TypeOK /\ References /\ CacheTruthful /\ Handlers

LEMMA TablesInit == Init => TablesIInv
<1>1. Init => TypeOK
  BY RegistryTypeInit
<1> QED
  BY <1>1 DEF Init, TablesIInv, References, CacheTruthful, Handlers, Exists

LEMMA TablesStep == TablesIInv /\ [Next]_vars => TablesIInv'
BY RegistryTypeStep, ReferencesStep, CacheStep, HandlersStep DEF TablesIInv

\* No row refers to one that is not there, although each handler's calls are
\* transactions of their own.
THEOREM NoDanglingRows == Spec => []References
<1>1. TablesIInv => References
  BY DEF TablesIInv
<1> QED
  BY <1>1, TablesInit, TablesStep, PTL DEF Spec

\* What is cached is the row of the name, and it exists.
THEOREM CachedIdsAreRight == Spec => []CacheTruthful
<1>1. TablesIInv => CacheTruthful
  BY DEF TablesIInv
<1> QED
  BY <1>1, TablesInit, TablesStep, PTL DEF Spec

-----------------------------------------------------------------------------
(* Publications are logged                                                 *)

LEMMA LoggedStep ==
    ASSUME TypeOK, Handlers, AllLogged, [Next]_vars
    PROVE  AllLogged'
<1>1. CASE UNCHANGED missed
  BY <1>1 DEF AllLogged
<1>2. ASSUME NEW s \in Sessions, NEW failed \in BOOLEAN, Unlogged(s, failed),
             \/ At(s, {"subscribe", "publish"}, "register") /\ task[s].op # "subscribe"
                   /\ (failed \/ PrefixOf[Name(s)] \notin known)
             \/ At(s, {"subscribe", "publish"}, "refind") /\ task[s].op # "subscribe"
                   /\ (failed \/ ~Exists(Row(s)))
             \/ At(s, {"publish"}, "log") /\ (failed \/ PrefixOf[Name(s)] \notin known)
      PROVE  AllLogged'
  <2>1. task[s] # Idle /\ task[s].op = "publish" /\ task[s].due \in BOOLEAN
    BY <1>2, AtFields DEF At, Idle, Fields
  <2>2. failed \/ ~task[s].due
    BY <1>2, <2>1 DEF Handlers, At
  <2> QED
    BY <1>2, <2>2 DEF Unlogged, AllLogged
<1>3. ASSUME NEW s \in Sessions, RegisterTopic(s) \/ GetNewId(s) \/ LogMessage(s)
      PROVE  AllLogged'
  BY <1>1, <1>2, <1>3 DEF RegisterTopic, GetNewId, LogMessage
<1> QED
  BY <1>1, <1>3, NextCases DEF vars, tables, Restart, Connect, RemoveSession, Continue, GetTopicId,
     AddSubscription, RemoveSubscription, JoinSubscribers, LeaveSubscribers, Start, Subscribe,
     Unsubscribe, Publish, TopicCreate, SetTopicPublish

\* A publication under the name of a client with a row is logged unless one of
\* its database calls fails.
THEOREM PublicationsLogged == Spec => []AllLogged
<1>1. Init => AllLogged
  BY DEF Init, AllLogged
<1>2. TablesIInv /\ AllLogged /\ [Next]_vars => AllLogged'
  BY LoggedStep DEF TablesIInv
<1> QED
  BY <1>1, <1>2, TablesInit, TablesStep, PTL DEF Spec

-----------------------------------------------------------------------------
(* Members and their subscriptions                                         *)

\* While a SUB is handled without failures and nobody else undoes it, the
\* subscription of its row is not inactive from the first look on.
PendingOf(s) ==
    /\ task[s] # Idle /\ task[s].op = "subscribe" /\ task[s].due
    /\ PrefixOf[Name(s)] # NoClient /\ s \notin doubt[Name(s)]
    /\ task[s].step \in {"register", "refind", "memory"}
    => active[clientId[s]][Row(s)] # "inactive"

\* A subscription becomes inactive before its session leaves the vector, and a
\* SUB repeated by a member removes the doubt before it is recorded.
MembersOf(s) ==
    \A n \in Names : s \in members[n] \ doubt[n] /\ PrefixOf[n] # NoClient =>
        \/ active[clientId[s]][RowOf[n]] # "inactive"
        \/ At(s, {"unsubscribe"}, "memory") /\ Name(s) = n
        \/ task[s].op = "subscribe" /\ Name(s) = n

Subscribed == \A s \in Sessions : PendingOf(s) /\ MembersOf(s)

\* No step makes a subscription of the session's client inactive without a
\* doubt about the session ...
Unharmed(u) ==
    /\ clientId'[u] = clientId[u]
    /\ \A n \in Names : /\ u \in members'[n] => u \in members[n] \/ u \in doubt'[n]
                        /\ u \in doubt[n] => u \in doubt'[n]
                        /\ clientId[u] # NoClient /\ active'[clientId[u]][RowOf[n]] = "inactive" =>
                             active[clientId[u]][RowOf[n]] = "inactive" \/ u \in doubt'[n]

\* ... which is what the steps of others must do.
LEMMA OthersKeep ==
    ASSUME TypeOK, NEW u \in Sessions, PendingOf(u), MembersOf(u), task'[u] = task[u], Unharmed(u)
    PROVE  PendingOf(u)' /\ MembersOf(u)'
<1>1. Row(u)' = Row(u) /\ Name(u)' = Name(u)
  BY DEF Row, Name
<1>2. task[u] # Idle => Name(u) \in Names
  BY DEF TypeOK, Task, Name
<1>3. PendingOf(u)'
  BY <1>1, <1>2, RunningIsNamed DEF PendingOf, Unharmed, Row
<1>4. MembersOf(u)'
  <2>1. ASSUME NEW n \in Names, u \in members'[n] \ doubt'[n], PrefixOf[n] # NoClient,
               active'[clientId'[u]][RowOf[n]] = "inactive"
        PROVE  (At(u, {"unsubscribe"}, "memory") \/ task[u].op = "subscribe") /\ Name(u) = n
    <3>1. u \in members[n] \ doubt[n]
      BY <2>1 DEF Unharmed
    <3>2. clientId[u] # NoClient
      BY <3>1 DEF TypeOK
    <3>3. active[clientId[u]][RowOf[n]] = "inactive"
      BY <2>1, <3>2 DEF Unharmed
    <3> QED
      BY <2>1, <3>1, <3>3 DEF MembersOf
  <2>2. At(u, {"unsubscribe"}, "memory")' <=> At(u, {"unsubscribe"}, "memory")
    BY DEF At
  <2> QED
    BY <1>1, <2>1, <2>2 DEF MembersOf
<1> QED
  BY <1>3, <1>4

LEMMA ContinueOther ==
    ASSUME TypeOK, Handlers, NEW s \in Sessions, NEW u \in Sessions \ {s}, Continue(s)
    PROVE  task'[u] = task[u] /\ Unharmed(u)
<1>1. task'[u] = task[u] /\ UNCHANGED clientId
  BY ContinueNamed
<1>2. \A n \in Names : (u \in members'[n] => u \in members[n]) /\ (u \in doubt[n] => u \in doubt'[n])
  <2>1. CASE JoinSubscribers(s)
    BY <2>1 DEF JoinSubscribers, TypeOK
  <2>2. CASE LeaveSubscribers(s)
    BY <2>2 DEF LeaveSubscribers, TypeOK
  <2>3. CASE AddSubscription(s)
    <3>1. UNCHANGED doubt \/ doubt' = [doubt EXCEPT ![Name(s)] = @ \ {s}]
      BY <2>3 DEF AddSubscription
    <3> QED
      BY <2>3, <3>1 DEF AddSubscription, TypeOK
  <2>4. CASE RemoveSubscription(s)
    <3>1. UNCHANGED doubt \/ doubt' = [n \in Names |-> doubt[n] \cup Others(s, n)]
      BY <2>4 DEF RemoveSubscription
    <3> QED
      BY <2>4, <3>1 DEF RemoveSubscription
  <2> QED
    BY <2>1, <2>2, <2>3, <2>4 DEF Continue, GetTopicId, RegisterTopic, GetNewId, LogMessage
<1>3. ASSUME NEW n \in Names, clientId[u] # NoClient, active'[clientId[u]][RowOf[n]] = "inactive",
             active[clientId[u]][RowOf[n]] # "inactive"
      PROVE  u \in doubt'[n]
  <2>1. CASE AddSubscription(s)
    <3>1. clientId[s] \in Clients /\ clientId[u] \in Clients /\ RowOf[n] \in Rows
      BY <1>3, <2>1, AtFields, RunningIsNamed DEF AddSubscription, TypeOK
    <3>2. active[clientId[u]][RowOf[n]] # active'[clientId[u]][RowOf[n]]
      BY <1>3
    <3>3. active' = [active EXCEPT ![clientId[s]][task[s].id] = "active"]
      BY <2>1, <3>2, AddSubscriptionSets
    <3>4. active'[clientId[u]][RowOf[n]] = "active"
      BY <3>1, <3>2, <3>3 DEF TypeOK
    <3> QED
      BY <1>3, <3>4
  <2>2. CASE RemoveSubscription(s)
    <3>1. task[s].id = Row(s) /\ task[s] # Idle
      BY <2>2, AtFields DEF RemoveSubscription, At, Handlers
    <3>2. clientId[u] = clientId[s] /\ RowOf[n] = Row(s)
      <4>1. clientId[s] \in Clients /\ clientId[u] \in Clients /\ RowOf[n] \in Rows
        BY <1>3, <3>1, RunningIsNamed DEF TypeOK
      <4> QED
        BY <1>3, <2>2, <3>1, <4>1, RemoveSubscriptionSets DEF TypeOK
    <3>3. doubt' = [m \in Names |-> doubt[m] \cup Others(s, m)]
      BY <1>3, <2>2 DEF RemoveSubscription
    <3> QED
      BY <3>2, <3>3 DEF Others
  <2> QED
    BY <1>3, <2>1, <2>2 DEF Continue, GetTopicId, RegisterTopic, GetNewId, JoinSubscribers,
       LeaveSubscribers, LogMessage, tables
<1> QED
  BY <1>1, <1>2, <1>3 DEF Unharmed

\* A handler that goes on is at the same packet.
LEMMA GoingOn ==
    ASSUME TypeOK, NEW s \in Sessions, task[s] \in Task \ {Idle}, NEW step, NEW failed,
           Goto(s, step, failed) \/ GotoWithId(s, step)
    PROVE  /\ task'[s].op = task[s].op /\ task'[s].name = task[s].name /\ task'[s].step = step
           /\ \A u \in Sessions \ {s} : task'[u] = task[u]
<1>1. CASE Goto(s, step, failed)
  BY <1>1 DEF Goto, TypeOK, Task
<1>2. CASE GotoWithId(s, step)
  BY <1>2 DEF GotoWithId, TypeOK, Task
<1> QED
  BY <1>1, <1>2

LEMMA GoingOnFailed ==
    ASSUME TypeOK, NEW s \in Sessions, task[s] \in Task \ {Idle}, task[s].op = "subscribe",
           NEW step, NEW failed \in BOOLEAN, Goto(s, step, failed), task'[s].due
    PROVE  task[s].due /\ ~failed
BY DEF Goto, TypeOK, Task

\* The steps of a session's own handler.
LEMMA OwnLookup ==
    ASSUME TypeOK, References, NEW s \in Sessions, PendingOf(s), MembersOf(s),
           GetTopicId(s) \/ RegisterTopic(s) \/ GetNewId(s)
    PROVE  PendingOf(s)' /\ MembersOf(s)'
<1>1. /\ Fields(task[s]) /\ task[s] \in Task \ {Idle} /\ Row(s) \in Rows /\ Moves(s)
      /\ clientId[s] \in Clients
  BY ContinueMoves, RunningIsNamed DEF Continue, Fields, Row, Name
<1>2. UNCHANGED <<active, members, doubt, clientId>> /\ task[s].step # "memory"
  BY DEF GetTopicId, RegisterTopic, GetNewId, tables, At
<1>3. CASE task[s].op = "subscribe"
  <2>1. \/ GotoWithId(s, "record")
        \/ \E p \in {"register", "refind", "memory"}, f \in BOOLEAN :
              /\ Goto(s, p, f)
              /\ f \/ ~Exists(Row(s)) \/ task[s].step \in {"register", "refind"}
    BY <1>3 DEF GetTopicId, RegisterTopic, GetNewId, At
  <2>2. task'[s].op = "subscribe" /\ task'[s].name = task[s].name
    BY <1>1, <1>3, <2>1, GoingOn
  <2>3. Row(s)' = Row(s) /\ Name(s)' = Name(s)
    BY <2>2 DEF Row, Name
  <2>4. MembersOf(s)'
    BY <1>2, <2>2, <2>3 DEF MembersOf, At
  <2>5. CASE GotoWithId(s, "record")
    <3>1. task'[s].step = "record"
      BY <1>1, <2>5, GoingOn
    <3> QED
      BY <2>4, <3>1 DEF PendingOf
  <2>6. ASSUME NEW p \in {"register", "refind", "memory"}, NEW f \in BOOLEAN, Goto(s, p, f),
               f \/ ~Exists(Row(s)) \/ task[s].step \in {"register", "refind"}
        PROVE  PendingOf(s)'
    <3>1. task'[s].due => task[s].due /\ ~f
      BY <1>1, <1>3, <2>6, GoingOnFailed
    <3>2. ~Exists(Row(s)) => active[clientId[s]][Row(s)] # "inactive"
      BY <1>1 DEF References
    <3> QED
      BY <1>1, <1>2, <1>3, <2>3, <2>6, <3>1, <3>2 DEF PendingOf
  <2> QED
    BY <2>1, <2>4, <2>5, <2>6
<1>4. CASE task[s].op # "subscribe"
  <2>1. task'[s].op # "subscribe"
    <3>1. CASE Idles(s)
      BY <3>1 DEF Idles, Idle, TypeOK
    <3> QED
      BY <1>1, <1>4, <3>1, GoingOn DEF Moves
  <2> QED
    BY <1>2, <1>4, <2>1 DEF PendingOf, MembersOf, At
<1> QED
  BY <1>3, <1>4

LEMMA OwnRecord ==
    ASSUME TypeOK, References, Handlers, NEW s \in Sessions, MembersOf(s), AddSubscription(s)
    PROVE  PendingOf(s)' /\ MembersOf(s)'
<1>1. /\ Fields(task[s]) /\ task[s] \in Task \ {Idle} /\ Row(s) \in Rows /\ task[s].id = Row(s)
      /\ clientId[s] \in Clients /\ Row(s) = RowOf[Name(s)] /\ Name(s) \in Names
      /\ task[s].op = "subscribe" /\ task[s].step = "record"
  BY ContinueMoves, RunningIsNamed DEF Continue, Fields, Row, Name, Handlers, AddSubscription, At
<1>2. PICK failed \in BOOLEAN :
         /\ Goto(s, "memory", failed)
         /\ \/ active' = [active EXCEPT ![clientId[s]][Row(s)] = "active"]
            \/ UNCHANGED active /\ (failed \/ clientId[s] \notin known)
  BY <1>1 DEF AddSubscription
<1>3. /\ task'[s].name = task[s].name /\ task'[s].op = "subscribe"
      /\ task'[s].due => ~failed
  BY <1>1, <1>2, GoingOn, GoingOnFailed
<1>4. Row(s)' = Row(s) /\ Name(s)' = Name(s)
  BY <1>3 DEF Row, Name
<1>5. ~failed => active'[clientId[s]][Row(s)] # "inactive"
  BY <1>1, <1>2 DEF References, TypeOK
<1>6. \A r \in Rows : active'[clientId[s]][r] = "inactive" => active[clientId[s]][r] = "inactive"
  BY <1>1, <1>2 DEF TypeOK
<1>7. UNCHANGED <<members, clientId>> /\ \A n \in Names \ {Name(s)} : doubt'[n] = doubt[n]
  BY DEF AddSubscription, TypeOK
<1>8. PendingOf(s)'
  BY <1>3, <1>4, <1>5, <1>7 DEF PendingOf
<1>9. ASSUME NEW n \in Names \ {Name(s)}, s \in members'[n] \ doubt'[n], PrefixOf[n] # NoClient
      PROVE  active'[clientId'[s]][RowOf[n]] # "inactive"
  <2>1. s \in members[n] \ doubt[n] /\ RowOf[n] \in Rows
    BY <1>7, <1>9
  <2>2. active[clientId[s]][RowOf[n]] # "inactive"
    BY <1>1, <1>9, <2>1 DEF MembersOf, At
  <2> QED
    BY <1>6, <1>7, <2>1, <2>2
<1>10. MembersOf(s)'
  BY <1>3, <1>4, <1>9 DEF MembersOf
<1> QED
  BY <1>8, <1>10

LEMMA OwnDrop ==
    ASSUME TypeOK, Handlers, NEW s \in Sessions, MembersOf(s), RemoveSubscription(s)
    PROVE  PendingOf(s)' /\ MembersOf(s)'
<1>1. /\ Fields(task[s]) /\ task[s] \in Task \ {Idle} /\ Row(s) \in Rows /\ task[s].id = Row(s)
      /\ task[s].op = "unsubscribe" /\ task[s].step = "drop"
  BY ContinueMoves DEF Continue, Fields, Row, Name, Handlers, RemoveSubscription, At
<1>2. \E failed \in BOOLEAN : Goto(s, "memory", failed)
  BY DEF RemoveSubscription
<1>3. task'[s].name = task[s].name /\ task'[s].op = "unsubscribe" /\ task'[s].step = "memory"
  BY <1>1, <1>2, GoingOn
<1>4. Name(s)' = Name(s)
  BY <1>3 DEF Name
<1>5. \A n \in Names : doubt[n] \subseteq doubt'[n]
  <2>1. UNCHANGED doubt \/ doubt' = [n \in Names |-> doubt[n] \cup Others(s, n)]
    BY DEF RemoveSubscription
  <2> QED
    BY <2>1
<1>6. UNCHANGED <<members, clientId>>
  BY DEF RemoveSubscription
<1>7. ASSUME NEW n \in Names \ {Name(s)}, s \in members'[n] \ doubt'[n], PrefixOf[n] # NoClient
      PROVE  active'[clientId'[s]][RowOf[n]] # "inactive"
  <2>1. active[clientId[s]][RowOf[n]] # "inactive"
    BY <1>1, <1>5, <1>6, <1>7 DEF MembersOf, At
  <2>2. CASE UNCHANGED active
    BY <1>6, <2>1, <2>2
  <2>3. CASE ~UNCHANGED active
    <3>1. doubt' = [m \in Names |-> doubt[m] \cup Others(s, m)]
      BY <2>3 DEF RemoveSubscription
    <3>2. RowOf[n] # Row(s)
      BY <1>7, <3>1 DEF Others
    <3> QED
      BY <1>1, <1>6, <2>1, <3>2, RemoveSubscriptionSets DEF TypeOK
  <2> QED
    BY <2>2, <2>3
<1>8. MembersOf(s)'
  BY <1>3, <1>4, <1>7 DEF MembersOf, At
<1>9. PendingOf(s)'
  BY <1>3 DEF PendingOf
<1> QED
  BY <1>8, <1>9

LEMMA OwnJoin ==
    ASSUME TypeOK, NEW s \in Sessions, PendingOf(s), MembersOf(s), JoinSubscribers(s)
    PROVE  PendingOf(s)' /\ MembersOf(s)'
<1>1. /\ Fields(task[s]) /\ task[s] # Idle /\ Name(s) \in Names
      /\ task[s].op = "subscribe" /\ task[s].step = "memory"
  BY ContinueMoves DEF Continue, Fields, Name, JoinSubscribers, At
<1>2. task'[s] = Idle /\ UNCHANGED <<active, clientId>>
  BY DEF JoinSubscribers, Idles, TypeOK, tables
<1>3. ASSUME NEW n \in Names, s \in members'[n] \ doubt'[n], PrefixOf[n] # NoClient
      PROVE  active[clientId[s]][RowOf[n]] # "inactive"
  <2>1. CASE n = Name(s)
    <3>1. task[s].due /\ s \notin doubt[n]
      BY <1>3, <2>1 DEF JoinSubscribers, TypeOK
    <3> QED
      BY <1>1, <1>3, <2>1, <3>1 DEF PendingOf, Row
  <2>2. CASE n # Name(s)
    <3>1. s \in members[n] \ doubt[n]
      BY <1>1, <1>3, <2>2 DEF JoinSubscribers, TypeOK
    <3> QED
      BY <1>1, <1>3, <2>2, <3>1 DEF MembersOf, At
  <2> QED
    BY <2>1, <2>2
<1> QED
  BY <1>2, <1>3 DEF PendingOf, MembersOf

LEMMA OwnLeave ==
    ASSUME TypeOK, NEW s \in Sessions, MembersOf(s), LeaveSubscribers(s)
    PROVE  PendingOf(s)' /\ MembersOf(s)'
<1>1. /\ Fields(task[s]) /\ task[s] # Idle /\ Name(s) \in Names
      /\ task[s].op = "unsubscribe"
  BY ContinueMoves DEF Continue, Fields, Name, LeaveSubscribers, At
<1>2. task'[s] = Idle /\ UNCHANGED <<active, doubt, clientId>>
  BY DEF LeaveSubscribers, Idles, TypeOK, tables
<1>3. ASSUME NEW n \in Names, s \in members'[n] \ doubt'[n], PrefixOf[n] # NoClient
      PROVE  active[clientId[s]][RowOf[n]] # "inactive"
  <2>1. n # Name(s) /\ s \in members[n] \ doubt[n]
    BY <1>1, <1>2, <1>3 DEF LeaveSubscribers, TypeOK
  <2> QED
    BY <1>1, <1>3, <2>1 DEF MembersOf
<1> QED
  BY <1>2, <1>3 DEF PendingOf, MembersOf

LEMMA OwnLog ==
    ASSUME TypeOK, NEW s \in Sessions, MembersOf(s), LogMessage(s)
    PROVE  PendingOf(s)' /\ MembersOf(s)'
<1>1. /\ task'[s] = Idle /\ UNCHANGED <<active, members, doubt, clientId>>
      /\ task[s].op = "publish"
  BY DEF LogMessage, Unlogged, Idles, TypeOK, tables, At
<1> QED
  BY <1>1 DEF PendingOf, MembersOf, At

LEMMA OwnStart ==
    ASSUME TypeOK, NEW s \in Sessions, NEW n \in Names, MembersOf(s), Start(s, n)
    PROVE  PendingOf(s)' /\ MembersOf(s)'
<1>1. task[s] = Idle /\ UNCHANGED <<active, members, clientId>> /\ task[s].op = "idle"
  BY DEF Start, Subscribe, Unsubscribe, Publish, tables, Idle
<1>2. CASE Subscribe(s, n)
  <2>1. Begin(s, "subscribe", n, IF PrefixOf[n] = NoClient THEN "memory" ELSE "find", NoRow)
    BY <1>2 DEF Subscribe
  <2>2. /\ task'[s].name = n /\ task'[s].op = "subscribe"
        /\ task'[s].step = (IF PrefixOf[n] = NoClient THEN "memory" ELSE "find")
    BY <2>1 DEF Begin, TypeOK
  <2>3. \A m \in Names \ {n} : doubt'[m] = doubt[m]
    BY <1>2 DEF Subscribe, TypeOK
  <2>4. MembersOf(s)'
    BY <1>1, <2>2, <2>3 DEF MembersOf, Name, At
  <2> QED
    BY <2>2, <2>4 DEF PendingOf, Name
<1>3. CASE Unsubscribe(s, n) \/ Publish(s, n)
  <2>1. task'[s].op # "subscribe" /\ UNCHANGED doubt
    BY <1>3 DEF Unsubscribe, Publish, Begin, TypeOK
  <2> QED
    BY <1>1, <2>1 DEF PendingOf, MembersOf, At
<1> QED
  BY <1>2, <1>3 DEF Start

LEMMA OwnConnect ==
    ASSUME TypeOK, NEW s \in Sessions, NEW c \in Clients, MembersOf(s), Connect(s, c)
    PROVE  PendingOf(s)' /\ MembersOf(s)'
<1>1. /\ task'[s] = Idle /\ task[s] = Idle /\ task[s].op = "idle" /\ UNCHANGED active
      /\ clientId'[s] = c
  BY DEF Connect, TypeOK, Idle
<1>2. \A n \in Names : members'[n] \subseteq members[n]
  BY DEF Connect, Without
<1>3. CASE clientId[s] = c
  BY <1>1, <1>2, <1>3 DEF Connect, PendingOf, MembersOf, At
<1>4. CASE clientId[s] = NoClient
  BY <1>1, <1>2, <1>4 DEF TypeOK, PendingOf, MembersOf
<1>5. CASE clientId[s] \notin {c, NoClient}
  <2>1. \A n \in Names : s \in doubt'[n]
    BY <1>5 DEF Connect
  <2> QED
    BY <1>1, <2>1 DEF PendingOf, MembersOf
<1> QED
  BY <1>3, <1>4, <1>5

LEMMA SubscribedStep ==
    ASSUME TypeOK, References, Handlers, Subscribed, [Next]_vars
    PROVE  Subscribed'
<1>1. ASSUME NEW u \in Sessions, task'[u] = task[u], clientId'[u] = clientId[u],
             UNCHANGED active,
             \A n \in Names : (u \in members'[n] => u \in members[n]) /\ (u \in doubt[n] => u \in doubt'[n])
      PROVE  PendingOf(u)' /\ MembersOf(u)'
  BY <1>1, OthersKeep DEF Subscribed, Unharmed
<1>2. CASE UNCHANGED vars
  BY <1>1, <1>2 DEF vars, tables, Subscribed
<1>3. CASE Restart
  BY <1>3 DEF Restart, Subscribed, PendingOf, MembersOf
<1>4. ASSUME NEW s \in Sessions, RemoveSession(s)
      PROVE  Subscribed'
  <2>1. \A n \in Names : members'[n] \subseteq members[n]
    BY <1>4 DEF RemoveSession, Without
  <2> QED
    BY <1>1, <1>4, <2>1 DEF RemoveSession, tables, Subscribed
<1>5. ASSUME NEW s \in Sessions, NEW c \in Clients, Connect(s, c)
      PROVE  Subscribed'
  <2>1. PendingOf(s)' /\ MembersOf(s)'
    BY <1>5, OwnConnect DEF Subscribed
  <2>2. \A n \in Names : members'[n] \subseteq members[n] /\ doubt[n] \subseteq doubt'[n]
    BY <1>5 DEF Connect, Without
  <2>3. ASSUME NEW u \in Sessions \ {s}
        PROVE  PendingOf(u)' /\ MembersOf(u)'
    <3>1. UNCHANGED <<active, task>> /\ clientId'[u] = clientId[u]
      BY <1>5 DEF Connect, TypeOK
    <3> QED
      BY <1>1, <2>2, <3>1
  <2> QED
    BY <2>1, <2>3 DEF Subscribed
<1>6. ASSUME NEW s \in Sessions, Continue(s)
      PROVE  Subscribed'
  <2>1. PendingOf(s)' /\ MembersOf(s)'
    BY <1>6, OwnLookup, OwnRecord, OwnDrop, OwnJoin, OwnLeave, OwnLog DEF Continue, Subscribed
  <2>2. \A u \in Sessions \ {s} : PendingOf(u)' /\ MembersOf(u)'
    BY <1>6, ContinueOther, OthersKeep DEF Subscribed
  <2> QED
    BY <2>1, <2>2 DEF Subscribed
<1>7. ASSUME NEW s \in Sessions, NEW n \in Names, Start(s, n)
      PROVE  Subscribed'
  <2>1. PendingOf(s)' /\ MembersOf(s)'
    BY <1>7, OwnStart DEF Subscribed
  <2>2. /\ UNCHANGED <<active, members, clientId>>
        /\ \A u \in Sessions \ {s} : task'[u] = task[u] /\ \A m \in Names : u \in doubt[m] => u \in doubt'[m]
    BY <1>7 DEF Start, Subscribe, Unsubscribe, Publish, Begin, tables, TypeOK
  <2> QED
    BY <1>1, <2>1, <2>2 DEF Subscribed
<1>8. ASSUME NEW r \in Rows, (\E c \in Clients : TopicCreate(r, c))
                              \/ \E on \in BOOLEAN : SetTopicPublish(r, on)
      PROVE  Subscribed'
  BY <1>1, <1>8 DEF TopicCreate, SetTopicPublish, Subscribed
<1> QED
  BY <1>2, <1>3, <1>4, <1>5, <1>6, <1>7, <1>8, NextCases

\* A session in a topic's vector has no inactive subscription of its row, but
\* for failed calls, a CONN as another client, and an UNSUB of the row that its
\* client sent by another session or under another name.
THEOREM MembersSubscribed == Spec => []SubscribedIsActive
<1>1. Init => Subscribed
  BY DEF Init, Subscribed, PendingOf, MembersOf
<1>2. TablesIInv /\ Subscribed /\ [Next]_vars => Subscribed'
  BY SubscribedStep DEF TablesIInv
<1>3. TypeOK /\ Subscribed => SubscribedIsActive
  BY DEF Subscribed, MembersOf, SubscribedIsActive, TypeOK, At, Idle
<1>4. TablesIInv => TypeOK
  BY DEF TablesIInv
<1> QED
  BY <1>1, <1>2, <1>3, <1>4, TablesInit, TablesStep, PTL DEF Spec

-----------------------------------------------------------------------------
(* The directory that the tables and the lists implement                   *)

\* The rest of a SUB's handler is only for names with a prefix.
PrefixedOf(s) ==
    task[s].op = "subscribe" /\ task[s].step # "memory" => PrefixOf[Name(s)] # NoClient

Prefixed == \A s \in Sessions : PrefixedOf(s)

LEMMA PrefixedStep ==
    ASSUME TypeOK, Prefixed, [Next]_vars
    PROVE  Prefixed'
<1>1. ASSUME NEW s \in Sessions, task'[s] = task[s]
      PROVE  PrefixedOf(s)'
  BY <1>1 DEF Prefixed, PrefixedOf, Name
<1>2. CASE UNCHANGED task
  BY <1>1, <1>2 DEF Prefixed
<1>3. CASE Restart
  BY <1>3 DEF Restart, Prefixed, PrefixedOf, Idle
<1>4. ASSUME NEW s \in Sessions, Continue(s)
      PROVE  Prefixed'
  <2>1. Moves(s) /\ task[s] \in Task \ {Idle} /\ PrefixedOf(s)
    BY <1>4, ContinueMoves DEF Prefixed
  <2>2. \A u \in Sessions \ {s} : task'[u] = task[u]
    BY <2>1 DEF Moves, Goto, GotoWithId, Idles, TypeOK
  <2>3. PrefixedOf(s)'
    <3>1. CASE Idles(s)
      BY <3>1 DEF Idles, TypeOK, PrefixedOf, Idle
    <3>2. CASE ~Idles(s)
      <4>1. task'[s].op = task[s].op /\ task'[s].name = task[s].name
        BY <2>1, <3>2, GoingOn DEF Moves
      <4>2. CASE task[s].step # "memory"
        BY <2>1, <4>1, <4>2 DEF PrefixedOf, Name
      <4>3. CASE task[s].step = "memory"
        BY <1>4, <3>2, <4>3 DEF Continue, GetTopicId, RegisterTopic, GetNewId, AddSubscription,
           RemoveSubscription, JoinSubscribers, LeaveSubscribers, LogMessage, At
      <4> QED
        BY <4>2, <4>3
    <3> QED
      BY <3>1, <3>2
  <2> QED
    BY <1>1, <2>2, <2>3 DEF Prefixed
<1>5. ASSUME NEW s \in Sessions, NEW n \in Names, Start(s, n)
      PROVE  Prefixed'
  <2>1. \A u \in Sessions \ {s} : task'[u] = task[u]
    BY <1>5 DEF Start, Subscribe, Unsubscribe, Publish, Begin, TypeOK
  <2>2. CASE Subscribe(s, n)
    <3>1. Begin(s, "subscribe", n, IF PrefixOf[n] = NoClient THEN "memory" ELSE "find", NoRow)
      BY <2>2 DEF Subscribe
    <3>2. task'[s].name = n /\ task'[s].step = (IF PrefixOf[n] = NoClient THEN "memory" ELSE "find")
      BY <3>1 DEF Begin, TypeOK
    <3> QED
      BY <1>1, <2>1, <3>2 DEF Prefixed, PrefixedOf, Name
  <2>3. CASE Unsubscribe(s, n) \/ Publish(s, n)
    <3>1. task'[s].op # "subscribe"
      BY <2>3 DEF Unsubscribe, Publish, Begin, TypeOK
    <3> QED
      BY <1>1, <2>1, <3>1 DEF Prefixed, PrefixedOf
  <2> QED
    BY <1>5, <2>2, <2>3 DEF Start
<1> QED
  BY <1>2, <1>3, <1>4, <1>5, NextCases DEF vars, Connect, RemoveSession, TopicCreate, SetTopicPublish

\* A handler that goes on asks for what it did ...
LEMMA GoingOnAsksTheSame ==
    ASSUME TypeOK, NEW s \in Sessions, task[s] \in Task \ {Idle}, NEW op,
           \E step, failed : Goto(s, step, failed) \/ GotoWithId(s, step)
    PROVE  UNCHANGED Asked(op)
<1>1. /\ task'[s].op = task[s].op /\ task'[s].name = task[s].name
      /\ \A u \in Sessions \ {s} : task'[u] = task[u]
  BY GoingOn
<1> QED
  BY <1>1 DEF Asked, Name

\* ... until it ends ...
LEMMA EndingAsksNothing ==
    ASSUME TypeOK, NEW s \in Sessions, Idles(s), NEW op \in {"subscribe", "unsubscribe"}
    PROVE  Asked(op)' = [Asked(op) EXCEPT ![s] = {}]
<1>1. task'[s].op = "idle" /\ \A u \in Sessions \ {s} : task'[u] = task[u]
  BY DEF Idles, Idle, TypeOK
<1> QED
  BY <1>1 DEF Asked, Name

\* ... and a session without one has asked for nothing.
LEMMA BeginningAsks ==
    ASSUME TypeOK, NEW s \in Sessions, NEW n, NEW o, NEW step, NEW id, Begin(s, o, n, step, id),
           NEW op
    PROVE  Asked(op)' = [Asked(op) EXCEPT ![s] = IF o = op THEN {n} ELSE {}]
<1>1. task'[s].op = o /\ task'[s].name = n /\ \A u \in Sessions \ {s} : task'[u] = task[u]
  BY DEF Begin, TypeOK
<1> QED
  BY <1>1 DEF Asked, Name

DirStep == [Directory!DirectoryNext]_Directory!directoryVars

LEMMA TablesAsPromised ==
    ASSUME TypeOK, Handlers, NEW s \in Sessions,
           GetTopicId(s) \/ RegisterTopic(s) \/ GetNewId(s)
    PROVE  DirStep
<1>1. Fields(task[s]) /\ task[s] \in Task \ {Idle} /\ Row(s) \in Rows /\ Moves(s)
  BY ContinueMoves DEF Continue, Fields, Row, Name
<1>2. UNCHANGED <<known, shared, active, clientId, sessions, members>>
  BY DEF GetTopicId, RegisterTopic, GetNewId, tables
<1>3. UNCHANGED <<Asked("subscribe"), Asked("unsubscribe")>>
  <2>1. CASE Idles(s)
    <3>1. task[s].op = "publish"
      <4>1. task'[s].op = "idle"
        BY <2>1 DEF Idles, Idle, TypeOK
      <4>2. \A step, failed : ~Goto(s, step, failed) /\ ~GotoWithId(s, step)
        BY <1>1, <4>1, GoingOn DEF Fields
      <4>3. ~GetTopicId(s)
        BY <4>2, Zenon DEF GetTopicId
      <4>4. RegisterTopic(s) => task[s].op # "subscribe"
        BY <4>2, Zenon DEF RegisterTopic
      <4>5. GetNewId(s) => task[s].op # "subscribe"
        BY <4>2, Zenon DEF GetNewId
      <4>6. task[s].op \in {"subscribe", "publish"}
        BY <4>3 DEF RegisterTopic, GetNewId, At
      <4> QED
        BY <4>3, <4>4, <4>5, <4>6
    <3>2. task'[s].op = "idle" /\ \A u \in Sessions \ {s} : task'[u] = task[u]
      BY <2>1 DEF Idles, Idle, TypeOK
    <3> QED
      BY <3>1, <3>2 DEF Asked, Name
  <2> QED
    BY <1>1, <2>1, GoingOnAsksTheSame DEF Moves
<1>4. \/ UNCHANGED owner
      \/ owner' = Registered(Row(s), PrefixOf[Name(s)]) /\ PrefixOf[Name(s)] \in known
  BY DEF GetTopicId, RegisterTopic, GetNewId, tables
<1>5. CASE UNCHANGED owner
  BY <1>2, <1>3, <1>5 DEF DirStep, Directory!directoryVars
<1>6. CASE owner' = Registered(Row(s), PrefixOf[Name(s)]) /\ PrefixOf[Name(s)] \in known /\ owner' # owner
  <2>1. owner[Row(s)] = NoClient /\ owner' = [owner EXCEPT ![Row(s)] = PrefixOf[Name(s)]]
    BY <1>1, <1>6 DEF Registered, TypeOK
  <2>2. Directory!Own(Row(s), PrefixOf[Name(s)])
    BY <1>2, <1>3, <1>6, <2>1 DEF Directory!Own
  <2>3. PrefixOf[Name(s)] \in Clients
    BY <1>6 DEF TypeOK
  <2> QED
    BY <1>1, <2>2, <2>3 DEF DirStep, Directory!DirectoryNext
<1> QED
  BY <1>4, <1>5, <1>6

LEMMA SubscriptionAsPromised ==
    ASSUME TypeOK, Handlers, Prefixed, NEW s \in Sessions,
           AddSubscription(s) \/ RemoveSubscription(s)
    PROVE  DirStep
<1>1. /\ Fields(task[s]) /\ task[s] \in Task \ {Idle} /\ Row(s) \in Rows /\ Name(s) \in Names
      /\ Row(s) = RowOf[Name(s)] /\ clientId[s] \in Clients
  BY ContinueMoves, RunningIsNamed DEF Continue, Fields, Row, Name
<1>2. task[s].id = Row(s) /\ Exists(Row(s))
  BY <1>1 DEF AddSubscription, RemoveSubscription, At, Handlers
<1>3. UNCHANGED <<known, owner, shared, clientId, sessions, members>>
  BY DEF AddSubscription, RemoveSubscription
<1>4. UNCHANGED <<Asked("subscribe"), Asked("unsubscribe")>>
  BY <1>1, GoingOnAsksTheSame DEF AddSubscription, RemoveSubscription
<1>5. CASE UNCHANGED active
  BY <1>3, <1>4, <1>5 DEF DirStep, Directory!directoryVars
<1>6. CASE AddSubscription(s) /\ ~UNCHANGED active
  <2>1. clientId[s] \in known /\ active' = [active EXCEPT ![clientId[s]][Row(s)] = "active"]
    BY <1>2, <1>6 DEF AddSubscription
  <2>2. PrefixOf[Name(s)] # NoClient /\ Name(s) \in Asked("subscribe")[s]
    BY <1>6 DEF Prefixed, PrefixedOf, AddSubscription, At, Asked
  <2>3. Directory!Enrol(s, Name(s))
    BY <1>1, <1>2, <1>3, <1>4, <2>1, <2>2 DEF Directory!Enrol, Exists
  <2> QED
    BY <2>2, <2>3 DEF DirStep, Directory!DirectoryNext
<1>7. CASE RemoveSubscription(s) /\ ~UNCHANGED active
  <2>1. active[clientId[s]][Row(s)] = "active" /\ active' = [active EXCEPT ![clientId[s]][Row(s)] = "inactive"]
    <3>1. active' = [active EXCEPT ![clientId[s]][Row(s)] =
                       IF active[clientId[s]][Row(s)] = "none" THEN "none" ELSE "inactive"]
      BY <1>2, <1>7, RemoveSubscriptionSets
    <3>2. active[clientId[s]][Row(s)] \in {"none", "active", "inactive"}
      BY <1>1 DEF TypeOK
    <3>3. [active EXCEPT ![clientId[s]][Row(s)] = active[clientId[s]][Row(s)]] = active
      BY <1>1 DEF TypeOK
    <3>4. active[clientId[s]][Row(s)] = "active"
      BY <1>7, <3>1, <3>2, <3>3
    <3> QED
      BY <3>1, <3>4
  <2>2. Name(s) \in Asked("unsubscribe")[s]
    BY <1>7 DEF RemoveSubscription, At, Asked
  <2>3. Directory!Withdraw(s, Name(s))
    BY <1>1, <1>3, <1>4, <2>1, <2>2 DEF Directory!Withdraw
  <2> QED
    BY <2>2, <2>3 DEF DirStep, Directory!DirectoryNext
<1> QED
  BY <1>5, <1>6, <1>7

LEMMA MembersAsPromised ==
    ASSUME TypeOK, NEW s \in Sessions,
           JoinSubscribers(s) \/ LeaveSubscribers(s) \/ LogMessage(s)
    PROVE  DirStep
<1>1. /\ Idles(s)
      /\ UNCHANGED <<known, owner, shared, active, clientId, sessions>>
  BY DEF JoinSubscribers, LeaveSubscribers, LogMessage, Unlogged, tables
<1>2. /\ Asked("subscribe")' = [Asked("subscribe") EXCEPT ![s] = {}]
      /\ Asked("unsubscribe")' = [Asked("unsubscribe") EXCEPT ![s] = {}]
  BY <1>1, EndingAsksNothing
<1>3. \A op : task[s].op # op => [Asked(op) EXCEPT ![s] = {}] = Asked(op)
  BY DEF Asked
<1>4. CASE JoinSubscribers(s)
  <2>1. task[s].op = "subscribe" /\ Name(s) \in Asked("subscribe")[s]
    BY <1>4 DEF JoinSubscribers, At, Asked
  <2>2. UNCHANGED Asked("unsubscribe")
    BY <1>2, <1>3, <2>1
  <2>3. Directory!Join(s, Name(s))
    BY <1>1, <1>2, <1>4, <2>1, <2>2 DEF Directory!Join, JoinSubscribers
  <2> QED
    BY <2>1, <2>3 DEF DirStep, Directory!DirectoryNext
<1>5. CASE LeaveSubscribers(s)
  <2>1. task[s].op = "unsubscribe" /\ Name(s) \in Asked("unsubscribe")[s]
    BY <1>5 DEF LeaveSubscribers, At, Asked
  <2>2. UNCHANGED Asked("subscribe")
    BY <1>2, <1>3, <2>1
  <2>3. Directory!Leave(s, Name(s))
    BY <1>1, <1>2, <1>5, <2>1, <2>2 DEF Directory!Leave, LeaveSubscribers
  <2> QED
    BY <2>1, <2>3 DEF DirStep, Directory!DirectoryNext
<1>6. CASE LogMessage(s)
  <2>1. UNCHANGED <<Asked("subscribe"), Asked("unsubscribe")>>
    BY <1>2, <1>3, <1>6 DEF LogMessage, At
  <2> QED
    BY <1>1, <1>6, <2>1 DEF DirStep, Directory!directoryVars, LogMessage
<1> QED
  BY <1>4, <1>5, <1>6

LEMMA PacketsAsPromised ==
    ASSUME TypeOK, NEW s \in Sessions, NEW n \in Names, Start(s, n)
    PROVE  DirStep
<1>1. /\ clientId[s] # NoClient /\ task[s].op = "idle"
      /\ UNCHANGED <<known, owner, shared, active, clientId, sessions, members>>
  BY DEF Start, Subscribe, Unsubscribe, Publish, Idle, tables
<1>2. \A op : op # "idle" => Asked(op)[s] = {} /\ [Asked(op) EXCEPT ![s] = {}] = Asked(op)
  BY <1>1 DEF Asked
<1>3. Directory!Free(s)
  BY <1>1, <1>2 DEF Directory!Free
<1>4. CASE Subscribe(s, n)
  <2>1. /\ Asked("subscribe")' = [Asked("subscribe") EXCEPT ![s] = {n}]
        /\ Asked("unsubscribe")' = [Asked("unsubscribe") EXCEPT ![s] = {}]
    BY <1>4, BeginningAsks DEF Subscribe
  <2>2. Directory!AskJoin(s, n)
    BY <1>1, <1>2, <1>3, <2>1 DEF Directory!AskJoin
  <2> QED
    BY <2>2 DEF DirStep, Directory!DirectoryNext
<1>5. CASE Unsubscribe(s, n)
  <2>1. /\ Asked("unsubscribe")' = [Asked("unsubscribe") EXCEPT ![s] = {n}]
        /\ Asked("subscribe")' = [Asked("subscribe") EXCEPT ![s] = {}]
    BY <1>5, BeginningAsks DEF Unsubscribe
  <2>2. Directory!AskLeave(s, n)
    BY <1>1, <1>2, <1>3, <2>1 DEF Directory!AskLeave
  <2> QED
    BY <2>2 DEF DirStep, Directory!DirectoryNext
<1>6. CASE Publish(s, n)
  <2>1. /\ Asked("subscribe")' = [Asked("subscribe") EXCEPT ![s] = {}]
        /\ Asked("unsubscribe")' = [Asked("unsubscribe") EXCEPT ![s] = {}]
    BY <1>6, BeginningAsks DEF Publish
  <2> QED
    BY <1>1, <1>2, <2>1 DEF DirStep, Directory!directoryVars
<1> QED
  BY <1>4, <1>5, <1>6 DEF Start

LEMMA DirectoryStep ==
    ASSUME TablesIInv, Prefixed, [Next]_vars
    PROVE  DirStep
<1>1. TypeOK /\ Handlers
  BY DEF TablesIInv
<1>2. UNCHANGED task => UNCHANGED <<Asked("subscribe"), Asked("unsubscribe")>>
  BY DEF Asked, Name
<1>3. CASE UNCHANGED vars
  BY <1>2, <1>3 DEF vars, tables, DirStep, Directory!directoryVars
<1>4. CASE Restart
  <2>1. \A op \in {"subscribe", "unsubscribe"} : Asked(op)' = [s \in Sessions |-> {}]
    BY <1>4 DEF Restart, Asked, Idle
  <2>2. Directory!Crash
    BY <1>4, <2>1 DEF Restart, tables, Directory!Crash
  <2> QED
    BY <2>2 DEF DirStep, Directory!DirectoryNext
<1>5. ASSUME NEW s \in Sessions, NEW c \in Clients, Connect(s, c)
      PROVE  DirStep
  <2>1. Asked("subscribe")[s] = {} /\ Asked("unsubscribe")[s] = {}
    BY <1>5 DEF Connect, Asked, Idle
  <2>2. members' = [n \in Names |-> members[n] \ {sessions[c]}]
    <3>1. CASE sessions[c] = NoSession
      <4>1. \A n \in Names : members[n] \ {sessions[c]} = members[n]
        BY <1>1, <3>1 DEF TypeOK
      <4> QED
        BY <1>1, <1>5, <3>1, <4>1 DEF Connect, TypeOK
    <3> QED
      BY <1>5, <3>1 DEF Connect, Without
  <2>3. Directory!Arrive(s, c)
    BY <1>2, <1>5, <2>1, <2>2 DEF Connect, Directory!Arrive, Directory!Free
  <2> QED
    BY <2>3 DEF DirStep, Directory!DirectoryNext
<1>6. ASSUME NEW s \in Sessions, RemoveSession(s)
      PROVE  DirStep
  <2>1. Directory!Depart(s)
    BY <1>2, <1>6 DEF RemoveSession, Without, tables, Directory!Depart
  <2> QED
    BY <2>1 DEF DirStep, Directory!DirectoryNext
<1>7. ASSUME NEW s \in Sessions, Continue(s)
      PROVE  DirStep
  BY <1>1, <1>7, TablesAsPromised, SubscriptionAsPromised, MembersAsPromised DEF Continue
<1>8. ASSUME NEW s \in Sessions, NEW n \in Names, Start(s, n)
      PROVE  DirStep
  BY <1>1, <1>8, PacketsAsPromised
<1>9. ASSUME NEW r \in Rows, NEW c \in Clients, TopicCreate(r, c)
      PROVE  DirStep
  <2>1. CASE UNCHANGED owner
    BY <1>2, <1>9, <2>1 DEF TopicCreate, DirStep, Directory!directoryVars
  <2>2. CASE owner' # owner
    <3>1. owner[r] = NoClient /\ owner' = [owner EXCEPT ![r] = c]
      BY <1>1, <1>9, <2>2 DEF TopicCreate, Registered, TypeOK
    <3>2. Directory!Own(r, c)
      BY <1>2, <1>9, <3>1 DEF TopicCreate, Directory!Own
    <3> QED
      BY <3>2 DEF DirStep, Directory!DirectoryNext
  <2> QED
    BY <2>1, <2>2
<1>10. ASSUME NEW r \in Rows, NEW on \in BOOLEAN, SetTopicPublish(r, on)
      PROVE  DirStep
  <2>1. Directory!Share(r)
    BY <1>2, <1>10 DEF SetTopicPublish, Directory!Share, Exists
  <2> QED
    BY <2>1 DEF DirStep, Directory!DirectoryNext
<1> QED
  BY <1>3, <1>4, <1>5, <1>6, <1>7, <1>8, <1>9, <1>10, NextCases

\* Tables and subscriber lists change only as module TopicDirectory promises:
\* rows keep their owner, a client's subscriptions change only at the request of
\* a session of its own and for what that asked, a session becomes a member only
\* at its own request, and removals in the middle of a request, new processes,
\* failing calls and the cache add nothing to this.
THEOREM DirectoryRefinement == Spec => DirectoryAsPromised
<1>1. Init => Directory!DirectoryInit
  BY DEF Init, Directory!DirectoryInit, Asked, Idle
<1>2. Init => Prefixed
  BY DEF Init, Prefixed, PrefixedOf, Idle
<1>3. TablesIInv /\ Prefixed /\ [Next]_vars => Prefixed'
  BY PrefixedStep DEF TablesIInv
<1>4. TablesIInv /\ Prefixed /\ [Next]_vars => [Directory!DirectoryNext]_Directory!directoryVars
  BY DirectoryStep DEF DirStep
<1> QED
  BY <1>1, <1>2, <1>3, <1>4, TablesInit, TablesStep, PTL
     DEF Spec, DirectoryAsPromised, Directory!DirectorySpec
=============================================================================
