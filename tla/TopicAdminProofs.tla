-------------------------- MODULE TopicAdminProofs --------------------------
(* Theorems about module TopicAdmin, for any number of clients, topics and *)
(* threads.                                                                *)
EXTENDS TopicAdmin, TLAPS

\* The steps by which a handler starts, one by one.
LEMMA StartCases ==
    ASSUME NEW h \in Threads, Start(h)
    PROVE  \E c \in Clients, t \in Topics :
              \/ \E o \in Clients, via \in {"packet", "json"} : StartRequest(h, c, t, o, via)
              \/ \E o \in Clients, status \in {"approved", "rejected"}, via \in Answers :
                    Respond(h, o, t, c, status, via)
              \/ \E o \in Clients : Revoke(h, o, t, c)
              \/ Resign(h, c, t)
              \/ \E v \in {"on", "off"} : StartSet(h, c, t, v)
              \/ SetActivable(h, c, t)
BY DEF Start

LEMMA AdminTypeInit == Init => TypeOK
BY AdminAssumption DEF Init, TypeOK, Status, Value, Task

\* The threads keep to their tasks.
LEMMA TaskType ==
    ASSUME TypeOK, NEW h \in Threads, Start(h) \/ Continue(h)
    PROVE  task' \in [Threads -> Task]
<1>1. task \in [Threads -> Task] /\ owner \in [Topics -> Clients \cup {NoClient}]
      /\ Prefix \in [Topics -> Clients \cup {NoClient}]
  BY AdminAssumption DEF TypeOK
<1>2. ASSUME NEW next \in Task, Becomes(h, next) PROVE task' \in [Threads -> Task]
  BY <1>1, <1>2 DEF Becomes
<1>3. task[h] \in Task /\ Idle \in Task
  BY <1>1 DEF Task
<1>4. ASSUME NEW c \in Clients, NEW t \in Topics, NEW o \in Clients,
             NEW via \in {"packet", "json"}, StartRequest(h, c, t, o, via)
      PROVE  task' \in [Threads -> Task]
  BY <1>2, <1>4 DEF StartRequest, Task, Request
<1>5. ASSUME NEW c \in Clients, NEW t \in Topics, NEW o \in Clients, NEW via,
             NEW status \in {"approved", "rejected"}, Respond(h, o, t, c, status, via)
      PROVE  task' \in [Threads -> Task]
  BY <1>2, <1>5 DEF Respond, Task, Result
<1>6. ASSUME NEW c \in Clients, NEW t \in Topics, NEW o \in Clients, Revoke(h, o, t, c)
      PROVE  task' \in [Threads -> Task]
  BY <1>2, <1>6 DEF Revoke, Task, Result
<1>7. ASSUME NEW c \in Clients, NEW t \in Topics, NEW v \in {"on", "off"}, StartSet(h, c, t, v)
      PROVE  task' \in [Threads -> Task]
  <2>1. Targets(t) \subseteq Clients \cup {NoClient}
    BY <1>1 DEF Targets
  <2> QED
    BY <1>2, <1>7, <2>1 DEF StartSet, Task, Command
<1>8. ASSUME NEW c \in Clients, NEW t \in Topics, Resign(h, c, t) \/ SetActivable(h, c, t)
      PROVE  task' \in [Threads -> Task]
  BY <1>1, <1>8 DEF Resign, SetActivable
<1>9. CASE Check(h)
  <2>1. task[h] \in Request /\ task[h].step \in 1..7
    BY <1>3, <1>9 DEF Check, Task, Idle, Result, Command
  <2>2. [task[h] EXCEPT !.step = @ + 1] \in Task
    BY <2>1 DEF Request, Task
  <2> QED
    BY <1>2, <1>3, <1>9, <2>2 DEF Check
<1>10. CASE WriteRequest(h) \/ Notify(h) \/ SendCommand(h)
  BY <1>2, <1>3, <1>10 DEF WriteRequest, Notify, SendCommand
<1>11. CASE Grant(h)
  <2>1. task[h] \in Result
    BY <1>3, <1>11 DEF Grant, Task, Idle, Request, Command
  <2>2. [task[h] EXCEPT !.op = "notify"] \in Task
    BY <2>1 DEF Result, Task
  <2> QED
    BY <1>2, <1>11, <2>2 DEF Grant
<1>12. CASE SetSensor(h)
  <2>1. task[h] \in Command
    BY <1>3, <1>12 DEF SetSensor, Task, Idle, Request, Result
  <2>2. [task[h] EXCEPT !.op = "command"] \in Task
    BY <2>1 DEF Command, Task
  <2> QED
    BY <1>2, <1>3, <1>12, <2>2 DEF SetSensor
<1> QED
  BY <1>4, <1>5, <1>6, <1>7, <1>8, <1>9, <1>10, <1>11, <1>12, StartCases DEF Continue

\* What a handler leaves the tables like.
TablesKept ==
    /\ UNCHANGED <<known, online, owner, subscribed, cut>>
    /\ request' \in [Topics -> [Clients -> Status]]
    /\ admin' \in [Topics -> SUBSET Clients]
    /\ sensor' \in [Topics -> Value]
    /\ device' \in [Topics -> Value]
    /\ denied' \in [Topics -> SUBSET Clients]

LEMMA TablesType ==
    ASSUME TypeOK, NEW h \in Threads, Start(h) \/ Continue(h)
    PROVE  TablesKept
<1>1. task[h] \in Task
  BY DEF TypeOK
<1>2. ASSUME NEW c \in Clients, NEW t \in Topics, NEW o \in Clients, NEW via,
             StartRequest(h, c, t, o, via)
      PROVE  TablesKept
  BY <1>2 DEF StartRequest, TypeOK, dbTables, seen, TablesKept
<1>3. ASSUME NEW c \in Clients, NEW t \in Topics, NEW o \in Clients, NEW via,
             NEW status \in {"approved", "rejected"}, Respond(h, o, t, c, status, via)
      PROVE  TablesKept
  BY <1>3 DEF Respond, TypeOK, seen, TablesKept, Status
<1>4. ASSUME NEW c \in Clients, NEW t \in Topics, NEW o \in Clients, Revoke(h, o, t, c)
      PROVE  TablesKept
  BY <1>4 DEF Revoke, TypeOK, seen, TablesKept, Status
<1>5. ASSUME NEW c \in Clients, NEW t \in Topics, Resign(h, c, t)
      PROVE  TablesKept
  BY <1>5 DEF Resign, TypeOK, seen, TablesKept, Status
<1>6. ASSUME NEW c \in Clients, NEW t \in Topics, NEW v, StartSet(h, c, t, v)
      PROVE  TablesKept
  BY <1>6 DEF StartSet, TypeOK, dbTables, seen, TablesKept
<1>7. ASSUME NEW c \in Clients, NEW t \in Topics, SetActivable(h, c, t)
      PROVE  TablesKept
  BY <1>7 DEF SetActivable, TypeOK, seen, TablesKept, Value
<1>8. CASE Check(h)
  BY <1>8 DEF Check, TypeOK, dbTables, seen, TablesKept
<1>9. CASE WriteRequest(h)
  <2>1. task[h] \in Request
    BY <1>1, <1>9 DEF WriteRequest, Task, Idle, Result, Command
  <2>2. task[h].topic \in Topics /\ task[h].by \in Clients
    BY <2>1 DEF Request
  <2>3. request \in [Topics -> [Clients -> Status]] /\ "pending" \in Status
    BY DEF TypeOK, Status
  <2>4. request' = [request EXCEPT ![task[h].topic][task[h].by] = "pending"] \/ request' = request
    BY <1>9 DEF WriteRequest
  <2>5. request' \in [Topics -> [Clients -> Status]]
    BY <2>2, <2>3, <2>4
  <2> QED
    BY <1>9, <2>5 DEF WriteRequest, TypeOK, seen, TablesKept
<1>10. CASE Grant(h) \/ Notify(h)
  <2>1. task[h] \in Result
    BY <1>1, <1>10 DEF Grant, Notify, Task, Idle, Request, Command
  <2>2. CASE Grant(h)
    <3>1. task[h].topic \in Topics /\ task[h].about \in Clients
      BY <2>1 DEF Result
    <3>2. admin' \in [Topics -> SUBSET Clients]
      <4>1. UNCHANGED admin \/ admin' = [admin EXCEPT ![task[h].topic] = {task[h].about}]
        BY <2>2 DEF Grant
      <4>2. admin \in [Topics -> SUBSET Clients]
        BY DEF TypeOK
      <4> QED
        BY <3>1, <4>1, <4>2
    <3> QED
      BY <2>2, <3>2 DEF Grant, TypeOK, seen, TablesKept
  <2>3. CASE Notify(h)
    BY <2>1, <2>3 DEF Notify, TypeOK, dbTables, Result, TablesKept
  <2> QED
    BY <1>10, <2>2, <2>3
<1>11. CASE SetSensor(h) \/ SendCommand(h)
  <2>1. task[h] \in Command
    BY <1>1, <1>11 DEF SetSensor, SendCommand, Task, Idle, Request, Result
  <2>2. CASE SetSensor(h)
    BY <2>1, <2>2 DEF SetSensor, TypeOK, seen, TablesKept, Command, Value
  <2>3. CASE SendCommand(h)
    BY <2>1, <2>3 DEF SendCommand, TypeOK, dbTables, Command, Value, TablesKept
  <2> QED
    BY <1>11, <2>2, <2>3
<1>12. CASE Start(h)
  BY <1>2, <1>3, <1>4, <1>5, <1>6, <1>7, <1>12, StartCases
<1>13. CASE Continue(h)
  BY <1>8, <1>9, <1>10, <1>11, <1>13 DEF Continue
<1> QED
  BY <1>12, <1>13

LEMMA AdminTypeStep == TypeOK /\ [Next]_vars => TypeOK'
<1> SUFFICES ASSUME TypeOK, [Next]_vars PROVE TypeOK'
  OBVIOUS
<1>1. CASE Elsewhere
  <2>1. ASSUME NEW c \in Clients, Connect(c) PROVE TypeOK'
    BY <2>1 DEF Connect, Forgotten, TypeOK, dbTables, Value
  <2>2. ASSUME NEW c \in Clients, Disconnect(c) \/ CutOff(c) PROVE TypeOK'
    BY <2>2 DEF Disconnect, CutOff, Forgotten, TypeOK, dbTables, Value
  <2>3. ASSUME NEW c \in Clients, NEW t \in Topics, RegisterTopic(c, t) PROVE TypeOK'
    BY <2>3 DEF RegisterTopic, TypeOK, seen
  <2>4. ASSUME NEW c \in Clients, NEW t \in Topics, AddSubscription(c, t) PROVE TypeOK'
    <3>1. subscribed' \in [Topics -> SUBSET Clients]
      BY <2>4 DEF AddSubscription, TypeOK
    <3> QED
      BY <2>4, <3>1 DEF AddSubscription, TypeOK, seen
  <2>5. ASSUME NEW c \in Clients, NEW t \in Topics, RemoveSubscription(c, t) PROVE TypeOK'
    <3>1. subscribed' \in [Topics -> SUBSET Clients]
      BY <2>5 DEF RemoveSubscription, TypeOK
    <3> QED
      BY <2>5, <3>1 DEF RemoveSubscription, TypeOK, seen
  <2> QED
    BY <1>1, <2>1, <2>2, <2>3, <2>4, <2>5 DEF Elsewhere
<1>2. ASSUME NEW h \in Threads, Start(h) \/ Continue(h) PROVE TypeOK'
  <2>1. task' \in [Threads -> Task]
    BY <1>2, TaskType
  <2> QED
    BY <1>2, <2>1, TablesType DEF TypeOK, TablesKept
<1>3. CASE Restart
  BY <1>3 DEF Restart, TypeOK, dbTables, Task, Value
<1>4. CASE UNCHANGED vars
  BY <1>4 DEF TypeOK, vars, dbTables, seen
<1> QED
  BY <1>1, <1>2, <1>3, <1>4 DEF Next

\* Every variable keeps to its type.
THEOREM AdminTypes == Spec => []TypeOK
BY AdminTypeInit, AdminTypeStep, PTL DEF Spec

-----------------------------------------------------------------------------
(* The tables of requests and administrators                               *)

Writes(h) ==
    \/ WriteRequest(h) \/ Grant(h)
    \/ \E c \in Clients, t \in Topics :
          \/ \E o \in Clients, status \in {"approved", "rejected"}, via \in Answers :
                Respond(h, o, t, c, status, via)
          \/ \E o \in Clients : Revoke(h, o, t, c)
          \/ Resign(h, c, t)

\* No other step writes them.
LEMMA OthersRead ==
    ASSUME [Next]_vars
    PROVE  UNCHANGED <<request, admin>> \/ \E h \in Threads : Writes(h)
<1>1. ASSUME NEW h \in Threads, Start(h) PROVE UNCHANGED <<request, admin>> \/ Writes(h)
  BY <1>1, StartCases DEF Writes, StartRequest, StartSet, SetActivable, dbTables
<1>2. ASSUME NEW h \in Threads, Continue(h) PROVE UNCHANGED <<request, admin>> \/ Writes(h)
  BY <1>2 DEF Continue, Writes, Check, Notify, SetSensor, SendCommand, dbTables
<1>3. CASE Elsewhere \/ Restart
  BY <1>3 DEF Elsewhere, Connect, Disconnect, CutOff, RegisterTopic, AddSubscription,
              RemoveSubscription, Restart, dbTables
<1>4. CASE UNCHANGED vars
  BY <1>4 DEF vars, dbTables
<1> QED
  BY <1>1, <1>2, <1>3, <1>4 DEF Next

\* What a writing step does to the tables, for one topic and one client.
Effect(h, t, c) ==
    \/ /\ request' = [request EXCEPT ![t][c] = "pending"]
       /\ task[h].op = "request" /\ task[h].step = 8
       /\ task[h].topic = t /\ task[h].by = c
       /\ UNCHANGED admin
    \/ /\ task[h].op = "grant"
       /\ task[h].topic = t /\ task[h].about = c
       /\ admin[t] = {}
       /\ admin' = [admin EXCEPT ![t] = {c}]
       /\ UNCHANGED request
    \/ /\ Free(h) /\ request[t][c] = "pending"
       /\ request' = [request EXCEPT ![t][c] = "approved"]
       /\ admin' = [admin EXCEPT ![t] = {c}]
    \/ /\ Free(h) /\ request[t][c] = "pending"
       /\ request' = [request EXCEPT ![t][c] = "rejected"]
       /\ UNCHANGED admin
    \/ /\ Free(h) /\ c \in admin[t]
       /\ request' = [request EXCEPT ![t][c] = IF @ = "approved" THEN "revoked" ELSE @]
       /\ admin' = [admin EXCEPT ![t] = @ \ {c}]
    \/ UNCHANGED <<request, admin>>

LEMMA WriteEffect ==
    ASSUME TypeOK, NEW h \in Threads, Writes(h)
    PROVE  \E t \in Topics, c \in Clients : Effect(h, t, c)
<1>1. task[h] \in Task
  BY DEF TypeOK
<1>2. CASE WriteRequest(h)
  <2>1. task[h] \in Request
    BY <1>1, <1>2 DEF WriteRequest, Task, Idle, Result, Command
  <2>2. task[h].topic \in Topics /\ task[h].by \in Clients
    BY <2>1 DEF Request
  <2> QED
    BY <1>2, <2>2 DEF WriteRequest, Effect
<1>3. CASE Grant(h)
  <2>1. task[h] \in Result
    BY <1>1, <1>3 DEF Grant, Task, Idle, Request, Command
  <2>2. task[h].topic \in Topics /\ task[h].about \in Clients
    BY <2>1 DEF Result
  <2> QED
    BY <1>3, <2>2 DEF Grant, Effect
<1>4. ASSUME NEW c \in Clients, NEW t \in Topics, NEW o \in Clients, NEW via,
             NEW status \in {"approved", "rejected"}, Respond(h, o, t, c, status, via)
      PROVE  /\ Free(h) /\ request[t][c] = "pending"
             /\ \/ /\ request' = [request EXCEPT ![t][c] = "approved"]
                   /\ admin' = [admin EXCEPT ![t] = {c}]
                \/ /\ request' = [request EXCEPT ![t][c] = "rejected"]
                   /\ UNCHANGED admin
  BY <1>4 DEF Respond
<1>5. ASSUME NEW c \in Clients, NEW t \in Topics,
             Resign(h, c, t) \/ \E o \in Clients : Revoke(h, o, t, c)
      PROVE  /\ Free(h) /\ c \in admin[t]
             /\ request' = [request EXCEPT ![t][c] = IF @ = "approved" THEN "revoked" ELSE @]
             /\ admin' = [admin EXCEPT ![t] = @ \ {c}]
  BY <1>5 DEF Resign, Revoke
<1> QED
  BY <1>2, <1>3, <1>4, <1>5 DEF Writes, Effect

\* Approvals replace, second grants fill an empty place.
LEMMA SingleStep == TypeOK /\ SingleAdmin /\ [Next]_vars => SingleAdmin'
<1> SUFFICES ASSUME TypeOK, SingleAdmin, [Next]_vars PROVE SingleAdmin'
  OBVIOUS
<1>1. admin \in [Topics -> SUBSET Clients]
  BY DEF TypeOK
<1>2. ASSUME NEW h \in Threads, Writes(h) PROVE SingleAdmin'
  BY <1>1, <1>2, WriteEffect DEF SingleAdmin, Effect
<1> QED
  BY <1>2, OthersRead DEF SingleAdmin

\* A topic never has two administrators.
THEOREM OneAdmin == Spec => []SingleAdmin
<1>1. Init => SingleAdmin
  BY DEF Init, SingleAdmin
<1> QED
  BY <1>1, AdminTypeInit, AdminTypeStep, SingleStep, PTL DEF Spec

-----------------------------------------------------------------------------
(* The post of administrator                                               *)

Noted(r) == IF r.op = "grant" THEN {<<r.topic, r.about>>} ELSE {}

\* The threads' notes change with the tasks.
LEMMA NotedStep ==
    ASSUME TypeOK, NEW h \in Threads, NEW next, Becomes(h, next)
    PROVE  [g \in Threads |-> Noted(task'[g])]
             = [[g \in Threads |-> Noted(task[g])] EXCEPT ![h] = Noted(next)]
BY DEF TypeOK, Becomes

LEMMA NotedSame ==
    ASSUME TypeOK, NEW h \in Threads, NEW next, Becomes(h, next),
           task[h].op # "grant", next.op # "grant"
    PROVE  [g \in Threads |-> Noted(task'[g])] = [g \in Threads |-> Noted(task[g])]
BY DEF TypeOK, Becomes, Noted

\* Steps that read the tables take or leave no notes.
LEMMA ReadersPost ==
    ASSUME TypeOK, [Next]_vars, ~Restart, ~\E h \in Threads : Writes(h)
    PROVE  UNCHANGED Post!postVars
<1>1. UNCHANGED <<request, admin>>
  BY OthersRead
<1> SUFFICES [g \in Threads |-> Noted(task'[g])] = [g \in Threads |-> Noted(task[g])]
  BY <1>1 DEF Post!postVars, Noted
<1>2. task \in [Threads -> Task]
  BY DEF TypeOK
<1>3. CASE UNCHANGED task
  BY <1>3
<1>4. Idle.op # "grant"
  BY DEF Idle
<1>5. ASSUME NEW h \in Threads, Start(h) PROVE UNCHANGED [g \in Threads |-> Noted(task[g])]
  <2>1. ASSUME NEW c \in Clients, NEW t \in Topics, NEW o \in Clients, NEW via \in {"packet", "json"},
               StartRequest(h, c, t, o, via)
        PROVE  UNCHANGED [g \in Threads |-> Noted(task[g])]
    BY <1>4, <2>1, NotedSame DEF StartRequest, Free
  <2>2. ASSUME NEW c \in Clients, NEW t \in Topics, NEW v \in {"on", "off"}, StartSet(h, c, t, v)
        PROVE  UNCHANGED [g \in Threads |-> Noted(task[g])]
    BY <1>4, <2>2, NotedSame DEF StartSet, Free
  <2>3. ASSUME NEW c \in Clients, NEW t \in Topics, SetActivable(h, c, t)
        PROVE  UNCHANGED task
    BY <2>3 DEF SetActivable
  <2> QED
    BY <1>3, <1>5, <2>1, <2>2, <2>3, StartCases DEF Writes
<1>6. ASSUME NEW h \in Threads, Continue(h) PROVE UNCHANGED [g \in Threads |-> Noted(task[g])]
  <2>1. task[h] \in Task
    BY <1>2
  <2>2. CASE Check(h)
    <3>1. task[h] \in Request
      BY <2>1, <2>2 DEF Check, Task, Idle, Result, Command
    <3>2. [task[h] EXCEPT !.step = @ + 1].op # "grant" /\ task[h].op # "grant"
      BY <3>1 DEF Request
    <3> QED
      BY <1>4, <2>2, <3>2, NotedSame DEF Check
  <2>3. CASE Notify(h) \/ SendCommand(h)
    BY <1>4, <2>3, NotedSame DEF Notify, SendCommand
  <2>4. CASE SetSensor(h)
    <3>1. task[h] \in Command
      BY <2>1, <2>4 DEF SetSensor, Task, Idle, Request, Result
    <3>2. [task[h] EXCEPT !.op = "command"].op # "grant" /\ task[h].op # "grant"
      BY <3>1 DEF Command
    <3> QED
      BY <1>4, <2>4, <3>2, NotedSame DEF SetSensor
  <2> QED
    BY <1>6, <2>2, <2>3, <2>4 DEF Continue, Writes
<1>7. CASE Elsewhere
  BY <1>3, <1>7 DEF Elsewhere, Connect, Disconnect, CutOff, RegisterTopic, AddSubscription,
                    RemoveSubscription
<1> QED
  BY <1>3, <1>5, <1>6, <1>7 DEF Next, vars

Pending == [t \in Topics |-> {c \in Clients : request[t][c] = "pending"}]
Asked   == [t \in Topics |-> {c \in Clients : request[t][c] # "none"}]
Notes   == [g \in Threads |-> Noted(task[g])]

\* A new process has no notes.
LEMMA RestartPost ==
    ASSUME Restart
    PROVE  Post!PostNext
<1>1. UNCHANGED <<Pending, Asked, admin>>
  BY DEF Restart, dbTables, Pending, Asked
<1>2. Notes' = [g \in Threads |-> {}]
  BY DEF Restart, Notes, Noted, Idle
<1>3. Post!Forget
  BY <1>1, <1>2 DEF Post!Forget, Pending, Asked, Notes, Noted
<1> QED
  BY <1>3 DEF Post!PostNext

\* What a change of one request is in terms of the post.
LEMMA RequestChange ==
    ASSUME TypeOK, NEW t \in Topics, NEW c \in Clients, NEW status \in Status \ {"none"},
           request' = [request EXCEPT ![t][c] = status],
           status # "pending" => c \in Asked[t]
    PROVE  /\ Pending' = [Pending EXCEPT ![t] = IF status = "pending" THEN @ \cup {c} ELSE @ \ {c}]
           /\ Asked' = [Asked EXCEPT ![t] = @ \cup {c}]
<1>1. request \in [Topics -> [Clients -> Status]]
  BY DEF TypeOK
<1>2. request' \in [Topics -> [Clients -> Status]]
  BY <1>1
<1>3. \A u \in Topics, d \in Clients :
         request'[u][d] = IF u = t /\ d = c THEN status ELSE request[u][d]
  BY <1>1
<1>4. ASSUME NEW u \in Topics
      PROVE  /\ {d \in Clients : request'[u][d] = "pending"}
                  = IF u # t THEN Pending[u]
                    ELSE IF status = "pending" THEN Pending[u] \cup {c} ELSE Pending[u] \ {c}
             /\ {d \in Clients : request'[u][d] # "none"}
                  = IF u # t THEN Asked[u] ELSE Asked[u] \cup {c}
  <2>1. /\ Pending[u] = {d \in Clients : request[u][d] = "pending"}
        /\ Asked[u] = {d \in Clients : request[u][d] # "none"}
    BY DEF Pending, Asked
  <2>2. CASE u = t
    BY <1>3, <2>1, <2>2
  <2>3. CASE u # t
    BY <1>3, <2>1, <2>3
  <2> QED
    BY <2>2, <2>3
<1>5. Pending' = [u \in Topics |-> IF u # t THEN Pending[u]
                    ELSE IF status = "pending" THEN Pending[u] \cup {c} ELSE Pending[u] \ {c}]
  BY <1>4 DEF Pending
<1>6. Asked' = [u \in Topics |-> IF u # t THEN Asked[u] ELSE Asked[u] \cup {c}]
  BY <1>4 DEF Asked
<1>7. Pending = [u \in Topics |-> Pending[u]] /\ Asked = [u \in Topics |-> Asked[u]]
  BY DEF Pending, Asked
<1> QED
  BY <1>5, <1>6, <1>7

\* A step that writes is a step of AdminPost, or leaves the post alone.
LEMMA WritersPost ==
    ASSUME TypeOK, NEW h \in Threads, Writes(h)
    PROVE  [Post!PostNext]_(Post!postVars)
<1> USE DEF Noted
<1>1. /\ task \in [Threads -> Task]
      /\ request \in [Topics -> [Clients -> Status]]
      /\ admin \in [Topics -> SUBSET Clients]
  BY DEF TypeOK
<1>2. task[h] \in Task /\ Idle.op # "grant" /\ Notes[h] = Noted(task[h])
  BY <1>1 DEF Idle, Notes
<1>3. CASE WriteRequest(h)
  <2>1. PICK t \in Topics, c \in Clients : t = task[h].topic /\ c = task[h].by
    <3>1. task[h] \in Request
      BY <1>2, <1>3 DEF WriteRequest, Task, Idle, Result, Command
    <3> QED
      BY <3>1 DEF Request
  <2>2. Notes' = Notes /\ UNCHANGED admin
    BY <1>2, <1>3, NotedSame DEF WriteRequest, Notes
  <2>3. request' = request \/ request' = [request EXCEPT ![t][c] = "pending"]
    BY <1>3, <2>1 DEF WriteRequest
  <2>4. CASE request' = request
    BY <2>2, <2>4 DEF Post!postVars, Notes
  <2>5. CASE request' = [request EXCEPT ![t][c] = "pending"]
    <3>1. Post!Ask(t, c)
      BY <2>2, <2>5, RequestChange DEF Post!Ask, Pending, Asked, Notes, Status
    <3> QED
      BY <3>1 DEF Post!PostNext
  <2> QED
    BY <2>3, <2>4, <2>5
<1>4. CASE Grant(h)
  <2>a. task[h] \in Result
    BY <1>2, <1>4 DEF Grant, Task, Idle, Request, Command
  <2>b. [task[h] EXCEPT !.op = "notify"].op = "notify"
    BY <2>a DEF Result
  <2>1. PICK t \in Topics, c \in Clients : t = task[h].topic /\ c = task[h].about
    BY <2>a DEF Result
  <2>2. Notes[h] = {<<t, c>>} /\ Notes' = [Notes EXCEPT ![h] = {}]
    BY <1>2, <1>4, <2>1, <2>b, NotedStep DEF Grant, Notes
  <2>3. \/ admin[t] = {} /\ admin' = [admin EXCEPT ![t] = {c}]
        \/ UNCHANGED admin
    BY <1>4, <2>1 DEF Grant
  <2>4. UNCHANGED request
    BY <1>4 DEF Grant
  <2>5. Post!Confirm(h, t, c)
    BY <2>2, <2>3, <2>4 DEF Post!Confirm, Notes
  <2> QED
    BY <2>5 DEF Post!PostNext
<1>5. ASSUME NEW c \in Clients, NEW t \in Topics, NEW o \in Clients,
             NEW status \in {"approved", "rejected"}, NEW via \in Answers,
             Respond(h, o, t, c, status, via)
      PROVE  Post!PostNext
  <2> DEFINE next == [op |-> IF via = "json" /\ status = "approved" THEN "grant" ELSE "notify",
                      topic |-> t, about |-> c, value |-> status]
  <2>1. Notes[h] = {} /\ Notes' = [Notes EXCEPT ![h] = Noted(next)]
    BY <1>2, <1>5, NotedStep DEF Respond, Free, Notes
  <2>2. request[t][c] = "pending" /\ request' = [request EXCEPT ![t][c] = status]
    BY <1>5 DEF Respond
  <2>3. c \in Pending[t] /\ c \in Asked[t] /\ Asked' = Asked
        /\ Pending' = [Pending EXCEPT ![t] = @ \ {c}]
    <3>1. c \in Pending[t] /\ c \in Asked[t]
      BY <2>2 DEF Pending, Asked
    <3>2. /\ Pending' = [Pending EXCEPT ![t] = @ \ {c}]
          /\ Asked' = [Asked EXCEPT ![t] = @ \cup {c}]
      BY <2>2, <3>1, RequestChange DEF Status
    <3>3. Asked' = Asked
      BY <3>1, <3>2 DEF Asked
    <3> QED
      BY <3>1, <3>2, <3>3
  <2>4. CASE status = "approved"
    <3>1. Noted(next) = {<<t, c>>} \/ Noted(next) = {}
      OBVIOUS
    <3>2. Notes' \in {Notes, [Notes EXCEPT ![h] = {<<t, c>>}]}
      BY <2>1, <3>1 DEF Notes
    <3>3. admin' = [admin EXCEPT ![t] = {c}]
      BY <1>5, <2>4 DEF Respond
    <3> HIDE DEF next
    <3>4. Post!Appoint(h, t, c)
      BY <2>1, <2>3, <3>2, <3>3 DEF Post!Appoint, Pending, Asked, Notes
    <3> QED
      BY <3>4 DEF Post!PostNext
  <2>5. CASE status = "rejected"
    <3>1. Notes' = Notes
      BY <2>1, <2>5 DEF Notes
    <3>2. UNCHANGED admin
      BY <1>5, <2>5 DEF Respond
    <3> HIDE DEF next
    <3>3. Post!Refuse(t, c)
      BY <2>3, <3>1, <3>2 DEF Post!Refuse, Pending, Asked, Notes
    <3> QED
      BY <3>3 DEF Post!PostNext
  <2> QED
    BY <2>4, <2>5
<1>6. ASSUME NEW c \in Clients, NEW t \in Topics,
             Resign(h, c, t) \/ \E o \in Clients : Revoke(h, o, t, c)
      PROVE  Post!PostNext
  <2>1. Notes' = Notes
    <3>1. CASE Resign(h, c, t)
      BY <3>1 DEF Resign, Notes
    <3>2. ASSUME NEW o \in Clients, Revoke(h, o, t, c) PROVE Notes' = Notes
      BY <1>2, <3>2, NotedSame DEF Revoke, Free, Notes
    <3> QED
      BY <1>6, <3>1, <3>2
  <2>2. /\ c \in admin[t] /\ admin' = [admin EXCEPT ![t] = @ \ {c}]
        /\ request' = [request EXCEPT ![t][c] = IF @ = "approved" THEN "revoked" ELSE @]
    BY <1>6 DEF Resign, Revoke
  <2>3. Pending' = Pending /\ Asked' = Asked
    BY <1>1, <2>2 DEF Pending, Asked
  <2>4. Post!Leave(t, c)
    BY <2>1, <2>2, <2>3 DEF Post!Leave, Pending, Asked, Notes
  <2> QED
    BY <2>4 DEF Post!PostNext
<1> QED
  BY <1>3, <1>4, <1>5, <1>6 DEF Writes

\* Handlers interleaved between any two of their transactions keep the post as
\* AdminPost promises, although the database may fail and approvals write twice.
THEOREM PostRefinement == Spec => PostAsPromised
<1>1. Init => Post!PostInit
  BY DEF Init, Post!PostInit, Idle
<1>2. TypeOK /\ [Next]_vars => [Post!PostNext]_(Post!postVars)
  BY ReadersPost, WritersPost, RestartPost
<1> QED
  BY <1>1, <1>2, AdminTypeInit, AdminTypeStep, PTL DEF Spec, PostAsPromised, Post!PostSpec

\* Therefore every administrator has asked for it.
THEOREM OnlyThoseWhoAsked == Spec => []AdminsAsked
<1>1. TypeOK /\ Post!HoldersAsked => AdminsAsked
  BY DEF TypeOK, Post!HoldersAsked, AdminsAsked
<1>2. PostAsPromised => []Post!HoldersAsked
  BY Post!PostsAreAskedFor DEF PostAsPromised
<1> QED
  BY <1>1, <1>2, AdminTypes, PostRefinement, PTL

-----------------------------------------------------------------------------
(* Revocation, when owners answer with ADMIN_RESPONSE packets only         *)

NoGrants == \A h \in Threads : task[h].op # "grant"

LEMMA NoGrantsStep ==
    ASSUME "json" \notin Answers, TypeOK, NoGrants, [Next]_vars
    PROVE  NoGrants'
<1>1. task \in [Threads -> Task]
  BY DEF TypeOK
<1>2. ASSUME NEW h \in Threads, NEW next, Becomes(h, next), next.op # "grant" PROVE NoGrants'
  BY <1>1, <1>2 DEF Becomes, NoGrants
<1>3. CASE UNCHANGED task
  BY <1>3 DEF NoGrants
<1>4. Idle.op # "grant"
  BY DEF Idle
<1>5. ASSUME NEW h \in Threads, Start(h) PROVE NoGrants'
  <2>1. ASSUME NEW c, NEW t, NEW o, NEW via, StartRequest(h, c, t, o, via) PROVE NoGrants'
    BY <1>2, <2>1 DEF StartRequest
  <2>2. ASSUME NEW c, NEW t, NEW o, NEW status, NEW via \in Answers,
               Respond(h, o, t, c, status, via)
        PROVE  NoGrants'
    BY <1>2, <2>2 DEF Respond
  <2>3. ASSUME NEW c, NEW t, NEW o, Revoke(h, o, t, c) PROVE NoGrants'
    BY <1>2, <2>3 DEF Revoke
  <2>4. ASSUME NEW c, NEW t, NEW v, StartSet(h, c, t, v) PROVE NoGrants'
    BY <1>2, <2>4 DEF StartSet
  <2>5. ASSUME NEW c, NEW t, Resign(h, c, t) \/ SetActivable(h, c, t) PROVE NoGrants'
    BY <1>3, <2>5 DEF Resign, SetActivable
  <2> QED
    BY <1>5, <2>1, <2>2, <2>3, <2>4, <2>5, StartCases
<1>6. ASSUME NEW h \in Threads, Continue(h) PROVE NoGrants'
  <2>1. task[h] \in Task
    BY <1>1
  <2>2. CASE Check(h)
    <3>1. task[h] \in Request
      BY <2>1, <2>2 DEF Check, Task, Idle, Result, Command
    <3>2. [task[h] EXCEPT !.step = @ + 1].op # "grant"
      BY <3>1 DEF Request
    <3> QED
      BY <1>2, <1>4, <2>2, <3>2 DEF Check
  <2>3. CASE WriteRequest(h) \/ Notify(h) \/ SendCommand(h)
    BY <1>2, <1>4, <2>3 DEF WriteRequest, Notify, SendCommand
  <2>4. CASE Grant(h)
    BY <2>4 DEF Grant, NoGrants
  <2>5. CASE SetSensor(h)
    <3>1. task[h] \in Command
      BY <2>1, <2>5 DEF SetSensor, Task, Idle, Request, Result
    <3>2. [task[h] EXCEPT !.op = "command"].op # "grant"
      BY <3>1 DEF Command
    <3> QED
      BY <1>2, <1>4, <2>5, <3>2 DEF SetSensor
  <2> QED
    BY <1>6, <2>2, <2>3, <2>4, <2>5 DEF Continue
<1>7. CASE Elsewhere
  BY <1>3, <1>7 DEF Elsewhere, Connect, Disconnect, CutOff, RegisterTopic, AddSubscription,
                    RemoveSubscription
<1>8. CASE Restart
  BY <1>4, <1>8 DEF Restart, NoGrants
<1> QED
  BY <1>3, <1>5, <1>6, <1>7, <1>8 DEF Next, vars

LEMMA RevokedStep ==
    ASSUME TypeOK, NoGrants, RevokedIsNotAdmin, [Next]_vars
    PROVE  RevokedIsNotAdmin'
<1>1. /\ admin \in [Topics -> SUBSET Clients]
      /\ request \in [Topics -> [Clients -> Status]]
  BY DEF TypeOK
<1>2. ASSUME NEW h \in Threads, Writes(h) PROVE RevokedIsNotAdmin'
  <2>1. task[h].op # "grant"
    BY DEF NoGrants
  <2>2. PICK t \in Topics, c \in Clients :
           \/ request' = [request EXCEPT ![t][c] = "pending"] /\ UNCHANGED admin
           \/ /\ request' = [request EXCEPT ![t][c] = "approved"]
              /\ admin' = [admin EXCEPT ![t] = {c}]
           \/ request' = [request EXCEPT ![t][c] = "rejected"] /\ UNCHANGED admin
           \/ /\ request' = [request EXCEPT ![t][c] = IF @ = "approved" THEN "revoked" ELSE @]
              /\ admin' = [admin EXCEPT ![t] = @ \ {c}]
           \/ UNCHANGED <<request, admin>>
    BY <1>2, <2>1, WriteEffect DEF Effect
  <2>3. SUFFICES ASSUME NEW u \in Topics, NEW d \in Clients, request'[u][d] = "revoked"
                 PROVE  d \notin admin'[u]
    BY DEF RevokedIsNotAdmin
  <2>4. request[u][d] = "revoked" => d \notin admin[u]
    BY DEF RevokedIsNotAdmin
  <2>5. CASE /\ request' = [request EXCEPT ![t][c] = "approved"]
             /\ admin' = [admin EXCEPT ![t] = {c}]
    BY <1>1, <2>3, <2>4, <2>5
  <2>6. CASE /\ request' = [request EXCEPT ![t][c] = IF @ = "approved" THEN "revoked" ELSE @]
             /\ admin' = [admin EXCEPT ![t] = @ \ {c}]
    BY <1>1, <2>3, <2>4, <2>6
  <2>7. CASE /\ \/ request' = [request EXCEPT ![t][c] = "pending"]
                \/ request' = [request EXCEPT ![t][c] = "rejected"]
                \/ UNCHANGED request
             /\ UNCHANGED admin
    BY <1>1, <2>3, <2>4, <2>7
  <2> QED
    BY <2>2, <2>5, <2>6, <2>7
<1> QED
  BY <1>2, OthersRead DEF RevokedIsNotAdmin

\* Without the second transaction of a JSON approval, an administrator who was
\* revoked or resigned stays without the topic until the owner approves again.
THEOREM RevocationLasts == "json" \notin Answers /\ Spec => []RevokedIsNotAdmin
<1> SUFFICES ASSUME "json" \notin Answers PROVE Spec => []RevokedIsNotAdmin
  OBVIOUS
<1>1. Init => NoGrants /\ RevokedIsNotAdmin
  BY DEF Init, NoGrants, RevokedIsNotAdmin, Idle
<1>2. TypeOK /\ NoGrants /\ RevokedIsNotAdmin /\ [Next]_vars => NoGrants' /\ RevokedIsNotAdmin'
  BY NoGrantsStep, RevokedStep
<1> QED
  BY <1>1, <1>2, AdminTypeInit, AdminTypeStep, PTL DEF Spec

-----------------------------------------------------------------------------
(* One thread in the handlers and no failing call: the tables agree        *)

OneThread == \A g, h \in Threads : g = h

\* What a handler has checked, or done, is still so at its next call.
StillSo ==
    \A h \in Threads :
        /\ (task[h].op = "request" /\ task[h].step = 8) => admin[task[h].topic] = {}
        /\ task[h].op = "grant" => admin[task[h].topic] # {}

LEMMA StillSoStep ==
    ASSUME OneThread, ~DbMayFail, TypeOK, StillSo, [Next]_vars
    PROVE  StillSo'
<1>1. task \in [Threads -> Task] /\ admin \in [Topics -> SUBSET Clients]
  BY DEF TypeOK
<1>2. ASSUME NEW h \in Threads, NEW next, Becomes(h, next),
             (next.op = "request" /\ next.step = 8) => admin'[next.topic] = {},
             next.op = "grant" => admin'[next.topic] # {}
      PROVE  StillSo'
  BY <1>1, <1>2 DEF Becomes, StillSo, OneThread
<1>3. CASE UNCHANGED <<task, admin>>
  BY <1>3 DEF StillSo
<1>4. Idle.op # "request" /\ Idle.op # "grant"
  BY DEF Idle
<1>5. ASSUME NEW h \in Threads, Start(h) PROVE StillSo'
  <2>1. ASSUME NEW c, NEW t, NEW o, NEW via, StartRequest(h, c, t, o, via) PROVE StillSo'
    BY <1>2, <2>1 DEF StartRequest
  <2>2. ASSUME NEW c \in Clients, NEW t \in Topics, NEW o, NEW status, NEW via,
               Respond(h, o, t, c, status, via)
        PROVE  StillSo'
    <3> DEFINE next == [op |-> IF via = "json" /\ status = "approved" THEN "grant" ELSE "notify",
                        topic |-> t, about |-> c, value |-> status]
    <3>1. next.op # "request" /\ (next.op = "grant" => status = "approved") /\ next.topic = t
      OBVIOUS
    <3>2. status = "approved" => admin'[t] # {}
      BY <1>1, <2>2 DEF Respond
    <3>3. Becomes(h, next)
      BY <2>2 DEF Respond
    <3> HIDE DEF next
    <3> QED
      BY <1>2, <3>1, <3>2, <3>3
  <2>3. ASSUME NEW c, NEW t, NEW o, Revoke(h, o, t, c) PROVE StillSo'
    BY <1>2, <2>3 DEF Revoke
  <2>4. ASSUME NEW c, NEW t, NEW v, StartSet(h, c, t, v) PROVE StillSo'
    BY <1>2, <2>4 DEF StartSet
  <2>5. ASSUME NEW c, NEW t, Resign(h, c, t) \/ SetActivable(h, c, t) PROVE StillSo'
    <3>1. \A g \in Threads : task'[g] = Idle
      BY <2>5 DEF Resign, SetActivable, Free, OneThread
    <3> QED
      BY <1>4, <3>1 DEF StillSo
  <2> QED
    BY <1>5, <2>1, <2>2, <2>3, <2>4, <2>5, StartCases
<1>6. ASSUME NEW h \in Threads, Continue(h) PROVE StillSo'
  <2>1. task[h] \in Task
    BY <1>1
  <2>2. CASE Check(h)
    <3>1. task[h] \in Request /\ task[h].step \in 1..7
      BY <2>1, <2>2 DEF Check, Task, Idle, Result, Command
    <3> DEFINE next == [task[h] EXCEPT !.step = @ + 1]
    <3>2. next.op = "request" /\ next.topic = task[h].topic /\ next.step = task[h].step + 1
      BY <3>1 DEF Request
    <3>3. UNCHANGED admin
      BY <2>2 DEF Check, dbTables
    <3>4. PICK ok \in BOOLEAN :
             /\ Outcome(Checks[task[h].via][task[h].step], task[h], ok)
             /\ Becomes(h, IF ok THEN next ELSE Idle)
      BY <2>2 DEF Check
    <3>5. CASE ok /\ task[h].step = 7
      <4>1. Checks[task[h].via][task[h].step] = "admin"
        BY <3>1, <3>5 DEF Checks, Request
      <4>2. admin[task[h].topic] = {}
        BY <3>4, <3>5, <4>1 DEF Outcome, Passes
      <4> QED
        BY <1>2, <3>2, <3>3, <3>4, <3>5, <4>2
    <3>6. CASE ok /\ task[h].step # 7
      <4>1. next.step # 8
        BY <3>1, <3>2, <3>6
      <4> HIDE DEF next
      <4> QED
        BY <1>2, <3>2, <3>4, <3>6, <4>1
    <3>7. CASE ~ok
      BY <1>2, <1>4, <3>4, <3>7
    <3> QED
      BY <3>5, <3>6, <3>7
  <2>3. CASE WriteRequest(h) \/ Notify(h) \/ SendCommand(h)
    BY <1>2, <1>4, <2>3 DEF WriteRequest, Notify, SendCommand
  <2>4. CASE Grant(h)
    <3>1. task[h] \in Result
      BY <2>1, <2>4 DEF Grant, Task, Idle, Request, Command
    <3>2. [task[h] EXCEPT !.op = "notify"].op = "notify"
      BY <3>1 DEF Result
    <3> QED
      BY <1>2, <2>4, <3>2 DEF Grant
  <2>5. CASE SetSensor(h)
    <3>1. task[h] \in Command
      BY <2>1, <2>5 DEF SetSensor, Task, Idle, Request, Result
    <3>2. [task[h] EXCEPT !.op = "command"].op = "command"
      BY <3>1 DEF Command
    <3> QED
      BY <1>2, <1>4, <2>5, <3>2 DEF SetSensor
  <2> QED
    BY <1>6, <2>2, <2>3, <2>4, <2>5 DEF Continue
<1>7. CASE Elsewhere
  BY <1>3, <1>7 DEF Elsewhere, Connect, Disconnect, CutOff, RegisterTopic, AddSubscription,
                    RemoveSubscription, dbTables
<1>8. CASE Restart
  BY <1>4, <1>8 DEF Restart, StillSo
<1> QED
  BY <1>3, <1>5, <1>6, <1>7, <1>8 DEF Next, vars, dbTables

LEMMA ApprovedStep ==
    ASSUME TypeOK, StillSo, AdminIsApproved, [Next]_vars
    PROVE  AdminIsApproved'
<1>1. /\ admin \in [Topics -> SUBSET Clients]
      /\ request \in [Topics -> [Clients -> Status]]
  BY DEF TypeOK
<1>2. ASSUME NEW h \in Threads, Writes(h) PROVE AdminIsApproved'
  <2>1. task[h].op = "grant" => admin[task[h].topic] # {}
    BY DEF StillSo
  <2>2. (task[h].op = "request" /\ task[h].step = 8) => admin[task[h].topic] = {}
    BY DEF StillSo
  <2>3. PICK t \in Topics, c \in Clients : Effect(h, t, c)
    BY <1>2, WriteEffect
  <2>a. \/ /\ request' = [request EXCEPT ![t][c] = "pending"]
           /\ admin[t] = {} /\ UNCHANGED admin
        \/ /\ request' = [request EXCEPT ![t][c] = "approved"]
           /\ admin' = [admin EXCEPT ![t] = {c}]
        \/ /\ request[t][c] = "pending"
           /\ request' = [request EXCEPT ![t][c] = "rejected"]
           /\ UNCHANGED admin
        \/ /\ request' = [request EXCEPT ![t][c] = IF @ = "approved" THEN "revoked" ELSE @]
           /\ admin' = [admin EXCEPT ![t] = @ \ {c}]
        \/ UNCHANGED <<request, admin>>
    BY <2>1, <2>2, <2>3 DEF Effect, Free, Idle
  <2>4. SUFFICES ASSUME NEW u \in Topics, NEW d \in admin'[u] PROVE request'[u][d] = "approved"
    BY DEF AdminIsApproved
  <2>5. \A e \in admin[u] : request[u][e] = "approved" /\ e \in Clients
    BY <1>1 DEF AdminIsApproved
  <2>6. CASE /\ request' = [request EXCEPT ![t][c] = "pending"]
             /\ admin[t] = {} /\ UNCHANGED admin
    BY <1>1, <2>4, <2>5, <2>6
  <2>7. CASE /\ request' = [request EXCEPT ![t][c] = "approved"]
             /\ admin' = [admin EXCEPT ![t] = {c}]
    BY <1>1, <2>4, <2>5, <2>7
  <2>8. CASE /\ request[t][c] = "pending"
             /\ request' = [request EXCEPT ![t][c] = "rejected"]
             /\ UNCHANGED admin
    BY <1>1, <2>4, <2>5, <2>8
  <2>9. CASE /\ request' = [request EXCEPT ![t][c] = IF @ = "approved" THEN "revoked" ELSE @]
             /\ admin' = [admin EXCEPT ![t] = @ \ {c}]
    BY <1>1, <2>4, <2>5, <2>9
  <2> QED
    BY <2>a, <2>4, <2>5, <2>6, <2>7, <2>8, <2>9
<1> QED
  BY <1>2, OthersRead DEF AdminIsApproved

\* A broker with one thread (--threads 1) whose database answers keeps the
\* requests and the administrators of every topic in step.
THEOREM SerialAgreement == OneThread /\ ~DbMayFail /\ Spec => []AdminIsApproved
<1> SUFFICES ASSUME OneThread, ~DbMayFail PROVE Spec => []AdminIsApproved
  OBVIOUS
<1>1. Init => StillSo /\ AdminIsApproved
  BY DEF Init, StillSo, AdminIsApproved, Idle
<1>2. TypeOK /\ StillSo /\ AdminIsApproved /\ [Next]_vars => StillSo' /\ AdminIsApproved'
  BY StillSoStep, ApprovedStep
<1> QED
  BY <1>1, <1>2, AdminTypeInit, AdminTypeStep, PTL DEF Spec

-----------------------------------------------------------------------------
(* ... and clients and devices are told what the tables say                *)

\* The task of the only thread.
LEMMA OneTask ==
    ASSUME OneThread, TypeOK, NEW h \in Threads, NEW next, Becomes(h, next)
    PROVE  \A g \in Threads : task'[g] = next
BY DEF OneThread, TypeOK, Becomes

LEMMA OneIdle ==
    ASSUME OneThread, NEW h \in Threads, Free(h)
    PROVE  \A g \in Threads : task[g] = Idle
BY DEF OneThread, Free

Answer(h) == task[h].op \in {"grant", "notify"}

\* An administrator that was last told otherwise is cut off or about to be told;
\* what is about to be told is so.
NoticeInv ==
    /\ \A t \in Topics : denied[t] \subseteq online \cup cut
    /\ \A h \in Threads : Answer(h) =>
          /\ task[h].value # "approved" => task[h].op = "notify" /\ task[h].about \notin admin[task[h].topic]
    /\ \A t \in Topics, c \in Clients : c \in denied[t] /\ c \in admin[t] /\ c \notin cut =>
          \E h \in Threads : Answer(h) /\ task[h].topic = t /\ task[h].about = c
                              /\ task[h].value = "approved"

LEMMA NoticeStep ==
    ASSUME OneThread, TypeOK, StillSo, AdminIsApproved, NoticeInv, [Next]_vars
    PROVE  NoticeInv'
<1>1. /\ task \in [Threads -> Task] /\ admin \in [Topics -> SUBSET Clients]
      /\ denied \in [Topics -> SUBSET Clients]
      /\ request \in [Topics -> [Clients -> Status]]
  BY DEF TypeOK
<1>2. Idle.op \notin {"grant", "notify"}
  BY DEF Idle
\* A step that is neither an answer nor a notice.
<1>3. ASSUME NEW h \in Threads, NEW next, Becomes(h, next), next.op \notin {"grant", "notify"},
             ~Answer(h), UNCHANGED <<online, cut, admin, denied>>
      PROVE  NoticeInv'
  <2>1. \A g \in Threads : task'[g] = next /\ ~Answer(g)
    BY <1>3, OneTask DEF OneThread
  <2> QED
    BY <1>3, <2>1 DEF NoticeInv, Answer
<1>4. ASSUME UNCHANGED <<task, admin>>,
             \A t \in Topics : /\ denied'[t] \subseteq denied[t] \cap (online' \cup cut')
                               /\ denied'[t] \cap cut \subseteq cut'
      PROVE  NoticeInv'
  BY <1>4 DEF NoticeInv, Answer
<1>5. ASSUME NEW h \in Threads, Start(h) PROVE NoticeInv'
  <2>0. ASSUME Free(h)
        PROVE  ~Answer(h) /\ \A t \in Topics, c \in Clients : ~(c \in denied[t] /\ c \in admin[t] /\ c \notin cut)
    BY <1>2, <2>0, OneIdle DEF NoticeInv, Answer, Free
  <2>1. ASSUME NEW c \in Clients, NEW t \in Topics, NEW o \in Clients, NEW via \in {"packet", "json"},
               StartRequest(h, c, t, o, via)
        PROVE  NoticeInv'
    <3>1. Free(h) /\ UNCHANGED <<online, cut, admin, denied>>
      BY <2>1 DEF StartRequest, dbTables, seen
    <3> QED
      BY <1>3, <2>0, <2>1, <3>1 DEF StartRequest
  <2>2. ASSUME NEW c \in Clients, NEW t \in Topics, NEW v \in {"on", "off"}, StartSet(h, c, t, v)
        PROVE  NoticeInv'
    <3>1. Free(h) /\ UNCHANGED <<online, cut, admin, denied>>
      BY <2>2 DEF StartSet, dbTables, seen
    <3> QED
      BY <1>3, <2>0, <2>2, <3>1 DEF StartSet
  <2>3. ASSUME NEW c \in Clients, NEW t \in Topics, SetActivable(h, c, t)
        PROVE  NoticeInv'
    BY <1>4, <2>3 DEF SetActivable, seen, NoticeInv
  <2>4. ASSUME NEW c \in Clients, NEW t \in Topics, NEW o \in Clients, NEW via \in Answers,
               NEW status \in {"approved", "rejected"}, Respond(h, o, t, c, status, via)
        PROVE  NoticeInv'
    <3> DEFINE next == [op |-> IF via = "json" /\ status = "approved" THEN "grant" ELSE "notify",
                        topic |-> t, about |-> c, value |-> status]
    <3>1. \A g \in Threads : task'[g] = next
      BY <2>4, OneTask DEF Respond
    <3>2. /\ next.op \in {"grant", "notify"} /\ next.topic = t /\ next.about = c /\ next.value = status
          /\ status # "approved" => next.op = "notify"
      OBVIOUS
    <3>3. UNCHANGED <<online, cut, denied>> /\ request[t][c] = "pending" /\ Free(h)
      BY <2>4 DEF Respond, seen
    <3>4. c \notin admin[t]
      BY <3>3 DEF AdminIsApproved
    <3>5. /\ status = "approved" => admin' = [admin EXCEPT ![t] = {c}]
          /\ status # "approved" => admin' = admin
      BY <2>4 DEF Respond
    <3> HIDE DEF next
    <3>6. \A u \in Topics, d \in Clients : d \in denied'[u] /\ d \in admin'[u] /\ d \notin cut =>
             u = t /\ d = c /\ status = "approved"
      BY <1>1, <2>0, <3>3, <3>5
    <3> QED
      BY <3>1, <3>2, <3>3, <3>4, <3>5, <3>6 DEF NoticeInv, Answer
  <2>5. ASSUME NEW c \in Clients, NEW t \in Topics, NEW o \in Clients, Revoke(h, o, t, c)
        PROVE  NoticeInv'
    <3>1. \A g \in Threads : task'[g] = [op |-> "notify", topic |-> t, about |-> c, value |-> "revoked"]
      BY <2>5, OneTask DEF Revoke
    <3>2. UNCHANGED <<online, cut, denied>> /\ Free(h) /\ admin' = [admin EXCEPT ![t] = @ \ {c}]
      BY <2>5 DEF Revoke, seen
    <3>3. \A u \in Topics, d \in Clients : ~(d \in denied'[u] /\ d \in admin'[u] /\ d \notin cut)
      BY <1>1, <2>0, <3>2
    <3> QED
      BY <1>1, <3>1, <3>2, <3>3 DEF NoticeInv, Answer
  <2>6. ASSUME NEW c \in Clients, NEW t \in Topics, Resign(h, c, t)
        PROVE  NoticeInv'
    <3>1. UNCHANGED <<task, online, cut, denied>> /\ Free(h) /\ admin' = [admin EXCEPT ![t] = @ \ {c}]
      BY <2>6 DEF Resign, seen
    <3>2. \A g \in Threads : task'[g] = Idle
      BY <3>1, OneIdle
    <3>3. \A u \in Topics, d \in Clients : ~(d \in denied'[u] /\ d \in admin'[u] /\ d \notin cut)
      BY <1>1, <2>0, <3>1
    <3> QED
      BY <1>2, <3>1, <3>2, <3>3 DEF NoticeInv, Answer
  <2> QED
    BY <1>5, <2>1, <2>2, <2>3, <2>4, <2>5, <2>6, StartCases
<1>6. ASSUME NEW h \in Threads, Continue(h) PROVE NoticeInv'
  <2>1. task[h] \in Task
    BY <1>1
  <2>2. CASE Check(h)
    <3>1. task[h] \in Request
      BY <2>1, <2>2 DEF Check, Task, Idle, Result, Command
    <3>2. [task[h] EXCEPT !.step = @ + 1].op \notin {"grant", "notify"} /\ ~Answer(h)
      BY <3>1 DEF Request, Answer
    <3>3. UNCHANGED <<online, cut, admin, denied>>
      BY <2>2 DEF Check, dbTables, seen
    <3> QED
      BY <1>2, <1>3, <2>2, <3>2, <3>3 DEF Check
  <2>3. CASE WriteRequest(h) \/ SendCommand(h)
    <3>1. UNCHANGED <<online, cut, admin, denied>> /\ Becomes(h, Idle) /\ ~Answer(h)
      BY <2>3 DEF WriteRequest, SendCommand, Answer, dbTables, seen
    <3> QED
      BY <1>2, <1>3, <3>1
  <2>4. CASE SetSensor(h)
    <3>1. task[h] \in Command
      BY <2>1, <2>4 DEF SetSensor, Task, Idle, Request, Result
    <3>2. [task[h] EXCEPT !.op = "command"].op \notin {"grant", "notify"} /\ ~Answer(h)
      BY <3>1 DEF Command, Answer
    <3>3. UNCHANGED <<online, cut, admin, denied>>
      BY <2>4 DEF SetSensor, seen
    <3> QED
      BY <1>2, <1>3, <2>4, <3>2, <3>3 DEF SetSensor
  <2>5. CASE Grant(h)
    <3>1. task[h] \in Result
      BY <2>1, <2>5 DEF Grant, Task, Idle, Request, Command
    <3> DEFINE next == [task[h] EXCEPT !.op = "notify"]
    <3>2. /\ next.op = "notify" /\ next.topic = task[h].topic
          /\ next.about = task[h].about /\ next.value = task[h].value
      BY <3>1 DEF Result
    <3>3. UNCHANGED <<online, cut, admin, denied>> /\ Answer(h)
      BY <2>5 DEF Grant, StillSo, Answer, seen
    <3>4. \A g \in Threads : task'[g] = next /\ g = h
      BY <2>5, OneTask DEF Grant, OneThread
    <3> HIDE DEF next
    <3> QED
      BY <3>2, <3>3, <3>4 DEF NoticeInv, Answer
  <2>6. CASE Notify(h)
    <3> DEFINE t == task[h].topic
               c == task[h].about
    <3>1. task[h] \in Result
      BY <2>1, <2>6 DEF Notify, Task, Idle, Request, Command
    <3>2. t \in Topics /\ c \in Clients
      BY <3>1 DEF Result
    <3>3. \A g \in Threads : task'[g] = Idle /\ g = h
      BY <2>6, OneTask DEF Notify, OneThread
    <3>4. UNCHANGED <<online, cut, admin>> /\ Answer(h)
          /\ denied' = IF c \in online
                         THEN [denied EXCEPT ![t] = IF task[h].value = "approved"
                                                    THEN @ \ {c} ELSE @ \cup {c}]
                         ELSE denied
      BY <2>6 DEF Notify, Answer, dbTables
    <3>5. /\ \A u \in Topics : denied[u] \subseteq online \cup cut
          /\ task[h].value # "approved" => c \notin admin[t]
          /\ \A u \in Topics, d \in Clients : d \in denied[u] /\ d \in admin[u] /\ d \notin cut =>
                 t = u /\ c = d /\ task[h].value = "approved"
      BY <3>3, <3>4 DEF NoticeInv
    <3>6. \A u \in Topics, d \in Clients : ~(d \in denied'[u] /\ d \in admin[u] /\ d \notin cut)
      BY <1>1, <3>2, <3>4, <3>5
    <3>7. \A u \in Topics : denied'[u] \subseteq online \cup cut
      BY <1>1, <3>2, <3>4, <3>5
    <3> QED
      BY <1>2, <3>3, <3>4, <3>6, <3>7 DEF NoticeInv, Answer
  <2> QED
    BY <1>6, <2>2, <2>3, <2>4, <2>5, <2>6 DEF Continue
<1>7. CASE Elsewhere
  <2>1. UNCHANGED <<task, admin>>
    BY <1>7 DEF Elsewhere, Connect, Disconnect, CutOff, RegisterTopic, AddSubscription, RemoveSubscription, dbTables
  <2>2. \A t \in Topics : /\ denied'[t] \subseteq denied[t] \cap (online' \cup cut')
                          /\ denied'[t] \cap cut \subseteq cut'
    <3>1. CASE \E c \in Clients : Connect(c) \/ Disconnect(c)
      BY <3>1 DEF Connect, Disconnect, Forgotten, NoticeInv
    <3>2. CASE \E c \in Clients : CutOff(c)
      BY <3>2 DEF CutOff, NoticeInv
    <3> QED
      BY <1>7, <3>1, <3>2 DEF Elsewhere, RegisterTopic, AddSubscription, RemoveSubscription, seen, NoticeInv
  <2> QED
    BY <1>4, <2>1, <2>2
<1>8. CASE UNCHANGED vars
  BY <1>4, <1>8 DEF vars, dbTables, seen, NoticeInv
<1>9. CASE Restart
  BY <1>2, <1>9 DEF Restart, NoticeInv, Answer
<1> QED
  BY <1>5, <1>6, <1>7, <1>8, <1>9 DEF Next

\* With one thread and a working database, a client whose present session was
\* last told that it is not administrator is not, unless the removal of an older
\* session has cut it off from further notices.
THEOREM NoticesAreTrue == OneThread /\ ~DbMayFail /\ Spec => []NoticesInStep
<1> SUFFICES ASSUME OneThread, ~DbMayFail PROVE Spec => []NoticesInStep
  OBVIOUS
<1>1. Init => NoticeInv
  BY DEF Init, NoticeInv, Answer, Idle
<1>2. Init => StillSo /\ AdminIsApproved
  BY DEF Init, StillSo, AdminIsApproved, Idle
<1>3. TypeOK /\ StillSo /\ AdminIsApproved /\ NoticeInv /\ [Next]_vars
         => StillSo' /\ AdminIsApproved' /\ NoticeInv'
  BY StillSoStep, ApprovedStep, NoticeStep
<1>4. TypeOK /\ NoticeInv => NoticesInStep
  <2> SUFFICES ASSUME TypeOK, NoticeInv, AllIdle, NEW t \in Topics
               PROVE  denied[t] \cap admin[t] \subseteq cut
    BY DEF NoticesInStep
  <2>1. \A h \in Threads : ~Answer(h)
    BY DEF AllIdle, Answer, Idle
  <2>2. \A c \in Clients : ~(c \in denied[t] /\ c \in admin[t] /\ c \notin cut)
    BY <2>1 DEF NoticeInv
  <2>3. denied[t] \subseteq Clients
    BY DEF TypeOK
  <2> QED
    BY <2>2, <2>3
<1> QED
  BY <1>1, <1>2, <1>3, <1>4, AdminTypeInit, AdminTypeStep, PTL DEF Spec

\* A device was told by the present session of its topic's owner, which is cut
\* off or in sessions_; a handler about to send a command sends it there, and the
\* table says the same.
DeviceInv ==
    /\ \A t \in Topics : admin[t] # {} => owner[t] # NoClient
    /\ \A t \in Topics : device[t] # "unset" =>
          owner[t] \in online \cup cut /\ Prefix[t] \in {NoClient, owner[t]}
    /\ \A h \in Threads : task[h].op \in {"set", "command"} =>
          LET t == task[h].topic
          IN  /\ Prefix[t] # NoClient => task[h].to = Prefix[t]
              /\ Prefix[t] = NoClient /\ admin[t] # {} => task[h].to = owner[t]
              /\ task[h].op = "command" => admin[t] # {} /\ task[h].value = sensor[t]
    /\ \A t \in Topics : owner[t] \in cut \/ device[t] \in {"unset", sensor[t]}
          \/ \E h \in Threads : task[h].op = "command" /\ task[h].topic = t

\* Steps that end without a command, or do not start one.
LEMMA DeviceKept ==
    ASSUME OneThread, TypeOK, DeviceInv, NEW h \in Threads, NEW next, Becomes(h, next),
           next.op \notin {"set", "command"}, task[h].op # "command",
           UNCHANGED <<online, cut, owner, sensor, device>>,
           \A t \in Topics : admin'[t] # {} => admin[t] # {} \/ owner[t] # NoClient
    PROVE  DeviceInv'
<1>1. \A g \in Threads : task'[g] = next /\ task[g].op # "command"
  BY OneTask DEF OneThread
<1> QED
  BY <1>1 DEF DeviceInv

LEMMA DeviceElsewhere ==
    ASSUME TypeOK, DeviceInv, Elsewhere
    PROVE  DeviceInv'
<1>1. /\ task \in [Threads -> Task] /\ owner \in [Topics -> Clients \cup {NoClient}]
      /\ device \in [Topics -> Value] /\ NoClient \notin Clients /\ online \subseteq Clients /\ cut \subseteq Clients
  BY AdminAssumption DEF TypeOK
<1>2. UNCHANGED <<task, admin, sensor>>
  BY DEF Elsewhere, Connect, Disconnect, CutOff, RegisterTopic, AddSubscription, RemoveSubscription, dbTables
<1>3. ASSUME NEW c \in Clients, Connect(c) \/ Disconnect(c) PROVE DeviceInv'
  BY <1>1, <1>2, <1>3 DEF Connect, Disconnect, Forgotten, DeviceInv, dbTables
<1>4. ASSUME NEW c \in Clients, CutOff(c) PROVE DeviceInv'
  BY <1>1, <1>2, <1>4 DEF CutOff, DeviceInv, dbTables
<1>5. ASSUME NEW c \in Clients, NEW t \in Topics, RegisterTopic(c, t) PROVE DeviceInv'
  <2>1. /\ admin[t] = {} /\ device[t] = "unset" /\ UNCHANGED <<online, cut, device>>
        /\ owner[t] = NoClient /\ \A u \in Topics : u # t => owner'[u] = owner[u]
        /\ \A u \in Topics : admin[u] # {} => owner'[u] = owner[u]
    BY <1>1, <1>5 DEF RegisterTopic, DeviceInv, seen
  <2>2. ASSUME NEW h \in Threads, task[h].op \in {"set", "command"} PROVE task[h].topic \in Topics
    BY <1>1, <2>2 DEF Task, Idle, Request, Result, Command
  <2>3. ASSUME NEW h \in Threads, task[h].op \in {"set", "command"}, admin[task[h].topic] # {}
        PROVE  owner'[task[h].topic] = owner[task[h].topic]
    BY <2>1, <2>2, <2>3
  <2> QED
    BY <1>2, <2>1, <2>3 DEF DeviceInv
<1>6. ASSUME NEW c \in Clients, NEW t \in Topics, AddSubscription(c, t) \/ RemoveSubscription(c, t)
      PROVE  DeviceInv'
  BY <1>2, <1>6 DEF AddSubscription, RemoveSubscription, DeviceInv, seen
<1> QED
  BY <1>3, <1>4, <1>5, <1>6 DEF Elsewhere

LEMMA DeviceRestart ==
    ASSUME DeviceInv, Restart
    PROVE  DeviceInv'
<1>1. \A h \in Threads : task'[h].op = "idle"
  BY DEF Restart, Idle
<1>2. \A t \in Topics : device'[t] = "unset"
  BY DEF Restart
<1>3. UNCHANGED <<admin, owner>>
  BY DEF Restart, dbTables
<1> QED
  BY <1>1, <1>2, <1>3 DEF DeviceInv

LEMMA DeviceStart ==
    ASSUME OneThread, ~DbMayFail, TypeOK, DeviceInv, NEW h \in Threads, Start(h)
    PROVE  DeviceInv'
<1>1. /\ task \in [Threads -> Task] /\ admin \in [Topics -> SUBSET Clients]
      /\ sensor \in [Topics -> Value] /\ NoClient \notin Clients
  BY AdminAssumption DEF TypeOK
<1>2. Idle.op \notin {"set", "command"}
  BY DEF Idle
<1>3. ASSUME NEW c \in Clients, NEW t \in Topics, NEW o \in Clients, NEW via \in {"packet", "json"},
             StartRequest(h, c, t, o, via)
      PROVE  DeviceInv'
  BY <1>2, <1>3, DeviceKept DEF StartRequest, Free, dbTables, seen
<1>4. ASSUME NEW c \in Clients, NEW t \in Topics, NEW o \in Clients, NEW via \in Answers,
             NEW status \in {"approved", "rejected"}, Respond(h, o, t, c, status, via)
      PROVE  DeviceInv'
  <2> DEFINE next == [op |-> IF via = "json" /\ status = "approved" THEN "grant" ELSE "notify",
                      topic |-> t, about |-> c, value |-> status]
  <2>1. next.op \notin {"set", "command"} /\ Becomes(h, next)
    BY <1>4 DEF Respond
  <2>2. \A u \in Topics : admin'[u] # {} => admin[u] # {} \/ owner[u] # NoClient
    BY <1>1, <1>4 DEF Respond
  <2>3. UNCHANGED <<online, cut, owner, sensor, device>> /\ task[h].op # "command"
    BY <1>2, <1>4 DEF Respond, Free, seen
  <2> HIDE DEF next
  <2> QED
    BY <2>1, <2>2, <2>3, DeviceKept
<1>5. ASSUME NEW c \in Clients, NEW t \in Topics, NEW o \in Clients, Revoke(h, o, t, c)
      PROVE  DeviceInv'
  <2>1. \A u \in Topics : admin'[u] # {} => admin[u] # {}
    BY <1>1, <1>5 DEF Revoke
  <2> QED
    BY <1>2, <1>5, <2>1, DeviceKept DEF Revoke, Free, seen
<1>6. ASSUME NEW c \in Clients, NEW t \in Topics, Resign(h, c, t) PROVE DeviceInv'
  <2>1. \A u \in Topics : admin'[u] # {} => admin[u] # {}
    BY <1>1, <1>6 DEF Resign
  <2>2. \A g \in Threads : task[g] = Idle /\ task'[g] = Idle
    BY <1>6, OneIdle DEF Resign
  <2> QED
    BY <1>2, <1>6, <2>1, <2>2 DEF Resign, DeviceInv, seen
<1>7. ASSUME NEW c \in Clients, NEW t \in Topics, NEW v \in {"on", "off"}, StartSet(h, c, t, v)
      PROVE  DeviceInv'
  <2>1. PICK to \in Targets(t) :
           Becomes(h, [op |-> "set", by |-> c, topic |-> t, to |-> to, value |-> v])
    BY <1>7 DEF StartSet
  <2>2. \A g \in Threads : /\ task[g] = Idle
                           /\ task'[g] = [op |-> "set", by |-> c, topic |-> t, to |-> to, value |-> v]
    BY <1>7, <2>1, OneIdle, OneTask DEF StartSet
  <2>3. to = IF Prefix[t] # NoClient THEN Prefix[t] ELSE owner[t]
    BY <2>1 DEF Targets
  <2>4. UNCHANGED <<online, cut, owner, admin, sensor, device>>
    BY <1>7 DEF StartSet, dbTables, seen
  <2> QED
    BY <1>2, <2>2, <2>3, <2>4 DEF DeviceInv
<1>8. ASSUME NEW c \in Clients, NEW t \in Topics, SetActivable(h, c, t) PROVE DeviceInv'
  <2>1. \A g \in Threads : task[g] = Idle /\ task'[g] = Idle
    BY <1>8, OneIdle DEF SetActivable
  <2>2. /\ UNCHANGED <<online, cut, owner, admin, device>> /\ sensor[t] = "unset"
        /\ \A u \in Topics : u # t => sensor'[u] = sensor[u]
    BY <1>1, <1>8 DEF SetActivable, seen
  <2> QED
    BY <1>2, <2>1, <2>2 DEF DeviceInv
<1> QED
  BY <1>3, <1>4, <1>5, <1>6, <1>7, <1>8, StartCases

LEMMA DeviceContinue ==
    ASSUME OneThread, ~DbMayFail, TypeOK, StillSo, DeviceInv, NEW h \in Threads, Continue(h)
    PROVE  DeviceInv'
<1>1. /\ task \in [Threads -> Task] /\ task[h] \in Task
      /\ sensor \in [Topics -> Value] /\ device \in [Topics -> Value]
  BY DEF TypeOK
<1>2. Idle.op \notin {"set", "command"}
  BY DEF Idle
<1>3. CASE Check(h)
  <2>1. task[h] \in Request
    BY <1>1, <1>3 DEF Check, Task, Idle, Result, Command
  <2>2. [task[h] EXCEPT !.step = @ + 1].op \notin {"set", "command"} /\ task[h].op # "command"
    BY <2>1 DEF Request
  <2>3. UNCHANGED <<online, cut, owner, admin, sensor, device>>
    BY <1>3 DEF Check, dbTables, seen
  <2> QED
    BY <1>2, <1>3, <2>2, <2>3, DeviceKept DEF Check
<1>4. CASE WriteRequest(h) \/ Notify(h)
  <2>1. UNCHANGED <<online, cut, owner, admin, sensor, device>> /\ Becomes(h, Idle) /\ task[h].op # "command"
    BY <1>4 DEF WriteRequest, Notify, dbTables, seen
  <2> QED
    BY <1>2, <2>1, DeviceKept
<1>5. CASE Grant(h)
  <2>1. task[h] \in Result
    BY <1>1, <1>5 DEF Grant, Task, Idle, Request, Command
  <2>2. [task[h] EXCEPT !.op = "notify"].op \notin {"set", "command"}
    BY <2>1 DEF Result
  <2>3. UNCHANGED <<online, cut, owner, admin, sensor, device>> /\ task[h].op # "command"
    BY <1>5 DEF Grant, StillSo, seen
  <2> QED
    BY <1>5, <2>2, <2>3, DeviceKept DEF Grant
<1>6. CASE SetSensor(h)
  <2>1. task[h] \in Command
    BY <1>1, <1>6 DEF SetSensor, Task, Idle, Request, Result
  <2> DEFINE next == [task[h] EXCEPT !.op = "command"]
  <2>2. /\ next.op = "command" /\ next.topic = task[h].topic /\ next.to = task[h].to
        /\ next.value = task[h].value /\ task[h].topic \in Topics
    BY <2>1 DEF Command
  <2>3. CASE Becomes(h, Idle) /\ UNCHANGED sensor
    BY <1>2, <1>6, <2>3, DeviceKept DEF SetSensor, seen
  <2>4. CASE /\ task[h].by \in admin[task[h].topic]
             /\ sensor' = [sensor EXCEPT ![task[h].topic] = task[h].value]
             /\ Becomes(h, next)
    <3>1. \A g \in Threads : task'[g] = next /\ g = h
      BY <2>4, OneTask DEF OneThread
    <3>2. UNCHANGED <<online, cut, owner, admin, device>> /\ task[h].op = "set"
      BY <1>6 DEF SetSensor, seen
    <3>3. /\ sensor'[task[h].topic] = task[h].value
          /\ \A u \in Topics : u # task[h].topic => sensor'[u] = sensor[u]
      BY <1>1, <2>2, <2>4
    <3> HIDE DEF next
    <3>4. \A u \in Topics : owner[u] \in cut \/ device[u] \in {"unset", sensor'[u]} \/ u = task[h].topic
      BY <3>1, <3>2, <3>3 DEF DeviceInv
    <3> QED
      BY <2>2, <2>4, <3>1, <3>2, <3>3, <3>4 DEF DeviceInv
  <2> QED
    BY <1>6, <2>3, <2>4 DEF SetSensor
<1>7. CASE SendCommand(h)
  <2>1. PICK t \in Topics : t = task[h].topic
    <3>1. task[h] \in Command
      BY <1>1, <1>7 DEF SendCommand, Task, Idle, Request, Result
    <3> QED
      BY <3>1 DEF Command
  <2>2. \A g \in Threads : task'[g] = Idle /\ g = h
    BY <1>7, OneTask DEF SendCommand, OneThread
  <2>3. UNCHANGED <<online, cut, owner, admin, sensor>>
    BY <1>7 DEF SendCommand, dbTables
  <2>4. /\ Prefix[t] # NoClient => task[h].to = Prefix[t]
        /\ Prefix[t] = NoClient => task[h].to = owner[t]
        /\ task[h].value = sensor[t]
    BY <1>7, <2>1 DEF SendCommand, DeviceInv
  <2>5. \A u \in Topics : u # t => /\ owner[u] \in cut \/ device[u] \in {"unset", sensor[u]}
                                  /\ device'[u] = device[u]
    BY <1>1, <1>7, <2>1, <2>2 DEF SendCommand, DeviceInv
  <2>6. CASE task[h].to = owner[t] /\ task[h].to \in online
    <3>1. device'[t] = sensor[t]
      BY <1>1, <1>7, <2>1, <2>4, <2>6 DEF SendCommand
    <3> QED
      BY <1>2, <2>2, <2>3, <2>4, <2>5, <2>6, <3>1 DEF DeviceInv
  <2>7. CASE ~(task[h].to = owner[t] /\ task[h].to \in online)
    <3>1. device' = device
      BY <1>7, <2>1, <2>7 DEF SendCommand
    <3>2. device[t] = "unset" \/ owner[t] \in cut
      BY <2>4, <2>7 DEF DeviceInv
    <3> QED
      BY <1>2, <2>2, <2>3, <2>5, <3>1, <3>2 DEF DeviceInv
  <2> QED
    BY <2>6, <2>7
<1> QED
  BY <1>3, <1>4, <1>5, <1>6, <1>7 DEF Continue

\* With one thread and a working database, the owner's present session was last
\* told what the table says of the sensor, if it was told anything, unless the
\* removal of an older session has cut it off from further commands.
THEOREM DevicesAreInStep == OneThread /\ ~DbMayFail /\ Spec => []DeviceInStep
<1> SUFFICES ASSUME OneThread, ~DbMayFail PROVE Spec => []DeviceInStep
  OBVIOUS
<1>1. Init => StillSo /\ DeviceInv
  BY DEF Init, StillSo, DeviceInv, Idle
<1>2. TypeOK /\ StillSo /\ DeviceInv /\ [Next]_vars => DeviceInv'
  <2>1. DeviceInv /\ UNCHANGED vars => DeviceInv'
    BY DEF DeviceInv, vars, dbTables, seen
  <2> QED
    BY <2>1, DeviceElsewhere, DeviceRestart, DeviceStart, DeviceContinue DEF Next
<1>3. DeviceInv => DeviceInStep
  BY DEF DeviceInv, DeviceInStep, AllIdle, Idle
<1> QED
  BY <1>1, <1>2, <1>3, StillSoStep, AdminTypeInit, AdminTypeStep, PTL DEF Spec
=============================================================================
