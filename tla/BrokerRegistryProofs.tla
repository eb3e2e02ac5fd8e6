------------------------ MODULE BrokerRegistryProofs ------------------------
(* Type correctness of module Broker, and its session registry and         *)
(* subscriber table: what a connection leaves behind when its read chain   *)
(* has ended, and what concurrent registrations and removals of one client *)
(* id may do.  For any number of connections, clients, topics, threads and *)
(* publications.                                                           *)
EXTENDS Broker, TLAPS

-----------------------------------------------------------------------------
(* Types                                                                   *)

\* A handler that works on a topic has one.
TopicKnown ==
    \A s \in Sessions : reader[s] \in {"subscribe", "unsubscribe", "publish"}
                            => topic[s] \in Topics

\* The monitor is disconnecting a session.
VictimKnown == monitor \in RemovalState \cup {"disconnect"} => victim \in Sessions

TypeInv == TypeOK /\ TopicKnown /\ VictimKnown

LEMMA TypeInit == Init => TypeInv
BY BrokerAssumption
   DEF Init, TypeInv, TypeOK, TopicKnown, VictimKnown, ReaderState, ReaderRest, RemovalState, NoRecips

-----------------------------------------------------------------------------
(* What the helpers of the actions return                                  *)

LEMMA SendAckType ==
    ASSUME TypeOK, NEW s \in Sessions, SendAck(s)
    PROVE  failed' \in [Sessions -> Nat]
<1>1. failed \in [Sessions -> Nat]
  BY DEF TypeOK
<1> QED
  BY <1>1 DEF SendAck, WriteToDead

LEMMA WithoutType ==
    ASSUME TypeOK, NEW s
    PROVE  /\ Without(s) \in [Topics -> [Sessions -> Nat]]
           /\ \A t \in Topics, r \in Sessions :
                 Without(s)[t][r] = IF r = s THEN 0 ELSE subs[t][r]
<1>1. subs \in [Topics -> [Sessions -> Nat]]
  BY DEF TypeOK
<1>2. \A t \in Topics : [subs[t] EXCEPT ![s] = 0] \in [Sessions -> Nat]
  BY <1>1
<1> QED
  BY <1>1, <1>2 DEF Without

LEMMA EnterType ==
    ASSUME TypeOK, NEW s \in Sessions, Enter(s)
    PROVE  /\ subs' \in [Topics -> [Sessions -> Nat]]
           /\ sessions' \in [Clients -> Sessions \cup {NoSession}]
<1>1. sessions' \in [Clients -> Sessions \cup {NoSession}]
  BY DEF TypeOK, Enter
<1>2. subs' = subs \/ subs' = Without(sessions[clientId[s]])
  BY DEF Enter
<1>3. subs \in [Topics -> [Sessions -> Nat]]
  BY DEF TypeOK
<1> QED
  BY <1>1, <1>2, <1>3, WithoutType

LEMMA SubscribeType ==
    ASSUME TypeOK, TopicKnown, NEW s \in Sessions, Subscribe(s) \/ Unsubscribe(s)
    PROVE  subs' \in [Topics -> [Sessions -> Nat]]
<1>1. subs \in [Topics -> [Sessions -> Nat]]
  BY DEF TypeOK
<1>2. topic[s] \in Topics
  BY DEF Subscribe, Unsubscribe, TopicKnown
<1>3. \/ subs' = [subs EXCEPT ![topic[s]][s] = IF @ = 0 THEN @ + 1 ELSE @]
      \/ subs' = [subs EXCEPT ![topic[s]][s] = 0]
  BY DEF Subscribe, Unsubscribe
<1> QED
  BY <1>1, <1>2, <1>3

LEMMA SnapshotType ==
    ASSUME TypeOK, TopicKnown, NEW s \in Sessions, Snapshot(s)
    PROVE  /\ recips' \in [Sessions -> [Sessions -> Nat]]
           /\ seqno' \in [Sessions -> Nat]
<1>1. /\ subs \in [Topics -> [Sessions -> Nat]]
      /\ recips \in [Sessions -> [Sessions -> Nat]]
      /\ seqno \in [Sessions -> Nat]
  BY DEF TypeOK
<1>2. topic[s] \in Topics
  BY DEF Snapshot, TopicKnown
<1>3. /\ recips' = [recips EXCEPT ![s] = subs[topic[s]]]
      /\ seqno' = [seqno EXCEPT ![s] = @ + 1]
  BY DEF Snapshot
<1> QED
  BY <1>1, <1>2, <1>3

LEMMA SendToType ==
    ASSUME TypeOK, NEW s \in Sessions, NEW r \in Sessions, SendTo(s, r)
    PROVE  /\ recips' \in [Sessions -> [Sessions -> Nat]]
           /\ failed' \in [Sessions -> Nat]
           /\ outbox' \in [Sessions -> Seq([from : Sessions, n : Nat])]
<1>1. /\ recips \in [Sessions -> [Sessions -> Nat]]
      /\ failed \in [Sessions -> Nat]
      /\ outbox \in [Sessions -> Seq([from : Sessions, n : Nat])]
      /\ [from |-> s, n |-> seqno[s]] \in [from : Sessions, n : Nat]
  BY DEF TypeOK
<1>2. recips[s][r] > 0 /\ recips' = [recips EXCEPT ![s][r] = @ - 1]
  BY DEF SendTo
<1>3. recips' \in [Sessions -> [Sessions -> Nat]]
  <2>1. recips[s][r] - 1 \in Nat
    BY <1>1, <1>2
  <2>2. [recips[s] EXCEPT ![r] = recips[s][r] - 1] \in [Sessions -> Nat]
    BY <1>1, <2>1
  <2> QED
    BY <1>1, <1>2, <2>2
<1>4. failed' \in [Sessions -> Nat]
  <2>1. failed' = failed \/ failed' = [failed EXCEPT ![r] = @ + 1]
    BY DEF SendTo, WriteToDead
  <2>2. failed \in [Sessions -> Nat]
    BY DEF TypeOK
  <2>3. [failed EXCEPT ![r] = @ + 1] \in [Sessions -> Nat]
    BY <2>2
  <2> QED
    BY <2>1, <2>2, <2>3
<1>5. \/ outbox' = outbox
      \/ outbox' = [outbox EXCEPT ![r] = Append(@, [from |-> s, n |-> seqno[s]])]
  BY DEF SendTo
<1>6. outbox' \in [Sessions -> Seq([from : Sessions, n : Nat])]
  <2> DEFINE Msg == [from : Sessions, n : Nat]
  <2>1. \A q \in Seq(Msg), m \in Msg : Append(q, m) \in Seq(Msg)
    OBVIOUS
  <2>2. Append(outbox[r], [from |-> s, n |-> seqno[s]]) \in Seq(Msg)
    BY <1>1, <2>1
  <2> QED
    BY <1>1, <1>5, <2>2
<1> QED
  BY <1>3, <1>4, <1>6

LEMMA WriteFailsType ==
    ASSUME TypeOK, NEW s \in Sessions, WriteFails(s)
    PROVE  failed' \in [Sessions -> Nat]
<1>1. failed \in [Sessions -> Nat] /\ failed[s] > 0
  BY DEF TypeOK, WriteFails
<1> QED
  BY <1>1 DEF WriteFails

\* A step of a removal, whoever runs it, keeps the types of what it touches.
LEMMA RemovalStepType ==
    ASSUME TypeOK, NEW s \in Sessions, NEW phase, NEW next, RemovalStep(s, phase, next)
    PROVE  /\ sessions' \in [Clients -> Sessions \cup {NoSession}]
           /\ sessLock' \in Sessions \cup {NoSession}
           /\ subs' \in [Topics -> [Sessions -> Nat]]
           /\ db' \in [Clients -> {"absent", "active", "inactive"}]
           /\ addr' \in [Clients -> Sessions \cup {NoSession}]
<1>1. CASE phase = "log"
  <2>1. db \in [Clients -> {"absent", "active", "inactive"}]
    BY DEF TypeOK
  <2>2. db' \in [Clients -> {"absent", "active", "inactive"}] /\ addr' = addr
    BY <1>1, <2>1 DEF RemovalStep, LogDisconnect
  <2> QED
    BY <1>1, <2>2 DEF RemovalStep, TypeOK
<1>2. CASE phase = "erase"
  BY <1>2 DEF RemovalStep, TypeOK, dbVars
<1>3. CASE phase = "purge"
  BY <1>3, WithoutType DEF RemovalStep, TypeOK, dbVars
<1> QED
  BY <1>1, <1>2, <1>3 DEF RemovalStep

-----------------------------------------------------------------------------
(* Type correctness                                                        *)

LEMMA TypeStep == TypeInv /\ [Next]_vars => TypeInv'
<1> SUFFICES ASSUME TypeInv, [Next]_vars PROVE TypeInv'
  OBVIOUS
<1> USE BrokerAssumption
    DEF TypeInv, TypeOK, TopicKnown, VictimKnown, ReaderState, ReaderRest, RemovalState, Go,
        connVars, msgVars, wfVars, monVars, dbVars, regVars
<1>1. ASSUME NEW s \in Sessions, Accept(s) PROVE TypeInv'
  BY <1>1 DEF Accept
<1>2. ASSUME NEW s \in Sessions, Hangup(s) PROVE TypeInv'
  BY <1>2 DEF Hangup
<1>3. ASSUME NEW s \in Sessions, ConnectEmpty(s) PROVE TypeInv'
  BY <1>3 DEF ConnectEmpty
<1>4. ASSUME NEW s \in Sessions, NEW c \in Clients, Connect(s, c) PROVE TypeInv'
  BY <1>4 DEF Connect
<1>5. ASSUME NEW s \in Sessions, NEW t \in Topics,
             NEW kind \in {"subscribe", "unsubscribe", "publish"}, Request(s, t, kind)
      PROVE  TypeInv'
  BY <1>5 DEF Request
<1>6. ASSUME NEW c \in Clients, MarkInactive(c) PROVE TypeInv'
  BY <1>6 DEF MarkInactive
<1>7. ASSUME NEW s \in Sessions, SendConnack(s) PROVE TypeInv'
  BY <1>7, SendAckType DEF SendConnack
<1>8. ASSUME NEW s \in Sessions, Register(s) PROVE TypeInv'
  BY <1>8 DEF Register, RegisterClient
<1>9. ASSUME NEW s \in Sessions, Enter(s) PROVE TypeInv'
  <2>1. /\ subs' \in [Topics -> [Sessions -> Nat]]
        /\ sessions' \in [Clients -> Sessions \cup {NoSession}]
    BY <1>9, EnterType
  <2> QED
    BY <1>9, <2>1 DEF Enter
<1>10. ASSUME NEW s \in Sessions, Subscribe(s) PROVE TypeInv'
  <2>1. failed' \in [Sessions -> Nat]
    BY <1>10, SendAckType DEF Subscribe, AckAndRead
  <2>2. subs' \in [Topics -> [Sessions -> Nat]]
    BY <1>10, SubscribeType
  <2> QED
    BY <1>10, <2>1, <2>2 DEF Subscribe, AckAndRead
<1>11. ASSUME NEW s \in Sessions, Unsubscribe(s) PROVE TypeInv'
  <2>1. failed' \in [Sessions -> Nat]
    BY <1>11, SendAckType DEF Unsubscribe, AckAndRead
  <2>2. subs' \in [Topics -> [Sessions -> Nat]]
    BY <1>11, SubscribeType
  <2> QED
    BY <1>11, <2>1, <2>2 DEF Unsubscribe, AckAndRead
<1>12. ASSUME NEW s \in Sessions, Publish(s) PROVE TypeInv'
  <2>1. recips' \in [Sessions -> [Sessions -> Nat]] /\ seqno' \in [Sessions -> Nat]
    BY <1>12, SnapshotType DEF Publish
  <2> QED
    BY <1>12, <2>1 DEF Publish, Snapshot
<1>13. ASSUME NEW s \in Sessions, PublishThrows(s) PROVE TypeInv'
  <2>1. recips' \in [Sessions -> [Sessions -> Nat]] /\ seqno' \in [Sessions -> Nat]
    BY <1>13, SnapshotType DEF PublishThrows
  <2>2. workers' \in Int
    BY <1>13 DEF PublishThrows
  <2> QED
    BY <1>13, <2>1, <2>2 DEF PublishThrows, Snapshot
<1>14. ASSUME NEW s \in Sessions, NEW r \in Sessions, SendTo(s, r) PROVE TypeInv'
  <2>1. /\ recips' \in [Sessions -> [Sessions -> Nat]]
        /\ failed' \in [Sessions -> Nat]
        /\ outbox' \in [Sessions -> Seq([from : Sessions, n : Nat])]
    BY <1>14, SendToType
  <2> QED
    BY <1>14, <2>1 DEF SendTo
<1>15. ASSUME NEW s \in Sessions, Puback(s) PROVE TypeInv'
  <2>1. failed' \in [Sessions -> Nat]
    BY <1>15, SendAckType DEF Puback, AckAndRead
  <2>2. acked' \in [Sessions -> Nat]
    BY <1>15 DEF Puback
  <2> QED
    BY <1>15, <2>1, <2>2 DEF Puback, AckAndRead
<1>16. ASSUME NEW s \in Sessions, ReadFails(s) PROVE TypeInv'
  BY <1>16 DEF ReadFails
<1>17. ASSUME NEW s \in Sessions, ReaderRemoves(s) PROVE TypeInv'
  <2>1. PICK next \in {"erase", "purge", "done"} :
            /\ RemovalStep(s, reader[s], next)
            /\ Go(s, IF next = "done" THEN "ended" ELSE next)
    BY <1>17 DEF ReaderRemoves
  <2> QED
    BY <1>17, <2>1, RemovalStepType DEF ReaderRemoves
<1>18. ASSUME NEW s \in Sessions, WriteFails(s) PROVE TypeInv'
  <2>1. failed' \in [Sessions -> Nat]
    BY <1>18, WriteFailsType
  <2> QED
    BY <1>18, <2>1 DEF WriteFails
<1>19. ASSUME NEW s \in Sessions, WriterRemoves(s) PROVE TypeInv'
  <2>1. PICK next \in {"erase", "purge", "done"} :
            /\ RemovalStep(s, writer[s], next)
            /\ writer' = [writer EXCEPT ![s] = IF next = "done" THEN "idle" ELSE next]
    BY <1>19 DEF WriterRemoves
  <2> QED
    BY <1>19, <2>1, RemovalStepType DEF WriterRemoves
<1>20. CASE MonitorList
  BY <1>20 DEF MonitorList
<1>21. CASE MonitorQuery
  BY <1>21 DEF MonitorQuery
<1>22. ASSUME NEW c \in Clients, MonitorLookup(c) PROVE TypeInv'
  BY <1>22 DEF MonitorLookup
<1>23. CASE MonitorDisconnect
  BY <1>23 DEF MonitorDisconnect
<1>24. CASE MonitorRemoves
  <2>1. victim \in Sessions
    BY <1>24 DEF MonitorRemoves
  <2>2. PICK next \in {"erase", "purge", "done"} : RemovalStep(victim, monitor, next)
    BY <1>24 DEF MonitorRemoves
  <2> QED
    BY <1>24, <2>1, <2>2, RemovalStepType DEF MonitorRemoves
<1>25. CASE MonitorRearm
  BY <1>25 DEF MonitorRearm
<1>26. CASE UNCHANGED vars
  BY <1>26 DEF vars
<1> HIDE DEF TypeInv, TypeOK, TopicKnown, VictimKnown, Go
<1> QED
  BY <1>1, <1>2, <1>3, <1>4, <1>5, <1>6, <1>7, <1>8, <1>9, <1>10, <1>11, <1>12,
     <1>13, <1>14, <1>15, <1>16, <1>17, <1>18, <1>19, <1>20, <1>21, <1>22, <1>23,
     <1>24, <1>25, <1>26
     DEF Next, Environment, ReaderStep, MonitorStep

\* Every variable of the broker keeps to its type.
THEOREM TypeCorrect == Spec => []TypeOK
<1>1. TypeInv => TypeOK
  BY DEF TypeInv
<1> QED
  BY TypeInit, TypeStep, <1>1, PTL DEF Spec

-----------------------------------------------------------------------------
(* The registry                                                            *)

\* A connection that has not been accepted has no reader and no client.
Unborn ==
    \A s \in Sessions :
        /\ reader[s] = "off" <=> sock[s] = "none"
        /\ sock[s] = "none" => clientId[s] = NoClient

\* Without a CONN there are no handlers, no subscriptions and no registration.
Unidentified ==
    /\ \A s \in Sessions : clientId[s] = NoClient =>
          /\ reader[s] \in {"off", "reading", "ended"}
          /\ \A t \in Topics : subs[t][s] = 0
          /\ \A c \in Clients : sessions[c] # s
    /\ monitor \in RemovalState \cup {"disconnect"} => clientId[victim] # NoClient

LoginInv == Unborn /\ Unidentified

\* From the erasure of its entry on, a reader that removes its session is not
\* registered under its id, and only itself could register it again.
Erased ==
    \A s \in Sessions : (reader[s] \in {"purge", "ended"} /\ clientId[s] # NoClient)
                            => sessions[clientId[s]] # s

\* sessions_mutex_: its holder is past the database call of register_session,
\* and nobody else is.
RegistrationExclusive == \A s \in Sessions : reader[s] = "enter" <=> sessLock = s

RegInv == LoginInv /\ NoGhostSubscriber /\ Erased /\ RegistrationExclusive

LEMMA RegInit == Init => RegInv
BY BrokerAssumption
   DEF Init, RegInv, LoginInv, Unborn, Unidentified, NoGhostSubscriber, Erased,
       RegistrationExclusive, NoRecips, RemovalState

\* A removal of s, whoever runs it, only takes away.
LEMMA RemovalTakesAway ==
    ASSUME TypeInv, NEW s \in Sessions, NEW phase, NEW next, RemovalStep(s, phase, next)
    PROVE  /\ \A t \in Topics, r \in Sessions : subs[t][r] = 0 => subs'[t][r] = 0
           /\ \A c \in Clients : sessions'[c] \in {sessions[c], NoSession}
           /\ sessLock' = sessLock
           /\ (phase = "erase" /\ clientId[s] \in Clients) => sessions'[clientId[s]] = NoSession
           /\ phase = "purge" => \A t \in Topics : subs'[t][s] = 0
           /\ \/ phase = "log" /\ next = "erase"
              \/ phase = "erase" /\ next = "purge"
              \/ phase = "purge" /\ next = "done"
<1>1. TypeOK
  BY DEF TypeInv
<1>2. sessions \in [Clients -> Sessions \cup {NoSession}]
  BY <1>1 DEF TypeOK
<1>3. CASE phase = "log"
  <2>1. next = "erase" /\ sessions' = sessions /\ sessLock' = sessLock /\ subs' = subs
    BY <1>3 DEF RemovalStep
  <2> QED
    BY <1>3, <2>1
<1>4. CASE phase = "erase"
  <2>1. /\ sessions' = [sessions EXCEPT ![clientId[s]] = NoSession]
        /\ next = "purge" /\ sessLock' = sessLock /\ subs' = subs
    BY <1>4 DEF RemovalStep
  <2> QED
    BY <1>2, <1>4, <2>1
<1>5. CASE phase = "purge"
  <2>1. /\ subs' = Without(s)
        /\ next = "done" /\ sessLock' = sessLock /\ sessions' = sessions
    BY <1>5 DEF RemovalStep
  <2>2. \A t \in Topics, r \in Sessions :
            subs'[t][r] = IF r = s THEN 0 ELSE subs[t][r]
    BY <1>1, <2>1, WithoutType
  <2> QED
    BY <1>2, <1>5, <2>1, <2>2
<1> QED
  BY <1>3, <1>4, <1>5 DEF RemovalStep

LEMMA RegStep == TypeInv /\ RegInv /\ [Next]_vars => RegInv'
<1> SUFFICES ASSUME TypeInv, RegInv, [Next]_vars PROVE RegInv'
  OBVIOUS
<1> TypeOK
  BY DEF TypeInv
<1>a. /\ sock \in [Sessions -> {"none", "open", "dead"}]
      /\ clientId \in [Sessions -> Clients \cup {NoClient}]
      /\ reader \in [Sessions -> ReaderState]
      /\ sessions \in [Clients -> Sessions \cup {NoSession}]
      /\ victim \in Sessions \cup {NoSession}
      /\ NoSession \notin Sessions /\ NoClient \notin Clients
  BY BrokerAssumption DEF TypeOK
<1>b. monitor \in RemovalState \cup {"disconnect"} => victim \in Sessions
  BY DEF TypeInv, VictimKnown
<1> USE DEF RegInv, LoginInv, Unborn, Unidentified, NoGhostSubscriber, Erased,
            RegistrationExclusive, RemovalState, ReaderRest, ReaderState, Go,
            connVars, msgVars, wfVars, monVars, dbVars, regVars
<1>1. ASSUME NEW s \in Sessions, Accept(s) PROVE RegInv'
  BY <1>a, <1>1 DEF Accept
<1>2. ASSUME NEW s \in Sessions, Hangup(s) PROVE RegInv'
  BY <1>a, <1>2 DEF Hangup
<1>3. ASSUME NEW s \in Sessions, ConnectEmpty(s) PROVE RegInv'
  BY <1>a, <1>3 DEF ConnectEmpty, Receives
<1>4. ASSUME NEW s \in Sessions, NEW c \in Clients, Connect(s, c) PROVE RegInv'
  BY <1>a, <1>4 DEF Connect, Receives
<1>5. ASSUME NEW s \in Sessions, NEW t \in Topics,
             NEW kind \in {"subscribe", "unsubscribe", "publish"}, Request(s, t, kind)
      PROVE  RegInv'
  BY <1>a, <1>5 DEF Request, Receives
<1>6. ASSUME NEW c \in Clients, MarkInactive(c) PROVE RegInv'
  BY <1>6 DEF MarkInactive
<1>7. ASSUME NEW s \in Sessions, SendConnack(s) PROVE RegInv'
  BY <1>a, <1>7 DEF SendConnack
<1>8. ASSUME NEW s \in Sessions, Register(s) PROVE RegInv'
  BY <1>a, <1>8 DEF Register
<1>9. ASSUME NEW s \in Sessions, Enter(s) PROVE RegInv'
  <2>1. \A t \in Topics, r \in Sessions : subs[t][r] = 0 => subs'[t][r] = 0
    BY <1>9, WithoutType DEF Enter
  <2> QED
    BY <1>a, <1>9, <2>1 DEF Enter
<1>10. ASSUME NEW s \in Sessions, Subscribe(s) \/ Unsubscribe(s) PROVE RegInv'
  <2>1. \A t \in Topics, r \in Sessions \ {s} : subs'[t][r] = subs[t][r]
    <3>1. subs \in [Topics -> [Sessions -> Nat]]
      BY DEF TypeOK
    <3>2. \/ subs' = [subs EXCEPT ![topic[s]][s] = IF @ = 0 THEN @ + 1 ELSE @]
          \/ subs' = [subs EXCEPT ![topic[s]][s] = 0]
      BY <1>10 DEF Subscribe, Unsubscribe
    <3> HIDE DEF RegInv
    <3> QED
      BY <3>1, <3>2
  <2> QED
    BY <1>a, <1>10, <2>1 DEF Subscribe, Unsubscribe, AckAndRead
<1>11. ASSUME NEW s \in Sessions, Publish(s) PROVE RegInv'
  BY <1>a, <1>11 DEF Publish, Snapshot
<1>12. ASSUME NEW s \in Sessions, PublishThrows(s) PROVE RegInv'
  BY <1>a, <1>12 DEF PublishThrows, Snapshot
<1>13. ASSUME NEW s \in Sessions, NEW r \in Sessions, SendTo(s, r) PROVE RegInv'
  BY <1>13 DEF SendTo
<1>14. ASSUME NEW s \in Sessions, Puback(s) PROVE RegInv'
  BY <1>a, <1>14 DEF Puback, AckAndRead
<1>15. ASSUME NEW s \in Sessions, ReadFails(s) PROVE RegInv'
  BY <1>a, <1>15 DEF ReadFails, RemovalStart
<1>16. ASSUME NEW s \in Sessions, ReaderRemoves(s) PROVE RegInv'
  <2>1. PICK next \in {"erase", "purge", "done"} :
            /\ RemovalStep(s, reader[s], next)
            /\ Go(s, IF next = "done" THEN "ended" ELSE next)
    BY <1>16 DEF ReaderRemoves
  <2> QED
    BY <1>a, <1>16, <2>1, RemovalTakesAway DEF ReaderRemoves
<1>17. ASSUME NEW s \in Sessions, WriteFails(s) PROVE RegInv'
  BY <1>17 DEF WriteFails
<1>18. ASSUME NEW s \in Sessions, WriterRemoves(s) PROVE RegInv'
  <2>1. PICK next \in {"erase", "purge", "done"} : RemovalStep(s, writer[s], next)
    BY <1>18 DEF WriterRemoves
  <2> QED
    BY <1>a, <1>18, <2>1, RemovalTakesAway DEF WriterRemoves
<1>19. CASE MonitorList
  BY <1>19 DEF MonitorList
<1>20. CASE MonitorQuery
  BY <1>20 DEF MonitorQuery
<1>21. ASSUME NEW c \in Clients, MonitorLookup(c) PROVE RegInv'
  BY <1>a, <1>21 DEF MonitorLookup
<1>22. CASE MonitorDisconnect
  BY <1>a, <1>b, <1>22 DEF MonitorDisconnect, RemovalStart
<1>23. CASE MonitorRemoves
  <2>1. PICK next \in {"erase", "purge", "done"} :
            /\ RemovalStep(victim, monitor, next)
            /\ monitor' = IF next = "done" THEN "kick" ELSE next
            /\ victim' = IF next = "done" THEN NoSession ELSE victim
    BY <1>23 DEF MonitorRemoves
  <2> QED
    BY <1>a, <1>b, <1>23, <2>1, RemovalTakesAway DEF MonitorRemoves
<1>24. CASE MonitorRearm
  BY <1>24 DEF MonitorRearm
<1>25. CASE UNCHANGED vars
  BY <1>25 DEF vars
<1> HIDE DEF RegInv, Go
<1> QED
  BY <1>1, <1>2, <1>3, <1>4, <1>5, <1>6, <1>7, <1>8, <1>9, <1>10, <1>11, <1>12,
     <1>13, <1>14, <1>15, <1>16, <1>17, <1>18, <1>19, <1>20, <1>21, <1>22, <1>23,
     <1>24, <1>25
     DEF Next, Environment, ReaderStep, MonitorStep

LEMMA RegInvariant == Spec => [](TypeInv /\ RegInv)
BY TypeInit, TypeStep, RegInit, RegStep, PTL DEF Spec

\* A connection whose read chain has ended is out of every subscriber list.
THEOREM EndedUnsubscribed == Spec => []NoGhostSubscriber
<1>1. RegInv => NoGhostSubscriber
  BY DEF RegInv
<1> QED
  BY RegInvariant, <1>1, PTL

\* A connection whose read chain has ended is not its client's session.
THEOREM EndedUnregistered == Spec => []NoGhostSession
<1>1. RegInv => NoGhostSession
  BY DEF RegInv, Erased, NoGhostSession
<1> QED
  BY RegInvariant, <1>1, PTL

-----------------------------------------------------------------------------
(* Registrations and removals of one client id                             *)

\* The registry, the clients' identities and the recorded addresses change in
\* these actions only.
LEMMA RegistryFrame ==
    ASSUME TypeInv, [Next]_vars
    PROVE  \/ \E s \in Sessions :
                 \/ Accept(s) \/ Hangup(s) \/ ConnectEmpty(s)
                 \/ \E c \in Clients : Connect(s, c)
                 \/ Register(s) \/ Enter(s) \/ ReaderRemoves(s) \/ WriterRemoves(s)
           \/ MonitorDisconnect \/ MonitorRemoves
           \/ /\ UNCHANGED <<sessions, addr, clientId, sock>>
              /\ \A s \in Sessions : reader'[s] = "enter" <=> reader[s] = "enter"
<1> DEFINE Frame == /\ UNCHANGED <<sessions, addr, clientId, sock>>
                    /\ \A s \in Sessions : reader'[s] = "enter" <=> reader[s] = "enter"
<1>a. reader \in [Sessions -> ReaderState]
  BY DEF TypeInv, TypeOK
<1> USE DEF Go, connVars, msgVars, wfVars, monVars, dbVars, regVars
<1>1. ASSUME NEW s \in Sessions, NEW t \in Topics,
             NEW kind \in {"subscribe", "unsubscribe", "publish"}, Request(s, t, kind)
      PROVE  Frame
  BY <1>a, <1>1 DEF Request, Receives
<1>2. ASSUME NEW c \in Clients, MarkInactive(c) PROVE Frame
  BY <1>2 DEF MarkInactive
<1>3. ASSUME NEW s \in Sessions, SendConnack(s) PROVE Frame
  BY <1>a, <1>3 DEF SendConnack
<1>4. ASSUME NEW s \in Sessions, Subscribe(s) \/ Unsubscribe(s) PROVE Frame
  BY <1>a, <1>4 DEF Subscribe, Unsubscribe, AckAndRead
<1>5. ASSUME NEW s \in Sessions, Publish(s) \/ PublishThrows(s) PROVE Frame
  BY <1>a, <1>5 DEF Publish, PublishThrows, Snapshot
<1>6. ASSUME NEW s \in Sessions, NEW r \in Sessions, SendTo(s, r) PROVE Frame
  BY <1>6 DEF SendTo
<1>7. ASSUME NEW s \in Sessions, Puback(s) PROVE Frame
  BY <1>a, <1>7 DEF Puback, AckAndRead
<1>8. ASSUME NEW s \in Sessions, ReadFails(s) PROVE Frame
  BY <1>a, <1>8 DEF ReadFails
<1>9. ASSUME NEW s \in Sessions, WriteFails(s) PROVE Frame
  BY <1>9 DEF WriteFails
<1>10. ASSUME MonitorList \/ MonitorQuery \/ MonitorRearm PROVE Frame
  BY <1>10 DEF MonitorList, MonitorQuery, MonitorRearm
<1>11. ASSUME NEW c \in Clients, MonitorLookup(c) PROVE Frame
  BY <1>11 DEF MonitorLookup
<1>12. CASE UNCHANGED vars
  BY <1>12 DEF vars
<1> HIDE DEF Frame
<1>13. Frame => /\ UNCHANGED <<sessions, addr, clientId, sock>>
                /\ \A s \in Sessions : reader'[s] = "enter" <=> reader[s] = "enter"
  BY DEF Frame
<1> QED
  BY <1>1, <1>2, <1>3, <1>4, <1>5, <1>6, <1>7, <1>8, <1>9, <1>10, <1>11, <1>12, <1>13
     DEF Next, Environment, ReaderStep, MonitorStep

\* The session found under an id is one of the client with that id.
SessionsKeyedByClientId ==
    \A c \in Clients : sessions[c] # NoSession => clientId[sessions[c]] = c

\* A client that never sends a second CONN is registered under its own id.
Keyed == ~ReConnects => SessionsKeyedByClientId

LEMMA KeyedStep == TypeInv /\ RegInv /\ Keyed /\ [Next]_vars => Keyed'
<1> SUFFICES ASSUME TypeInv, RegInv, [Next]_vars, ~ReConnects, SessionsKeyedByClientId
             PROVE  SessionsKeyedByClientId'
  BY DEF Keyed
<1>a. /\ clientId \in [Sessions -> Clients \cup {NoClient}]
      /\ sessions \in [Clients -> Sessions \cup {NoSession}]
      /\ NoSession \notin Sessions
  BY BrokerAssumption DEF TypeInv, TypeOK
<1>b. \A s \in Sessions : clientId[s] = NoClient => \A c \in Clients : sessions[c] # s
  BY DEF RegInv, LoginInv, Unidentified
<1>1. ASSUME clientId' = clientId, \A c \in Clients : sessions'[c] \in {sessions[c], NoSession}
      PROVE  SessionsKeyedByClientId'
  BY <1>1 DEF SessionsKeyedByClientId
<1> USE DEF connVars, regVars
<1>2. ASSUME NEW s \in Sessions, Accept(s) \/ Hangup(s) \/ ConnectEmpty(s) \/ Register(s)
      PROVE  SessionsKeyedByClientId'
  BY <1>1, <1>2 DEF Accept, Hangup, ConnectEmpty, Register
<1>3. ASSUME NEW s \in Sessions, NEW c \in Clients, Connect(s, c)
      PROVE  SessionsKeyedByClientId'
  BY <1>a, <1>b, <1>3 DEF Connect, SessionsKeyedByClientId
<1>4. ASSUME NEW s \in Sessions, Enter(s) PROVE SessionsKeyedByClientId'
  BY <1>a, <1>4 DEF Enter, SessionsKeyedByClientId
<1>5. ASSUME NEW s \in Sessions, ReaderRemoves(s) PROVE SessionsKeyedByClientId'
  BY <1>1, <1>5, RemovalTakesAway DEF ReaderRemoves
<1>6. ASSUME NEW s \in Sessions, WriterRemoves(s) PROVE SessionsKeyedByClientId'
  BY <1>1, <1>6, RemovalTakesAway DEF WriterRemoves
<1>7. CASE MonitorDisconnect
  BY <1>1, <1>7 DEF MonitorDisconnect
<1>8. CASE MonitorRemoves
  <2>1. victim \in Sessions
    BY <1>8 DEF MonitorRemoves, TypeInv, VictimKnown
  <2> QED
    BY <1>1, <1>8, <2>1, RemovalTakesAway DEF MonitorRemoves
<1> QED
  BY <1>1, <1>2, <1>3, <1>4, <1>5, <1>6, <1>7, <1>8, RegistryFrame

\* While a registration is between the database and the map it is the row of
\* its client that is up to date, and otherwise the row of the registered one.
AddrInv == ~DbMayFail =>
    /\ \A s \in Sessions : reader[s] = "enter" => addr[clientId[s]] = s \/ sock[s] = "dead"
    /\ \A c \in Clients : sessions[c] # NoSession =>
          \/ addr[c] = sessions[c] \/ sock[sessions[c]] = "dead"
          \/ \E n \in Sessions : reader[n] = "enter" /\ clientId[n] = c

LEMMA AddrStep == TypeInv /\ RegInv /\ AddrInv /\ [Next]_vars => AddrInv'
<1> SUFFICES ASSUME TypeInv, RegInv, AddrInv, [Next]_vars, ~DbMayFail PROVE AddrInv'
  BY DEF AddrInv
<1>a. /\ sock \in [Sessions -> {"none", "open", "dead"}]
      /\ clientId \in [Sessions -> Clients \cup {NoClient}]
      /\ reader \in [Sessions -> ReaderState]
      /\ sessions \in [Clients -> Sessions \cup {NoSession}]
      /\ addr \in [Clients -> Sessions \cup {NoSession}]
      /\ NoSession \notin Sessions
  BY BrokerAssumption DEF TypeInv, TypeOK
<1>b. /\ \A s \in Sessions : reader[s] = "enter" <=> sessLock = s
      /\ \A s \in Sessions : reader[s] = "off" <=> sock[s] = "none"
      /\ \A s \in Sessions : clientId[s] = NoClient => reader[s] \in {"off", "reading", "ended"}
  BY DEF RegInv, RegistrationExclusive, LoginInv, Unborn, Unidentified
<1> USE DEF AddrInv, connVars, regVars, dbVars, Go
<1>1. ASSUME NEW s \in Sessions, Accept(s) PROVE AddrInv'
  BY <1>a, <1>b, <1>1 DEF Accept
<1>2. ASSUME NEW s \in Sessions, Hangup(s) \/ ConnectEmpty(s) PROVE AddrInv'
  BY <1>a, <1>2 DEF Hangup, ConnectEmpty
<1>3. ASSUME NEW s \in Sessions, NEW c \in Clients, Connect(s, c) PROVE AddrInv'
  BY <1>a, <1>3 DEF Connect, Receives
<1>4. ASSUME NEW s \in Sessions, Register(s) PROVE AddrInv'
  BY <1>a, <1>b, <1>4 DEF Register, RegisterClient
<1>5. ASSUME NEW s \in Sessions, Enter(s) PROVE AddrInv'
  BY <1>a, <1>b, <1>5 DEF Enter
<1>6. ASSUME NEW s \in Sessions, NEW phase, NEW next, RemovalStep(s, phase, next),
             UNCHANGED <<sock, clientId>>,
             \A q \in Sessions : reader'[q] = "enter" <=> reader[q] = "enter"
      PROVE  AddrInv'
  <2>1. addr' = addr
    BY <1>6 DEF RemovalStep, LogDisconnect
  <2>2. \A c \in Clients : sessions'[c] \in {sessions[c], NoSession}
    BY <1>6, RemovalTakesAway
  <2> QED
    BY <1>6, <2>1, <2>2
<1>7. ASSUME NEW s \in Sessions, ReaderRemoves(s) PROVE AddrInv'
  BY <1>a, <1>6, <1>7 DEF ReaderRemoves, RemovalState
<1>8. ASSUME NEW s \in Sessions, WriterRemoves(s) PROVE AddrInv'
  BY <1>6, <1>8 DEF WriterRemoves
<1>9. CASE MonitorDisconnect
  BY <1>a, <1>9 DEF MonitorDisconnect
<1>10. CASE MonitorRemoves
  <2>1. victim \in Sessions
    BY <1>10 DEF MonitorRemoves, TypeInv, VictimKnown
  <2> QED
    BY <1>6, <1>10, <2>1 DEF MonitorRemoves
<1>11. ASSUME UNCHANGED <<sessions, addr, clientId, sock>>,
              \A s \in Sessions : reader'[s] = "enter" <=> reader[s] = "enter"
       PROVE  AddrInv'
  BY <1>11
<1> HIDE DEF AddrInv
<1> QED
  BY <1>1, <1>2, <1>3, <1>4, <1>5, <1>7, <1>8, <1>9, <1>10, <1>11, RegistryFrame

LEMMA RegistryInvariant == Spec => [](TypeInv /\ RegInv /\ Keyed /\ AddrInv)
<1>1. Init => Keyed /\ AddrInv
  BY BrokerAssumption DEF Init, Keyed, SessionsKeyedByClientId, AddrInv
<1> QED
  BY <1>1, TypeInit, TypeStep, RegInit, RegStep, KeyedStep, AddrStep, PTL DEF Spec

\* The row of a registered client names its session's address.
THEOREM AddressRecorded == Spec => []AddressOfRegistered
<1>1. TypeInv /\ RegInv /\ AddrInv => AddressOfRegistered
  BY BrokerAssumption
     DEF RegInv, RegistrationExclusive, AddrInv, AddressOfRegistered, TypeInv, TypeOK
<1> QED
  BY RegistryInvariant, <1>1, PTL
=============================================================================
