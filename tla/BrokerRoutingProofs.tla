------------------------- MODULE BrokerRoutingProofs -------------------------
(* Module Broker implements module PubSub, and no connection loses its     *)
(* subscriptions on behalf of another client.                              *)
EXTENDS BrokerRegistryProofs

-----------------------------------------------------------------------------
(* The subscriber table                                                    *)

\* The subscriber table changes in these actions only.
LEMMA SubsFrame ==
    ASSUME [Next]_vars
    PROVE  \/ \E s \in Sessions : \/ Enter(s) \/ Subscribe(s) \/ Unsubscribe(s)
                                  \/ ReaderRemoves(s) \/ WriterRemoves(s)
           \/ MonitorRemoves
           \/ subs' = subs
<1> USE DEF connVars, msgVars, wfVars, monVars, dbVars, regVars
<1>1. ASSUME NEW s \in Sessions, Accept(s) \/ Hangup(s) \/ ConnectEmpty(s) PROVE subs' = subs
  BY <1>1 DEF Accept, Hangup, ConnectEmpty
<1>2. ASSUME NEW s \in Sessions, NEW c \in Clients, Connect(s, c) PROVE subs' = subs
  BY <1>2 DEF Connect
<1>3. ASSUME NEW s \in Sessions, NEW t \in Topics,
             NEW kind \in {"subscribe", "unsubscribe", "publish"}, Request(s, t, kind)
      PROVE  subs' = subs
  BY <1>3 DEF Request
<1>4. ASSUME NEW c \in Clients, MarkInactive(c) \/ MonitorLookup(c) PROVE subs' = subs
  BY <1>4 DEF MarkInactive, MonitorLookup
<1>5. ASSUME NEW s \in Sessions, SendConnack(s) \/ Register(s) PROVE subs' = subs
  BY <1>5 DEF SendConnack, Register
<1>6. ASSUME NEW s \in Sessions, Publish(s) \/ PublishThrows(s) PROVE subs' = subs
  BY <1>6 DEF Publish, PublishThrows, Snapshot
<1>7. ASSUME NEW s \in Sessions, NEW r \in Sessions, SendTo(s, r) PROVE subs' = subs
  BY <1>7 DEF SendTo
<1>8. ASSUME NEW s \in Sessions, Puback(s) \/ ReadFails(s) \/ WriteFails(s) PROVE subs' = subs
  BY <1>8 DEF Puback, ReadFails, WriteFails
<1>9. ASSUME MonitorList \/ MonitorQuery \/ MonitorDisconnect \/ MonitorRearm
      PROVE  subs' = subs
  BY <1>9 DEF MonitorList, MonitorQuery, MonitorDisconnect, MonitorRearm
<1>10. CASE UNCHANGED vars
  BY <1>10 DEF vars
<1> QED
  BY <1>1, <1>2, <1>3, <1>4, <1>5, <1>6, <1>7, <1>8, <1>9, <1>10
     DEF Next, Environment, ReaderStep, MonitorStep

\* A removal of s empties the entries of s only, and only in its last phase.
LEMMA RemovalIsolated ==
    ASSUME TypeInv, NEW s \in Sessions, NEW phase, NEW next, RemovalStep(s, phase, next)
    PROVE  \/ subs' = subs
           \/ phase = "purge" /\ subs' = Without(s)
BY DEF RemovalStep

LEMMA IsolatedStep ==
    ASSUME TypeInv, RegInv, SessionsKeyedByClientId, [Next]_vars
    PROVE  LosesOnlyOwn
<1> SUFFICES ASSUME NEW s \in Sessions, NEW t \in Topics, subs[t][s] > 0, subs'[t][s] = 0
             PROVE  \/ reader[s] = "unsubscribe" /\ topic[s] = t
                    \/ reader[s] = "purge" \/ writer[s] = "purge"
                    \/ monitor = "purge" /\ victim = s
                    \/ \E n \in Sessions : reader[n] = "enter" /\ clientId[n] = clientId[s]
  BY DEF LosesOnlyOwn
<1>a. TypeOK /\ subs \in [Topics -> [Sessions -> Nat]]
  BY DEF TypeInv, TypeOK
<1>b. ASSUME NEW x, subs' = Without(x) PROVE x = s
  BY <1>a, <1>b, WithoutType
<1>1. ASSUME NEW n \in Sessions, Enter(n)
      PROVE  reader[n] = "enter" /\ clientId[n] = clientId[s]
  <2> DEFINE c == clientId[n]
  <2>1. c \in Clients
    <3>1. reader[n] = "enter" /\ clientId[n] \in Clients \cup {NoClient}
      BY <1>1 DEF Enter, TypeInv, TypeOK
    <3>2. clientId[n] # NoClient
      BY <3>1 DEF RegInv, LoginInv, Unidentified
    <3> QED
      BY <3>1, <3>2
  <2>2. subs' = Without(sessions[c]) /\ reader[n] = "enter"
    BY <1>1 DEF Enter
  <2>3. sessions[c] = s
    BY <2>2, <1>b
  <2> QED
    BY <2>1, <2>2, <2>3, BrokerAssumption DEF SessionsKeyedByClientId
<1>2. ASSUME NEW n \in Sessions, Subscribe(n) PROVE FALSE
  <2>1. subs' = [subs EXCEPT ![topic[n]][n] = IF @ = 0 THEN @ + 1 ELSE @]
    BY <1>2 DEF Subscribe
  <2> QED
    BY <1>a, <2>1
<1>3. ASSUME NEW n \in Sessions, Unsubscribe(n)
      PROVE  reader[s] = "unsubscribe" /\ topic[s] = t
  <2>1. subs' = [subs EXCEPT ![topic[n]][n] = 0] /\ reader[n] = "unsubscribe"
    BY <1>3 DEF Unsubscribe
  <2> QED
    BY <1>a, <2>1
<1>4. ASSUME NEW n \in Sessions, ReaderRemoves(n) PROVE reader[s] = "purge"
  BY <1>4, <1>b, RemovalIsolated DEF ReaderRemoves
<1>5. ASSUME NEW n \in Sessions, WriterRemoves(n) PROVE writer[s] = "purge"
  BY <1>5, <1>b, RemovalIsolated DEF WriterRemoves
<1>6. ASSUME MonitorRemoves PROVE monitor = "purge" /\ victim = s
  <2>1. victim \in Sessions
    BY <1>6 DEF MonitorRemoves, TypeInv, VictimKnown
  <2> QED
    BY <1>6, <2>1, <1>b, RemovalIsolated DEF MonitorRemoves
<1>7. subs' # subs
  OBVIOUS
<1> QED
  BY <1>1, <1>2, <1>3, <1>4, <1>5, <1>6, <1>7, SubsFrame

\* Without second CONNs, only its own UNSUB, its own removal or a successor
\* under the same client id takes a subscription away.
THEOREM Isolation == ~ReConnects /\ Spec => SubscriptionsIsolated
<1> SUFFICES ASSUME ~ReConnects PROVE Spec => SubscriptionsIsolated
  OBVIOUS
<1>1. TypeInv /\ RegInv /\ Keyed /\ [Next]_vars => LosesOnlyOwn
  BY IsolatedStep DEF Keyed
<1> QED
  BY <1>1, RegistryInvariant, PTL DEF Spec, SubscriptionsIsolated

-----------------------------------------------------------------------------
(* Publications                                                            *)

\* A session is at most once in a subscriber vector and in a copy of one.
NoDuplicates ==
    /\ \A t \in Topics, s \in Sessions : subs[t][s] <= 1
    /\ \A p, r \in Sessions : recips[p][r] <= 1

\* Outside the distribution loop nothing is owed, and the last publication is
\* acknowledged unless the publisher is dead: it cannot publish again.
Settled ==
    \A p \in Sessions :
        /\ reader[p] = "send" => acked[p] < seqno[p]
        /\ reader[p] \notin {"send", "crashed"} =>
              /\ \A r \in Sessions : recips[p][r] = 0
              /\ \/ acked[p] = seqno[p]
                 \/ sock[p] = "dead" /\ reader[p] \in RemovalState \cup {"reading", "ended"}

RouteInv == NoDuplicates /\ Settled

LEMMA RouteInit == Init => RouteInv
BY DEF Init, NoRecips, RouteInv, NoDuplicates, Settled

\* The copies of the subscriber vectors change in these actions only.
LEMMA RecipsFrame ==
    ASSUME [Next]_vars
    PROVE  \/ \E s \in Sessions : Snapshot(s) \/ \E r \in Sessions : SendTo(s, r)
           \/ recips' = recips
<1> USE DEF connVars, msgVars, wfVars, monVars, dbVars, regVars
<1>1. ASSUME NEW s \in Sessions, Accept(s) \/ Hangup(s) \/ ConnectEmpty(s)
      PROVE  recips' = recips
  BY <1>1 DEF Accept, Hangup, ConnectEmpty
<1>2. ASSUME NEW s \in Sessions, NEW c \in Clients, Connect(s, c) PROVE recips' = recips
  BY <1>2 DEF Connect
<1>3. ASSUME NEW s \in Sessions, NEW t \in Topics,
             NEW kind \in {"subscribe", "unsubscribe", "publish"}, Request(s, t, kind)
      PROVE  recips' = recips
  BY <1>3 DEF Request
<1>4. ASSUME NEW c \in Clients, MarkInactive(c) \/ MonitorLookup(c) PROVE recips' = recips
  BY <1>4 DEF MarkInactive, MonitorLookup
<1>5. ASSUME NEW s \in Sessions, SendConnack(s) \/ Register(s) \/ Enter(s)
      PROVE  recips' = recips
  BY <1>5 DEF SendConnack, Register, Enter
<1>6. ASSUME NEW s \in Sessions, Publish(s) \/ PublishThrows(s) PROVE Snapshot(s)
  BY <1>6 DEF Publish, PublishThrows
<1>7. ASSUME NEW s \in Sessions, Subscribe(s) \/ Unsubscribe(s) \/ Puback(s)
      PROVE  recips' = recips
  BY <1>7 DEF Subscribe, Unsubscribe, Puback
<1>8. ASSUME NEW s \in Sessions,
             ReadFails(s) \/ WriteFails(s) \/ ReaderRemoves(s) \/ WriterRemoves(s)
      PROVE  recips' = recips
  BY <1>8 DEF ReadFails, WriteFails, ReaderRemoves, WriterRemoves
<1>9. ASSUME MonitorList \/ MonitorQuery \/ MonitorDisconnect \/ MonitorRemoves \/ MonitorRearm
      PROVE  recips' = recips
  BY <1>9 DEF MonitorList, MonitorQuery, MonitorDisconnect, MonitorRemoves, MonitorRearm
<1>10. CASE UNCHANGED vars
  BY <1>10 DEF vars
<1> QED
  BY <1>1, <1>2, <1>3, <1>4, <1>5, <1>6, <1>7, <1>8, <1>9, <1>10
     DEF Next, Environment, ReaderStep, MonitorStep

\* What the one action does to the copy of its publisher.
LEMMA SnapshotEffect ==
    ASSUME TypeInv, NEW s \in Sessions, Snapshot(s)
    PROVE  /\ topic[s] \in Topics
           /\ \A r \in Sessions : recips'[s][r] = subs[topic[s]][r]
           /\ \A p \in Sessions \ {s} : recips'[p] = recips[p] /\ seqno'[p] = seqno[p]
           /\ seqno'[s] = seqno[s] + 1
<1>1. topic[s] \in Topics
  BY DEF Snapshot, TypeInv, TopicKnown
<1>2. recips' = [recips EXCEPT ![s] = subs[topic[s]]] /\ seqno' = [seqno EXCEPT ![s] = @ + 1]
  BY DEF Snapshot
<1>3. recips \in [Sessions -> [Sessions -> Nat]] /\ seqno \in [Sessions -> Nat]
  BY DEF TypeInv, TypeOK
<1> QED
  BY <1>1, <1>2, <1>3

LEMMA SendToEffect ==
    ASSUME TypeInv, NEW s \in Sessions, NEW r \in Sessions, SendTo(s, r)
    PROVE  /\ recips[s][r] > 0 /\ recips'[s][r] = recips[s][r] - 1
           /\ \A q \in Sessions \ {r} : recips'[s][q] = recips[s][q]
           /\ \A p \in Sessions \ {s} : recips'[p] = recips[p]
<1>1. recips[s][r] > 0 /\ recips' = [recips EXCEPT ![s][r] = @ - 1]
  BY DEF SendTo
<1>2. recips \in [Sessions -> [Sessions -> Nat]]
  BY DEF TypeInv, TypeOK
<1> QED
  BY <1>1, <1>2

\* What the actions do to the subscriber table.
LEMMA SubsEffect ==
    ASSUME TypeInv, NEW s \in Sessions
    PROVE  /\ Subscribe(s) =>
                 /\ topic[s] \in Topics
                 /\ \A t \in Topics, r \in Sessions :
                       subs'[t][r] = IF t = topic[s] /\ r = s /\ subs[t][r] = 0
                                       THEN 1 ELSE subs[t][r]
           /\ Unsubscribe(s) =>
                 /\ topic[s] \in Topics
                 /\ \A t \in Topics, r \in Sessions :
                       subs'[t][r] = IF t = topic[s] /\ r = s THEN 0 ELSE subs[t][r]
<1>1. subs \in [Topics -> [Sessions -> Nat]]
  BY DEF TypeInv, TypeOK
<1>2. Subscribe(s) \/ Unsubscribe(s) => topic[s] \in Topics
  BY DEF Subscribe, Unsubscribe, TypeInv, TopicKnown
<1>3. Subscribe(s) => subs' = [subs EXCEPT ![topic[s]][s] = IF @ = 0 THEN @ + 1 ELSE @]
  BY DEF Subscribe
<1>4. Unsubscribe(s) => subs' = [subs EXCEPT ![topic[s]][s] = 0]
  BY DEF Unsubscribe
<1> QED
  BY <1>1, <1>2, <1>3, <1>4

\* Everybody else who touches the table takes a whole session out of it.
TakesOut(o) == \A t \in Topics, r \in Sessions : subs'[t][r] = IF r = o THEN 0 ELSE subs[t][r]

LEMMA TakesOutOne ==
    ASSUME TypeInv, RegInv,
           \/ MonitorRemoves
           \/ \E s \in Sessions : Enter(s) \/ ReaderRemoves(s) \/ WriterRemoves(s)
    PROVE  subs' = subs \/ \E o \in Sessions : TakesOut(o)
<1>1. TypeOK
  BY DEF TypeInv
<1>2. ASSUME NEW o \in Sessions, subs' = Without(o) PROVE TakesOut(o)
  BY <1>1, <1>2, WithoutType DEF TakesOut
<1>3. ASSUME NEW s \in Sessions, Enter(s), subs' # subs
      PROVE  \E o \in Sessions : TakesOut(o)
  <2>1. /\ reader[s] = "enter"
        /\ sessions[clientId[s]] # NoSession /\ subs' = Without(sessions[clientId[s]])
    BY <1>3 DEF Enter
  <2>2. clientId[s] # NoClient
    BY <2>1 DEF RegInv, LoginInv, Unidentified
  <2>3. sessions[clientId[s]] \in Sessions
    BY <1>1, <2>1, <2>2 DEF TypeOK
  <2> QED
    BY <1>2, <2>1, <2>3
<1>4. ASSUME NEW s \in Sessions, ReaderRemoves(s) \/ WriterRemoves(s), subs' # subs
      PROVE  \E o \in Sessions : TakesOut(o)
  BY <1>2, <1>4, RemovalIsolated DEF ReaderRemoves, WriterRemoves
<1>5. ASSUME MonitorRemoves, subs' # subs PROVE \E o \in Sessions : TakesOut(o)
  <2>1. victim \in Sessions
    BY <1>5 DEF MonitorRemoves, TypeInv, VictimKnown
  <2> QED
    BY <1>2, <1>5, <2>1, RemovalIsolated DEF MonitorRemoves
<1> QED
  BY <1>3, <1>4, <1>5

LEMMA NoDuplicatesStep ==
    ASSUME TypeInv, RegInv, NoDuplicates, [Next]_vars
    PROVE  NoDuplicates'
<1>a. /\ subs \in [Topics -> [Sessions -> Nat]]
      /\ recips \in [Sessions -> [Sessions -> Nat]]
  BY DEF TypeInv, TypeOK
<1>1. \A t \in Topics, r \in Sessions : subs'[t][r] <= 1
  <2>1. ASSUME NEW s \in Sessions, Subscribe(s) \/ Unsubscribe(s), NEW t \in Topics, NEW r \in Sessions
        PROVE  subs'[t][r] <= 1
    BY <1>a, <2>1, SubsEffect DEF NoDuplicates
  <2>2. ASSUME NEW o \in Sessions, TakesOut(o), NEW t \in Topics, NEW r \in Sessions
        PROVE  subs'[t][r] <= 1
    BY <1>a, <2>2 DEF NoDuplicates, TakesOut
  <2>3. CASE subs' = subs
    BY <2>3 DEF NoDuplicates
  <2> QED
    BY <2>1, <2>2, <2>3, TakesOutOne, SubsFrame
<1>2. \A p, r \in Sessions : recips'[p][r] <= 1
  <2>1. ASSUME NEW s \in Sessions, Snapshot(s), NEW p \in Sessions, NEW r \in Sessions
        PROVE  recips'[p][r] <= 1
    BY <2>1, SnapshotEffect DEF NoDuplicates
  <2>2. ASSUME NEW s \in Sessions, NEW q \in Sessions, SendTo(s, q),
               NEW p \in Sessions, NEW r \in Sessions
        PROVE  recips'[p][r] <= 1
    BY <1>a, <2>2, SendToEffect DEF NoDuplicates
  <2>3. CASE recips' = recips
    BY <2>3 DEF NoDuplicates
  <2> QED
    BY <2>1, <2>2, <2>3, RecipsFrame
<1> QED
  BY <1>1, <1>2 DEF NoDuplicates

LEMMA SettledStep ==
    ASSUME TypeInv, RegInv, Settled, [Next]_vars
    PROVE  Settled'
<1>a. /\ sock \in [Sessions -> {"none", "open", "dead"}]
      /\ reader \in [Sessions -> ReaderState]
      /\ seqno \in [Sessions -> Nat] /\ acked \in [Sessions -> Nat]
  BY DEF TypeInv, TypeOK
<1> USE DEF Settled, RemovalState, ReaderRest, ReaderState, Go,
            connVars, msgVars, wfVars, monVars, dbVars, regVars
<1>1. ASSUME NEW s \in Sessions, Accept(s) PROVE Settled'
  BY <1>a, <1>1 DEF Accept
<1>2. ASSUME NEW s \in Sessions, Hangup(s) \/ ConnectEmpty(s) PROVE Settled'
  BY <1>a, <1>2 DEF Hangup, ConnectEmpty
<1>3. ASSUME NEW s \in Sessions, NEW c \in Clients, Connect(s, c) PROVE Settled'
  BY <1>a, <1>3 DEF Connect, Receives
<1>4. ASSUME NEW s \in Sessions, NEW t \in Topics,
             NEW kind \in {"subscribe", "unsubscribe", "publish"}, Request(s, t, kind)
      PROVE  Settled'
  BY <1>a, <1>4 DEF Request, Receives
<1>5. ASSUME NEW c \in Clients, MarkInactive(c) \/ MonitorLookup(c) PROVE Settled'
  BY <1>5 DEF MarkInactive, MonitorLookup
<1>6. ASSUME NEW s \in Sessions, SendConnack(s) \/ Register(s) \/ Enter(s) PROVE Settled'
  BY <1>a, <1>6 DEF SendConnack, Register, Enter
<1>7. ASSUME NEW s \in Sessions, Subscribe(s) \/ Unsubscribe(s) PROVE Settled'
  BY <1>a, <1>7 DEF Subscribe, Unsubscribe, AckAndRead
<1>8. ASSUME NEW s \in Sessions, Publish(s) \/ PublishThrows(s) PROVE Settled'
  <2>1. /\ Snapshot(s) /\ acked' = acked /\ sock' = sock /\ reader[s] = "publish"
        /\ \A p \in Sessions \ {s} : reader'[p] = reader[p]
        /\ reader'[s] \in {"send", "crashed"}
    BY <1>a, <1>8 DEF Publish, PublishThrows, Snapshot
  <2>2. /\ \A p \in Sessions \ {s} : recips'[p] = recips[p] /\ seqno'[p] = seqno[p]
        /\ seqno'[s] = seqno[s] + 1
    BY <2>1, SnapshotEffect
  <2> QED
    BY <1>a, <2>1, <2>2
<1>9. ASSUME NEW s \in Sessions, NEW r \in Sessions, SendTo(s, r) PROVE Settled'
  <2>1. \A p \in Sessions \ {s} : recips'[p] = recips[p]
    BY <1>9, SendToEffect
  <2> QED
    BY <1>9, <2>1 DEF SendTo
<1>10. ASSUME NEW s \in Sessions, Puback(s) PROVE Settled'
  <2>1. sock[s] # "none"
    BY <1>10 DEF Puback, RegInv, LoginInv, Unborn
  <2> QED
    BY <1>a, <1>10, <2>1 DEF Puback, AckAndRead
<1>11. ASSUME NEW s \in Sessions, ReadFails(s) PROVE Settled'
  BY <1>a, <1>11 DEF ReadFails
<1>12. ASSUME NEW s \in Sessions, ReaderRemoves(s) PROVE Settled'
  BY <1>a, <1>12 DEF ReaderRemoves
<1>13. ASSUME NEW s \in Sessions, WriteFails(s) \/ WriterRemoves(s) PROVE Settled'
  BY <1>13 DEF WriteFails, WriterRemoves
<1>14. ASSUME MonitorList \/ MonitorQuery \/ MonitorRemoves \/ MonitorRearm PROVE Settled'
  BY <1>14 DEF MonitorList, MonitorQuery, MonitorRemoves, MonitorRearm
<1>15. CASE MonitorDisconnect
  BY <1>a, <1>15 DEF MonitorDisconnect
<1>16. CASE UNCHANGED vars
  BY <1>16 DEF vars
<1> HIDE DEF Settled, Go
<1> QED
  BY <1>1, <1>2, <1>3, <1>4, <1>5, <1>6, <1>7, <1>8, <1>9, <1>10, <1>11, <1>12,
     <1>13, <1>14, <1>15, <1>16
     DEF Next, Environment, ReaderStep, MonitorStep

LEMMA RouteInvariant == Spec => [](TypeInv /\ RegInv /\ RouteInv)
<1>1. TypeInv /\ RegInv /\ RouteInv /\ [Next]_vars => RouteInv'
  BY NoDuplicatesStep, SettledStep DEF RouteInv
<1> QED
  BY <1>1, TypeInit, TypeStep, RegInit, RegStep, RouteInit, PTL DEF Spec

-----------------------------------------------------------------------------
(* A publication that throws                                               *)

\* Entries of an outbox name publications that were routed, and none of them
\* the last one of a publisher whose handler ended in the exception.
ThrownInv ==
    /\ \A p, r \in Sessions : \A i \in 1..Len(outbox[r]) :
          outbox[r][i].from = p => outbox[r][i].n <= seqno[p]
    /\ ThrownReachesNobody

\* Whoever neither publishes nor brings a publisher to the exception.
LEMMA ThrownKept ==
    ASSUME ThrownInv, UNCHANGED <<seqno, acked, outbox>>,
           \A p \in Sessions : reader'[p] = "crashed" => reader[p] = "crashed"
    PROVE  ThrownInv'
BY DEF ThrownInv, ThrownReachesNobody

LEMMA EntryOf ==
    ASSUME NEW S, NEW q \in Seq(S), NEW i \in 1..Len(q)
    PROVE  q[i] \in S
OBVIOUS

\* A publication is numbered beyond every earlier message of its publisher.
LEMMA ThrownRouted ==
    ASSUME TypeInv, RouteInv, ThrownInv, NEW s \in Sessions, Publish(s) \/ PublishThrows(s)
    PROVE  ThrownInv'
<1>a. /\ \A p \in Sessions : seqno[p] \in Nat
      /\ reader \in [Sessions -> ReaderState]
  BY DEF TypeInv, TypeOK
<1>b. \A r \in Sessions : outbox[r] \in Seq([from : Sessions, n : Nat])
  <2>1. outbox \in [Sessions -> Seq([from : Sessions, n : Nat])]
    BY DEF TypeInv, TypeOK
  <2> QED
    BY <2>1
<1>1. /\ reader[s] = "publish" /\ UNCHANGED <<acked, outbox>>
      /\ \A p \in Sessions \ {s} : reader'[p] = reader[p]
  BY <1>a DEF Publish, PublishThrows, Snapshot, Go
<1>2. seqno'[s] = seqno[s] + 1 /\ \A p \in Sessions \ {s} : seqno'[p] = seqno[p]
  BY SnapshotEffect DEF Publish, PublishThrows
<1>3. acked[s] = seqno[s]
  BY <1>1 DEF RouteInv, Settled, RemovalState
<1>4. ASSUME NEW p \in Sessions, NEW r \in Sessions, NEW i \in 1..Len(outbox[r]),
             outbox[r][i].from = p
      PROVE  outbox[r][i].n <= seqno'[p] /\ (p = s => outbox[r][i].n < seqno'[p])
  <2>1. outbox[r][i] \in [from : Sessions, n : Nat]
    BY <1>b, EntryOf
  <2>2. outbox[r][i].n <= seqno[p] /\ seqno[p] \in Nat /\ outbox[r][i].n \in Nat
    BY <1>4, <1>a, <2>1 DEF ThrownInv
  <2>3. CASE p = s
    BY <1>2, <2>1, <2>2, <2>3
  <2>4. CASE p # s
    BY <1>2, <2>1, <2>2, <2>4
  <2> QED
    BY <2>3, <2>4
<1>5. ASSUME NEW p \in Sessions, reader'[p] = "crashed"
      PROVE  /\ acked[p] < seqno'[p]
             /\ \A r \in Sessions : \A i \in 1..Len(outbox[r]) :
                   outbox[r][i] # [from |-> p, n |-> seqno'[p]]
  <2>1. CASE p = s
    <3>1. acked[s] < seqno'[s]
      BY <1>a, <1>2, <1>3
    <3>2. ASSUME NEW r \in Sessions, NEW i \in 1..Len(outbox[r]),
                 outbox[r][i] = [from |-> s, n |-> seqno'[s]]
          PROVE  FALSE
      <4>1. outbox[r][i].from = s /\ outbox[r][i].n = seqno'[s]
        BY <3>2
      <4>2. seqno[s] \in Nat /\ seqno'[s] = seqno[s] + 1
        BY <1>a, <1>2
      <4> QED
        BY <1>4, <4>1, <4>2
    <3> QED
      BY <2>1, <3>1, <3>2
  <2>2. CASE p # s
    BY <1>1, <1>2, <1>5, <2>2 DEF ThrownInv, ThrownReachesNobody
  <2> QED
    BY <2>1, <2>2
<1> QED
  BY <1>1, <1>4, <1>5 DEF ThrownInv, ThrownReachesNobody

\* The distribution loop writes messages of its own publisher, which is in it.
LEMMA ThrownSent ==
    ASSUME TypeInv, ThrownInv, NEW s \in Sessions, NEW q \in Sessions, SendTo(s, q)
    PROVE  ThrownInv'
<1>a. /\ seqno \in [Sessions -> Nat]
      /\ outbox \in [Sessions -> Seq([from : Sessions, n : Nat])]
  BY DEF TypeInv, TypeOK
<1>1. reader[s] = "send" /\ UNCHANGED <<reader, seqno, acked>>
  BY DEF SendTo, connVars
<1>2. CASE outbox' = outbox
  BY <1>1, <1>2, ThrownKept
<1>3. CASE outbox' = [outbox EXCEPT ![q] = Append(@, [from |-> s, n |-> seqno[s]])]
  <2>1. ASSUME NEW r \in Sessions, NEW i \in 1..Len(outbox'[r])
        PROVE  \/ i \in 1..Len(outbox[r]) /\ outbox'[r][i] = outbox[r][i]
               \/ outbox'[r][i] = [from |-> s, n |-> seqno[s]]
    <3>1. CASE r = q
      <4>1. outbox[q] \in Seq([from : Sessions, n : Nat])
        BY <1>a
      <4>2. outbox'[q] = Append(outbox[q], [from |-> s, n |-> seqno[s]])
        BY <1>a, <1>3
      <4> QED
        BY <3>1, <4>1, <4>2
    <3>2. CASE r # q
      BY <1>a, <1>3, <2>1, <3>2
    <3> QED
      BY <3>1, <3>2
  <2>2. ASSUME NEW p \in Sessions, NEW r \in Sessions, NEW i \in 1..Len(outbox'[r]),
               outbox'[r][i].from = p
        PROVE  outbox'[r][i].n <= seqno[p]
    <3>1. CASE outbox'[r][i] = [from |-> s, n |-> seqno[s]]
      <4>1. p = s /\ outbox'[r][i].n = seqno[s]
        BY <2>2, <3>1
      <4> QED
        BY <1>a, <4>1
    <3>2. CASE i \in 1..Len(outbox[r]) /\ outbox'[r][i] = outbox[r][i]
      BY <2>2, <3>2 DEF ThrownInv
    <3> QED
      BY <2>1, <3>1, <3>2
  <2>3. ASSUME NEW p \in Sessions, reader[p] = "crashed",
               NEW r \in Sessions, NEW i \in 1..Len(outbox'[r])
        PROVE  outbox'[r][i] # [from |-> p, n |-> seqno[p]]
    <3>1. p # s
      BY <1>1, <2>3
    <3>2. [from |-> s, n |-> seqno[s]] # [from |-> p, n |-> seqno[p]]
      BY <3>1
    <3> QED
      BY <2>1, <2>3, <3>2 DEF ThrownInv, ThrownReachesNobody
  <2> QED
    BY <1>1, <2>2, <2>3 DEF ThrownInv, ThrownReachesNobody
<1> QED
  BY <1>2, <1>3 DEF SendTo

\* An acknowledgement concerns a publisher that is in its loop.
LEMMA ThrownAcked ==
    ASSUME TypeInv, ThrownInv, NEW s \in Sessions, Puback(s)
    PROVE  ThrownInv'
<1>a. reader \in [Sessions -> ReaderState] /\ acked \in [Sessions -> Nat]
  BY DEF TypeInv, TypeOK
<1>1. /\ reader[s] = "send" /\ reader'[s] = "reading" /\ UNCHANGED <<seqno, outbox>>
      /\ \A p \in Sessions \ {s} : reader'[p] = reader[p] /\ acked'[p] = acked[p]
  BY <1>a DEF Puback, AckAndRead, Go
<1> QED
  BY <1>1 DEF ThrownInv, ThrownReachesNobody

LEMMA ThrownStep ==
    ASSUME TypeInv, RouteInv, ThrownInv, [Next]_vars
    PROVE  ThrownInv'
<1> DEFINE Kept == /\ UNCHANGED <<seqno, acked, outbox>>
                   /\ \A p \in Sessions : reader'[p] = "crashed" => reader[p] = "crashed"
<1>a. reader \in [Sessions -> ReaderState]
  BY DEF TypeInv, TypeOK
<1> USE DEF RemovalState, Go, connVars, msgVars, wfVars, monVars, dbVars, regVars
<1>1. ASSUME NEW s \in Sessions, Accept(s) \/ Hangup(s) \/ ConnectEmpty(s) PROVE Kept
  BY <1>a, <1>1 DEF Accept, Hangup, ConnectEmpty
<1>2. ASSUME NEW s \in Sessions, NEW c \in Clients, Connect(s, c) PROVE Kept
  BY <1>a, <1>2 DEF Connect
<1>3. ASSUME NEW s \in Sessions, NEW t \in Topics,
             NEW kind \in {"subscribe", "unsubscribe", "publish"}, Request(s, t, kind)
      PROVE  Kept
  BY <1>a, <1>3 DEF Request
<1>4. ASSUME NEW c \in Clients, MarkInactive(c) \/ MonitorLookup(c) PROVE Kept
  BY <1>4 DEF MarkInactive, MonitorLookup
<1>5. ASSUME NEW s \in Sessions, SendConnack(s) \/ Register(s) \/ Enter(s) PROVE Kept
  BY <1>a, <1>5 DEF SendConnack, Register, Enter
<1>6. ASSUME NEW s \in Sessions, Subscribe(s) \/ Unsubscribe(s) PROVE Kept
  BY <1>a, <1>6 DEF Subscribe, Unsubscribe, AckAndRead
<1>7. ASSUME NEW s \in Sessions, ReadFails(s) \/ ReaderRemoves(s) PROVE Kept
  BY <1>a, <1>7 DEF ReadFails, ReaderRemoves
<1>8. ASSUME NEW s \in Sessions, WriteFails(s) \/ WriterRemoves(s) PROVE Kept
  BY <1>8 DEF WriteFails, WriterRemoves
<1>9. ASSUME MonitorList \/ MonitorQuery \/ MonitorDisconnect \/ MonitorRemoves \/ MonitorRearm
      PROVE  Kept
  BY <1>9 DEF MonitorList, MonitorQuery, MonitorDisconnect, MonitorRemoves, MonitorRearm
<1>10. ASSUME UNCHANGED vars PROVE Kept
  BY <1>10 DEF vars
<1>11. Kept => ThrownInv'
  BY ThrownKept
<1> HIDE DEF Kept, Go
<1> QED
  BY <1>1, <1>2, <1>3, <1>4, <1>5, <1>6, <1>7, <1>8, <1>9, <1>10, <1>11,
     ThrownRouted, ThrownSent, ThrownAcked
     DEF Next, Environment, ReaderStep, MonitorStep

\* A publication whose packet cannot be written as JSON reaches no subscriber
\* and is never acknowledged, however the loops of other publishers interleave.
THEOREM ThrownReachNobody == Spec => []ThrownReachesNobody
<1>1. Init => ThrownInv
  BY DEF Init, ThrownInv, ThrownReachesNobody
<1>2. TypeInv /\ RouteInv /\ ThrownInv /\ [Next]_vars => ThrownInv'
  BY ThrownStep
<1>3. ThrownInv => ThrownReachesNobody
  BY DEF ThrownInv
<1> QED
  BY <1>1, <1>2, <1>3, RouteInvariant, PTL DEF Spec

-----------------------------------------------------------------------------
(* The refinement: what each kind of step is in module PubSub              *)

Subscribed == [t \in Topics |-> {r \in Sessions : subs[t][r] > 0}]
Todo == [p \in Sessions |-> {r \in Sessions : recips[p][r] > 0}]

LEMMA MappedInit == Init => PS!AbsInit
BY DEF Init, NoRecips, PS!AbsInit

LEMMA MappedUnchanged ==
    /\ subs' = subs => Subscribed' = Subscribed
    /\ recips' = recips => Todo' = Todo
BY DEF Subscribed, Todo

LEMMA MappedJoin ==
    ASSUME TypeInv, NEW s \in Sessions, NEW t \in Topics, t = topic[s], Subscribe(s)
    PROVE  PS!Join(s, t)
<1>a. subs \in [Topics -> [Sessions -> Nat]]
  BY DEF TypeInv, TypeOK
<1>1. \A u \in Topics, r \in Sessions :
          subs'[u][r] = IF u = t /\ r = s /\ subs[u][r] = 0 THEN 1 ELSE subs[u][r]
  BY SubsEffect
<1>2. Subscribed' = [Subscribed EXCEPT ![t] = @ \cup {s}]
  <2>1. \A u \in Topics : Subscribed'[u] = IF u = t THEN Subscribed[u] \cup {s}
                                                    ELSE Subscribed[u]
    BY <1>a, <1>1 DEF Subscribed
  <2>2. /\ Subscribed = [u \in Topics |-> Subscribed[u]]
        /\ Subscribed' = [u \in Topics |-> Subscribed'[u]]
    BY DEF Subscribed
  <2> HIDE DEF Subscribed
  <2> QED
    BY <1>1, <2>1, <2>2
<1>3. UNCHANGED <<sock, seqno, acked, outbox>> /\ Todo' = Todo
  BY MappedUnchanged DEF Subscribe, AckAndRead, msgVars
<1> QED
  BY <1>1, <1>2, <1>3 DEF PS!Join, Subscribed, Todo

LEMMA MappedLeave ==
    ASSUME NEW s \in Sessions, UNCHANGED <<sock, seqno, acked, outbox, recips>>,
           \/ TakesOut(s)
           \/ /\ topic[s] \in Topics
              /\ \A t \in Topics, r \in Sessions :
                    subs'[t][r] = IF t = topic[s] /\ r = s THEN 0 ELSE subs[t][r]
    PROVE  PS!Leave(s)
<1> DEFINE T == IF TakesOut(s) THEN Topics ELSE {topic[s]}
<1>1. T \in SUBSET Topics
  OBVIOUS
<1>2. Subscribed' = [t \in Topics |-> IF t \in T THEN Subscribed[t] \ {s} ELSE Subscribed[t]]
  BY DEF Subscribed, TakesOut
<1>3. Todo' = Todo
  BY MappedUnchanged
<1> QED
  BY <1>1, <1>2, <1>3 DEF PS!Leave, Subscribed, Todo

LEMMA MappedRoute ==
    ASSUME TypeInv, RouteInv, NEW s \in Sessions, NEW t \in Topics, t = topic[s],
           Snapshot(s)
    PROVE  PS!Route(s, t)
<1>a. seqno \in [Sessions -> Nat] /\ reader[s] = "publish"
  BY DEF TypeInv, TypeOK, Snapshot
<1>1. /\ \A r \in Sessions : recips'[s][r] = subs[t][r]
      /\ \A p \in Sessions \ {s} : recips'[p] = recips[p]
  BY SnapshotEffect
<1>2. Todo[s] = {} /\ acked[s] = seqno[s]
  BY <1>a DEF RouteInv, Settled, Todo, RemovalState
<1>3. Todo' = [Todo EXCEPT ![s] = Subscribed[t]]
  <2>1. /\ Todo'[s] = Subscribed[t]
        /\ \A p \in Sessions \ {s} : Todo'[p] = Todo[p]
    BY <1>1 DEF Todo, Subscribed
  <2>2. /\ Todo = [p \in Sessions |-> Todo[p]]
        /\ Todo' = [p \in Sessions |-> Todo'[p]]
    BY DEF Todo
  <2> HIDE DEF Todo, Subscribed
  <2> QED
    BY <2>1, <2>2
<1>4. /\ seqno' = [seqno EXCEPT ![s] = @ + 1]
      /\ UNCHANGED <<sock, acked, outbox, subs>>
  BY DEF Snapshot, regVars
<1>5. Subscribed' = Subscribed
  BY <1>4, MappedUnchanged
<1> QED
  BY <1>1, <1>2, <1>3, <1>4, <1>5 DEF PS!Route, Subscribed, Todo

LEMMA MappedDeliver ==
    ASSUME TypeInv, RouteInv, NEW s \in Sessions, NEW r \in Sessions, SendTo(s, r)
    PROVE  PS!Deliver(s, r) \/ PS!Lose(s, r)
<1>a. recips \in [Sessions -> [Sessions -> Nat]]
  BY DEF TypeInv, TypeOK
<1>1. /\ recips[s][r] > 0 /\ recips'[s][r] = recips[s][r] - 1
      /\ \A q \in Sessions \ {r} : recips'[s][q] = recips[s][q]
      /\ \A p \in Sessions \ {s} : recips'[p] = recips[p]
  BY SendToEffect
<1>2. recips'[s][r] = 0
  BY <1>a, <1>1 DEF RouteInv, NoDuplicates
<1>3. r \in Todo[s] /\ Todo' = [Todo EXCEPT ![s] = @ \ {r}]
  <2>1. /\ r \in Todo[s] /\ Todo'[s] = Todo[s] \ {r}
        /\ \A p \in Sessions \ {s} : Todo'[p] = Todo[p]
    BY <1>1, <1>2 DEF Todo
  <2>2. /\ Todo = [p \in Sessions |-> Todo[p]]
        /\ Todo' = [p \in Sessions |-> Todo'[p]]
    BY DEF Todo
  <2> HIDE DEF Todo
  <2> QED
    BY <2>1, <2>2
<1>4. /\ UNCHANGED <<sock, seqno, acked, subs>>
      /\ \/ /\ sock[r] = "open"
            /\ outbox' = [outbox EXCEPT ![r] = Append(@, [from |-> s, n |-> seqno[s]])]
         \/ sock[r] # "open" /\ outbox' = outbox
  BY DEF SendTo, WriteToDead, connVars, regVars
<1>5. Subscribed' = Subscribed
  BY <1>4, MappedUnchanged
<1> QED
  BY <1>3, <1>4, <1>5 DEF PS!Deliver, PS!Lose, Subscribed, Todo

LEMMA MappedPuback ==
    ASSUME TypeInv, RouteInv, NEW s \in Sessions, Puback(s)
    PROVE  PS!Acknowledge(s) \/ UNCHANGED PS!absVars
<1>1. Todo[s] = {} /\ acked[s] < seqno[s]
  BY DEF Puback, Todo, RouteInv, Settled
<1>2. UNCHANGED <<sock, seqno, outbox>> /\ Subscribed' = Subscribed /\ Todo' = Todo
  BY MappedUnchanged DEF Puback, AckAndRead, regVars
<1>3. acked' = [acked EXCEPT ![s] = seqno[s]] \/ acked' = acked
  BY DEF Puback
<1> QED
  BY <1>1, <1>2, <1>3 DEF PS!Acknowledge, PS!absVars, Subscribed, Todo

LEMMA MappedLive ==
    ASSUME NEW s \in Sessions, UNCHANGED <<subs, recips, seqno, acked, outbox>>,
           \/ sock[s] = "none" /\ sock' = [sock EXCEPT ![s] = "open"]
           \/ sock[s] = "open" /\ sock' = [sock EXCEPT ![s] = "dead"]
    PROVE  PS!Live(s)
BY MappedUnchanged DEF PS!Live, Subscribed, Todo

LEMMA MappedStutter ==
    ASSUME UNCHANGED <<sock, subs, recips, seqno, acked, outbox>>
    PROVE  UNCHANGED PS!absVars
BY MappedUnchanged DEF PS!absVars, Subscribed, Todo

LEMMA MappedStep ==
    ASSUME TypeInv, RegInv, RouteInv, [Next]_vars
    PROVE  [PS!AbsNext]_(PS!absVars)
<1> DEFINE Mapped == [PS!AbsNext]_(PS!absVars)
<1>a. sock \in [Sessions -> {"none", "open", "dead"}]
  BY DEF TypeInv, TypeOK
<1>b. ASSUME UNCHANGED <<sock, subs, recips, seqno, acked, outbox>> PROVE Mapped
  BY <1>b, MappedStutter
<1>c. ASSUME NEW s \in Sessions, PS!Live(s) \/ PS!Leave(s) \/ PS!Acknowledge(s) PROVE Mapped
  BY <1>c DEF PS!AbsNext
<1>d. ASSUME NEW s \in Sessions, NEW t \in Topics, PS!Join(s, t) \/ PS!Route(s, t) PROVE Mapped
  BY <1>d DEF PS!AbsNext
<1>e. ASSUME UNCHANGED <<sock, recips, seqno, acked, outbox>>,
             subs' = subs \/ \E o \in Sessions : TakesOut(o)
      PROVE  Mapped
  BY <1>b, <1>c, <1>e, MappedLeave
<1> USE DEF connVars, msgVars, wfVars, monVars, dbVars, regVars
<1>1. ASSUME NEW s \in Sessions, Accept(s) PROVE Mapped
  <2>1. sock[s] = "none"
    BY <1>1 DEF Accept, RegInv, LoginInv, Unborn
  <2> QED
    BY <1>1, <2>1, <1>c, MappedLive DEF Accept
<1>2. ASSUME NEW s \in Sessions, Hangup(s) \/ ConnectEmpty(s) PROVE Mapped
  BY <1>2, <1>c, MappedLive DEF Hangup, ConnectEmpty, Receives
<1>3. ASSUME NEW s \in Sessions, NEW c \in Clients, Connect(s, c) PROVE Mapped
  BY <1>3, <1>b DEF Connect
<1>4. ASSUME NEW s \in Sessions, NEW t \in Topics,
             NEW kind \in {"subscribe", "unsubscribe", "publish"}, Request(s, t, kind)
      PROVE  Mapped
  BY <1>4, <1>b DEF Request
<1>5. ASSUME NEW c \in Clients, MarkInactive(c) \/ MonitorLookup(c) PROVE Mapped
  BY <1>5, <1>b DEF MarkInactive, MonitorLookup
<1>6. ASSUME NEW s \in Sessions, SendConnack(s) \/ Register(s) PROVE Mapped
  BY <1>6, <1>b DEF SendConnack, Register
<1>7. ASSUME NEW s \in Sessions, Enter(s) \/ ReaderRemoves(s) \/ WriterRemoves(s) PROVE Mapped
  <2>1. UNCHANGED <<sock, recips, seqno, acked, outbox>>
    BY <1>7 DEF Enter, ReaderRemoves, WriterRemoves
  <2> QED
    BY <1>7, <2>1, <1>e, TakesOutOne
<1>8. CASE MonitorRemoves
  <2>1. UNCHANGED <<sock, recips, seqno, acked, outbox>>
    BY <1>8 DEF MonitorRemoves
  <2> QED
    BY <1>8, <2>1, <1>e, TakesOutOne
<1>9. ASSUME NEW s \in Sessions, Subscribe(s) PROVE Mapped
  <2>1. PICK t \in Topics : t = topic[s]
    BY <1>9, SubsEffect
  <2>2. PS!Join(s, t)
    BY <1>9, <2>1, MappedJoin
  <2> HIDE DEF Mapped
  <2> QED
    BY <2>2, <1>d
<1>10. ASSUME NEW s \in Sessions, Unsubscribe(s) PROVE Mapped
  <2>1. UNCHANGED <<sock, recips, seqno, acked, outbox>>
    BY <1>10 DEF Unsubscribe, AckAndRead
  <2> QED
    BY <1>10, <2>1, <1>c, SubsEffect, MappedLeave
<1>11. ASSUME NEW s \in Sessions, Publish(s) \/ PublishThrows(s) PROVE Mapped
  <2>1. PICK t \in Topics : t = topic[s]
    BY <1>11, SnapshotEffect DEF Publish, PublishThrows
  <2>2. PS!Route(s, t)
    BY <1>11, <2>1, MappedRoute DEF Publish, PublishThrows
  <2> HIDE DEF Mapped
  <2> QED
    BY <2>2, <1>d
<1>12. ASSUME NEW s \in Sessions, NEW r \in Sessions, SendTo(s, r) PROVE Mapped
  BY <1>12, MappedDeliver DEF PS!AbsNext
<1>13. ASSUME NEW s \in Sessions, Puback(s) PROVE Mapped
  BY <1>13, <1>c, MappedPuback
<1>14. ASSUME NEW s \in Sessions, ReadFails(s) \/ WriteFails(s) PROVE Mapped
  BY <1>14, <1>b DEF ReadFails, WriteFails
<1>15. ASSUME MonitorList \/ MonitorQuery \/ MonitorRearm PROVE Mapped
  BY <1>15, <1>b DEF MonitorList, MonitorQuery, MonitorRearm
<1>16. CASE MonitorDisconnect
  <2>1. victim \in Sessions /\ sock[victim] # "none"
    BY <1>16 DEF MonitorDisconnect, TypeInv, VictimKnown, RegInv, LoginInv, Unborn, Unidentified
  <2>2. /\ UNCHANGED <<subs, recips, seqno, acked, outbox>>
        /\ sock' = [sock EXCEPT ![victim] = "dead"]
    BY <1>16 DEF MonitorDisconnect
  <2>3. CASE sock[victim] = "open"
    BY <2>1, <2>2, <2>3, <1>c, MappedLive
  <2>4. CASE sock[victim] = "dead"
    <3>1. sock' = sock
      BY <1>a, <2>2, <2>4
    <3> QED
      BY <2>2, <3>1, <1>b
  <2> QED
    BY <1>a, <2>1, <2>3, <2>4
<1>17. CASE UNCHANGED vars
  BY <1>17, <1>b DEF vars
<1> HIDE DEF Mapped
<1>18. Mapped => [PS!AbsNext]_(PS!absVars)
  BY DEF Mapped
<1> QED
  BY <1>1, <1>2, <1>3, <1>4, <1>5, <1>6, <1>7, <1>8, <1>9, <1>10, <1>11, <1>12,
     <1>13, <1>14, <1>15, <1>16, <1>17, <1>18
     DEF Next, Environment, ReaderStep, MonitorStep

\* The broker keeps the promise of module PubSub.
THEOREM Refinement == Spec => RoutesAsPromised
BY RouteInvariant, MappedInit, MappedStep, PTL DEF Spec, RoutesAsPromised, PS!AbsSpec

\* Therefore no connection gets a message twice or out of its publisher's order.
PP == INSTANCE PubSubProofs WITH
        subscribed <- [t \in Topics |-> {r \in Sessions : subs[t][r] > 0}],
        todo <- [p \in Sessions |-> {r \in Sessions : recips[p][r] > 0}]

THEOREM NoDuplicateDelivery == Spec => []DeliveredInOrderOnce
<1>1. PS!AbsInit <=> PP!AbsInit
  BY DEF PS!AbsInit, PP!AbsInit
<1>2. [PS!AbsNext]_(PS!absVars) <=> [PP!AbsNext]_(PP!absVars)
  BY DEF PS!AbsNext, PP!AbsNext, PS!absVars, PP!absVars, PS!Live, PP!Live, PS!Leave, PP!Leave,
         PS!Acknowledge, PP!Acknowledge, PS!Join, PP!Join, PS!Route, PP!Route,
         PS!Deliver, PP!Deliver, PS!Lose, PP!Lose
<1>3. PP!OrderedOnce <=> DeliveredInOrderOnce
  BY DEF PP!OrderedOnce, PS!OrderedOnce, DeliveredInOrderOnce
<1>4. PP!AbsSpec => []PP!OrderedOnce
  BY PP!AbsOrderedOnce
<1> QED
  BY <1>1, <1>2, <1>3, <1>4, Refinement, PTL DEF RoutesAsPromised, PS!AbsSpec, PP!AbsSpec
=============================================================================
