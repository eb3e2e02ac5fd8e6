---------------------------- MODULE PubSubProofs ----------------------------
(* The promise of module PubSub includes order and no duplication, for any *)
(* number of connections, topics and publications.                         *)
EXTENDS PubSub, TLAPS

LEMMA AbsInitInv == AbsInit => AbsInv
BY DEF AbsInit, AbsInv, AbsTypeOK, OrderedOnce, Owed, Message

\* Handing the last message of p to r is the one step that extends an outbox.
LEMMA DeliverInv ==
    ASSUME AbsInv, NEW p \in Sessions, NEW r \in Sessions, Deliver(p, r)
    PROVE  AbsInv'
<1> DEFINE m == [from |-> p, n |-> seqno[p]]
<1>1. AbsTypeOK'
  BY DEF AbsInv, AbsTypeOK, Deliver, Message
<1>2. /\ r \in todo[p]
      /\ todo' = [todo EXCEPT ![p] = @ \ {r}]
      /\ seqno' = seqno
      /\ outbox' = [outbox EXCEPT ![r] = Append(@, m)]
      /\ outbox \in [Sessions -> Seq(Message)]
      /\ todo \in [Sessions -> SUBSET Sessions]
      /\ seqno \in [Sessions -> Nat]
      /\ m \in Message
  BY DEF AbsInv, AbsTypeOK, Deliver, Message
<1>3. \A q \in Sessions : q # r => outbox'[q] = outbox[q]
  BY <1>2
<1>4. /\ Len(outbox'[r]) = Len(outbox[r]) + 1
      /\ outbox'[r][Len(outbox[r]) + 1] = m
      /\ \A i \in 1..Len(outbox[r]) : outbox'[r][i] = outbox[r][i]
  BY <1>2
<1>5. \A i \in 1..Len(outbox[r]) : outbox[r][i].from = p => outbox[r][i].n < seqno[p]
  BY <1>2 DEF AbsInv, Owed
<1>6. OrderedOnce'
  <2> SUFFICES ASSUME NEW q \in Sessions,
                      NEW i \in 1..Len(outbox'[q]), NEW j \in 1..Len(outbox'[q]),
                      i < j, outbox'[q][i].from = outbox'[q][j].from
               PROVE  outbox'[q][i].n < outbox'[q][j].n
    BY DEF OrderedOnce
  <2>1. CASE q # r
    BY <2>1, <1>3 DEF AbsInv, OrderedOnce
  <2>2. CASE q = r
    <3> Len(outbox[r]) \in Nat
      BY <1>2
    <3>1. CASE j \in 1..Len(outbox[r])
      BY <2>2, <3>1, <1>4 DEF AbsInv, OrderedOnce
    <3>2. CASE j = Len(outbox[r]) + 1
      <4>1. i \in 1..Len(outbox[r])
        BY <2>2, <3>2, <1>4
      <4> QED
        BY <4>1, <2>2, <3>2, <1>4, <1>5
    <3> QED
      BY <2>2, <3>1, <3>2, <1>4
  <2> QED
    BY <2>1, <2>2
<1>7. Owed'
  <2> SUFFICES ASSUME NEW q \in Sessions, NEW t \in Sessions,
                      NEW i \in 1..Len(outbox'[t]), outbox'[t][i].from = q
               PROVE  /\ outbox'[t][i].n <= seqno[q]
                      /\ t \in todo'[q] => outbox'[t][i].n < seqno[q]
    BY <1>2 DEF Owed
  <2>1. todo'[q] \subseteq todo[q] /\ r \notin todo'[p]
    BY <1>2
  <2>2. CASE t # r
    BY <2>1, <2>2, <1>3 DEF AbsInv, Owed
  <2>3. CASE t = r /\ i \in 1..Len(outbox[r])
    BY <2>1, <2>3, <1>4 DEF AbsInv, Owed
  <2>4. CASE t = r /\ i = Len(outbox[r]) + 1
    BY <2>1, <2>4, <1>4, <1>2
  <2>5. t = r => i \in 1..Len(outbox[r]) \/ i = Len(outbox[r]) + 1
    <3> Len(outbox[r]) \in Nat
      BY <1>2
    <3> QED
      BY <1>4
  <2> QED
    BY <2>2, <2>3, <2>4, <2>5
<1> QED
  BY <1>1, <1>6, <1>7 DEF AbsInv

LEMMA AbsStepInv ==
    ASSUME AbsInv, [AbsNext]_absVars
    PROVE  AbsInv'
<1> USE DEF AbsInv
<1>1. ASSUME NEW s \in Sessions, Live(s) PROVE AbsInv'
  BY <1>1 DEF Live, AbsTypeOK, OrderedOnce, Owed
<1>2. ASSUME NEW s \in Sessions, Leave(s) PROVE AbsInv'
  BY <1>2 DEF Leave, AbsTypeOK, OrderedOnce, Owed
<1>3. ASSUME NEW s \in Sessions, Acknowledge(s) PROVE AbsInv'
  BY <1>3 DEF Acknowledge, AbsTypeOK, OrderedOnce, Owed
<1>4. ASSUME NEW s \in Sessions, NEW t \in Topics, Join(s, t) PROVE AbsInv'
  BY <1>4 DEF Join, AbsTypeOK, OrderedOnce, Owed
<1>5. ASSUME NEW p \in Sessions, NEW t \in Topics, Route(p, t) PROVE AbsInv'
  <2>1. AbsTypeOK' /\ OrderedOnce'
    BY <1>5 DEF Route, AbsTypeOK, OrderedOnce
  <2>2. ASSUME NEW r \in Sessions, NEW i \in 1..Len(outbox[r])
        PROVE  outbox[r][i].n \in Nat
    <3>1. outbox[r] \in Seq(Message)
      BY DEF AbsTypeOK
    <3>2. outbox[r][i] \in Message
      BY <3>1
    <3> QED
      BY <3>2 DEF Message
  <2>3. Owed'
    BY <1>5, <2>2 DEF Route, AbsTypeOK, Owed
  <2> QED
    BY <2>1, <2>3
<1>6. ASSUME NEW p \in Sessions, NEW r \in Sessions, Deliver(p, r) PROVE AbsInv'
  BY <1>6, DeliverInv
<1>7. ASSUME NEW p \in Sessions, NEW r \in Sessions, Lose(p, r) PROVE AbsInv'
  BY <1>7 DEF Lose, AbsTypeOK, OrderedOnce, Owed
<1>8. CASE UNCHANGED absVars
  BY <1>8 DEF absVars, AbsTypeOK, OrderedOnce, Owed
<1> QED
  BY <1>1, <1>2, <1>3, <1>4, <1>5, <1>6, <1>7, <1>8 DEF AbsNext

\* Along every outbox the message numbers of one publisher strictly increase:
\* a broker that keeps the promise never duplicates and never reorders.
THEOREM AbsOrderedOnce == AbsSpec => []OrderedOnce
<1>1. AbsInv => OrderedOnce
  BY DEF AbsInv
<1> QED
  BY AbsInitInv, AbsStepInv, <1>1, PTL DEF AbsSpec
=============================================================================
