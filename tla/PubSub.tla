------------------------------- MODULE PubSub -------------------------------
(***************************************************************************)
(* What a TinyMQ broker promises its clients about messages, with no       *)
(* threads, locks or handlers in it: each connection publishes one message *)
(* at a time, a message is routed at one instant to the connections that   *)
(* are subscribed to its topic at that instant, each of them is handed the *)
(* message once unless its connection is dead, and the publisher's PUBACK  *)
(* comes after the last hand-over.  Module Broker is shown to implement    *)
(* this module.                                                            *)
(***************************************************************************)
EXTENDS Naturals, Sequences

CONSTANTS Sessions,   \* TCP connections, each used once
          Topics

VARIABLES sock,        \* sock[s]: life of connection s
          subscribed,  \* subscribed[t]: the connections subscribed to t
          seqno,       \* seqno[p]: number of messages of p routed so far
          todo,        \* todo[p]: recipients p's last message still owes
          acked,       \* acked[p]: number of the last message acknowledged to p
          outbox       \* outbox[r]: the messages handed to r, in order

absVars == <<sock, subscribed, seqno, todo, acked, outbox>>

Message == [from : Sessions, n : Nat]

AbsTypeOK ==
    /\ sock \in [Sessions -> {"none", "open", "dead"}]
    /\ subscribed \in [Topics -> SUBSET Sessions]
    /\ seqno \in [Sessions -> Nat]
    /\ todo \in [Sessions -> SUBSET Sessions]
    /\ acked \in [Sessions -> Nat]
    /\ outbox \in [Sessions -> Seq(Message)]

AbsInit ==
    /\ sock = [s \in Sessions |-> "none"]
    /\ subscribed = [t \in Topics |-> {}]
    /\ seqno = [s \in Sessions |-> 0]
    /\ todo = [s \in Sessions |-> {}]
    /\ acked = [s \in Sessions |-> 0]
    /\ outbox = [s \in Sessions |-> <<>>]

\* A connection is opened once and dies once; it never comes back.
Live(s) ==
    /\ \/ sock[s] = "none" /\ sock' = [sock EXCEPT ![s] = "open"]
       \/ sock[s] = "open" /\ sock' = [sock EXCEPT ![s] = "dead"]
    /\ UNCHANGED <<subscribed, seqno, todo, acked, outbox>>

Join(s, t) ==
    /\ subscribed' = [subscribed EXCEPT ![t] = @ \cup {s}]
    /\ UNCHANGED <<sock, seqno, todo, acked, outbox>>

\* One connection leaves one topic, or all of them at once.
Leave(s) ==
    /\ \E T \in SUBSET Topics :
          subscribed' = [t \in Topics |-> IF t \in T THEN subscribed[t] \ {s}
                                                     ELSE subscribed[t]]
    /\ UNCHANGED <<sock, seqno, todo, acked, outbox>>

\* The linearization point of a publication: its recipients are exactly the
\* present subscribers, and the previous message of p is settled.
Route(p, t) ==
    /\ todo[p] = {}
    /\ acked[p] = seqno[p]
    /\ seqno' = [seqno EXCEPT ![p] = @ + 1]
    /\ todo' = [todo EXCEPT ![p] = subscribed[t]]
    /\ UNCHANGED <<sock, subscribed, acked, outbox>>

Deliver(p, r) ==
    /\ r \in todo[p]
    /\ sock[r] = "open"
    /\ todo' = [todo EXCEPT ![p] = @ \ {r}]
    /\ outbox' = [outbox EXCEPT ![r] = Append(@, [from |-> p, n |-> seqno[p]])]
    /\ UNCHANGED <<sock, subscribed, seqno, acked>>

\* Only a dead connection loses a message that was routed to it.
Lose(p, r) ==
    /\ r \in todo[p]
    /\ sock[r] # "open"
    /\ todo' = [todo EXCEPT ![p] = @ \ {r}]
    /\ UNCHANGED <<sock, subscribed, seqno, acked, outbox>>

Acknowledge(p) ==
    /\ todo[p] = {}
    /\ acked[p] < seqno[p]
    /\ acked' = [acked EXCEPT ![p] = seqno[p]]
    /\ UNCHANGED <<sock, subscribed, seqno, todo, outbox>>

AbsNext ==
    \/ \E s \in Sessions : Live(s) \/ Leave(s) \/ Acknowledge(s)
    \/ \E s \in Sessions, t \in Topics : Join(s, t) \/ Route(s, t)
    \/ \E p, r \in Sessions : Deliver(p, r) \/ Lose(p, r)

AbsSpec == AbsInit /\ [][AbsNext]_absVars

-----------------------------------------------------------------------------
\* No connection is handed a message twice, and the messages of one publisher
\* arrive in the order in which it published them: along every outbox the
\* numbers of one publisher strictly increase.
OrderedOnce ==
    \A r \in Sessions : \A i, j \in 1..Len(outbox[r]) :
        (i < j /\ outbox[r][i].from = outbox[r][j].from)
            => outbox[r][i].n < outbox[r][j].n

\* What makes OrderedOnce inductive: nothing is handed over before it is
\* routed, and a message still owed to r is not in r's outbox yet.
Owed ==
    \A p, r \in Sessions : \A i \in 1..Len(outbox[r]) :
        outbox[r][i].from = p =>
            /\ outbox[r][i].n <= seqno[p]
            /\ r \in todo[p] => outbox[r][i].n < seqno[p]

AbsInv == AbsTypeOK /\ OrderedOnce /\ Owed
=============================================================================
