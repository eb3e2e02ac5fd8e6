----------------------------- MODULE AdminPost -----------------------------
(***************************************************************************)
(* What topic administration promises, with no packets, checks, failing    *)
(* queries or notices in it: each topic has a post that one client holds   *)
(* at most; a client asks for it, and takes it when it is appointed, which *)
(* ends its request.  A clerk who appoints may note it and confirm it      *)
(* later, once, unless the clerks are replaced meanwhile; that fills the   *)
(* post if it is vacant by then and changes nothing if it is not.  Module  *)
(* TopicAdmin is shown to implement this one, its threads being the clerks *)
(* and a new process new clerks.                                           *)
(***************************************************************************)
EXTENDS TLAPS

CONSTANTS Clients, Topics, Clerks

VARIABLES open,     \* open[t]: clients whose request for t is not answered
          asked,    \* asked[t]: clients that have ever asked for t
          holder,   \* holder[t]: the client that holds the post, if any
          noted     \* noted[k]: the appointment that clerk k is to confirm, if any

postVars == <<open, asked, holder, noted>>

PostInit ==
    /\ open = [t \in Topics |-> {}]
    /\ asked = [t \in Topics |-> {}]
    /\ holder = [t \in Topics |-> {}]
    /\ noted = [k \in Clerks |-> {}]

\* The holder may ask, too.
Ask(t, c) ==
    /\ open' = [open EXCEPT ![t] = @ \cup {c}]
    /\ asked' = [asked EXCEPT ![t] = @ \cup {c}]
    /\ UNCHANGED <<holder, noted>>

Appoint(k, t, c) ==
    /\ c \in open[t]
    /\ noted[k] = {}
    /\ open' = [open EXCEPT ![t] = @ \ {c}]
    /\ holder' = [holder EXCEPT ![t] = {c}]
    /\ noted' \in {noted, [noted EXCEPT ![k] = {<<t, c>>}]}
    /\ UNCHANGED asked

Refuse(t, c) ==
    /\ c \in open[t]
    /\ open' = [open EXCEPT ![t] = @ \ {c}]
    /\ UNCHANGED <<asked, holder, noted>>

Confirm(k, t, c) ==
    /\ noted[k] = {<<t, c>>}
    /\ noted' = [noted EXCEPT ![k] = {}]
    /\ \/ holder[t] = {} /\ holder' = [holder EXCEPT ![t] = {c}]
       \/ UNCHANGED holder
    /\ UNCHANGED <<open, asked>>

\* The clerks are replaced, and what they have noted is not confirmed any more.
Forget ==
    /\ noted' = [k \in Clerks |-> {}]
    /\ UNCHANGED <<open, asked, holder>>

\* The holder is dismissed or resigns.
Leave(t, c) ==
    /\ c \in holder[t]
    /\ holder' = [holder EXCEPT ![t] = @ \ {c}]
    /\ UNCHANGED <<open, asked, noted>>

PostNext ==
    \/ Forget
    \/ \E t \in Topics, c \in Clients :
          \/ Ask(t, c) \/ Refuse(t, c) \/ Leave(t, c)
          \/ \E k \in Clerks : Appoint(k, t, c) \/ Confirm(k, t, c)

PostSpec == PostInit /\ [][PostNext]_postVars

-----------------------------------------------------------------------------
(* Properties                                                              *)

\* Nobody holds a post, or is to have it confirmed, without having asked.
HoldersAsked ==
    /\ \A t \in Topics : holder[t] \subseteq asked[t]
    /\ \A k \in Clerks, t \in Topics, c \in Clients : <<t, c>> \in noted[k] => c \in asked[t]

TypesOfPost ==
    /\ open \in [Topics -> SUBSET Clients]
    /\ asked \in [Topics -> SUBSET Clients]
    /\ holder \in [Topics -> SUBSET Clients]
    /\ noted \in [Clerks -> SUBSET (Topics \X Clients)]

PostInv == TypesOfPost /\ HoldersAsked /\ \A t \in Topics : open[t] \subseteq asked[t]

LEMMA PostStep == PostInv /\ [PostNext]_postVars => PostInv'
<1> SUFFICES ASSUME PostInv, [PostNext]_postVars PROVE PostInv'
  OBVIOUS
<1>1. ASSUME NEW t \in Topics, NEW c \in Clients, Ask(t, c) PROVE PostInv'
  BY <1>1 DEF Ask, PostInv, TypesOfPost, HoldersAsked
<1>2. ASSUME NEW t \in Topics, NEW c \in Clients, Refuse(t, c) \/ Leave(t, c) PROVE PostInv'
  BY <1>2 DEF Refuse, Leave, PostInv, TypesOfPost, HoldersAsked
<1>3. ASSUME NEW t \in Topics, NEW c \in Clients, NEW k \in Clerks, Appoint(k, t, c) PROVE PostInv'
  <2>1. c \in asked[t]
    BY <1>3 DEF Appoint, PostInv
  <2>2. TypesOfPost'
    <3>1. {<<t, c>>} \subseteq Topics \X Clients
      OBVIOUS
    <3>2. [noted EXCEPT ![k] = {<<t, c>>}] \in [Clerks -> SUBSET (Topics \X Clients)]
      BY <3>1 DEF PostInv, TypesOfPost
    <3>3. noted' \in [Clerks -> SUBSET (Topics \X Clients)]
      BY <1>3, <3>2 DEF Appoint, PostInv, TypesOfPost
    <3> QED
      BY <1>3, <3>3 DEF Appoint, PostInv, TypesOfPost
  <2>3. ASSUME NEW j \in Clerks, NEW u \in Topics, NEW d \in Clients, <<u, d>> \in noted'[j]
        PROVE  d \in asked[u]
    <3>1. <<u, d>> \in noted[j] \/ <<u, d>> \in {<<t, c>>}
      BY <1>3, <2>3 DEF Appoint, PostInv, TypesOfPost
    <3>2. <<u, d>> \in {<<t, c>>} => u = t /\ d = c
      OBVIOUS
    <3> QED
      BY <2>1, <3>1, <3>2 DEF PostInv, HoldersAsked
  <2>4. /\ \A u \in Topics : holder'[u] \subseteq asked[u]
        /\ \A u \in Topics : open'[u] \subseteq asked[u]
    BY <1>3, <2>1 DEF Appoint, PostInv, TypesOfPost, HoldersAsked
  <2>5. asked' = asked
    BY <1>3 DEF Appoint
  <2> QED
    BY <2>2, <2>3, <2>4, <2>5 DEF PostInv, HoldersAsked
<1>4. ASSUME NEW t \in Topics, NEW c \in Clients, NEW k \in Clerks, Confirm(k, t, c) PROVE PostInv'
  <2>1. c \in asked[t]
    <3>1. <<t, c>> \in noted[k]
      BY <1>4 DEF Confirm
    <3> QED
      BY <3>1 DEF PostInv, HoldersAsked
  <2>2. TypesOfPost'
    BY <1>4 DEF Confirm, PostInv, TypesOfPost
  <2>3. \A j \in Clerks : noted'[j] \subseteq noted[j]
    BY <1>4 DEF Confirm, PostInv, TypesOfPost
  <2>4. \A u \in Topics : holder'[u] \subseteq asked[u]
    BY <1>4, <2>1 DEF Confirm, PostInv, TypesOfPost, HoldersAsked
  <2>5. asked' = asked /\ open' = open
    BY <1>4 DEF Confirm
  <2> QED
    BY <2>2, <2>3, <2>4, <2>5 DEF PostInv, HoldersAsked
<1>5. CASE Forget
  BY <1>5 DEF Forget, PostInv, TypesOfPost, HoldersAsked
<1>6. CASE UNCHANGED postVars
  BY <1>6 DEF postVars, PostInv, TypesOfPost, HoldersAsked
<1> QED
  BY <1>1, <1>2, <1>3, <1>4, <1>5, <1>6 DEF PostNext

\* Whoever holds a post has asked for it, however late it is confirmed.
THEOREM PostsAreAskedFor == PostSpec => []HoldersAsked
<1>1. PostInit => PostInv
  BY DEF PostInit, PostInv, TypesOfPost, HoldersAsked
<1>2. PostInv => HoldersAsked
  BY DEF PostInv
<1> QED
  BY <1>1, <1>2, PostStep, PTL DEF PostSpec
=============================================================================
