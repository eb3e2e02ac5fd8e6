--------------------------- MODULE TopicDirectory ---------------------------
(***************************************************************************)
(* What the topics and subscriptions tables and the subscriber vectors     *)
(* promise together, with no cache, transactions or failing calls in them: *)
(* a directory of rows that get one owner each and keep it, of clients'    *)
(* subscriptions, and of sessions that are members of names.  A session    *)
(* speaks for a client, several for one perhaps.  Only a request of a      *)
(* session that speaks for it changes a client's subscription, that of the *)
(* name asked for, and it is recorded when the client and the row are      *)
(* there; only a session's own request makes it a member.  It may be taken *)
(* out of all names at any time, in the middle of a request too, and a     *)
(* request that is under way is answered all the same.  A request is       *)
(* answered by one change of the members, after any change of the          *)
(* subscription.  Nothing says that the subscription is changed at all.    *)
(* Module TopicRegistry is shown to implement this one.                    *)
(***************************************************************************)
CONSTANTS
    Sessions, Clients, Names, Rows,
    NoSession,
    NoClient,    \* no prefix, no owner, nobody spoken for
    PrefixOf,    \* the client a name begins with
    RowOf        \* the row of a name

VARIABLES
    known,      \* clients with a row
    owner,      \* owner[r], NoClient while there is no row
    shared,     \* rows whose data may be published
    active,     \* active[c][r]: "none", "active" or "inactive"
    clientId,   \* clientId[s]: the client that s speaks for, if any
    sessions,   \* sessions[c]: the session that answers for c, if any
    members,    \* members[n]: sessions that receive what is published as n
    joining,    \* joining[s]: the name that s has asked to subscribe to, if any
    leaving     \* leaving[s]: the name that s has asked to unsubscribe from, if any

directoryVars == <<known, owner, shared, active, clientId, sessions, members, joining, leaving>>

DirectoryInit ==
    /\ known = {}
    /\ owner = [r \in Rows |-> NoClient]
    /\ shared = {}
    /\ active = [c \in Clients |-> [r \in Rows |-> "none"]]
    /\ clientId = [s \in Sessions |-> NoClient]
    /\ sessions = [c \in Clients |-> NoSession]
    /\ members = [n \in Names |-> {}]
    /\ joining = [s \in Sessions |-> {}]
    /\ leaving = [s \in Sessions |-> {}]

\* A session asks for one thing at a time.
Free(s) == joining[s] = {} /\ leaving[s] = {}

\* A session comes to speak for a client and answers for it; the one that did
\* so is a member of nothing any more.  The client's row is written, or not.
Arrive(s, c) ==
    /\ Free(s)
    /\ clientId' = [clientId EXCEPT ![s] = c]
    /\ sessions' = [sessions EXCEPT ![c] = s]
    /\ members' = [n \in Names |-> members[n] \ {sessions[c]}]
    /\ known' \in {known, known \cup {c}}
    /\ UNCHANGED <<owner, shared, active, joining, leaving>>

\* A session is a member of nothing any more, and nobody answers for its client.
Depart(s) ==
    /\ clientId[s] # NoClient
    /\ sessions' = [sessions EXCEPT ![clientId[s]] = NoSession]
    /\ members' = [n \in Names |-> members[n] \ {s}]
    /\ UNCHANGED <<known, owner, shared, active, clientId, joining, leaving>>

\* The tables survive.
Crash ==
    /\ clientId' = [s \in Sessions |-> NoClient]
    /\ sessions' = [c \in Clients |-> NoSession]
    /\ members' = [n \in Names |-> {}]
    /\ joining' = [s \in Sessions |-> {}]
    /\ leaving' = [s \in Sessions |-> {}]
    /\ UNCHANGED <<known, owner, shared, active>>

\* A row is made for a client that is known, whoever causes it.
Own(r, c) ==
    /\ owner[r] = NoClient
    /\ c \in known
    /\ owner' = [owner EXCEPT ![r] = c]
    /\ UNCHANGED <<known, shared, active, clientId, sessions, members, joining, leaving>>

Share(r) ==
    /\ owner[r] # NoClient
    /\ shared' \in {shared \cup {r}, shared \ {r}}
    /\ UNCHANGED <<known, owner, active, clientId, sessions, members, joining, leaving>>

-----------------------------------------------------------------------------
(* A request to subscribe, to be recorded perhaps, and its answer.  Only   *)
(* names with a prefix are recorded.                                       *)

AskJoin(s, n) ==
    /\ Free(s)
    /\ clientId[s] # NoClient
    /\ joining' = [joining EXCEPT ![s] = {n}]
    /\ UNCHANGED <<known, owner, shared, active, clientId, sessions, members, leaving>>

Enrol(s, n) ==
    /\ n \in joining[s]
    /\ PrefixOf[n] # NoClient
    /\ owner[RowOf[n]] # NoClient
    /\ clientId[s] \in known
    /\ active' = [active EXCEPT ![clientId[s]][RowOf[n]] = "active"]
    /\ UNCHANGED <<known, owner, shared, clientId, sessions, members, joining, leaving>>

Join(s, n) ==
    /\ n \in joining[s]
    /\ members' = [members EXCEPT ![n] = @ \cup {s}]
    /\ joining' = [joining EXCEPT ![s] = {}]
    /\ UNCHANGED <<known, owner, shared, active, clientId, sessions, leaving>>

-----------------------------------------------------------------------------
(* A request to unsubscribe; a name without a prefix withdraws, too, what  *)
(* its row holds.                                                          *)

AskLeave(s, n) ==
    /\ Free(s)
    /\ clientId[s] # NoClient
    /\ leaving' = [leaving EXCEPT ![s] = {n}]
    /\ UNCHANGED <<known, owner, shared, active, clientId, sessions, members, joining>>

Withdraw(s, n) ==
    /\ n \in leaving[s]
    /\ active[clientId[s]][RowOf[n]] = "active"
    /\ active' = [active EXCEPT ![clientId[s]][RowOf[n]] = "inactive"]
    /\ UNCHANGED <<known, owner, shared, clientId, sessions, members, joining, leaving>>

Leave(s, n) ==
    /\ n \in leaving[s]
    /\ members' = [members EXCEPT ![n] = @ \ {s}]
    /\ leaving' = [leaving EXCEPT ![s] = {}]
    /\ UNCHANGED <<known, owner, shared, active, clientId, sessions, joining>>

-----------------------------------------------------------------------------
DirectoryNext ==
    \/ Crash
    \/ \E r \in Rows : Share(r) \/ \E c \in Clients : Own(r, c)
    \/ \E s \in Sessions :
          \/ \E c \in Clients : Arrive(s, c)
          \/ Depart(s)
          \/ \E n \in Names : AskJoin(s, n) \/ AskLeave(s, n)
          \/ \E n \in joining[s] : Enrol(s, n) \/ Join(s, n)
          \/ \E n \in leaving[s] : Withdraw(s, n) \/ Leave(s, n)

DirectorySpec == DirectoryInit /\ [][DirectoryNext]_directoryVars
=============================================================================
