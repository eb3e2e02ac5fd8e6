-------------------------- MODULE MCTopicRegistry --------------------------
(* An instance of TopicRegistry for TLC: two connections, two clients and  *)
(* one name, c1/a, which has a prefix.                                     *)
EXTENDS TopicRegistry, TLC

CONSTANTS s1, s2, c1, c2, n1, r1

Symmetry == Permutations(Sessions)

MCPrefixOf == [n \in Names |-> c1]
MCRowOf == [n \in Names |-> r1]

\* A doubt counts while the session is a member of the name, or will be by the
\* SUB it is at; every SUB begins without one.
View == <<tables, clientId, sessions, members, cache, task, missed,
          [n \in Names |-> {s \in doubt[n] : s \in members[n] \/ n \in Asked("subscribe")[s]}]>>
=============================================================================
