---------------------------- MODULE MCTopicAdmin ----------------------------
(* Instances of TopicAdmin for TLC.                                        *)
EXTENDS TopicAdmin, TLC

\* Row names without a '/', as the client library registers them: only the
\* JSON requests find their topic.
Plain == [t \in Topics |-> NoClient]

\* A row name that begins with a client id and a '/', as left by a publication
\* on a name with two of them.
CONSTANT Ancestor
Nested == [t \in Topics |-> Ancestor]

\* Nothing that is done depends on what clients and devices were told: runs
\* without a property of that leave it out of the states they tell apart.
Untold == <<known, online, dbTables, task>>

ThreadSymmetry == Permutations(Threads)
Symmetry == Permutations(Clients) \cup ThreadSymmetry
=============================================================================
