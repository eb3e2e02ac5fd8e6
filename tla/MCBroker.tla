------------------------------ MODULE MCBroker ------------------------------
(* Small instances of Broker for TLC.                                      *)
EXTENDS Broker, TLC

\* Connections are interchangeable.  Client ids are not: Markable tells them apart.
Symmetry == Permutations(Sessions)
=============================================================================
