---------------------------- MODULE MCProxyStream ----------------------------
(* Instances of ProxyStream for TLC: requests of a replica that takes the  *)
(* cluster lock, and of one that does not.                                 *)
EXTENDS ProxyStream

CONSTANTS a1, a2, b1, b2, b3, locking, plain

MCReplicaOf == [q \in Requests |-> IF q \in {a1, a2} THEN locking ELSE plain]
=============================================================================
