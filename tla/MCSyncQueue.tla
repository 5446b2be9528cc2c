----------------------------- MODULE MCSyncQueue -----------------------------
(* Instances of SyncQueue for TLC: the rows of one peer. *)
EXTENDS SyncQueue, TLC

\* A push and the delete of the same artifact, both for one peer.
MCTasks == {"push1", "delete1"}
MCPushes == {"push1"}
MCPeerOf == [t \in MCTasks |-> "p1"]
MCArtifactOf == [t \in MCTasks |-> "a1"]

\* Two pushes of different artifacts.
MCTwoPushes == {"push1", "push2"}
MCTwoPeerOf == [t \in MCTwoPushes |-> "p1"]
MCTwoArtifactOf == [t \in MCTwoPushes |-> IF t = "push1" THEN "a1" ELSE "a2"]

\* Tokens are random and replicas run the same code.
MCSymmetry == Permutations(Tokens) \cup Permutations(Replicas)
=============================================================================
