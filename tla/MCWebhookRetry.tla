--------------------------- MODULE MCWebhookRetry ----------------------------
(* Instances of WebhookRetry for TLC: deliveries of one webhook. *)
EXTENDS WebhookRetry, TLC

MCWebhookOf == [d \in Deliveries |-> "w1"]

\* Tokens are random, replicas run the same code, deliveries are alike.  What a
\* free worker's other fields hold (a CHOOSE in FreeWorker) is never used.
MCSymmetry == Permutations(Tokens) \cup Permutations(Replicas) \cup Permutations(Deliveries)
=============================================================================
