--------------------------- MODULE ClaimQueueProofs ---------------------------
(***************************************************************************)
(* What the claim protocol promises to everything that implements it: the  *)
(* guarantees that cluster_work.rs gives for a claim_token, whatever the   *)
(* rows mean and whoever dies.  SyncQueueProofs and WebhookRetryProofs show *)
(* that both queues implement the protocol.                                *)
(***************************************************************************)
EXTENDS ClaimQueue, TLAPS

\* A token is on one row at most, and only a claimed row can be past its deadline.
ClaimsApart ==
  /\ \A q, r \in Rows : holder[q] = holder[r] /\ holder[q] # NoToken => q = r
  /\ \A r \in Rows : r \in lapsed => holder[r] # NoToken

\* A row that is claimed and in time stays with its holder until that holder's own
\* worker gives it up and stops.
KeptUntilGivenUp(r) ==
  /\ holder[r] # NoToken /\ r \notin lapsed /\ holder'[r] # holder[r]
  => holder'[r] = NoToken /\ holder[r] \in acting /\ holder[r] \notin acting'

\* A worker that has lost its row never holds one again.
StaysStale(k) ==
  k \in acting /\ k # NoToken /\ (\A r \in Rows : holder[r] # k)
  => \A r \in Rows : holder'[r] # k

\* Every row has its entry.
Shape == holder = [r \in Rows |-> holder[r]]

Inv == Shape /\ ClaimsApart

Undisturbed == \A r \in Rows : KeptUntilGivenUp(r)

Fenced == \A k \in Tokens : StaysStale(k)
-----------------------------------------------------------------------------
(* One lemma per step of the protocol. *)

LEMMA TakeStep ==
  ASSUME Inv, NEW S \in SUBSET Rows, NEW tok \in [S -> Fresh], Take(S, tok)
  PROVE  Inv' /\ Undisturbed /\ Fenced
<1>1. /\ holder' = [r \in Rows |-> IF r \in S THEN tok[r] ELSE holder[r]]
      /\ lapsed' = lapsed \ S
      /\ \A q, r \in S : tok[q] = tok[r] => q = r
      /\ \A r \in S : holder[r] = NoToken \/ r \in lapsed
  BY DEF Take
<1>2. \A r \in S : tok[r] \notin acting /\ \A q \in Rows : holder[q] # tok[r]
  BY DEF Fresh
<1>3. Shape'
  BY <1>1 DEF Shape
<1>4. ClaimsApart'
  BY <1>1, <1>2 DEF Inv, ClaimsApart
<1>5. Undisturbed
  BY <1>1 DEF Undisturbed, KeptUntilGivenUp
<1>6. Fenced
  BY <1>1, <1>2 DEF Fenced, StaysStale
<1> QED BY <1>3, <1>4, <1>5, <1>6 DEF Inv

LEMMA ReclaimStep ==
  ASSUME Inv, NEW S \in SUBSET Rows, Reclaim(S)
  PROVE  Inv' /\ Undisturbed /\ Fenced
<1>1. /\ holder' = [r \in Rows |-> IF r \in S THEN NoToken ELSE holder[r]]
      /\ lapsed' = lapsed \ S /\ S \subseteq lapsed
  BY DEF Reclaim
<1>2. Shape'
  BY <1>1 DEF Shape
<1>3. ClaimsApart'
  BY <1>1 DEF Inv, ClaimsApart
<1>4. Undisturbed /\ Fenced
  BY <1>1 DEF Undisturbed, KeptUntilGivenUp, Fenced, StaysStale
<1> QED BY <1>2, <1>3, <1>4 DEF Inv

LEMMA SettleStep ==
  ASSUME Inv, NEW s \in Rows, Settle(s)
  PROVE  Inv' /\ Undisturbed /\ Fenced
<1>1. /\ holder' = [r \in Rows |-> IF r = s THEN NoToken ELSE holder[r]]
      /\ lapsed' = lapsed \ {s}
      /\ holder[s] \in acting /\ acting' = acting \ {holder[s]}
  BY DEF Settle, Inv, Shape
<1>2. Shape'
  BY <1>1 DEF Shape
<1>3. ClaimsApart'
  BY <1>1 DEF Inv, ClaimsApart
<1>4. Undisturbed /\ Fenced
  BY <1>1 DEF Undisturbed, KeptUntilGivenUp, Fenced, StaysStale
<1> QED BY <1>2, <1>3, <1>4 DEF Inv

\* Steps that leave the holders alone; only a held row expires.
LEMMA QuietStep ==
  ASSUME Inv, holder' = holder, \A r \in Rows : r \in lapsed' => r \in lapsed \/ holder[r] # NoToken
  PROVE  Inv' /\ Undisturbed /\ Fenced
BY DEF Inv, Shape, ClaimsApart, Undisturbed, KeptUntilGivenUp, Fenced, StaysStale

LEMMA ProtocolStep == Inv /\ [Next]_vars => Inv' /\ Undisturbed /\ Fenced
<1> SUFFICES ASSUME Inv, [Next]_vars PROVE Inv' /\ Undisturbed /\ Fenced
  OBVIOUS
<1>1. CASE UNCHANGED vars
  BY <1>1, QuietStep DEF vars
<1>2. ASSUME NEW r \in Rows, Extend(r) \/ Expire(r) PROVE Inv' /\ Undisturbed /\ Fenced
  BY <1>2, QuietStep DEF Extend, Expire
<1>3. ASSUME NEW K \in SUBSET Tokens, Quit(K) PROVE Inv' /\ Undisturbed /\ Fenced
  BY <1>3, QuietStep DEF Quit
<1> QED BY <1>1, <1>2, <1>3, TakeStep, ReclaimStep, SettleStep DEF Next

LEMMA ProtocolInit == Init => Inv
BY DEF Init, Inv, Shape, ClaimsApart
-----------------------------------------------------------------------------

\* No token is on two rows and only claimed rows lapse, however claims, extensions,
\* recovery and deaths of workers interleave (Claimed<T> of cluster_work.rs).
THEOREM ClaimsStayApart == Spec => []ClaimsApart
<1>1. Inv /\ [Next]_vars => Inv'
  BY ProtocolStep
<1>2. Inv => ClaimsApart
  BY DEF Inv
<1> QED BY <1>1, <1>2, ProtocolInit, PTL DEF Spec

\* A claim that has not lapsed is ended by its own worker only, which has then
\* finished with the row.
THEOREM HoldersAreUndisturbed == Spec => [][\A r \in Rows : KeptUntilGivenUp(r)]_vars
<1>1. Inv /\ [Next]_vars => Inv'
  BY ProtocolStep
<1>2. Inv /\ [Next]_vars => [\A r \in Rows : KeptUntilGivenUp(r)]_vars
  BY ProtocolStep DEF Undisturbed
<1> QED BY <1>1, <1>2, ProtocolInit, PTL DEF Spec

\* A worker whose row was taken from it holds no row ever again, so the token check of
\* its late finalizer or extension fails for good, whatever was claimed since.
THEOREM StaleWorkersStayOut == Spec => [][\A k \in Tokens : StaysStale(k)]_vars
<1>1. Inv /\ [Next]_vars => Inv'
  BY ProtocolStep
<1>2. Inv /\ [Next]_vars => [\A k \in Tokens : StaysStale(k)]_vars
  BY ProtocolStep DEF Fenced
<1> QED BY <1>1, <1>2, ProtocolInit, PTL DEF Spec
===============================================================================
