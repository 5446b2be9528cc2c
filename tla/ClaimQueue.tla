----------------------------- MODULE ClaimQueue ------------------------------
(***************************************************************************)
(* What a RowClaimedQueue promises (backend/src/services/cluster_work.rs): *)
(* each claim of a row has a random token of its own, and the row changes  *)
(* hands only when its holder gives it up or its claim has lapsed.  The    *)
(* sync queue and the webhook retry queue are shown to implement this.     *)
(***************************************************************************)
CONSTANTS Rows, Tokens, NoToken

VARIABLES
  holder,  \* row -> the token of its claim, or NoToken
  lapsed,  \* rows whose claim is past its deadline
  acting   \* tokens whose worker has not finished with its row

vars == <<holder, lapsed, acting>>

Init ==
  /\ holder = [r \in Rows |-> NoToken]
  /\ lapsed = {}
  /\ acting = {}

Fresh == {k \in Tokens \ acting : \A r \in Rows : holder[r] # k}

\* Rows that are free or lapsed go to new workers, each under a token of its own.
Take(S, tok) ==
  /\ S # {}
  /\ \A r \in S : holder[r] = NoToken \/ r \in lapsed
  /\ \A q, r \in S : tok[q] = tok[r] => q = r
  /\ holder' = [r \in Rows |-> IF r \in S THEN tok[r] ELSE holder[r]]
  /\ lapsed' = lapsed \ S
  /\ acting' = acting \cup {tok[r] : r \in S}

\* The worker that holds the row gives it up; it is done with it.
Settle(r) ==
  /\ holder[r] \in acting
  /\ holder' = [holder EXCEPT ![r] = NoToken]
  /\ lapsed' = lapsed \ {r}
  /\ acting' = acting \ {holder[r]}

\* The worker that holds the row moves its deadline.
Extend(r) ==
  /\ holder[r] \in acting
  /\ lapsed' = lapsed \ {r}
  /\ UNCHANGED <<holder, acting>>

\* The claim of the row passes its deadline.
Expire(r) ==
  /\ holder[r] # NoToken
  /\ lapsed' = lapsed \cup {r}
  /\ UNCHANGED <<holder, acting>>

\* Lapsed rows are taken back from whoever held them.
Reclaim(S) ==
  /\ S \subseteq lapsed
  /\ holder' = [r \in Rows |-> IF r \in S THEN NoToken ELSE holder[r]]
  /\ lapsed' = lapsed \ S
  /\ UNCHANGED acting

\* Workers stop without touching their rows: they died, or found their claim lost.
Quit(K) ==
  /\ K \subseteq acting
  /\ acting' = acting \ K
  /\ UNCHANGED <<holder, lapsed>>

Next ==
  \/ \E S \in SUBSET Rows : \E tok \in [S -> Fresh] : Take(S, tok)
  \/ \E S \in SUBSET Rows : Reclaim(S)
  \/ \E r \in Rows : Settle(r) \/ Extend(r) \/ Expire(r)
  \/ \E K \in SUBSET Tokens : Quit(K)

Spec == Init /\ [][Next]_vars
=============================================================================
