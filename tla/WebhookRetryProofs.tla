------------------------- MODULE WebhookRetryProofs --------------------------
(***************************************************************************)
(* Proofs about WebhookRetry for any number of replicas, deliveries and    *)
(* tokens, any batch size and retry budget, and any number of faults.      *)
(***************************************************************************)
EXTENDS WebhookRetry, TLAPS

USE WebhookRetryAssumption

\* A freed worker is well typed.
LEMMA FreeWorkerType == FreeWorker \in Worker
BY DEF FreeWorker, Worker

\* What the statements of a batch entry refer to is well typed.
LEMMA EntryType ==
  ASSUME TypeOK, NEW k \in Tokens
  PROVE  /\ worker[k].row \in Deliveries
         /\ worker[k].attempts \in Nat
         /\ WebhookOf[worker[k].row] \in Webhooks
         /\ row[worker[k].row] \in Row
BY DEF TypeOK, Worker

\* An entry that moves on, or is done, is well typed.
LEMMA MoveType ==
  ASSUME TypeOK, NEW k \in Tokens,
         \/ Leave(k)
         \/ \E pc \in {"rejected", "checked", "sending", "disabling"} : Become(k, pc)
  PROVE  worker' \in [Tokens -> Worker]
BY FreeWorkerType DEF TypeOK, Leave, Become, Worker

\* So is the row that a finalizer writes.
LEMMA ReleaseType ==
  ASSUME TypeOK, NEW k \in Tokens, NEW due \in {"later", "never"}, NEW n \in Nat,
         NEW ok \in BOOLEAN, Release(k, due, n, ok)
  PROVE  row' \in [Deliveries -> Row] /\ lapsed' \subseteq Deliveries
BY EntryType DEF TypeOK, Release, Row

\* The claim statement with the rows S and their tokens tok.
LEMMA TypeClaim ==
  ASSUME TypeOK, NEW r \in Replicas, NEW S \in SUBSET Candidates, NEW tok,
         \A d \in S : tok[d] \in Fresh, Claim(r, S, tok)
  PROVE  TypeOK'
<1>1. \A d \in S : d \in Deliveries /\ tok[d] \in Tokens /\ row[d].attempts \in Nat
  BY DEF Candidates, Fresh, TypeOK, Row
<1>2. row' \in [Deliveries -> Row]
  <2>1. ASSUME NEW d \in S PROVE [row[d] EXCEPT !.token = tok[d]] \in Row
    BY <1>1 DEF TypeOK, Row
  <2> QED BY <2>1 DEF TypeOK, Claim
<1>3. worker' \in [Tokens -> Worker]
  <2>1. ASSUME NEW k \in Tokens, \E d \in S : tok[d] = k
        PROVE  worker'[k] \in Worker
    <3>1. PICK d \in S : d = CHOOSE e \in S : tok[e] = k
      BY <2>1
    <3>2. worker'[k] = [pc |-> "claimed", row |-> d, attempts |-> row[d].attempts, replica |-> r]
      BY <2>1, <3>1 DEF Claim
    <3> QED BY <1>1, <3>2 DEF Worker
  <2>2. ASSUME NEW k \in Tokens, ~ \E d \in S : tok[d] = k
        PROVE  worker'[k] \in Worker
    BY <2>2 DEF Claim, TypeOK
  <2>3. worker' = [k \in Tokens |-> worker'[k]]
    BY DEF Claim
  <2> QED BY <2>1, <2>2, <2>3
<1> QED BY <1>2, <1>3 DEF Claim, TypeOK

\* Each statement of a batch entry keeps the types.
LEMMA TypeWorker ==
  ASSUME TypeOK, NEW k \in Tokens, WorkerStep(k)
  PROVE  TypeOK'
<1>1. CASE LookUp(k)
  BY <1>1, MoveType DEF LookUp, TypeOK
<1>2. CASE DeadLetter(k)
  <2>1. row[worker[k].row].attempts \in Nat /\ row[worker[k].row].success \in BOOLEAN
    BY EntryType DEF Row
  <2>2. row' \in [Deliveries -> Row] /\ lapsed' \subseteq Deliveries
    <3>1. CASE Holds(k)
      BY <1>2, <2>1, <3>1, ReleaseType DEF DeadLetter
    <3>2. CASE ~Holds(k)
      BY <1>2, <3>2 DEF DeadLetter, TypeOK
    <3> QED BY <3>1, <3>2
  <2> QED BY <1>2, <2>2, MoveType DEF DeadLetter, TypeOK
<1>3. CASE ExtendClaim(k)
  <2>1. worker' \in [Tokens -> Worker] /\ lapsed' \subseteq Deliveries
    BY <1>3, MoveType DEF ExtendClaim, TypeOK
  <2> QED BY <1>3, <2>1 DEF ExtendClaim, TypeOK
<1>4. ASSUME NEW ok \in BOOLEAN, FinishSend(k, ok) PROVE TypeOK'
  <2> DEFINE n == worker[k].attempts + 1
             exhausted == ~ok /\ n >= MaxAttempts
             due == IF ok \/ exhausted THEN "never" ELSE "later"
             done == ok \/ row[worker[k].row].success
  <2>1. n \in Nat /\ due \in {"later", "never"} /\ done \in BOOLEAN
    BY EntryType DEF Row
  <2>2. row' \in [Deliveries -> Row] /\ lapsed' \subseteq Deliveries
    <3>1. CASE Holds(k)
      <4>1. Release(k, due, n, done)
        BY <1>4, <3>1 DEF FinishSend
      <4> HIDE DEF n, due, done
      <4> QED BY <2>1, <4>1, ReleaseType
    <3>2. CASE ~Holds(k)
      BY <1>4, <3>2 DEF FinishSend, TypeOK
    <3> QED BY <3>1, <3>2
  <2>3. worker' \in [Tokens -> Worker]
    <3>1. Become(k, "disabling") \/ Leave(k)
      BY <1>4 DEF FinishSend
    <3> QED BY <3>1, MoveType
  <2>4. UNCHANGED <<enabled, reason, redelivering, prompt, faults>>
    BY <1>4 DEF FinishSend
  <2> QED BY <2>2, <2>3, <2>4 DEF TypeOK
<1>5. CASE AutoDisable(k)
  <2>1. worker' \in [Tokens -> Worker]
    BY <1>5, MoveType DEF AutoDisable
  <2>2. reason' \in [Webhooks -> Deliveries \cup {NoReason}] /\ enabled' \subseteq Webhooks
    BY <1>5, EntryType DEF AutoDisable, TypeOK
  <2> QED BY <1>5, <2>1, <2>2 DEF AutoDisable, TypeOK
<1> QED BY <1>1, <1>2, <1>3, <1>4, <1>5 DEF WorkerStep

\* So do events, operators, faults and the passing of time.
LEMMA TypeEnvironment ==
  ASSUME TypeOK,
         OperatorStep \/ FaultStep \/ \E d \in Deliveries : Enqueue(d) \/ Lapse(d) \/ BecomesDue(d)
  PROVE  TypeOK'
<1>1. ASSUME NEW d \in Deliveries, Enqueue(d) \/ BecomesDue(d) PROVE TypeOK'
  BY <1>1 DEF Enqueue, BecomesDue, TypeOK, Row
<1>2. ASSUME NEW d \in Deliveries, Lapse(d) PROVE TypeOK'
  BY <1>2 DEF Lapse, TypeOK
<1>3. ASSUME NEW d \in Deliveries, Redeliver(d) \/ RedeliverFails(d) PROVE TypeOK'
  BY <1>3 DEF Redeliver, RedeliverFails, CountFault, TypeOK
<1>4. ASSUME NEW d \in Deliveries, NEW ok \in BOOLEAN, Redelivered(d, ok) PROVE TypeOK'
  <2>1. row' = [row EXCEPT ![d] = [row[d] EXCEPT !.success = ok, !.attempts = @ + 1]]
    BY <1>4 DEF Redelivered
  <2>2. [row[d] EXCEPT !.success = ok, !.attempts = @ + 1] \in Row
    <3>1. row[d] \in Row /\ row[d].attempts + 1 \in Nat
      BY DEF TypeOK, Row
    <3>2. CASE ok = TRUE
      BY <3>1, <3>2 DEF Row
    <3>3. CASE ok = FALSE
      BY <3>1, <3>3 DEF Row
    <3> QED BY <3>2, <3>3
  <2>3. row' \in [Deliveries -> Row]
    BY <2>1, <2>2 DEF TypeOK
  <2> QED BY <1>4, <2>3 DEF Redelivered, TypeOK
<1>5. ASSUME NEW w \in Webhooks, EnableWebhook(w) \/ DisableWebhook(w) PROVE TypeOK'
  BY <1>5 DEF EnableWebhook, DisableWebhook, TypeOK
<1>6. ASSUME NEW r \in Replicas, BatchFails(r) PROVE TypeOK'
  BY <1>6, FreeWorkerType DEF BatchFails, CountFault, TypeOK
<1>7. ASSUME NEW k \in Tokens, StatementFails(k) PROVE TypeOK'
  BY <1>7, MoveType DEF StatementFails, CountFault, TypeOK
<1> QED BY <1>1, <1>2, <1>3, <1>4, <1>5, <1>6, <1>7 DEF OperatorStep, FaultStep

\* Type correctness of the deliveries, the webhooks and the batches.
THEOREM TypeCorrect == Spec => []TypeOK
<1>1. Init => TypeOK
  BY FreeWorkerType DEF Init, TypeOK, NoRow, Row
<1>2. TypeOK /\ [Next]_vars => TypeOK'
  <2> SUFFICES ASSUME TypeOK, [Next]_vars PROVE TypeOK' OBVIOUS
  <2>1. CASE UNCHANGED vars
    BY <2>1 DEF vars, TypeOK
  <2>2. ASSUME NEW r \in Replicas, ClaimBatch(r) PROVE TypeOK'
    <3>1. PICK S \in SUBSET Candidates : \E tok \in [S -> Fresh] : Claim(r, S, tok)
      BY <2>2 DEF ClaimBatch
    <3>2. PICK tok \in [S -> Fresh] : Claim(r, S, tok)
      BY <3>1
    <3>3. \A d \in S : tok[d] \in Fresh
      OBVIOUS
    <3> QED BY <3>2, <3>3, TypeClaim
  <2> QED BY <2>1, <2>2, TypeWorker, TypeEnvironment DEF Next
<1> QED BY <1>1, <1>2, PTL DEF Spec

-----------------------------------------------------------------------------
(* NoConcurrentSend by the inductive invariant SendersHold. *)

\* A worker that is sending still holds its row, under a claim that has not lapsed.
SendersHold ==
  prompt => \A k \in Tokens : Sending(k) => Holds(k) /\ worker[k].row \notin lapsed

\* Steps that start no send, and touch neither the rows that are being sent nor
\* their claims, keep SendersHold.
LEMMA SendersUndisturbed ==
  ASSUME TypeOK, SendersHold, prompt' = prompt,
         \A k \in Tokens : Sending(k)' => Sending(k) /\ worker'[k].row = worker[k].row,
         prompt => \A k \in Tokens : Sending(k) /\ Sending(k)' =>
           /\ row'[worker[k].row].token = row[worker[k].row].token
           /\ worker[k].row \in lapsed' => worker[k].row \in lapsed
  PROVE  SendersHold'
BY DEF SendersHold, Holds

\* A worker that ends, or moves on to anything but a send, starts none.
LEMMA MovesOn ==
  ASSUME TypeOK, NEW k \in Tokens,
         Leave(k) \/ \E pc \in {"rejected", "checked", "disabling"} : Become(k, pc)
  PROVE  /\ ~Sending(k)'
         /\ \A j \in Tokens : Sending(j)' => j # k /\ Sending(j) /\ worker'[j].row = worker[j].row
BY DEF TypeOK, Leave, Become, Sending, FreeWorker, Worker

\* A finalizer writes only the row it holds, which no other worker is sending.
LEMMA FinalizerDisturbsNoSender ==
  ASSUME TypeOK, SendersHold, prompt, NEW k \in Tokens, Holds(k),
         NEW due, NEW n, NEW ok, Release(k, due, n, ok),
         NEW j \in Tokens, j # k, Sending(j)
  PROVE  /\ row'[worker[j].row].token = row[worker[j].row].token
         /\ worker[j].row \in lapsed' => worker[j].row \in lapsed
<1>1. worker[j].row # worker[k].row
  BY DEF SendersHold, Holds
<1>2. worker[j].row \in Deliveries /\ worker[k].row \in Deliveries
  BY EntryType
<1> QED BY <1>1, <1>2 DEF Release, TypeOK

\* The claim statement passes over rows that are being sent.
LEMMA SendersClaim ==
  ASSUME TypeOK, SendersHold, NEW r \in Replicas, NEW S \in SUBSET Candidates, NEW tok,
         \A d \in S : tok[d] \in Fresh, Claim(r, S, tok)
  PROVE  SendersHold'
<1>1. ASSUME NEW k \in Tokens, Sending(k)'
      PROVE  Sending(k) /\ worker'[k].row = worker[k].row
  <2>1. CASE \E d \in S : tok[d] = k
    <3>1. PICK d \in S : d = CHOOSE e \in S : tok[e] = k
      BY <2>1
    <3>2. worker'[k] = [pc |-> "claimed", row |-> d, attempts |-> row[d].attempts, replica |-> r]
      BY <2>1, <3>1 DEF Claim
    <3> QED BY <1>1, <3>2 DEF Sending
  <2>2. CASE ~ \E d \in S : tok[d] = k
    BY <1>1, <2>2 DEF Claim, Sending
  <2> QED BY <2>1, <2>2
<1>2. ASSUME prompt, NEW k \in Tokens, Sending(k)
      PROVE  /\ row'[worker[k].row].token = row[worker[k].row].token
             /\ worker[k].row \in lapsed' => worker[k].row \in lapsed
  <2>1. worker[k].row \in Deliveries /\ row[worker[k].row].token = k /\ worker[k].row \notin lapsed
    BY <1>2, EntryType DEF SendersHold, Holds
  <2>2. worker[k].row \notin S
    BY <2>1 DEF Candidates
  <2> QED BY <2>1, <2>2 DEF Claim
<1>3. prompt' = prompt
  BY DEF Claim
<1> QED BY <1>1, <1>2, <1>3, SendersUndisturbed

\* Each statement of a batch entry keeps SendersHold.
LEMMA SendersWorker ==
  ASSUME TypeOK, SendersHold, NEW k \in Tokens, WorkerStep(k)
  PROVE  SendersHold'
<1>1. CASE LookUp(k)
  <2>1. Become(k, "rejected") \/ Become(k, "checked")
    BY <1>1 DEF LookUp
  <2>2. UNCHANGED <<row, lapsed, prompt>>
    BY <1>1 DEF LookUp
  <2> QED BY <2>1, <2>2, MovesOn, SendersUndisturbed
<1>2. CASE DeadLetter(k)
  <2>1. Leave(k) /\ prompt' = prompt
    BY <1>2 DEF DeadLetter
  <2>2. CASE Holds(k)
    <3>1. PICK due, n, ok : Release(k, due, n, ok)
      BY <1>2, <2>2 DEF DeadLetter
    <3> QED BY <2>1, <2>2, <3>1, MovesOn, FinalizerDisturbsNoSender, SendersUndisturbed
  <2>3. CASE ~Holds(k)
    BY <1>2, <2>1, <2>3, MovesOn, SendersUndisturbed DEF DeadLetter
  <2> QED BY <2>2, <2>3
<1>3. CASE ExtendClaim(k)
  <2>1. CASE Holds(k)
    <3>1. Become(k, "sending") /\ lapsed' = lapsed \ {worker[k].row} /\ row' = row /\ prompt' = prompt
      BY <1>3, <2>1 DEF ExtendClaim
    <3>2. /\ worker'[k].row = worker[k].row
          /\ \A j \in Tokens \ {k} : worker'[j] = worker[j]
      BY <3>1 DEF Become, TypeOK, Worker
    <3> QED BY <2>1, <3>1, <3>2 DEF SendersHold, Holds, Sending
  <2>2. CASE ~Holds(k)
    BY <1>3, <2>2, MovesOn, SendersUndisturbed DEF ExtendClaim
  <2> QED BY <2>1, <2>2
<1>4. ASSUME NEW ok \in BOOLEAN, FinishSend(k, ok) PROVE SendersHold'
  <2>1. (Become(k, "disabling") \/ Leave(k)) /\ prompt' = prompt
    BY <1>4 DEF FinishSend
  <2>2. CASE Holds(k)
    <3>1. PICK due, n, done : Release(k, due, n, done)
      BY <1>4, <2>2 DEF FinishSend
    <3> QED BY <2>1, <2>2, <3>1, MovesOn, FinalizerDisturbsNoSender, SendersUndisturbed
  <2>3. CASE ~Holds(k)
    <3>1. UNCHANGED <<row, lapsed>>
      BY <1>4, <2>3 DEF FinishSend
    <3> QED BY <2>1, <3>1, MovesOn, SendersUndisturbed
  <2> QED BY <2>2, <2>3
<1>5. CASE AutoDisable(k)
  BY <1>5, MovesOn, SendersUndisturbed DEF AutoDisable
<1> QED BY <1>1, <1>2, <1>3, <1>4, <1>5 DEF WorkerStep

\* So do events, operators, faults and the passing of time.
LEMMA SendersEnvironment ==
  ASSUME TypeOK, SendersHold,
         OperatorStep \/ FaultStep \/ \E d \in Deliveries : Enqueue(d) \/ Lapse(d) \/ BecomesDue(d)
  PROVE  SendersHold'
<1>1. ASSUME UNCHANGED <<lapsed, worker, prompt>>,
             \A e \in Deliveries : row'[e].token = row[e].token
      PROVE  SendersHold'
  BY <1>1, EntryType, SendersUndisturbed DEF Sending
<1>2. ASSUME NEW d \in Deliveries, Enqueue(d) \/ BecomesDue(d) PROVE SendersHold'
  <2>1. row' = [row EXCEPT ![d].due = "now"] /\ UNCHANGED <<lapsed, worker, prompt>>
    BY <1>2 DEF Enqueue, BecomesDue
  <2>2. \A e \in Deliveries : row'[e].token = row[e].token
    BY <2>1 DEF TypeOK, Row
  <2> QED BY <1>1, <2>1, <2>2
<1>3. ASSUME NEW d \in Deliveries, NEW ok \in BOOLEAN, Redelivered(d, ok) PROVE SendersHold'
  <2>1. \A e \in Deliveries : row'[e].token = row[e].token
    <3>1. row' = [row EXCEPT ![d] = [row[d] EXCEPT !.success = ok, !.attempts = @ + 1]]
      BY <1>3 DEF Redelivered
    <3>2. CASE ok = TRUE
      BY <3>1, <3>2 DEF TypeOK, Row
    <3>3. CASE ok = FALSE
      BY <3>1, <3>3 DEF TypeOK, Row
    <3> QED BY <3>2, <3>3
  <2> QED BY <1>1, <1>3, <2>1 DEF Redelivered
<1>4. CASE \/ \E d \in Deliveries : Redeliver(d) \/ RedeliverFails(d)
           \/ \E w \in Webhooks : EnableWebhook(w) \/ DisableWebhook(w)
  BY <1>1, <1>4 DEF Redeliver, RedeliverFails, EnableWebhook, DisableWebhook
<1>5. ASSUME NEW d \in Deliveries, Lapse(d) PROVE SendersHold'
  <2>1. row' = row /\ worker' = worker /\ prompt' = prompt /\ lapsed' = lapsed \cup {d}
    BY <1>5 DEF Lapse
  <2>2. ASSUME prompt, NEW k \in Tokens, Sending(k) PROVE worker[k].row # d
    BY <1>5, <2>2 DEF Lapse, SendersHold, Holds
  <2> QED BY <2>1, <2>2 DEF SendersHold, Holds, Sending
<1>6. ASSUME NEW r \in Replicas, BatchFails(r) PROVE SendersHold'
  <2>1. \A k \in Tokens : Sending(k)' => Sending(k) /\ worker'[k].row = worker[k].row
    BY <1>6 DEF BatchFails, Sending, FreeWorker
  <2> QED BY <1>6, <2>1, SendersUndisturbed DEF BatchFails
<1>7. ASSUME NEW k \in Tokens, StatementFails(k) PROVE SendersHold'
  BY <1>7, MovesOn, SendersUndisturbed DEF StatementFails
<1> QED BY <1>2, <1>3, <1>4, <1>5, <1>6, <1>7 DEF OperatorStep, FaultStep

\* For any number of replicas and any batch size, two replicas never POST the
\* same delivery at the same time while sends end within their lease.
THEOREM SendsAreExclusive == Spec => []NoConcurrentSend
<1>1. Init => SendersHold
  BY DEF Init, SendersHold, Sending, FreeWorker
<1>2. TypeOK /\ SendersHold /\ [Next]_vars => SendersHold'
  <2> SUFFICES ASSUME TypeOK, SendersHold, [Next]_vars PROVE SendersHold' OBVIOUS
  <2>1. CASE UNCHANGED vars
    BY <2>1 DEF vars, SendersHold, Holds, Sending
  <2>2. ASSUME NEW r \in Replicas, ClaimBatch(r) PROVE SendersHold'
    <3>1. PICK S \in SUBSET Candidates : \E tok \in [S -> Fresh] : Claim(r, S, tok)
      BY <2>2 DEF ClaimBatch
    <3>2. PICK tok \in [S -> Fresh] : Claim(r, S, tok)
      BY <3>1
    <3>3. \A d \in S : tok[d] \in Fresh
      OBVIOUS
    <3> QED BY <3>2, <3>3, SendersClaim
  <2> QED BY <2>1, <2>2, SendersWorker, SendersEnvironment DEF Next
<1>3. SendersHold => NoConcurrentSend
  BY DEF SendersHold, NoConcurrentSend, Holds
<1> QED BY TypeCorrect, <1>1, <1>2, <1>3, PTL DEF Spec

-----------------------------------------------------------------------------
(* SettledStays. *)

\* A step settles nothing anew for d and starts no send of it.
SettledStep(d) ==
  Settled(d) => /\ Settled(d)'
                /\ \A k \in Tokens : Sending(k)' /\ worker'[k].row = d => Sending(k)

\* Steps that keep the row and start no send.
LEMMA SettledUntouched ==
  ASSUME NEW d \in Deliveries,
         Settled(d) => row'[d].due = row[d].due /\ row'[d].token = row[d].token,
         \A k \in Tokens : Sending(k)' => Sending(k)
  PROVE  SettledStep(d)
BY DEF SettledStep, Settled

\* A settled row is no candidate, so the claim statement passes over it.
LEMMA SettledClaim ==
  ASSUME TypeOK, NEW d \in Deliveries, NEW r \in Replicas, ClaimBatch(r)
  PROVE  SettledStep(d)
<1>1. PICK S \in SUBSET Candidates : \E tok \in [S -> Fresh] : Claim(r, S, tok)
  BY DEF ClaimBatch
<1>2. PICK tok \in [S -> Fresh] : Claim(r, S, tok)
  BY <1>1
<1>3. Settled(d) => d \notin S
  BY DEF Candidates, Settled
<1>4. Settled(d) => row'[d] = row[d]
  BY <1>2, <1>3 DEF Claim
<1>5. ASSUME NEW k \in Tokens, Sending(k)' PROVE Sending(k)
  <2>1. CASE \E e \in S : tok[e] = k
    <3>1. worker'[k].pc = "claimed"
      BY <1>2, <2>1 DEF Claim
    <3> QED BY <1>5, <3>1 DEF Sending
  <2>2. CASE ~ \E e \in S : tok[e] = k
    BY <1>2, <1>5, <2>2 DEF Claim, Sending
  <2> QED BY <2>1, <2>2
<1> QED BY <1>4, <1>5, SettledUntouched

\* A batch entry writes and sends only a row it holds, and a settled row has no holder.
LEMMA SettledWorker ==
  ASSUME TypeOK, NEW d \in Deliveries, NEW k \in Tokens, WorkerStep(k)
  PROVE  SettledStep(d)
<1>1. Settled(d) /\ Holds(k) => worker[k].row # d
  BY DEF Settled, Holds
<1>2. ASSUME NEW due, NEW n, NEW ok, Settled(d), Holds(k), Release(k, due, n, ok)
      PROVE  row'[d] = row[d]
  BY <1>1, <1>2, EntryType DEF Release, TypeOK
<1>3. ASSUME Leave(k) \/ \E pc \in {"rejected", "checked", "disabling"} : Become(k, pc),
             Settled(d) => row'[d] = row[d]
      PROVE  SettledStep(d)
  BY <1>3, MovesOn, SettledUntouched
<1>4. CASE LookUp(k)
  BY <1>3, <1>4 DEF LookUp
<1>5. CASE DeadLetter(k)
  <2>1. Leave(k)
    BY <1>5 DEF DeadLetter
  <2>2. row' = row \/ (Holds(k) /\ \E due, n, ok : Release(k, due, n, ok))
    BY <1>5 DEF DeadLetter
  <2> QED BY <1>2, <1>3, <2>1, <2>2
<1>6. CASE ExtendClaim(k)
  <2>1. CASE Holds(k)
    <3>1. Become(k, "sending") /\ row' = row
      BY <1>6, <2>1 DEF ExtendClaim
    <3>2. /\ worker'[k].row = worker[k].row
          /\ \A j \in Tokens \ {k} : worker'[j] = worker[j]
      BY <3>1 DEF Become, TypeOK, Worker
    <3> QED BY <1>1, <2>1, <3>1, <3>2 DEF SettledStep, Settled, Sending
  <2>2. CASE ~Holds(k)
    BY <1>3, <1>6, <2>2 DEF ExtendClaim
  <2> QED BY <2>1, <2>2
<1>7. ASSUME NEW ok \in BOOLEAN, FinishSend(k, ok) PROVE SettledStep(d)
  <2>1. Become(k, "disabling") \/ Leave(k)
    BY <1>7 DEF FinishSend
  <2>2. row' = row \/ (Holds(k) /\ \E due, n, done : Release(k, due, n, done))
    BY <1>7 DEF FinishSend
  <2> QED BY <1>2, <1>3, <2>1, <2>2
<1>8. CASE AutoDisable(k)
  BY <1>3, <1>8 DEF AutoDisable
<1> QED BY <1>4, <1>5, <1>6, <1>7, <1>8 DEF WorkerStep

\* An operator's redelivery changes only attempts and success.
LEMMA SettledEnvironment ==
  ASSUME TypeOK, NEW d \in Deliveries,
         OperatorStep \/ FaultStep \/ \E e \in Deliveries : Enqueue(e) \/ Lapse(e) \/ BecomesDue(e)
  PROVE  SettledStep(d)
<1>1. ASSUME worker' = worker, Settled(d) => row'[d].due = row[d].due /\ row'[d].token = row[d].token
      PROVE  SettledStep(d)
  BY <1>1, SettledUntouched DEF Sending
<1>2. ASSUME NEW e \in Deliveries, Enqueue(e) \/ BecomesDue(e) PROVE SettledStep(d)
  <2>1. Settled(d) => d # e
    BY <1>2 DEF Enqueue, BecomesDue, Settled
  <2>2. d # e => row'[d] = row[d]
    BY <1>2 DEF Enqueue, BecomesDue, TypeOK
  <2> QED BY <1>1, <1>2, <2>1, <2>2 DEF Enqueue, BecomesDue
<1>3. ASSUME NEW e \in Deliveries, NEW ok \in BOOLEAN, Redelivered(e, ok) PROVE SettledStep(d)
  <2>1. row'[d].due = row[d].due /\ row'[d].token = row[d].token
    <3>1. row' = [row EXCEPT ![e] = [row[e] EXCEPT !.success = ok, !.attempts = @ + 1]]
      BY <1>3 DEF Redelivered
    <3>2. CASE ok = TRUE
      BY <3>1, <3>2 DEF TypeOK, Row
    <3>3. CASE ok = FALSE
      BY <3>1, <3>3 DEF TypeOK, Row
    <3> QED BY <3>2, <3>3
  <2> QED BY <1>1, <1>3, <2>1 DEF Redelivered
<1>4. CASE \/ \E e \in Deliveries : Lapse(e) \/ Redeliver(e) \/ RedeliverFails(e)
           \/ \E w \in Webhooks : EnableWebhook(w) \/ DisableWebhook(w)
  BY <1>1, <1>4 DEF Lapse, Redeliver, RedeliverFails, EnableWebhook, DisableWebhook
<1>5. ASSUME NEW r \in Replicas, BatchFails(r) PROVE SettledStep(d)
  <2>1. \A k \in Tokens : Sending(k)' => Sending(k)
    BY <1>5 DEF BatchFails, Sending, FreeWorker
  <2> QED BY <1>5, <2>1, SettledUntouched DEF BatchFails
<1>6. ASSUME NEW k \in Tokens, StatementFails(k) PROVE SettledStep(d)
  BY <1>6, MovesOn, SettledUntouched DEF StatementFails
<1> QED BY <1>2, <1>3, <1>4, <1>5, <1>6 DEF OperatorStep, FaultStep

\* What the retry loop has settled stays settled, however late a stale owner of
\* the delivery comes back.
THEOREM SettledForGood == Spec => SettledStays
<1>1. TypeOK /\ [Next]_vars => [\A d \in Deliveries : SettledStep(d)]_vars
  BY SettledClaim, SettledWorker, SettledEnvironment DEF Next
<1> QED BY TypeCorrect, <1>1, PTL DEF Spec, SettledStays, SettledStep
-----------------------------------------------------------------------------
(* The queue implements the claim protocol. *)

ActingPCs == {"claimed", "rejected", "checked", "sending"}

\* A step that leaves tokens, deadlines and acting workers alone is a stutter.
LEMMA ProtocolStutters ==
  ASSUME \A d \in Deliveries : row'[d].token = row[d].token, lapsed' = lapsed, Acting' = Acting
  PROVE  UNCHANGED Protocol!vars
BY DEF Protocol!vars

\* The batch entry that ends or moves on: who is acting afterwards.
LEMMA ActingFacts ==
  ASSUME TypeOK, NEW k \in Tokens, NEW w, worker' = [worker EXCEPT ![k] = w]
  PROVE  /\ w.pc \notin ActingPCs => Acting' = Acting \ {k}
         /\ w.pc \in ActingPCs /\ k \in Acting => Acting' = Acting
         /\ w.pc \notin ActingPCs /\ k \notin Acting => Acting' = Acting
<1>1. worker'[k] = w /\ \A j \in Tokens : j # k => worker'[j] = worker[j]
  BY DEF TypeOK
<1> QED BY <1>1 DEF Acting, ActingPCs

LEMMA StopsActing ==
  ASSUME TypeOK, NEW k \in Tokens, Leave(k) \/ Become(k, "disabling")
  PROVE  Acting' = Acting \ {k}
<1>1. CASE Leave(k)
  <2>1. worker' = [worker EXCEPT ![k] = FreeWorker]
    BY <1>1 DEF Leave
  <2>2. FreeWorker.pc = "free"
    BY DEF FreeWorker
  <2> QED BY <2>1, <2>2, ActingFacts DEF ActingPCs
<1>2. CASE Become(k, "disabling")
  <2>1. worker' = [worker EXCEPT ![k] = [worker[k] EXCEPT !.pc = "disabling"]]
    BY <1>2 DEF Become
  <2>2. [worker[k] EXCEPT !.pc = "disabling"].pc = "disabling"
    BY DEF TypeOK, Worker
  <2> QED BY <2>1, <2>2, ActingFacts DEF ActingPCs
<1> QED BY <1>1, <1>2

LEMMA GoesOnActing ==
  ASSUME TypeOK, NEW k \in Tokens, k \in Acting, NEW pc \in ActingPCs, Become(k, pc)
  PROVE  Acting' = Acting
<1>1. worker' = [worker EXCEPT ![k] = [worker[k] EXCEPT !.pc = pc]]
  BY DEF Become
<1>2. [worker[k] EXCEPT !.pc = pc].pc = pc
  BY DEF TypeOK, Worker
<1> QED BY <1>1, <1>2, ActingFacts

\* Workers that stop without writing.
LEMMA ProtocolQuits ==
  ASSUME UNCHANGED <<row, lapsed>>, NEW K \in SUBSET Tokens, K \subseteq Acting, Acting' = Acting \ K
  PROVE  Protocol!Next
<1>1. Protocol!Quit(K)
  BY DEF Protocol!Quit
<1> QED BY <1>1 DEF Protocol!Next

LEMMA ProtocolQuitsAlone ==
  ASSUME UNCHANGED <<row, lapsed>>, NEW k \in Tokens, k \in Acting, Acting' = Acting \ {k}
  PROVE  Protocol!Next
<1>1. Protocol!Quit({k})
  BY DEF Protocol!Quit
<1> QED BY <1>1 DEF Protocol!Next

\* The holder of a row gives it up.
LEMMA ProtocolSettles ==
  ASSUME TypeOK, NEW k \in Tokens, k \in Acting, Holds(k), NEW due, NEW n, NEW ok,
         Release(k, due, n, ok), Acting' = Acting \ {k}
  PROVE  Protocol!Next
<1>0. PICK d \in Deliveries : d = worker[k].row
  BY EntryType
<1>1. row[d].token = k
  BY <1>0 DEF Holds
<1>2. /\ row' = [row EXCEPT ![d] = [due |-> due, attempts |-> n, success |-> ok, token |-> NoToken]]
      /\ lapsed' = lapsed \ {d}
  BY <1>0 DEF Release
<1>3. row'[d].token = NoToken /\ \A e \in Deliveries : e # d => row'[e] = row[e]
  BY <1>2 DEF TypeOK
<1>4. [e \in Deliveries |-> row'[e].token] = [[e \in Deliveries |-> row[e].token] EXCEPT ![d] = NoToken]
  BY <1>3
<1>5. Protocol!Settle(d)
  BY <1>1, <1>2, <1>4 DEF Protocol!Settle
<1> QED BY <1>5 DEF Protocol!Next

\* The claim statement takes its rows.
LEMMA ProtocolClaim ==
  ASSUME TypeOK, NEW r \in Replicas, NEW S \in SUBSET Candidates, NEW tok \in [S -> Fresh],
         Claim(r, S, tok)
  PROVE  Protocol!Next
<1>1. \A d \in S : d \in Deliveries /\ tok[d] \in Fresh /\ (row[d].token = NoToken \/ d \in lapsed)
  BY DEF Candidates
<1>2. \A k \in Fresh : k \in Tokens /\ worker[k].pc = "free" /\ \A d \in Deliveries : row[d].token # k
  BY DEF Fresh
<1>3. /\ S # {}
      /\ \A c, d \in S : tok[c] = tok[d] => c = d
      /\ lapsed' = lapsed \ S
      /\ \A d \in Deliveries : row'[d] = IF d \in S THEN [row[d] EXCEPT !.token = tok[d]] ELSE row[d]
      /\ \A k \in Tokens : ~(\E d \in S : tok[d] = k) => worker'[k] = worker[k]
      /\ \A k \in Tokens : (\E d \in S : tok[d] = k) => worker'[k].pc = "claimed"
  BY DEF Claim
<1>4. \A d \in Deliveries : row'[d].token = IF d \in S THEN tok[d] ELSE row[d].token
  <2> TAKE d \in Deliveries
  <2>1. row[d] \in Row
    BY DEF TypeOK
  <2>2. CASE d \in S
    <3>1. row'[d] = [row[d] EXCEPT !.token = tok[d]]
      BY <1>3, <2>2
    <3> QED BY <2>1, <2>2, <3>1 DEF Row
  <2>3. CASE d \notin S
    BY <1>3, <2>3
  <2> QED BY <2>2, <2>3
<1>5. Acting' = Acting \cup {tok[d] : d \in S}
  <2>1. ASSUME NEW k \in Tokens
        PROVE  k \in Acting' <=> k \in Acting \/ \E d \in S : tok[d] = k
    BY <1>3 DEF Acting
  <2>2. \A d \in S : tok[d] \in Tokens
    BY <1>1, <1>2
  <2> QED BY <2>1, <2>2 DEF Acting
<1>6. tok \in [S -> Protocol!Fresh]
  BY <1>1, <1>2 DEF Protocol!Fresh, Acting
<1>7. Protocol!Take(S, tok)
  BY <1>1, <1>3, <1>4, <1>5 DEF Protocol!Take
<1>8. S \in SUBSET Deliveries
  BY <1>1
<1> QED BY <1>6, <1>7, <1>8 DEF Protocol!Next

\* A batch entry settles or extends what it holds, and stops when it holds nothing.
LEMMA ProtocolWorker ==
  ASSUME TypeOK, NEW k \in Tokens, WorkerStep(k)
  PROVE  Protocol!Next \/ UNCHANGED Protocol!vars
<1>0. worker[k].pc \in ActingPCs <=> k \in Acting
  BY DEF Acting, ActingPCs
<1>1. CASE LookUp(k)
  <2>1. k \in Acting /\ (Become(k, "rejected") \/ Become(k, "checked")) /\ UNCHANGED <<row, lapsed>>
    BY <1>0, <1>1 DEF LookUp, ActingPCs
  <2>2. Acting' = Acting
    BY <2>1, GoesOnActing DEF ActingPCs
  <2> QED BY <2>1, <2>2, ProtocolStutters
<1>2. CASE DeadLetter(k)
  <2>1. k \in Acting /\ Acting' = Acting \ {k}
    BY <1>0, <1>2, StopsActing DEF DeadLetter, ActingPCs
  <2>2. CASE Holds(k)
    BY <1>2, <2>1, <2>2, ProtocolSettles DEF DeadLetter
  <2>3. CASE ~Holds(k)
    BY <1>2, <2>1, <2>3, ProtocolQuitsAlone DEF DeadLetter
  <2> QED BY <2>2, <2>3
<1>3. CASE ExtendClaim(k)
  <2>0. k \in Acting /\ row' = row
    BY <1>0, <1>3 DEF ExtendClaim, ActingPCs
  <2>1. CASE Holds(k)
    <3>1. PICK d \in Deliveries : d = worker[k].row
      BY EntryType
    <3>2. Acting' = Acting
      BY <1>3, <2>0, <2>1, GoesOnActing DEF ExtendClaim, ActingPCs
    <3>3. row[d].token = k /\ lapsed' = lapsed \ {d}
      BY <1>3, <2>1, <3>1 DEF ExtendClaim, Holds
    <3>4. Protocol!Extend(d)
      BY <2>0, <3>2, <3>3 DEF Protocol!Extend
    <3> QED BY <3>4 DEF Protocol!Next
  <2>2. CASE ~Holds(k)
    <3>1. Acting' = Acting \ {k} /\ lapsed' = lapsed
      BY <1>3, <2>2, StopsActing DEF ExtendClaim
    <3> QED BY <2>0, <3>1, ProtocolQuitsAlone
  <2> QED BY <2>1, <2>2
<1>4. ASSUME NEW ok \in BOOLEAN, FinishSend(k, ok) PROVE Protocol!Next
  <2>1. k \in Acting
    BY <1>0, <1>4 DEF FinishSend, ActingPCs
  <2>2. Acting' = Acting \ {k}
    <3>1. Become(k, "disabling") \/ Leave(k)
      BY <1>4 DEF FinishSend
    <3> QED BY <3>1, StopsActing
  <2>3. CASE Holds(k)
    <3>1. PICK due, n, done : Release(k, due, n, done)
      BY <1>4, <2>3 DEF FinishSend
    <3> QED BY <2>1, <2>2, <2>3, <3>1, ProtocolSettles
  <2>4. CASE ~Holds(k)
    <3>1. UNCHANGED <<row, lapsed>>
      BY <1>4, <2>4 DEF FinishSend
    <3> QED BY <2>1, <2>2, <3>1, ProtocolQuitsAlone
  <2> QED BY <2>3, <2>4
<1>5. CASE AutoDisable(k)
  <2>1. k \notin Acting /\ Acting' = Acting \ {k} /\ UNCHANGED <<row, lapsed>>
    BY <1>0, <1>5, StopsActing DEF AutoDisable, ActingPCs
  <2> QED BY <2>1, ProtocolStutters
<1> QED BY <1>1, <1>2, <1>3, <1>4, <1>5 DEF WorkerStep

\* Events and operators touch no claim, not even a redelivery; batches may be given
\* up and claims may lapse.
LEMMA ProtocolEnvironment ==
  ASSUME TypeOK,
         OperatorStep \/ FaultStep \/ \E d \in Deliveries : Enqueue(d) \/ Lapse(d) \/ BecomesDue(d)
  PROVE  Protocol!Next \/ UNCHANGED Protocol!vars
<1>1. ASSUME UNCHANGED <<lapsed, worker>>, \A e \in Deliveries : row'[e].token = row[e].token
      PROVE  UNCHANGED Protocol!vars
  BY <1>1, ProtocolStutters DEF Acting
<1>2. ASSUME NEW d \in Deliveries, Enqueue(d) \/ BecomesDue(d) PROVE UNCHANGED Protocol!vars
  <2>1. row' = [row EXCEPT ![d].due = "now"] /\ UNCHANGED <<lapsed, worker>>
    BY <1>2 DEF Enqueue, BecomesDue
  <2>2. \A e \in Deliveries : row'[e].token = row[e].token
    BY <2>1 DEF TypeOK, Row
  <2> QED BY <1>1, <2>1, <2>2
<1>3. ASSUME NEW d \in Deliveries, NEW ok \in BOOLEAN, Redelivered(d, ok)
      PROVE  UNCHANGED Protocol!vars
  <2>1. \A e \in Deliveries : row'[e].token = row[e].token
    <3>1. row' = [row EXCEPT ![d] = [row[d] EXCEPT !.success = ok, !.attempts = @ + 1]]
      BY <1>3 DEF Redelivered
    <3>2. CASE ok = TRUE
      BY <3>1, <3>2 DEF TypeOK, Row
    <3>3. CASE ok = FALSE
      BY <3>1, <3>3 DEF TypeOK, Row
    <3> QED BY <3>2, <3>3
  <2> QED BY <1>1, <1>3, <2>1 DEF Redelivered
<1>4. CASE \/ \E d \in Deliveries : Redeliver(d) \/ RedeliverFails(d)
           \/ \E w \in Webhooks : EnableWebhook(w) \/ DisableWebhook(w)
  BY <1>1, <1>4 DEF Redeliver, RedeliverFails, EnableWebhook, DisableWebhook
<1>5. ASSUME NEW d \in Deliveries, Lapse(d) PROVE Protocol!Next
  <2>1. Protocol!Expire(d)
    BY <1>5 DEF Lapse, Protocol!Expire, Acting
  <2> QED BY <2>1 DEF Protocol!Next
<1>6. ASSUME NEW r \in Replicas, BatchFails(r) PROVE Protocol!Next
  <2>1. PICK K \in SUBSET Tokens : K = {k \in Acting : worker[k].replica = r}
    BY DEF Acting
  <2>2. Acting' = Acting \ K /\ UNCHANGED <<row, lapsed>>
    BY <1>6, <2>1 DEF BatchFails, Acting, FreeWorker
  <2> QED BY <2>1, <2>2, ProtocolQuits
<1>7. ASSUME NEW k \in Tokens, StatementFails(k) PROVE Protocol!Next \/ UNCHANGED Protocol!vars
  <2>1. Acting' = Acting \ {k} /\ UNCHANGED <<row, lapsed>>
    BY <1>7, StopsActing DEF StatementFails
  <2>2. CASE k \in Acting
    BY <2>1, <2>2, ProtocolQuitsAlone
  <2>3. CASE k \notin Acting
    BY <2>1, <2>3, ProtocolStutters
  <2> QED BY <2>2, <2>3
<1> QED BY <1>2, <1>3, <1>4, <1>5, <1>6, <1>7 DEF OperatorStep, FaultStep

LEMMA ProtocolInit == Init => Protocol!Init
<1> SUFFICES ASSUME Init PROVE Protocol!Init OBVIOUS
<1>1. \A d \in Deliveries : row[d].token = NoToken
  BY DEF Init, NoRow
<1>2. lapsed = {} /\ Acting = {}
  BY DEF Init, Acting, FreeWorker
<1> QED BY <1>1, <1>2 DEF Protocol!Init

\* Every behaviour of the retry queue is one of the claim protocol: a delivery goes
\* to a new replica only when its holder gave it up or its claim has lapsed, and an
\* operator's redelivery never touches a claim (claim_due_webhook_deliveries,
\* extend_webhook_delivery_claim and the token-guarded finalizers).
THEOREM RetryQueueRefinesProtocol == Spec => ImplementsClaimQueue
<1>1. TypeOK /\ [Next]_vars => [Protocol!Next]_(Protocol!vars)
  <2> SUFFICES ASSUME TypeOK, [Next]_vars PROVE Protocol!Next \/ UNCHANGED Protocol!vars
    OBVIOUS
  <2>1. CASE UNCHANGED vars
    BY <2>1, ProtocolStutters DEF vars, Acting
  <2>2. CASE Next
    BY <2>2, ProtocolClaim, ProtocolWorker, ProtocolEnvironment DEF Next, ClaimBatch
  <2> QED BY <2>1, <2>2
<1> QED BY <1>1, ProtocolInit, TypeCorrect, PTL DEF Spec, ImplementsClaimQueue, Protocol!Spec

=============================================================================
