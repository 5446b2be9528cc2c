--------------------------- MODULE SyncQueueProofs ---------------------------
(***************************************************************************)
(* Proofs about SyncQueue for any number of replicas, peers, tasks and     *)
(* tokens, any limit, and any number of faults.                            *)
(***************************************************************************)
EXTENDS SyncQueue, FiniteSetTheorems, TLAPS

USE SyncQueueAssumption

\* Counters are clamped at zero, so they stay natural numbers.
LEMMA Max0Type == \A n \in Int : Max0(n) \in Nat
BY DEF Max0

\* A freed worker is well typed.
LEMMA FreeWorkerType == FreeWorker \in Worker
BY DEF FreeWorker, Worker

\* A new row is well typed.
LEMMA NewRowType == \A s \in Statuses : NewRow(s) \in Row
BY DEF NewRow, Row

\* So is a row whose claim is dropped.
LEMMA UnclaimedType ==
  ASSUME TypeOK, NEW t \in Tasks, NEW s \in Statuses
  PROVE  Unclaimed(t, s) \in Row
<1>1. task[t] \in Row
  BY DEF TypeOK
<1> QED BY <1>1 DEF Unclaimed, Row

\* The number of rows of any selection is a natural number.
LEMMA CountType ==
  ASSUME NEW S \in SUBSET Tasks
  PROVE  Cardinality(S) \in Nat
BY FS_Subset, FS_CardinalityType

\* A handler goes on to a statement of the same kind, or stops.
LEMMA DoneType ==
  ASSUME TypeOK, NEW e \in todo
  PROVE  Done(e) \subseteq Statement /\ todo \ {e} \subseteq Statement
BY DEF TypeOK, Done, After, Statement

-----------------------------------------------------------------------------
(* TypeOK is inductive. *)

\* Every initial state is well typed.
LEMMA TypeInit == Init => TypeOK
<1> SUFFICES ASSUME Init PROVE TypeOK OBVIOUS
<1>1. task \in [Tasks -> Row]
  BY NewRowType DEF Init, Statuses
<1>2. active \in [Peers -> Nat]
  BY DEF Init
<1>3. worker \in [Tokens -> Worker]
  BY FreeWorkerType DEF Init
<1>4. tick \in [Replicas -> Tick]
  BY DEF Init, IdleTick, NoSlots, Tick
<1> QED BY <1>1, <1>2, <1>3, <1>4 DEF Init, TypeOK

\* The claim statement with the rows S and their tokens tok.
LEMMA TypeClaim ==
  ASSUME TypeOK, NEW r \in Replicas, NEW p \in Peers, NEW S \in SUBSET Candidates(p),
         NEW tok, \A t \in S : tok[t] \in Fresh, Claim(r, p, S, tok)
  PROVE  TypeOK'
<1> USE DEF TypeOK, peerVars
<1>1. \A t \in S : t \in Tasks /\ tok[t] \in Tokens
  BY DEF Candidates, Fresh
<1>2. task' \in [Tasks -> Row]
  <2>1. ASSUME NEW t \in S
        PROVE  [task[t] EXCEPT !.status = "in_progress", !.token = tok[t]] \in Row
    <3>1. task[t] \in Row /\ tok[t] \in Tokens
      BY <1>1
    <3> QED BY <3>1 DEF Row, Statuses
  <2> QED BY <2>1 DEF Claim
<1>3. worker' \in [Tokens -> Worker]
  <2>1. ASSUME NEW k \in Tokens, \E t \in S : tok[t] = k
        PROVE  worker'[k] \in Worker
    <3>1. PICK t \in S : t = CHOOSE u \in S : tok[u] = k
      BY <2>1
    <3>2. worker'[k] = [pc |-> "claimed", task |-> t, retry |-> task[t].retry]
      BY <2>1, <3>1 DEF Claim
    <3>3. t \in Tasks /\ task[t].retry \in Nat
      BY <1>1 DEF Row
    <3> QED BY <3>2, <3>3 DEF Worker
  <2>2. ASSUME NEW k \in Tokens, ~ \E t \in S : tok[t] = k
        PROVE  worker'[k] \in Worker
    BY <2>2 DEF Claim
  <2>3. worker' = [k \in Tokens |-> worker'[k]]
    BY DEF Claim
  <2> QED BY <2>1, <2>2, <2>3
<1>4. tick' \in [Replicas -> Tick]
  <2>1. [tick[r].slots EXCEPT ![p] = 0] \in [Peers -> Nat]
    BY DEF Tick
  <2>2. tick' = [tick EXCEPT ![r] = [tick[r] EXCEPT !.slots = [tick[r].slots EXCEPT ![p] = 0]]]
    BY DEF Claim
  <2>3. [tick[r] EXCEPT !.slots = [tick[r].slots EXCEPT ![p] = 0]] \in Tick
    BY <2>1 DEF Tick
  <2> QED BY <2>2, <2>3
<1> QED BY <1>2, <1>3, <1>4 DEF Claim

\* Each statement of a tick keeps the types.
LEMMA TypeTick ==
  ASSUME TypeOK, NEW r \in Replicas, TickStep(r) \/ \E p \in Peers : SkipPeer(r, p)
  PROVE  TypeOK'
<1> USE DEF TypeOK, peerVars
<1>1. CASE Recover(r)
  <2>1. task' \in [Tasks -> Row]
    BY <1>1, UnclaimedType DEF Recover, Statuses
  <2>2. active' \in [Peers -> Nat]
    <3>1. ASSUME NEW p \in Peers
          PROVE  Max0(active[p] - Cardinality({t \in Tasks : PeerOf[t] = p /\ Abandoned(t)})) \in Nat
      <4>1. Cardinality({t \in Tasks : PeerOf[t] = p /\ Abandoned(t)}) \in Nat
        BY CountType
      <4> QED BY <4>1, Max0Type
    <3> QED BY <1>1, <3>1 DEF Recover
  <2>3. tick' \in [Replicas -> Tick]
    BY <1>1 DEF Recover, Tick
  <2> QED BY <1>1, <2>1, <2>2, <2>3 DEF Recover
<1>2. CASE FetchPeers(r)
  <2>1. \A p \in Peers : Max0(compute_available_slots(p)) \in Nat
    BY Max0Type DEF compute_available_slots
  <2>2. tick' \in [Replicas -> Tick]
    BY <1>2, <2>1 DEF FetchPeers, Tick, IdleTick, NoSlots
  <2> QED BY <1>2, <2>2 DEF FetchPeers
<1>3. CASE ResetFailed(r)
  <2>1. task' \in [Tasks -> Row]
    BY <1>3, UnclaimedType DEF ResetFailed, Statuses
  <2>2. tick' \in [Replicas -> Tick]
    BY <1>3 DEF ResetFailed, Tick
  <2> QED BY <1>3, <2>1, <2>2 DEF ResetFailed
<1>4. ASSUME NEW p \in Peers, ClaimPeer(r, p) PROVE TypeOK'
  <2>1. PICK S \in SUBSET Candidates(p) : \E tok \in [S -> Fresh] : Claim(r, p, S, tok)
    BY <1>4 DEF ClaimPeer
  <2>2. PICK tok \in [S -> Fresh] : Claim(r, p, S, tok)
    BY <2>1
  <2>3. \A t \in S : tok[t] \in Fresh
    OBVIOUS
  <2> QED BY <2>2, <2>3, TypeClaim
<1>5. CASE EndTick(r)
  BY <1>5 DEF EndTick, IdleTick, NoSlots, Tick
<1>6. ASSUME NEW p \in Peers, SkipPeer(r, p) PROVE TypeOK'
  BY <1>6 DEF SkipPeer, Tick
<1> QED BY <1>1, <1>2, <1>3, <1>4, <1>5, <1>6 DEF TickStep

\* Each statement of a worker keeps the types.
LEMMA TypeWorker ==
  ASSUME TypeOK, NEW k \in Tokens, WorkerStep(k) \/ ExtendClaim(k)
  PROVE  TypeOK'
<1> USE DEF TypeOK, peerVars
<1>0. worker[k].task \in Tasks /\ PeerOf[worker[k].task] \in Peers
  BY DEF Worker
<1>1. CASE SkipFiltered(k)
  BY <1>0, <1>1, UnclaimedType, FreeWorkerType DEF SkipFiltered, Finalize, Statuses
<1>2. CASE StartTransfer(k)
  BY <1>0, <1>2 DEF StartTransfer, Worker
<1>3. CASE ExtendClaim(k)
  BY <1>0, <1>3 DEF ExtendClaim, Row
<1>4. CASE FinalizeSuccess(k)
  BY <1>0, <1>4, UnclaimedType, FreeWorkerType DEF FinalizeSuccess, Finalize, Statuses, Worker
<1>5. CASE FinalizeFailure(k)
  <2>1. [Unclaimed(worker[k].task, "failed") EXCEPT !.retry = worker[k].retry + 1] \in Row
    <3>1. Unclaimed(worker[k].task, "failed") \in Row
      BY <1>0, UnclaimedType DEF Statuses
    <3>2. worker[k].retry + 1 \in Nat
      BY DEF Worker
    <3> QED BY <3>1, <3>2 DEF Row
  <2>2. task' \in [Tasks -> Row] /\ lapsed' \subseteq Tasks
    BY <1>0, <1>5, <2>1 DEF FinalizeFailure, Finalize
  <2>3. worker' \in [Tokens -> Worker]
    BY <1>5, FreeWorkerType DEF FinalizeFailure, Worker
  <2> QED BY <1>5, <2>2, <2>3 DEF FinalizeFailure
<1>6. CASE SettleCounters(k)
  <2>1. Max0(active[PeerOf[worker[k].task]] - 1) \in Nat
    BY <1>0, Max0Type
  <2>2. active' \in [Peers -> Nat]
    BY <1>0, <1>6, <2>1 DEF SettleCounters
  <2> QED BY <1>6, <2>2, FreeWorkerType DEF SettleCounters
<1> QED BY <1>1, <1>2, <1>3, <1>4, <1>5, <1>6 DEF WorkerStep

\* So do the other services, faults and the passing of time.
LEMMA TypeEnvironment ==
  ASSUME TypeOK,
         QueueStep \/ FaultStep
           \/ \E p \in Peers : BackoffElapses(p) \/ PeerOnline(p) \/ PeerOffline(p)
  PROVE  TypeOK'
<1> USE DEF TypeOK, peerVars
<1>1. ASSUME NEW p \in Peers, BackoffElapses(p) \/ PeerOnline(p) \/ PeerOffline(p)
      PROVE  TypeOK'
  BY <1>1 DEF BackoffElapses, PeerOnline, PeerOffline
<1>2. ASSUME NEW t \in Tasks, Enqueue(t) \/ Withdraw(t) \/ Requeue(t)
      PROVE  TypeOK'
  <2>1. NewRow("pending") \in Row /\ Unclaimed(t, "pending") \in Row
    BY NewRowType, UnclaimedType DEF Statuses
  <2>2. \A s \in Tasks : [task[s] EXCEPT !.status = "cancelled"] \in Row
    BY DEF Row, Statuses
  <2>3. task' \in [Tasks -> Row]
    BY <1>2, <2>1, <2>2 DEF Enqueue, Withdraw, Requeue
  <2>4. todo' \subseteq Statement
    BY <1>2, DoneType DEF Enqueue, Withdraw, Requeue
  <2> QED BY <1>2, <2>3, <2>4 DEF Enqueue, Withdraw, Requeue
<1>3. ASSUME NEW a \in Artifacts, DeleteArtifact(a) \/ Reupload(a)
      PROVE  TypeOK'
  BY <1>3 DEF DeleteArtifact, Reupload, Statement
<1>4. ASSUME NEW a \in Artifacts, CancelSuperseded(a) \/ EnqueueDeletes(a)
      PROVE  TypeOK'
  <2>1. task' \in [Tasks -> Row]
    BY <1>4, NewRowType DEF CancelSuperseded, EnqueueDeletes, Statuses, Row
  <2>2. todo' \subseteq Statement
    BY <1>4, DoneType DEF CancelSuperseded, EnqueueDeletes
  <2> QED BY <1>4, <2>1, <2>2 DEF CancelSuperseded, EnqueueDeletes
<1>8. ASSUME NEW a \in Artifacts, NEW desired, Evaluate(a, desired) PROVE TypeOK'
  <2>1. todo' \subseteq Statement
    BY <1>8 DEF Evaluate, Due, Statement
  <2> QED BY <1>8, <2>1 DEF Evaluate
<1>9. ASSUME NEW e \in todo, HandlerFails(e) PROVE TypeOK'
  BY <1>9, DoneType DEF HandlerFails, CountFault
<1>5. ASSUME NEW k \in Tokens, WorkerFails(k) PROVE TypeOK'
  BY <1>5, FreeWorkerType DEF WorkerFails, CountFault
<1>6. ASSUME NEW r \in Replicas, TickFails(r) PROVE TypeOK'
  BY <1>6 DEF TickFails, CountFault, IdleTick, NoSlots, Tick
<1>7. ASSUME NEW t \in Tasks, Lapse(t) PROVE TypeOK'
  BY <1>7 DEF Lapse, CountFault, Row
<1> QED BY <1>1, <1>2, <1>3, <1>4, <1>5, <1>6, <1>7, <1>8, <1>9 DEF QueueStep, FaultStep

\* Type correctness of the queue, the peers' counters, the workers and the ticks.
THEOREM TypeCorrect == Spec => []TypeOK
<1>1. TypeOK /\ [Next]_vars => TypeOK'
  <2> SUFFICES ASSUME TypeOK, [Next]_vars PROVE TypeOK' OBVIOUS
  <2>1. CASE UNCHANGED vars
    BY <2>1 DEF vars, peerVars, TypeOK
  <2>2. CASE Next
    BY <2>2, TypeTick, TypeWorker, TypeEnvironment DEF Next
  <2> QED BY <2>1, <2>2
<1> QED BY TypeInit, <1>1, PTL DEF Spec

-----------------------------------------------------------------------------
(* ClaimIntegrity is inductive once the types are known. *)

\* Statements that leave the workers alone may drop claims and change statuses,
\* as long as a row that keeps its token stays in_progress with its retry_count.
LEMMA RowsChange ==
  ASSUME TypeOK, ClaimIntegrity, worker' = worker,
         \A t \in Tasks :
           \/ task'[t].token = NoToken
           \/ /\ task'[t].token = task[t].token
              /\ task'[t].retry = task[t].retry
              /\ task[t].status = "in_progress" => task'[t].status = "in_progress",
         \A t \in lapsed' : task'[t].token # NoToken
  PROVE  ClaimIntegrity'
BY DEF ClaimIntegrity

\* A worker that ends leaves its row as it is.
LEMMA WorkerEnds ==
  ASSUME TypeOK, ClaimIntegrity, NEW k \in Tokens, UNCHANGED <<task, lapsed>>,
         worker' = [worker EXCEPT ![k] = FreeWorker]
  PROVE  ClaimIntegrity'
BY DEF ClaimIntegrity, TypeOK, FreeWorker

\* The owner of a claim settles its row: no other row has its token.
LEMMA OwnerSettles ==
  ASSUME TypeOK, ClaimIntegrity, NEW k \in Tokens, Owns(k),
         NEW row, row.token = NoToken, Finalize(k, row),
         NEW w, worker' = [worker EXCEPT ![k] = w]
  PROVE  ClaimIntegrity'
<1> DEFINE t == worker[k].task
<1>1. t \in Tasks /\ task[t].token = k /\ k # NoToken
  BY DEF Owns, TypeOK, Worker
<1>2. \A s \in Tasks \ {t} : task'[s] = task[s] /\ task[s].token # k
  BY <1>1 DEF Finalize, ClaimIntegrity, TypeOK
<1>3. task'[t].token = NoToken
  BY <1>1 DEF Finalize, TypeOK
<1>4. \A j \in Tokens \ {k} : worker'[j] = worker[j]
  BY DEF TypeOK
<1>5. \A s \in Tasks : task'[s].status # "in_progress" => task'[s].token = NoToken
  BY <1>2, <1>3 DEF ClaimIntegrity
<1>6. \A s \in lapsed' : task'[s].token # NoToken
  BY <1>2 DEF ClaimIntegrity, Finalize, TypeOK
<1>7. \A s, u \in Tasks : task'[s].token = task'[u].token /\ task'[s].token # NoToken => s = u
  BY <1>2, <1>3 DEF ClaimIntegrity
<1>8. \A s \in Tasks : \A j \in Tokens :
        task'[s].token = j /\ worker'[j].pc # "free" =>
          /\ worker'[j].pc \in {"claimed", "running"}
          /\ worker'[j].task = s
          /\ worker'[j].retry = task'[s].retry
  BY <1>1, <1>2, <1>3, <1>4 DEF ClaimIntegrity
<1> QED BY <1>5, <1>6, <1>7, <1>8 DEF ClaimIntegrity

\* The claim statement hands out tokens nothing refers to, one per row.
LEMMA IntegrityClaim ==
  ASSUME TypeOK, ClaimIntegrity, NEW r \in Replicas, NEW p \in Peers,
         NEW S \in SUBSET Candidates(p),
         NEW tok, \A t \in S : tok[t] \in Fresh, Claim(r, p, S, tok)
  PROVE  ClaimIntegrity'
<1>1. \A t \in S : /\ t \in Tasks
                   /\ tok[t] \in Tokens
                   /\ worker[tok[t]].pc = "free"
                   /\ \A u \in Tasks : task[u].token # tok[t]
  BY DEF Candidates, Fresh
<1>2. \A s, t \in S : tok[s] = tok[t] => s = t
  BY DEF Claim
<1>3. ASSUME NEW t \in S
      PROVE  /\ task'[t].status = "in_progress"
             /\ task'[t].token = tok[t]
             /\ task'[t].retry = task[t].retry
             /\ tok[t] # NoToken
  <2>1. t \in Tasks /\ task[t] \in Row
    BY <1>1 DEF TypeOK
  <2>2. task'[t] = [task[t] EXCEPT !.status = "in_progress", !.token = tok[t]]
    BY <2>1 DEF Claim
  <2> QED BY <1>1, <2>1, <2>2 DEF Row
<1>4. \A t \in Tasks \ S : task'[t] = task[t]
  BY DEF Claim
<1>5. ASSUME NEW t \in S
      PROVE  worker'[tok[t]] = [pc |-> "claimed", task |-> t, retry |-> task[t].retry]
  <2>1. t = CHOOSE u \in S : tok[u] = tok[t]
    BY <1>2
  <2> QED BY <1>1, <2>1 DEF Claim
<1>6. ASSUME NEW k \in Tokens, ~ \E t \in S : tok[t] = k
      PROVE  worker'[k] = worker[k]
  BY <1>6 DEF Claim
<1>7. \A t \in Tasks : task'[t].status # "in_progress" => task'[t].token = NoToken
  BY <1>3, <1>4 DEF ClaimIntegrity
<1>8. \A t \in lapsed' : task'[t].token # NoToken
  BY <1>4 DEF ClaimIntegrity, Claim, TypeOK
<1>9. ASSUME NEW s \in Tasks, NEW t \in Tasks,
             task'[s].token = task'[t].token, task'[s].token # NoToken
      PROVE  s = t
  <2>1. CASE s \in S /\ t \in S
    BY <1>2, <1>3, <1>9, <2>1
  <2>2. CASE s \in S /\ t \notin S
    BY <1>1, <1>3, <1>4, <1>9, <2>2
  <2>3. CASE s \notin S /\ t \in S
    BY <1>1, <1>3, <1>4, <1>9, <2>3
  <2>4. CASE s \notin S /\ t \notin S
    BY <1>4, <1>9, <2>4 DEF ClaimIntegrity
  <2> QED BY <2>1, <2>2, <2>3, <2>4
<1>10. ASSUME NEW t \in Tasks, NEW k \in Tokens, task'[t].token = k, worker'[k].pc # "free"
       PROVE  /\ worker'[k].pc \in {"claimed", "running"}
              /\ worker'[k].task = t
              /\ worker'[k].retry = task'[t].retry
  <2>1. CASE t \in S
    <3>1. k = tok[t] /\ task'[t].retry = task[t].retry
      BY <1>3, <1>10, <2>1
    <3>2. worker'[k] = [pc |-> "claimed", task |-> t, retry |-> task[t].retry]
      BY <1>5, <2>1, <3>1
    <3> QED BY <3>1, <3>2
  <2>2. CASE t \notin S
    <3>1. task[t].token = k
      BY <1>4, <1>10, <2>2
    <3>2. worker'[k] = worker[k]
      BY <1>1, <1>6, <3>1
    <3> QED BY <1>4, <1>10, <2>2, <3>1, <3>2 DEF ClaimIntegrity
  <2> QED BY <2>1, <2>2
<1> QED BY <1>7, <1>8, <1>9, <1>10 DEF ClaimIntegrity

\* Each statement of a tick keeps rows and workers in agreement.
LEMMA IntegrityTick ==
  ASSUME TypeOK, ClaimIntegrity, NEW r \in Replicas,
         TickStep(r) \/ \E p \in Peers : SkipPeer(r, p)
  PROVE  ClaimIntegrity'
<1>1. CASE Recover(r)
  <2>1. \A t \in Tasks : task'[t] = IF Abandoned(t) THEN Unclaimed(t, "pending") ELSE task[t]
    BY <1>1 DEF Recover
  <2>2. \A t \in Tasks : Unclaimed(t, "pending").token = NoToken
    BY DEF Unclaimed, TypeOK, Row
  <2>3. \A t \in lapsed' : task'[t].token # NoToken
    BY <1>1, <2>1 DEF Recover, ClaimIntegrity, TypeOK
  <2> QED BY <1>1, <2>1, <2>2, <2>3, RowsChange DEF Recover
<1>2. CASE ResetFailed(r)
  <2>1. \A t \in Tasks : task'[t] = task[t] \/ (task[t].status = "failed" /\ task'[t] = Unclaimed(t, "pending"))
    BY <1>2 DEF ResetFailed
  <2>2. \A t \in Tasks : Unclaimed(t, "pending").token = NoToken
    BY DEF Unclaimed, TypeOK, Row
  <2>3. \A t \in lapsed' : task'[t].token # NoToken
    BY <1>2, <2>1 DEF ResetFailed, ClaimIntegrity, TypeOK
  <2> QED BY <1>2, <2>1, <2>2, <2>3, RowsChange DEF ResetFailed
<1>3. ASSUME NEW p \in Peers, ClaimPeer(r, p) PROVE ClaimIntegrity'
  <2>1. PICK S \in SUBSET Candidates(p) : \E tok \in [S -> Fresh] : Claim(r, p, S, tok)
    BY <1>3 DEF ClaimPeer
  <2>2. PICK tok \in [S -> Fresh] : Claim(r, p, S, tok)
    BY <2>1
  <2>3. \A t \in S : tok[t] \in Fresh
    OBVIOUS
  <2> QED BY <2>2, <2>3, IntegrityClaim
<1>4. CASE FetchPeers(r) \/ EndTick(r) \/ \E p \in Peers : SkipPeer(r, p)
  BY <1>4 DEF FetchPeers, EndTick, SkipPeer, ClaimIntegrity
<1> QED BY <1>1, <1>2, <1>3, <1>4 DEF TickStep

\* Each statement of a worker keeps rows and workers in agreement.
LEMMA IntegrityWorker ==
  ASSUME TypeOK, ClaimIntegrity, NEW k \in Tokens, WorkerStep(k) \/ ExtendClaim(k)
  PROVE  ClaimIntegrity'
<1> DEFINE t == worker[k].task
<1>0. /\ t \in Tasks
      /\ Unclaimed(t, "completed").token = NoToken
      /\ [Unclaimed(t, "failed") EXCEPT !.retry = worker[k].retry + 1].token = NoToken
  BY DEF TypeOK, Worker, Row, Unclaimed
<1>1. CASE SkipFiltered(k)
  <2>1. CASE Owns(k)
    BY <1>0, <1>1, <2>1, OwnerSettles DEF SkipFiltered
  <2>2. CASE ~Owns(k)
    BY <1>1, <2>2, WorkerEnds DEF SkipFiltered
  <2> QED BY <2>1, <2>2
<1>2. CASE StartTransfer(k)
  BY <1>2 DEF StartTransfer, ClaimIntegrity, TypeOK, Worker
<1>3. CASE ExtendClaim(k)
  <2>1. worker' = worker /\ task' = task /\ lapsed' \subseteq lapsed
    BY <1>3 DEF ExtendClaim
  <2> QED BY <2>1 DEF ClaimIntegrity
<1>4. CASE FinalizeSuccess(k)
  <2>1. CASE Owns(k)
    <3>1. worker' = [worker EXCEPT ![k] = [worker[k] EXCEPT !.pc = "succeeded"]]
      BY <1>4, <2>1 DEF FinalizeSuccess
    <3> QED BY <1>0, <1>4, <2>1, <3>1, OwnerSettles DEF FinalizeSuccess
  <2>2. CASE ~Owns(k)
    BY <1>4, <2>2, WorkerEnds DEF FinalizeSuccess
  <2> QED BY <2>1, <2>2
<1>5. CASE FinalizeFailure(k)
  <2>1. CASE Owns(k)
    <3>1. worker' = [worker EXCEPT ![k] = [worker[k] EXCEPT !.pc = "failed"]]
      BY <1>5, <2>1 DEF FinalizeFailure
    <3> QED BY <1>0, <1>5, <2>1, <3>1, OwnerSettles DEF FinalizeFailure
  <2>2. CASE ~Owns(k)
    BY <1>5, <2>2, WorkerEnds DEF FinalizeFailure
  <2> QED BY <2>1, <2>2
<1>6. CASE SettleCounters(k)
  BY <1>6, WorkerEnds DEF SettleCounters
<1> QED BY <1>1, <1>2, <1>3, <1>4, <1>5, <1>6 DEF WorkerStep

\* The columns that the statements write leave the others alone.
LEMMA RowColumns ==
  ASSUME TypeOK, NEW t \in Tasks, NEW s
  PROVE  /\ Unclaimed(t, s).status = s
         /\ Unclaimed(t, s).token = NoToken
         /\ Unclaimed(t, s).retry = task[t].retry
         /\ [task[t] EXCEPT !.status = s].token = task[t].token
         /\ [task[t] EXCEPT !.status = s].retry = task[t].retry
BY DEF TypeOK, Row, Unclaimed

\* The services touch only rows that no worker holds: they insert a row, or
\* change the status of one and keep its retry_count.
LEMMA QueueStepRows ==
  ASSUME TypeOK, ClaimIntegrity, QueueStep, NEW t \in Tasks
  PROVE  \/ task'[t] = task[t]
         \/ /\ task[t].status # "in_progress"
            /\ task'[t].token = NoToken
            /\ task[t].status = "absent" \/ task'[t].retry = task[t].retry
<1>1. ASSUME NEW s \in Tasks, Enqueue(s)
      PROVE  task'[t] = task[t] \/ (task[t].status = "absent" /\ task'[t] = NewRow("pending"))
  BY <1>1 DEF Enqueue, TypeOK
<1>2. ASSUME NEW s \in Tasks, Requeue(s)
      PROVE  task'[t] = task[t] \/ (task[t].status # "in_progress" /\ task'[t] = Unclaimed(t, "pending"))
  BY <1>2 DEF Requeue, TypeOK
<1>3. ASSUME NEW s \in Tasks, Withdraw(s)
      PROVE  task'[t] = task[t] \/ (task[t].status = "pending"
                                      /\ task'[t] = [task[t] EXCEPT !.status = "cancelled"])
  BY <1>3 DEF Withdraw
<1>4. ASSUME NEW a \in Artifacts, CancelSuperseded(a)
      PROVE  task'[t] = task[t] \/ (task[t].status \in {"pending", "failed"}
                                      /\ task'[t] = [task[t] EXCEPT !.status = "cancelled"])
  BY <1>4 DEF CancelSuperseded
<1>5. ASSUME NEW a \in Artifacts, EnqueueDeletes(a)
      PROVE  task'[t] = task[t] \/ (task[t].status = "absent" /\ task'[t] = NewRow("pending"))
  BY <1>5 DEF EnqueueDeletes
<1>6. ASSUME NEW a \in Artifacts, NEW desired,
             DeleteArtifact(a) \/ Reupload(a) \/ Evaluate(a, desired)
      PROVE  task'[t] = task[t]
  BY <1>6 DEF DeleteArtifact, Reupload, Evaluate
<1>7. task[t].status # "in_progress" => task[t].token = NoToken
  BY DEF ClaimIntegrity
<1>8. NewRow("pending").token = NoToken
  BY DEF NewRow
<1>9. \/ task'[t] = task[t]
      \/ task[t].status = "absent" /\ task'[t] = NewRow("pending")
      \/ task[t].status # "in_progress" /\ task'[t] = Unclaimed(t, "pending")
      \/ task[t].status \in {"pending", "failed"} /\ task'[t] = [task[t] EXCEPT !.status = "cancelled"]
  BY <1>1, <1>2, <1>3, <1>4, <1>5, <1>6 DEF QueueStep
<1>10. /\ Unclaimed(t, "pending").token = NoToken
       /\ Unclaimed(t, "pending").retry = task[t].retry
       /\ [task[t] EXCEPT !.status = "cancelled"].token = task[t].token
       /\ [task[t] EXCEPT !.status = "cancelled"].retry = task[t].retry
  BY RowColumns
<1> QED BY <1>7, <1>8, <1>9, <1>10

\* So do the other services, faults and the passing of time.
LEMMA IntegrityEnvironment ==
  ASSUME TypeOK, ClaimIntegrity,
         QueueStep \/ FaultStep
           \/ \E p \in Peers : BackoffElapses(p) \/ PeerOnline(p) \/ PeerOffline(p)
  PROVE  ClaimIntegrity'
<1>1. ASSUME NEW p \in Peers, BackoffElapses(p) \/ PeerOnline(p) \/ PeerOffline(p)
      PROVE  ClaimIntegrity'
  BY <1>1 DEF BackoffElapses, PeerOnline, PeerOffline, ClaimIntegrity
<1>2. CASE QueueStep
  <2>1. ASSUME NEW t \in Tasks
        PROVE  task'[t] = task[t]
                 \/ (task[t].status # "in_progress" /\ task'[t].token = NoToken)
    BY <1>2, QueueStepRows DEF ClaimIntegrity
  <2>2. worker' = worker /\ lapsed' = lapsed
    BY <1>2 DEF QueueStep, Enqueue, Withdraw, Requeue, DeleteArtifact, Reupload,
                CancelSuperseded, EnqueueDeletes, Evaluate
  <2>3. \A t \in lapsed' : task'[t].token # NoToken
    BY <2>1, <2>2 DEF ClaimIntegrity, TypeOK
  <2> QED BY <2>1, <2>2, <2>3, RowsChange
<1>3. ASSUME NEW e \in todo, HandlerFails(e) PROVE ClaimIntegrity'
  BY <1>3 DEF HandlerFails, ClaimIntegrity
<1>5. ASSUME NEW k \in Tokens, WorkerFails(k) PROVE ClaimIntegrity'
  BY <1>5, WorkerEnds DEF WorkerFails
<1>6. ASSUME NEW r \in Replicas, TickFails(r) PROVE ClaimIntegrity'
  BY <1>6 DEF TickFails, ClaimIntegrity
<1>7. ASSUME NEW t \in Tasks, Lapse(t) PROVE ClaimIntegrity'
  BY <1>7 DEF Lapse, Live, ClaimIntegrity
<1> QED BY <1>1, <1>2, <1>3, <1>5, <1>6, <1>7 DEF FaultStep

\* No worker runs at first.
LEMMA IntegrityInit == Init => ClaimIntegrity
BY DEF Init, NewRow, FreeWorker, ClaimIntegrity

\* ClaimIntegrity is preserved by every step.
LEMMA IntegrityNext ==
  ASSUME TypeOK, ClaimIntegrity, [Next]_vars
  PROVE  ClaimIntegrity'
<1>1. CASE UNCHANGED vars
  BY <1>1 DEF vars, ClaimIntegrity
<1>2. CASE Next
  BY <1>2, IntegrityTick, IntegrityWorker, IntegrityEnvironment DEF Next
<1> QED BY <1>1, <1>2

\* Whatever the replicas, crashes and lapsed claims do, a claim token belongs to
\* one row, and the worker behind it still works on that row's current attempt.
THEOREM ClaimsAreSound == Spec => []ClaimIntegrity
BY TypeCorrect, IntegrityInit, IntegrityNext, PTL DEF Spec

-----------------------------------------------------------------------------
(* What a step may do to a claimed row. *)

\* A row that was not in progress is fenced by nothing, and one that keeps its
\* retry_count is charged nothing.
LEMMA QuietStep ==
  ASSUME NEW t \in Tasks,
         \/ task'[t] = task[t]
         \/ task[t].status # "in_progress" /\ task'[t].retry = task[t].retry
         \/ task[t].status = "absent"
  PROVE  FencedStep(t) /\ RetryStep(t)
BY DEF FencedStep, RetryStep

\* A tick takes back only abandoned rows, and charges no retries.
LEMMA StepsOfTick ==
  ASSUME TypeOK, ClaimIntegrity, NEW r \in Replicas, NEW t \in Tasks,
         TickStep(r) \/ \E p \in Peers : SkipPeer(r, p)
  PROVE  FencedStep(t) /\ RetryStep(t)
<1>1. CASE Recover(r)
  <2>1. task'[t] = task[t] \/ (Abandoned(t) /\ task'[t] = Unclaimed(t, "pending"))
    BY <1>1 DEF Recover
  <2> QED BY <2>1, RowColumns DEF FencedStep, RetryStep
<1>2. CASE ResetFailed(r)
  <2>1. task'[t] = task[t] \/ (task[t].status = "failed" /\ task'[t] = Unclaimed(t, "pending"))
    BY <1>2 DEF ResetFailed
  <2> QED BY <2>1, RowColumns, QuietStep
<1>3. ASSUME NEW p \in Peers, ClaimPeer(r, p) PROVE FencedStep(t) /\ RetryStep(t)
  <2>1. PICK S \in SUBSET Candidates(p) : \E tok \in [S -> Fresh] : Claim(r, p, S, tok)
    BY <1>3 DEF ClaimPeer
  <2>2. PICK tok \in [S -> Fresh] : Claim(r, p, S, tok)
    BY <2>1
  <2>3. CASE t \in S
    <3>1. task[t].status = "pending"
      BY <2>3 DEF Candidates
    <3>2. task'[t] = [task[t] EXCEPT !.status = "in_progress", !.token = tok[t]]
      BY <2>2, <2>3 DEF Claim
    <3>3. task'[t].retry = task[t].retry
      BY <3>2 DEF TypeOK, Row
    <3> QED BY <3>1, <3>3, QuietStep
  <2>4. CASE t \notin S
    BY <2>2, <2>4, QuietStep DEF Claim
  <2> QED BY <2>3, <2>4
<1>4. CASE FetchPeers(r) \/ EndTick(r) \/ \E p \in Peers : SkipPeer(r, p)
  BY <1>4, QuietStep DEF FetchPeers, EndTick, SkipPeer
<1> QED BY <1>1, <1>2, <1>3, <1>4 DEF TickStep

\* The owner's finalizer, with the retry_count it computed when it failed.
LEMMA StepsOfOwner ==
  ASSUME TypeOK, ClaimIntegrity, NEW k \in Tokens, NEW t \in Tasks, Owns(k),
         NEW row, Finalize(k, row),
         worker[k].pc \in {"claimed", "running"}, worker'[k].pc \notin {"claimed", "running"},
         \/ row.status = "completed" /\ row.retry = task[worker[k].task].retry
         \/ row.status = "failed" /\ row.retry = worker[k].retry + 1
  PROVE  FencedStep(t) /\ RetryStep(t)
<1>1. CASE t = worker[k].task
  <2>1. task[t].status = "in_progress" /\ task[t].token = k /\ task'[t] = row
    BY <1>1 DEF Owns, Finalize, TypeOK
  <2>2. worker[k].retry = task[t].retry
    BY <2>1 DEF ClaimIntegrity
  <2> QED BY <1>1, <2>1, <2>2 DEF FencedStep, RetryStep
<1>2. CASE t # worker[k].task
  BY <1>2, QuietStep DEF Finalize, TypeOK
<1> QED BY <1>1, <1>2

\* A worker settles only the row it owns, and charges it for one failure.
LEMMA StepsOfWorker ==
  ASSUME TypeOK, ClaimIntegrity, NEW k \in Tokens, NEW t \in Tasks,
         WorkerStep(k) \/ ExtendClaim(k)
  PROVE  FencedStep(t) /\ RetryStep(t)
<1> DEFINE u == worker[k].task
           done == Unclaimed(u, "completed")
           fail == [Unclaimed(u, "failed") EXCEPT !.retry = worker[k].retry + 1]
<1>1. /\ done.status = "completed" /\ done.retry = task[u].retry
      /\ fail.status = "failed" /\ fail.retry = worker[k].retry + 1
  BY DEF TypeOK, Worker, Row, Unclaimed
<1>2. CASE SkipFiltered(k) /\ Owns(k)
  <2>1. worker'[k].pc = "free"
    BY <1>2 DEF SkipFiltered, TypeOK, FreeWorker
  <2> QED BY <1>1, <1>2, <2>1, StepsOfOwner DEF SkipFiltered
<1>3. CASE FinalizeSuccess(k) /\ Owns(k)
  <2>1. worker'[k].pc = "succeeded"
    BY <1>3 DEF FinalizeSuccess, TypeOK, Worker
  <2> QED BY <1>1, <1>3, <2>1, StepsOfOwner DEF FinalizeSuccess
<1>4. CASE FinalizeFailure(k) /\ Owns(k)
  <2>1. worker'[k].pc = "failed"
    BY <1>4 DEF FinalizeFailure, TypeOK, Worker
  <2> QED BY <1>1, <1>4, <2>1, StepsOfOwner DEF FinalizeFailure
<1>5. CASE (SkipFiltered(k) \/ FinalizeSuccess(k) \/ FinalizeFailure(k)) /\ ~Owns(k)
  BY <1>5, QuietStep DEF SkipFiltered, FinalizeSuccess, FinalizeFailure
<1>6. CASE StartTransfer(k) \/ ExtendClaim(k) \/ SettleCounters(k)
  BY <1>6, QuietStep DEF StartTransfer, ExtendClaim, SettleCounters
<1> QED BY <1>2, <1>3, <1>4, <1>5, <1>6 DEF WorkerStep

\* Nothing else touches a claimed row or a retry_count.
LEMMA StepsOfEnvironment ==
  ASSUME TypeOK, ClaimIntegrity, NEW t \in Tasks,
         QueueStep \/ FaultStep
           \/ \E p \in Peers : BackoffElapses(p) \/ PeerOnline(p) \/ PeerOffline(p)
  PROVE  FencedStep(t) /\ RetryStep(t)
<1>1. CASE FaultStep \/ \E p \in Peers : BackoffElapses(p) \/ PeerOnline(p) \/ PeerOffline(p)
  BY <1>1, QuietStep
  DEF FaultStep, WorkerFails, TickFails, Lapse, HandlerFails, BackoffElapses, PeerOnline, PeerOffline
<1>2. CASE QueueStep
  BY <1>2, QueueStepRows, QuietStep
<1> QED BY <1>1, <1>2

\* Every step is fenced and charges at most its own failure.
LEMMA StepsOfNext ==
  ASSUME TypeOK, ClaimIntegrity, [Next]_vars
  PROVE  [\A t \in Tasks : FencedStep(t)]_vars /\ [\A t \in Tasks : RetryStep(t)]_vars
BY StepsOfTick, StepsOfWorker, StepsOfEnvironment DEF Next

\* A claimed row is settled by its owner or, after the claim lapsed, taken back
\* by recovery: no stale worker ever settles the row of a later owner.
THEOREM OnlyTheOwnerSettles == Spec => FencedFinalizers
<1>1. TypeOK /\ ClaimIntegrity /\ [Next]_vars => [\A t \in Tasks : FencedStep(t)]_vars
  BY StepsOfNext
<1> QED BY TypeCorrect, ClaimsAreSound, <1>1, PTL DEF Spec, FencedFinalizers

\* Each failed attempt of a claimed row costs exactly one retry, and nothing else does.
THEOREM OneRetryPerFailure == Spec => RetryCountsFailures
<1>1. TypeOK /\ ClaimIntegrity /\ [Next]_vars => [\A t \in Tasks : RetryStep(t)]_vars
  BY StepsOfNext
<1> QED BY TypeCorrect, ClaimsAreSound, <1>1, PTL DEF Spec, RetryCountsFailures
-----------------------------------------------------------------------------
(* The queue implements the claim protocol. *)

\* A step that leaves tokens, deadlines and acting workers alone is a stutter.
LEMMA ProtocolStutters ==
  ASSUME \A t \in Tasks : task'[t].token = task[t].token, lapsed' = lapsed, Acting' = Acting
  PROVE  UNCHANGED Protocol!vars
BY DEF Protocol!vars

\* The workers that stop without writing.
LEMMA ProtocolQuits ==
  ASSUME UNCHANGED <<task, lapsed>>, NEW k \in Tokens, k \in Acting, Acting' = Acting \ {k}
  PROVE  Protocol!Next
<1>1. Protocol!Quit({k})
  BY DEF Protocol!Quit
<1> QED BY <1>1 DEF Protocol!Next

\* The owner of a row settles it.
LEMMA ProtocolSettles ==
  ASSUME TypeOK, NEW k \in Tokens, k \in Acting, Owns(k), NEW row, row.token = NoToken,
         Finalize(k, row), Acting' = Acting \ {k}
  PROVE  Protocol!Next
<1>0. PICK t \in Tasks : t = worker[k].task
  BY DEF TypeOK, Worker
<1>1. task[t].token = k
  BY <1>0 DEF Owns
<1>2. task' = [task EXCEPT ![t] = row] /\ lapsed' = lapsed \ {t}
  BY <1>0 DEF Finalize
<1>3. [s \in Tasks |-> task'[s].token] = [[s \in Tasks |-> task[s].token] EXCEPT ![t] = NoToken]
  BY <1>1, <1>2 DEF TypeOK
<1>4. Protocol!Settle(t)
  BY <1>1, <1>2, <1>3 DEF Protocol!Settle
<1> QED BY <1>4 DEF Protocol!Next

\* A worker that is no longer acting, or is as before.
LEMMA ActingFacts ==
  ASSUME TypeOK, NEW k \in Tokens, NEW w, worker' = [worker EXCEPT ![k] = w]
  PROVE  /\ w.pc \notin {"claimed", "running"} => Acting' = Acting \ {k}
         /\ w.pc \in {"claimed", "running"} /\ k \in Acting => Acting' = Acting
         /\ w.pc \notin {"claimed", "running"} /\ k \notin Acting => Acting' = Acting
<1>1. worker'[k] = w /\ \A j \in Tokens : j # k => worker'[j] = worker[j]
  BY DEF TypeOK
<1> QED BY <1>1 DEF Acting

\* A claim statement that finds rows takes them.
LEMMA ProtocolClaim ==
  ASSUME TypeOK, NEW r \in Replicas, NEW p \in Peers, NEW S \in SUBSET Candidates(p),
         NEW tok \in [S -> Fresh], Claim(r, p, S, tok)
  PROVE  Protocol!Next \/ UNCHANGED Protocol!vars
<1>1. \A t \in S : t \in Tasks /\ tok[t] \in Fresh /\ (task[t].token = NoToken \/ t \in lapsed)
  BY DEF Candidates
<1>2. \A k \in Fresh : k \in Tokens /\ worker[k].pc = "free" /\ \A t \in Tasks : task[t].token # k
  BY DEF Fresh
<1>3. /\ \A s, t \in S : tok[s] = tok[t] => s = t
      /\ lapsed' = lapsed \ S
      /\ \A t \in Tasks : task'[t] = IF t \in S
                                     THEN [task[t] EXCEPT !.status = "in_progress", !.token = tok[t]]
                                     ELSE task[t]
      /\ \A k \in Tokens : ~(\E t \in S : tok[t] = k) => worker'[k] = worker[k]
      /\ \A k \in Tokens : (\E t \in S : tok[t] = k) => worker'[k].pc = "claimed"
  BY DEF Claim
<1>4. \A t \in Tasks : task'[t].token = IF t \in S THEN tok[t] ELSE task[t].token
  BY <1>3 DEF TypeOK, Row
<1>5. Acting' = Acting \cup {tok[t] : t \in S}
  <2>1. ASSUME NEW k \in Tokens
        PROVE  k \in Acting' <=> k \in Acting \/ \E t \in S : tok[t] = k
    BY <1>3 DEF Acting
  <2>2. \A t \in S : tok[t] \in Tokens
    BY <1>1, <1>2
  <2> QED BY <2>1, <2>2 DEF Acting
<1>6. CASE S = {}
  BY <1>3, <1>4, <1>5, <1>6, ProtocolStutters
<1>7. CASE S # {}
  <2>1. tok \in [S -> Protocol!Fresh]
    BY <1>1, <1>2 DEF Protocol!Fresh, Acting
  <2>2. Protocol!Take(S, tok)
    BY <1>1, <1>3, <1>4, <1>5, <1>7 DEF Protocol!Take
  <2>3. S \in SUBSET Tasks
    BY <1>1
  <2> QED BY <2>1, <2>2, <2>3 DEF Protocol!Next
<1> QED BY <1>6, <1>7

\* A tick takes free rows, takes back lapsed ones, or leaves the claims alone.
LEMMA ProtocolTick ==
  ASSUME TypeOK, ClaimIntegrity, NEW r \in Replicas, TickStep(r) \/ \E p \in Peers : SkipPeer(r, p)
  PROVE  Protocol!Next \/ UNCHANGED Protocol!vars
<1>1. CASE Recover(r)
  <2>1. \A t \in Tasks : task'[t] = IF Abandoned(t) THEN Unclaimed(t, "pending") ELSE task[t]
    BY <1>1 DEF Recover
  <2>2. \A t \in Tasks : t \in lapsed => Abandoned(t)
    BY DEF ClaimIntegrity, Abandoned
  <2>3. \A t \in Tasks : Abandoned(t) => t \in lapsed \/ task[t].token = NoToken
    BY DEF Abandoned
  <2>4. \A t \in Tasks : task'[t].token = IF t \in lapsed THEN NoToken ELSE task[t].token
    BY <2>1, <2>2, <2>3, RowColumns
  <2>5. lapsed' = {} /\ worker' = worker
    BY <1>1, <2>2 DEF Recover, TypeOK
  <2>6. PICK S \in SUBSET Tasks : S = lapsed
    BY DEF TypeOK
  <2>7. Protocol!Reclaim(S)
    BY <2>4, <2>5, <2>6 DEF Protocol!Reclaim, Acting
  <2> QED BY <2>7 DEF Protocol!Next
<1>2. CASE ResetFailed(r)
  <2>1. \A t \in Tasks : \/ task'[t] = task[t]
                         \/ task[t].status = "failed" /\ task'[t] = Unclaimed(t, "pending")
    BY <1>2 DEF ResetFailed
  <2>2. \A t \in Tasks : task'[t].token = task[t].token
    BY <2>1, RowColumns DEF ClaimIntegrity
  <2>3. lapsed' = lapsed /\ Acting' = Acting
    BY <1>2 DEF ResetFailed, Acting
  <2> QED BY <2>2, <2>3, ProtocolStutters
<1>3. ASSUME NEW p \in Peers, ClaimPeer(r, p) PROVE Protocol!Next \/ UNCHANGED Protocol!vars
  BY <1>3, ProtocolClaim DEF ClaimPeer
<1>4. CASE FetchPeers(r) \/ EndTick(r) \/ \E p \in Peers : SkipPeer(r, p)
  <2>1. UNCHANGED <<task, lapsed, worker>>
    BY <1>4 DEF FetchPeers, EndTick, SkipPeer
  <2> QED BY <2>1, ProtocolStutters DEF Acting
<1> QED BY <1>1, <1>2, <1>3, <1>4 DEF TickStep

\* A worker settles or extends what it owns, and stops when it owns nothing.
LEMMA ProtocolWorker ==
  ASSUME TypeOK, ClaimIntegrity, NEW k \in Tokens, WorkerStep(k) \/ ExtendClaim(k)
  PROVE  Protocol!Next \/ UNCHANGED Protocol!vars
<1> DEFINE t == worker[k].task
<1>0. /\ t \in Tasks /\ worker[k] \in Worker
      /\ Unclaimed(t, "completed").token = NoToken
      /\ [Unclaimed(t, "failed") EXCEPT !.retry = worker[k].retry + 1].token = NoToken
      /\ FreeWorker.pc = "free"
  BY DEF TypeOK, Worker, Row, Unclaimed, FreeWorker
<1>a. worker[k].pc \in {"claimed", "running"} <=> k \in Acting
  BY DEF Acting
<1>b. ASSUME k \in Acting, UNCHANGED <<task, lapsed>>, worker' = [worker EXCEPT ![k] = FreeWorker]
      PROVE  Protocol!Next
  <2>1. Acting' = Acting \ {k}
    BY <1>0, <1>b, ActingFacts
  <2> QED BY <1>b, <2>1, ProtocolQuits
<1>1. CASE SkipFiltered(k)
  <2>0. k \in Acting /\ worker' = [worker EXCEPT ![k] = FreeWorker]
    BY <1>1, <1>a DEF SkipFiltered
  <2>1. CASE Owns(k)
    <3>1. Acting' = Acting \ {k}
      BY <1>0, <2>0, ActingFacts
    <3> QED BY <1>0, <1>1, <2>0, <2>1, <3>1, ProtocolSettles DEF SkipFiltered
  <2>2. CASE ~Owns(k)
    BY <1>1, <1>b, <2>0, <2>2 DEF SkipFiltered
  <2> QED BY <2>1, <2>2
<1>2. CASE StartTransfer(k)
  <2>1. k \in Acting /\ UNCHANGED <<task, lapsed>>
        /\ worker' = [worker EXCEPT ![k] = [worker[k] EXCEPT !.pc = "running"]]
    BY <1>2, <1>a DEF StartTransfer
  <2>2. [worker[k] EXCEPT !.pc = "running"].pc = "running"
    BY <1>0 DEF Worker
  <2>3. Acting' = Acting
    BY <2>1, <2>2, ActingFacts
  <2> QED BY <2>1, <2>3, ProtocolStutters
<1>3. CASE ExtendClaim(k)
  <2>1. PICK s \in Tasks : s = worker[k].task
    BY <1>0
  <2>2. k \in Acting /\ task[s].token = k /\ lapsed' = lapsed \ {s} /\ UNCHANGED <<task, worker>>
    BY <1>3, <1>a, <2>1 DEF ExtendClaim, Owns
  <2>3. Protocol!Extend(s)
    BY <2>2 DEF Protocol!Extend, Acting
  <2> QED BY <2>3 DEF Protocol!Next
<1>4. CASE FinalizeSuccess(k)
  <2>0. k \in Acting
    BY <1>4, <1>a DEF FinalizeSuccess
  <2>1. CASE Owns(k)
    <3>1. worker' = [worker EXCEPT ![k] = [worker[k] EXCEPT !.pc = "succeeded"]]
      BY <1>4, <2>1 DEF FinalizeSuccess
    <3>2. [worker[k] EXCEPT !.pc = "succeeded"].pc = "succeeded"
      BY <1>0 DEF Worker
    <3>3. Acting' = Acting \ {k}
      BY <3>1, <3>2, ActingFacts
    <3> QED BY <1>0, <1>4, <2>0, <2>1, <3>3, ProtocolSettles DEF FinalizeSuccess
  <2>2. CASE ~Owns(k)
    BY <1>4, <1>b, <2>0, <2>2 DEF FinalizeSuccess
  <2> QED BY <2>1, <2>2
<1>5. CASE FinalizeFailure(k)
  <2>0. k \in Acting
    BY <1>5, <1>a DEF FinalizeFailure
  <2>1. CASE Owns(k)
    <3>1. worker' = [worker EXCEPT ![k] = [worker[k] EXCEPT !.pc = "failed"]]
      BY <1>5, <2>1 DEF FinalizeFailure
    <3>2. [worker[k] EXCEPT !.pc = "failed"].pc = "failed"
      BY <1>0 DEF Worker
    <3>3. Acting' = Acting \ {k}
      BY <3>1, <3>2, ActingFacts
    <3> QED BY <1>0, <1>5, <2>0, <2>1, <3>3, ProtocolSettles DEF FinalizeFailure
  <2>2. CASE ~Owns(k)
    BY <1>5, <1>b, <2>0, <2>2 DEF FinalizeFailure
  <2> QED BY <2>1, <2>2
<1>6. CASE SettleCounters(k)
  <2>1. k \notin Acting /\ UNCHANGED <<task, lapsed>> /\ worker' = [worker EXCEPT ![k] = FreeWorker]
    BY <1>6, <1>a DEF SettleCounters
  <2>2. Acting' = Acting
    BY <1>0, <2>1, ActingFacts
  <2> QED BY <2>1, <2>2, ProtocolStutters
<1> QED BY <1>1, <1>2, <1>3, <1>4, <1>5, <1>6 DEF WorkerStep

\* The other services touch no claim; a worker may die and a claim may lapse.
LEMMA ProtocolEnvironment ==
  ASSUME TypeOK, ClaimIntegrity,
         QueueStep \/ FaultStep
           \/ \E p \in Peers : BackoffElapses(p) \/ PeerOnline(p) \/ PeerOffline(p)
  PROVE  Protocol!Next \/ UNCHANGED Protocol!vars
<1>1. CASE QueueStep
  <2>1. worker' = worker /\ lapsed' = lapsed
    BY <1>1 DEF QueueStep, Enqueue, Withdraw, Requeue, DeleteArtifact, Reupload,
                CancelSuperseded, EnqueueDeletes, Evaluate
  <2>2. \A t \in Tasks : task'[t].token = task[t].token
    BY <1>1, QueueStepRows DEF ClaimIntegrity
  <2> QED BY <2>1, <2>2, ProtocolStutters DEF Acting
<1>2. ASSUME NEW k \in Tokens, WorkerFails(k) PROVE Protocol!Next \/ UNCHANGED Protocol!vars
  <2>1. UNCHANGED <<task, lapsed>> /\ worker' = [worker EXCEPT ![k] = FreeWorker] /\ FreeWorker.pc = "free"
    BY <1>2 DEF WorkerFails, FreeWorker
  <2>2. CASE k \in Acting
    BY <2>1, <2>2, ActingFacts, ProtocolQuits
  <2>3. CASE k \notin Acting
    BY <2>1, <2>3, ActingFacts, ProtocolStutters
  <2> QED BY <2>2, <2>3
<1>3. ASSUME NEW t \in Tasks, Lapse(t) PROVE Protocol!Next
  <2>1. Protocol!Expire(t)
    BY <1>3 DEF Lapse, Live, Protocol!Expire, Acting
  <2> QED BY <2>1 DEF Protocol!Next
<1>4. CASE \/ \E r \in Replicas : TickFails(r)
           \/ \E e \in todo : HandlerFails(e)
           \/ \E p \in Peers : BackoffElapses(p) \/ PeerOnline(p) \/ PeerOffline(p)
  <2>1. UNCHANGED <<task, lapsed, worker>>
    BY <1>4 DEF TickFails, HandlerFails, BackoffElapses, PeerOnline, PeerOffline
  <2> QED BY <2>1, ProtocolStutters DEF Acting
<1> QED BY <1>1, <1>2, <1>3, <1>4 DEF FaultStep

LEMMA ProtocolInit == Init => Protocol!Init
<1> SUFFICES ASSUME Init PROVE Protocol!Init OBVIOUS
<1>1. \A t \in Tasks : task[t].token = NoToken
  BY DEF Init, NewRow
<1>2. lapsed = {} /\ Acting = {}
  BY DEF Init, Acting, FreeWorker
<1> QED BY <1>1, <1>2 DEF Protocol!Init

\* Every behaviour of the queue is one of the claim protocol: a row changes hands
\* only when its holder gives it up or its claim has lapsed, each time under a token
\* of its own (claim_pending_sync_tasks, recover_expired_sync_task_claims and the
\* token-guarded finalizers).
THEOREM QueueRefinesProtocol == Spec => ImplementsClaimQueue
<1>1. TypeOK /\ ClaimIntegrity /\ [Next]_vars => [Protocol!Next]_(Protocol!vars)
  <2> SUFFICES ASSUME TypeOK, ClaimIntegrity, [Next]_vars PROVE Protocol!Next \/ UNCHANGED Protocol!vars
    OBVIOUS
  <2>1. CASE UNCHANGED vars
    BY <2>1, ProtocolStutters DEF vars, Acting
  <2>2. CASE Next
    BY <2>2, ProtocolTick, ProtocolWorker, ProtocolEnvironment DEF Next
  <2> QED BY <2>1, <2>2
<1> QED BY <1>1, ProtocolInit, TypeCorrect, ClaimsAreSound, PTL DEF Spec, ImplementsClaimQueue, Protocol!Spec

-----------------------------------------------------------------------------
(* The limit of a peer. *)

LiveSet(p) == {t \in Tasks : PeerOf[t] = p /\ Live(t)}

\* No step but an extension makes a claim live that was not, unless it is a new one.
NoneRevived == \A t \in Tasks : Live(t)' => Live(t) \/ task[t].token # task'[t].token

\* What ClaimsWithinLimit says of a step and a peer.
WithinLimit(p) == LiveClaims(p)' > LiveClaims(p) /\ NoneRevived => LiveClaims(p)' <= Limit

\* The live claims of a peer are counted by a natural number, now and next.
LEMMA LiveClaimsType ==
  ASSUME NEW p
  PROVE  /\ IsFiniteSet(LiveSet(p)) /\ IsFiniteSet(LiveSet(p)')
         /\ LiveClaims(p) = Cardinality(LiveSet(p)) /\ LiveClaims(p)' = Cardinality(LiveSet(p)')
         /\ LiveClaims(p) \in Nat /\ LiveClaims(p)' \in Nat
<1>1. LiveSet(p) \subseteq Tasks /\ LiveSet(p)' \subseteq Tasks
  BY DEF LiveSet
<1>2. LiveClaims(p) = Cardinality(LiveSet(p)) /\ LiveClaims(p)' = Cardinality(LiveSet(p)')
  BY DEF LiveClaims, LiveSet
<1> QED BY <1>1, <1>2, FS_Subset, FS_CardinalityType

\* While no row gets a new token, the live claims are among those there were.
LEMMA NoNewToken ==
  ASSUME NEW p \in Peers, \A t \in Tasks : task'[t].token \in {task[t].token, NoToken}
  PROVE  WithinLimit(p)
<1> SUFFICES ASSUME NoneRevived PROVE LiveClaims(p)' <= LiveClaims(p)
  BY LiveClaimsType DEF WithinLimit
<1>1. LiveSet(p)' \subseteq LiveSet(p)
  BY DEF LiveSet, NoneRevived, Live
<1> QED BY <1>1, LiveClaimsType, FS_Subset

\* The claim statement adds no more than is left of the limit.
LEMMA ClaimKeepsLimit ==
  ASSUME TypeOK, NEW r \in Replicas, NEW q \in Peers, NEW S \in SUBSET Candidates(q), NEW tok,
         Claim(r, q, S, tok), NEW p \in Peers
  PROVE  WithinLimit(p)
<1> SUFFICES ASSUME NoneRevived, LiveClaims(p)' > LiveClaims(p) PROVE LiveClaims(p)' <= Limit
  BY DEF WithinLimit
<1>1. S \subseteq Tasks /\ \A t \in S : PeerOf[t] = q
  BY DEF Candidates
<1>2. \A t \in Tasks : t \notin S => task'[t] = task[t]
  BY DEF Claim
<1>3. LiveSet(p)' \subseteq LiveSet(p) \cup S /\ (p # q => LiveSet(p)' \subseteq LiveSet(p))
  BY <1>1, <1>2 DEF LiveSet, NoneRevived
<1>4. p = q
  <2> SUFFICES ASSUME p # q PROVE FALSE
    OBVIOUS
  <2> QED BY <1>3, LiveClaimsType, FS_Subset
<1>5. IsFiniteSet(S) /\ Cardinality(S) \in Nat
  BY <1>1, FS_Subset, FS_CardinalityType
<1>6. LiveClaims(p)' <= LiveClaims(p) + Cardinality(S)
  <2>1. IsFiniteSet(LiveSet(p) \cup S)
        /\ Cardinality(LiveSet(p) \cup S) = Cardinality(LiveSet(p)) + Cardinality(S) - Cardinality(LiveSet(p) \cap S)
    BY <1>5, LiveClaimsType, FS_Union
  <2>2. Cardinality(LiveSet(p) \cap S) \in Nat
    BY <1>1, CountType
  <2>3. Cardinality(LiveSet(p)') <= Cardinality(LiveSet(p) \cup S)
    BY <1>3, <2>1, FS_Subset
  <2> QED BY <1>5, <2>1, <2>2, <2>3, LiveClaimsType
<1>7. Cardinality(S) <= ClaimCap(tick[r].slots[q], q)
  BY DEF Claim
<1>8. tick[r].slots[q] \in Nat
  BY DEF TypeOK, Tick
<1>9. LiveClaims(p) \in Nat /\ LiveClaims(p)' \in Nat
  BY LiveClaimsType
<1> QED BY <1>4, <1>5, <1>6, <1>7, <1>8, <1>9 DEF ClaimCap, Smaller, Max0

\* Every step keeps to the limit: only the claim statement hands out tokens.
LEMMA LimitNext ==
  ASSUME TypeOK, ClaimIntegrity, [Next]_vars, NEW p \in Peers
  PROVE  WithinLimit(p)
<1>1. CASE \E r \in Replicas, q \in Peers : ClaimPeer(r, q)
  BY <1>1, ClaimKeepsLimit DEF ClaimPeer
<1>2. ASSUME NEW r \in Replicas,
             Recover(r) \/ FetchPeers(r) \/ ResetFailed(r) \/ EndTick(r) \/ \E q \in Peers : SkipPeer(r, q)
      PROVE  WithinLimit(p)
  <2>1. \A t \in Tasks : task'[t] = task[t] \/ task'[t] = Unclaimed(t, "pending")
    BY <1>2 DEF Recover, FetchPeers, ResetFailed, EndTick, SkipPeer
  <2> QED BY <2>1, RowColumns, NoNewToken
<1>3. ASSUME NEW k \in Tokens, WorkerStep(k) \/ ExtendClaim(k) PROVE WithinLimit(p)
  <2>1. worker[k].task \in Tasks
    BY DEF TypeOK, Worker
  <2>2. \/ task' = task
        \/ task' = [task EXCEPT ![worker[k].task] = Unclaimed(worker[k].task, "completed")]
        \/ task' = [task EXCEPT ![worker[k].task] =
                      [Unclaimed(worker[k].task, "failed") EXCEPT !.retry = worker[k].retry + 1]]
    BY <1>3 DEF WorkerStep, SkipFiltered, StartTransfer, FinalizeSuccess, FinalizeFailure,
                SettleCounters, ExtendClaim, Finalize
  <2>3. /\ Unclaimed(worker[k].task, "completed").token = NoToken
        /\ [Unclaimed(worker[k].task, "failed") EXCEPT !.retry = worker[k].retry + 1].token = NoToken
    BY <2>1 DEF TypeOK, Row, Unclaimed
  <2>4. \A t \in Tasks : task'[t].token \in {task[t].token, NoToken}
    BY <2>1, <2>2, <2>3 DEF TypeOK
  <2> QED BY <2>4, NoNewToken
<1>4. CASE QueueStep
  BY <1>4, QueueStepRows, NoNewToken
<1>5. CASE \/ FaultStep \/ UNCHANGED vars
           \/ \E q \in Peers : BackoffElapses(q) \/ PeerOnline(q) \/ PeerOffline(q)
  <2>1. task' = task
    BY <1>5 DEF FaultStep, WorkerFails, TickFails, Lapse, HandlerFails, vars,
                BackoffElapses, PeerOnline, PeerOffline
  <2> QED BY <2>1, NoNewToken
<1> QED BY <1>1, <1>2, <1>3, <1>4, <1>5 DEF Next, TickStep

\* Whatever slots a tick believes a peer has, claims never take its live claims past
\* the limit (the LEAST of claim_pending_sync_tasks under the peer's advisory lock);
\* only extend_sync_task_claim, reviving a lapsed claim, can.
THEOREM ClaimsKeepTheLimit == Spec => ClaimsWithinLimit
<1> DEFINE Cap == \A p \in Peers :
                    /\ LiveClaims(p)' > LiveClaims(p)
                    /\ \A t \in Tasks : Live(t)' => Live(t) \/ task[t].token # task'[t].token
                    => LiveClaims(p)' <= Limit
<1>1. TypeOK /\ ClaimIntegrity /\ [Next]_vars => [Cap]_vars
  BY LimitNext DEF WithinLimit, NoneRevived
<1> QED BY TypeCorrect, ClaimsAreSound, <1>1, PTL DEF Spec, ClaimsWithinLimit

=============================================================================
