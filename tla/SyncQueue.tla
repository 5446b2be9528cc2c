------------------------------ MODULE SyncQueue ------------------------------
(***************************************************************************)
(* The peer replication queue: rows of the sync_tasks table, the transfer  *)
(* slots of peer_instances, and the sync workers of several backend        *)
(* replicas that share one Postgres database                               *)
(* (backend/src/services/sync_worker.rs).                                  *)
(*                                                                         *)
(* Every SQL statement is one atomic step; a replica can be overtaken by   *)
(* others, or die, between any two of its statements.  Wall-clock time is  *)
(* abstracted to the two facts the code compares with NOW(): a claim has   *)
(* lapsed (claim_expires_at <= NOW()), and a peer is in backoff            *)
(* (backoff_until > NOW()).                                                *)
(***************************************************************************)
EXTENDS Integers, FiniteSets

CONSTANTS
  Replicas,    \* backend processes, each with one sync worker loop
  Peers,       \* non-local rows of peer_instances
  Artifacts,   \* rows of artifacts
  Tasks,       \* rows sync_tasks may hold: unique (peer, artifact, task_type)
  Pushes,      \* the tasks with task_type 'push'; the others are 'delete'
  PeerOf,      \* task -> peer_instance_id
  ArtifactOf,  \* task -> artifact_id
  Filtered,    \* tasks whose artifact the replication filter rejects
  Windowed,    \* peers with a sync window configured
  Tokens,      \* claim tokens; bounds the claims that are referenced at once
  NoToken,     \* SQL NULL in claim_token
  Limit,       \* concurrent_transfers_limit
  MaxRetries,  \* GREATEST(sync_tasks.max_retries, retry policy)
  RetryBound,  \* bound: no evaluation queues a row with this retry_count
  MaxHandlers, \* bound on the handler statements that are outstanding
  MaxFaults    \* bound on crashes, failed statements and lapsed claims

ASSUME SyncQueueAssumption ==
  /\ Pushes \subseteq Tasks
  /\ Filtered \subseteq Tasks
  /\ Windowed \subseteq Peers
  /\ PeerOf \in [Tasks -> Peers]
  /\ ArtifactOf \in [Tasks -> Artifacts]
  /\ NoToken \notin Tokens
  /\ Limit \in Nat \ {0}
  /\ MaxRetries \in Nat
  /\ RetryBound \in Nat
  /\ MaxHandlers \in Nat
  /\ MaxFaults \in Nat
  /\ Tasks # {}
  /\ IsFiniteSet(Tasks)

VARIABLES
  task,     \* sync_tasks: status, claim_token, retry_count
  lapsed,   \* the tasks whose claim_expires_at <= NOW()
  online,   \* the peers with status 'online' or 'syncing'
  backoff,  \* the peers with backoff_until > NOW()
  active,   \* peer_instances.active_transfers
  deleted,  \* artifacts with is_deleted = true
  worker,   \* the tokio task that executes the claim with this token
  tick,     \* each replica's place in process_pending_tasks
  todo,     \* the next statements of the delete and evaluation handlers
  faults    \* faults so far (bounded by MaxFaults)

peerVars == <<online, backoff, active>>

vars == <<task, lapsed, peerVars, deleted, worker, tick, todo, faults>>

Statuses == {"absent", "pending", "in_progress", "completed", "failed", "cancelled"}

Row == [status : Statuses, token : Tokens \cup {NoToken}, retry : Nat]

\* A Claimed<TaskRow>: the row as the claim statement returned it.
Worker == [pc : {"free", "claimed", "running", "succeeded", "failed"},
           task : Tasks, retry : Nat]

\* slots[p]: what compute_available_slots leaves of the peers that the tick has
\* yet to serve; zero for a peer it is done with or skips.
Tick == [pc : {"idle", "recovered", "fetched", "claiming"}, slots : [Peers -> Nat]]

\* What a request handler has still to run: the statements of a delete name the
\* artifact, those of an evaluation the task it queues.
Statement == ({"cancel", "deletes"} \X Artifacts) \cup ({"withdraw", "requeue"} \X Tasks)

\* Every variable holds a value of its type; active_transfers never falls below zero.
TypeOK ==
  /\ task \in [Tasks -> Row]
  /\ lapsed \subseteq Tasks
  /\ online \subseteq Peers
  /\ backoff \subseteq Peers
  /\ active \in [Peers -> Nat]
  /\ deleted \subseteq Artifacts
  /\ worker \in [Tokens -> Worker]
  /\ tick \in [Replicas -> Tick]
  /\ todo \subseteq Statement
  /\ faults \in 0..MaxFaults

-----------------------------------------------------------------------------
(* Rows and claims. *)

NewRow(s) == [status |-> s, token |-> NoToken, retry |-> 0]

\* Mutant of Unclaimed: the statement forgets the claim columns.
Unclaimed_KeepToken(t, s) == [task[t] EXCEPT !.status = s]

\* The row with status s and all claim columns NULL.
Unclaimed(t, s) == [task[t] EXCEPT !.status = s, !.token = NoToken]

FreeWorker == [pc |-> "free", task |-> CHOOSE t \in Tasks : TRUE, retry |-> 0]

\* gen_random_uuid(): a token no row and no worker refers to.
Fresh == {k \in Tokens : worker[k].pc = "free" /\ \A t \in Tasks : task[t].token # k}

\* Mutant of Owns: the finalizer looks at the status only.
Owns_AnyToken(k) == task[worker[k].task].status = "in_progress"

\* The predicate of every finalizer:
\* WHERE id = $1 AND status = 'in_progress' AND claim_token = $n.
Owns(k) == LET t == worker[k].task IN task[t].status = "in_progress" /\ task[t].token = k

\* A claim that the cap counts: in_progress, token set, claim_expires_at > NOW().
Live(t) == task[t].status = "in_progress" /\ task[t].token # NoToken /\ t \notin lapsed

LiveClaims(p) == Cardinality({t \in Tasks : PeerOf[t] = p /\ Live(t)})

\* Push rows of a deleted artifact are neither claimed nor retried.
Wanted(t) == t \in Pushes => ArtifactOf[t] \notin deleted

Eligible(p) == p \in online \ backoff

\* Mutant: the counters are not clamped.
Max0_Unclamped(n) == n

\* GREATEST(n, 0)
Max0(n) == IF n > 0 THEN n ELSE 0

Smaller(m, n) == IF m < n THEN m ELSE n

\* Zero or less when the peer is at or over its limit.
compute_available_slots(p) == Limit - active[p]

NoSlots == [p \in Peers |-> 0]

IdleTick == [pc |-> "idle", slots |-> NoSlots]

-----------------------------------------------------------------------------
(* Any rows may be waiting, among them in_progress rows of a replica that   *)
(* still runs the code from before claims existed: their claim is NULL.     *)
Init ==
  /\ task \in [Tasks -> {NewRow("absent"), NewRow("pending"), NewRow("in_progress")}]
  /\ lapsed = {}
  /\ online = Peers
  /\ backoff = {}
  /\ active = [p \in Peers |-> 0]
  /\ deleted = {}
  /\ worker = [k \in Tokens |-> FreeWorker]
  /\ tick = [r \in Replicas |-> IdleTick]
  /\ todo = {}
  /\ faults = 0

-----------------------------------------------------------------------------
(* One tick of process_pending_tasks on replica r. *)

\* Mutant: recovery does not wait for the claim to lapse.
Abandoned_TooEarly(t) == task[t].status = "in_progress"

\* Mutant: recovery only looks for rows that have no claim at all.
Abandoned_OnlyUnclaimed(t) == task[t].status = "in_progress" /\ task[t].token = NoToken

Abandoned(t) == task[t].status = "in_progress" /\ (task[t].token = NoToken \/ t \in lapsed)

\* recover_expired_sync_task_claims: one statement.
Recover(r) ==
  /\ tick[r].pc = "idle"
  /\ tick' = [tick EXCEPT ![r].pc = "recovered"]
  /\ task' = [t \in Tasks |-> IF Abandoned(t) THEN Unclaimed(t, "pending") ELSE task[t]]
  /\ lapsed' = {t \in lapsed : ~Abandoned(t)}
  /\ active' = [p \in Peers |->
                  Max0(active[p] - Cardinality({t \in Tasks : PeerOf[t] = p /\ Abandoned(t)}))]
  /\ UNCHANGED <<online, backoff, deleted, worker, todo, faults>>

\* Peers online and out of backoff, with the active_transfers of this instant.
FetchPeers(r) ==
  /\ tick[r].pc = "recovered"
  /\ tick' = [tick EXCEPT ![r] =
       IF \E p \in Peers : Eligible(p)
       THEN [pc |-> "fetched",
             slots |-> [p \in Peers |-> IF Eligible(p) THEN Max0(compute_available_slots(p)) ELSE 0]]
       ELSE IdleTick]
  /\ UNCHANGED <<task, lapsed, peerVars, deleted, worker, todo, faults>>

\* Failed rows with retries left become pending once their peer has recovered.
ResetFailed(r) ==
  /\ tick[r].pc = "fetched"
  /\ tick' = [tick EXCEPT ![r].pc = "claiming"]
  /\ task' = [t \in Tasks |->
                IF /\ task[t].status = "failed"
                   /\ task[t].retry < MaxRetries
                   /\ Wanted(t)
                   /\ Eligible(PeerOf[t])
                THEN Unclaimed(t, "pending") ELSE task[t]]
  /\ UNCHANGED <<lapsed, peerVars, deleted, worker, todo, faults>>

\* The peer is outside its sync window.
SkipPeer(r, p) ==
  /\ tick[r].pc = "claiming"
  /\ tick[r].slots[p] > 0
  /\ p \in Windowed
  /\ tick' = [tick EXCEPT ![r].slots[p] = 0]
  /\ UNCHANGED <<task, lapsed, peerVars, deleted, worker, todo, faults>>

Candidates(p) ==
  {t \in Tasks : /\ PeerOf[t] = p
                 /\ task[t].status = "pending"
                 /\ task[t].token = NoToken \/ t \in lapsed
                 /\ Wanted(t)}

\* Mutant: the claim statement trusts the slots the tick has read.
ClaimCap_StaleSlots(slots, p) == slots

\* LIMIT LEAST(available_slots, GREATEST(concurrent_limit - live claims, 0))
ClaimCap(slots, p) == Smaller(slots, Max0(Limit - LiveClaims(p)))

\* claim_pending_sync_tasks, serialized per peer by an advisory lock.  Rows that
\* another statement has locked are skipped, so S is any choice within the cap;
\* the order by priority and age is left open.  tok gives each row its own token.
Claim(r, p, S, tok) ==
  /\ tick[r].pc = "claiming"
  /\ tick[r].slots[p] > 0
  /\ Cardinality(S) <= ClaimCap(tick[r].slots[p], p)
  /\ \A s, t \in S : tok[s] = tok[t] => s = t
  /\ tick' = [tick EXCEPT ![r].slots[p] = 0]
  /\ task' = [t \in Tasks |->
                IF t \in S
                THEN [task[t] EXCEPT !.status = "in_progress", !.token = tok[t]]
                ELSE task[t]]
  /\ lapsed' = lapsed \ S
  /\ worker' = [k \in Tokens |->
                  IF \E t \in S : tok[t] = k
                  THEN LET t == CHOOSE t \in S : tok[t] = k
                       IN  [pc |-> "claimed", task |-> t, retry |-> task[t].retry]
                  ELSE worker[k]]
  /\ UNCHANGED <<peerVars, deleted, todo, faults>>

ClaimPeer(r, p) ==
  \E S \in SUBSET Candidates(p) : \E tok \in [S -> Fresh] :
    /\ S = {} => Candidates(p) = {} \/ ClaimCap(tick[r].slots[p], p) = 0
    /\ Claim(r, p, S, tok)

EndTick(r) ==
  /\ tick[r].pc = "claiming"
  /\ tick[r].slots = NoSlots
  /\ tick' = [tick EXCEPT ![r] = IdleTick]
  /\ UNCHANGED <<task, lapsed, peerVars, deleted, worker, todo, faults>>

-----------------------------------------------------------------------------
(* The claimed task, on its own tokio task once it is dispatched. *)

\* What a finalizer writes when it still owns the row.
Finalize(k, row) ==
  /\ task' = [task EXCEPT ![worker[k].task] = row]
  /\ lapsed' = lapsed \ {worker[k].task}

\* The artifact is filtered out: completed under the token, no counter touched.
SkipFiltered(k) ==
  /\ worker[k].pc = "claimed"
  /\ worker[k].task \in Filtered
  /\ IF Owns(k) THEN Finalize(k, Unclaimed(worker[k].task, "completed"))
     ELSE UNCHANGED <<task, lapsed>>
  /\ worker' = [worker EXCEPT ![k] = FreeWorker]
  /\ UNCHANGED <<peerVars, deleted, tick, todo, faults>>

\* execute_transfer takes its slot: the increment does not look at the claim.
StartTransfer(k) ==
  /\ worker[k].pc = "claimed"
  /\ worker[k].task \notin Filtered
  /\ active' = [active EXCEPT ![PeerOf[worker[k].task]] = @ + 1]
  /\ worker' = [worker EXCEPT ![k].pc = "running"]
  /\ UNCHANGED <<task, lapsed, online, backoff, deleted, tick, todo, faults>>

\* extend_sync_task_claim, after each chunk of a chunked push: it also revives
\* a claim that has lapsed and has not been recovered yet.
ExtendClaim(k) ==
  /\ worker[k].pc = "running"
  /\ worker[k].task \in Pushes
  /\ Owns(k)
  /\ lapsed' = lapsed \ {worker[k].task}
  /\ UNCHANGED <<task, peerVars, deleted, worker, tick, todo, faults>>

\* handle_transfer_success: the token-guarded completion.
FinalizeSuccess(k) ==
  /\ worker[k].pc = "running"
  /\ IF Owns(k)
     THEN /\ Finalize(k, Unclaimed(worker[k].task, "completed"))
          /\ worker' = [worker EXCEPT ![k].pc = "succeeded"]
     ELSE /\ worker' = [worker EXCEPT ![k] = FreeWorker]
          /\ UNCHANGED <<task, lapsed>>
  /\ UNCHANGED <<peerVars, deleted, tick, todo, faults>>

\* Mutant: the failure is recorded without the token.
FinalizeFailure_Unfenced(k) ==
  /\ worker[k].pc = "running"
  /\ Finalize(k, [Unclaimed(worker[k].task, "failed") EXCEPT !.retry = worker[k].retry + 1])
  /\ worker' = [worker EXCEPT ![k].pc = "failed"]
  /\ UNCHANGED <<peerVars, deleted, tick, todo, faults>>

\* handle_transfer_failure: the token-guarded failure with evaluate_task_failure's count.
FinalizeFailure(k) ==
  /\ worker[k].pc = "running"
  /\ IF Owns(k)
     THEN /\ Finalize(k, [Unclaimed(worker[k].task, "failed") EXCEPT !.retry = worker[k].retry + 1])
          /\ worker' = [worker EXCEPT ![k].pc = "failed"]
     ELSE /\ worker' = [worker EXCEPT ![k] = FreeWorker]
          /\ UNCHANGED <<task, lapsed>>
  /\ UNCHANGED <<peerVars, deleted, tick, todo, faults>>

\* The counter update that follows either finalizer, a statement of its own.
SettleCounters(k) ==
  /\ worker[k].pc \in {"succeeded", "failed"}
  /\ active' = [active EXCEPT ![PeerOf[worker[k].task]] = Max0(@ - 1)]
  /\ backoff' = IF worker[k].pc = "failed" THEN backoff \cup {PeerOf[worker[k].task]} ELSE backoff
  /\ worker' = [worker EXCEPT ![k] = FreeWorker]
  /\ UNCHANGED <<task, lapsed, online, deleted, tick, todo, faults>>

-----------------------------------------------------------------------------
(* Failures and the passing of time. *)

CountFault == faults < MaxFaults /\ faults' = faults + 1

\* A statement of the worker fails, the chunked session cannot be opened (the
\* `?` on the init request), or its process dies: the worker ends, and what it
\* has not written stays unwritten.
WorkerFails(k) ==
  /\ CountFault
  /\ worker[k].pc # "free"
  /\ worker' = [worker EXCEPT ![k] = FreeWorker]
  /\ UNCHANGED <<task, lapsed, peerVars, deleted, tick, todo>>

\* A statement of the tick fails, or its process dies: a failed recovery only
\* warns, the others end the tick.  A crash of a replica is this step together
\* with WorkerFails for each of its workers.
TickFails(r) ==
  /\ CountFault
  /\ tick' = [tick EXCEPT ![r] = IF tick[r].pc = "idle" THEN [IdleTick EXCEPT !.pc = "recovered"]
                                 ELSE IdleTick]
  /\ UNCHANGED <<task, lapsed, peerVars, deleted, worker, todo>>

\* NOW() passes claim_expires_at.  It is a fault only while a worker is still
\* on the task: the claim of a worker that is gone always lapses in the end.
Lapse(t) ==
  /\ Live(t)
  /\ IF worker[task[t].token].pc = "free" THEN UNCHANGED faults ELSE CountFault
  /\ lapsed' = lapsed \cup {t}
  /\ UNCHANGED <<task, peerVars, deleted, worker, tick, todo>>

BackoffElapses(p) ==
  /\ p \in backoff
  /\ backoff' = backoff \ {p}
  /\ UNCHANGED <<task, lapsed, online, active, deleted, worker, tick, todo, faults>>

\* mark_peer_online: the heartbeat probe got through.
PeerOnline(p) ==
  /\ p \notin online
  /\ online' = online \cup {p}
  /\ UNCHANGED <<task, lapsed, backoff, active, deleted, worker, tick, todo, faults>>

\* mark_stale_offline: no heartbeat within the threshold.
PeerOffline(p) ==
  /\ p \in online
  /\ online' = online \ {p}
  /\ UNCHANGED <<task, lapsed, backoff, active, deleted, worker, tick, todo, faults>>

-----------------------------------------------------------------------------
(* The statements other services run on the queue. *)

\* queue_sync_task, the subscription run and the retroactive queueing of a new
\* subscription: an existing row keeps its status.
Enqueue(t) ==
  /\ task[t].status = "absent"
  /\ t \in Pushes
  /\ task' = [task EXCEPT ![t] = NewRow("pending")]
  /\ UNCHANGED <<lapsed, peerVars, deleted, worker, tick, todo, faults>>

\* An upload to the path of a deleted artifact keeps its id and clears
\* is_deleted; the queue_sync_task of each subscribed peer is an Enqueue.
Reupload(a) ==
  /\ a \in deleted
  /\ deleted' = deleted \ {a}
  /\ UNCHANGED <<task, lapsed, peerVars, worker, tick, todo, faults>>

\* The statements a handler runs after statement e, unless it stops there.
After(e) ==
  CASE e[1] = "cancel"   -> {<<"deletes", e[2]>>}
    [] e[1] = "withdraw" -> {<<"requeue", e[2]>>}
    [] OTHER             -> {}

Done(e) == (todo \ {e}) \cup After(e)

\* delete_with_sync_options: the soft delete, the cancellation of the push
\* rows, and the fan-out, which the delete of another peer does not ask for.
DeleteArtifact(a) ==
  /\ Cardinality(todo) < MaxHandlers
  /\ a \notin deleted
  /\ deleted' = deleted \cup {a}
  /\ todo' = todo \cup {<<"cancel", a>>}
  /\ UNCHANGED <<task, lapsed, peerVars, worker, tick, faults>>

CancelSuperseded(a) ==
  LET e == <<"cancel", a>>
  IN  /\ e \in todo
      /\ todo' \in {Done(e), todo \ {e}}
      /\ task' = [t \in Tasks |->
                    IF ArtifactOf[t] = a /\ t \in Pushes /\ task[t].status \in {"pending", "failed"}
                    THEN [task[t] EXCEPT !.status = "cancelled"] ELSE task[t]]
      /\ UNCHANGED <<lapsed, peerVars, deleted, worker, tick, faults>>

EnqueueDeletes(a) ==
  LET e == <<"deletes", a>>
  IN  /\ e \in todo
      /\ todo' = Done(e)
      /\ task' = [t \in Tasks |->
                    IF /\ ArtifactOf[t] = a /\ t \notin Pushes
                       /\ task[t].status = "absent" /\ PeerOf[t] \in online
                    THEN NewRow("pending") ELSE task[t]]
      /\ UNCHANGED <<lapsed, peerVars, deleted, worker, tick, faults>>

Opposite(s, t) ==
  PeerOf[s] = PeerOf[t] /\ ArtifactOf[s] = ArtifactOf[t] /\ (s \in Pushes) # (t \in Pushes)

Synced(a, p) ==
  \E t \in Pushes : PeerOf[t] = p /\ ArtifactOf[t] = a /\ task[t].status = "completed"

\* What evaluate_for_artifact queues when the policies want a at these peers: a
\* push where no push has completed, a delete where one has and should not.
Due(a, desired) ==
  {t \in Tasks : /\ ArtifactOf[t] = a
                 /\ t \in Pushes <=> PeerOf[t] \in desired
                 /\ t \in Pushes <=> ~Synced(a, PeerOf[t])}

\* evaluate_for_artifact reads the artifact and its completed pushes, then
\* withdraws and queues, task by task, what may no longer be due.
Evaluate(a, desired) ==
  /\ Cardinality(todo) < MaxHandlers
  /\ a \notin deleted
  /\ \A t \in Due(a, desired) : task[t].retry < RetryBound
  /\ todo' = todo \cup {<<"withdraw", t>> : t \in Due(a, desired)}
  /\ UNCHANGED <<task, lapsed, peerVars, deleted, worker, tick, faults>>

\* The opposite task is cancelled while it is pending.
Withdraw(t) ==
  LET e == <<"withdraw", t>>
  IN  /\ e \in todo
      /\ todo' = Done(e)
      /\ task' = [s \in Tasks |->
                    IF Opposite(s, t) /\ task[s].status = "pending"
                    THEN [task[s] EXCEPT !.status = "cancelled"] ELSE task[s]]
      /\ UNCHANGED <<lapsed, peerVars, deleted, worker, tick, faults>>

\* Any row that is not in_progress goes back to pending with its retry_count.
Requeue(t) ==
  LET e == <<"requeue", t>>
  IN  /\ e \in todo
      /\ todo' = Done(e)
      /\ task' = IF task[t].status = "in_progress" THEN task
                 ELSE [task EXCEPT ![t] = Unclaimed(t, "pending")]
      /\ UNCHANGED <<lapsed, peerVars, deleted, worker, tick, faults>>

\* A statement fails and the handler goes on (`let _ =`), or its process dies.
HandlerFails(e) ==
  /\ CountFault
  /\ e \in todo
  /\ todo' \in {Done(e), todo \ {e}}
  /\ UNCHANGED <<task, lapsed, peerVars, deleted, worker, tick>>

-----------------------------------------------------------------------------
TickStep(r) ==
  \/ Recover(r)
  \/ FetchPeers(r)
  \/ ResetFailed(r)
  \/ \E p \in Peers : ClaimPeer(r, p)
  \/ EndTick(r)

WorkerStep(k) ==
  \/ SkipFiltered(k)
  \/ StartTransfer(k)
  \/ FinalizeSuccess(k)
  \/ FinalizeFailure(k)
  \/ SettleCounters(k)

QueueStep ==
  \/ \E t \in Tasks : Enqueue(t) \/ Withdraw(t) \/ Requeue(t)
  \/ \E a \in Artifacts : DeleteArtifact(a) \/ Reupload(a) \/ CancelSuperseded(a) \/ EnqueueDeletes(a)
  \/ \E a \in Artifacts : \E desired \in SUBSET Peers : Evaluate(a, desired)

FaultStep ==
  \/ \E k \in Tokens : WorkerFails(k)
  \/ \E r \in Replicas : TickFails(r)
  \/ \E t \in Tasks : Lapse(t)
  \/ \E e \in todo : HandlerFails(e)

Next ==
  \/ \E r \in Replicas : TickStep(r) \/ \E p \in Peers : SkipPeer(r, p)
  \/ \E k \in Tokens : WorkerStep(k) \/ ExtendClaim(k)
  \/ \E p \in Peers : BackoffElapses(p) \/ PeerOnline(p) \/ PeerOffline(p)
  \/ QueueStep
  \/ FaultStep

Spec == Init /\ [][Next]_vars

\* The loop ticks every ten seconds, every request of a transfer has a timeout,
\* and time passes: claims of dead workers lapse and backoffs end.
Fairness ==
  /\ \A r \in Replicas : WF_vars(TickStep(r))
  /\ \A k \in Tokens : WF_vars(WorkerStep(k))
  /\ \A t \in Tasks : WF_vars(task[t].token # NoToken /\ worker[task[t].token].pc = "free" /\ Lapse(t))
  /\ \A p \in Peers : WF_vars(BackoffElapses(p))

FairSpec == Spec /\ Fairness

-----------------------------------------------------------------------------
(* Safety. *)

\* A claimed row and its worker agree: the token is held by one row only, only
\* in_progress rows carry claim columns or can lapse, and the worker behind the token, while
\* it has not finalized, works on that row with that row's retry_count.
ClaimIntegrity ==
  /\ \A t \in Tasks : task[t].status # "in_progress" => task[t].token = NoToken
  /\ \A t \in lapsed : task[t].token # NoToken
  /\ \A s, t \in Tasks : task[s].token = task[t].token /\ task[s].token # NoToken => s = t
  /\ \A t \in Tasks : \A k \in Tokens :
       task[t].token = k /\ worker[k].pc # "free" =>
         /\ worker[k].pc \in {"claimed", "running"}
         /\ worker[k].task = t
         /\ worker[k].retry = task[t].retry

\* A row leaves in_progress only through the worker that holds its claim token,
\* or through recovery once the claim has lapsed: a worker whose claim was taken
\* over cannot settle the row of the new owner.
FencedStep(t) ==
  LET k == task[t].token
  IN  /\ task[t].status = "in_progress"
      /\ task'[t].status # "in_progress" \/ task'[t].token # k
      => \/ task'[t].status = "pending" /\ Abandoned(t)
         \/ /\ task'[t].status \in {"completed", "failed"}
            /\ k \in Tokens
            /\ worker[k].task = t
            /\ worker[k].pc \in {"claimed", "running"}
            /\ worker'[k].pc \notin {"claimed", "running"}

FencedFinalizers == [][\A t \in Tasks : FencedStep(t)]_vars

\* retry_count counts failed attempts: it only moves by one, when a claimed row
\* fails, although each worker computes it from the row it read at claim time.
RetryStep(t) ==
  task[t].status # "absent" /\ task'[t].retry # task[t].retry =>
    /\ task'[t].retry = task[t].retry + 1
    /\ task[t].status = "in_progress"
    /\ task'[t].status = "failed"

RetryCountsFailures == [][\A t \in Tasks : RetryStep(t)]_vars

\* The claim statement keeps the live claims of a peer within its limit,
\* whatever stale slot count the tick brings: only the extension of a lapsed
\* claim can take the peer past it.
ClaimsWithinLimit ==
  [][\A p \in Peers :
       /\ LiveClaims(p)' > LiveClaims(p)
       /\ \A t \in Tasks : Live(t)' => Live(t) \/ task[t].token # task'[t].token
       => LiveClaims(p)' <= Limit]_vars

\* The queue implements the claim protocol of ClaimQueue: a worker acts on its
\* row until it has run a finalizer.
Acting == {k \in Tokens : worker[k].pc \in {"claimed", "running"}}

Protocol == INSTANCE ClaimQueue
  WITH Rows <- Tasks, holder <- [t \in Tasks |-> task[t].token], acting <- Acting

\* Every step of the workers, ticks and services on sync_tasks is a step that
\* the claim protocol allows, or leaves all claims alone.
ImplementsClaimQueue == Protocol!Spec

-----------------------------------------------------------------------------
(* Liveness. *)

\* The queue still owes an attempt for this row.
Outstanding(t) ==
  \/ task[t].status \in {"pending", "in_progress"}
  \/ task[t].status = "failed" /\ task[t].retry < MaxRetries

\* Every task of a peer that stays online is settled in the end: completed,
\* cancelled or failed for good, through crashes, lapsed claims and backoffs.
\* A push of a deleted artifact is not owed.
EventuallySettled ==
  \A t \in Tasks :
    <>[](PeerOf[t] \in online) => (Outstanding(t) ~> ~Outstanding(t) \/ ~Wanted(t))

-----------------------------------------------------------------------------
(* What comments of the code say and the runs refute. *)

\* Recovery is to "walk back the per-peer active_transfers counter the dead
\* owner never decremented": once nothing is claimed and no worker is left,
\* every slot is free again.
SlotsReturned ==
  \A p \in Peers :
    /\ \A t \in Tasks : PeerOf[t] = p => task[t].status # "in_progress"
    /\ \A k \in Tokens : worker[k].pc # "free" => PeerOf[worker[k].task] # p
    => active[p] = 0
=============================================================================
