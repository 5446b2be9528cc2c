# Verification of the Artifact Keeper backend

This directory holds TLA+ models of the concurrent core of the vendored Artifact
Keeper backend (`src/artifact-keeper/backend`), the TLC configurations that check
them and TLAPS proofs about them. `PROJECT.json` maps every definition to the
source lines it models.

## 1. The system

The repository vendors Artifact Keeper (a Rust backend, a Next.js frontend, Helm and
Terraform) and adds the scripts and workflows that build, scan, sign and promote
its images. Several **replicas** of the backend share one Postgres database and one
object store. Every replica serves requests and runs the same background loops, so
most of what is hard about the system is in the tables and objects they share: what
a process read may be stale when it writes, the store has no transactions, and any
process can die, and any client go away, between two steps.

| Component | State | Operations | What makes it correct |
|---|---|---|---|
| Peer replication queue: `services/sync_worker.rs` | `sync_tasks` (status, retry_count, claim columns), `peer_instances` (status, backoff_until, active_transfers) | a tick every 10 s: recover lapsed claims, read peers, reset failed rows, claim per peer; a tokio task per claimed row: take a slot, transfer, extend, finalize, give the slot back | one worker per row, a stale worker changes nothing, the claim respects the limit, slots come back, every task is settled |
| Producers of sync tasks: `artifact_service.rs`, `sync_policy_service.rs`, `peer_instance_service.rs` | `artifacts.is_deleted`, `sync_tasks` | upload, delete (three statements), policy evaluation (reads, then a statement per task), subscription run | never disturb a claimed row |
| Row claim protocol: `cluster_work.rs` | claim_token, claimed_by, claim_expires_at of a row | claim, extend, finalize under the token | a row changes hands only when given up or lapsed |
| Webhook deliveries: `webhook_producer.rs`, `api/handlers/webhooks.rs`, `webhook_notifier.rs` | `webhook_deliveries`, `webhooks` (is_enabled, disabled_reason) | enqueue, a retry loop every 30 s over a claimed batch, redeliver, enable/disable, auto-disable | no concurrent sends, settled deliveries stay settled, every delivery is settled |
| OCI registry, uploads: `api/handlers/oci_v2.rs` | `oci_upload_sessions`, `oci_upload_parts`, `oci_upload_cleanup_keys`, `oci_blobs`, temporary and final objects | POST, PATCH, PUT, DELETE of an upload, with a completion lease and its heartbeat | a digest names its content, accepted chunks are in the blob, one outcome per upload, no object is leaked |
| OCI registry, manifests: `api/handlers/oci_v2.rs` | `oci_tags`, `manifest_blob_refs`, `oci_manifest_refs` | HEAD blob, PUT manifest, DELETE by tag or digest | a tagged image has its blobs |
| Storage GC: `storage_gc_service.rs`, `manifest_blob_refs_backfill.rs`, gate in `scheduler_service.rs` | marks on `oci_blobs`, journal rows, objects | hourly on every replica, without a lease: gate, prune, mark, sweep; sweeps of abandoned sessions and of journaled keys | nothing needed is removed, everything else is in the end |
| Proxy hydration: `proxy_hydration.rs`, `proxy_service.rs`, `cluster_lock.rs` | registry of leaders and metadata LRU per process, advisory locks, cached body and sidecar | a leader fetches, streams, tees to the cache and broadcasts; followers share; late ones probe again | no truncated body, no wait for ever, no key blocked by a leader that is gone |
| Scheduler and singleton leases: `scheduler_service.rs`, `cluster_work.rs` | `scheduler_leases` | try_acquire, renew, release | one holder at a time |
| Chunked uploads: `upload_service.rs` | `upload_sessions`, `upload_chunks`, a temporary file | create, chunk, complete, cancel, hourly cleanup | a completed session has all its bytes |
| Scanning, quarantine, promotion, lifecycle, auth, formats, migration, backup | their tables | request handlers and jobs | see `components` |
| CI: `src/ci`, `src/.gitea/workflows` | staging and release registries | gate, build, scan, sign, promote by digest | only scanned and signed digests reach release |
| Web frontend, infrastructure | none of their own | | not modelled |

The components meet in the database and the store: uploads, deletes and policy
evaluations write the rows the sync workers claim; domain events become the rows the
webhook loops claim; both queues follow the claim protocol, which is why it is a
module of its own. OCI uploads write the blobs that manifests refer to and that the
collector judges by those references; the collector also cleans up after the uploads.
`PROJECT.json` lists the hazards at their lines: stale owners, leases and claims that
lapse, crashes between two statements or between a statement and a storage call,
snapshots used after others have moved on, handlers whose statements fail one by one.

## 2. The modules

**`ClaimQueue`** is the abstract specification: rows with a holder (a token) and a
deadline, and the tokens whose worker still acts. A row goes to a new token only if
it is free or lapsed, its holder gives it up, lapsed rows are taken back. Nothing is
said of statuses, retries or limits.

**`SyncQueue`** models the replication queue. One SQL statement is one step.

| Variable | Code |
|---|---|
| `task` | rows of `sync_tasks`: status, claim_token, retry_count |
| `lapsed` | rows with claim_expires_at <= NOW() |
| `online`, `backoff`, `active` | status, backoff_until > NOW(), active_transfers of `peer_instances` |
| `deleted` | artifacts with is_deleted |
| `worker` | for each token, the tokio task with its `Claimed<TaskRow>` and place in `execute_transfer` |
| `tick` | each replica's place in `process_pending_tasks`, with the slots it read |
| `todo` | the next statement of each delete or evaluation handler |

`Recover`, `FetchPeers`, `ResetFailed`, `SkipPeer`, `ClaimPeer` and `EndTick` are the
tick; `SkipFiltered`, `StartTransfer`, `ExtendClaim`, `FinalizeSuccess`,
`FinalizeFailure` and `SettleCounters` a claimed task; `Enqueue`, `Reupload`,
`DeleteArtifact`, `CancelSuperseded`, `EnqueueDeletes`, `Evaluate`, `Withdraw` and
`Requeue` the producers; `PeerOnline`, `PeerOffline`, `BackoffElapses` and `Lapse`
heartbeats and the clock; `WorkerFails`, `TickFails` and `HandlerFails` crashes and
failed statements. The claim transaction is one step, because the advisory lock
serializes it per peer and it commits once; the rows it takes are any choice within
its LIMIT, which covers SKIP LOCKED and any priorities. Initially any row may exist,
also `in_progress` rows without a claim, which a replica of the version before the
claim columns leaves behind during a rolling upgrade.

**`WebhookRetry`** models the webhook queue in the same style. A batch is one worker
entry per claimed row; `Turn` makes the loop serve one entry at a time, so that the
claims of later entries can lapse while an earlier send is running. `prompt` is a
choice made once: either every send ends within its lease (the HTTP client times out
after 30 s, the lease is 120 s), or sends may take any time (a paused process).
Enqueue does not look at `enabled`: the producer's check and its insert are separate
statements, so the webhook may be disabled in between.

**`OciUpload`** models blob uploads and the three sweeps that clean up after them.
One SQL statement, one transaction or one storage call is one step, and a handler can
be dropped between any two. A digest *is* the content it stands for, so "the digest
matches" is an equation between contents.

| Variable | Code |
|---|---|
| `session` | `oci_upload_sessions`: state, state_token (the request that holds the lease), bytes_received, computed_digest, and the age of updated_at as far as the code compares it (6 hours: stale, 24: abandoned) |
| `parts` | `oci_upload_parts` in the order of part_index |
| `object` | the store: content by key; a key per request body, per concatenation and per digest |
| `journal` | `oci_upload_cleanup_keys`: whether the write was marked, the session, the request that inserted the row, its age |
| `blobs` | digests with a row in `oci_blobs` |
| `req` | each handler's place and local variables: the snapshot it read, its parts, its source |
| `reaper` | each collector's place: a locked session with keys to delete, or a selected journal key |
| `stalled`, `lost` | history: PUTs that were suspended past their lease, keys of upload objects whose best-effort delete failed in a handler that went on |

`StartUpload`, `PutBody`, `MarkBody` and `OpenSession` are the POST; `BeginPatch`,
`AppendPart`, `AppendLost`, `AppendUnknown` and `RecoverAppend` the PATCH, which reads
the session before its body streams and commits against what it read;
`ClaimSession`, `PromoteSinglePart`, `CollectParts`, `Concat`, `MarkComplete`, `Verify`,
`CopyBlob`, `DropComplete`, `CommitBlob`, `CommitUnknown`, `RecoverCommit`,
`ClearBlobKey`, `DeleteLeftovers` and `Finish` the PUT, which a monolithic POST joins at
`Verify`; `DropEmptyPart` and `ClearEmptyPart` belong to a PUT whose body has no length
and turns out empty; `ClaimCancel` to `CancelDrop` are the DELETE.
`WriteFails`, `RejectContent`, `CompleteFails` and `CancelFails` are the error paths
with what they delete and reopen. A best-effort delete on the way to success
(`DroppedBestEffort`, `DeleteLeftovers`) may fail, and the handler then goes on to clear
the journal row all the same. On the error paths, which leave the journal alone, it is
taken to succeed: an object that stays there with its row is what `Abort` leaves. The
best-effort clearing of a row is taken to succeed too; a row too many is the reaper's. `Stall` suspends a PUT past its lease, `AgeSession`
and `AgeKey` let the compared ages pass. `LockAbandoned`, `SweepDelete` and
`SweepCommit` are the sweep of abandoned sessions, which holds the row lock over its
storage calls; `SelectKey`, `ReapObject` and `ReapRow` the two cleanup-key sweeps,
which do not.

**`BlobGC`** models the mark and sweep against image pushes and deletes. Here an
upload is the copy to the final key and the INSERT of the row. `row` is `oci_blobs`
with its mark (`none`, `marked`, and `due` once the grace is over), `object` the
stored blobs, `tag`, `refs` and `edges` the other three tables; `client` and `gc` are
the places of pushes and deletes and of the collectors. A push deals with its blobs
one by one (`HeadBlob` or `UploadBlob` and `InsertBlob`) and then commits `PutManifest`.
A delete reads its target before the transaction (`ResolveDelete`), judges in it
(`DeleteTags`) and commits (`CommitDelete`). A collector passes the readiness gate,
prunes by a snapshot (`SelectStale`, `Prune`), marks, and sweeps under a row lock that
it holds from `LockBlob` to `DeleteRow`. `Restart` kills a process at any point; it
then runs the backfill of missing references. `NextHour` wakes the collectors and
makes marks due.

**`ProxyStream`** models the streaming path of the pull-through cache for one immutable
upstream object. A body is the number of its chunks.

| Variable | Code |
|---|---|
| `req` | a GET: its place, re-entries used, content_length, source, whom it follows and how far it is |
| `chan` | a leader's headers watch, its started flag, how its broadcast ended |
| `slot`, `lock` | `stream_registry` of each process; who has the advisory lock of the cluster: a request, the pool of a replica (a session in it has the lock and no request knows), or nobody |
| `writer` | the detached cache writer that `tee_stream` spawns |
| `object`, `sidecar`, `lru` | the cached body, its metadata, and each process's copy of the metadata |

A request loads the sidecar (perhaps from the LRU) and opens the body in two steps;
on a miss it asks for the lock on a pooled connection or is turned away (`TryAcquire`),
detaches that connection when the answer is there (`Detach`), leads or joins (`Elect`), opens upstream, is polled and passes chunks (`FirstPoll`, `Chunk`), each to
its client, the writer and the broadcast of the given depth. A follower that came
after the first chunk, or whose leader is gone before the headers, re-enters within its
budget and then fetches on its own; one that lags is cut off. The writer renames the
body over the object, classifies it, and writes the sidecar or deletes the object, in
separate steps (`PutStream`, `CommitSidecar`, `DeleteRejected`), whatever leaders after
it are doing. `ServeStale` is stale-if-error, `WriteNegative` the negative cache;
`Disconnect`, `SourceFails`, `WriterFails`, `LockLost` and `Restart` are what goes
wrong. A request that is dropped, or gets an error, between taking the lock and detaching
the connection (`Disconnect`, `AnswerLost`) leaves the lock to the pool, until the pool
closes the connection (`PoolCloses`) or hands it to a request that asks for the same
lock. A response with a Content-Length is broken off if its body is shorter and cut if
it is longer (`Finish`); `Whole` says that neither happened.

**`MCSyncQueue`**, **`MCWebhookRetry`**, **`MCOciUpload`**, **`MCBlobGC`** and
**`MCProxyStream`** define the instances; **`ClaimQueueProofs`**,
**`SyncQueueProofs`**, **`WebhookRetryProofs`**, **`OciUploadProofs`**,
**`OciUploadBlobProofs`**, **`BlobGCProofs`** and **`ProxyStreamProofs`** hold the
theorems. A definition named `X_Something` before a definition `X` is a mutant of it:
the plausible bug that the property in `PROJECT.json` must detect.

## 3. The runs

| Run | Configuration | Result |
|---|---|---|
| `sync_claims` | 2 replicas, 1 peer with limit 1, a push and the delete of one artifact, 2 tokens, one handler statement outstanding, 1 fault | holds: `TypeOK`, `ClaimIntegrity`, `FencedFinalizers`, `RetryCountsFailures`, `ClaimsWithinLimit`, `ImplementsClaimQueue` |
| `sync_progress` | 1 replica, 2 pushes (one filtered), limit 3, 2 retries, 2 faults, fairness | holds: `EventuallySettled` |
| `sync_slots_returned` | as `sync_claims` | violated: `SlotsReturned` |
| `webhook_claims` | 2 replicas, 2 deliveries of one webhook, batches of 2, 3 tokens, 2 attempts, redeliveries, no faults | holds: `TypeOK`, `NoConcurrentSend`, `SettledStays`, `ImplementsClaimQueue` |
| `webhook_progress` | 1 replica, 2 deliveries, 3 tokens, 2 faults, fairness | holds: `EventuallySettled` |
| `webhook_schedule` | redeliveries up to the attempt limit, no faults | violated: `ScheduledMeansRetry` |
| `oci_upload` | a POST, a PATCH, two PUTs (with and without a last chunk, for different digests) and a DELETE, 1 collector, 1 fault, fairness | holds: `TypeOK`, `BlobIntegrity`, `AcceptedPartsAreKept`, `OneOutcome`, `UploadObjectsAccounted`, `UploadObjectsReclaimed` |
| `oci_upload_reaped` | a POST, a PATCH, a PUT, a monolithic POST of the same digest, 1 collector, 1 fault | violated: `CommittedBlobPresent` |
| `blob_gc` | an image of one blob and an index that lists it, 2 tags, 3 pushes, an untag, a delete by digest, 2 collectors, 1 fault, fairness | holds: `TypeOK`, `GraceSparesTagged`, `OrphansReclaimed` |
| `blob_gc_dangling` | 2 repositories in one bucket, a push to each and an untag in one, 1 collector, no faults | violated: `TaggedImageComplete` |
| `proxy_stream` | 2 requests on a replica that takes the cluster lock, 1 on one that does not, 2 chunks, broadcast depth 1, 1 re-entry, 1 fault, fairness | holds: `TypeOK`, `ServedWhole`, `FollowerSharesBody`, `KeyNotPoisoned`, `Answered`, `LockFreed` |
| `proxy_stream_partial` | 2 requests on a replica without the lock, 1 fault | violated: `NeverPartial` |

**What the properties say.** Those of the queues are explained with their proofs.
`BlobIntegrity`: what is stored under a digest has that digest, whichever of the three
ways it was promoted, provided no PUT for that digest was suspended past its lease:
such a PUT copies its source over the final key without asking whether the session is
still its own, and the lease does not fence the store. `AcceptedPartsAreKept`,
`OneOutcome`: what the clients were told is what happened. `UploadObjectsAccounted`:
every temporary object has a journal row, whatever was dropped, so that
`UploadObjectsReclaimed` can hold. Both exempt the objects in `lost`: the promoted
concatenation, an empty final part and the final part of a finished upload are deleted
best effort and their rows are cleared without looking, so that one failed delete leaves
an object that no sweep finds. This is against two comments of `oci_v2.rs`, line 5618
("this cannot orphan storage") and lines 990 to 995 ("have already been deleted on the
success path", "a lost delete simply falls back to that sweep"). `GraceSparesTagged`: a delete or a prune may remove
the references of an image that is being tagged at that moment, and yet no collector
deletes the object of a row whose grace has passed while a tag of that repository
names an image that lists the blob: mark, grace and gate come in between. It says
nothing of a mark younger than the grace, of other repositories in the bucket or of
pushes that have not committed; what happens there is described with the violations.
`OrphansReclaimed`: what no live image needs goes in the end, unless the gate stays
shut, which it does as long as a live manifest has no references and no process is
restarted. `ServedWhole`: a complete response has all chunks, also for a hit that races
with a writer that rejects and deletes. `FollowerSharesBody`: no hole and no prefix.
`KeyNotPoisoned`: the registry and the lock name only requests at work. What it cannot
say is that the lock is free when no request has it: `cluster_lock.rs` detaches the
connection after the answer, so a request dropped before that returns the lock to the
pool, against lines 12 and 13 ("without leaking a lock back into the pool"), and the
comment at line 115 calls such a lock poison for the key. The damage is bounded:
`Answered`, nobody waits for ever, also while the pool has the lock and every request is
turned away; and `LockFreed`, the lock is always given back, by its request or, when
the pool closes the connection (`max_lifetime`, 30 minutes by default), by Postgres.

**Bounds.** *Queues.* Two replicas and two rows are enough for every conflict between
an owner, its successor and a bystander; a third contender only repeats the second
one's steps, and the proofs remove the bound for the invariants. Tokens are recycled
once no row and no worker refers to them, so their number bounds the claims referenced
at once, not the length of a run: with two, a stale worker and its successor exist
together. `MaxFaults` counts crashes, failed statements and, in the sync queue, lapses
of claims whose worker is alive; one fault is enough for every takeover, since
everything after it (recovery, claim, late finalizer) is normal operation.
`webhook_claims` runs without faults: there a claim lapses under a live worker in
normal operation, so takeovers happen anyway, and a worker that never takes its next
step leaves the row as a crash does; `webhook_progress` takes the fault steps, and the
theorems hold for any number of faults. `RetryBound` and `RedeliverBound` stop the two
operations that could raise a counter for ever; `MaxHandlers` bounds the handler
statements that are outstanding.

*Uploads, collector, proxy.* Each request, push or delete is received once, which
bounds these models; a retry is another request, and there are enough of them for one
to take over from another (two PUTs on one session, two pushes of one image, a leader,
its follower and a competitor on another replica). One repository is enough for
`GraceSparesTagged`, which compares a row with the tags of its own repository; the
violation needs two. One fault is enough for each
crash point, and what follows it is normal operation. Two chunks with depth 1 let a
follower lag, be cut off and miss a chunk; with one re-entry a request is turned away,
probes again and runs out of budget. The proofs remove these bounds for all safety
properties.

No other state is cut. Symmetry is used in the queues' runs without liveness
properties: tokens are random, replicas run the same code, and deliveries of one
webhook are alike. Deadlock is checked in the queues' runs. The other models may stop,
because each of their requests runs once: their cfg files say CHECK_DEADLOCK FALSE, and
the liveness properties say where they must not have stopped.

**Fairness.** *Queues.* Weak fairness on each replica's tick or claim (the loops run on
intervals, catch every error and go on), on each worker (every request has a timeout,
so a transfer ends and its next statement runs), on the lapse of a claim whose worker
is gone, and on the passing of backoffs and retry times. Nothing is assumed of
operators, uploads, peers or faults; a peer that goes offline for ever owes nothing.
*Uploads and collector.* A handler, or a push, that has begun runs on (the first
request need never come); the collector's hourly tick comes round again, on every
replica; the ages that the code compares with NOW() are reached once nobody renews
them. *Proxy.* Tasks are run, upstream answers or fails, and a client reads or goes
away; no connection stays in a pool past its `max_lifetime` (`db.rs`). A client that
keeps its connection and never reads is outside `Answered` and `LockFreed`.
Faults are bounded everywhere, because with a fault in every attempt nothing makes
progress.

**What the violations show.**

1. `SlotsReturned`. The finalizer and the counter update are two statements. A crash
   between them, or a failure of the second (its error is dropped), leaks a slot for
   ever: recovery looks at `in_progress` rows only. A worker that starts after its
   claim was recovered leaks one too. A peer that loses all its slots is skipped
   from then on: `EventuallySettled` of the sync queue holds only while fewer slots
   leak than the limit, which is why `sync_progress` has limit 3 and 2 faults.
2. `ScheduledMeansRetry`. `redeliver` raises `attempts` and leaves `next_retry_at`: a
   row can be scheduled and yet never be claimed, dead-lettered or the cause of an
   auto-disable. `EventuallySettled` of the webhook queue therefore has "out of
   attempts" as an outcome.
3. `CommittedBlobPresent`. `register_oci_upload_cleanup_key` leaves an old journal row
   of the final key, with its date, in place. A reaper selects that row as aged and
   unreferenced, a new push of the digest commits its blob, and the reaper deletes the
   object: the second look at the predicate comes after the storage delete and guards
   the row only.
4. `TaggedImageComplete`. The sweep and the manifest PUT serialize on the row of a
   repository and a digest, but the object belongs to all repositories of the bucket.
   An image was pushed to `hub` and untagged, and its blob's row is due. A push to
   `lab` uploads the same blob; `lab` has no reference yet, so the sweep of `hub`'s row
   passes its check and deletes the object; then `lab` inserts its row and commits tag
   and references, without asking whether the blob is there. Two more ways lead to
   the same state within one repository. A client whose HEAD found the blob does not
   upload it, and the sweep removes it before the manifest PUT. And the re-check under
   the lock asks for a mark, not for the grace: collector A selects a due row, a push
   resurrects it, a second push of the image overlaps a delete that then takes the
   references of its live tag, collector B marks the row again, and A sweeps it. The
   attempt to prove that no sweep ever touches a tagged image fails on this last one,
   which is why `GraceSparesTagged` is about due rows.
5. `NeverPartial`. A body cut short is in storage, without a sidecar, until the writer
   has classified and deleted it. If upstream fails for the next leader in between,
   stale-if-error serves it without a Content-Length as a complete response.

## 4. The proofs

TLAPS checks these for any sets of replicas, peers, rows, tokens, requests, digests
and collectors, any limits and any number of faults, from the ASSUMEs of the modules
alone: the constants have their types, Null and NoToken are nothing else, and the
rows of `sync_tasks` are finitely many.

`ClaimQueueProofs`, about the abstract protocol, without any assumption on its constants:
- `ClaimsStayApart`: no token is on two rows and only claimed rows lapse. It is inductive,
  because `Take` draws its tokens from those on no row and of no acting worker.
- `HoldersAreUndisturbed`: a claim that has not lapsed is ended by its own worker only.
- `StaleWorkersStayOut`: a worker that has lost its row never holds one again, so its late
  finalizer or extension fails the token check for good. Both queues implement the
  protocol (below), so these hold of their tokens, deadlines and workers.

`SyncQueueProofs`
- `TypeCorrect`. Its content is that counters stay natural numbers, because every
  subtraction is clamped (`Max0Type`).
- `ClaimsAreSound`: `ClaimIntegrity`, which is inductive together with the types. Its
  last conjunct (the worker behind a token that a row carries works on that row with
  that row's retry_count) is what makes it so: a finalizer that passes the
  token check then writes the row it was started for, and `Fresh` keeps a new claim
  from reusing a token that a row or a worker still refers to. There is one lemma per
  kind of step; the handler steps share `QueueStepRows`, which says what a statement
  of a producer can do to a row (nothing if it is in_progress).
- `OnlyTheOwnerSettles`: `FencedFinalizers`, and `OneRetryPerFailure`:
  `RetryCountsFailures`, from `ClaimIntegrity`.
- `ClaimsKeepTheLimit`: `ClaimsWithinLimit`. Only the claim statement hands out tokens, so
  without a revived claim every other step leaves the live claims among those there
  were (`NoNewToken`); the claim adds at most as many rows as the limit leaves over the claims it counts itself,
  so the stale slots of the tick can only lower the number. The counting is done with
  the cardinality theorems for finite sets, from the assumption that `Tasks` is finite.
- `QueueRefinesProtocol`: `ImplementsClaimQueue`. A claim maps to `Take`, a finalizer of
  the owner to `Settle`, one that no longer owns the row to `Quit`, recovery to
  `Reclaim`, an extension to `Extend`, a lapse to `Expire`, and everything else is a stutter
  (`ProtocolStutters`). `ClaimIntegrity` is needed: recovery and the producers choose rows
  by their status and clear the claim columns, and only because a row that is not
  in_progress carries no token are the producers' statements stutters and is what
  recovery takes back exactly the lapsed rows.

`WebhookRetryProofs`
- `TypeCorrect`.
- `SendsAreExclusive`: `NoConcurrentSend`, through the inductive `SendersHold` (while
  sends are prompt, a sender holds its row under a claim that has not lapsed).
  `NoConcurrentSend` alone is not inductive: it does not say why no other replica
  can claim the row.
- `SettledForGood`: `SettledStays`, also for sends that outlast their lease. A settled
  row carries no token, so neither the claim nor any finalizer or extension matches it.
- `RetryQueueRefinesProtocol`: `ImplementsClaimQueue`, from the types alone. A worker that
  goes on to disable the webhook no longer acts on the row; a failed batch is a `Quit`
  of all its entries at once; enqueueing, redelivery and the passing of time write the
  row but leave its claim, so they are stutters.

`ProxyStreamProofs`. One inductive invariant, `Inv`: the types; `Phases` and `Headers`,
what the place of a request says of its budget, chunks and channel; `Registry`, of which
`KeyNotPoisoned` is a part (the rest: a request that waits for the answer about the lock
has it, so that what a disconnect gives to the pool was its own, and a leader that may
still be joined has sent nothing, so a follower misses nothing at the start); `Following`, a follower has a
prefix of what its leader has sent and, once served, all of it; `Cached`, with a
Content-Length the sidecar and its copies in the LRUs say `Size` or nothing and a writer
about to commit has the whole body, which is why a hit on an object that was replaced in
between breaks off instead of ending short.
- `TypeCorrect`; `RegistryCorrect`: `KeyNotPoisoned`; `FollowersCorrect`:
  `FollowerSharesBody`; `ResponsesCorrect`: `ServedWhole`.

`OciUploadProofs`. Two layers, each proved inductive with the ones before it as known.
`Types` adds to `TypeOK` that a request is at a step of its kind and has its session
and source (`TypeOK` alone does not keep an action from using Null as a session).
`Accounting` adds to `UploadObjectsAccounted` why the row is there when the object is
written and why it stays: it is written first (`Journaled`), it names the request of its
key and ages only when that request is over (`Rows`), the collector works on keys of
requests that are over and drops the row when the object is gone (`Reaping`), and a PUT
that clears a row has deleted the object or has it in `lost` (`Known`).
- `TypeCorrect`; `ObjectsCorrect`: `UploadObjectsAccounted`.

`OciUploadBlobProofs`. Three more layers. `Ownership`: a lease names a request of its
session, a sweep holds an abandoned session alone, a cached digest is that of the
session's only part, and a PUT that has not stalled holds its session unchanged until it
has read the part rows. `Contents` adds that what a PUT is about to copy is a body of
the digest it asks for or the concatenation it verified: `BlobIntegrity` alone says
nothing of a copy to come, and the promotion of a single part, which reads no bytes, is
right only because the cached digest was still that of the part rows. `Outcomes`: the
request that decides a session ends it in the same transaction (`Decisions`), and the
holder of the lease has all parts of the session from the moment it has read them
(`PartsKept`), since no PATCH commits to a session that is not open.
- `BlobsCorrect`: `BlobIntegrity`; `OutcomeCorrect`: `OneOutcome`; `PartsCorrect`:
  `AcceptedPartsAreKept`.

`BlobGCProofs`. The inductive invariant `IInv` adds to the types, to what the places of
clients and collectors say of their local variables (`LocalsOK`) and to the property
itself (`SweepClear`, for a collector that holds a row) the reasons why a due row of a
tagged image cannot be selected and swept. `WholeRefs`: references come and go for whole
manifests, so that "some reference is missing" and "this one is missing" agree, which
the gate's question needs. `DeletesFresh` and `PrunesFresh`: when a delete or a prune is
about to remove references by an old snapshot and the manifest has been tagged since,
that push has cleared the marks of its blobs, and no mark of the manifest is due yet.
`GateShut`: a tagged image with a due row and no reference can therefore only come about
at `NextHour`, when no collector is past the gate, and the gate then stays shut until the
references are back. Each of the steps (client, delete, collector, time) has a lemma for
each conjunct it can disturb.
- `TypeCorrect`; `GraceCorrect`: `IInv` is an invariant; `SweepRespectsGrace`:
  `GraceSparesTagged`.

Every invariant, action property and refinement of the passing runs is stated by a
theorem. Only model-checked: the liveness properties (`EventuallySettled` of both queues,
`UploadObjectsReclaimed`, `OrphansReclaimed`, `Answered`, `LockFreed`).
Out of the prover's reach are liveness under fairness and ENABLED, and
induction over data: what `Concatenated` computes for every sequence of parts is not
proved, and the proofs use only that it yields some content.

## 5. Not modelled

Of the sync queue: `consecutive_failures` and the length of a backoff, priorities, the
bytes of a transfer and its chunks, the peer that `resolve_scored_peer` picks, peer
registration and removal, and `update_sync_task`, which no code calls. Of the webhooks:
creation, update and deletion of webhooks, signatures and secret rotation, the test
endpoint. Of the OCI registry: cross-repository mounts, sessions of versions without
part rows beyond the fallback that `FetchedParts` models, size limits, proxying and
virtual repositories. Of the collector: `run_gc` of soft-deleted artifacts, flat Maven
objects, the footprint report, scan limits, and a grace of zero, which `config.rs`
accepts (`BLOB_GC_SWEEP_GRACE_SECS=0`): `NextHour` takes the grace to be longer than a
tick, and without one mark and sweep share a tick with no gate between them. A backfill
that fails on a candidate, or is cut short by a second restart, is left out: it keeps
the gate shut until the next one. Of the proxy: the buffered coordinator, revalidation
of mutable entries, the Package Age Policy, the digest gate of OCI blobs, backpressure
between a leader and its writer, and bodies without a Content-Length as far as
`ServedWhole` is concerned (the code accepts what upstream ended cleanly). `ServeStale`
and `HeadBlob` read an object and a row in one step, where the code has two; what they
read is used once and may be stale in the model anyway. Most of the repository's lines
are the format handlers, scanners, services over single tables and their tests:
request-scoped parsing, formatting and I/O, which a model of shared state has nothing to
say about. The other components are listed with their reasons in `PROJECT.json`.

## 6. Plan

1. `SchedulerLease`: acquire, renew and release by owner and token, the curation
   cycle that outlives its lease.
2. `Replication`: `SyncQueue` with the contents of the peers and versions of an
   artifact; a push in flight while its artifact is deleted or uploaded again, peers
   that were offline, redirected transfers.
3. `UploadSession`: chunk, complete, cancel and cleanup on one session and one file.
4. Image promotion in CI.
5. Proofs: what part of `CommittedBlobPresent` and `TaggedImageComplete` holds when no
   reaper or sweep overlaps a push; the lemmas of the upload proofs that could serve
   `UploadSession`.
