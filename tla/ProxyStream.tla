----------------------------- MODULE ProxyStream -----------------------------
(***************************************************************************)
(* The streaming pull-through cache (services/proxy_hydration.rs,          *)
(* proxy_service.rs, cluster_lock.rs), for one immutable upstream object.  *)
(*                                                                         *)
(* A request probes the cache: a metadata sidecar, read through a          *)
(* per-process LRU, and a body.  On a miss one request per process leads:  *)
(* it opens upstream, yields every chunk to its client, tees it to a       *)
(* detached cache writer and broadcasts it to the requests that joined     *)
(* before its first chunk.  A request that came too late, or lost its      *)
(* leader before the headers, probes again, Budget times, and then fetches *)
(* on its own.  Replicas in Advisory put a cluster-wide lock before the    *)
(* election.                                                               *)
(*                                                                         *)
(* A body is the number of its chunks: chunks are only ever appended, in   *)
(* order, so a body is right when it has all Size of them.                 *)
(***************************************************************************)
EXTENDS Naturals, FiniteSets

CONSTANTS
  Replicas,     \* server processes, sharing the storage
  Requests,     \* GETs of the object
  ReplicaOf,    \* the replica each request arrives at
  Advisory,     \* replicas with PROXY_SINGLEFLIGHT_ADVISORY_LOCKS_ENABLED
  Size,         \* chunks of the upstream body
  KnownLength,  \* whether upstream sends a Content-Length
  Depth,        \* STREAM_BROADCAST_DEPTH
  Budget,       \* STREAM_REENTER_BUDGET
  MaxFaults,    \* bound on failed calls, lost connections and restarts
  Null

ASSUME ProxyAssumption ==
  /\ ReplicaOf \in [Requests -> Replicas]
  /\ Advisory \subseteq Replicas
  /\ Size \in Nat \ {0}
  /\ KnownLength \in BOOLEAN
  /\ Depth \in Nat \ {0}
  /\ Budget \in Nat
  /\ MaxFaults \in Nat
  /\ Null \notin Requests \cup Replicas \cup Nat
  /\ Requests \cap Replicas = {}

VARIABLES
  req,      \* requests: where they are, what they have read
  chan,     \* per leader: headers watch, started flag, how its broadcast ended
  slot,     \* per replica: stream_registry, the leader registered for the key
  lock,     \* pg_advisory_lock: the request it was given to, the replica in whose
            \* connection pool the session is that holds it, or Null
  writer,   \* per leader: the detached cache writer of tee_stream
  object,   \* storage: the cached body, or Null
  sidecar,  \* storage: the size in the metadata sidecar, or Null
  lru,      \* per replica: PROXY_METADATA_LRU, at most one entry for the key
  faults    \* faults so far (bounded by MaxFaults)

vars == <<req, chan, slot, lock, writer, object, sidecar, lru, faults>>

-----------------------------------------------------------------------------
\* A negative-cache marker is a sidecar of size 0; no committed body is empty.
Negative == 0

Bodies == 0..Size

Sidecars == {Null} \cup Bodies

\* served: a complete response; failed: an error, or a response cut short;
\* dropped: the client or the process went away.
Ended == {"served", "failed", "dropped"}

PCs == {"probe", "cached", "lock", "acquired", "elect", "open", "negative", "stream",
        "wait", "follow"} \cup Ended

Request == [pc    : PCs,
            tries : 0..Budget,                              \* re-entries used
            hdr   : Sidecars,                               \* content_length
            from  : {Null} \cup {"cache", "upstream", "stale"},
            body  : Bodies,                                 \* chunks a leader's source has
            lead  : Requests \cup {Null},                   \* whom a follower follows
            pos   : Bodies,                                 \* a follower's place in the broadcast
            got   : Bodies]                                 \* chunks passed to the HTTP layer

Channel == [headers : BOOLEAN, started : BOOLEAN,
            end : {"open", "done", "failed", "closed"}]

WriterPCs == {"none", "receive", "eof", "commit", "delete"}

\* Every variable holds a value of its type; a request re-enters within its budget
\* and reads no more chunks than there are.
TypeOK ==
  /\ req \in [Requests -> Request]
  /\ chan \in [Requests -> Channel]
  /\ slot \in [Replicas -> Requests \cup {Null}]
  /\ lock \in Requests \cup Replicas \cup {Null}
  /\ writer \in [Requests -> WriterPCs]
  /\ object \in Sidecars
  /\ sidecar \in Sidecars
  /\ lru \in [Replicas -> SUBSET Sidecars]
  /\ faults \in 0..MaxFaults

Init ==
  /\ req = [q \in Requests |-> [pc |-> "probe", tries |-> 0, hdr |-> Null, from |-> Null,
                                body |-> 0, lead |-> Null, pos |-> 0, got |-> 0]]
  /\ chan = [q \in Requests |-> [headers |-> FALSE, started |-> FALSE, end |-> "open"]]
  /\ slot = [r \in Replicas |-> Null]
  /\ lock = Null
  /\ writer = [q \in Requests |-> "none"]
  /\ object = Null
  /\ sidecar = Null
  /\ lru = [r \in Replicas |-> {}]
  /\ faults = 0

-----------------------------------------------------------------------------
CountFault == faults < MaxFaults /\ faults' = faults + 1

\* The lease's Drop removes the slot from the registry if it is still its own.
DropLease_Keep(q) == slot
DropLease(q) == [r \in Replicas |-> IF slot[r] = q THEN Null ELSE slot[r]]

\* The cluster lease is released, or its connection closes with the guard.
Unlock(q) == IF lock = q THEN Null ELSE lock

Registered(q) == slot[ReplicaOf[q]] = q

\* load_cache_metadata: the entry of the process's LRU, or the sidecar in storage when
\* there is none or it is older than PROXY_METADATA_LRU_TTL.
Loaded(r) == lru[r] \cup {sidecar}

\* A miss goes to the coordinator, or fetches on its own once the budget is used up.
\* Every re-entry counts.
Exhausted_OneMore(q) == req[q].tries > Budget
Exhausted(q) == req[q].tries = Budget

Miss(q) == [req[q] EXCEPT !.pc = IF Exhausted(q) THEN "open"
                                 ELSE IF ReplicaOf[q] \in Advisory THEN "lock" ELSE "elect"]

ReEnter(q) == [req[q] EXCEPT !.pc = "probe", !.tries = @ + 1, !.lead = Null]

\* A body that ended cleanly is a complete response unless it is shorter than the
\* Content-Length it was sent with: then the HTTP layer breaks the connection.  A
\* longer one it cuts at that length.
Finish(q, n) == IF req[q].hdr = Null \/ n >= req[q].hdr THEN "served" ELSE "failed"

-----------------------------------------------------------------------------
(* The cache hit path.                                                     *)

\* try_streaming_cache_hit, first half: a negative marker answers 404 within its
\* window and is a miss after it.
LoadSidecar(q) ==
  /\ req[q].pc = "probe"
  /\ \E s \in Loaded(ReplicaOf[q]) :
        /\ lru' = [lru EXCEPT ![ReplicaOf[q]] = {s}]
        /\ \/ /\ s = Negative
              /\ req' = [req EXCEPT ![q].pc = "failed"]
           \/ /\ s \in {Null, Negative}
              /\ req' = [req EXCEPT ![q] = Miss(q)]
           \/ /\ s \notin {Null, Negative}
              /\ req' = [req EXCEPT ![q].pc = "cached", ![q].hdr = s]
  /\ UNCHANGED <<chan, slot, lock, writer, object, sidecar, faults>>

\* open_cached_stream: the handle pins the object it opens.
OpenCached(q) ==
  /\ req[q].pc = "cached"
  /\ \/ /\ object = Null
        /\ req' = [req EXCEPT ![q] = Miss(q)]
     \/ /\ object # Null
        /\ req' = [req EXCEPT ![q].pc = Finish(q, object), ![q].from = "cache",
                              ![q].got = object]
  /\ UNCHANGED <<chan, slot, lock, writer, object, sidecar, lru, faults>>

-----------------------------------------------------------------------------
(* Election and the leader.                                                *)

\* PgAdvisoryLock::try_acquire, up to the answer of pg_try_advisory_lock on a pooled
\* connection.  The session that holds the lock gets it again; the loser naps and
\* re-enters; an error (at any time) degrades to the process alone.
TryAcquire(q) ==
  /\ req[q].pc = "lock"
  /\ \/ /\ lock \in {Null, ReplicaOf[q]}
        /\ lock' = q
        /\ req' = [req EXCEPT ![q].pc = "acquired"]
     \/ /\ lock # Null
        /\ req' = [req EXCEPT ![q] = ReEnter(q)]
        /\ UNCHANGED lock
     \/ /\ req' = [req EXCEPT ![q].pc = "elect"]
        /\ UNCHANGED lock
  /\ UNCHANGED <<chan, slot, writer, object, sidecar, lru, faults>>

\* The answer arrives: the winner detaches the connection from the pool and goes on to
\* the election in its process.
Detach(q) ==
  /\ req[q].pc = "acquired"
  /\ req' = [req EXCEPT ![q].pc = "elect"]
  /\ UNCHANGED <<chan, slot, lock, writer, object, sidecar, lru, faults>>

\* The lock was taken and an error arrives instead of the answer: the request goes on
\* as if it had not been.  The connection is broken, or goes back to the pool as it is.
AnswerLost(q) ==
  /\ req[q].pc = "acquired"
  /\ CountFault
  /\ lock' \in {Null, ReplicaOf[q]}
  /\ req' = [req EXCEPT ![q].pc = "elect"]
  /\ UNCHANGED <<chan, slot, writer, object, sidecar, lru>>

\* Mutant of PoolCloses: a pool that keeps its connections for good.
PoolCloses_Never == lock \in Replicas /\ UNCHANGED vars

\* The pool closes the connection (max_lifetime, idle_timeout), or it is detached for
\* another key and closed with that lease.
PoolCloses ==
  /\ lock \in Replicas
  /\ lock' = Null
  /\ UNCHANGED <<req, chan, slot, writer, object, sidecar, lru, faults>>

\* A follower may join only before the leader starts to emit.
MayJoin_Late(l) == TRUE
MayJoin(l) == ~chan[l].started

\* acquire_stream_slot: lead, follow, or fall back.  A follower's receiver starts at
\* the leader's position in the broadcast, as many chunks as it has missed.
Elect(q) ==
  LET l == slot[ReplicaOf[q]] IN
  /\ req[q].pc = "elect"
  /\ \/ /\ l = Null
        /\ slot' = [slot EXCEPT ![ReplicaOf[q]] = q]
        /\ req' = [req EXCEPT ![q].pc = "open"]
        /\ UNCHANGED lock
     \/ /\ l # Null /\ MayJoin(l)
        /\ req' = [req EXCEPT ![q].pc = "wait", ![q].lead = l, ![q].pos = req[l].got]
        /\ UNCHANGED <<slot, lock>>
     \/ /\ l # Null /\ ~MayJoin(l)
        /\ req' = [req EXCEPT ![q] = ReEnter(q)]
        /\ lock' = Unlock(q)
        /\ UNCHANGED slot
  /\ UNCHANGED <<chan, writer, object, sidecar, lru, faults>>

\* open_streaming_leader succeeds: the tee and its writer start, the headers are
\* published.  A request without a slot fans out to nobody.
Open(q) ==
  /\ req[q].pc = "open"
  /\ req' = [req EXCEPT ![q].pc = "stream", ![q].from = "upstream", ![q].body = Size,
                        ![q].hdr = IF KnownLength THEN Size ELSE Null]
  /\ chan' = [chan EXCEPT ![q].headers = TRUE]
  /\ writer' = [writer EXCEPT ![q] = "receive"]
  /\ UNCHANGED <<slot, lock, object, sidecar, lru, faults>>

\* Upstream answers 404: write_negative_cache deletes the body first; nobody looks
\* whether it could.
OpenNotFound(q) ==
  /\ req[q].pc = "open"
  /\ CountFault
  /\ object' \in {Null, object}
  /\ req' = [req EXCEPT ![q].pc = "negative"]
  /\ UNCHANGED <<chan, slot, lock, writer, sidecar, lru>>

\* ... and then writes the marker over the sidecar, best effort; the open has failed.
WriteNegative(q) ==
  /\ req[q].pc = "negative"
  /\ \/ sidecar' = Negative /\ lru' = [lru EXCEPT ![ReplicaOf[q]] = {}]
     \/ UNCHANGED <<sidecar, lru>>
  /\ req' = [req EXCEPT ![q].pc = "failed"]
  /\ chan' = [chan EXCEPT ![q].end = "failed"]
  /\ slot' = DropLease(q)
  /\ lock' = Unlock(q)
  /\ UNCHANGED <<writer, object, faults>>

\* Upstream is unreachable and no stored body can be read, or the repository holds new
\* packages back: the error goes to the client, the followers lose their leader.
OpenFails(q) ==
  /\ req[q].pc = "open"
  /\ CountFault
  /\ req' = [req EXCEPT ![q].pc = "failed"]
  /\ chan' = [chan EXCEPT ![q].end = "failed"]
  /\ slot' = DropLease(q)
  /\ lock' = Unlock(q)
  /\ UNCHANGED <<writer, object, sidecar, lru>>

\* Upstream is unreachable and a body is stored: handle_streaming_leader_upstream_error
\* streams it, with the length the sidecar gives or without one.
ServeStale(q) ==
  /\ req[q].pc = "open"
  /\ CountFault
  /\ object # Null
  /\ \E s \in Loaded(ReplicaOf[q]) :
        /\ lru' = [lru EXCEPT ![ReplicaOf[q]] = {s}]
        /\ req' = [req EXCEPT ![q].pc = "stream", ![q].from = "stale", ![q].body = object,
                              ![q].hdr = s]
  /\ chan' = [chan EXCEPT ![q].headers = TRUE]
  /\ UNCHANGED <<slot, lock, writer, object, sidecar>>

\* leader_handle, first poll: started is set under the registry's lock.
FirstPoll(q) ==
  /\ req[q].pc = "stream"
  /\ Registered(q)
  /\ ~chan[q].started
  /\ chan' = [chan EXCEPT ![q].started = TRUE]
  /\ UNCHANGED <<req, slot, lock, writer, object, sidecar, lru, faults>>

Polled(q) == Registered(q) => chan[q].started

\* One chunk: to the writer, to the broadcast, to the client.
Chunk(q) ==
  /\ req[q].pc = "stream"
  /\ Polled(q)
  /\ req[q].got < req[q].body
  /\ req' = [req EXCEPT ![q].got = @ + 1]
  /\ UNCHANGED <<chan, slot, lock, writer, object, sidecar, lru, faults>>

\* The writer's input ends: the tee drops its sender.
InputEnds(q) == [writer EXCEPT ![q] = IF @ = "receive" THEN "eof" ELSE @]

\* The leader's body is at its end: Done to the followers, the slot is freed.
Eof(q) ==
  /\ req[q].pc = "stream"
  /\ Polled(q)
  /\ req[q].got = req[q].body
  /\ req' = [req EXCEPT ![q].pc = Finish(q, req[q].got)]
  /\ chan' = [chan EXCEPT ![q].end = "done"]
  /\ writer' = InputEnds(q)
  /\ slot' = DropLease(q)
  /\ lock' = Unlock(q)
  /\ UNCHANGED <<object, sidecar, lru, faults>>

\* The source fails under way: Failed to the followers, the error to the writer
\* (put_stream gives up) and to the client.
SourceFails(q) ==
  /\ req[q].pc = "stream"
  /\ Polled(q)
  /\ CountFault
  /\ req' = [req EXCEPT ![q].pc = "failed"]
  /\ chan' = [chan EXCEPT ![q].end = "failed"]
  /\ writer' = [writer EXCEPT ![q] = "none"]
  /\ slot' = DropLease(q)
  /\ lock' = Unlock(q)
  /\ UNCHANGED <<object, sidecar, lru>>

-----------------------------------------------------------------------------
(* The follower.                                                           *)

\* The leader's headers arrive: follower_handle.
HeadersArrive(q) ==
  LET l == req[q].lead IN
  /\ req[q].pc = "wait"
  /\ chan[l].headers
  /\ req' = [req EXCEPT ![q].pc = "follow", ![q].hdr = req[l].hdr, ![q].from = req[l].from]
  /\ UNCHANGED <<chan, slot, lock, writer, object, sidecar, lru, faults>>

\* The watch's sender is gone without a value: fall back and re-enter.
LeaderGone_Failed(l) == chan[l].end = "failed"
LeaderGone(l) == chan[l].end # "open"

FallBack(q) ==
  LET l == req[q].lead IN
  /\ req[q].pc = "wait"
  /\ ~chan[l].headers
  /\ LeaderGone(l)
  /\ req' = [req EXCEPT ![q] = ReEnter(q)]
  /\ lock' = Unlock(q)
  /\ UNCHANGED <<chan, slot, writer, object, sidecar, lru, faults>>

\* What the leader has sent: its chunks and the terminal marker.  The channel keeps
\* the last Depth of them.
Sent(l) == req[l].got + (IF chan[l].end \in {"done", "failed"} THEN 1 ELSE 0)

Lagged(q) == Sent(req[q].lead) > req[q].pos + Depth

\* A terminal marker is Done; Failed, and a channel closed without one, are errors.
Complete(l) == chan[l].end = "done"

\* follower_handle: one recv.  A receiver behind by more than the channel holds has
\* lost chunks, which ends its body with an error.
Receive(q) ==
  LET l == req[q].lead IN
  /\ req[q].pc = "follow"
  /\ \/ /\ ~Lagged(q) /\ req[q].pos < req[l].got
        /\ req' = [req EXCEPT ![q].got = @ + 1, ![q].pos = @ + 1]
        /\ UNCHANGED lock
     \/ /\ ~Lagged(q) /\ req[q].pos = req[l].got /\ Complete(l)
        /\ req' = [req EXCEPT ![q].pc = Finish(q, req[q].got)]
        /\ lock' = Unlock(q)
     \/ /\ Lagged(q) \/ (req[q].pos = req[l].got /\ chan[l].end # "open" /\ ~Complete(l))
        /\ req' = [req EXCEPT ![q].pc = "failed"]
        /\ lock' = Unlock(q)
  /\ UNCHANGED <<chan, slot, writer, object, sidecar, lru, faults>>

-----------------------------------------------------------------------------
(* The cache writer, which outlives its request.                           *)

\* classify_stream_write: an empty body is rejected, and a body that is not as long
\* as upstream's Content-Length, when there is one.
Commits_Any(n) == n # 0
Commits(n) == n # 0 /\ (KnownLength => n = Size)

\* put_stream has seen the end of its input: it renames the temporary file over the
\* object, and the write is classified.
PutStream(q) ==
  /\ writer[q] = "eof"
  /\ object' = req[q].got
  /\ writer' = [writer EXCEPT ![q] = IF Commits(req[q].got) THEN "commit" ELSE "delete"]
  /\ UNCHANGED <<req, chan, slot, lock, sidecar, lru, faults>>

\* The sidecar is written after the body and the process's LRU entry is dropped.
CommitSidecar(q) ==
  /\ writer[q] = "commit"
  /\ sidecar' = req[q].got
  /\ lru' = [lru EXCEPT ![ReplicaOf[q]] = {}]
  /\ writer' = [writer EXCEPT ![q] = "none"]
  /\ UNCHANGED <<req, chan, slot, lock, object, faults>>

\* A rejected body is deleted.
DeleteRejected(q) ==
  /\ writer[q] = "delete"
  /\ object' = Null
  /\ writer' = [writer EXCEPT ![q] = "none"]
  /\ UNCHANGED <<req, chan, slot, lock, sidecar, lru, faults>>

\* A storage call of the writer fails: it logs and ends.  The leader streams on.
WriterFails(q) ==
  /\ writer[q] # "none"
  /\ CountFault
  /\ writer' = [writer EXCEPT ![q] = "none"]
  /\ UNCHANGED <<req, chan, slot, lock, object, sidecar, lru>>

-----------------------------------------------------------------------------
(* Clients, connections and processes.                                     *)

\* A client goes away: its future or body is dropped, with the lease, the cluster
\* lease and the tee's sender it holds.  While the answer of pg_try_advisory_lock is on
\* its way there is no lease yet: the connection goes back to the pool, and the lock
\* with it.  (Before that a request holds nothing that another could see.)
Disconnect(q) ==
  /\ req[q].pc \in {"acquired", "elect", "open", "negative", "stream", "wait", "follow"}
  /\ req' = [req EXCEPT ![q].pc = "dropped"]
  /\ chan' = [chan EXCEPT ![q].end = IF Registered(q) THEN "closed" ELSE @]
  /\ writer' = InputEnds(q)
  /\ slot' = DropLease(q)
  /\ lock' = IF req[q].pc = "acquired" THEN ReplicaOf[q] ELSE Unlock(q)
  /\ UNCHANGED <<object, sidecar, lru, faults>>

\* The detached connection dies: Postgres releases the lock, its holder streams on.
LockLost ==
  /\ lock \in Requests /\ req[lock].pc # "acquired"
  /\ CountFault
  /\ lock' = Null
  /\ UNCHANGED <<req, chan, slot, writer, object, sidecar, lru>>

\* A process dies with its requests, its writers, its registry, its LRU and its
\* connections.
Restart(r) ==
  LET On(q) == ReplicaOf[q] = r IN
  /\ CountFault
  /\ req' = [q \in Requests |->
               IF On(q) /\ req[q].pc \notin Ended THEN [req[q] EXCEPT !.pc = "dropped"] ELSE req[q]]
  /\ chan' = [q \in Requests |->
                IF slot[r] = q THEN [chan[q] EXCEPT !.end = "closed"] ELSE chan[q]]
  /\ writer' = [q \in Requests |-> IF On(q) THEN "none" ELSE writer[q]]
  /\ slot' = [slot EXCEPT ![r] = Null]
  /\ lock' = IF lock = r \/ (lock \in Requests /\ On(lock)) THEN Null ELSE lock
  /\ lru' = [lru EXCEPT ![r] = {}]
  /\ UNCHANGED <<object, sidecar>>

-----------------------------------------------------------------------------
RequestStep(q) ==
  \/ LoadSidecar(q) \/ OpenCached(q) \/ TryAcquire(q) \/ Detach(q) \/ Elect(q)
  \/ Open(q) \/ WriteNegative(q) \/ FirstPoll(q) \/ Chunk(q) \/ Eof(q)
  \/ HeadersArrive(q) \/ FallBack(q) \/ Receive(q)

UpstreamFault(q) == OpenNotFound(q) \/ OpenFails(q) \/ ServeStale(q) \/ SourceFails(q)

WriterStep(q) == PutStream(q) \/ CommitSidecar(q) \/ DeleteRejected(q)

Next ==
  \/ \E q \in Requests : RequestStep(q) \/ UpstreamFault(q) \/ WriterStep(q)
                         \/ WriterFails(q) \/ AnswerLost(q) \/ Disconnect(q)
  \/ \E r \in Replicas : Restart(r)
  \/ LockLost \/ PoolCloses

Spec == Init /\ [][Next]_vars

\* Tasks run, upstream answers or fails, a client reads its body or goes away, and no
\* connection stays in a pool past its max_lifetime.
Fairness ==
  /\ \A q \in Requests : WF_vars(RequestStep(q)) /\ WF_vars(WriterStep(q))
  /\ WF_vars(PoolCloses)

FairSpec == Spec /\ Fairness

-----------------------------------------------------------------------------
(* Properties.                                                             *)

\* All chunks have gone out, and the Content-Length cuts none of them off.
Whole(q) == req[q].got = Size /\ req[q].hdr \in {Null, Size}

\* "A partial body is NEVER presented as success", for bodies that came from upstream
\* or from a cache entry: a complete response has every chunk, for leaders, for
\* followers that join, lag or lose their leader, and for hits that race with the
\* writers of other leaders, whatever they store, reject and delete.
ServedWhole ==
  KnownLength =>
    \A q \in Requests : req[q].pc = "served" /\ req[q].from # "stale" => Whole(q)

\* A follower's complete response is its leader's body to the last chunk, whatever
\* the leader was streaming: never a prefix, never with a hole.
FollowerSharesBody ==
  \A q \in Requests :
    req[q].pc = "served" /\ req[q].lead # Null =>
      /\ chan[req[q].lead].end = "done"
      /\ req[q].got = req[req[q].lead].body

\* No lease is left behind: the registry names exactly the coordinated leader at work
\* on the replica, so upstream is open once, and a request that has the cluster lock
\* is still running.  (A session in a pool may hold the lock for nobody: the code
\* detaches the connection only after the answer, and a request dropped before that
\* leaves it so.)
Leading(q) == req[q].pc \in {"open", "negative", "stream"} /\ req[q].tries < Budget

KeyNotPoisoned ==
  /\ \A r \in Replicas : slot[r] # Null => Leading(slot[r]) /\ ReplicaOf[slot[r]] = r
  /\ \A q \in Requests : Leading(q) => Registered(q)
  /\ lock \in Requests => req[lock].pc \notin Ended

\* The cluster lock does not stay taken: whoever has it ends and releases it, and one
\* that went back to a pool lasts as long as its connection, or until a request that
\* is given that connection releases it.
LockFreed == lock # Null ~> lock = Null

\* Every request is answered: no follower waits for ever for a leader that failed,
\* was cancelled or died, and re-entering ends, also while nobody who could release the
\* cluster lock holds it.
Answered == \A q \in Requests : <>(req[q].pc \in Ended)

-----------------------------------------------------------------------------
(* What comments of the code say and the runs refute.                      *)

\* The same for every response: "the missing metadata sidecar still forces a refetch"
\* of a body that was rejected.
NeverPartial ==
  KnownLength => \A q \in Requests : req[q].pc = "served" => Whole(q)
=============================================================================
