------------------------------- MODULE BlobGC --------------------------------
(***************************************************************************)
(* The mark-and-sweep collector of OCI blobs                               *)
(* (backend/src/services/storage_gc_service.rs, its readiness gate in      *)
(* scheduler_service.rs and manifest_blob_refs_backfill.rs) against the    *)
(* requests that push and delete images                                    *)
(* (backend/src/api/handlers/oci_v2.rs): the oci_blobs, oci_tags,          *)
(* manifest_blob_refs and oci_manifest_refs tables and the blob objects.   *)
(*                                                                         *)
(* Every replica runs the collector, without a lease.  A statement that    *)
(* runs alone, a transaction without storage calls, or a storage call is   *)
(* one step; a transaction that does more holds its row locks over several *)
(* steps and whoever needs the row waits.  How a blob's bytes arrive is    *)
(* the subject of OciUpload: here an upload is the copy to the final key   *)
(* and the INSERT of the row.                                              *)
(***************************************************************************)
EXTENDS Integers, FiniteSets

CONSTANTS
  Repos,        \* hosted repositories
  LocationOf,   \* repository -> the bucket or directory its objects are in
  Blobs,        \* blob digests
  Manifests,    \* manifest digests
  BlobsOf,      \* manifest -> the config and layers it lists; {} for an index
  ChildrenOf,   \* manifest -> the manifests an index lists; {} for an image
  Tags,         \* tag names
  Clients,      \* requests or pushes; each runs at most once
  JobOf,        \* client -> what it does
  Collectors,   \* backend processes
  Null,         \* an absent row
  MaxFaults     \* bound on restarts, lost clients and failed storage calls

Job == [op : {"push", "untag", "delete"}, repo : Repos, tag : Tags, manifest : Manifests]

ASSUME BlobGCAssumption ==
  /\ BlobsOf \in [Manifests -> SUBSET Blobs]
  /\ ChildrenOf \in [Manifests -> SUBSET Manifests]
  /\ \A m \in Manifests : BlobsOf[m] = {} <=> ChildrenOf[m] # {}
  /\ JobOf \in [Clients -> Job]
  /\ Null \notin Manifests /\ Null \notin Blobs /\ Null \notin Repos \X Blobs
  /\ MaxFaults \in Nat

VARIABLES
  row,      \* oci_blobs: <<repo, blob>> -> row
  object,   \* the blob objects that are stored: <<location, blob>>
  tag,      \* oci_tags: <<repo, tag>> -> manifest
  refs,     \* manifest_blob_refs: <<repo, manifest, blob>>
  edges,    \* oci_manifest_refs: <<repo, parent, child>>
  client,   \* the clients' places and local variables
  gc,       \* the collectors' places and local variables
  ticked,   \* the collectors that were woken by this hour's cron tick
  faults    \* faults so far (bounded by MaxFaults)

tables == <<row, tag, refs, edges>>

collectors == <<gc, ticked>>

vars == <<tables, object, client, collectors, faults>>

\* aged: created_at is MIN_BLOB_AGE_SECS back; mark: pending_delete_at is NULL,
\* set, or set blob_gc_sweep_grace_secs ago; by: the client that inserted the row.
Row == [aged : BOOLEAN, mark : {"none", "marked", "due"}, by : Clients]

BlobRows == Repos \X Blobs

Client == [pc : {"new", "blobs", "insert", "delete", "commit", "done"}, todo : SUBSET Blobs,
           blob : Blobs \cup {Null}, manifest : Manifests \cup {Null},
           tags : SUBSET Tags, still : BOOLEAN]

Collector == [pc : {"idle", "fill", "prune", "unref", "select", "mark", "sweep", "locked", "gone"},
              stale : SUBSET (Repos \X Manifests \X Blobs),
              todo : SUBSET (BlobRows \cup (Repos \X Manifests)),
              at : BlobRows \cup {Null}]

\* Every variable holds a value of its type, and a collector is at a blob row exactly
\* while it holds the row's lock.
TypeOK ==
  /\ row \in [BlobRows -> Row \cup {Null}]
  /\ object \subseteq {LocationOf[r] : r \in Repos} \X Blobs
  /\ tag \in [Repos \X Tags -> Manifests \cup {Null}]
  /\ refs \subseteq Repos \X Manifests \X Blobs
  /\ edges \subseteq Repos \X Manifests \X Manifests
  /\ client \in [Clients -> Client]
  /\ gc \in [Collectors -> Collector]
  /\ \A g \in Collectors : gc[g].at # Null <=> gc[g].pc \in {"locked", "gone"}
  /\ ticked \subseteq Collectors
  /\ faults \in 0..MaxFaults

-----------------------------------------------------------------------------

Object(x) == <<LocationOf[x[1]], x[2]>>

InFlight(c) == client[c].pc \notin {"new", "done"}

Fault == faults < MaxFaults /\ faults' = faults + 1

\* A sweep holds the blob row FOR UPDATE until it commits.
Locked(x) == \E g \in Collectors : gc[g].pc \in {"locked", "gone"} /\ gc[g].at = x

\* A delete holds the tag rows it removed until it commits.
TagLocked(r, t) ==
  \E c \in Clients : client[c].pc = "commit" /\ JobOf[c].repo = r /\ t \in client[c].tags

\* BLOB_PROTECTED_BY_REFS_SQL: a reference from a repository at the same location.
Protected(x) ==
  \E f \in refs : f[3] = x[2] /\ LocationOf[f[1]] = LocationOf[x[1]]

TaggedIn(tg, r, m) == \E t \in Tags : tg[<<r, t>>] = m

ChildOfTagged(tg, es, r, m) == \E e \in es : e[1] = r /\ e[3] = m /\ TaggedIn(tg, r, e[2])

\* The image manifests of a repository that a tag names, itself or through an index.
Live(r, m) ==
  \/ BlobsOf[m] # {} /\ TaggedIn(tag, r, m)
  \/ ChildOfTagged(tag, edges, r, m)

Missing(r, m) == ~\E f \in refs : f[1] = r /\ f[2] = m

\* Mutant of Ready: the collector does not wait for the references.
Ready_Always == TRUE

\* ~ any_live_manifest_missing_refs
Ready == \A r \in Repos, m \in Manifests : Live(r, m) => ~Missing(r, m)

NewClient == [pc |-> "new", todo |-> {}, blob |-> Null, manifest |-> Null, tags |-> {}, still |-> FALSE]

IdleCollector == [pc |-> "idle", stale |-> {}, todo |-> {}, at |-> Null]

Init ==
  /\ row = [x \in BlobRows |-> Null]
  /\ object = {}
  /\ tag = [x \in Repos \X Tags |-> Null]
  /\ refs = {}
  /\ edges = {}
  /\ client = [c \in Clients |-> NewClient]
  /\ gc = [g \in Collectors |-> IdleCollector]
  /\ ticked = {}
  /\ faults = 0

-----------------------------------------------------------------------------
(* Pushing an image: its blobs one by one, then the manifest. *)

Pushing(c) == JobOf[c].op = "push" /\ client[c].pc \in {"new", "blobs"}

\* The blobs the client has not dealt with.
Todo(c) == IF client[c].pc = "new" THEN BlobsOf[JobOf[c].manifest] ELSE client[c].todo

\* HEAD blob: row and object are there, so the client does not upload it.
HeadBlob(c) ==
  /\ Pushing(c)
  /\ \E b \in Todo(c) :
       /\ row[<<JobOf[c].repo, b>>] # Null /\ Object(<<JobOf[c].repo, b>>) \in object
       /\ client' = [client EXCEPT ![c].pc = "blobs", ![c].todo = Todo(c) \ {b}]
  /\ UNCHANGED <<tables, object, collectors, faults>>

\* storage.copy to oci-blobs/<digest>
UploadBlob(c) ==
  /\ Pushing(c)
  /\ \E b \in Todo(c) :
       /\ object' = object \cup {Object(<<JobOf[c].repo, b>>)}
       /\ client' = [client EXCEPT ![c].pc = "insert", ![c].todo = Todo(c) \ {b}, ![c].blob = b]
  /\ UNCHANGED <<tables, collectors, faults>>

\* INSERT ... ON CONFLICT DO UPDATE SET pending_delete_at = NULL: an old row keeps
\* created_at.
InsertBlob(c) ==
  LET x == <<JobOf[c].repo, client[c].blob>> IN
  /\ client[c].pc = "insert" /\ ~Locked(x)
  /\ row' = [row EXCEPT ![x] =
       IF @ = Null THEN [aged |-> FALSE, mark |-> "none", by |-> c]
       ELSE [@ EXCEPT !.mark = "none"]]
  /\ client' = [client EXCEPT ![c].pc = "blobs", ![c].blob = Null]
  /\ UNCHANGED <<object, tag, refs, edges, collectors, faults>>

Resurrected(r, m) ==
  [x \in BlobRows |-> IF x[1] = r /\ x[2] \in BlobsOf[m] /\ row[x] # Null
                      THEN [row[x] EXCEPT !.mark = "none"] ELSE row[x]]

\* persist_tag_and_refs, one transaction: upsert the tag, lock the rows of the
\* listed blobs, clear their marks, record the references.  Nothing asks whether
\* the blobs are there.
PutManifest(c) ==
  LET r == JobOf[c].repo
      m == JobOf[c].manifest
  IN /\ Pushing(c) /\ Todo(c) = {}
     /\ ~TagLocked(r, JobOf[c].tag)
     /\ \A b \in BlobsOf[m] : ~Locked(<<r, b>>)
     /\ tag' = [tag EXCEPT ![<<r, JobOf[c].tag>>] = m]
     /\ row' = Resurrected(r, m)
     /\ refs' = refs \cup {<<r, m, b>> : b \in BlobsOf[m]}
     /\ edges' = edges \cup {<<r, m, k>> : k \in ChildrenOf[m]}
     /\ client' = [client EXCEPT ![c].pc = "done"]
     /\ UNCHANGED <<object, collectors, faults>>

-----------------------------------------------------------------------------
(* Deleting a manifest by tag ("untag") or by digest ("delete"). *)

\* resolve_manifest_delete_target: read before the transaction.
ResolveDelete(c) ==
  LET r == JobOf[c].repo
      m == JobOf[c].manifest
  IN /\ client[c].pc = "new"
     /\ \/ /\ JobOf[c].op = "untag" /\ tag[<<r, JobOf[c].tag>>] # Null
           /\ client' = [client EXCEPT ![c].pc = "delete", ![c].manifest = tag[<<r, JobOf[c].tag>>]]
        \/ /\ JobOf[c].op = "delete"
           /\ TaggedIn(tag, r, m) \/ ~Missing(r, m) \/ (\E e \in edges : e[1] = r /\ e[2] = m)
           /\ client' = [client EXCEPT ![c].pc = "delete", ![c].manifest = m]
     /\ UNCHANGED <<tables, object, collectors, faults>>

\* DELETE FROM oci_tags, and the EXISTS that asks whether another tag is left.
DeleteTags(c) ==
  LET r == JobOf[c].repo
      m == client[c].manifest
      ts == IF JobOf[c].op = "untag" THEN {t \in {JobOf[c].tag} : tag[<<r, t>>] # Null}
            ELSE {t \in Tags : tag[<<r, t>>] = m}
  IN /\ client[c].pc = "delete"
     /\ \A t \in ts : ~TagLocked(r, t)
     /\ client' = [client EXCEPT ![c].pc = "commit", ![c].tags = ts,
                                 ![c].still = \E t \in Tags \ ts : tag[<<r, t>>] = m]
     /\ UNCHANGED <<tables, object, collectors, faults>>

\* clear_repo_manifest_refs, delete_manifest_blob_refs and COMMIT.
CommitDelete(c) ==
  LET r == JobOf[c].repo
      m == client[c].manifest
      tg == [x \in Repos \X Tags |-> IF x[1] = r /\ x[2] \in client[c].tags THEN Null ELSE tag[x]]
      es == {e \in edges : ~(e[1] = r /\ (e[2] = m \/ (e[3] = m /\ ~TaggedIn(tg, r, e[2]))))}
  IN /\ client[c].pc = "commit"
     /\ tag' = tg
     /\ edges' = IF client[c].still THEN edges ELSE es
     /\ refs' = IF client[c].still \/ ChildOfTagged(tg, es, r, m) THEN refs
                ELSE {f \in refs : ~(f[1] = r /\ f[2] = m)}
     /\ client' = [client EXCEPT ![c].pc = "done"]
     /\ UNCHANGED <<row, object, collectors, faults>>

\* The client goes away or its statement fails; the transaction is rolled back.
Abort(c) ==
  /\ InFlight(c) /\ Fault
  /\ client' = [client EXCEPT ![c].pc = "done"]
  /\ UNCHANGED <<tables, object, collectors>>

-----------------------------------------------------------------------------
(* A collector's tick: gate, prune, mark, sweep. *)

\* The live pass runs; while references are missing the tick is a dry run.
PassGate(g) ==
  /\ gc[g].pc = "idle" /\ g \notin ticked /\ Ready
  /\ gc' = [gc EXCEPT ![g].pc = "prune"]
  /\ ticked' = ticked \cup {g}
  /\ UNCHANGED <<tables, object, client, faults>>

\* Mutant of Stale: references outlive the tags of their manifest.
Stale_Never(f) == FALSE

Stale(f) == ~TaggedIn(tag, f[1], f[2]) /\ ~ChildOfTagged(tag, edges, f[1], f[2])

\* prune_orphan_blob_refs is one DELETE; it judges by the snapshot it started with.
SelectStale(g) ==
  /\ gc[g].pc = "prune"
  /\ gc' = [gc EXCEPT ![g].pc = "unref", ![g].stale = {f \in refs : Stale(f)}]
  /\ UNCHANGED <<tables, object, client, ticked, faults>>

Prune(g) ==
  /\ gc[g].pc = "unref"
  /\ refs' = refs \ gc[g].stale
  /\ gc' = [gc EXCEPT ![g].pc = "select", ![g].stale = {}]
  /\ UNCHANGED <<row, tag, edges, object, client, ticked, faults>>

\* select_orphan_blobs
SelectOrphans(g) ==
  /\ gc[g].pc = "select"
  /\ gc' = [gc EXCEPT ![g].pc = "mark",
       ![g].todo = {x \in BlobRows : row[x] # Null /\ row[x].aged /\ ~Protected(x)}]
  /\ UNCHANGED <<tables, object, client, ticked, faults>>

\* is_blob_still_orphan, on the locked row; the age is not asked again.
StillOrphan(x) == row[x] # Null /\ ~Protected(x)

MarkBlob(g) ==
  /\ gc[g].pc = "mark"
  /\ \E x \in gc[g].todo :
       /\ ~Locked(x)
       /\ row' = IF StillOrphan(x) /\ row[x].mark = "none"
                 THEN [row EXCEPT ![x] = [@ EXCEPT !.mark = "marked"]] ELSE row
       /\ gc' = [gc EXCEPT ![g].todo = @ \ {x}]
  /\ UNCHANGED <<object, tag, refs, edges, client, ticked, faults>>

\* select_pending_delete_blobs
SelectPending(g) ==
  /\ gc[g].pc = "mark" /\ gc[g].todo = {}
  /\ gc' = [gc EXCEPT ![g].pc = "sweep",
       ![g].todo = {x \in BlobRows : row[x] # Null /\ row[x].mark = "due" /\ ~Protected(x)}]
  /\ UNCHANGED <<tables, object, client, ticked, faults>>

\* is_blob_still_orphan with require_pending_mark; the grace is not asked again.
LockBlob(g) ==
  /\ gc[g].pc = "sweep"
  /\ \E x \in gc[g].todo :
       /\ ~Locked(x)
       /\ gc' = [gc EXCEPT ![g] =
            IF StillOrphan(x) /\ row[x].mark # "none"
            THEN [@ EXCEPT !.pc = "locked", !.at = x, !.todo = gc[g].todo \ {x}]
            ELSE [@ EXCEPT !.todo = gc[g].todo \ {x}]]
  /\ UNCHANGED <<tables, object, client, ticked, faults>>

DeleteObject(g) ==
  /\ gc[g].pc = "locked"
  /\ object' = object \ {Object(gc[g].at)}
  /\ gc' = [gc EXCEPT ![g].pc = "gone"]
  /\ UNCHANGED <<tables, client, ticked, faults>>

\* Mutant of Released: the collector goes on with the row it had.
Released_KeepRow(g) == [gc EXCEPT ![g].pc = "sweep"]

\* COMMIT or ROLLBACK: the row lock is free, on to the next candidate.
Released(g) == [gc EXCEPT ![g].pc = "sweep", ![g].at = Null]

DeleteRow(g) ==
  /\ gc[g].pc = "gone"
  /\ row' = [row EXCEPT ![gc[g].at] = Null]
  /\ gc' = Released(g)
  /\ UNCHANGED <<object, tag, refs, edges, client, ticked, faults>>

EndTick(g) ==
  /\ gc[g].pc = "sweep" /\ gc[g].todo = {}
  /\ gc' = [gc EXCEPT ![g] = IdleCollector]
  /\ UNCHANGED <<tables, object, client, ticked, faults>>

\* The storage delete or the COMMIT fails: rollback, next row.
SweepFails(g) ==
  /\ gc[g].pc \in {"locked", "gone"} /\ Fault
  /\ gc' = Released(g)
  /\ UNCHANGED <<tables, object, client, ticked>>

\* The process dies and starts again: select_unbackfilled_manifests.
Restart(g) ==
  /\ gc[g].pc # "fill" /\ Fault
  /\ gc' = [gc EXCEPT ![g] = [IdleCollector EXCEPT !.pc = "fill", !.todo =
       {x \in Repos \X Manifests :
          /\ BlobsOf[x[2]] # {} /\ TaggedIn(tag, x[1], x[2]) /\ Missing(x[1], x[2])}]]
  /\ UNCHANGED <<tables, object, client, ticked>>

\* process_candidate: the manifest is read and its references are inserted.
Backfill(g) ==
  /\ gc[g].pc = "fill"
  /\ \E x \in gc[g].todo :
       /\ refs' = refs \cup {<<x[1], x[2], b>> : b \in BlobsOf[x[2]]}
       /\ gc' = [gc EXCEPT ![g].todo = @ \ {x}]
  /\ UNCHANGED <<row, tag, edges, object, client, ticked, faults>>

BackfillDone(g) ==
  /\ gc[g].pc = "fill" /\ gc[g].todo = {}
  /\ gc' = [gc EXCEPT ![g] = IdleCollector]
  /\ UNCHANGED <<tables, object, client, ticked, faults>>

-----------------------------------------------------------------------------
(* Time. *)

\* A day after the INSERT; a push does not take that long.
AgeBlob(x) ==
  /\ row[x] # Null /\ ~row[x].aged /\ ~InFlight(row[x].by)
  /\ row' = [row EXCEPT ![x] = [@ EXCEPT !.aged = TRUE]]
  /\ UNCHANGED <<tag, refs, edges, object, client, collectors, faults>>

\* The next hour's tick, on every replica.  The sweep grace is an hour; a tick and a
\* request are shorter, so those that ran when a mark was set are over when it is
\* due.  A push, which is many requests, may take longer.
NextHour ==
  /\ \A g \in Collectors : gc[g].pc \in {"idle", "fill"}
  /\ \A c \in Clients : client[c].pc \in {"new", "blobs", "done"}
  /\ ticked' = {}
  /\ row' = [x \in BlobRows |-> IF row[x] # Null /\ row[x].mark = "marked"
                                THEN [row[x] EXCEPT !.mark = "due"] ELSE row[x]]
  /\ UNCHANGED <<tag, refs, edges, object, client, gc, faults>>

-----------------------------------------------------------------------------

ClientStep(c) ==
  \/ HeadBlob(c) \/ UploadBlob(c) \/ InsertBlob(c) \/ PutManifest(c)
  \/ ResolveDelete(c) \/ DeleteTags(c) \/ CommitDelete(c)

CollectorStep(g) ==
  \/ PassGate(g) \/ SelectStale(g) \/ Prune(g) \/ SelectOrphans(g) \/ MarkBlob(g)
  \/ SelectPending(g) \/ LockBlob(g) \/ DeleteObject(g) \/ DeleteRow(g) \/ EndTick(g)
  \/ Backfill(g) \/ BackfillDone(g)

Next ==
  \/ \E c \in Clients : ClientStep(c) \/ Abort(c)
  \/ \E g \in Collectors : CollectorStep(g) \/ SweepFails(g) \/ Restart(g)
  \/ \E x \in BlobRows : AgeBlob(x)
  \/ NextHour

Spec == Init /\ [][Next]_vars

\* A push or delete that has begun goes on, every process runs its ticks, and time
\* passes.
Fairness ==
  /\ \A c \in Clients : WF_vars(InFlight(c) /\ ClientStep(c))
  /\ \A g \in Collectors : WF_vars(CollectorStep(g))
  /\ \A x \in BlobRows : WF_vars(AgeBlob(x))
  /\ WF_vars(NextHour)

FairSpec == Spec /\ Fairness

-----------------------------------------------------------------------------
(* Properties. *)

Due(x) == row[x] # Null /\ row[x].mark = "due"

\* No collector deletes the object of a row whose grace has passed while the row's
\* repository tags an image that lists the blob: a delete or a prune that overlaps a
\* push may leave a live tag without references, but the mark, the grace and the
\* readiness gate of the next tick come in between (run_blob_gc_mark,
\* run_blob_gc_sweep, any_live_manifest_missing_refs).
GraceSparesTagged ==
  [][\A g \in Collectors, m \in Manifests :
       LET x == gc[g].at IN
       /\ gc[g].pc = "locked" /\ gc'[g].pc = "gone"
       /\ Due(x) /\ x[2] \in BlobsOf[m]
       => ~TaggedIn(tag, x[1], m)]_vars

Needed(x) ==
  \E r \in Repos, m \in Manifests :
    LocationOf[r] = LocationOf[x[1]] /\ x[2] \in BlobsOf[m] /\ Live(r, m)

\* Unless the gate stays shut, every blob that no live image needs is reclaimed, row
\* and all: after overwritten tags, deleted manifests, pushes given up, and sweeps
\* that failed half way (prune_orphan_blob_refs, run_blob_gc_mark, run_blob_gc_sweep).
OrphansReclaimed ==
  <>[]Ready => <>[](\A x \in BlobRows : row[x] # Null => Needed(x))

\* oci_v2.rs on the row locks of persist_tag_and_refs: "a referenced blob can never
\* be deleted out from under a concurrent push".
TaggedImageComplete ==
  \A r \in Repos, m \in Manifests : TaggedIn(tag, r, m) =>
    \A b \in BlobsOf[m] : Object(<<r, b>>) \in object

=============================================================================
