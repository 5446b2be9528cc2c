----------------------------- MODULE BlobGCProofs -----------------------------
(***************************************************************************)
(* Proofs about BlobGC: the variables keep their types, and no collector   *)
(* deletes the object of a row whose grace has passed while the row's      *)
(* repository tags an image that lists the blob.                           *)
(***************************************************************************)
EXTENDS BlobGC, TLAPS

USE BlobGCAssumption

-----------------------------------------------------------------------------
(* The inductive invariant. *)

\* What the program counters say about the local variables: a request that has an
\* upload to record has its blob, a delete has its manifest, and a collector's work
\* list holds blob rows in the mark and the sweep and manifests in the backfill.
LocalsOK ==
  /\ \A c \in Clients :
       /\ client[c].pc = "insert" => client[c].blob # Null
       /\ client[c].pc \in {"delete", "commit"} => client[c].manifest # Null
  /\ \A g \in Collectors :
       /\ gc[g].pc \in {"mark", "sweep", "locked", "gone"} => gc[g].todo \subseteq BlobRows
       /\ gc[g].pc = "fill" => gc[g].todo \subseteq Repos \X Manifests

\* The references in S are there for whole manifests: all blobs or none.
Whole(S) ==
  \A f \in S : f[3] \in BlobsOf[f[2]] /\ \A b \in BlobsOf[f[2]] : <<f[1], f[2], b>> \in S

WholeRefs == Whole(refs) /\ \A g \in Collectors : Whole(gc[g].stale)

\* No row of the blobs of the manifest has a mark whose grace has passed.
Fresh(r, m) == \A b \in BlobsOf[m] : ~Due(<<r, b>>)

\* A delete that found no other tag, when one was put there since: that push cleared
\* the marks.
DeletesFresh ==
  \A c \in Clients, t \in Tags :
    LET r == JobOf[c].repo
        m == client[c].manifest
    IN client[c].pc = "commit" /\ ~client[c].still /\ t \notin client[c].tags /\ tag[<<r, t>>] = m
       => Fresh(r, m)

\* The same for a reference that the prune found stale.
PrunesFresh ==
  \A g \in Collectors : \A f \in gc[g].stale :
    gc[g].pc = "unref" /\ TaggedIn(tag, f[1], f[2]) => Fresh(f[1], f[2])

\* While a tagged image has a due row and no references, no tick is past the gate.
GateShut ==
  \A r \in Repos, m \in Manifests, b \in Blobs :
    b \in BlobsOf[m] /\ TaggedIn(tag, r, m) /\ <<r, m, b>> \notin refs /\ Due(<<r, b>>)
      => \A g \in Collectors : gc[g].pc \in {"idle", "fill"}

\* The blob a collector is about to delete, if its grace has passed, is of no tagged
\* image.
SweepClear ==
  \A g \in Collectors, m \in Manifests :
    gc[g].pc = "locked" /\ Due(gc[g].at) /\ gc[g].at[2] \in BlobsOf[m]
      => ~TaggedIn(tag, gc[g].at[1], m)

GraceInv == WholeRefs /\ DeletesFresh /\ PrunesFresh /\ GateShut /\ SweepClear

IInv == TypeOK /\ LocalsOK /\ GraceInv
-----------------------------------------------------------------------------
(* Types. *)

Types == TypeOK /\ LocalsOK

\* What the steps of a client refer to is well typed.
LEMMA ClientFacts ==
  ASSUME Types, NEW c \in Clients
  PROVE  /\ client[c] \in Client
         /\ JobOf[c].repo \in Repos /\ JobOf[c].tag \in Tags /\ JobOf[c].manifest \in Manifests
         /\ BlobsOf[JobOf[c].manifest] \subseteq Blobs /\ ChildrenOf[JobOf[c].manifest] \subseteq Manifests
         /\ Todo(c) \subseteq Blobs
         /\ client[c].pc = "insert" => client[c].blob \in Blobs
         /\ client[c].pc \in {"delete", "commit"} => client[c].manifest \in Manifests
<1>1. client[c] \in Client
  BY DEF Types, TypeOK
<1>2. JobOf[c].repo \in Repos /\ JobOf[c].tag \in Tags /\ JobOf[c].manifest \in Manifests
  BY DEF Job
<1>3. BlobsOf[JobOf[c].manifest] \subseteq Blobs /\ ChildrenOf[JobOf[c].manifest] \subseteq Manifests
  BY <1>2
<1>4. Todo(c) \subseteq Blobs
  BY <1>1, <1>3 DEF Todo, Client
<1>5. client[c].blob \in Blobs \cup {Null} /\ client[c].manifest \in Manifests \cup {Null}
  BY <1>1 DEF Client
<1> QED BY <1>1, <1>2, <1>3, <1>4, <1>5 DEF Types, LocalsOK

\* So is what the steps of a collector refer to.
LEMMA CollectorFacts ==
  ASSUME Types, NEW g \in Collectors
  PROVE  /\ gc[g] \in Collector
         /\ gc[g].pc \in {"mark", "sweep", "locked", "gone"} => gc[g].todo \subseteq BlobRows
         /\ gc[g].pc = "fill" => gc[g].todo \subseteq Repos \X Manifests
         /\ gc[g].pc \in {"locked", "gone"} => gc[g].at \in BlobRows
         /\ gc[g].pc \notin {"locked", "gone"} => gc[g].at = Null
<1>1. gc[g] \in Collector
  BY DEF Types, TypeOK
<1>2. gc[g].at \in BlobRows \cup {Null}
  BY <1>1 DEF Collector
<1> QED BY <1>1, <1>2 DEF Types, TypeOK, LocalsOK

\* A blob row is a pair.
LEMMA BlobRowFacts ==
  /\ \A r \in Repos, b \in Blobs : <<r, b>> \in BlobRows
  /\ \A x \in BlobRows : x = <<x[1], x[2]>> /\ x[1] \in Repos /\ x[2] \in Blobs
BY DEF BlobRows

\* A step of one client keeps the types when it leaves that client well typed.
LEMMA ClientTypes ==
  ASSUME Types, NEW c \in Clients,
         NEW u \in Client, client' = [client EXCEPT ![c] = u],
         u.pc = "insert" => u.blob # Null,
         u.pc \in {"delete", "commit"} => u.manifest # Null,
         row' \in [BlobRows -> Row \cup {Null}],
         object' \subseteq {LocationOf[r] : r \in Repos} \X Blobs,
         tag' \in [Repos \X Tags -> Manifests \cup {Null}],
         refs' \subseteq Repos \X Manifests \X Blobs,
         edges' \subseteq Repos \X Manifests \X Manifests,
         faults' \in 0..MaxFaults,
         UNCHANGED collectors
  PROVE  Types'
<1>1. client' \in [Clients -> Client]
  BY DEF Types, TypeOK
<1>2. client'[c] = u /\ \A d \in Clients : d # c => client'[d] = client[d]
  BY DEF Types, TypeOK
<1>3. TypeOK'
  BY <1>1 DEF Types, TypeOK, collectors
<1>4. LocalsOK'
  BY <1>2 DEF Types, LocalsOK, collectors
<1> QED BY <1>3, <1>4 DEF Types

\* The same for a step of one collector.
LEMMA CollectorTypes ==
  ASSUME Types, NEW g \in Collectors,
         NEW u \in Collector, gc' = [gc EXCEPT ![g] = u],
         u.at # Null <=> u.pc \in {"locked", "gone"},
         u.pc \in {"mark", "sweep", "locked", "gone"} => u.todo \subseteq BlobRows,
         u.pc = "fill" => u.todo \subseteq Repos \X Manifests,
         ticked' \subseteq Collectors,
         row' \in [BlobRows -> Row \cup {Null}],
         object' \subseteq {LocationOf[r] : r \in Repos} \X Blobs,
         refs' \subseteq Repos \X Manifests \X Blobs,
         faults' \in 0..MaxFaults,
         UNCHANGED <<tag, edges, client>>
  PROVE  Types'
<1>1. gc' \in [Collectors -> Collector]
  BY DEF Types, TypeOK
<1>2. gc'[g] = u /\ \A h \in Collectors : h # g => gc'[h] = gc[h]
  BY DEF Types, TypeOK
<1>3. \A h \in Collectors : gc'[h].at # Null <=> gc'[h].pc \in {"locked", "gone"}
  BY <1>2 DEF Types, TypeOK
<1>4. TypeOK'
  BY <1>1, <1>3 DEF Types, TypeOK
<1>5. LocalsOK'
  BY <1>2 DEF Types, LocalsOK
<1> QED BY <1>4, <1>5 DEF Types

\* Clearing marks keeps the rows typed.
LEMMA ResurrectedType ==
  ASSUME TypeOK, NEW r, NEW m
  PROVE  Resurrected(r, m) \in [BlobRows -> Row \cup {Null}]
<1>1. ASSUME NEW x \in BlobRows, row[x] # Null
      PROVE  [row[x] EXCEPT !.mark = "none"] \in Row
  BY <1>1 DEF TypeOK, Row
<1>2. ASSUME NEW x \in BlobRows PROVE row[x] \in Row \cup {Null}
  BY DEF TypeOK
<1> QED BY <1>1, <1>2 DEF Resurrected

\* Every request keeps the types.
LEMMA TypesClient ==
  ASSUME Types, NEW c \in Clients, ClientStep(c) \/ Abort(c)
  PROVE  Types'
<1>0. TypeOK /\ client[c] \in Client
  BY ClientFacts DEF Types
<1>1. CASE HeadBlob(c)
  <2>1. PICK b \in Todo(c) : client' = [client EXCEPT ![c].pc = "blobs", ![c].todo = Todo(c) \ {b}]
    BY <1>1 DEF HeadBlob
  <2> DEFINE u == [client[c] EXCEPT !.pc = "blobs", !.todo = Todo(c) \ {b}]
  <2>2. Todo(c) \ {b} \in SUBSET Blobs
    BY ClientFacts
  <2>3. u \in Client /\ u.pc = "blobs"
    BY <1>0, <2>2 DEF Client
  <2>4. client' = [client EXCEPT ![c] = u]
    BY <2>1
  <2> QED BY <1>0, <1>1, <2>3, <2>4, ClientTypes DEF HeadBlob, TypeOK, tables, collectors
<1>2. CASE UploadBlob(c)
  <2>1. PICK b \in Todo(c) :
           /\ object' = object \cup {Object(<<JobOf[c].repo, b>>)}
           /\ client' = [client EXCEPT ![c].pc = "insert", ![c].todo = Todo(c) \ {b}, ![c].blob = b]
    BY <1>2 DEF UploadBlob
  <2> DEFINE u == [client[c] EXCEPT !.pc = "insert", !.todo = Todo(c) \ {b}, !.blob = b]
  <2>2. Todo(c) \ {b} \in SUBSET Blobs /\ b \in Blobs
    BY ClientFacts
  <2>3. u \in Client /\ u.pc = "insert" /\ u.blob # Null
    BY <1>0, <2>2 DEF Client
  <2>4. client' = [client EXCEPT ![c] = u]
    BY <2>1
  <2>5. object' \subseteq {LocationOf[r] : r \in Repos} \X Blobs
    BY <1>0, <2>1, <2>2, ClientFacts DEF TypeOK, Object
  <2> QED BY <1>0, <1>2, <2>3, <2>4, <2>5, ClientTypes DEF UploadBlob, TypeOK, tables, collectors
<1>3. CASE InsertBlob(c)
  <2> DEFINE x == <<JobOf[c].repo, client[c].blob>>
             new == IF row[x] = Null THEN [aged |-> FALSE, mark |-> "none", by |-> c]
                    ELSE [row[x] EXCEPT !.mark = "none"]
             u == [client[c] EXCEPT !.pc = "blobs", !.blob = Null]
  <2>1. x \in BlobRows
    BY <1>3, ClientFacts DEF InsertBlob, BlobRows
  <2>2. row[x] \in Row \cup {Null}
    BY <1>0, <2>1 DEF TypeOK
  <2>3. new \in Row
    BY <2>2 DEF Row
  <2>4. row' = [row EXCEPT ![x] = new]
    BY <1>3, <1>0, <2>1 DEF InsertBlob, TypeOK
  <2>5. row' \in [BlobRows -> Row \cup {Null}]
    BY <1>0, <2>3, <2>4 DEF TypeOK
  <2>6. u \in Client /\ u.pc = "blobs"
    BY <1>0 DEF Client
  <2>7. client' = [client EXCEPT ![c] = u]
    BY <1>3 DEF InsertBlob
  <2> QED BY <1>0, <1>3, <2>5, <2>6, <2>7, ClientTypes DEF InsertBlob, TypeOK, collectors
<1>4. CASE PutManifest(c)
  <2> DEFINE u == [client[c] EXCEPT !.pc = "done"]
  <2>1. tag' \in [Repos \X Tags -> Manifests \cup {Null}]
    BY <1>0, <1>4, ClientFacts DEF TypeOK, PutManifest
  <2>2. row' \in [BlobRows -> Row \cup {Null}]
    BY <1>0, <1>4, ResurrectedType DEF PutManifest
  <2>3. refs' \subseteq Repos \X Manifests \X Blobs
    BY <1>0, <1>4, ClientFacts DEF TypeOK, PutManifest
  <2>4. edges' \subseteq Repos \X Manifests \X Manifests
    BY <1>0, <1>4, ClientFacts DEF TypeOK, PutManifest
  <2>5. u \in Client /\ u.pc = "done"
    BY <1>0 DEF Client
  <2>6. client' = [client EXCEPT ![c] = u]
    BY <1>4 DEF PutManifest
  <2> QED BY <1>0, <1>4, <2>1, <2>2, <2>3, <2>4, <2>5, <2>6, ClientTypes DEF PutManifest, TypeOK, collectors
<1>5. CASE ResolveDelete(c)
  <2>1. PICK m \in Manifests :
           client' = [client EXCEPT ![c].pc = "delete", ![c].manifest = m]
    BY <1>0, <1>5, ClientFacts DEF ResolveDelete, TypeOK
  <2> DEFINE u == [client[c] EXCEPT !.pc = "delete", !.manifest = m]
  <2>2. u \in Client /\ u.pc = "delete" /\ u.manifest # Null
    BY <1>0, <2>1 DEF Client
  <2>3. client' = [client EXCEPT ![c] = u]
    BY <2>1
  <2> QED BY <1>0, <1>5, <2>2, <2>3, ClientTypes DEF ResolveDelete, TypeOK, tables, collectors
<1>6. CASE DeleteTags(c)
  <2>1. PICK ts \in SUBSET Tags, still \in BOOLEAN :
           client' = [client EXCEPT ![c].pc = "commit", ![c].tags = ts, ![c].still = still]
    <3> DEFINE r == JobOf[c].repo
               m == client[c].manifest
               ts == IF JobOf[c].op = "untag" THEN {t \in {JobOf[c].tag} : tag[<<r, t>>] # Null}
                     ELSE {t \in Tags : tag[<<r, t>>] = m}
               still == \E t \in Tags \ ts : tag[<<r, t>>] = m
    <3>1. ts \in SUBSET Tags
      BY ClientFacts
    <3>2. still \in BOOLEAN
      OBVIOUS
    <3>3. client' = [client EXCEPT ![c].pc = "commit", ![c].tags = ts, ![c].still = still]
      BY <1>6 DEF DeleteTags
    <3> HIDE DEF ts, still
    <3> QED BY <3>1, <3>2, <3>3
  <2> DEFINE u == [client[c] EXCEPT !.pc = "commit", !.tags = ts, !.still = still]
  <2>2. client[c].manifest # Null
    BY <1>6 DEF DeleteTags, Types, LocalsOK
  <2>3. u \in Client /\ u.pc = "commit" /\ u.manifest # Null
    <3>1. CASE still = TRUE
      BY <1>0, <2>2, <3>1 DEF Client
    <3>2. CASE still = FALSE
      BY <1>0, <2>2, <3>2 DEF Client
    <3> QED BY <3>1, <3>2
  <2>4. client' = [client EXCEPT ![c] = u]
    BY <2>1
  <2>5. UNCHANGED <<tables, object, collectors, faults>>
    BY <1>6 DEF DeleteTags
  <2> HIDE DEF u
  <2> QED BY <1>0, <2>3, <2>4, <2>5, ClientTypes DEF TypeOK, tables, collectors
<1>7. CASE CommitDelete(c)
  <2> DEFINE u == [client[c] EXCEPT !.pc = "done"]
  <2>1. tag' \in [Repos \X Tags -> Manifests \cup {Null}]
    BY <1>0, <1>7 DEF TypeOK, CommitDelete
  <2>2. refs' \subseteq refs /\ edges' \subseteq edges
    BY <1>7 DEF CommitDelete
  <2>3. /\ refs' \subseteq Repos \X Manifests \X Blobs
        /\ edges' \subseteq Repos \X Manifests \X Manifests
    BY <1>0, <2>2 DEF TypeOK
  <2>4. u \in Client /\ u.pc = "done"
    BY <1>0 DEF Client
  <2>5. client' = [client EXCEPT ![c] = u]
    BY <1>7 DEF CommitDelete
  <2> QED BY <1>0, <1>7, <2>1, <2>3, <2>4, <2>5, ClientTypes DEF CommitDelete, TypeOK, collectors
<1>8. CASE Abort(c)
  <2> DEFINE u == [client[c] EXCEPT !.pc = "done"]
  <2>1. u \in Client /\ u.pc = "done"
    BY <1>0 DEF Client
  <2>2. client' = [client EXCEPT ![c] = u]
    BY <1>8 DEF Abort
  <2>3. faults' \in 0..MaxFaults
    BY <1>0, <1>8 DEF Abort, Fault, TypeOK
  <2> QED BY <1>0, <1>8, <2>1, <2>2, <2>3, ClientTypes DEF Abort, TypeOK, tables, collectors
<1> QED BY <1>1, <1>2, <1>3, <1>4, <1>5, <1>6, <1>7, <1>8 DEF ClientStep

\* Every step of a collector keeps the types.
LEMMA TypesCollector ==
  ASSUME Types, NEW g \in Collectors, CollectorStep(g) \/ SweepFails(g) \/ Restart(g)
  PROVE  Types'
<1>0. TypeOK /\ gc[g] \in Collector
  BY CollectorFacts DEF Types
<1>a. IdleCollector \in Collector
  BY DEF IdleCollector, Collector
<1>1. CASE PassGate(g)
  <2> DEFINE u == [gc[g] EXCEPT !.pc = "prune"]
  <2>1. u \in Collector /\ u.pc = "prune" /\ u.at = Null
    BY <1>0, <1>1, CollectorFacts DEF Collector, PassGate
  <2>2. gc' = [gc EXCEPT ![g] = u] /\ ticked' \subseteq Collectors
    BY <1>0, <1>1 DEF PassGate, TypeOK
  <2>3. UNCHANGED <<tables, object, client, faults>>
    BY <1>1 DEF PassGate
  <2> QED BY <1>0, <2>1, <2>2, <2>3, CollectorTypes DEF TypeOK, tables
<1>2. CASE SelectStale(g)
  <2> DEFINE S == {f \in refs : Stale(f)}
             u == [gc[g] EXCEPT !.pc = "unref", !.stale = S]
  <2>1. S \in SUBSET (Repos \X Manifests \X Blobs)
    BY <1>0 DEF TypeOK
  <2>2. gc' = [gc EXCEPT ![g] = u]
    BY <1>2 DEF SelectStale
  <2>3. gc[g].at = Null
    BY <1>2, CollectorFacts DEF SelectStale
  <2> HIDE DEF S
  <2>4. u \in Collector /\ u.pc = "unref" /\ u.at = Null
    BY <1>0, <2>1, <2>3 DEF Collector
  <2> QED BY <1>0, <1>2, <2>2, <2>4, CollectorTypes DEF SelectStale, TypeOK, tables
<1>3. CASE Prune(g)
  <2> DEFINE u == [gc[g] EXCEPT !.pc = "select", !.stale = {}]
  <2>1. u \in Collector /\ u.pc = "select" /\ u.at = Null
    BY <1>0, <1>3, CollectorFacts DEF Collector, Prune
  <2>2. gc' = [gc EXCEPT ![g] = u] /\ refs' \subseteq Repos \X Manifests \X Blobs
    BY <1>0, <1>3 DEF Prune, TypeOK
  <2> QED BY <1>0, <1>3, <2>1, <2>2, CollectorTypes DEF Prune, TypeOK
<1>4. CASE SelectOrphans(g)
  <2> DEFINE T == {x \in BlobRows : row[x] # Null /\ row[x].aged /\ ~Protected(x)}
             u == [gc[g] EXCEPT !.pc = "mark", !.todo = T]
  <2>1. T \in SUBSET BlobRows
    OBVIOUS
  <2>2. gc' = [gc EXCEPT ![g] = u]
    BY <1>4 DEF SelectOrphans
  <2>3. gc[g].at = Null
    BY <1>4, CollectorFacts DEF SelectOrphans
  <2> HIDE DEF T
  <2>4. u \in Collector /\ u.pc = "mark" /\ u.at = Null /\ u.todo \subseteq BlobRows
    BY <1>0, <2>1, <2>3 DEF Collector
  <2> QED BY <1>0, <1>4, <2>2, <2>4, CollectorTypes DEF SelectOrphans, TypeOK, tables
<1>5. CASE MarkBlob(g)
  <2>1. PICK x \in gc[g].todo :
           /\ row' = IF StillOrphan(x) /\ row[x].mark = "none"
                     THEN [row EXCEPT ![x] = [@ EXCEPT !.mark = "marked"]] ELSE row
           /\ gc' = [gc EXCEPT ![g].todo = @ \ {x}]
    BY <1>5 DEF MarkBlob
  <2> DEFINE u == [gc[g] EXCEPT !.todo = @ \ {x}]
  <2>2. gc[g].pc = "mark" /\ gc[g].todo \subseteq BlobRows /\ gc[g].at = Null
    BY <1>5, CollectorFacts DEF MarkBlob
  <2>3. u \in Collector /\ u.pc = "mark" /\ u.at = Null /\ u.todo \subseteq BlobRows
    BY <1>0, <2>2 DEF Collector
  <2>4. row' \in [BlobRows -> Row \cup {Null}]
    <3>1. CASE StillOrphan(x) /\ row[x].mark = "none"
      <4>1. row' = [row EXCEPT ![x] = [row[x] EXCEPT !.mark = "marked"]]
        BY <1>0, <2>1, <2>2, <3>1 DEF TypeOK
      <4>2. row[x] \in Row
        BY <1>0, <2>2, <3>1 DEF TypeOK, StillOrphan
      <4>3. [row[x] EXCEPT !.mark = "marked"] \in Row
        BY <4>2 DEF Row
      <4> QED BY <1>0, <4>1, <4>3 DEF TypeOK
    <3>2. CASE ~(StillOrphan(x) /\ row[x].mark = "none")
      BY <1>0, <2>1, <3>2 DEF TypeOK
    <3> QED BY <3>1, <3>2
  <2>5. gc' = [gc EXCEPT ![g] = u]
    BY <2>1
  <2>6. UNCHANGED <<object, tag, refs, edges, client, ticked, faults>>
    BY <1>5 DEF MarkBlob
  <2> HIDE DEF u
  <2> QED BY <1>0, <2>3, <2>4, <2>5, <2>6, CollectorTypes DEF TypeOK
<1>6. CASE SelectPending(g)
  <2> DEFINE T == {x \in BlobRows : row[x] # Null /\ row[x].mark = "due" /\ ~Protected(x)}
             u == [gc[g] EXCEPT !.pc = "sweep", !.todo = T]
  <2>1. T \in SUBSET BlobRows
    OBVIOUS
  <2>2. gc' = [gc EXCEPT ![g] = u]
    BY <1>6 DEF SelectPending
  <2>3. gc[g].at = Null
    BY <1>6, CollectorFacts DEF SelectPending
  <2> HIDE DEF T
  <2>4. u \in Collector /\ u.pc = "sweep" /\ u.at = Null /\ u.todo \subseteq BlobRows
    BY <1>0, <2>1, <2>3 DEF Collector
  <2> QED BY <1>0, <1>6, <2>2, <2>4, CollectorTypes DEF SelectPending, TypeOK, tables
<1>7. CASE LockBlob(g)
  <2>1. PICK x \in gc[g].todo :
           gc' = [gc EXCEPT ![g] =
                    IF StillOrphan(x) /\ row[x].mark # "none"
                    THEN [gc[g] EXCEPT !.pc = "locked", !.at = x, !.todo = @ \ {x}]
                    ELSE [gc[g] EXCEPT !.todo = @ \ {x}]]
    BY <1>7 DEF LockBlob
  <2>2. gc[g].pc = "sweep" /\ gc[g].todo \subseteq BlobRows /\ gc[g].at = Null /\ x \in BlobRows
    BY <1>7, CollectorFacts DEF LockBlob
  <2>3. UNCHANGED <<tables, object, client, ticked, faults>>
    BY <1>7 DEF LockBlob
  <2>4. CASE gc' = [gc EXCEPT ![g] = [gc[g] EXCEPT !.pc = "locked", !.at = x, !.todo = @ \ {x}]]
    <3> DEFINE u == [gc[g] EXCEPT !.pc = "locked", !.at = x, !.todo = @ \ {x}]
    <3>1. u \in Collector /\ u.pc = "locked" /\ u.at = x /\ u.todo \subseteq BlobRows
      BY <1>0, <2>2 DEF Collector
    <3>2. x # Null
      BY <2>2 DEF BlobRows
    <3>3. gc' = [gc EXCEPT ![g] = u]
      BY <2>4
    <3> HIDE DEF u
    <3> QED BY <1>0, <2>3, <3>1, <3>2, <3>3, CollectorTypes DEF TypeOK, tables
  <2>5. CASE gc' = [gc EXCEPT ![g] = [gc[g] EXCEPT !.todo = @ \ {x}]]
    <3> DEFINE u == [gc[g] EXCEPT !.todo = @ \ {x}]
    <3>1. u \in Collector /\ u.pc = "sweep" /\ u.at = Null /\ u.todo \subseteq BlobRows
      BY <1>0, <2>2 DEF Collector
    <3>2. gc' = [gc EXCEPT ![g] = u]
      BY <2>5
    <3> HIDE DEF u
    <3> QED BY <1>0, <2>3, <3>1, <3>2, CollectorTypes DEF TypeOK, tables
  <2> QED BY <2>1, <2>4, <2>5
<1>8. CASE DeleteObject(g)
  <2> DEFINE u == [gc[g] EXCEPT !.pc = "gone"]
  <2>1. gc[g].todo \subseteq BlobRows /\ gc[g].at \in BlobRows /\ gc[g].at # Null
    BY <1>8, CollectorFacts DEF DeleteObject, BlobRows
  <2>2. u \in Collector /\ u.pc = "gone" /\ u.at # Null /\ u.todo \subseteq BlobRows
    BY <1>0, <2>1 DEF Collector
  <2>3. gc' = [gc EXCEPT ![g] = u] /\ object' \subseteq {LocationOf[r] : r \in Repos} \X Blobs
    BY <1>0, <1>8 DEF DeleteObject, TypeOK
  <2> HIDE DEF u
  <2> QED BY <1>0, <1>8, <2>2, <2>3, CollectorTypes DEF DeleteObject, TypeOK, tables
<1>9. CASE DeleteRow(g) \/ SweepFails(g)
  <2> DEFINE u == [gc[g] EXCEPT !.pc = "sweep", !.at = Null]
  <2>1. gc[g].todo \subseteq BlobRows
    BY <1>9, CollectorFacts DEF DeleteRow, SweepFails
  <2>2. u \in Collector /\ u.pc = "sweep" /\ u.at = Null /\ u.todo \subseteq BlobRows
    BY <1>0, <2>1 DEF Collector
  <2>3. gc' = [gc EXCEPT ![g] = u]
    BY <1>9 DEF DeleteRow, SweepFails, Released
  <2>4. row' \in [BlobRows -> Row \cup {Null}] /\ faults' \in 0..MaxFaults
    BY <1>0, <1>9 DEF DeleteRow, SweepFails, Fault, TypeOK, tables
  <2>5. UNCHANGED <<object, tag, refs, edges, client, ticked>>
    BY <1>9 DEF DeleteRow, SweepFails, tables
  <2> HIDE DEF u
  <2> QED BY <1>0, <2>2, <2>3, <2>4, <2>5, CollectorTypes DEF TypeOK
<1>10. CASE EndTick(g) \/ BackfillDone(g)
  <2>1. gc' = [gc EXCEPT ![g] = IdleCollector] /\ UNCHANGED <<tables, object, client, ticked, faults>>
    BY <1>10 DEF EndTick, BackfillDone
  <2>2. IdleCollector.pc = "idle" /\ IdleCollector.at = Null
    BY DEF IdleCollector
  <2> QED BY <1>0, <1>a, <2>1, <2>2, CollectorTypes DEF TypeOK, tables
<1>11. CASE Restart(g)
  <2> DEFINE T == {x \in Repos \X Manifests :
                     /\ BlobsOf[x[2]] # {} /\ TaggedIn(tag, x[1], x[2]) /\ Missing(x[1], x[2])}
             u == [IdleCollector EXCEPT !.pc = "fill", !.todo = T]
  <2>1. T \in SUBSET (Repos \X Manifests)
    OBVIOUS
  <2>2. gc' = [gc EXCEPT ![g] = u]
    BY <1>11 DEF Restart
  <2> HIDE DEF T
  <2>3. u \in Collector /\ u.pc = "fill" /\ u.at = Null /\ u.todo \subseteq Repos \X Manifests
    BY <2>1 DEF Collector, IdleCollector
  <2>4. faults' \in 0..MaxFaults /\ UNCHANGED <<tables, object, client, ticked>>
    BY <1>0, <1>11 DEF Restart, Fault, TypeOK
  <2> HIDE DEF u
  <2> QED BY <1>0, <2>2, <2>3, <2>4, CollectorTypes DEF TypeOK, tables
<1>12. CASE Backfill(g)
  <2>1. PICK x \in gc[g].todo :
           /\ refs' = refs \cup {<<x[1], x[2], b>> : b \in BlobsOf[x[2]]}
           /\ gc' = [gc EXCEPT ![g].todo = @ \ {x}]
    BY <1>12 DEF Backfill
  <2> DEFINE u == [gc[g] EXCEPT !.todo = @ \ {x}]
  <2>2. gc[g].pc = "fill" /\ gc[g].todo \subseteq Repos \X Manifests /\ gc[g].at = Null
    BY <1>12, CollectorFacts DEF Backfill
  <2>3. u \in Collector /\ u.pc = "fill" /\ u.at = Null /\ u.todo \subseteq Repos \X Manifests
    BY <1>0, <2>2 DEF Collector
  <2>4. refs' \subseteq Repos \X Manifests \X Blobs
    <3>1. x[1] \in Repos /\ x[2] \in Manifests /\ BlobsOf[x[2]] \subseteq Blobs
      BY <2>2
    <3> QED BY <1>0, <2>1, <3>1 DEF TypeOK
  <2>5. gc' = [gc EXCEPT ![g] = u]
    BY <2>1
  <2>6. UNCHANGED <<row, tag, edges, object, client, ticked, faults>>
    BY <1>12 DEF Backfill
  <2> HIDE DEF u
  <2> QED BY <1>0, <2>3, <2>4, <2>5, <2>6, CollectorTypes DEF TypeOK
<1> QED
  BY <1>1, <1>2, <1>3, <1>4, <1>5, <1>6, <1>7, <1>8, <1>9, <1>10, <1>11, <1>12 DEF CollectorStep

\* So does the passing of time.
LEMMA TypesTime ==
  ASSUME Types, NextHour \/ \E x \in BlobRows : AgeBlob(x)
  PROVE  Types'
<1>0. TypeOK
  BY DEF Types
<1>1. ASSUME NEW x \in BlobRows, AgeBlob(x) PROVE row' \in [BlobRows -> Row \cup {Null}]
  <2>1. row[x] \in Row /\ row' = [row EXCEPT ![x] = [row[x] EXCEPT !.aged = TRUE]]
    BY <1>0, <1>1 DEF AgeBlob, TypeOK
  <2>2. [row[x] EXCEPT !.aged = TRUE] \in Row
    BY <2>1 DEF Row
  <2> QED BY <1>0, <2>1, <2>2 DEF TypeOK
<1>2. CASE NextHour
  <2>1. ASSUME NEW x \in BlobRows PROVE row'[x] \in Row \cup {Null}
    <3>1. row[x] \in Row \cup {Null}
      BY <1>0 DEF TypeOK
    <3>2. row'[x] = IF row[x] # Null /\ row[x].mark = "marked"
                    THEN [row[x] EXCEPT !.mark = "due"] ELSE row[x]
      BY <1>2 DEF NextHour
    <3> QED BY <3>1, <3>2 DEF Row
  <2>2. row' = [x \in BlobRows |-> row'[x]]
    BY <1>2 DEF NextHour
  <2>3. row' \in [BlobRows -> Row \cup {Null}]
    BY <2>1, <2>2
  <2> QED BY <1>0, <1>2, <2>3 DEF NextHour, Types, TypeOK, LocalsOK
<1>3. ASSUME NEW x \in BlobRows, AgeBlob(x) PROVE Types'
  BY <1>0, <1>1, <1>3 DEF AgeBlob, Types, TypeOK, LocalsOK, collectors
<1> QED BY <1>2, <1>3

LEMMA TypesInit == Init => Types
<1> SUFFICES ASSUME Init PROVE Types
  OBVIOUS
<1>1. NewClient \in Client /\ NewClient.pc = "new"
  BY DEF NewClient, Client
<1>2. IdleCollector \in Collector /\ IdleCollector.pc = "idle" /\ IdleCollector.at = Null
  BY DEF IdleCollector, Collector
<1>3. TypeOK
  BY <1>1, <1>2 DEF Init, TypeOK
<1>4. LocalsOK
  BY <1>1, <1>2 DEF Init, LocalsOK
<1> QED BY <1>3, <1>4 DEF Types

LEMMA TypesNext == Types /\ [Next]_vars => Types'
<1> SUFFICES ASSUME Types, [Next]_vars PROVE Types'
  OBVIOUS
<1>1. CASE Next
  BY <1>1, TypesClient, TypesCollector, TypesTime DEF Next
<1>2. CASE UNCHANGED vars
  BY <1>2 DEF vars, tables, collectors, Types, TypeOK, LocalsOK
<1> QED BY <1>1, <1>2

\* Every variable of the collector's model keeps its type, and a collector is at a
\* row exactly while it holds the row's lock (is_blob_still_orphan to COMMIT).
THEOREM TypeCorrect == Spec => []TypeOK
<1>1. Types => TypeOK
  BY DEF Types
<1> QED BY <1>1, TypesInit, TypesNext, PTL DEF Spec

-----------------------------------------------------------------------------
(* The sweep and the tags. *)

\* No row becomes due.
NoneDue == \A x \in BlobRows : Due(x)' => Due(x)

\* References are of repositories, manifests and blobs of the model.
LEMMA RefFacts ==
  ASSUME Types
  PROVE  /\ \A f \in refs : f[1] \in Repos /\ f[2] \in Manifests /\ f[3] \in Blobs /\ f = <<f[1], f[2], f[3]>>
         /\ \A g \in Collectors : \A f \in gc[g].stale :
              f[1] \in Repos /\ f[2] \in Manifests /\ f[3] \in Blobs /\ f = <<f[1], f[2], f[3]>>
<1>1. refs \subseteq Repos \X Manifests \X Blobs
  BY DEF Types, TypeOK
<1>2. \A g \in Collectors : gc[g].stale \subseteq Repos \X Manifests \X Blobs
  BY CollectorFacts DEF Collector
<1> QED BY <1>1, <1>2

\* What is fresh stays fresh while no row becomes due.
LEMMA FreshStays ==
  ASSUME NEW r \in Repos, NEW m \in Manifests, NoneDue, Fresh(r, m)
  PROVE  Fresh(r, m)'
<1>1. \A b \in BlobsOf[m] : <<r, b>> \in BlobRows
  BY DEF BlobRows
<1> QED BY <1>1 DEF NoneDue, Fresh

\* A step of a client that leaves tags, references and collectors alone: if it comes
\* to its commit, no tag that stays names the manifest unless it knows.
LEMMA QuietClient ==
  ASSUME Types, Types', GraceInv, NEW c \in Clients, NEW u,
         UNCHANGED <<tag, refs, gc>>, NoneDue,
         client' = [client EXCEPT ![c] = u],
         u.pc = "commit" /\ ~u.still =>
           \A t \in Tags : t \notin u.tags => tag[<<JobOf[c].repo, t>>] # u.manifest
  PROVE  GraceInv'
<1>0. TypeOK /\ WholeRefs /\ DeletesFresh /\ PrunesFresh /\ GateShut /\ SweepClear
  BY DEF GraceInv, Types
<1>1. client'[c] = u /\ \A d \in Clients : d # c => client'[d] = client[d]
  BY <1>0 DEF TypeOK
<1>2. WholeRefs'
  BY <1>0 DEF WholeRefs, Whole
<1>3. DeletesFresh'
  <2> SUFFICES ASSUME NEW d \in Clients, NEW t \in Tags, client'[d].pc = "commit", ~client'[d].still,
                      t \notin client'[d].tags, tag'[<<JobOf[d].repo, t>>] = client'[d].manifest
               PROVE  Fresh(JobOf[d].repo, client[d].manifest)'
    BY DEF DeletesFresh
  <2>1. d # c
    BY <1>1
  <2>2. Fresh(JobOf[d].repo, client[d].manifest)
    BY <1>0, <1>1, <2>1 DEF DeletesFresh
  <2>3. JobOf[d].repo \in Repos /\ client[d].manifest \in Manifests /\ client'[d].manifest = client[d].manifest
    BY <1>1, <2>1, ClientFacts
  <2>4. \A b \in BlobsOf[client[d].manifest] : <<JobOf[d].repo, b>> \in BlobRows
    BY <2>3 DEF BlobRows
  <2> QED BY <2>2, <2>3, <2>4 DEF Fresh, NoneDue
<1>4. PrunesFresh'
  <2> SUFFICES ASSUME NEW g \in Collectors, NEW f \in gc[g].stale, gc[g].pc = "unref",
                      TaggedIn(tag, f[1], f[2])
               PROVE  Fresh(f[1], f[2])'
    BY DEF PrunesFresh
  <2>1. Fresh(f[1], f[2]) /\ f[1] \in Repos /\ f[2] \in Manifests
    BY <1>0, RefFacts DEF PrunesFresh
  <2> QED BY <2>1, FreshStays
<1>5. GateShut'
  BY <1>0, BlobRowFacts DEF GateShut, NoneDue
<1>6. SweepClear'
  BY <1>0, CollectorFacts DEF SweepClear, NoneDue
<1> QED BY <1>2, <1>3, <1>4, <1>5, <1>6 DEF GraceInv

\* A step of a collector that leaves tags and clients alone, removes no reference and
\* does not pass the gate.  A row it locks is of no tagged image.
LEMMA QuietCollector ==
  ASSUME Types, Types', GraceInv, NEW g \in Collectors, NEW u,
         UNCHANGED <<tag, client>>, NoneDue, refs \subseteq refs', Whole(refs'),
         gc' = [gc EXCEPT ![g] = u],
         Whole(u.stale),
         u.pc = "unref" => \A f \in u.stale : ~TaggedIn(tag, f[1], f[2]),
         u.pc \notin {"idle", "fill"} => gc[g].pc \notin {"idle", "fill"},
         u.pc = "locked" => \A m \in Manifests :
           Due(u.at) /\ u.at[2] \in BlobsOf[m] => ~TaggedIn(tag, u.at[1], m)
  PROVE  GraceInv'
<1>0. TypeOK /\ WholeRefs /\ DeletesFresh /\ PrunesFresh /\ GateShut /\ SweepClear
  BY DEF GraceInv, Types
<1>1. gc'[g] = u /\ \A h \in Collectors : h # g => gc'[h] = gc[h]
  BY <1>0 DEF TypeOK
<1>2. WholeRefs'
  <2>1. ASSUME NEW h \in Collectors PROVE Whole(gc'[h].stale)
    BY <1>0, <1>1 DEF WholeRefs
  <2> QED BY <2>1 DEF WholeRefs, Whole
<1>3. DeletesFresh'
  <2> SUFFICES ASSUME NEW d \in Clients, NEW t \in Tags, client[d].pc = "commit", ~client[d].still,
                      t \notin client[d].tags, tag[<<JobOf[d].repo, t>>] = client[d].manifest
               PROVE  Fresh(JobOf[d].repo, client[d].manifest)'
    BY DEF DeletesFresh, Fresh
  <2>1. Fresh(JobOf[d].repo, client[d].manifest)
    BY <1>0 DEF DeletesFresh
  <2>2. JobOf[d].repo \in Repos /\ client[d].manifest \in Manifests /\ client'[d].manifest = client[d].manifest
    BY ClientFacts
  <2>3. \A b \in BlobsOf[client[d].manifest] : <<JobOf[d].repo, b>> \in BlobRows
    BY <2>2 DEF BlobRows
  <2> QED BY <2>1, <2>2, <2>3 DEF Fresh, NoneDue
<1>4. PrunesFresh'
  <2> SUFFICES ASSUME NEW h \in Collectors, NEW f \in gc'[h].stale, gc'[h].pc = "unref",
                      TaggedIn(tag, f[1], f[2])
               PROVE  Fresh(f[1], f[2])'
    BY DEF PrunesFresh
  <2>1. h # g
    BY <1>1
  <2>2. Fresh(f[1], f[2]) /\ f[1] \in Repos /\ f[2] \in Manifests
    BY <1>0, <1>1, <2>1, RefFacts DEF PrunesFresh
  <2> QED BY <2>2, FreshStays
<1>5. GateShut'
  <2> SUFFICES ASSUME NEW r \in Repos, NEW m \in Manifests, NEW b \in Blobs,
                      b \in BlobsOf[m], TaggedIn(tag, r, m), <<r, m, b>> \notin refs', Due(<<r, b>>)',
                      NEW h \in Collectors
               PROVE  gc'[h].pc \in {"idle", "fill"}
    BY DEF GateShut
  <2>1. <<r, m, b>> \notin refs /\ Due(<<r, b>>)
    BY BlobRowFacts DEF NoneDue
  <2>2. \A k \in Collectors : gc[k].pc \in {"idle", "fill"}
    BY <1>0, <2>1 DEF GateShut
  <2> QED BY <1>1, <2>2
<1>6. SweepClear'
  <2> SUFFICES ASSUME NEW h \in Collectors, NEW m \in Manifests, gc'[h].pc = "locked",
                      Due(gc[h].at)', gc'[h].at[2] \in BlobsOf[m], TaggedIn(tag, gc'[h].at[1], m)
               PROVE  FALSE
    BY DEF SweepClear
  <2>1. gc'[h].at \in BlobRows
    BY CollectorFacts DEF Types, TypeOK, Collector
  <2>2. Due(gc'[h].at)
    BY <2>1 DEF NoneDue, Due
  <2>3. CASE h = g
    BY <1>1, <2>2, <2>3
  <2>4. CASE h # g
    BY <1>0, <1>1, <2>2, <2>4 DEF SweepClear
  <2> QED BY <2>3, <2>4
<1> QED BY <1>2, <1>3, <1>4, <1>5, <1>6 DEF GraceInv

\* PUT of a manifest: the image it tags has no due row left, its references are there,
\* and no collector is at one of its rows.
LEMMA GracePut ==
  ASSUME Types, Types', GraceInv, NEW c \in Clients, PutManifest(c)
  PROVE  GraceInv'
<1> DEFINE r0 == JobOf[c].repo
           m0 == JobOf[c].manifest
           t0 == JobOf[c].tag
<1>0. TypeOK /\ WholeRefs /\ DeletesFresh /\ PrunesFresh /\ GateShut /\ SweepClear
  BY DEF GraceInv, Types
<1>1. r0 \in Repos /\ m0 \in Manifests /\ t0 \in Tags /\ BlobsOf[m0] \subseteq Blobs
  BY ClientFacts
<1>2. /\ tag' = [tag EXCEPT ![<<r0, t0>>] = m0]
      /\ row' = Resurrected(r0, m0)
      /\ refs' = refs \cup {<<r0, m0, b>> : b \in BlobsOf[m0]}
      /\ client' = [client EXCEPT ![c].pc = "done"]
      /\ gc' = gc
      /\ \A b \in BlobsOf[m0] : ~Locked(<<r0, b>>)
  BY DEF PutManifest, collectors
<1> HIDE DEF r0, m0, t0
<1>3. NoneDue /\ Fresh(r0, m0)'
  <2>1. ASSUME NEW x \in BlobRows, Due(x)'
        PROVE  Due(x) /\ ~(x[1] = r0 /\ x[2] \in BlobsOf[m0])
    <3>1. row[x] \in Row \cup {Null}
      BY <1>0 DEF TypeOK
    <3>2. row'[x] = IF x[1] = r0 /\ x[2] \in BlobsOf[m0] /\ row[x] # Null
                    THEN [row[x] EXCEPT !.mark = "none"] ELSE row[x]
      BY <1>2 DEF Resurrected
    <3>3. row'[x] # Null /\ row'[x].mark = "due"
      BY <2>1 DEF Due
    <3>4. CASE x[1] = r0 /\ x[2] \in BlobsOf[m0] /\ row[x] # Null
      <4>1. row[x] \in Row
        BY <3>1, <3>4
      <4>2. row'[x].mark = "none"
        BY <3>2, <3>4, <4>1 DEF Row
      <4> QED BY <3>3, <4>2
    <3>5. CASE ~(x[1] = r0 /\ x[2] \in BlobsOf[m0] /\ row[x] # Null)
      BY <3>2, <3>3, <3>5 DEF Due
    <3> QED BY <3>4, <3>5
  <2>2. \A b \in BlobsOf[m0] : <<r0, b>> \in BlobRows
    BY <1>1 DEF BlobRows
  <2>3. ASSUME NEW b \in BlobsOf[m0], Due(<<r0, b>>)' PROVE FALSE
    BY <2>1, <2>2, <2>3
  <2> QED BY <2>1, <2>3 DEF NoneDue, Fresh, r0, m0
<1>4. \A r \in Repos, t \in Tags : tag'[<<r, t>>] = tag[<<r, t>>] \/ (r = r0 /\ t = t0 /\ tag'[<<r, t>>] = m0)
  BY <1>0, <1>1, <1>2 DEF TypeOK
<1>5. \A r \in Repos, m \in Manifests :
         TaggedIn(tag', r, m) => TaggedIn(tag, r, m) \/ (r = r0 /\ m = m0)
  BY <1>4 DEF TaggedIn
<1>6. \A d \in Clients : client'[d].pc = "commit" => d # c /\ client'[d] = client[d]
  BY <1>0, <1>2 DEF TypeOK, Client
<1>7. WholeRefs'
  <2>1. Whole(refs')
    <3> SUFFICES ASSUME NEW f \in refs'
                 PROVE  f[3] \in BlobsOf[f[2]] /\ \A b \in BlobsOf[f[2]] : <<f[1], f[2], b>> \in refs'
      BY DEF Whole
    <3>1. CASE f \in refs
      BY <1>0, <1>2, <3>1 DEF WholeRefs, Whole
    <3>2. CASE \E b \in BlobsOf[m0] : f = <<r0, m0, b>>
      BY <1>2, <3>2
    <3> QED BY <1>2, <3>1, <3>2
  <2> QED BY <1>0, <1>2, <2>1 DEF WholeRefs, Whole
<1>8. DeletesFresh'
  <2> SUFFICES ASSUME NEW d \in Clients, NEW t \in Tags, client'[d].pc = "commit", ~client'[d].still,
                      t \notin client'[d].tags, tag'[<<JobOf[d].repo, t>>] = client'[d].manifest
               PROVE  Fresh(JobOf[d].repo, client[d].manifest)'
    BY DEF DeletesFresh
  <2>1. client'[d] = client[d]
    BY <1>6
  <2>2. JobOf[d].repo \in Repos /\ client[d].manifest \in Manifests
    BY <2>1, ClientFacts
  <2>3. CASE tag'[<<JobOf[d].repo, t>>] = tag[<<JobOf[d].repo, t>>]
    <3>1. Fresh(JobOf[d].repo, client[d].manifest)
      BY <1>0, <2>1, <2>3 DEF DeletesFresh
    <3>2. \A b \in BlobsOf[client[d].manifest] : <<JobOf[d].repo, b>> \in BlobRows
      BY <2>2 DEF BlobRows
    <3> QED BY <1>3, <2>1, <3>1, <3>2 DEF Fresh, NoneDue
  <2>4. CASE JobOf[d].repo = r0 /\ client'[d].manifest = m0
    BY <1>3, <2>4 DEF Fresh, m0, r0
  <2> QED BY <1>4, <2>2, <2>3, <2>4
<1>9. PrunesFresh'
  <2> SUFFICES ASSUME NEW g \in Collectors, NEW f \in gc[g].stale, gc[g].pc = "unref",
                      TaggedIn(tag', f[1], f[2])
               PROVE  Fresh(f[1], f[2])'
    BY <1>2 DEF PrunesFresh
  <2>1. f[1] \in Repos /\ f[2] \in Manifests
    BY RefFacts
  <2>2. CASE TaggedIn(tag, f[1], f[2])
    <3>1. Fresh(f[1], f[2])
      BY <1>0, <2>2 DEF PrunesFresh
    <3> QED BY <1>3, <2>1, <3>1, FreshStays
  <2>3. CASE f[1] = r0 /\ f[2] = m0
    BY <1>3, <2>3 DEF Fresh, m0, r0
  <2> QED BY <1>5, <2>1, <2>2, <2>3
<1>10. GateShut'
  <2> SUFFICES ASSUME NEW r \in Repos, NEW m \in Manifests, NEW b \in Blobs,
                      b \in BlobsOf[m], TaggedIn(tag', r, m), <<r, m, b>> \notin refs', Due(<<r, b>>)',
                      NEW h \in Collectors
               PROVE  gc[h].pc \in {"idle", "fill"}
    BY <1>2 DEF GateShut
  <2>1. ~(r = r0 /\ m = m0) /\ <<r, m, b>> \notin refs
    BY <1>2
  <2>2. Due(<<r, b>>)
    BY <1>3, BlobRowFacts DEF NoneDue
  <2> QED BY <1>0, <1>5, <2>1, <2>2 DEF GateShut
<1>11. SweepClear'
  <2> SUFFICES ASSUME NEW h \in Collectors, NEW m \in Manifests, gc[h].pc = "locked",
                      Due(gc[h].at)', gc[h].at[2] \in BlobsOf[m], TaggedIn(tag', gc[h].at[1], m)
               PROVE  FALSE
    BY <1>2 DEF SweepClear
  <2>1. gc[h].at \in BlobRows /\ gc[h].at = <<gc[h].at[1], gc[h].at[2]>> /\ gc[h].at[1] \in Repos
    BY CollectorFacts, BlobRowFacts
  <2>2. Due(gc[h].at)
    BY <1>2, <1>3, <2>1 DEF NoneDue, Due
  <2>3. ~TaggedIn(tag, gc[h].at[1], m)
    BY <1>0, <2>2 DEF SweepClear
  <2>4. gc[h].at[1] = r0 /\ m = m0
    BY <1>5, <2>1, <2>3
  <2>5. Locked(<<r0, gc[h].at[2]>>)
    BY <2>1, <2>4 DEF Locked
  <2> QED BY <1>2, <2>4, <2>5
<1> QED BY <1>7, <1>8, <1>9, <1>10, <1>11 DEF GraceInv

\* COMMIT of a delete: if it takes the references of an image that is tagged again,
\* that image has no due row.
LEMMA GraceCommit ==
  ASSUME Types, Types', GraceInv, NEW c \in Clients, CommitDelete(c)
  PROVE  GraceInv'
<1> DEFINE r0 == JobOf[c].repo
           m0 == client[c].manifest
<1>0. TypeOK /\ WholeRefs /\ DeletesFresh /\ PrunesFresh /\ GateShut /\ SweepClear
  BY DEF GraceInv, Types
<1>1. r0 \in Repos /\ m0 \in Manifests /\ client[c].pc = "commit"
  BY ClientFacts DEF CommitDelete
<1>2. /\ tag' = [x \in Repos \X Tags |-> IF x[1] = r0 /\ x[2] \in client[c].tags THEN Null ELSE tag[x]]
      /\ row' = row /\ gc' = gc
      /\ client' = [client EXCEPT ![c].pc = "done"]
  BY DEF CommitDelete, collectors
<1>3. refs' = refs \/ (~client[c].still /\ refs' = {f \in refs : ~(f[1] = r0 /\ f[2] = m0)})
  BY DEF CommitDelete
<1>4. \A r \in Repos, t \in Tags :
         tag'[<<r, t>>] # Null => tag'[<<r, t>>] = tag[<<r, t>>] /\ ~(r = r0 /\ t \in client[c].tags)
  BY <1>2
<1>5. \A r \in Repos, m \in Manifests : TaggedIn(tag', r, m) => TaggedIn(tag, r, m)
  BY <1>4 DEF TaggedIn
<1>6. \A d \in Clients : client'[d].pc = "commit" => client'[d] = client[d]
  BY <1>0, <1>2 DEF TypeOK, Client
<1>7. \A x : Due(x)' <=> Due(x)
  BY <1>2 DEF Due
<1> HIDE DEF r0, m0
<1>8. WholeRefs'
  <2>1. CASE refs' = refs
    BY <1>0, <1>2, <2>1 DEF WholeRefs, Whole
  <2>2. CASE refs' = {f \in refs : ~(f[1] = r0 /\ f[2] = m0)}
    <3>1. Whole(refs')
      <4> SUFFICES ASSUME NEW f \in refs'
                   PROVE  f[3] \in BlobsOf[f[2]] /\ \A b \in BlobsOf[f[2]] : <<f[1], f[2], b>> \in refs'
        BY DEF Whole
      <4> QED BY <1>0, <2>2 DEF WholeRefs, Whole
    <3> QED BY <1>0, <1>2, <3>1 DEF WholeRefs, Whole
  <2> QED BY <1>3, <2>1, <2>2
<1>9. DeletesFresh'
  <2> SUFFICES ASSUME NEW d \in Clients, NEW t \in Tags, client'[d].pc = "commit", ~client'[d].still,
                      t \notin client'[d].tags, tag'[<<JobOf[d].repo, t>>] = client'[d].manifest
               PROVE  Fresh(JobOf[d].repo, client[d].manifest)'
    BY DEF DeletesFresh
  <2>1. client'[d] = client[d] /\ client[d].manifest \in Manifests /\ JobOf[d].repo \in Repos
    BY <1>6, ClientFacts
  <2>2. tag[<<JobOf[d].repo, t>>] = client[d].manifest
    BY <1>4, <2>1
  <2>3. Fresh(JobOf[d].repo, client[d].manifest)
    BY <1>0, <2>1, <2>2 DEF DeletesFresh
  <2> QED BY <1>7, <2>1, <2>3 DEF Fresh
<1>10. PrunesFresh'
  <2> SUFFICES ASSUME NEW g \in Collectors, NEW f \in gc[g].stale, gc[g].pc = "unref",
                      TaggedIn(tag', f[1], f[2])
               PROVE  Fresh(f[1], f[2])'
    BY <1>2 DEF PrunesFresh
  <2>1. f[1] \in Repos /\ f[2] \in Manifests
    BY RefFacts
  <2> QED BY <1>0, <1>5, <1>7, <2>1 DEF PrunesFresh, Fresh
<1>11. GateShut'
  <2> SUFFICES ASSUME NEW r \in Repos, NEW m \in Manifests, NEW b \in Blobs,
                      b \in BlobsOf[m], TaggedIn(tag', r, m), <<r, m, b>> \notin refs', Due(<<r, b>>)',
                      NEW h \in Collectors
               PROVE  gc[h].pc \in {"idle", "fill"}
    BY <1>2 DEF GateShut
  <2>1. Due(<<r, b>>) /\ TaggedIn(tag, r, m)
    BY <1>5, <1>7
  <2>2. CASE <<r, m, b>> \notin refs
    BY <1>0, <2>1, <2>2 DEF GateShut
  <2>3. CASE <<r, m, b>> \in refs
    <3>1. ~client[c].still /\ r = r0 /\ m = m0
      BY <1>3, <2>3
    <3>2. PICK t \in Tags : tag'[<<r, t>>] = m
      BY DEF TaggedIn
    <3>3. t \notin client[c].tags /\ tag[<<r0, t>>] = m0
      BY <1>4, <3>1, <3>2
    <3>4. Fresh(r0, m0)
      BY <1>0, <1>1, <3>1, <3>3 DEF DeletesFresh, r0, m0
    <3> QED BY <2>1, <3>1, <3>4 DEF Fresh
  <2> QED BY <2>2, <2>3
<1>12. SweepClear'
  <2> SUFFICES ASSUME NEW h \in Collectors, NEW m \in Manifests, gc[h].pc = "locked",
                      Due(gc[h].at), gc[h].at[2] \in BlobsOf[m], TaggedIn(tag', gc[h].at[1], m)
               PROVE  FALSE
    BY <1>2 DEF SweepClear, Due
  <2>1. gc[h].at[1] \in Repos
    BY CollectorFacts, BlobRowFacts
  <2> QED BY <1>0, <1>5, <2>1 DEF SweepClear
<1> QED BY <1>8, <1>9, <1>10, <1>11, <1>12 DEF GraceInv

\* Every request.
LEMMA GraceClient ==
  ASSUME Types, Types', GraceInv, NEW c \in Clients, ClientStep(c) \/ Abort(c)
  PROVE  GraceInv'
<1>0. TypeOK /\ client[c] \in Client
  BY ClientFacts DEF Types
<1>1. ASSUME row' = row PROVE NoneDue
  BY <1>1 DEF NoneDue, Due
<1>2. CASE HeadBlob(c)
  <2>1. PICK b \in Todo(c) : client' = [client EXCEPT ![c].pc = "blobs", ![c].todo = Todo(c) \ {b}]
    BY <1>2 DEF HeadBlob
  <2> DEFINE u == [client[c] EXCEPT !.pc = "blobs", !.todo = Todo(c) \ {b}]
  <2>2. u.pc = "blobs" /\ client' = [client EXCEPT ![c] = u]
    <3>1. u.pc = "blobs"
      BY <1>0 DEF Client
    <3>2. client' = [client EXCEPT ![c] = u]
      BY <2>1
    <3> QED BY <3>1, <3>2
  <2>3. UNCHANGED <<tag, refs, gc>> /\ NoneDue
    BY <1>1, <1>2 DEF HeadBlob, tables, collectors
  <2> HIDE DEF u
  <2> QED BY <2>2, <2>3, QuietClient
<1>3. CASE UploadBlob(c)
  <2>1. PICK b \in Todo(c) :
           client' = [client EXCEPT ![c].pc = "insert", ![c].todo = Todo(c) \ {b}, ![c].blob = b]
    BY <1>3 DEF UploadBlob
  <2> DEFINE u == [client[c] EXCEPT !.pc = "insert", !.todo = Todo(c) \ {b}, !.blob = b]
  <2>2. u.pc = "insert" /\ client' = [client EXCEPT ![c] = u]
    <3>1. u.pc = "insert"
      BY <1>0 DEF Client
    <3>2. client' = [client EXCEPT ![c] = u]
      BY <2>1
    <3> QED BY <3>1, <3>2
  <2>3. UNCHANGED <<tag, refs, gc>> /\ NoneDue
    BY <1>1, <1>3 DEF UploadBlob, tables, collectors
  <2> HIDE DEF u
  <2> QED BY <2>2, <2>3, QuietClient
<1>4. CASE InsertBlob(c)
  <2> DEFINE x == <<JobOf[c].repo, client[c].blob>>
             u == [client[c] EXCEPT !.pc = "blobs", !.blob = Null]
  <2>1. u.pc = "blobs" /\ client' = [client EXCEPT ![c] = u]
    <3>1. u.pc = "blobs"
      BY <1>0 DEF Client
    <3>2. client' = [client EXCEPT ![c] = u]
      BY <1>4 DEF InsertBlob
    <3> QED BY <3>1, <3>2
  <2>2. x \in BlobRows
    BY <1>4, ClientFacts DEF InsertBlob, BlobRows
  <2>3. row[x] \in Row \cup {Null}
    BY <1>0, <2>2 DEF TypeOK
  <2>4. row' = [row EXCEPT ![x] = IF row[x] = Null THEN [aged |-> FALSE, mark |-> "none", by |-> c]
                                  ELSE [row[x] EXCEPT !.mark = "none"]]
    BY <1>4 DEF InsertBlob
  <2> HIDE DEF x
  <2>5. row'[x].mark = "none"
    BY <1>0, <2>2, <2>3, <2>4 DEF TypeOK, Row
  <2>6. \A y \in BlobRows : y # x => row'[y] = row[y]
    BY <1>0, <2>4 DEF TypeOK
  <2>7. NoneDue
    BY <2>5, <2>6 DEF NoneDue, Due
  <2>8. UNCHANGED <<tag, refs, gc>>
    BY <1>4 DEF InsertBlob, collectors
  <2> HIDE DEF u
  <2> QED BY <2>1, <2>7, <2>8, QuietClient
<1>5. CASE ResolveDelete(c)
  <2>1. PICK m : client' = [client EXCEPT ![c].pc = "delete", ![c].manifest = m]
    BY <1>5 DEF ResolveDelete
  <2> DEFINE u == [client[c] EXCEPT !.pc = "delete", !.manifest = m]
  <2>2. u.pc = "delete" /\ client' = [client EXCEPT ![c] = u]
    <3>1. u.pc = "delete"
      BY <1>0 DEF Client
    <3>2. client' = [client EXCEPT ![c] = u]
      BY <2>1
    <3> QED BY <3>1, <3>2
  <2>3. UNCHANGED <<tag, refs, gc>> /\ NoneDue
    BY <1>1, <1>5 DEF ResolveDelete, tables, collectors
  <2> HIDE DEF u
  <2> QED BY <2>2, <2>3, QuietClient
<1>6. CASE DeleteTags(c)
  <2> DEFINE r == JobOf[c].repo
             m == client[c].manifest
             ts == IF JobOf[c].op = "untag" THEN {t \in {JobOf[c].tag} : tag[<<r, t>>] # Null}
                   ELSE {t \in Tags : tag[<<r, t>>] = m}
             still == \E t \in Tags \ ts : tag[<<r, t>>] = m
             u == [client[c] EXCEPT !.pc = "commit", !.tags = ts, !.still = still]
  <2>1. client' = [client EXCEPT ![c] = u]
    BY <1>6 DEF DeleteTags
  <2>2. ~still => \A t \in Tags : t \notin ts => tag[<<r, t>>] # m
    OBVIOUS
  <2>3. UNCHANGED <<tag, refs, gc>> /\ NoneDue
    BY <1>1, <1>6 DEF DeleteTags, tables, collectors
  <2> HIDE DEF ts, still
  <2>4. u.tags = ts /\ u.still = still /\ u.manifest = m
    BY <1>0 DEF Client
  <2> HIDE DEF u
  <2> QED BY <2>1, <2>2, <2>3, <2>4, QuietClient
<1>7. CASE Abort(c)
  <2> DEFINE u == [client[c] EXCEPT !.pc = "done"]
  <2>1. u.pc = "done" /\ client' = [client EXCEPT ![c] = u]
    BY <1>0, <1>7 DEF Client, Abort
  <2>2. UNCHANGED <<tag, refs, gc>> /\ NoneDue
    BY <1>1, <1>7 DEF Abort, tables, collectors
  <2> HIDE DEF u
  <2> QED BY <2>1, <2>2, QuietClient
<1> QED BY <1>2, <1>3, <1>4, <1>5, <1>6, <1>7, GracePut, GraceCommit DEF ClientStep

\* The gate opens only when no live image lacks its references.
LEMMA GraceGate ==
  ASSUME Types, Types', GraceInv, NEW g \in Collectors, PassGate(g)
  PROVE  GraceInv'
<1>0. TypeOK /\ WholeRefs /\ DeletesFresh /\ PrunesFresh /\ GateShut /\ SweepClear
  BY DEF GraceInv, Types
<1>1. /\ gc' = [gc EXCEPT ![g].pc = "prune"]
      /\ UNCHANGED <<row, tag, refs, client>>
      /\ Ready
  BY DEF PassGate, tables
<1>2. /\ gc'[g].pc = "prune" /\ gc'[g].stale = gc[g].stale
      /\ \A h \in Collectors : h # g => gc'[h] = gc[h]
  BY <1>0, <1>1 DEF TypeOK, Collector
<1>3. \A x : Due(x)' <=> Due(x)
  BY <1>1 DEF Due
<1>4. WholeRefs'
  <2>1. ASSUME NEW h \in Collectors PROVE gc'[h].stale = gc[h].stale
    BY <1>2
  <2> QED BY <1>0, <1>1, <2>1 DEF WholeRefs, Whole
<1>5. DeletesFresh'
  BY <1>0, <1>1, <1>3 DEF DeletesFresh, Fresh
<1>6. PrunesFresh'
  <2> SUFFICES ASSUME NEW h \in Collectors, NEW f \in gc'[h].stale, gc'[h].pc = "unref",
                      TaggedIn(tag, f[1], f[2])
               PROVE  Fresh(f[1], f[2])'
    BY <1>1 DEF PrunesFresh
  <2>1. gc'[h] = gc[h]
    BY <1>2
  <2> QED BY <1>0, <1>3, <2>1 DEF PrunesFresh, Fresh
<1>7. GateShut'
  <2> SUFFICES ASSUME NEW r \in Repos, NEW m \in Manifests, NEW b \in Blobs,
                      b \in BlobsOf[m], TaggedIn(tag, r, m), <<r, m, b>> \notin refs, Due(<<r, b>>)
               PROVE  FALSE
    BY <1>1, <1>3 DEF GateShut
  <2>1. ~Missing(r, m)
    BY <1>1 DEF Ready, Live
  <2>2. PICK f \in refs : f[1] = r /\ f[2] = m
    BY <2>1 DEF Missing
  <2> QED BY <1>0, <2>2 DEF WholeRefs, Whole
<1>8. SweepClear'
  <2> SUFFICES ASSUME NEW h \in Collectors, NEW m \in Manifests, gc'[h].pc = "locked",
                      Due(gc'[h].at), gc'[h].at[2] \in BlobsOf[m], TaggedIn(tag, gc'[h].at[1], m)
               PROVE  FALSE
    BY <1>1 DEF SweepClear, Due
  <2> QED BY <1>0, <1>2 DEF SweepClear
<1> QED BY <1>4, <1>5, <1>6, <1>7, <1>8 DEF GraceInv

\* The prune: a reference it takes from an image that is tagged again leaves no due
\* row behind.
LEMMA GracePrune ==
  ASSUME Types, Types', GraceInv, NEW g \in Collectors, Prune(g)
  PROVE  GraceInv'
<1>0. TypeOK /\ WholeRefs /\ DeletesFresh /\ PrunesFresh /\ GateShut /\ SweepClear
  BY DEF GraceInv, Types
<1>1. /\ gc[g].pc = "unref"
      /\ refs' = refs \ gc[g].stale
      /\ gc' = [gc EXCEPT ![g].pc = "select", ![g].stale = {}]
      /\ UNCHANGED <<row, tag, client>>
  BY DEF Prune
<1>2. /\ gc'[g].pc = "select" /\ gc'[g].stale = {}
      /\ \A h \in Collectors : h # g => gc'[h] = gc[h]
  BY <1>0, <1>1 DEF TypeOK, Collector
<1>3. \A x : Due(x)' <=> Due(x)
  BY <1>1 DEF Due
<1>4. WholeRefs'
  <2>1. ASSUME NEW h \in Collectors PROVE Whole(gc'[h].stale)
    BY <1>0, <1>2 DEF WholeRefs, Whole
  <2>2. Whole(refs')
    <3> SUFFICES ASSUME NEW f \in refs'
                 PROVE  f[3] \in BlobsOf[f[2]] /\ \A b \in BlobsOf[f[2]] : <<f[1], f[2], b>> \in refs'
      BY DEF Whole
    <3>1. f \in refs /\ f \notin gc[g].stale /\ f = <<f[1], f[2], f[3]>>
      BY <1>1, RefFacts
    <3>2. f[3] \in BlobsOf[f[2]] /\ \A b \in BlobsOf[f[2]] : <<f[1], f[2], b>> \in refs
      BY <1>0, <3>1 DEF WholeRefs, Whole
    <3>3. ASSUME NEW b \in BlobsOf[f[2]], <<f[1], f[2], b>> \in gc[g].stale PROVE FALSE
      <4> DEFINE e == <<f[1], f[2], b>>
      <4>1. \A k \in BlobsOf[e[2]] : <<e[1], e[2], k>> \in gc[g].stale
        BY <1>0, <3>3 DEF WholeRefs, Whole
      <4> QED BY <3>1, <3>2, <4>1
    <3> QED BY <1>1, <3>2, <3>3
  <2> QED BY <2>1, <2>2 DEF WholeRefs, Whole
<1>5. DeletesFresh'
  BY <1>0, <1>1, <1>3 DEF DeletesFresh, Fresh
<1>6. PrunesFresh'
  <2> SUFFICES ASSUME NEW h \in Collectors, NEW f \in gc'[h].stale, gc'[h].pc = "unref",
                      TaggedIn(tag, f[1], f[2])
               PROVE  Fresh(f[1], f[2])'
    BY <1>1 DEF PrunesFresh
  <2>1. gc'[h] = gc[h]
    BY <1>2
  <2> QED BY <1>0, <1>3, <2>1 DEF PrunesFresh, Fresh
<1>7. GateShut'
  <2> SUFFICES ASSUME NEW r \in Repos, NEW m \in Manifests, NEW b \in Blobs,
                      b \in BlobsOf[m], TaggedIn(tag, r, m), <<r, m, b>> \notin refs', Due(<<r, b>>)
               PROVE  FALSE
    BY <1>1, <1>3 DEF GateShut
  <2>1. <<r, m, b>> \in refs
    BY <1>0, <1>1 DEF GateShut
  <2>2. <<r, m, b>> \in gc[g].stale
    BY <1>1, <2>1
  <2>3. Fresh(r, m)
    BY <1>0, <1>1, <2>2 DEF PrunesFresh
  <2> QED BY <2>3 DEF Fresh
<1>8. SweepClear'
  <2> SUFFICES ASSUME NEW h \in Collectors, NEW m \in Manifests, gc'[h].pc = "locked",
                      Due(gc'[h].at), gc'[h].at[2] \in BlobsOf[m], TaggedIn(tag, gc'[h].at[1], m)
               PROVE  FALSE
    BY <1>1 DEF SweepClear, Due
  <2> QED BY <1>0, <1>2 DEF SweepClear
<1> QED BY <1>4, <1>5, <1>6, <1>7, <1>8 DEF GraceInv

\* A locked row is an orphan: no reference of its own repository protects it, so if it
\* is due, GateShut would have kept this tick from starting.
LEMMA LockedIsClear ==
  ASSUME Types, GraceInv, NEW g \in Collectors, gc[g].pc = "sweep",
         NEW x \in BlobRows, StillOrphan(x), NEW m \in Manifests, Due(x), x[2] \in BlobsOf[m]
  PROVE  ~TaggedIn(tag, x[1], m)
<1> SUFFICES ASSUME TaggedIn(tag, x[1], m) PROVE FALSE
  OBVIOUS
<1>1. x[1] \in Repos /\ x[2] \in Blobs /\ Due(<<x[1], x[2]>>)
  BY BlobRowFacts
<1>2. <<x[1], m, x[2]>> \notin refs
  BY DEF StillOrphan, Protected
<1>3. gc[g].pc \in {"idle", "fill"}
  BY <1>1, <1>2 DEF GraceInv, GateShut
<1> QED BY <1>3

\* Every step of a collector.
LEMMA GraceCollector ==
  ASSUME Types, Types', GraceInv, NEW g \in Collectors, CollectorStep(g) \/ SweepFails(g) \/ Restart(g)
  PROVE  GraceInv'
<1>0. TypeOK /\ gc[g] \in Collector /\ Whole(refs) /\ Whole(gc[g].stale) /\ SweepClear
  BY CollectorFacts DEF Types, GraceInv, WholeRefs
<1>1. ASSUME row' = row PROVE NoneDue
  BY <1>1 DEF NoneDue, Due
<1>2. Whole({})
  BY DEF Whole
<1>3. CASE SelectStale(g)
  <2> DEFINE S == {f \in refs : Stale(f)}
             u == [gc[g] EXCEPT !.pc = "unref", !.stale = S]
  <2>1. gc' = [gc EXCEPT ![g] = u]
    BY <1>3 DEF SelectStale
  <2>2. Whole(S) /\ \A f \in S : ~TaggedIn(tag, f[1], f[2])
    BY <1>0 DEF Whole, Stale
  <2> HIDE DEF S
  <2>3. u.pc = "unref" /\ u.stale = S
    BY <1>0 DEF Collector
  <2>4. UNCHANGED <<row, tag, client, refs>> /\ gc[g].pc = "prune"
    BY <1>3 DEF SelectStale, tables
  <2> HIDE DEF u
  <2> QED BY <1>0, <1>1, <2>1, <2>2, <2>3, <2>4, QuietCollector
<1>4. ASSUME NEW u, gc' = [gc EXCEPT ![g] = u], UNCHANGED <<tag, client, refs>>, NoneDue,
             u.stale \in {gc[g].stale, {}}, u.pc \in {"mark", "sweep", "idle", "fill", "gone"},
             gc[g].pc \in {"idle", "fill"} => u.pc \in {"idle", "fill"}
      PROVE  GraceInv'
  BY <1>0, <1>2, <1>4, QuietCollector
<1>5. CASE SelectOrphans(g)
  <2> DEFINE T == {x \in BlobRows : row[x] # Null /\ row[x].aged /\ ~Protected(x)}
             u == [gc[g] EXCEPT !.pc = "mark", !.todo = T]
  <2>1. gc' = [gc EXCEPT ![g] = u]
    BY <1>5 DEF SelectOrphans
  <2> HIDE DEF T
  <2>2. u.pc = "mark" /\ u.stale = gc[g].stale
    BY <1>0 DEF Collector
  <2>3. UNCHANGED <<row, tag, client, refs>> /\ gc[g].pc = "select"
    BY <1>5 DEF SelectOrphans, tables
  <2> HIDE DEF u
  <2> QED BY <1>1, <1>4, <2>1, <2>2, <2>3
<1>6. CASE MarkBlob(g)
  <2>1. PICK x \in gc[g].todo :
           /\ row' = IF StillOrphan(x) /\ row[x].mark = "none"
                     THEN [row EXCEPT ![x] = [@ EXCEPT !.mark = "marked"]] ELSE row
           /\ gc' = [gc EXCEPT ![g].todo = @ \ {x}]
    BY <1>6 DEF MarkBlob
  <2> DEFINE u == [gc[g] EXCEPT !.todo = @ \ {x}]
  <2>2. gc' = [gc EXCEPT ![g] = u]
    BY <2>1
  <2>3. gc[g].pc = "mark" /\ x \in BlobRows /\ UNCHANGED <<tag, client, refs>>
    BY <1>6, CollectorFacts DEF MarkBlob
  <2>4. u.pc = "mark" /\ u.stale = gc[g].stale
    BY <1>0, <2>3 DEF Collector
  <2>5. NoneDue
    <3>1. CASE StillOrphan(x) /\ row[x].mark = "none"
      <4>1. row' = [row EXCEPT ![x] = [row[x] EXCEPT !.mark = "marked"]] /\ row[x] \in Row
        BY <1>0, <2>1, <2>3, <3>1 DEF TypeOK, StillOrphan
      <4>2. row'[x].mark = "marked" /\ \A y \in BlobRows : y # x => row'[y] = row[y]
        BY <1>0, <2>3, <4>1 DEF TypeOK, Row
      <4> QED BY <4>2 DEF NoneDue, Due
    <3>2. CASE ~(StillOrphan(x) /\ row[x].mark = "none")
      BY <1>1, <2>1, <3>2
    <3> QED BY <3>1, <3>2
  <2> HIDE DEF u
  <2> QED BY <1>4, <2>2, <2>3, <2>4, <2>5
<1>7. CASE SelectPending(g)
  <2> DEFINE T == {x \in BlobRows : row[x] # Null /\ row[x].mark = "due" /\ ~Protected(x)}
             u == [gc[g] EXCEPT !.pc = "sweep", !.todo = T]
  <2>1. gc' = [gc EXCEPT ![g] = u]
    BY <1>7 DEF SelectPending
  <2> HIDE DEF T
  <2>2. u.pc = "sweep" /\ u.stale = gc[g].stale
    BY <1>0 DEF Collector
  <2>3. UNCHANGED <<row, tag, client, refs>> /\ gc[g].pc = "mark"
    BY <1>7 DEF SelectPending, tables
  <2> HIDE DEF u
  <2> QED BY <1>1, <1>4, <2>1, <2>2, <2>3
<1>8. CASE LockBlob(g)
  <2>1. PICK x \in gc[g].todo :
           gc' = [gc EXCEPT ![g] =
                    IF StillOrphan(x) /\ row[x].mark # "none"
                    THEN [gc[g] EXCEPT !.pc = "locked", !.at = x, !.todo = gc[g].todo \ {x}]
                    ELSE [gc[g] EXCEPT !.todo = gc[g].todo \ {x}]]
    BY <1>8 DEF LockBlob
  <2>2. UNCHANGED <<row, tag, client, refs>> /\ gc[g].pc = "sweep" /\ x \in BlobRows
    BY <1>8, CollectorFacts DEF LockBlob, tables
  <2>3. CASE StillOrphan(x) /\ row[x].mark # "none"
    <3> DEFINE u == [gc[g] EXCEPT !.pc = "locked", !.at = x, !.todo = gc[g].todo \ {x}]
    <3>1. gc' = [gc EXCEPT ![g] = u]
      BY <2>1, <2>3
    <3>2. u.pc = "locked" /\ u.at = x /\ u.stale = gc[g].stale
      BY <1>0 DEF Collector
    <3>3. \A m \in Manifests : Due(x) /\ x[2] \in BlobsOf[m] => ~TaggedIn(tag, x[1], m)
      BY <2>2, <2>3, LockedIsClear
    <3>4. \A m \in Manifests : Due(u.at) /\ u.at[2] \in BlobsOf[m] => ~TaggedIn(tag, u.at[1], m)
      BY <3>2, <3>3 DEF Due
    <3> HIDE DEF u
    <3> QED BY <1>0, <1>1, <2>2, <3>1, <3>2, <3>4, QuietCollector
  <2>4. CASE ~(StillOrphan(x) /\ row[x].mark # "none")
    <3> DEFINE u == [gc[g] EXCEPT !.todo = gc[g].todo \ {x}]
    <3>1. gc' = [gc EXCEPT ![g] = u]
      BY <2>1, <2>4
    <3>2. u.pc = "sweep" /\ u.stale = gc[g].stale
      BY <1>0, <2>2 DEF Collector
    <3> HIDE DEF u
    <3> QED BY <1>1, <1>4, <2>2, <3>1, <3>2
  <2> QED BY <2>3, <2>4
<1>9. CASE DeleteObject(g)
  <2> DEFINE u == [gc[g] EXCEPT !.pc = "gone"]
  <2>1. gc' = [gc EXCEPT ![g] = u]
    BY <1>9 DEF DeleteObject
  <2>2. u.pc = "gone" /\ u.stale = gc[g].stale
    BY <1>0 DEF Collector
  <2>3. UNCHANGED <<row, tag, client, refs>> /\ gc[g].pc = "locked"
    BY <1>9 DEF DeleteObject, tables
  <2> HIDE DEF u
  <2> QED BY <1>1, <1>4, <2>1, <2>2, <2>3
<1>10. CASE DeleteRow(g) \/ SweepFails(g)
  <2> DEFINE u == [gc[g] EXCEPT !.pc = "sweep", !.at = Null]
  <2>1. gc' = [gc EXCEPT ![g] = u]
    BY <1>10 DEF DeleteRow, SweepFails, Released
  <2>2. u.pc = "sweep" /\ u.stale = gc[g].stale
    BY <1>0 DEF Collector
  <2>3. UNCHANGED <<tag, client, refs>> /\ gc[g].pc \in {"locked", "gone"}
    BY <1>10 DEF DeleteRow, SweepFails, tables
  <2>4. NoneDue
    <3>1. row' = row \/ row' = [row EXCEPT ![gc[g].at] = Null]
      BY <1>10 DEF DeleteRow, SweepFails, tables
    <3> QED BY <1>0, <3>1 DEF NoneDue, Due, TypeOK
  <2> HIDE DEF u
  <2> QED BY <1>4, <2>1, <2>2, <2>3, <2>4
<1>11. CASE EndTick(g) \/ BackfillDone(g)
  <2>1. gc' = [gc EXCEPT ![g] = IdleCollector] /\ UNCHANGED <<row, tag, client, refs>>
    BY <1>11 DEF EndTick, BackfillDone, tables
  <2>2. IdleCollector.pc = "idle" /\ IdleCollector.stale = {}
    BY DEF IdleCollector
  <2> QED BY <1>1, <1>4, <2>1, <2>2
<1>12. CASE Restart(g)
  <2> DEFINE T == {x \in Repos \X Manifests :
                     /\ BlobsOf[x[2]] # {} /\ TaggedIn(tag, x[1], x[2]) /\ Missing(x[1], x[2])}
             u == [IdleCollector EXCEPT !.pc = "fill", !.todo = T]
  <2>1. gc' = [gc EXCEPT ![g] = u]
    BY <1>12 DEF Restart
  <2> HIDE DEF T
  <2>2. u.pc = "fill" /\ u.stale = {}
    BY DEF IdleCollector
  <2>3. UNCHANGED <<row, tag, client, refs>>
    BY <1>12 DEF Restart, tables
  <2> HIDE DEF u
  <2> QED BY <1>1, <1>4, <2>1, <2>2, <2>3
<1>13. CASE Backfill(g)
  <2>1. PICK x \in gc[g].todo :
           /\ refs' = refs \cup {<<x[1], x[2], b>> : b \in BlobsOf[x[2]]}
           /\ gc' = [gc EXCEPT ![g].todo = @ \ {x}]
    BY <1>13 DEF Backfill
  <2> DEFINE u == [gc[g] EXCEPT !.todo = @ \ {x}]
  <2>2. gc' = [gc EXCEPT ![g] = u]
    BY <2>1
  <2>3. gc[g].pc = "fill" /\ UNCHANGED <<row, tag, client>>
    BY <1>13 DEF Backfill
  <2>4. u.pc = "fill" /\ u.stale = gc[g].stale
    BY <1>0, <2>3 DEF Collector
  <2>5. Whole(refs')
    <3> SUFFICES ASSUME NEW f \in refs'
                 PROVE  f[3] \in BlobsOf[f[2]] /\ \A b \in BlobsOf[f[2]] : <<f[1], f[2], b>> \in refs'
      BY DEF Whole
    <3>1. CASE f \in refs
      BY <1>0, <2>1, <3>1 DEF Whole
    <3>2. CASE \E b \in BlobsOf[x[2]] : f = <<x[1], x[2], b>>
      BY <2>1, <3>2
    <3> QED BY <2>1, <3>1, <3>2
  <2> HIDE DEF u
  <2> QED BY <1>0, <1>1, <2>1, <2>2, <2>3, <2>4, <2>5, QuietCollector
<1> QED
  BY <1>3, <1>5, <1>6, <1>7, <1>8, <1>9, <1>10, <1>11, <1>12, <1>13, GraceGate, GracePrune DEF CollectorStep

\* The next hour: marks become due only while no delete, prune or sweep is under way.
LEMMA GraceTime ==
  ASSUME Types, Types', GraceInv, NextHour \/ \E x \in BlobRows : AgeBlob(x)
  PROVE  GraceInv'
<1>0. TypeOK /\ WholeRefs /\ DeletesFresh /\ PrunesFresh /\ GateShut /\ SweepClear
  BY DEF GraceInv, Types
<1>1. CASE NextHour
  <2>1. /\ \A g \in Collectors : gc[g].pc \in {"idle", "fill"}
        /\ \A c \in Clients : client[c].pc \in {"new", "blobs", "done"}
        /\ UNCHANGED <<tag, refs, client, gc>>
    BY <1>1 DEF NextHour
  <2>2. WholeRefs'
    BY <1>0, <2>1 DEF WholeRefs, Whole
  <2>3. DeletesFresh' /\ PrunesFresh' /\ GateShut' /\ SweepClear'
    BY <2>1 DEF DeletesFresh, PrunesFresh, GateShut, SweepClear
  <2> QED BY <2>2, <2>3 DEF GraceInv
<1>2. ASSUME NEW x \in BlobRows, AgeBlob(x) PROVE GraceInv'
  <2>1. row[x] \in Row /\ row' = [row EXCEPT ![x] = [row[x] EXCEPT !.aged = TRUE]]
    BY <1>0, <1>2 DEF AgeBlob, TypeOK
  <2>2. row'[x].mark = row[x].mark /\ row[x] # Null /\ \A y \in BlobRows : y # x => row'[y] = row[y]
    BY <1>0, <1>2, <2>1 DEF AgeBlob, TypeOK, Row
  <2>3. NoneDue
    BY <2>2 DEF NoneDue, Due
  <2>4. UNCHANGED <<tag, refs, client, gc>>
    BY <1>2 DEF AgeBlob, collectors
  <2>5. WholeRefs'
    BY <1>0, <2>4 DEF WholeRefs, Whole
  <2>6. DeletesFresh'
    <3> SUFFICES ASSUME NEW d \in Clients, NEW t \in Tags, client[d].pc = "commit", ~client[d].still,
                        t \notin client[d].tags, tag[<<JobOf[d].repo, t>>] = client[d].manifest
                 PROVE  Fresh(JobOf[d].repo, client[d].manifest)'
      BY <2>4 DEF DeletesFresh
    <3>1. Fresh(JobOf[d].repo, client[d].manifest)
      BY <1>0 DEF DeletesFresh
    <3>2. \A b \in BlobsOf[client[d].manifest] : <<JobOf[d].repo, b>> \in BlobRows
      BY ClientFacts DEF BlobRows
    <3> QED BY <2>3, <2>4, <3>1, <3>2 DEF Fresh, NoneDue
  <2>7. PrunesFresh'
    BY <1>0, <2>3, <2>4, RefFacts, FreshStays DEF PrunesFresh
  <2>8. GateShut'
    BY <1>0, <2>3, <2>4, BlobRowFacts DEF GateShut, NoneDue
  <2>9. SweepClear'
    BY <1>0, <2>3, <2>4, CollectorFacts DEF SweepClear, NoneDue
  <2> QED BY <2>5, <2>6, <2>7, <2>8, <2>9 DEF GraceInv
<1> QED BY <1>1, <1>2

LEMMA GraceInit == Init => GraceInv
<1> SUFFICES ASSUME Init PROVE GraceInv
  OBVIOUS
<1>1. NewClient.pc = "new" /\ IdleCollector.pc = "idle" /\ IdleCollector.stale = {}
  BY DEF NewClient, IdleCollector
<1>2. WholeRefs /\ PrunesFresh /\ SweepClear
  BY <1>1 DEF Init, WholeRefs, Whole, PrunesFresh, SweepClear
<1>3. DeletesFresh
  BY <1>1 DEF Init, DeletesFresh
<1>4. GateShut
  BY <1>1 DEF Init, GateShut
<1> QED BY <1>2, <1>3, <1>4 DEF GraceInv

LEMMA IInvNext == IInv /\ [Next]_vars => IInv'
<1> SUFFICES ASSUME IInv, [Next]_vars PROVE IInv'
  OBVIOUS
<1>1. Types /\ GraceInv
  BY DEF IInv, Types
<1>2. Types'
  BY <1>1, TypesNext
<1>3. CASE Next
  BY <1>1, <1>2, <1>3, GraceClient, GraceCollector, GraceTime DEF Next, IInv, Types
<1>4. CASE UNCHANGED vars
  <2>1. UNCHANGED <<row, tag, refs, client, gc>>
    BY <1>4 DEF vars, tables, collectors
  <2>2. WholeRefs' /\ SweepClear'
    BY <1>1, <2>1 DEF GraceInv, WholeRefs, Whole, SweepClear, Due
  <2>3. DeletesFresh' /\ PrunesFresh' /\ GateShut'
    BY <1>1, <2>1 DEF GraceInv, DeletesFresh, PrunesFresh, GateShut, Fresh, Due
  <2> QED BY <1>2, <2>2, <2>3 DEF IInv, Types, GraceInv
<1> QED BY <1>3, <1>4

\* The inductive invariant holds: references come and go for whole manifests, and a
\* due row of a tagged image without references keeps every tick before the gate.
THEOREM GraceCorrect == Spec => []IInv
<1>1. Init => IInv
  BY TypesInit, GraceInit DEF IInv, Types
<1> QED BY <1>1, IInvNext, PTL DEF Spec

\* No collector deletes the object of a row whose grace has passed while the row's
\* repository tags an image that lists the blob, whatever pushes, deletes, ticks and
\* restarts overlap (run_blob_gc_sweep, persist_tag_and_refs, delete_manifest).
THEOREM SweepRespectsGrace == Spec => GraceSparesTagged
<1> DEFINE Spares ==
      \A g \in Collectors, m \in Manifests :
        LET x == gc[g].at IN
        /\ gc[g].pc = "locked" /\ gc'[g].pc = "gone"
        /\ Due(x) /\ x[2] \in BlobsOf[m]
        => ~TaggedIn(tag, x[1], m)
<1>1. IInv /\ [Next]_vars => [Spares]_vars
  BY DEF IInv, GraceInv, SweepClear
<1>2. []IInv /\ [][Next]_vars => [][Spares]_vars
  BY <1>1, PTL
<1> QED BY <1>2, GraceCorrect, PTL DEF Spec, GraceSparesTagged

=============================================================================
