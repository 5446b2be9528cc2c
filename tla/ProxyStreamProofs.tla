-------------------------- MODULE ProxyStreamProofs --------------------------
(***************************************************************************)
(* Proofs about ProxyStream for any number of replicas and requests, any   *)
(* body size, broadcast depth and budget, and any number of faults.        *)
(***************************************************************************)
EXTENDS ProxyStream, TLAPS

USE ProxyAssumption

-----------------------------------------------------------------------------
(* The inductive invariant. *)

\* A request that follows nobody.
Unattached == {"probe", "cached", "lock", "acquired", "elect", "open", "negative", "stream"}

\* Nothing has gone to the client yet.
Unanswered == {"probe", "cached", "lock", "acquired", "elect", "open", "negative", "wait"}

\* Where a leader is, and where it was.
LeaderPCs == {"open", "negative", "stream"} \cup Ended

\* Where a request is tells how far it is: its budget, its chunks, its channel.
Phases ==
  \A q \in Requests :
    /\ req[q].pc \in {"lock", "acquired", "elect", "wait", "follow"} => req[q].tries < Budget
    /\ req[q].pc \in Unanswered => req[q].got = 0
    /\ req[q].pc \in Unattached => req[q].lead = Null
    /\ req[q].pc \in {"wait", "follow"} => req[q].lead # Null
    /\ chan[q].end # "open" => req[q].pc \in Ended
    /\ chan[q].end = "done" => req[q].got = req[q].body
    /\ writer[q] \in {"eof", "commit", "delete"} => req[q].pc \in Ended

\* The headers are out as soon as, and only when, the source is open.
Headers ==
  \A q \in Requests :
    /\ req[q].pc = "stream" => chan[q].headers
    /\ chan[q].headers => /\ req[q].pc \in {"stream"} \cup Ended
                          /\ req[q].from \in {"upstream", "stale"}
    /\ chan[q].headers /\ req[q].from = "upstream" =>
         req[q].body = Size /\ (KnownLength => req[q].hdr = Size)

\* Where a request has the cluster lock.
Holding == {"acquired", "elect", "open", "negative", "stream", "wait", "follow"}

\* The registry and the lock name requests at work, the lock one that waits for the
\* answer; a leader that may still be joined has sent nothing.
Registry ==
  /\ \A r \in Replicas : slot[r] # Null => Leading(slot[r]) /\ ReplicaOf[slot[r]] = r
  /\ \A q \in Requests : Leading(q) => Registered(q)
  /\ lock \in Requests => req[lock].pc \in Holding
  /\ \A q \in Requests : req[q].pc = "acquired" => lock = q
  /\ \A q \in Requests : Registered(q) /\ ~chan[q].started => req[q].got = 0

\* A follower has a prefix of what its leader has sent, and shares its source.
Follows(q, l) ==
  /\ req[l].pc \in LeaderPCs /\ req[l].lead = Null
  /\ req[q].pos = req[q].got /\ req[q].got <= req[l].got
  /\ req[q].pc \in {"follow", "served"} =>
       chan[l].headers /\ req[q].from = req[l].from /\ req[q].hdr = req[l].hdr
  /\ req[q].pc = "served" => chan[l].end = "done" /\ req[q].got = req[l].body

Following == \A q \in Requests : req[q].lead # Null => Follows(q, req[q].lead)

\* With a Content-Length, what the cache and its copies say is Size, or nothing.
Lengths == {Null, Negative, Size}

Cached ==
  KnownLength =>
    /\ sidecar \in Lengths
    /\ \A r \in Replicas : lru[r] \subseteq Lengths
    /\ \A q \in Requests :
         /\ req[q].pc = "cached" => req[q].hdr = Size
         /\ writer[q] = "commit" => req[q].got = Size
         /\ req[q].pc = "served" /\ req[q].lead = Null /\ req[q].from # "stale" => Whole(q)

Inv == TypeOK /\ Phases /\ Headers /\ Registry /\ Following /\ Cached

USE DEF Ended, Sidecars, Bodies, Holding, Whole

-----------------------------------------------------------------------------
(* What the helpers of the model do to a request. *)

\* Only the record of q changes, to a well-typed one.
Only(q) ==
  /\ req' = [req EXCEPT ![q] = req'[q]]
  /\ req'[q] \in Request

\* The record of q, but for its place, is as before.
KeepsBody(q) ==
  /\ req'[q].tries = req[q].tries /\ req'[q].from = req[q].from /\ req'[q].hdr = req[q].hdr
  /\ req'[q].body = req[q].body /\ req'[q].lead = req[q].lead
  /\ req'[q].pos = req[q].pos /\ req'[q].got = req[q].got

\* A miss goes where its budget allows.
LEMMA MissFacts ==
  ASSUME TypeOK, NEW q \in Requests
  PROVE  /\ Miss(q) \in Request
         /\ Miss(q) = [req[q] EXCEPT !.pc = Miss(q).pc]
         /\ \/ Miss(q).pc = "open" /\ req[q].tries = Budget
            \/ Miss(q).pc \in {"lock", "elect"} /\ req[q].tries < Budget
<1>1. req[q] \in Request
  BY DEF TypeOK
<1> QED BY <1>1 DEF Miss, Exhausted, Request, PCs

\* A re-entry uses up one try.
LEMMA ReEnterFacts ==
  ASSUME TypeOK, NEW q \in Requests, req[q].tries < Budget
  PROVE  /\ ReEnter(q) \in Request
         /\ ReEnter(q).pc = "probe" /\ ReEnter(q).lead = Null
         /\ ReEnter(q).from = req[q].from /\ ReEnter(q).body = req[q].body
         /\ ReEnter(q).got = req[q].got
<1>1. req[q] \in Request
  BY DEF TypeOK
<1>2. req[q].tries + 1 \in 0..Budget
  BY <1>1 DEF Request
<1>3. ReEnter(q) \in Request
  BY <1>1, <1>2 DEF ReEnter, Request, PCs
<1> QED BY <1>1, <1>3 DEF ReEnter, Request

\* A body that ended is served or failed.
LEMMA FinishType == \A q \in Requests, n \in Bodies : Finish(q, n) \in {"served", "failed"}
BY DEF Finish

\* The slots of the other requests, and of the other replicas, stay.
LEMMA DropLeaseFacts ==
  ASSUME TypeOK, NEW q \in Requests
  PROVE  /\ DropLease(q) \in [Replicas -> Requests \cup {Null}]
         /\ \A r \in Replicas : DropLease(q)[r] # q
         /\ \A r \in Replicas : slot[r] # q => DropLease(q)[r] = slot[r]
         /\ \A r \in Replicas : slot[r] = q => DropLease(q)[r] = Null
BY DEF DropLease, TypeOK

\* The lock is no longer held by q.
LEMMA UnlockFacts ==
  ASSUME TypeOK, NEW q \in Requests
  PROVE  /\ Unlock(q) \in Requests \cup Replicas \cup {Null} /\ Unlock(q) # q
         /\ lock # q => Unlock(q) = lock
         /\ lock = q => Unlock(q) = Null
BY DEF Unlock, TypeOK

\* A channel whose headers are published is a channel.
LEMMA PublishedType ==
  ASSUME TypeOK, NEW q \in Requests
  PROVE  [chan[q] EXCEPT !.headers = TRUE] \in Channel
<1>1. chan[q] \in Channel
  BY DEF TypeOK
<1> QED BY <1>1 DEF Channel

\* Following is kept by a step of q if q, where others follow it, still is a leader
\* whose source, headers and end stand, and q itself follows whom it now names.
LEMMA FollowingKept ==
  ASSUME Inv, NEW q \in Requests, Only(q),
         \A p \in Requests \ {q} : chan'[p] = chan[p],
         req[q].pc \in LeaderPCs /\ req[q].lead = Null =>
           /\ req'[q].pc \in LeaderPCs /\ req'[q].lead = Null /\ req[q].got <= req'[q].got
           /\ chan[q].headers =>
             chan'[q].headers /\ req'[q].from = req[q].from /\ req'[q].hdr = req[q].hdr
           /\ chan[q].end = "done" => chan'[q].end = "done" /\ req'[q].body = req[q].body,
         req'[q].lead # Null => Follows(q, req[q].lead)'
  PROVE  Following'
<1> SUFFICES ASSUME NEW p \in Requests, req'[p].lead # Null
             PROVE  Follows(p, req[p].lead)'
  BY DEF Following
<1>1. CASE p = q
  BY <1>1
<1>2. CASE p # q
  <2>1. req'[p] = req[p] /\ req[p].lead \in Requests /\ Follows(p, req[p].lead)
    BY <1>2 DEF Inv, TypeOK, Request, Following, Only
  <2>2. CASE req[p].lead # q
    <3>1. req'[req[p].lead] = req[req[p].lead] /\ chan'[req[p].lead] = chan[req[p].lead]
      BY <2>1, <2>2 DEF Only, Inv, TypeOK
    <3> QED BY <2>1, <3>1 DEF Follows
  <2>3. CASE req[p].lead = q
    <3>1. req[p].got \in Nat /\ req[q].got \in Nat /\ req'[q].got \in Nat
      BY DEF Inv, TypeOK, Request, Only
    <3> QED BY <2>1, <2>3, <3>1 DEF Follows
  <2> QED BY <2>2, <2>3
<1> QED BY <1>1, <1>2

\* So it is by a step of a leader that has not ended its broadcast.
LEMMA LeaderKept ==
  ASSUME Inv, NEW q \in Requests, Only(q),
         \A p \in Requests \ {q} : chan'[p] = chan[p],
         chan[q].end = "open",
         req'[q].pc \in LeaderPCs, req'[q].lead = Null, req[q].got <= req'[q].got,
         chan[q].headers =>
             chan'[q].headers /\ req'[q].from = req[q].from /\ req'[q].hdr = req[q].hdr
  PROVE  Following'
BY FollowingKept

-----------------------------------------------------------------------------
(* Every step of a request keeps the invariant. *)

\* The sidecar that is loaded has a length of the cache.
LEMMA LoadSidecarInv ==
  ASSUME Inv, NEW q \in Requests, LoadSidecar(q)
  PROVE  Inv'
<1> USE DEF Inv
<1>1. PICK s \in Loaded(ReplicaOf[q]) :
        /\ lru' = [lru EXCEPT ![ReplicaOf[q]] = {s}]
        /\ \/ s = Negative /\ req' = [req EXCEPT ![q].pc = "failed"]
           \/ s \in {Null, Negative} /\ req' = [req EXCEPT ![q] = Miss(q)]
           \/ s \notin {Null, Negative} /\ req' = [req EXCEPT ![q].pc = "cached", ![q].hdr = s]
  BY DEF LoadSidecar
<1>2. s \in Sidecars /\ (KnownLength => s \in Lengths)
  BY DEF Loaded, Cached, TypeOK
<1>3. req[q] \in Request /\ req[q].pc = "probe"
  BY DEF LoadSidecar, TypeOK
<1>4. /\ Only(q) /\ req'[q].tries = req[q].tries /\ req'[q].from = req[q].from
      /\ req'[q].body = req[q].body /\ req'[q].lead = req[q].lead /\ req'[q].got = req[q].got
      /\ \/ req'[q].pc = "failed"
         \/ req'[q].pc = "open" /\ req[q].tries = Budget
         \/ req'[q].pc \in {"lock", "elect"} /\ req[q].tries < Budget
         \/ req'[q].pc = "cached" /\ (KnownLength => req'[q].hdr = Size)
  BY <1>1, <1>2, <1>3, MissFacts DEF TypeOK, Only, KeepsBody, Request, PCs, Lengths
<1> USE DEF LoadSidecar, Only, KeepsBody
<1>5. TypeOK'
  <2>1. lru' \in [Replicas -> SUBSET Sidecars]
    BY <1>1, <1>2 DEF TypeOK
  <2> QED BY <1>4, <2>1 DEF TypeOK
<1>6. Phases'
  BY <1>3, <1>4 DEF TypeOK, Phases, Unanswered, Unattached
<1>7. Headers'
  BY <1>3, <1>4 DEF TypeOK, Headers
<1>8. Registry'
  BY <1>3, <1>4 DEF TypeOK, Registry, Leading, Registered
<1>9. Following'
  BY <1>3, <1>4, FollowingKept DEF Phases, Unattached, LeaderPCs
<1>10. Cached'
  <2>1. KnownLength => \A r \in Replicas : lru'[r] \subseteq Lengths
    BY <1>1, <1>2 DEF TypeOK, Cached
  <2> QED BY <1>3, <1>4, <2>1 DEF TypeOK, Cached
<1> QED BY <1>5, <1>6, <1>7, <1>8, <1>9, <1>10

\* A hit is whole if its length is that of the sidecar.
LEMMA OpenCachedInv ==
  ASSUME Inv, NEW q \in Requests, OpenCached(q)
  PROVE  Inv'
<1> USE DEF Inv
<1>1. req[q] \in Request /\ req[q].pc = "cached"
  BY DEF OpenCached, TypeOK
<1>2. /\ Only(q)
      /\ req'[q].tries = req[q].tries /\ req'[q].lead = req[q].lead
      /\ \/ /\ KeepsBody(q)
            /\ \/ req'[q].pc = "open" /\ req[q].tries = Budget
               \/ req'[q].pc \in {"lock", "elect"} /\ req[q].tries < Budget
         \/ /\ req'[q].pc \in {"served", "failed"}
            /\ req'[q].body = req[q].body
            /\ KnownLength /\ req'[q].pc = "served" => req'[q].got = Size /\ req'[q].hdr = Size
  <2>1. CASE object = Null
    BY <1>1, <2>1, MissFacts DEF TypeOK, Only, KeepsBody, Request, OpenCached
  <2>2. CASE object # Null
    BY <1>1, <2>2 DEF TypeOK, Only, Request, PCs, OpenCached, Finish, Cached
  <2> QED BY <2>1, <2>2
<1> USE DEF OpenCached, Only, KeepsBody
<1>3. TypeOK'
  BY <1>2 DEF TypeOK
<1>4. Phases'
  BY <1>1, <1>2 DEF TypeOK, Phases, Unanswered, Unattached
<1>5. Headers'
  BY <1>1, <1>2 DEF TypeOK, Headers
<1>6. Registry'
  BY <1>1, <1>2 DEF TypeOK, Registry, Leading, Registered
<1>7. Following'
  BY <1>1, <1>2, FollowingKept DEF Phases, Unattached, LeaderPCs
<1>8. Cached'
  BY <1>1, <1>2 DEF TypeOK, Phases, Cached
<1> QED BY <1>3, <1>4, <1>5, <1>6, <1>7, <1>8

\* The lock goes to a request that waits for the answer.
LEMMA TryAcquireInv ==
  ASSUME Inv, NEW q \in Requests, TryAcquire(q)
  PROVE  Inv'
<1> USE DEF Inv
<1>1. req[q] \in Request /\ req[q].pc = "lock" /\ req[q].tries < Budget /\ lock # q
  BY DEF TryAcquire, TypeOK, Phases, Registry
<1>2. /\ Only(q)
      /\ req'[q].lead = Null /\ req'[q].from = req[q].from
      /\ req'[q].body = req[q].body /\ req'[q].got = req[q].got
      /\ \/ /\ req'[q].pc = "acquired" /\ req'[q].tries < Budget
            /\ lock \notin Requests /\ lock' = q
         \/ req'[q].pc = "elect" /\ req'[q].tries < Budget /\ lock' = lock
         \/ req'[q].pc = "probe" /\ lock' = lock
  BY <1>1, ReEnterFacts DEF TypeOK, Only, Request, PCs, TryAcquire, Phases, Unattached
<1>3. UNCHANGED <<chan, slot, writer, object, sidecar, lru, faults>>
  BY DEF TryAcquire
<1> USE DEF Only
<1>4. TypeOK'
  BY <1>2, <1>3 DEF TypeOK
<1>5. Phases'
  BY <1>1, <1>2, <1>3 DEF TypeOK, Phases, Unanswered, Unattached
<1>6. Headers'
  BY <1>1, <1>2, <1>3 DEF TypeOK, Headers
<1>7. Registry'
  BY <1>1, <1>2, <1>3 DEF TypeOK, Registry, Leading, Registered
<1>8. Following'
  BY <1>1, <1>2, <1>3, FollowingKept DEF LeaderPCs
<1>9. Cached'
  BY <1>1, <1>2, <1>3 DEF TypeOK, Cached
<1> QED BY <1>4, <1>5, <1>6, <1>7, <1>8, <1>9

\* The answer, or an error in its place; the lock goes with the request, to the pool or
\* to nobody.
LEMMA AnswerInv ==
  ASSUME Inv, NEW q \in Requests, Detach(q) \/ AnswerLost(q)
  PROVE  Inv'
<1> USE DEF Inv
<1>1. req[q] \in Request /\ req[q].pc = "acquired" /\ req[q].tries < Budget /\ lock = q
  BY DEF Detach, AnswerLost, TypeOK, Phases, Registry
<1>2. Only(q) /\ KeepsBody(q) /\ req'[q].pc = "elect"
  BY <1>1 DEF Detach, AnswerLost, TypeOK, Only, KeepsBody, Request, PCs
<1>3. /\ UNCHANGED <<chan, slot, writer, object, sidecar, lru>> /\ faults' \in 0..MaxFaults
      /\ lock' \in {q, Null, ReplicaOf[q]}
  BY <1>1 DEF Detach, AnswerLost, CountFault, TypeOK
<1> USE DEF Only, KeepsBody
<1>4. TypeOK'
  BY <1>2, <1>3 DEF TypeOK
<1>5. Phases' /\ Headers'
  BY <1>1, <1>2, <1>3 DEF TypeOK, Phases, Headers, Unanswered, Unattached
<1>6. Registry'
  BY <1>1, <1>2, <1>3 DEF TypeOK, Registry, Leading, Registered
<1>7. Following'
  BY <1>1, <1>2, <1>3, FollowingKept DEF Phases, Unattached, LeaderPCs
<1>8. Cached'
  BY <1>1, <1>2, <1>3 DEF TypeOK, Cached
<1> QED BY <1>4, <1>5, <1>6, <1>7, <1>8

\* A leader is registered as it starts, a follower joins one that has sent nothing.
LEMMA ElectInv ==
  ASSUME Inv, NEW q \in Requests, Elect(q)
  PROVE  Inv'
<1> DEFINE l == slot[ReplicaOf[q]]
<1> USE DEF Inv
<1>1. /\ req[q] \in Request /\ req[q].pc = "elect" /\ req[q].tries < Budget
      /\ req[q].lead = Null /\ req[q].got = 0 /\ ReplicaOf[q] \in Replicas
      /\ l \in Requests \cup {Null}
  BY DEF Elect, TypeOK, Phases, Unanswered, Unattached
<1>2. UNCHANGED <<chan, writer, object, sidecar, lru, faults>>
  BY DEF Elect
<1>3. CASE l = Null /\ slot' = [slot EXCEPT ![ReplicaOf[q]] = q]
           /\ req' = [req EXCEPT ![q].pc = "open"] /\ UNCHANGED lock
  <2>1. Only(q) /\ KeepsBody(q) /\ req'[q].pc = "open"
    BY <1>1, <1>3 DEF TypeOK, Only, KeepsBody, Request, PCs
  <2> USE DEF Only, KeepsBody
  <2>2. TypeOK'
    BY <1>1, <1>2, <1>3, <2>1 DEF TypeOK
  <2>3. Phases' /\ Headers'
    BY <1>1, <1>2, <2>1 DEF TypeOK, Phases, Headers, Unanswered, Unattached
  <2>4. Registry'
    BY <1>1, <1>2, <1>3, <2>1 DEF TypeOK, Registry, Leading, Registered
  <2>5. Following'
    BY <1>1, <1>2, <2>1, FollowingKept DEF LeaderPCs
  <2>6. Cached'
    BY <1>1, <1>2, <2>1 DEF TypeOK, Cached
  <2> QED BY <2>2, <2>3, <2>4, <2>5, <2>6
<1>4. CASE l # Null /\ ~chan[l].started
           /\ req' = [req EXCEPT ![q].pc = "wait", ![q].lead = l, ![q].pos = req[l].got]
           /\ UNCHANGED <<slot, lock>>
  <2>1. /\ l \in Requests /\ Leading(l) /\ l # q /\ req[l].got = 0 /\ req[l].lead = Null
    BY <1>1, <1>4 DEF TypeOK, Registry, Registered, Leading, Phases, Unattached
  <2>2. /\ Only(q) /\ req'[q].pc = "wait" /\ req'[q].lead = l /\ req'[q].hdr = req[q].hdr
        /\ req'[q].pos = 0 /\ req'[q].got = 0 /\ req'[q].tries = req[q].tries
        /\ req'[q].body = req[q].body /\ req'[q].from = req[q].from
    BY <1>1, <1>4, <2>1 DEF TypeOK, Only, Request, PCs
  <2> USE DEF Only
  <2>3. TypeOK'
    BY <1>2, <1>4, <2>2 DEF TypeOK
  <2>4. Phases' /\ Headers'
    BY <1>1, <1>2, <2>1, <2>2 DEF TypeOK, Phases, Headers, Unanswered, Unattached
  <2>5. Registry'
    BY <1>1, <1>2, <1>4, <2>2 DEF TypeOK, Registry, Leading, Registered
  <2>6. Following'
    <3>1. Follows(q, req[q].lead)'
      BY <1>1, <1>2, <2>1, <2>2 DEF TypeOK, Follows, LeaderPCs, Leading
    <3> QED BY <1>1, <1>2, <2>2, <3>1, FollowingKept DEF LeaderPCs
  <2>7. Cached'
    BY <1>1, <1>2, <2>2 DEF TypeOK, Cached
  <2> QED BY <2>3, <2>4, <2>5, <2>6, <2>7
<1>5. CASE req' = [req EXCEPT ![q] = ReEnter(q)] /\ lock' = Unlock(q) /\ UNCHANGED slot
  <2>1. /\ Only(q) /\ req'[q].pc = "probe" /\ req'[q].lead = Null /\ req'[q].got = 0
        /\ req'[q].body = req[q].body /\ req'[q].from = req[q].from
    BY <1>1, <1>5, ReEnterFacts DEF TypeOK, Only
  <2>2. lock' \in Requests \cup Replicas \cup {Null} /\ lock' = IF lock = q THEN Null ELSE lock
    BY <1>5, UnlockFacts
  <2> USE DEF Only
  <2>3. TypeOK'
    BY <1>2, <1>5, <2>1, <2>2 DEF TypeOK
  <2>4. Phases' /\ Headers'
    BY <1>1, <1>2, <2>1 DEF TypeOK, Phases, Headers, Unanswered, Unattached
  <2>5. Registry'
    BY <1>1, <1>2, <1>5, <2>1, <2>2 DEF TypeOK, Registry, Leading, Registered
  <2>6. Following'
    BY <1>1, <1>2, <2>1, FollowingKept DEF LeaderPCs
  <2>7. Cached'
    BY <1>1, <1>2, <2>1 DEF TypeOK, Cached
  <2> QED BY <2>3, <2>4, <2>5, <2>6, <2>7
<1> QED BY <1>3, <1>4, <1>5 DEF Elect, MayJoin

\* An open source is the whole upstream body, and a coordinated leader stays registered.
LEMMA OpenInv ==
  ASSUME Inv, NEW q \in Requests, Open(q)
  PROVE  Inv'
<1> USE DEF Inv
<1>1. req[q] \in Request /\ req[q].pc = "open"
  BY DEF Open, TypeOK
<1>2. Size \in Bodies /\ (IF KnownLength THEN Size ELSE Null) \in Sidecars
  OBVIOUS
<1>3. /\ Only(q) /\ req'[q].pc = "stream" /\ req'[q].from = "upstream" /\ req'[q].body = Size
      /\ KnownLength => req'[q].hdr = Size
      /\ req'[q].tries = req[q].tries /\ req'[q].lead = req[q].lead /\ req'[q].got = req[q].got
  <2>1. PICK h \in Sidecars : h = IF KnownLength THEN Size ELSE Null
    BY <1>2
  <2>2. req' = [req EXCEPT ![q] = [req[q] EXCEPT !.pc = "stream", !.from = "upstream",
                                                 !.body = Size, !.hdr = h]]
    BY <2>1 DEF Open
  <2>3. [req[q] EXCEPT !.pc = "stream", !.from = "upstream", !.body = Size, !.hdr = h] \in Request
    BY <1>1, <1>2 DEF Request, PCs
  <2> QED BY <1>1, <2>1, <2>2, <2>3 DEF TypeOK, Only, Request
<1> USE DEF Open, Only, KeepsBody
<1>4. TypeOK'
  <2>1. chan' \in [Requests -> Channel] /\ writer' \in [Requests -> WriterPCs]
    BY ZenonT(60) DEF TypeOK, Channel, WriterPCs
  <2> QED BY <1>2, <1>3, <2>1 DEF TypeOK
<1>5. Phases'
  BY <1>1, <1>2, <1>3 DEF TypeOK, Phases, Unanswered, Unattached
<1>6. Headers'
  BY <1>1, <1>2, <1>3 DEF TypeOK, Channel, Headers
<1>7. Registry'
  BY <1>1, <1>2, <1>3 DEF TypeOK, Channel, Registry, Leading, Registered
<1>8. Following'
  <2>1. req[q].lead = Null /\ chan[q].end = "open" /\ req[q].got \in Nat
    BY <1>1 DEF Phases, Unattached, Request
  <2>2. \A p \in Requests \ {q} : chan'[p] = chan[p]
    BY DEF TypeOK
  <2>3. ~chan[q].headers
    BY <1>1 DEF Headers
  <2>4. req'[q].pc \in LeaderPCs /\ req'[q].lead = Null /\ req[q].got <= req'[q].got
    BY <1>1, <1>3, <2>1 DEF LeaderPCs
  <2> QED BY <1>3, <2>1, <2>2, <2>3, <2>4, LeaderKept
<1>9. Cached'
  BY <1>1, <1>2, <1>3 DEF TypeOK, Phases, Cached
<1> QED BY <1>4, <1>5, <1>6, <1>7, <1>8, <1>9

\* A leader told 404 is still registered while it deletes the body.
LEMMA OpenNotFoundInv ==
  ASSUME Inv, NEW q \in Requests, OpenNotFound(q)
  PROVE  Inv'
<1> USE DEF Inv
<1>1. req[q] \in Request /\ req[q].pc = "open"
  BY DEF OpenNotFound, TypeOK
<1>2. Only(q) /\ KeepsBody(q) /\ req'[q].pc = "negative"
  BY <1>1 DEF OpenNotFound, TypeOK, Only, KeepsBody, Request, PCs
<1> USE DEF OpenNotFound, Only, KeepsBody
<1>3. TypeOK'
  BY <1>1, <1>2 DEF TypeOK, Channel, WriterPCs, CountFault
<1>4. Phases'
  BY <1>1, <1>2 DEF TypeOK, Phases, Unanswered, Unattached, CountFault
<1>5. Headers'
  BY <1>1, <1>2 DEF TypeOK, Channel, Headers, CountFault
<1>6. Registry'
  BY <1>1, <1>2 DEF TypeOK, Channel, Registry, Leading, Registered, CountFault
<1>7. Following'
  <2>1. req[q].lead = Null /\ chan[q].end = "open" /\ req[q].got \in Nat
    BY <1>1 DEF Phases, Unattached, Request
  <2>2. \A p \in Requests \ {q} : chan'[p] = chan[p]
    BY DEF TypeOK
  <2>3. chan[q].headers => chan'[q].headers
    BY DEF TypeOK, Channel
  <2>4. req'[q].pc \in LeaderPCs /\ req'[q].lead = Null /\ req[q].got <= req'[q].got
    BY <1>1, <1>2, <2>1 DEF LeaderPCs
  <2> QED BY <1>2, <2>1, <2>2, <2>3, <2>4, LeaderKept
<1>8. Cached'
  BY <1>1, <1>2 DEF TypeOK, Phases, Cached, CountFault
<1> QED BY <1>3, <1>4, <1>5, <1>6, <1>7, <1>8

\* The marker is one of the lengths of the cache.
LEMMA WriteNegativeInv ==
  ASSUME Inv, NEW q \in Requests, WriteNegative(q)
  PROVE  Inv'
<1> USE DEF Inv
<1>1. req[q] \in Request /\ req[q].pc = "negative"
  BY DEF WriteNegative, TypeOK
<1>2. Only(q) /\ KeepsBody(q) /\ req'[q].pc = "failed"
  BY <1>1 DEF WriteNegative, TypeOK, Only, KeepsBody, Request, PCs
<1>3. /\ slot' \in [Replicas -> Requests \cup {Null}]
      /\ \A r \in Replicas : slot'[r] = IF slot[r] = q THEN Null ELSE slot[r]
      /\ lock' \in Requests \cup Replicas \cup {Null} /\ lock' = IF lock = q THEN Null ELSE lock
  BY DropLeaseFacts, UnlockFacts DEF WriteNegative, TypeOK
<1> USE DEF WriteNegative, Only, KeepsBody
<1>4. TypeOK'
  <2>1. chan' \in [Requests -> Channel]
    BY DEF TypeOK, Channel
  <2>2. lru' \in [Replicas -> SUBSET Sidecars] /\ sidecar' \in Sidecars
    BY DEF TypeOK, Negative
  <2> QED BY <1>2, <1>3, <2>1, <2>2 DEF TypeOK
<1>5. Phases'
  BY <1>1, <1>2, <1>3 DEF TypeOK, Phases, Unanswered, Unattached, Negative
<1>6. Headers'
  BY <1>1, <1>2, <1>3 DEF TypeOK, Channel, Headers, Negative
<1>7. Registry'
  BY <1>1, <1>2, <1>3 DEF TypeOK, Channel, Registry, Leading, Registered, Negative
<1>8. Following'
  <2>1. req[q].lead = Null /\ chan[q].end = "open" /\ req[q].got \in Nat
    BY <1>1 DEF Phases, Unattached, Request
  <2>2. \A p \in Requests \ {q} : chan'[p] = chan[p]
    BY DEF TypeOK
  <2>3. chan[q].headers => chan'[q].headers
    BY DEF TypeOK, Channel
  <2>4. req'[q].pc \in LeaderPCs /\ req'[q].lead = Null /\ req[q].got <= req'[q].got
    BY <1>1, <1>2, <2>1 DEF LeaderPCs
  <2> QED BY <1>2, <2>1, <2>2, <2>3, <2>4, LeaderKept
<1>9. Cached'
  BY <1>1, <1>2 DEF TypeOK, Phases, Cached, Lengths, Negative
<1> QED BY <1>4, <1>5, <1>6, <1>7, <1>8, <1>9

\* A leader that fails leaves the registry and the lock.
LEMMA OpenFailsInv ==
  ASSUME Inv, NEW q \in Requests, OpenFails(q)
  PROVE  Inv'
<1> USE DEF Inv
<1>1. req[q] \in Request /\ req[q].pc = "open"
  BY DEF OpenFails, TypeOK
<1>2. Only(q) /\ KeepsBody(q) /\ req'[q].pc = "failed"
  BY <1>1 DEF OpenFails, TypeOK, Only, KeepsBody, Request, PCs
<1>3. /\ slot' \in [Replicas -> Requests \cup {Null}]
      /\ \A r \in Replicas : slot'[r] = IF slot[r] = q THEN Null ELSE slot[r]
      /\ lock' \in Requests \cup Replicas \cup {Null} /\ lock' = IF lock = q THEN Null ELSE lock
  BY DropLeaseFacts, UnlockFacts DEF OpenFails, TypeOK
<1> USE DEF OpenFails, Only, KeepsBody
<1>4. TypeOK'
  BY <1>1, <1>2, <1>3 DEF TypeOK, Channel, WriterPCs, CountFault
<1>5. Phases'
  BY <1>1, <1>2, <1>3 DEF TypeOK, Phases, Unanswered, Unattached, CountFault
<1>6. Headers'
  BY <1>1, <1>2, <1>3 DEF TypeOK, Channel, Headers, CountFault
<1>7. Registry'
  BY <1>1, <1>2, <1>3 DEF TypeOK, Channel, Registry, Leading, Registered, CountFault
<1>8. Following'
  <2>1. req[q].lead = Null /\ chan[q].end = "open" /\ req[q].got \in Nat
    BY <1>1 DEF Phases, Unattached, Request
  <2>2. \A p \in Requests \ {q} : chan'[p] = chan[p]
    BY DEF TypeOK
  <2>3. chan[q].headers => chan'[q].headers
    BY DEF TypeOK, Channel
  <2>4. req'[q].pc \in LeaderPCs /\ req'[q].lead = Null /\ req[q].got <= req'[q].got
    BY <1>1, <1>2, <2>1 DEF LeaderPCs
  <2> QED BY <1>2, <2>1, <2>2, <2>3, <2>4, LeaderKept
<1>9. Cached'
  BY <1>1, <1>2, <1>3 DEF TypeOK, Phases, Cached, CountFault
<1> QED BY <1>4, <1>5, <1>6, <1>7, <1>8, <1>9

\* A stale source is not upstream, and says so.
LEMMA ServeStaleInv ==
  ASSUME Inv, NEW q \in Requests, ServeStale(q)
  PROVE  Inv'
<1> USE DEF Inv
<1>1. req[q] \in Request /\ req[q].pc = "open"
  BY DEF ServeStale, TypeOK
<1>2. PICK s \in Loaded(ReplicaOf[q]) :
        /\ lru' = [lru EXCEPT ![ReplicaOf[q]] = {s}]
        /\ req' = [req EXCEPT ![q].pc = "stream", ![q].from = "stale", ![q].body = object,
                              ![q].hdr = s]
  BY DEF ServeStale
<1>3. s \in Sidecars /\ (KnownLength => s \in Lengths)
  BY DEF Loaded, Cached, TypeOK
<1>4. /\ Only(q) /\ req'[q].pc = "stream" /\ req'[q].from = "stale"
      /\ req'[q].tries = req[q].tries /\ req'[q].lead = req[q].lead /\ req'[q].got = req[q].got
  BY <1>1, <1>2, <1>3 DEF ServeStale, TypeOK, Only, Request, PCs
<1>5. [chan[q] EXCEPT !.headers = TRUE] \in Channel
  BY PublishedType
<1> USE DEF ServeStale, Only, KeepsBody
<1>6. TypeOK'
  <2>1. lru' \in [Replicas -> SUBSET Sidecars]
    BY <1>2, <1>3 DEF TypeOK
  <2>2. chan' \in [Requests -> Channel]
    <3>1. chan' = [chan EXCEPT ![q] = [chan[q] EXCEPT !.headers = TRUE]]
      OBVIOUS
    <3> QED BY <1>5, <3>1 DEF TypeOK
  <2> QED BY <1>4, <2>1, <2>2 DEF TypeOK, CountFault
<1>7. Phases'
  BY <1>1, <1>2, <1>3, <1>4, <1>5 DEF TypeOK, Phases, Unanswered, Unattached
<1>8. Headers'
  BY <1>1, <1>2, <1>3, <1>4, <1>5 DEF TypeOK, Channel, Headers
<1>9. Registry'
  BY <1>1, <1>2, <1>3, <1>4, <1>5 DEF TypeOK, Channel, Registry, Leading, Registered
<1>10. Following'
  <2>1. req[q].lead = Null /\ chan[q].end = "open" /\ req[q].got \in Nat
    BY <1>1 DEF Phases, Unattached, Request
  <2>2. \A p \in Requests \ {q} : chan'[p] = chan[p]
    BY DEF TypeOK
  <2>3. ~chan[q].headers
    BY <1>1 DEF Headers
  <2>4. req'[q].pc \in LeaderPCs /\ req'[q].lead = Null /\ req[q].got <= req'[q].got
    BY <1>1, <1>4, <2>1 DEF LeaderPCs
  <2> QED BY <1>4, <2>1, <2>2, <2>3, <2>4, LeaderKept
<1>11. Cached'
  <2>1. KnownLength => \A r \in Replicas : lru'[r] \subseteq Lengths
    BY <1>2, <1>3 DEF TypeOK, Cached
  <2> QED BY <1>1, <1>4, <2>1 DEF TypeOK, Phases, Cached
<1> QED BY <1>6, <1>7, <1>8, <1>9, <1>10, <1>11

\* Nobody joins from the first poll on.
LEMMA FirstPollInv ==
  ASSUME Inv, NEW q \in Requests, FirstPoll(q)
  PROVE  Inv'
<1> USE DEF Inv
<1>1. Only(q) /\ KeepsBody(q) /\ req' = req
  BY DEF FirstPoll, TypeOK, Only, KeepsBody
<1> USE DEF FirstPoll, Only, KeepsBody
<1>2. TypeOK'
  BY <1>1, ZenonT(60) DEF TypeOK, Channel, WriterPCs
<1>3. Phases'
  BY <1>1 DEF TypeOK, Phases, Unanswered, Unattached
<1>4. Headers'
  BY <1>1 DEF TypeOK, Channel, Headers
<1>5. Registry'
  BY <1>1 DEF TypeOK, Channel, Registry, Leading, Registered
<1>6. Following'
  BY DEF TypeOK, Channel, Following, Follows
<1>7. Cached'
  BY <1>1 DEF TypeOK, Phases, Cached
<1> QED BY <1>2, <1>3, <1>4, <1>5, <1>6, <1>7

\* A leader of others has started.
LEMMA ChunkInv ==
  ASSUME Inv, NEW q \in Requests, Chunk(q)
  PROVE  Inv'
<1> USE DEF Inv
<1>1. req[q] \in Request /\ req[q].pc = "stream"
  BY DEF Chunk, TypeOK
<1>2. /\ Only(q) /\ req'[q].got = req[q].got + 1 /\ req'[q].pc = "stream"
      /\ req'[q].from = req[q].from /\ req'[q].body = req[q].body /\ req'[q].hdr = req[q].hdr
      /\ req'[q].tries = req[q].tries /\ req'[q].lead = req[q].lead
  BY <1>1 DEF Chunk, TypeOK, Only, Request, PCs
<1>3. chan[q].end = "open" /\ writer[q] \notin {"eof", "commit", "delete"}
  BY <1>1 DEF Phases
<1> USE DEF Chunk, Only, KeepsBody
<1>4. TypeOK'
  BY <1>1, <1>2, <1>3 DEF TypeOK, Channel, WriterPCs, Polled
<1>5. Phases'
  BY <1>1, <1>2, <1>3 DEF TypeOK, Phases, Unanswered, Unattached, Polled
<1>6. Headers'
  BY <1>1, <1>2, <1>3 DEF TypeOK, Channel, Headers, Polled
<1>7. Registry'
  BY <1>1, <1>2, <1>3 DEF TypeOK, Channel, Registry, Leading, Registered, Polled
<1>8. Following'
  <2>1. req[q].lead = Null /\ chan[q].end = "open" /\ req[q].got \in Nat
    BY <1>1 DEF Phases, Unattached, Request
  <2>2. \A p \in Requests \ {q} : chan'[p] = chan[p]
    BY DEF TypeOK
  <2>3. chan[q].headers => chan'[q].headers
    BY DEF TypeOK, Channel
  <2>4. req'[q].pc \in LeaderPCs /\ req'[q].lead = Null /\ req[q].got <= req'[q].got
    BY <1>1, <1>2, <2>1 DEF LeaderPCs
  <2> QED BY <1>2, <2>1, <2>2, <2>3, <2>4, LeaderKept
<1>9. Cached'
  BY <1>1, <1>2, <1>3 DEF TypeOK, Phases, Cached, Polled
<1> QED BY <1>4, <1>5, <1>6, <1>7, <1>8, <1>9

\* Done is sent when the whole body has been.
LEMMA EofInv ==
  ASSUME Inv, NEW q \in Requests, Eof(q)
  PROVE  Inv'
<1> USE DEF Inv
<1>1. req[q] \in Request /\ req[q].pc = "stream" /\ req[q].got = req[q].body /\ req[q].lead = Null
  BY DEF Eof, TypeOK, Phases, Unattached
<1>2. Only(q) /\ KeepsBody(q) /\ req'[q].pc \in {"served", "failed"}
  BY <1>1 DEF Eof, TypeOK, Only, KeepsBody, Request, PCs, Finish
<1>3. /\ slot' \in [Replicas -> Requests \cup {Null}]
      /\ \A r \in Replicas : slot'[r] = IF slot[r] = q THEN Null ELSE slot[r]
      /\ lock' \in Requests \cup Replicas \cup {Null} /\ lock' = IF lock = q THEN Null ELSE lock
  BY DropLeaseFacts, UnlockFacts DEF Eof, TypeOK
<1>4. /\ chan[q].headers /\ chan[q].end = "open"
      /\ req[q].from # "stale" => req[q].got = Size /\ (KnownLength => req[q].hdr = Size)
  BY <1>1 DEF Phases, Headers
<1> USE DEF Eof, Only, KeepsBody
<1>5. TypeOK'
  BY <1>1, <1>2, <1>3, <1>4 DEF TypeOK, Channel, WriterPCs, InputEnds
<1>6. Phases'
  BY <1>1, <1>2, <1>3, <1>4 DEF TypeOK, Phases, Unanswered, Unattached, InputEnds
<1>7. Headers'
  BY <1>1, <1>2, <1>3, <1>4 DEF TypeOK, Channel, Headers, InputEnds
<1>8. Registry'
  BY <1>1, <1>2, <1>3, <1>4 DEF TypeOK, Channel, Registry, Leading, Registered, InputEnds
<1>9. Following'
  <2>1. req[q].lead = Null /\ chan[q].end = "open" /\ req[q].got \in Nat
    BY <1>1 DEF Phases, Unattached, Request
  <2>2. \A p \in Requests \ {q} : chan'[p] = chan[p]
    BY DEF TypeOK
  <2>3. chan[q].headers => chan'[q].headers
    BY DEF TypeOK, Channel
  <2>4. req'[q].pc \in LeaderPCs /\ req'[q].lead = Null /\ req[q].got <= req'[q].got
    BY <1>1, <1>2, <2>1 DEF LeaderPCs
  <2> QED BY <1>2, <2>1, <2>2, <2>3, <2>4, LeaderKept
<1>10. Cached'
  BY <1>1, <1>2, <1>3, <1>4 DEF TypeOK, Phases, Cached, InputEnds
<1> QED BY <1>5, <1>6, <1>7, <1>8, <1>9, <1>10

\* The writer of a failed source gives up.
LEMMA SourceFailsInv ==
  ASSUME Inv, NEW q \in Requests, SourceFails(q)
  PROVE  Inv'
<1> USE DEF Inv
<1>1. req[q] \in Request /\ req[q].pc = "stream"
  BY DEF SourceFails, TypeOK
<1>2. Only(q) /\ KeepsBody(q) /\ req'[q].pc = "failed"
  BY <1>1 DEF SourceFails, TypeOK, Only, KeepsBody, Request, PCs
<1>3. /\ slot' \in [Replicas -> Requests \cup {Null}]
      /\ \A r \in Replicas : slot'[r] = IF slot[r] = q THEN Null ELSE slot[r]
      /\ lock' \in Requests \cup Replicas \cup {Null} /\ lock' = IF lock = q THEN Null ELSE lock
  BY DropLeaseFacts, UnlockFacts DEF SourceFails, TypeOK
<1> USE DEF SourceFails, Only, KeepsBody
<1>4. TypeOK'
  BY <1>1, <1>2, <1>3 DEF TypeOK, Channel, WriterPCs, CountFault
<1>5. Phases'
  BY <1>1, <1>2, <1>3 DEF TypeOK, Phases, Unanswered, Unattached, CountFault
<1>6. Headers'
  BY <1>1, <1>2, <1>3 DEF TypeOK, Channel, Headers, CountFault
<1>7. Registry'
  BY <1>1, <1>2, <1>3 DEF TypeOK, Channel, Registry, Leading, Registered, CountFault
<1>8. Following'
  <2>1. req[q].lead = Null /\ chan[q].end = "open" /\ req[q].got \in Nat
    BY <1>1 DEF Phases, Unattached, Request
  <2>2. \A p \in Requests \ {q} : chan'[p] = chan[p]
    BY DEF TypeOK
  <2>3. chan[q].headers => chan'[q].headers
    BY DEF TypeOK, Channel
  <2>4. req'[q].pc \in LeaderPCs /\ req'[q].lead = Null /\ req[q].got <= req'[q].got
    BY <1>1, <1>2, <2>1 DEF LeaderPCs
  <2> QED BY <1>2, <2>1, <2>2, <2>3, <2>4, LeaderKept
<1>9. Cached'
  BY <1>1, <1>2, <1>3 DEF TypeOK, Phases, Cached, CountFault
<1> QED BY <1>4, <1>5, <1>6, <1>7, <1>8, <1>9

\* A follower takes its source from a leader that has opened it.
LEMMA HeadersArriveInv ==
  ASSUME Inv, NEW q \in Requests, HeadersArrive(q)
  PROVE  Inv'
<1> USE DEF Inv
<1>1. req[q] \in Request /\ req[q].pc = "wait" /\ req[q].lead \in Requests /\ chan[req[q].lead].headers
  BY DEF HeadersArrive, TypeOK, Request, Phases
<1>2. /\ Only(q) /\ req'[q].pc = "follow" /\ req'[q].from = req[req[q].lead].from
      /\ req'[q].hdr = req[req[q].lead].hdr
      /\ req'[q].body = req[q].body /\ req'[q].tries = req[q].tries
      /\ req'[q].lead = req[q].lead /\ req'[q].pos = req[q].pos /\ req'[q].got = req[q].got
  BY <1>1 DEF HeadersArrive, TypeOK, Only, Request, PCs
<1> USE DEF HeadersArrive, Only, KeepsBody
<1>3. TypeOK'
  BY <1>1, <1>2 DEF TypeOK, Channel, WriterPCs
<1>4. Phases'
  BY <1>1, <1>2, SMTT(30) DEF TypeOK, Phases, Unanswered, Unattached
<1>5. Headers'
  BY <1>1, <1>2 DEF TypeOK, Channel, Headers
<1>6. Registry'
  <2>1. UNCHANGED <<chan, slot, lock>>
    OBVIOUS
  <2>2. \A p \in Requests : Leading(p)' = Leading(p) /\ req'[p].got = req[p].got
    BY <1>1, <1>2 DEF TypeOK, Leading
  <2>3. \A p \in Requests : Registered(p)' = Registered(p)
    BY <2>1 DEF Registered
  <2>4. /\ lock \in Requests => req'[lock].pc = req[lock].pc \/ req'[lock].pc = "follow"
        /\ \A p \in Requests : req'[p].pc = "acquired" => req[p].pc = "acquired"
    BY <1>2 DEF TypeOK
  <2>5. \A r \in Replicas : slot[r] # Null => Leading(slot[r])'
    BY <2>2 DEF Registry, TypeOK
  <2> QED BY <2>1, <2>2, <2>3, <2>4, <2>5 DEF Registry
<1>7. Following'
  <2>1. req[q].lead # q /\ Follows(q, req[q].lead)
    BY <1>1 DEF Following, Follows, LeaderPCs
  <2>2. Follows(q, req[q].lead)'
    BY <1>1, <1>2, <2>1 DEF TypeOK, Follows
  <2> QED BY <1>1, <1>2, <2>2, FollowingKept DEF LeaderPCs
<1>8. Cached'
  BY <1>1, <1>2 DEF TypeOK, Phases, Cached
<1> QED BY <1>3, <1>4, <1>5, <1>6, <1>7, <1>8

\* A follower that falls back has nothing yet and a try left.
LEMMA FallBackInv ==
  ASSUME Inv, NEW q \in Requests, FallBack(q)
  PROVE  Inv'
<1> USE DEF Inv
<1>1. /\ req[q] \in Request /\ req[q].pc = "wait" /\ req[q].tries < Budget /\ req[q].got = 0
      /\ lock' \in Requests \cup Replicas \cup {Null} /\ lock' = IF lock = q THEN Null ELSE lock
  BY UnlockFacts DEF FallBack, TypeOK, Phases, Unanswered
<1>2. /\ Only(q) /\ req'[q].pc = "probe" /\ req'[q].lead = Null /\ req'[q].got = 0
      /\ req'[q].body = req[q].body /\ req'[q].from = req[q].from
  BY <1>1, ReEnterFacts DEF FallBack, TypeOK, Only
<1> USE DEF FallBack, Only, KeepsBody
<1>3. TypeOK'
  BY <1>1, <1>2 DEF TypeOK, Channel, WriterPCs
<1>4. Phases'
  BY <1>1, <1>2 DEF TypeOK, Phases, Unanswered, Unattached
<1>5. Headers'
  BY <1>1, <1>2 DEF TypeOK, Channel, Headers
<1>6. Registry'
  BY <1>1, <1>2 DEF TypeOK, Channel, Registry, Leading, Registered
<1>7. Following'
  BY <1>1, <1>2, FollowingKept DEF TypeOK, Channel, Phases, Unattached, LeaderPCs
<1>8. Cached'
  BY <1>1, <1>2 DEF TypeOK, Phases, Cached
<1> QED BY <1>3, <1>4, <1>5, <1>6, <1>7, <1>8

\* A follower receives the next chunk, the end, or an error.
LEMMA ReceiveInv ==
  ASSUME Inv, NEW q \in Requests, Receive(q)
  PROVE  Inv'
<1> DEFINE l == req[q].lead
<1> USE DEF Inv
<1>1. /\ req[q] \in Request /\ req[q].pc = "follow" /\ req[q].tries < Budget
      /\ l \in Requests /\ l # q /\ Follows(q, l) /\ req[l] \in Request
  BY DEF Receive, TypeOK, Request, Phases, Following, Follows, LeaderPCs
<1>2. UNCHANGED <<chan, slot, writer, object, sidecar, lru, faults>>
  BY DEF Receive
<1>3. ~chan[q].headers /\ chan[q].end = "open" /\ writer[q] # "commit" /\ ~Leading(q)
      /\ ~Registered(q)
  BY <1>1 DEF Headers, Phases, Registry, Registered, Leading, TypeOK, Channel
<1>4. CASE /\ req[q].pos < req[l].got /\ UNCHANGED lock
           /\ req' = [req EXCEPT ![q].got = @ + 1, ![q].pos = @ + 1]
  <2>1. req[q].got + 1 \in Bodies /\ req[q].got + 1 <= req[l].got /\ req[q].pos = req[q].got
    BY <1>1, <1>4 DEF Follows, Request
  <2>2. /\ Only(q) /\ req'[q].pc = "follow" /\ req'[q].got = req[q].got + 1
        /\ req'[q].pos = req'[q].got /\ req'[q].from = req[q].from /\ req'[q].hdr = req[q].hdr
        /\ req'[q].tries = req[q].tries /\ req'[q].lead = l /\ req'[q].body = req[q].body
    BY <1>1, <1>4, <2>1 DEF TypeOK, Only, Request
  <2>3. Follows(q, req[q].lead)'
    BY <1>1, <1>2, <2>1, <2>2 DEF Follows, Only, TypeOK
  <2>4. Following'
    BY <1>1, <1>2, <2>2, <2>3, FollowingKept DEF LeaderPCs
  <2> USE DEF Only
  <2>5. TypeOK'
    BY <1>2, <1>4, <2>2 DEF TypeOK
  <2>6. Phases' /\ Headers'
    BY <1>1, <1>2, <1>3, <2>2 DEF TypeOK, Phases, Headers, Unanswered, Unattached
  <2>7. Registry'
    BY <1>1, <1>2, <1>3, <1>4, <2>2 DEF TypeOK, Registry, Leading, Registered
  <2>8. Cached'
    BY <1>1, <1>2, <1>3, <2>2 DEF TypeOK, Cached
  <2> QED BY <2>4, <2>5, <2>6, <2>7, <2>8
<1>5. CASE /\ lock' = Unlock(q)
           /\ \/ /\ req[q].pos = req[l].got /\ chan[l].end = "done"
                 /\ req' = [req EXCEPT ![q].pc = Finish(q, req[q].got)]
              \/ req' = [req EXCEPT ![q].pc = "failed"]
  <2>1. req[q].got \in Bodies
    BY <1>1 DEF Request
  <2>2. /\ Only(q) /\ KeepsBody(q) /\ req'[q].pc \in {"served", "failed"}
        /\ req'[q].pc = "served" => req[q].pos = req[l].got /\ chan[l].end = "done"
    BY <1>1, <1>5, <2>1, FinishType DEF TypeOK, Only, KeepsBody, Request, PCs
  <2>3. lock' \in Requests \cup Replicas \cup {Null} /\ lock' = IF lock = q THEN Null ELSE lock
    BY <1>5, UnlockFacts
  <2>4. Follows(q, req[q].lead)'
    BY <1>1, <1>2, <2>2 DEF Follows, Only, KeepsBody, TypeOK, Phases
  <2>5. Following'
    BY <1>1, <1>2, <2>2, <2>4, FollowingKept DEF LeaderPCs
  <2> USE DEF Only, KeepsBody
  <2>6. TypeOK'
    BY <1>2, <2>2, <2>3 DEF TypeOK
  <2>7. Phases' /\ Headers'
    BY <1>1, <1>2, <1>3, <2>2 DEF TypeOK, Phases, Headers, Unanswered, Unattached
  <2>8. Registry'
    BY <1>1, <1>2, <1>3, <2>2, <2>3 DEF TypeOK, Registry, Leading, Registered
  <2>9. Cached'
    BY <1>1, <1>2, <1>3, <2>2 DEF TypeOK, Cached
  <2> QED BY <2>5, <2>6, <2>7, <2>8, <2>9
<1> QED BY <1>4, <1>5 DEF Receive, Complete

\* The writer works on what its leader had sent when it ended, and commits Size chunks.
LEMMA WriterInv ==
  ASSUME Inv, NEW q \in Requests, WriterStep(q) \/ WriterFails(q)
  PROVE  Inv'
<1> USE DEF Inv, PutStream, CommitSidecar, DeleteRejected, WriterFails, WriterStep, CountFault
<1>1. req' = req /\ chan' = chan /\ slot' = slot /\ lock' = lock
  OBVIOUS
<1>2. writer' = [writer EXCEPT ![q] = writer'[q]] /\ writer'[q] \in {"none", "commit", "delete"}
  BY DEF TypeOK
<1>3. writer'[q] # "none" => writer[q] = "eof"
  BY DEF TypeOK
<1>4. TypeOK'
  BY <1>1, <1>2, SMTT(30) DEF TypeOK, Request, WriterPCs
<1>5. Phases'
  BY <1>1, <1>2, <1>3 DEF TypeOK, Phases
<1>6. Headers' /\ Registry' /\ Following'
  BY <1>1 DEF Headers, Registry, Leading, Registered, Following, Follows
<1>7. Cached'
  <2>1. KnownLength /\ writer'[q] = "commit" => req[q].got = Size
    BY DEF TypeOK, Commits
  <2>2. KnownLength => sidecar' \in Lengths /\ \A r \in Replicas : lru'[r] \subseteq Lengths
    BY DEF TypeOK, Cached, Lengths
  <2> QED BY <1>1, <1>2, <2>1, <2>2 DEF TypeOK, Cached
<1> QED BY <1>4, <1>5, <1>6, <1>7

\* A client that goes away takes its slot and its lease with it; the lock it has not
\* been told of stays in the pool.
LEMMA DisconnectInv ==
  ASSUME Inv, NEW q \in Requests, Disconnect(q)
  PROVE  Inv'
<1> USE DEF Inv
<1>1. /\ req[q] \in Request
      /\ req[q].pc \in Holding
  BY DEF Disconnect, TypeOK
<1>2. Only(q) /\ KeepsBody(q) /\ req'[q].pc = "dropped"
  BY <1>1 DEF Disconnect, TypeOK, Only, KeepsBody, Request, PCs
<1>3. /\ slot' \in [Replicas -> Requests \cup {Null}]
      /\ \A r \in Replicas : slot'[r] = IF slot[r] = q THEN Null ELSE slot[r]
      /\ lock' \in Requests \cup Replicas \cup {Null} /\ lock' # q /\ (lock # q => lock' = lock)
      /\ lock' \in Requests => lock' = lock
  BY DropLeaseFacts, UnlockFacts DEF Disconnect, TypeOK, Registry
<1>4. /\ \A p \in Requests \ {q} : chan'[p] = chan[p]
      /\ chan'[q].headers = chan[q].headers /\ chan'[q].started = chan[q].started
      /\ chan[q].end = "open" /\ chan'[q].end \in {"open", "closed"}
      /\ chan' \in [Requests -> Channel]
  BY <1>1 DEF Disconnect, TypeOK, Channel, Phases
<1>5. writer' = [writer EXCEPT ![q] = writer'[q]] /\ writer'[q] \in {writer[q], "eof"}
  BY DEF Disconnect, InputEnds, TypeOK
<1>6. UNCHANGED <<object, sidecar, lru, faults>>
  BY DEF Disconnect
<1>7. Following'
  <2>1. req'[q].lead # Null => Follows(q, req[q].lead)'
    <3> SUFFICES ASSUME req'[q].lead # Null PROVE Follows(q, req[q].lead)'
      OBVIOUS
    <3>1. req[q].lead \in Requests /\ Follows(q, req[q].lead) /\ req[q].lead # q
      BY <1>1, <1>2 DEF KeepsBody, Following, Request, Phases, Unattached, Follows
    <3> QED BY <1>1, <1>2, <1>4, <3>1 DEF Follows, Only, KeepsBody, TypeOK
  <2>2. req[q].got <= req'[q].got /\ req'[q].pc \in LeaderPCs
    BY <1>1, <1>2 DEF KeepsBody, Request, LeaderPCs
  <2> QED BY <1>2, <1>4, <2>1, <2>2, FollowingKept DEF KeepsBody
<1> USE DEF Only, KeepsBody
<1>8. TypeOK'
  BY <1>2, <1>3, <1>4, <1>5, <1>6 DEF TypeOK, WriterPCs
<1>9. Phases' /\ Headers'
  BY <1>1, <1>2, <1>4, <1>5 DEF TypeOK, Phases, Headers, Unanswered, Unattached
<1>10. Registry'
  BY <1>1, <1>2, <1>3, <1>4 DEF TypeOK, Registry, Leading, Registered
<1>11. Cached'
  BY <1>1, <1>2, <1>5, <1>6 DEF TypeOK, Cached
<1> QED BY <1>7, <1>8, <1>9, <1>10, <1>11

\* The holder of a lock that is lost goes on as before.
LEMMA LockLostInv == Inv /\ LockLost => Inv'
BY DEF Inv, LockLost, CountFault, TypeOK, Phases, Headers, Registry, Leading, Registered,
       Following, Follows, Cached

\* The lock of a pooled session is no request's.
LEMMA PoolClosesInv == Inv /\ PoolCloses => Inv'
BY DEF Inv, PoolCloses, TypeOK, Phases, Headers, Registry, Leading, Registered,
       Following, Follows, Cached

\* A process takes all its requests, its slot and its writers with it.
LEMMA RestartInv ==
  ASSUME Inv, NEW r \in Replicas, Restart(r)
  PROVE  Inv'
<1> DEFINE Hit(q) == ReplicaOf[q] = r /\ req[q].pc \notin Ended
<1> USE DEF Inv
<1>1. \A q \in Requests : req[q] \in Request /\ chan[q] \in Channel
  BY DEF TypeOK
<1>2. /\ \A q \in Requests : ~Hit(q) => req'[q] = req[q]
      /\ \A q \in Requests : Hit(q) => KeepsBody(q) /\ req'[q].pc = "dropped"
      /\ req' \in [Requests -> Request]
  BY <1>1 DEF Restart, KeepsBody, Request, PCs
<1>3. /\ \A q \in Requests : slot[r] # q => chan'[q] = chan[q]
      /\ \A q \in Requests : chan'[q].headers = chan[q].headers /\ chan'[q].started = chan[q].started
      /\ \A q \in Requests : chan'[q].end \in {chan[q].end, "closed"}
      /\ chan' \in [Requests -> Channel]
  BY <1>1 DEF Restart, Channel
<1>4. \A q \in Requests : slot[r] = q => Hit(q)
  BY DEF Registry, Leading
<1>5. /\ writer' \in [Requests -> WriterPCs]
      /\ \A q \in Requests : writer'[q] \in {writer[q], "none"}
  BY DEF Restart, TypeOK, WriterPCs
<1>6. slot' = [slot EXCEPT ![r] = Null] /\ lru' = [lru EXCEPT ![r] = {}]
      /\ UNCHANGED <<object, sidecar>> /\ CountFault
  BY DEF Restart
<1>7. /\ lock' \in {lock, Null} /\ (lock' \in Requests => ReplicaOf[lock'] # r)
      /\ lock \in Requests /\ ReplicaOf[lock] # r => lock' = lock
  BY DEF Restart
<1> USE DEF KeepsBody
<1>8. TypeOK'
  BY <1>2, <1>3, <1>5, <1>6, <1>7 DEF TypeOK, CountFault
<1>9. Phases'
  BY <1>2, <1>3, <1>4, <1>5 DEF Phases, Unanswered, Unattached
<1>10. Headers'
  BY <1>2, <1>3 DEF Headers
<1>11. Registry'
  BY <1>2, <1>3, <1>4, <1>6, <1>7 DEF TypeOK, Registry, Leading, Registered
<1>12. Following'
  <2> SUFFICES ASSUME NEW p \in Requests, req'[p].lead # Null
               PROVE  Follows(p, req[p].lead)'
    BY DEF Following
  <2>1. req'[p].lead = req[p].lead /\ req[p].lead \in Requests /\ Follows(p, req[p].lead)
    BY <1>1, <1>2 DEF Following, Request
  <2>2. chan[req[p].lead].end = "done" => chan'[req[p].lead].end = "done"
    BY <1>3, <1>4, <2>1 DEF Phases
  <2> QED BY <1>2, <1>3, <2>1, <2>2 DEF Follows, LeaderPCs
<1>13. Cached'
  BY <1>2, <1>5, <1>6 DEF TypeOK, Cached
<1> QED BY <1>8, <1>9, <1>10, <1>11, <1>12, <1>13

-----------------------------------------------------------------------------
(* The invariant, and what follows from it. *)

\* In every reachable state the invariant holds.
THEOREM InvHolds == Spec => []Inv
<1>1. Init => Inv
  BY DEF Init, Inv, TypeOK, Request, Channel, PCs, WriterPCs, Phases, Headers, Registry, Leading,
         Registered, Following, Cached, Lengths, Unanswered, Unattached
<1>2. Inv /\ [Next]_vars => Inv'
  <2> SUFFICES ASSUME Inv, [Next]_vars PROVE Inv'
    OBVIOUS
  <2>1. ASSUME NEW q \in Requests, RequestStep(q) PROVE Inv'
    BY <2>1, LoadSidecarInv, OpenCachedInv, TryAcquireInv, AnswerInv, ElectInv, OpenInv,
       WriteNegativeInv, FirstPollInv, ChunkInv, EofInv, HeadersArriveInv, FallBackInv, ReceiveInv DEF RequestStep
  <2>2. ASSUME NEW q \in Requests, UpstreamFault(q) PROVE Inv'
    BY <2>2, OpenNotFoundInv, OpenFailsInv, ServeStaleInv, SourceFailsInv DEF UpstreamFault
  <2>3. ASSUME NEW q \in Requests, WriterStep(q) \/ WriterFails(q) PROVE Inv'
    BY <2>3, WriterInv
  <2>4. ASSUME NEW q \in Requests, AnswerLost(q) \/ Disconnect(q) PROVE Inv'
    BY <2>4, AnswerInv, DisconnectInv
  <2>5. CASE UNCHANGED vars
    BY <2>5 DEF vars, Inv, TypeOK, Phases, Headers, Registry, Leading, Registered, Following,
                Follows, Cached
  <2> QED BY <2>1, <2>2, <2>3, <2>4, <2>5, RestartInv, LockLostInv, PoolClosesInv DEF Next
<1> QED BY <1>1, <1>2, PTL DEF Spec

\* Every variable holds a value of its type: no request re-enters past its budget, and
\* no follower reads past the end of its leader's broadcast.
THEOREM TypeCorrect == Spec => []TypeOK
<1>1. Inv => TypeOK
  BY DEF Inv
<1> QED BY <1>1, InvHolds, PTL

\* stream_registry names exactly the coordinated leaders at work, and no request that
\* has ended has the cluster lock, whoever fails, disconnects or dies: the lock is then
\* free, another request's, or left to a pooled session.
THEOREM RegistryCorrect == Spec => []KeyNotPoisoned
<1>1. Inv => KeyNotPoisoned
  BY DEF Inv, Registry, KeyNotPoisoned
<1> QED BY <1>1, InvHolds, PTL

\* A follower that ends in success has its leader's body to the last chunk.
THEOREM FollowersCorrect == Spec => []FollowerSharesBody
<1>1. Inv => FollowerSharesBody
  BY DEF Inv, TypeOK, Request, Following, Follows, FollowerSharesBody
<1> QED BY <1>1, InvHolds, PTL

\* With a Content-Length, a response that ends in success is whole, unless it was
\* served from storage while upstream was unreachable.
THEOREM ResponsesCorrect == Spec => []ServedWhole
<1>1. Inv => ServedWhole
  <2> SUFFICES ASSUME Inv, KnownLength, NEW q \in Requests,
                      req[q].pc = "served", req[q].from # "stale"
               PROVE  Whole(q)
    BY DEF ServedWhole
  <2>1. CASE req[q].lead = Null
    BY <2>1 DEF Inv, Cached
  <2>2. CASE req[q].lead # Null
    <3>1. req[q].lead \in Requests /\ Follows(q, req[q].lead)
      BY <2>2 DEF Inv, TypeOK, Request, Following
    <3>2. req[req[q].lead].body = Size /\ req[req[q].lead].hdr = Size
      BY <3>1 DEF Inv, Follows, Headers
    <3> QED BY <3>1, <3>2 DEF Follows
  <2> QED BY <2>1, <2>2
<1> QED BY <1>1, InvHolds, PTL

=============================================================================
