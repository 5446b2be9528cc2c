--------------------------- MODULE OciUploadProofs ---------------------------
(***************************************************************************)
(* Proofs about OciUpload for any number of requests, bodies, digests,     *)
(* collectors and faults.                                                  *)
(***************************************************************************)
EXTENDS OciUpload, TLAPS

USE OciUploadAssumption, NullAssumption

-----------------------------------------------------------------------------
(* The inductive invariants, in layers: the second uses the first. *)

\* The steps of each kind of request.
StepsOf(kind) ==
  CASE kind = "post"  -> {"new", "put", "mark", "open", "done"}
    [] kind = "mono"  -> {"new", "put", "mark", "verify", "copy", "commit", "clear", "finish",
                          "tidy", "done"}
    [] kind = "patch" -> {"new", "put", "mark", "append", "recover", "done"}
    [] kind = "put"   -> {"new", "put", "mark", "empty", "unlist", "collect", "concat", "seal",
                          "verify", "copy", "drop", "commit", "recover", "clear", "finish",
                          "tidy", "done"}
    [] OTHER          -> {"new", "list", "delete", "done"}

\* A request is at a step of its kind; beyond the first one it has its session, and
\* at the copy its source.
Places ==
  \A q \in Requests :
    /\ req[q].pc \in StepsOf(KindOf[q])
    /\ InFlight(q) /\ KindOf[q] # "mono" => req[q].session \in Posts
    /\ KindOf[q] = "mono" => req[q].session = Null
    /\ req[q].pc = "new" => req[q].session = Null
    /\ req[q].pc = "copy" => req[q].src \in Keys
    /\ req[q].pc = "copy" /\ KindOf[q] = "mono" => req[q].src = BodyKey(q)

\* A collector that has chosen a session or a key has one.
Collectors ==
  \A r \in Reapers :
    /\ reaper[r].pc = "sweep" => reaper[r].session \in Posts
    /\ reaper[r].pc \in {"reap", "row"} => reaper[r].key \in Keys

Types == TypeOK /\ Places /\ Collectors

-----------------------------------------------------------------------------

\* A journal row of an upload key was written by the request of that key, which is
\* over when the row has aged.
Rows ==
  \A k \in UploadKeys :
    journal[k] # Null => /\ journal[k].by = k[2]
                         /\ req[k[2]].pc # "new"
                         /\ journal[k].aged => req[k[2]].pc = "done"

\* A key is journaled before it is written.
Journaled ==
  \A q \in Requests :
    /\ req[q].pc = "put" => journal[BodyKey(q)] # Null
    /\ req[q].pc = "concat" => journal[CompleteKey(q)] # Null

Has(ks, k) == \E i \in DOMAIN ks : ks[i] = k

\* What a request wrote for itself alone.
Scratch(q) == {BodyKey(q), CompleteKey(q)}

\* The object is deleted, or its delete was tried in vain.
Gone(k) == object[k] = Null \/ k \in lost

\* A PUT still knows the objects it wrote: the concatenation until it drops it, a body
\* without bytes until it drops that, and any other body, as one of its parts, to the end.
Knows(q) ==
  /\ \/ Gone(CompleteKey(q))
     \/ /\ KindOf[q] = "put"
        /\ \/ req[q].pc \in {"seal", "verify", "drop", "done"}
           \/ req[q].pc = "copy" /\ req[q].src = CompleteKey(q)
  /\ req[q].pc \in {"empty", "unlist"} => BodyOf[q] = <<>>
  /\ KindOf[q] = "put" /\ BodyOf[q] = <<>> => Gone(BodyKey(q)) \/ req[q].pc \in {"empty", "done"}
  /\ /\ KindOf[q] = "put" /\ BodyOf[q] # <<>>
     /\ req[q].pc \in {"concat", "seal", "verify", "copy", "drop", "commit", "recover", "clear",
                       "finish"}
     => Has(req[q].parts, BodyKey(q))
  /\ req[q].pc = "tidy" => Gone(BodyKey(q))

Known == \A q \in Requests : Knows(q)

\* The key a collector works on is nobody's any more.
Reaping ==
  \A r \in Reapers :
    reaper[r].key \in UploadKeys =>
      /\ reaper[r].pc \in {"reap", "row"} => req[reaper[r].key[2]].pc = "done"
      /\ reaper[r].pc = "row" => object[reaper[r].key] = Null

Accounting == Rows /\ Journaled /\ Known /\ Reaping /\ UploadObjectsAccounted

-----------------------------------------------------------------------------
(* What the helpers of the model return. *)

Results == {"none", "accepted", "created", "recovered", "cancelled", "error"}

\* Only the record of q changes, to a well-typed one.
Only(q) == req' = [req EXCEPT ![q] = req'[q]] /\ req'[q] \in Request

\* What q knows of its session and its parts is as before.
Stays(q) ==
  /\ req'[q].session = req[q].session /\ req'[q].parts = req[q].parts
  /\ req'[q].bytes = req[q].bytes /\ req'[q].computed = req[q].computed
  /\ req'[q].src = req[q].src

\* The keys of the three kinds are keys, and different ones.
LEMMA KeyFacts ==
  /\ UploadKeys \subseteq Keys
  /\ \A q \in Requests : BodyKey(q) \in UploadKeys /\ CompleteKey(q) \in UploadKeys
  /\ \A q \in Requests : BodyKey(q)[2] = q /\ CompleteKey(q)[2] = q
  /\ \A p, q \in Requests : BodyKey(p) # CompleteKey(q)
  /\ \A p, q \in Requests : BodyKey(p) = BodyKey(q) => p = q
  /\ \A p, q \in Requests : CompleteKey(p) = CompleteKey(q) => p = q
  /\ \A d \in Digests : BlobKey(d) \in Keys /\ BlobKey(d) \notin UploadKeys
  /\ \A d, e \in Digests : BlobKey(d) = BlobKey(e) => d = e
  /\ \A k \in UploadKeys : k[2] \in Requests /\ (k = BodyKey(k[2]) \/ k = CompleteKey(k[2]))
BY DEF Keys, UploadKeys, BodyKey, CompleteKey, BlobKey

\* Bodies, digests and concatenations are content, and no content is Null.
LEMMA ContentFacts ==
  /\ \A q \in Requests : BodyOf[q] \in Content /\ DigestOf[q] \in Content
  /\ \A ks : Concatenated(ks) \in Content
  /\ Null \notin Content
<1>1. \A q \in Requests : BodyOf[q] \in Content /\ DigestOf[q] \in Content
  BY DEF Content
<1>2. ASSUME NEW ks PROVE Concatenated(ks) \in Content
  BY DEF Concatenated, Content
<1>3. Null \notin Content
  BY DEF Content
<1> QED BY <1>1, <1>2, <1>3

\* Without deletes the objects it names.
LEMMA WithoutFacts ==
  ASSUME TypeOK, NEW ks
  PROVE  /\ Without(ks) \in [Keys -> Content \cup {Null}]
         /\ \A k \in Keys : k \in ks => Without(ks)[k] = Null
         /\ \A k \in Keys : k \notin ks => Without(ks)[k] = object[k]
BY DEF Without, TypeOK

\* A best-effort delete deletes its object or leaves it to lost.
LEMMA DroppedFacts ==
  ASSUME TypeOK, NEW k \in Keys, DroppedBestEffort(k)
  PROVE  /\ object' \in [Keys -> Content \cup {Null}] /\ faults' \in 0..MaxFaults
         /\ lost' \subseteq Keys /\ lost \subseteq lost'
         /\ \A j \in Keys : object'[j] \in {object[j], Null}
         /\ \A j \in Keys \ {k} : object'[j] = object[j]
         /\ Gone(k)'
<1>1. CASE object' = Without({k}) /\ UNCHANGED <<lost, faults>>
  BY <1>1, WithoutFacts DEF TypeOK, Gone
<1>2. CASE Fault /\ lost' = lost \cup {k} /\ UNCHANGED object
  BY <1>2 DEF TypeOK, Gone, Fault
<1> QED BY <1>1, <1>2 DEF DroppedBestEffort

\* Registering a key keeps the journal well typed.
LEMMA RegisterFacts ==
  ASSUME TypeOK, NEW k \in Keys, NEW q \in Requests, NEW s \in Posts \cup {Null}
  PROVE  register_oci_upload_cleanup_key(k, q, s) \in [Keys -> JournalRow \cup {Null}]
<1> DEFINE row == [written |-> FALSE, owner |-> s, by |-> q, aged |-> FALSE]
<1>1. row \in JournalRow
  BY DEF JournalRow
<1> HIDE DEF row
<1>2. register_oci_upload_cleanup_key(k, q, s) =
        IF journal[k] = Null THEN [journal EXCEPT ![k] = row] ELSE journal
  BY DEF register_oci_upload_cleanup_key, row
<1> QED BY <1>1, <1>2 DEF TypeOK

\* Marking a row changes neither its author nor its age.
LEMMA MarkedFacts ==
  ASSUME TypeOK, NEW k \in Keys
  PROVE  /\ Marked(k) \in [Keys -> JournalRow \cup {Null}]
         /\ \A j \in Keys : (Marked(k)[j] = Null) <=> (journal[j] = Null)
         /\ \A j \in Keys : journal[j] # Null =>
              Marked(k)[j].by = journal[j].by /\ Marked(k)[j].aged = journal[j].aged
<1>1. CASE journal[k] = Null
  BY <1>1 DEF Marked, TypeOK
<1>2. CASE journal[k] # Null
  <2> DEFINE row == [journal[k] EXCEPT !.written = TRUE]
  <2>1. journal[k] \in JournalRow
    BY <1>2 DEF TypeOK
  <2>2. row \in JournalRow /\ row # Null /\ row.by = journal[k].by /\ row.aged = journal[k].aged
    BY <2>1 DEF JournalRow
  <2> HIDE DEF row
  <2>3. Marked(k) = [journal EXCEPT ![k] = row]
    BY <1>2 DEF Marked, row
  <2>4. Marked(k)[k] = row /\ \A j \in Keys \ {k} : Marked(k)[j] = journal[j]
    BY <2>3 DEF TypeOK
  <2>5. Marked(k) \in [Keys -> JournalRow \cup {Null}]
    BY <2>2, <2>3 DEF TypeOK
  <2> QED BY <1>2, <2>2, <2>4, <2>5
<1> QED BY <1>1, <1>2

\* A session is reopened by its owner alone, and keeps its parts and their digest.
LEMMA ReopenedFacts ==
  ASSUME TypeOK, NEW q \in Requests
  PROVE  /\ Reopened(q) \in [Posts -> Session \cup {Null}]
         /\ \A s \in Posts : (Reopened(q)[s] = Null) <=> (session[s] = Null)
         /\ \A s \in Posts : Exists(s) => Reopened(q)[s].computed = session[s].computed
         /\ \A s \in Posts : Reopened(q)[s] # session[s] =>
              /\ Owns(q) /\ s = req[q].session
              /\ Reopened(q)[s].state = "open" /\ Reopened(q)[s].token = Null
              /\ Reopened(q)[s].age = "fresh"
<1>1. CASE ~Owns(q)
  BY <1>1 DEF Reopened, TypeOK
<1>2. CASE Owns(q)
  <2> DEFINE s == req[q].session
             row == [session[s] EXCEPT !.state = "open", !.token = Null, !.age = "fresh"]
  <2>1. s \in Posts /\ session[s] \in Session
    BY <1>2 DEF Owns, Exists, TypeOK, Request
  <2>2. /\ row \in Session /\ row # Null /\ row.computed = session[s].computed
        /\ row.state = "open" /\ row.token = Null /\ row.age = "fresh"
    BY <2>1 DEF Session
  <2> HIDE DEF row
  <2>3. Reopened(q) = [session EXCEPT ![s] = row]
    BY <1>2 DEF Reopened, row
  <2> QED BY <1>2, <2>1, <2>2, <2>3 DEF TypeOK, Exists
<1> QED BY <1>1, <1>2

\* A claim changes the state, the token and the age of one session.
LEMMA ClaimedFacts ==
  ASSUME TypeOK, NEW q \in Requests, NEW s \in Posts, Exists(s)
  PROVE  /\ Claimed(s, q) \in [Posts -> Session \cup {Null}]
         /\ \A t \in Posts \ {s} : Claimed(s, q)[t] = session[t]
         /\ Claimed(s, q)[s] # Null /\ Claimed(s, q)[s].state = "committing"
         /\ Claimed(s, q)[s].token = q /\ Claimed(s, q)[s].age = "fresh"
         /\ Claimed(s, q)[s].computed = session[s].computed
<1> DEFINE row == [session[s] EXCEPT !.state = "committing", !.token = q, !.age = "fresh"]
<1>1. session[s] \in Session
  BY DEF Exists, TypeOK
<1>2. /\ row \in Session /\ row # Null /\ row.computed = session[s].computed
      /\ row.state = "committing" /\ row.token = q /\ row.age = "fresh"
  BY <1>1 DEF Session
<1> HIDE DEF row
<1>3. Claimed(s, q) = [session EXCEPT ![s] = row]
  BY DEF Claimed, row
<1> QED BY <1>2, <1>3 DEF TypeOK

\* A request ends with a result, or goes on to its next step.
LEMMA EndedFacts ==
  ASSUME TypeOK, NEW q \in Requests, NEW x \in Results, req' = Ended(q, x)
  PROVE  Only(q) /\ Stays(q) /\ req'[q].pc = "done" /\ req'[q].result = x
<1>1. req[q] \in Request
  BY DEF TypeOK
<1> QED BY <1>1 DEF Ended, Only, Stays, TypeOK, Request, Steps, Results

\* As above.
LEMMA AtFacts ==
  ASSUME TypeOK, NEW q \in Requests, NEW pc \in Steps, req' = At(q, pc)
  PROVE  Only(q) /\ Stays(q) /\ req'[q].pc = pc /\ req'[q].result = req[q].result
<1>1. req[q] \in Request
  BY DEF TypeOK
<1> QED BY <1>1 DEF At, Only, Stays, TypeOK, Request

\* The parts a PUT reads are keys.
LEMMA FetchedType ==
  ASSUME TypeOK, NEW q \in Requests, req[q].session \in Posts
  PROVE  FetchedParts(q) \in Seq(UploadKeys)
<1>1. BodyKey(req[q].session) \in UploadKeys
  BY KeyFacts DEF Posts
<1> QED BY <1>1 DEF FetchedParts, TypeOK

\* Where a request is tells of what kind it is, and that it has its session.
LEMMA PlaceFacts ==
  ASSUME Types, NEW q \in Requests
  PROVE  /\ req[q] \in Request
         /\ req[q].pc = "open" => KindOf[q] = "post"
         /\ req[q].pc = "append" => KindOf[q] = "patch"
         /\ req[q].pc \in {"empty", "unlist", "collect", "concat", "seal", "drop"} => KindOf[q] = "put"
         /\ req[q].pc = "recover" => KindOf[q] \in {"patch", "put"}
         /\ req[q].pc \in {"verify", "copy", "commit", "clear", "finish", "tidy"} =>
              KindOf[q] \in {"mono", "put"}
         /\ req[q].pc \in {"list", "delete"} => KindOf[q] = "cancel"
         /\ req[q].pc \in {"put", "mark"} => KindOf[q] \in {"post", "mono", "patch", "put"}
         /\ req[q].pc \notin {"new", "done"} /\ KindOf[q] # "mono" => req[q].session \in Posts
         /\ KindOf[q] = "mono" => req[q].session = Null
         /\ req[q].pc = "copy" => req[q].src \in Keys
         /\ req[q].pc = "copy" /\ KindOf[q] = "mono" => req[q].src = BodyKey(q)
<1>1. KindOf[q] \in {"post", "mono", "patch", "put", "cancel"} /\ req[q].pc \in StepsOf(KindOf[q])
  BY DEF Types, Places
<1>2. req[q] \in Request
  BY DEF Types, TypeOK
<1> QED BY <1>1, <1>2 DEF Types, Places, StepsOf, InFlight

\* Places is kept by a step of q to a place of its kind, with its session and source.
LEMMA PlacesKept ==
  ASSUME Types, NEW q \in Requests, Only(q),
         req'[q].pc # "new",
         \/ req'[q].pc = "done"
         \/ req'[q].pc = "open" /\ KindOf[q] = "post"
         \/ req'[q].pc = "append" /\ KindOf[q] = "patch"
         \/ /\ req'[q].pc \in {"empty", "unlist", "collect", "concat", "seal", "drop"}
            /\ KindOf[q] = "put"
         \/ req'[q].pc = "recover" /\ KindOf[q] \in {"patch", "put"}
         \/ /\ req'[q].pc \in {"verify", "copy", "commit", "clear", "finish", "tidy"}
            /\ KindOf[q] \in {"mono", "put"}
         \/ req'[q].pc \in {"list", "delete"} /\ KindOf[q] = "cancel"
         \/ req'[q].pc \in {"put", "mark"} /\ KindOf[q] \in {"post", "mono", "patch", "put"},
         req'[q].pc # "done" /\ KindOf[q] # "mono" => req'[q].session \in Posts,
         KindOf[q] = "mono" => req'[q].session = Null,
         req'[q].pc = "copy" =>
           req'[q].src \in Keys /\ (KindOf[q] = "mono" => req'[q].src = BodyKey(q))
  PROVE  Places'
<1>1. KindOf[q] \in {"post", "mono", "patch", "put", "cancel"}
  OBVIOUS
<1>2. req'[q].pc \in StepsOf(KindOf[q])
  BY <1>1 DEF StepsOf
<1> QED BY <1>2 DEF Types, TypeOK, Places, InFlight, Only

\* A step that ends its request keeps Places.
LEMMA PlacesKeptAtEnd ==
  ASSUME Types, NEW q \in Requests, Only(q), Stays(q), req'[q].pc = "done"
  PROVE  Places'
BY PlacesKept, PlaceFacts DEF Stays

\* The requests stay well typed.
LEMMA ReqType ==
  ASSUME Types, NEW q \in Requests, Only(q)
  PROVE  req' \in [Requests -> Request]
BY DEF Types, TypeOK, Only

-----------------------------------------------------------------------------
(* Every step keeps the types; what it does to its request. *)

\* A POST journals its key.
LEMMA StartUploadStep ==
  ASSUME Types, NEW q \in Requests, StartUpload(q)
  PROVE  /\ Types' /\ Only(q)
         /\ req[q].pc = "new" /\ req'[q].pc = "put"
         /\ KindOf[q] = "post" => req'[q].session = q /\ q \in Posts
         /\ KindOf[q] = "mono" => req'[q].session = Null
         /\ req'[q].result = req[q].result
         /\ KindOf[q] \in {"post", "mono"}
<1> USE DEF Types
<1>1. req[q] \in Request /\ KindOf[q] \in {"post", "mono"} /\ req[q].pc = "new"
  BY PlaceFacts DEF StartUpload
<1>2. /\ Only(q)
      /\ req[q].pc = "new" /\ req'[q].pc = "put"
      /\ KindOf[q] = "post" => req'[q].session = q /\ q \in Posts
      /\ KindOf[q] = "mono" => req'[q].session = Null
      /\ req'[q].result = req[q].result
      /\ KindOf[q] \in {"post", "mono"}
  BY <1>1 DEF StartUpload, TypeOK, Only, Request, Steps, Posts
<1>3. UNCHANGED <<session, parts, blobs, object, reaper, stalled, lost, faults>>
  BY DEF StartUpload, tables, gcVars
<1>4. Places' /\ Collectors'
  <2>1. Places'
    BY <1>1, <1>2, PlacesKept, PlaceFacts DEF Stays
  <2> QED BY <1>3, <2>1 DEF Collectors
<1>5. journal' \in [Keys -> JournalRow \cup {Null}]
  BY RegisterFacts, KeyFacts DEF StartUpload, Posts
<1>6. req' \in [Requests -> Request]
  BY <1>2, ReqType
<1>7. TypeOK'
  BY <1>3, <1>5, <1>6 DEF TypeOK
<1> QED BY <1>2, <1>4, <1>7

\* A PATCH takes its snapshot of an open session.
LEMMA BeginPatchStep ==
  ASSUME Types, NEW q \in Requests, BeginPatch(q)
  PROVE  /\ Types' /\ Only(q)
         /\ req[q].pc = "new" /\ req'[q].pc = "put" /\ KindOf[q] = "patch"
         /\ req'[q].session \in Posts /\ Exists(req'[q].session)
         /\ req'[q].result = req[q].result
<1> USE DEF Types
<1>1. req[q] \in Request /\ KindOf[q] = "patch" /\ req[q].pc = "new"
  BY PlaceFacts DEF BeginPatch
<1>2. PICK s \in Posts :
        /\ Exists(s) /\ session[s].bytes \in Nat /\ parts[s] \in Seq(Keys)
        /\ req' = [req EXCEPT ![q].pc = "put", ![q].session = s,
                              ![q].parts = parts[s], ![q].bytes = session[s].bytes]
        /\ journal' = register_oci_upload_cleanup_key(BodyKey(q), q, s)
  <2>1. PICK s \in Posts :
          /\ Exists(s)
          /\ req' = [req EXCEPT ![q].pc = "put", ![q].session = s,
                                ![q].parts = parts[s], ![q].bytes = session[s].bytes]
          /\ journal' = register_oci_upload_cleanup_key(BodyKey(q), q, s)
    BY DEF BeginPatch
  <2>2. session[s].bytes \in Nat /\ parts[s] \in Seq(Keys)
    BY <2>1, KeyFacts DEF TypeOK, Session, Exists
  <2> QED BY <2>1, <2>2
<1>3. /\ Only(q)
      /\ req[q].pc = "new" /\ req'[q].pc = "put" /\ KindOf[q] = "patch"
      /\ req'[q].session \in Posts /\ Exists(req'[q].session)
      /\ req'[q].result = req[q].result
  BY <1>1, <1>2, KeyFacts, ZenonT(60) DEF TypeOK, Only, Request, Steps
<1>4. UNCHANGED <<session, parts, blobs, object, reaper, stalled, lost, faults>>
  BY DEF BeginPatch, tables, gcVars
<1>5. Places' /\ Collectors'
  <2>1. Places'
    BY <1>1, <1>3, PlacesKept, PlaceFacts DEF Stays
  <2> QED BY <1>4, <2>1 DEF Collectors
<1>6. journal' \in [Keys -> JournalRow \cup {Null}]
  BY <1>2, RegisterFacts, KeyFacts
<1>7. req' \in [Requests -> Request]
  BY <1>3, ReqType
<1>8. TypeOK'
  BY <1>4, <1>6, <1>7 DEF TypeOK
<1> QED BY <1>3, <1>5, <1>8

\* The body is written to its own key.
LEMMA PutBodyStep ==
  ASSUME Types, NEW q \in Requests, PutBody(q)
  PROVE  /\ Types' /\ Only(q)
         /\ req[q].pc = "put"
         /\ \/ req'[q].pc = "mark" /\ (KindOf[q] = "put" => BodyOf[q] # <<>>)
            \/ req'[q].pc = "empty" /\ KindOf[q] = "put" /\ BodyOf[q] = <<>>
         /\ req'[q].session = req[q].session /\ req'[q].parts = req[q].parts
         /\ req'[q].result = req[q].result
         /\ req'[q].computed = (IF KindOf[q] = "mono" THEN BodyOf[q] ELSE req[q].computed)
<1> USE DEF Types
<1>1. req[q] \in Request /\ req[q].pc = "put"
  BY PlaceFacts DEF PutBody
<1>2. /\ Only(q)
      /\ req[q].pc = "put"
      /\ \/ req'[q].pc = "mark" /\ (KindOf[q] = "put" => BodyOf[q] # <<>>)
         \/ req'[q].pc = "empty" /\ KindOf[q] = "put" /\ BodyOf[q] = <<>>
      /\ req'[q].session = req[q].session /\ req'[q].parts = req[q].parts
      /\ req'[q].result = req[q].result
      /\ req'[q].computed = (IF KindOf[q] = "mono" THEN BodyOf[q] ELSE req[q].computed)
  <2>1. PICK pc \in {"mark", "empty"} :
          /\ req' = [req EXCEPT ![q].pc = pc,
                                ![q].computed = IF KindOf[q] = "mono" THEN BodyOf[q] ELSE @]
          /\ \/ pc = "mark" /\ (KindOf[q] = "put" => BodyOf[q] # <<>>)
             \/ pc = "empty" /\ KindOf[q] = "put" /\ BodyOf[q] = <<>>
    BY DEF PutBody, OwnPart
  <2> QED BY <1>1, <2>1, ContentFacts DEF TypeOK, Only, Request, Steps
<1>3. UNCHANGED <<session, parts, blobs, journal, reaper, stalled, lost, faults>>
  BY DEF PutBody, tables, gcVars
<1>4. Places' /\ Collectors'
  <2>1. Places'
    BY <1>1, <1>2, PlacesKept, PlaceFacts DEF Stays
  <2> QED BY <1>3, <2>1 DEF Collectors
<1>5. object' \in [Keys -> Content \cup {Null}]
  BY ContentFacts, KeyFacts DEF PutBody, TypeOK
<1>6. req' \in [Requests -> Request]
  BY <1>2, ReqType
<1>7. TypeOK'
  BY <1>3, <1>5, <1>6 DEF TypeOK
<1> QED BY <1>2, <1>4, <1>7

\* The next step depends on the kind.
LEMMA MarkBodyStep ==
  ASSUME Types, NEW q \in Requests, MarkBody(q)
  PROVE  /\ Types' /\ Only(q)
         /\ Stays(q) /\ req[q].pc = "mark" /\ req'[q].result = req[q].result
         /\ \/ KindOf[q] = "post" /\ req'[q].pc = "open"
            \/ KindOf[q] = "mono" /\ req'[q].pc = "verify"
            \/ KindOf[q] = "patch" /\ req'[q].pc = "append"
            \/ KindOf[q] = "put" /\ req'[q].pc = "collect"
<1> USE DEF Types
<1>1. req[q] \in Request /\ req[q].pc = "mark"
  BY PlaceFacts DEF MarkBody
<1>2. KindOf[q] \in {"post", "mono", "patch", "put"}
  BY <1>1, PlaceFacts
<1>3. PICK pc \in Steps : /\ req' = At(q, pc)
                      /\ \/ KindOf[q] = "post" /\ pc = "open"
                         \/ KindOf[q] = "mono" /\ pc = "verify"
                         \/ KindOf[q] = "patch" /\ pc = "append"
                         \/ KindOf[q] = "put" /\ pc = "collect"
  BY <1>2 DEF MarkBody, Steps
<1>4. /\ Only(q)
      /\ Stays(q) /\ req[q].pc = "mark" /\ req'[q].result = req[q].result
      /\ \/ KindOf[q] = "post" /\ req'[q].pc = "open"
         \/ KindOf[q] = "mono" /\ req'[q].pc = "verify"
         \/ KindOf[q] = "patch" /\ req'[q].pc = "append"
         \/ KindOf[q] = "put" /\ req'[q].pc = "collect"
  BY <1>1, <1>2, <1>3, AtFacts DEF Steps
<1>5. UNCHANGED <<session, parts, blobs, object, reaper, stalled, lost, faults>>
  BY DEF MarkBody, tables, gcVars
<1>6. Places' /\ Collectors'
  <2>1. Places'
    BY <1>1, <1>4, PlacesKept, PlaceFacts DEF Stays
  <2> QED BY <1>5, <2>1 DEF Collectors
<1>7. journal' \in [Keys -> JournalRow \cup {Null}]
  BY MarkedFacts, KeyFacts DEF MarkBody
<1>8. req' \in [Requests -> Request]
  BY <1>4, ReqType
<1>9. TypeOK'
  BY <1>5, <1>7, <1>8 DEF TypeOK
<1> QED BY <1>4, <1>6, <1>9

\* A failed POST or PATCH has ended.
LEMMA WriteFailsStep ==
  ASSUME Types, NEW q \in Requests, WriteFails(q)
  PROVE  /\ Types' /\ Only(q)
         /\ Stays(q) /\ req'[q].pc = "done"
         /\ req[q].pc \notin {"new", "done"} /\ req'[q].result = "error" /\ KindOf[q] # "put"
<1> USE DEF Types
<1>1. req[q] \in Request /\ req[q].pc # "new"
  BY PlaceFacts DEF WriteFails
<1>2. /\ Only(q)
      /\ Stays(q) /\ req'[q].pc = "done"
      /\ req[q].pc \notin {"new", "done"} /\ req'[q].result = "error" /\ KindOf[q] # "put"
  BY EndedFacts DEF WriteFails, Results
<1>3. UNCHANGED <<session, parts, blobs, journal, reaper, stalled, lost>>
  BY DEF WriteFails, tables, gcVars
<1>4. Places' /\ Collectors'
  <2>1. Places'
    BY <1>2, PlacesKeptAtEnd
  <2> QED BY <1>3, <2>1 DEF Collectors
<1>5. object' \in [Keys -> Content \cup {Null}]
  BY WithoutFacts DEF WriteFails
<1>6. faults' \in 0..MaxFaults
  BY DEF WriteFails, Fault, TypeOK
<1>7. req' \in [Requests -> Request]
  BY <1>2, ReqType
<1>8. TypeOK'
  BY <1>3, <1>5, <1>6, <1>7 DEF TypeOK
<1> QED BY <1>2, <1>4, <1>8

\* The session of a POST begins when the POST is over.
LEMMA OpenSessionStep ==
  ASSUME Types, NEW q \in Requests, OpenSession(q)
  PROVE  /\ Types' /\ Only(q)
         /\ Stays(q) /\ req'[q].pc = "done"
         /\ req[q].pc = "open" /\ KindOf[q] = "post" /\ req'[q].result = "accepted"
         /\ BodyOf[q] # <<>> => parts'[q] = <<BodyKey(q)>>
         /\ session'[q] # Null /\ session'[q].token = Null /\ session'[q].state = "open"
         /\ session'[q].age = "fresh"
         /\ session'[q].computed # Null => BodyOf[q] # <<>> /\ session'[q].computed = BodyOf[q]
         /\ \A s \in Posts \ {q} : session'[s] = session[s] /\ parts'[s] = parts[s]
<1> USE DEF Types
<1>1. req[q] \in Request /\ req[q].pc = "open" /\ KindOf[q] = "post"
  BY PlaceFacts DEF OpenSession
<1>2. q \in Posts /\ Len(BodyOf[q]) \in Nat
  BY <1>1 DEF Posts
<1>3. PICK c \in Content \cup {Null} :
        /\ c = IF BodyOf[q] = <<>> THEN Null ELSE BodyOf[q]
        /\ c # Null => BodyOf[q] # <<>> /\ c = BodyOf[q]
  BY ContentFacts
<1>4. PICK row \in Session :
        /\ session' = [session EXCEPT ![q] = row] /\ row.token = Null /\ row.state = "open"
        /\ row.age = "fresh" /\ row.computed = c
  <2> DEFINE row == [state |-> "open", token |-> Null, bytes |-> Len(BodyOf[q]), computed |-> c,
                      age |-> "fresh"]
  <2>1. row \in Session
    BY <1>2 DEF Session
  <2>2. session' = [session EXCEPT ![q] = row]
    BY <1>3 DEF OpenSession
  <2> QED BY <2>1, <2>2
<1>5. /\ Only(q)
      /\ Stays(q) /\ req'[q].pc = "done"
      /\ req[q].pc = "open" /\ KindOf[q] = "post" /\ req'[q].result = "accepted"
      /\ BodyOf[q] # <<>> => parts'[q] = <<BodyKey(q)>>
      /\ session'[q] # Null /\ session'[q].token = Null /\ session'[q].state = "open"
      /\ session'[q].age = "fresh"
      /\ session'[q].computed # Null => BodyOf[q] # <<>> /\ session'[q].computed = BodyOf[q]
      /\ \A s \in Posts \ {q} : session'[s] = session[s] /\ parts'[s] = parts[s]
  <2>1. Only(q) /\ Stays(q) /\ req'[q].pc = "done" /\ req'[q].result = "accepted"
    BY EndedFacts DEF OpenSession, Results
  <2> QED BY <1>1, <1>2, <1>3, <1>4, <2>1 DEF OpenSession, TypeOK
<1>6. UNCHANGED <<blobs, object, journal, reaper, stalled, lost, faults>>
  BY DEF OpenSession, tables, gcVars
<1>7. Places' /\ Collectors'
  <2>1. Places'
    BY <1>5, PlacesKeptAtEnd
  <2> QED BY <1>6, <2>1 DEF Collectors
<1>8. session' \in [Posts -> Session \cup {Null}]
  BY <1>2, <1>4 DEF TypeOK
<1>9. parts' \in [Posts -> Seq(UploadKeys)]
  BY <1>2, KeyFacts DEF OpenSession, TypeOK, Posts
<1>10. req' \in [Requests -> Request]
  BY <1>5, ReqType
<1>11. TypeOK'
  BY <1>6, <1>8, <1>9, <1>10 DEF TypeOK
<1> QED BY <1>5, <1>7, <1>11

\* What the transaction of a PATCH does to its session.
AppendEffect(q) ==
  LET s == req[q].session IN
  /\ s \in Posts /\ Exists(s) /\ session[s].state = "open"
  /\ session'[s] # Null /\ session'[s].state = "open" /\ session'[s].age = "fresh"
  /\ session'[s].token = session[s].token
  /\ session'[s].computed # Null => parts[s] = <<>> /\ session'[s].computed = BodyOf[q]
  /\ parts'[s] = Append(parts[s], BodyKey(q))
  /\ \A t \in Posts \ {s} : session'[t] = session[t] /\ parts'[t] = parts[t]

\* The two writes of a PATCH that may append.
LEMMA AppendedFacts ==
  ASSUME Types, NEW q \in Requests, req[q].pc = "append", CanAppend(q), Appended(q)
  PROVE  /\ AppendEffect(q)
         /\ session' \in [Posts -> Session \cup {Null}] /\ parts' \in [Posts -> Seq(UploadKeys)]
<1> DEFINE s == req[q].session
<1>1. /\ req[q] \in Request /\ s \in Posts /\ session[s] \in Session /\ Exists(s)
      /\ parts[s] \in Seq(UploadKeys) /\ BodyKey(q) \in UploadKeys
  <2>1. req[q] \in Request /\ s \in Posts /\ Exists(s) /\ BodyKey(q) \in UploadKeys
    BY PlaceFacts, KeyFacts DEF CanAppend
  <2> QED BY <2>1 DEF Exists, Types, TypeOK
<1>2. PICK c \in Content \cup {Null} :
        /\ c = IF req[q].bytes = 0 /\ req[q].parts = <<>> THEN BodyOf[q] ELSE Null
        /\ c # Null => req[q].parts = <<>> /\ c = BodyOf[q]
  BY ContentFacts
<1>3. req[q].bytes + Len(BodyOf[q]) \in Nat
  BY <1>1 DEF Request
<1>4. PICK row \in Session :
        /\ session' = [session EXCEPT ![s] = row] /\ row.age = "fresh" /\ row.computed = c
        /\ row.state = session[s].state /\ row.token = session[s].token
  <2> DEFINE row == [session[s] EXCEPT !.bytes = req[q].bytes + Len(BodyOf[q]), !.age = "fresh",
                                       !.computed = c]
  <2>1. row \in Session
    BY <1>1, <1>3 DEF Session
  <2>2. row.age = "fresh" /\ row.computed = c
        /\ row.state = session[s].state /\ row.token = session[s].token
    BY <1>1 DEF Session
  <2>3. session' = [session EXCEPT ![s] = row]
    BY <1>2 DEF Appended
  <2> QED BY <2>1, <2>2, <2>3
<1>5. parts' = [parts EXCEPT ![s] = Append(parts[s], BodyKey(q))]
  BY DEF Appended
<1>6. req[q].parts = <<>> => parts[s] = <<>>
  BY <1>1 DEF CanAppend, Request
<1>7. Append(parts[s], BodyKey(q)) \in Seq(UploadKeys)
  BY <1>1
<1>8. session' \in [Posts -> Session \cup {Null}] /\ parts' \in [Posts -> Seq(UploadKeys)]
  BY <1>1, <1>4, <1>5, <1>7 DEF Types, TypeOK
<1> QED BY <1>1, <1>2, <1>4, <1>5, <1>6, <1>8 DEF AppendEffect, CanAppend, Types, TypeOK

\* A PATCH appends to an open session nobody sweeps.
LEMMA AppendPartStep ==
  ASSUME Types, NEW q \in Requests, AppendPart(q)
  PROVE  /\ Types' /\ Only(q)
         /\ Stays(q) /\ req'[q].pc = "done"
         /\ req[q].pc = "append" /\ req'[q].result = "accepted"
         /\ KindOf[q] = "patch" /\ AppendEffect(q) /\ ~Locked(req[q].session)
<1> USE DEF Types
<1>1. req[q] \in Request /\ req[q].pc = "append"
  BY PlaceFacts DEF AppendPart
<1>2. /\ Only(q)
      /\ Stays(q) /\ req'[q].pc = "done"
      /\ req[q].pc = "append" /\ req'[q].result = "accepted"
      /\ KindOf[q] = "patch" /\ AppendEffect(q) /\ ~Locked(req[q].session)
  BY <1>1, EndedFacts, AppendedFacts, PlaceFacts DEF AppendPart, Results
<1>3. UNCHANGED <<blobs, object, journal, reaper, stalled, lost, faults>>
  BY DEF AppendPart, tables, gcVars
<1>4. Places' /\ Collectors'
  <2>1. Places'
    BY <1>2, PlacesKeptAtEnd
  <2> QED BY <1>3, <2>1 DEF Collectors
<1>5. session' \in [Posts -> Session \cup {Null}]
  BY <1>1, AppendedFacts DEF AppendPart
<1>6. parts' \in [Posts -> Seq(UploadKeys)]
  BY <1>1, AppendedFacts DEF AppendPart
<1>7. req' \in [Requests -> Request]
  BY <1>2, ReqType
<1>8. TypeOK'
  BY <1>3, <1>5, <1>6, <1>7 DEF TypeOK
<1> QED BY <1>2, <1>4, <1>8

\* A PATCH that may not append deletes its object.
LEMMA AppendLostStep ==
  ASSUME Types, NEW q \in Requests, AppendLost(q)
  PROVE  /\ Types' /\ Only(q)
         /\ Stays(q) /\ req'[q].pc = "done"
         /\ req[q].pc = "append" /\ req'[q].result = "error" /\ KindOf[q] = "patch"
<1> USE DEF Types
<1>1. req[q] \in Request /\ req[q].pc = "append"
  BY PlaceFacts DEF AppendLost
<1>2. /\ Only(q)
      /\ Stays(q) /\ req'[q].pc = "done"
      /\ req[q].pc = "append" /\ req'[q].result = "error" /\ KindOf[q] = "patch"
  BY <1>1, EndedFacts, PlaceFacts DEF AppendLost, Results
<1>3. UNCHANGED <<session, parts, blobs, journal, reaper, stalled, lost, faults>>
  BY DEF AppendLost, tables, gcVars
<1>4. Places' /\ Collectors'
  <2>1. Places'
    BY <1>2, PlacesKeptAtEnd
  <2> QED BY <1>3, <2>1 DEF Collectors
<1>5. object' \in [Keys -> Content \cup {Null}]
  BY WithoutFacts DEF AppendLost
<1>6. req' \in [Requests -> Request]
  BY <1>2, ReqType
<1>7. TypeOK'
  BY <1>3, <1>5, <1>6 DEF TypeOK
<1> QED BY <1>2, <1>4, <1>7

\* A PATCH that does not know has appended or not.
LEMMA AppendUnknownStep ==
  ASSUME Types, NEW q \in Requests, AppendUnknown(q)
  PROVE  /\ Types' /\ Only(q)
         /\ Stays(q) /\ req[q].pc = "append" /\ req'[q].pc = "recover" /\ req'[q].result = req[q].result
         /\ KindOf[q] = "patch" /\ ~Locked(req[q].session)
         /\ AppendEffect(q) \/ UNCHANGED <<session, parts>>
<1> USE DEF Types
<1>1. req[q] \in Request /\ req[q].pc = "append" /\ KindOf[q] = "patch"
  BY PlaceFacts DEF AppendUnknown
<1>2. /\ Only(q)
      /\ Stays(q) /\ req[q].pc = "append" /\ req'[q].pc = "recover" /\ req'[q].result = req[q].result
      /\ KindOf[q] = "patch" /\ ~Locked(req[q].session)
      /\ AppendEffect(q) \/ UNCHANGED <<session, parts>>
  BY <1>1, AtFacts, AppendedFacts, PlaceFacts DEF AppendUnknown, Steps
<1>3. UNCHANGED <<blobs, object, journal, reaper, stalled, lost>>
  BY DEF AppendUnknown, tables, gcVars
<1>4. Places' /\ Collectors'
  <2>1. Places'
    BY <1>1, <1>2, PlacesKept, PlaceFacts DEF Stays
  <2> QED BY <1>3, <2>1 DEF Collectors
<1>5. session' \in [Posts -> Session \cup {Null}]
  BY <1>1, AppendedFacts DEF AppendUnknown, TypeOK
<1>6. parts' \in [Posts -> Seq(UploadKeys)]
  BY <1>1, AppendedFacts DEF AppendUnknown, TypeOK
<1>7. faults' \in 0..MaxFaults
  BY DEF AppendUnknown, Fault, TypeOK
<1>8. req' \in [Requests -> Request]
  BY <1>2, ReqType
<1>9. TypeOK'
  BY <1>3, <1>5, <1>6, <1>7, <1>8 DEF TypeOK
<1> QED BY <1>2, <1>4, <1>9

\* The lookup of a part accepts only what is there.
LEMMA RecoverAppendStep ==
  ASSUME Types, NEW q \in Requests, RecoverAppend(q)
  PROVE  /\ Types' /\ Only(q)
         /\ Stays(q) /\ req'[q].pc = "done"
         /\ req[q].pc = "recover" /\ req'[q].result \in {"accepted", "error"} /\ KindOf[q] = "patch"
         /\ req'[q].result = "accepted" =>
              Exists(req[q].session) /\ Has(parts[req[q].session], BodyKey(q))
         /\ \A k \in Keys : object'[k] # object[k] => k = BodyKey(q) /\ object'[k] = Null
<1> USE DEF Types
<1>1. req[q] \in Request /\ req[q].pc = "recover"
  BY PlaceFacts DEF RecoverAppend
<1>2. PICK x \in {"accepted", "error"} :
        /\ req' = Ended(q, x)
        /\ x = "accepted" => Exists(req[q].session) /\ Has(parts[req[q].session], BodyKey(q))
  BY DEF RecoverAppend, Has
<1>3. object' = object \/ object' = Without({BodyKey(q)})
  BY DEF RecoverAppend
<1>4. /\ Only(q)
      /\ Stays(q) /\ req'[q].pc = "done"
      /\ req[q].pc = "recover" /\ req'[q].result \in {"accepted", "error"} /\ KindOf[q] = "patch"
      /\ req'[q].result = "accepted" =>
           Exists(req[q].session) /\ Has(parts[req[q].session], BodyKey(q))
      /\ \A k \in Keys : object'[k] # object[k] => k = BodyKey(q) /\ object'[k] = Null
  <2>1. Only(q) /\ Stays(q) /\ req'[q].pc = "done" /\ req'[q].result = x
    BY <1>2, EndedFacts DEF Results
  <2>2. \A k \in Keys : object'[k] # object[k] => k = BodyKey(q) /\ object'[k] = Null
    BY <1>3, WithoutFacts
  <2> QED BY <1>1, <1>2, <2>1, <2>2 DEF RecoverAppend
<1>5. UNCHANGED <<session, parts, blobs, journal, reaper, stalled, lost, faults>>
  BY DEF RecoverAppend, tables, gcVars
<1>6. Places' /\ Collectors'
  <2>1. Places'
    BY <1>4, PlacesKeptAtEnd
  <2> QED BY <1>5, <2>1 DEF Collectors
<1>7. object' \in [Keys -> Content \cup {Null}]
  BY <1>3, WithoutFacts DEF TypeOK
<1>8. req' \in [Requests -> Request]
  BY <1>4, ReqType
<1>9. TypeOK'
  BY <1>5, <1>7, <1>8 DEF TypeOK
<1> QED BY <1>4, <1>6, <1>9

\* A PUT takes an open session, or one whose lease is stale.
LEMMA ClaimSessionStep ==
  ASSUME Types, NEW q \in Requests, ClaimSession(q)
  PROVE  /\ Types' /\ Only(q)
         /\ req[q].pc = "new" /\ KindOf[q] = "put" /\ req'[q].result = req[q].result
         /\ (req'[q].pc = "collect" /\ BodyOf[q] = <<>>) \/ req'[q].pc = "put"
         /\ req'[q].session \in Posts /\ Claimable(req'[q].session)
         /\ req'[q].computed = session[req'[q].session].computed
         /\ session' = Claimed(req'[q].session, q)
         /\ \/ journal' = journal /\ req'[q].pc = "collect"
            \/ journal' = register_oci_upload_cleanup_key(BodyKey(q), q, req'[q].session)
<1> USE DEF Types
<1>1. req[q] \in Request /\ req[q].pc = "new" /\ KindOf[q] = "put"
  BY PlaceFacts DEF ClaimSession
<1>2. PICK s \in Posts, streamed \in BOOLEAN :
       /\ Claimable(s)
       /\ BodyOf[q] # <<>> => streamed
       /\ session' = Claimed(s, q)
       /\ req' = [req EXCEPT ![q].pc = IF streamed THEN "put" ELSE "collect",
                             ![q].session = s, ![q].bytes = session[s].bytes,
                             ![q].computed = session[s].computed]
       /\ journal' = IF streamed THEN register_oci_upload_cleanup_key(BodyKey(q), q, s)
                     ELSE journal
  BY DEF ClaimSession
<1>3. session[s].bytes \in Nat /\ session[s].computed \in Content \cup {Null}
  BY <1>2 DEF Claimable, Exists, TypeOK, Session
<1>4. /\ Only(q)
      /\ req[q].pc = "new" /\ KindOf[q] = "put" /\ req'[q].result = req[q].result
      /\ (req'[q].pc = "collect" /\ BodyOf[q] = <<>>) \/ req'[q].pc = "put"
      /\ req'[q].session \in Posts /\ Claimable(req'[q].session)
      /\ req'[q].computed = session[req'[q].session].computed
      /\ session' = Claimed(req'[q].session, q)
      /\ \/ journal' = journal /\ req'[q].pc = "collect"
         \/ journal' = register_oci_upload_cleanup_key(BodyKey(q), q, req'[q].session)
  <2>1. PICK pc \in {"collect", "put"} :
          /\ req' = [req EXCEPT ![q] = [req[q] EXCEPT !.pc = pc, !.session = s, !.bytes = session[s].bytes,
                                                       !.computed = session[s].computed]]
          /\ (pc = "collect" /\ BodyOf[q] = <<>>) \/ pc = "put"
          /\ \/ journal' = journal /\ pc = "collect"
             \/ journal' = register_oci_upload_cleanup_key(BodyKey(q), q, s)
    <3>1. CASE streamed
      BY <1>2, <3>1
    <3>2. CASE ~streamed
      BY <1>2, <3>2
    <3> QED BY <3>1, <3>2
  <2>2. [req[q] EXCEPT !.pc = pc, !.session = s, !.bytes = session[s].bytes,
                       !.computed = session[s].computed] \in Request
    BY <1>1, <1>3 DEF Request, Steps
  <2>3. /\ Only(q) /\ req'[q].pc = pc /\ req'[q].session = s /\ req'[q].result = req[q].result
        /\ req'[q].computed = session[s].computed
    BY <1>1, <2>1, <2>2 DEF Only, TypeOK, Request
  <2> QED BY <1>1, <1>2, <2>1, <2>3
<1>5. UNCHANGED <<parts, blobs, object, reaper, stalled, lost, faults>>
  BY DEF ClaimSession, tables, gcVars
<1>6. Places' /\ Collectors'
  <2>1. Places'
    BY <1>1, <1>4, PlacesKept, PlaceFacts DEF Stays
  <2> QED BY <1>5, <2>1 DEF Collectors
<1>7. session' \in [Posts -> Session \cup {Null}]
  BY <1>2, ClaimedFacts DEF Claimable
<1>8. journal' \in [Keys -> JournalRow \cup {Null}]
  BY <1>2, RegisterFacts, KeyFacts DEF TypeOK
<1>9. req' \in [Requests -> Request]
  BY <1>4, ReqType
<1>10. TypeOK'
  BY <1>5, <1>7, <1>8, <1>9 DEF TypeOK
<1> QED BY <1>4, <1>6, <1>10

\* An empty final part is dropped, best effort.
LEMMA DropEmptyPartStep ==
  ASSUME Types, NEW q \in Requests, DropEmptyPart(q)
  PROVE  /\ Types' /\ Only(q)
         /\ Stays(q) /\ req[q].pc = "empty" /\ req'[q].pc = "unlist" /\ req'[q].result = req[q].result
         /\ DroppedBestEffort(BodyKey(q)) /\ UNCHANGED <<session, parts, blobs, journal, reaper, stalled>>
<1> USE DEF Types
<1>1. req[q] \in Request /\ req[q].pc = "empty"
  BY PlaceFacts DEF DropEmptyPart
<1>2. /\ Only(q)
      /\ Stays(q) /\ req[q].pc = "empty" /\ req'[q].pc = "unlist" /\ req'[q].result = req[q].result
  BY <1>1, AtFacts DEF DropEmptyPart, Steps
<1>3. UNCHANGED <<session, parts, blobs, journal, reaper, stalled>> /\ DroppedBestEffort(BodyKey(q))
  BY DEF DropEmptyPart, tables
<1>4. Places' /\ Collectors'
  <2>1. Places'
    BY <1>1, <1>2, PlacesKept, PlaceFacts DEF Stays
  <2> QED BY <1>3, <2>1 DEF Collectors
<1>5. object' \in [Keys -> Content \cup {Null}] /\ lost' \subseteq Keys /\ faults' \in 0..MaxFaults
  BY <1>3, DroppedFacts, KeyFacts
<1>6. req' \in [Requests -> Request]
  BY <1>2, ReqType
<1>7. TypeOK'
  BY <1>3, <1>5, <1>6 DEF TypeOK
<1> QED BY <1>2, <1>3, <1>4, <1>7

\* Then its row is cleared.
LEMMA ClearEmptyPartStep ==
  ASSUME Types, NEW q \in Requests, ClearEmptyPart(q)
  PROVE  /\ Types' /\ Only(q)
         /\ Stays(q) /\ req[q].pc = "unlist" /\ req'[q].pc = "collect" /\ req'[q].result = req[q].result
         /\ \A k \in Keys : journal'[k] = IF k \in {BodyKey(q)} THEN Null ELSE journal[k]
         /\ UNCHANGED <<session, parts, blobs, object, reaper, stalled, lost>>
<1> USE DEF Types
<1>1. req[q] \in Request /\ req[q].pc = "unlist"
  BY PlaceFacts DEF ClearEmptyPart
<1>2. /\ Only(q)
      /\ Stays(q) /\ req[q].pc = "unlist" /\ req'[q].pc = "collect" /\ req'[q].result = req[q].result
  BY <1>1, AtFacts DEF ClearEmptyPart, Steps
<1>3. UNCHANGED <<session, parts, blobs, object, reaper, stalled, lost, faults>>
  BY DEF ClearEmptyPart, tables, gcVars
<1>4. Places' /\ Collectors'
  <2>1. Places'
    BY <1>1, <1>2, PlacesKept, PlaceFacts DEF Stays
  <2> QED BY <1>3, <2>1 DEF Collectors
<1>5. /\ journal' \in [Keys -> JournalRow \cup {Null}]
      /\ \A k \in Keys : journal'[k] = IF k \in {BodyKey(q)} THEN Null ELSE journal[k]
  BY KeyFacts DEF ClearEmptyPart, TypeOK
<1>6. req' \in [Requests -> Request]
  BY <1>2, ReqType
<1>7. TypeOK'
  BY <1>3, <1>5, <1>6 DEF TypeOK
<1> QED BY <1>2, <1>3, <1>4, <1>5, <1>7

\* A single part with the cached digest is copied as it is.
LEMMA PromoteSinglePartStep ==
  ASSUME Types, NEW q \in Requests, PromoteSinglePart(q)
  PROVE  /\ Types' /\ Only(q)
         /\ req[q].pc = "collect" /\ req'[q].pc = "copy" /\ KindOf[q] = "put" /\ Promotable(q)
         /\ req'[q].session = req[q].session /\ req'[q].result = req[q].result
         /\ req'[q].parts = FetchedParts(q) /\ req'[q].src = FetchedParts(q)[1] /\ req'[q].src \in Keys
<1> USE DEF Types
<1>1. req[q] \in Request /\ req[q].pc = "collect" /\ KindOf[q] = "put" /\ req[q].session \in Posts
  BY PlaceFacts DEF PromoteSinglePart
<1>2. FetchedParts(q) \in Seq(UploadKeys) /\ FetchedParts(q) \in Seq(Keys)
  BY <1>1, FetchedType, KeyFacts
<1>3. FetchedParts(q)[1] \in Keys
  <2>1. Len(FetchedParts(q)) = 1
    BY DEF PromoteSinglePart, Promotable
  <2>2. \A ks \in Seq(Keys) : \A i \in 1..Len(ks) : ks[i] \in Keys
    OBVIOUS
  <2>3. 1 \in 1..Len(FetchedParts(q))
    BY <2>1
  <2> QED BY <1>2, <2>2, <2>3
<1>4. /\ Only(q)
      /\ req[q].pc = "collect" /\ req'[q].pc = "copy" /\ KindOf[q] = "put" /\ Promotable(q)
      /\ req'[q].session = req[q].session /\ req'[q].result = req[q].result
      /\ req'[q].parts = FetchedParts(q) /\ req'[q].src = FetchedParts(q)[1] /\ req'[q].src \in Keys
  BY <1>1, <1>2, <1>3 DEF PromoteSinglePart, TypeOK, Only, Request, Steps
<1>5. UNCHANGED <<session, parts, blobs, object, reaper, stalled, lost, faults>>
  BY DEF PromoteSinglePart, tables, gcVars
<1>6. Places' /\ Collectors'
  <2>1. Places'
    BY <1>1, <1>4, PlacesKept, PlaceFacts DEF Stays
  <2> QED BY <1>5, <2>1 DEF Collectors
<1>7. journal' \in [Keys -> JournalRow \cup {Null}]
  BY <1>1, RegisterFacts, KeyFacts DEF PromoteSinglePart
<1>8. req' \in [Requests -> Request]
  BY <1>4, ReqType
<1>9. TypeOK'
  BY <1>5, <1>7, <1>8 DEF TypeOK
<1> QED BY <1>4, <1>6, <1>9

\* A PUT reads the part rows and adds its own body.
LEMMA CollectPartsStep ==
  ASSUME Types, NEW q \in Requests, CollectParts(q)
  PROVE  /\ Types' /\ Only(q)
         /\ req[q].pc = "collect" /\ req'[q].pc = "concat" /\ KindOf[q] = "put"
         /\ req'[q].session = req[q].session /\ req'[q].result = req[q].result
         /\ BodyOf[q] # <<>> => req'[q].parts = Append(FetchedParts(q), BodyKey(q))
         /\ BodyOf[q] = <<>> => req'[q].parts = FetchedParts(q)
<1> USE DEF Types
<1>1. req[q] \in Request /\ req[q].pc = "collect" /\ KindOf[q] = "put" /\ req[q].session \in Posts
  BY PlaceFacts DEF CollectParts
<1>2. FetchedParts(q) \in Seq(UploadKeys) /\ FetchedParts(q) \in Seq(Keys)
  BY <1>1, FetchedType, KeyFacts
<1>3. PICK ks \in Seq(Keys) :
        /\ req' = [req EXCEPT ![q].pc = "concat", ![q].parts = ks]
        /\ BodyOf[q] # <<>> => ks = Append(FetchedParts(q), BodyKey(q))
        /\ BodyOf[q] = <<>> => ks = FetchedParts(q)
  <2>1. /\ FetchedParts(q) \o <<>> = FetchedParts(q)
        /\ FetchedParts(q) \o <<BodyKey(q)>> = Append(FetchedParts(q), BodyKey(q))
        /\ Append(FetchedParts(q), BodyKey(q)) \in Seq(Keys)
    BY <1>2, KeyFacts
  <2>2. (OwnPart(q) = {}) <=> (BodyOf[q] = <<>>)
    BY <1>1 DEF OwnPart
  <2> QED BY <1>2, <2>1, <2>2 DEF CollectParts
<1>4. /\ Only(q)
      /\ req[q].pc = "collect" /\ req'[q].pc = "concat" /\ KindOf[q] = "put"
      /\ req'[q].session = req[q].session /\ req'[q].result = req[q].result
      /\ BodyOf[q] # <<>> => req'[q].parts = Append(FetchedParts(q), BodyKey(q))
      /\ BodyOf[q] = <<>> => req'[q].parts = FetchedParts(q)
  BY <1>1, <1>3 DEF TypeOK, Only, Request, Steps
<1>5. UNCHANGED <<session, parts, blobs, object, reaper, stalled, lost, faults>>
  BY DEF CollectParts, tables, gcVars
<1>6. Places' /\ Collectors'
  <2>1. Places'
    BY <1>1, <1>4, PlacesKept, PlaceFacts DEF Stays
  <2> QED BY <1>5, <2>1 DEF Collectors
<1>7. journal' \in [Keys -> JournalRow \cup {Null}]
  BY <1>1, RegisterFacts, KeyFacts DEF CollectParts
<1>8. req' \in [Requests -> Request]
  BY <1>4, ReqType
<1>9. TypeOK'
  BY <1>5, <1>7, <1>8 DEF TypeOK
<1> QED BY <1>4, <1>6, <1>9

\* The concatenation is written to its own key.
LEMMA ConcatStep ==
  ASSUME Types, NEW q \in Requests, Concat(q)
  PROVE  /\ Types' /\ Only(q)
         /\ req[q].pc = "concat" /\ req'[q].pc = "seal" /\ KindOf[q] = "put"
         /\ req'[q].session = req[q].session /\ req'[q].result = req[q].result
         /\ req'[q].parts = req[q].parts
         /\ object' = [object EXCEPT ![CompleteKey(q)] = req'[q].computed]
<1> USE DEF Types
<1>1. req[q] \in Request /\ req[q].pc = "concat" /\ KindOf[q] = "put" /\ req[q].session \in Posts
  BY PlaceFacts DEF Concat
<1>2. PICK c \in Content :
        /\ object' = [object EXCEPT ![CompleteKey(q)] = c]
        /\ req' = [req EXCEPT ![q].pc = "seal", ![q].computed = c]
  BY ContentFacts DEF Concat
<1>3. /\ Only(q)
      /\ req[q].pc = "concat" /\ req'[q].pc = "seal" /\ KindOf[q] = "put"
      /\ req'[q].session = req[q].session /\ req'[q].result = req[q].result
      /\ req'[q].parts = req[q].parts
      /\ object' = [object EXCEPT ![CompleteKey(q)] = req'[q].computed]
  BY <1>1, <1>2 DEF TypeOK, Only, Request, Steps
<1>4. UNCHANGED <<session, parts, blobs, journal, reaper, stalled, lost, faults>>
  BY DEF Concat, tables, gcVars
<1>5. Places' /\ Collectors'
  <2>1. Places'
    BY <1>1, <1>3, PlacesKept, PlaceFacts DEF Stays
  <2> QED BY <1>4, <2>1 DEF Collectors
<1>6. object' \in [Keys -> Content \cup {Null}]
  BY <1>2, KeyFacts DEF TypeOK
<1>7. req' \in [Requests -> Request]
  BY <1>3, ReqType
<1>8. TypeOK'
  BY <1>4, <1>6, <1>7 DEF TypeOK
<1> QED BY <1>3, <1>5, <1>8

\* Its row is marked.
LEMMA MarkCompleteStep ==
  ASSUME Types, NEW q \in Requests, MarkComplete(q)
  PROVE  /\ Types' /\ Only(q)
         /\ Stays(q) /\ req[q].pc = "seal" /\ req'[q].pc = "verify" /\ req'[q].result = req[q].result
         /\ journal' = Marked(CompleteKey(q))
         /\ UNCHANGED <<session, parts, blobs, object, reaper, stalled, lost>>
<1> USE DEF Types
<1>1. req[q] \in Request /\ req[q].pc = "seal"
  BY PlaceFacts DEF MarkComplete
<1>2. /\ Only(q)
      /\ Stays(q) /\ req[q].pc = "seal" /\ req'[q].pc = "verify" /\ req'[q].result = req[q].result
  BY <1>1, AtFacts DEF MarkComplete, Steps
<1>3. /\ UNCHANGED <<session, parts, blobs, object, reaper, stalled, lost, faults>>
      /\ journal' = Marked(CompleteKey(q))
  BY DEF MarkComplete, tables, gcVars
<1>4. Places' /\ Collectors'
  <2>1. Places'
    BY <1>1, <1>2, PlacesKept, PlaceFacts DEF Stays
  <2> QED BY <1>3, <2>1 DEF Collectors
<1>5. journal' \in [Keys -> JournalRow \cup {Null}]
  BY <1>3, MarkedFacts, KeyFacts
<1>6. req' \in [Requests -> Request]
  BY <1>2, ReqType
<1>7. TypeOK'
  BY <1>3, <1>5, <1>6 DEF TypeOK
<1> QED BY <1>2, <1>3, <1>4, <1>7

\* What is copied was found to have the digest.
LEMMA VerifyStep ==
  ASSUME Types, NEW q \in Requests, Verify(q)
  PROVE  /\ Types' /\ Only(q)
         /\ req[q].pc = "verify" /\ req'[q].pc = "copy" /\ req[q].computed = DigestOf[q]
         /\ req'[q].session = req[q].session /\ req'[q].result = req[q].result
         /\ req'[q].parts = req[q].parts
         /\ \/ KindOf[q] = "mono" /\ req'[q].src = BodyKey(q)
            \/ KindOf[q] = "put" /\ req'[q].src = CompleteKey(q)
<1> USE DEF Types
<1>1. req[q] \in Request /\ req[q].pc = "verify" /\ req[q].session \in Posts \cup {Null}
  BY PlaceFacts DEF Verify
<1>2. KindOf[q] \in {"mono", "put"}
  BY <1>1, PlaceFacts
<1>3. PICK k \in Keys :
        /\ req' = [req EXCEPT ![q].pc = "copy", ![q].src = k]
        /\ \/ KindOf[q] = "mono" /\ k = BodyKey(q)
           \/ KindOf[q] = "put" /\ k = CompleteKey(q)
  BY <1>2, KeyFacts DEF Verify
<1>4. /\ Only(q)
      /\ req[q].pc = "verify" /\ req'[q].pc = "copy" /\ req[q].computed = DigestOf[q]
      /\ req'[q].session = req[q].session /\ req'[q].result = req[q].result
      /\ req'[q].parts = req[q].parts
      /\ \/ KindOf[q] = "mono" /\ req'[q].src = BodyKey(q)
         \/ KindOf[q] = "put" /\ req'[q].src = CompleteKey(q)
  <2>1. Only(q) /\ req'[q].pc = "copy" /\ req'[q].src = k /\ req'[q].parts = req[q].parts
        /\ req'[q].session = req[q].session /\ req'[q].result = req[q].result
    BY <1>1, <1>3 DEF TypeOK, Only, Request, Steps
  <2> QED BY <1>3, <2>1 DEF Verify, DigestVerified
<1>5. UNCHANGED <<session, parts, blobs, object, reaper, stalled, lost, faults>>
  BY DEF Verify, tables, gcVars
<1>6. Places' /\ Collectors'
  <2>1. Places'
    <3>1. /\ req'[q].src \in Keys
          /\ KindOf[q] = "mono" => req'[q].session = Null /\ req'[q].src = BodyKey(q)
      BY <1>4, KeyFacts, PlaceFacts
    <3>2. KindOf[q] # "mono" => req'[q].session \in Posts
      BY <1>1, <1>4, PlaceFacts
    <3> QED BY <1>2, <1>4, <3>1, <3>2, PlacesKept
  <2> QED BY <1>5, <2>1 DEF Collectors
<1>7. journal' \in [Keys -> JournalRow \cup {Null}]
  BY <1>1, RegisterFacts, KeyFacts DEF Verify
<1>8. req' \in [Requests -> Request]
  BY <1>4, ReqType
<1>9. TypeOK'
  BY <1>5, <1>7, <1>8 DEF TypeOK
<1> QED BY <1>4, <1>6, <1>9

\* A rejected upload gives up its objects and its lease.
LEMMA RejectContentStep ==
  ASSUME Types, NEW q \in Requests, RejectContent(q)
  PROVE  /\ Types' /\ Only(q)
         /\ Stays(q) /\ req'[q].pc = "done"
         /\ req[q].pc \in {"collect", "concat", "verify", "copy"} /\ req'[q].result = "error"
         /\ session' = session \/ session' = Reopened(q)
<1> USE DEF Types
<1>1. req[q] \in Request /\ req[q].pc # "new"
  BY PlaceFacts DEF RejectContent
<1>2. /\ Only(q)
      /\ Stays(q) /\ req'[q].pc = "done"
      /\ req[q].pc \in {"collect", "concat", "verify", "copy"} /\ req'[q].result = "error"
      /\ session' = session \/ session' = Reopened(q)
  BY EndedFacts DEF RejectContent, Results
<1>3. UNCHANGED <<parts, blobs, journal, reaper, stalled, lost, faults>>
  BY DEF RejectContent, tables, gcVars
<1>4. Places' /\ Collectors'
  <2>1. Places'
    BY <1>2, PlacesKeptAtEnd
  <2> QED BY <1>3, <2>1 DEF Collectors
<1>5. session' \in [Posts -> Session \cup {Null}]
  BY ReopenedFacts DEF RejectContent, TypeOK
<1>6. object' \in [Keys -> Content \cup {Null}]
  BY WithoutFacts DEF RejectContent
<1>7. req' \in [Requests -> Request]
  BY <1>2, ReqType
<1>8. TypeOK'
  BY <1>3, <1>5, <1>6, <1>7 DEF TypeOK
<1> QED BY <1>2, <1>4, <1>8

\* So does a failed one.
LEMMA CompleteFailsStep ==
  ASSUME Types, NEW q \in Requests, CompleteFails(q)
  PROVE  /\ Types' /\ Only(q)
         /\ Stays(q) /\ req'[q].pc = "done"
         /\ req[q].pc \in {"put", "mark", "collect", "concat", "seal", "verify", "copy", "commit"}
         /\ req'[q].result = "error" /\ KindOf[q] = "put"
<1> USE DEF Types
<1>1. req[q] \in Request /\ req[q].pc # "new"
  BY PlaceFacts DEF CompleteFails
<1>2. /\ Only(q)
      /\ Stays(q) /\ req'[q].pc = "done"
      /\ req[q].pc \in {"put", "mark", "collect", "concat", "seal", "verify", "copy", "commit"}
      /\ req'[q].result = "error" /\ KindOf[q] = "put"
  BY EndedFacts DEF CompleteFails, Results
<1>3. UNCHANGED <<parts, blobs, journal, reaper, stalled, lost>>
  BY DEF CompleteFails, tables, gcVars
<1>4. Places' /\ Collectors'
  <2>1. Places'
    BY <1>2, PlacesKeptAtEnd
  <2> QED BY <1>3, <2>1 DEF Collectors
<1>5. session' \in [Posts -> Session \cup {Null}]
  BY ReopenedFacts DEF CompleteFails
<1>6. object' \in [Keys -> Content \cup {Null}]
  BY WithoutFacts DEF CompleteFails
<1>7. faults' \in 0..MaxFaults
  BY DEF CompleteFails, Fault, TypeOK
<1>8. req' \in [Requests -> Request]
  BY <1>2, ReqType
<1>9. TypeOK'
  BY <1>3, <1>5, <1>6, <1>7, <1>8 DEF TypeOK
<1> QED BY <1>2, <1>4, <1>9

\* The copy goes to the final key.
LEMMA CopyBlobStep ==
  ASSUME Types, NEW q \in Requests, CopyBlob(q)
  PROVE  /\ Types' /\ Only(q)
         /\ Stays(q) /\ req[q].pc = "copy" /\ req'[q].result = req[q].result
         /\ \/ req'[q].pc = "drop" /\ req[q].src = CompleteKey(q) /\ KindOf[q] = "put"
            \/ req'[q].pc = "commit" /\ req[q].src # CompleteKey(q)
         /\ req[q].src \in Keys
<1> USE DEF Types
<1>1. req[q] \in Request /\ req[q].pc = "copy" /\ req[q].src \in Keys
  BY PlaceFacts DEF CopyBlob
<1>2. /\ Only(q)
      /\ Stays(q) /\ req[q].pc = "copy" /\ req'[q].result = req[q].result
      /\ \/ req'[q].pc = "drop" /\ req[q].src = CompleteKey(q) /\ KindOf[q] = "put"
         \/ req'[q].pc = "commit" /\ req[q].src # CompleteKey(q)
      /\ req[q].src \in Keys
  <2>1. PICK pc \in Steps :
          /\ req' = At(q, pc)
          /\ \/ pc = "drop" /\ req[q].src = CompleteKey(q)
             \/ pc = "commit" /\ req[q].src # CompleteKey(q)
    BY DEF CopyBlob, Steps
  <2>2. req[q].src = CompleteKey(q) => KindOf[q] = "put"
    BY <1>1, PlaceFacts, KeyFacts
  <2> QED BY <1>1, <2>1, <2>2, AtFacts
<1>3. UNCHANGED <<session, parts, blobs, journal, reaper, stalled, lost, faults>>
  BY DEF CopyBlob, tables, gcVars
<1>4. Places' /\ Collectors'
  <2>1. Places'
    BY <1>1, <1>2, PlacesKept, PlaceFacts DEF Stays
  <2> QED BY <1>3, <2>1 DEF Collectors
<1>5. object' \in [Keys -> Content \cup {Null}]
  BY <1>1, KeyFacts DEF CopyBlob, TypeOK
<1>6. req' \in [Requests -> Request]
  BY <1>2, ReqType
<1>7. TypeOK'
  BY <1>3, <1>5, <1>6 DEF TypeOK
<1> QED BY <1>2, <1>4, <1>7

\* The promoted concatenation is dropped, best effort.
LEMMA DropCompleteStep ==
  ASSUME Types, NEW q \in Requests, DropComplete(q)
  PROVE  /\ Types' /\ Only(q)
         /\ Stays(q) /\ req[q].pc = "drop" /\ req'[q].pc = "commit" /\ req'[q].result = req[q].result
         /\ DroppedBestEffort(CompleteKey(q))
         /\ UNCHANGED <<session, parts, blobs, journal, reaper, stalled>>
<1> USE DEF Types
<1>1. req[q] \in Request /\ req[q].pc = "drop"
  BY PlaceFacts DEF DropComplete
<1>2. /\ Only(q)
      /\ Stays(q) /\ req[q].pc = "drop" /\ req'[q].pc = "commit" /\ req'[q].result = req[q].result
  BY <1>1, AtFacts DEF DropComplete, Steps
<1>3. /\ UNCHANGED <<session, parts, blobs, journal, reaper, stalled>>
      /\ DroppedBestEffort(CompleteKey(q))
  BY DEF DropComplete, tables
<1>4. Places' /\ Collectors'
  <2>1. Places'
    BY <1>1, <1>2, PlacesKept, PlaceFacts DEF Stays
  <2> QED BY <1>3, <2>1 DEF Collectors
<1>5. object' \in [Keys -> Content \cup {Null}] /\ lost' \subseteq Keys /\ faults' \in 0..MaxFaults
  BY <1>3, DroppedFacts, KeyFacts
<1>6. req' \in [Requests -> Request]
  BY <1>2, ReqType
<1>7. TypeOK'
  BY <1>3, <1>5, <1>6 DEF TypeOK
<1> QED BY <1>2, <1>3, <1>4, <1>7

\* What the terminal transaction does.
CommitEffect(q) ==
  IF KindOf[q] = "mono" THEN UNCHANGED <<session, parts>>
  ELSE /\ req[q].session \in Posts
       /\ session' = [session EXCEPT ![req[q].session] = Null]
       /\ parts' = [parts EXCEPT ![req[q].session] = <<>>]

\* It keeps the types.
LEMMA CommittedFacts ==
  ASSUME Types, NEW q \in Requests, req[q].pc = "commit", BlobCommitted(q)
  PROVE  /\ CommitEffect(q) /\ blobs' \subseteq Digests
         /\ session' \in [Posts -> Session \cup {Null}] /\ parts' \in [Posts -> Seq(UploadKeys)]
<1>1. KindOf[q] # "mono" => req[q].session \in Posts
  BY PlaceFacts
<1>2. <<>> \in Seq(UploadKeys)
  OBVIOUS
<1>3. CASE KindOf[q] = "mono"
  BY <1>3 DEF BlobCommitted, CommitEffect, Types, TypeOK
<1>4. CASE KindOf[q] # "mono"
  <2>1. /\ blobs' = blobs \cup {DigestOf[q]}
        /\ session' = [session EXCEPT ![req[q].session] = Null]
        /\ parts' = [parts EXCEPT ![req[q].session] = <<>>]
    BY <1>4 DEF BlobCommitted
  <2>2. CommitEffect(q)
    BY <1>1, <1>4, <2>1 DEF CommitEffect
  <2>3. session' \in [Posts -> Session \cup {Null}] /\ blobs' \subseteq Digests
    BY <2>1, ZenonT(60) DEF Types, TypeOK
  <2>4. parts' \in [Posts -> Seq(UploadKeys)]
    BY <1>2, <2>1 DEF Types, TypeOK
  <2> QED BY <2>2, <2>3, <2>4
<1> QED BY <1>3, <1>4

\* The blob row is inserted; a PUT deletes the session it still holds.
LEMMA CommitBlobStep ==
  ASSUME Types, NEW q \in Requests, CommitBlob(q)
  PROVE  /\ Types' /\ Only(q)
         /\ Stays(q) /\ req[q].pc = "commit" /\ req'[q].pc = "clear" /\ req'[q].result = req[q].result
         /\ CommitEffect(q) /\ (KindOf[q] # "mono" => Owns(q) /\ KindOf[q] = "put")
<1> USE DEF Types
<1>1. req[q] \in Request /\ req[q].pc = "commit"
  BY PlaceFacts DEF CommitBlob
<1>2. /\ Only(q)
      /\ Stays(q) /\ req[q].pc = "commit" /\ req'[q].pc = "clear" /\ req'[q].result = req[q].result
      /\ CommitEffect(q) /\ (KindOf[q] # "mono" => Owns(q) /\ KindOf[q] = "put")
  BY <1>1, AtFacts, CommittedFacts, PlaceFacts DEF CommitBlob, SessionDeleted, Steps
<1>3. UNCHANGED <<object, journal, reaper, stalled, lost, faults>>
  BY DEF CommitBlob, tables, gcVars
<1>4. Places' /\ Collectors'
  <2>1. Places'
    BY <1>1, <1>2, PlacesKept, PlaceFacts DEF Stays
  <2> QED BY <1>3, <2>1 DEF Collectors
<1>5. session' \in [Posts -> Session \cup {Null}]
  BY <1>1, CommittedFacts DEF CommitBlob
<1>6. parts' \in [Posts -> Seq(UploadKeys)]
  BY <1>1, CommittedFacts DEF CommitBlob
<1>7. blobs' \subseteq Digests
  BY <1>1, CommittedFacts DEF CommitBlob
<1>8. req' \in [Requests -> Request]
  BY <1>2, ReqType
<1>9. TypeOK'
  BY <1>3, <1>5, <1>6, <1>7, <1>8 DEF TypeOK
<1> QED BY <1>2, <1>4, <1>9

\* A PUT that does not know has committed or not.
LEMMA CommitUnknownStep ==
  ASSUME Types, NEW q \in Requests, CommitUnknown(q)
  PROVE  /\ Types' /\ Only(q)
         /\ Stays(q) /\ req[q].pc = "commit" /\ req'[q].pc = "recover" /\ req'[q].result = req[q].result
         /\ KindOf[q] = "put" /\ Owns(q)
         /\ CommitEffect(q) \/ UNCHANGED <<session, parts>>
<1> USE DEF Types
<1>1. req[q] \in Request /\ req[q].pc = "commit" /\ KindOf[q] = "put"
  BY PlaceFacts DEF CommitUnknown
<1>2. /\ Only(q)
      /\ Stays(q) /\ req[q].pc = "commit" /\ req'[q].pc = "recover" /\ req'[q].result = req[q].result
      /\ KindOf[q] = "put" /\ Owns(q)
      /\ CommitEffect(q) \/ UNCHANGED <<session, parts>>
  BY <1>1, AtFacts, CommittedFacts, PlaceFacts DEF CommitUnknown, SessionDeleted, Steps, tables
<1>3. UNCHANGED <<object, journal, reaper, stalled, lost>>
  BY DEF CommitUnknown, tables, gcVars
<1>4. Places' /\ Collectors'
  <2>1. Places'
    BY <1>1, <1>2, PlacesKept, PlaceFacts DEF Stays
  <2> QED BY <1>3, <2>1 DEF Collectors
<1>5. session' \in [Posts -> Session \cup {Null}]
  BY <1>1, CommittedFacts DEF CommitUnknown, TypeOK, tables
<1>6. parts' \in [Posts -> Seq(UploadKeys)]
  BY <1>1, CommittedFacts DEF CommitUnknown, TypeOK, tables
<1>7. blobs' \subseteq Digests
  BY <1>1, CommittedFacts DEF CommitUnknown, TypeOK, tables
<1>8. faults' \in 0..MaxFaults
  BY DEF CommitUnknown, Fault, TypeOK
<1>9. req' \in [Requests -> Request]
  BY <1>2, ReqType
<1>10. TypeOK'
  BY <1>3, <1>5, <1>6, <1>7, <1>8, <1>9 DEF TypeOK
<1> QED BY <1>2, <1>4, <1>10

\* A PUT whose session is gone takes the blob for its own.
LEMMA RecoverCommitStep ==
  ASSUME Types, NEW q \in Requests, RecoverCommit(q)
  PROVE  /\ Types' /\ Only(q)
         /\ req[q].pc = "recover" /\ KindOf[q] = "put" /\ Stays(q)
         /\ \/ req'[q].pc = "clear" /\ req'[q].result = "recovered"
            \/ req'[q].pc = "done" /\ req'[q].result = "error"
         /\ session' = session \/ session' = Reopened(q)
         /\ object' = object \/ object' = Without(Discarded(q))
<1> USE DEF Types
<1>1. req[q] \in Request /\ req[q].pc = "recover" /\ KindOf[q] = "put"
  BY PlaceFacts DEF RecoverCommit
<1>2. /\ Only(q)
      /\ req[q].pc = "recover" /\ KindOf[q] = "put" /\ Stays(q)
      /\ \/ req'[q].pc = "clear" /\ req'[q].result = "recovered"
         \/ req'[q].pc = "done" /\ req'[q].result = "error"
      /\ session' = session \/ session' = Reopened(q)
      /\ object' = object \/ object' = Without(Discarded(q))
  <2>1. CASE req' = Ended(q, "error")
    BY <1>1, <2>1, EndedFacts DEF RecoverCommit, Results
  <2>2. CASE req' = [req EXCEPT ![q].pc = "clear", ![q].result = "recovered"]
    <3>1. Only(q) /\ Stays(q) /\ req'[q].pc = "clear" /\ req'[q].result = "recovered"
      BY <1>1, <2>2 DEF Only, Stays, TypeOK, Request, Steps
    <3> QED BY <1>1, <3>1 DEF RecoverCommit
  <2> QED BY <2>1, <2>2 DEF RecoverCommit
<1>3. UNCHANGED <<parts, blobs, journal, reaper, stalled, lost, faults>>
  BY DEF RecoverCommit, tables, gcVars
<1>4. Places' /\ Collectors'
  <2>1. Places'
    BY <1>1, <1>2, PlacesKept, PlaceFacts DEF Stays
  <2> QED BY <1>3, <2>1 DEF Collectors
<1>5. session' \in [Posts -> Session \cup {Null}]
  BY ReopenedFacts DEF RecoverCommit, TypeOK
<1>6. object' \in [Keys -> Content \cup {Null}]
  BY WithoutFacts DEF RecoverCommit, TypeOK
<1>7. req' \in [Requests -> Request]
  BY <1>2, ReqType
<1>8. TypeOK'
  BY <1>3, <1>5, <1>6, <1>7 DEF TypeOK
<1> QED BY <1>2, <1>4, <1>8

\* The final key leaves the journal.
LEMMA ClearBlobKeyStep ==
  ASSUME Types, NEW q \in Requests, ClearBlobKey(q)
  PROVE  /\ Types' /\ Only(q)
         /\ Stays(q) /\ req[q].pc = "clear" /\ req'[q].pc = "finish" /\ req'[q].result = req[q].result
<1> USE DEF Types
<1>1. req[q] \in Request /\ req[q].pc = "clear"
  BY PlaceFacts DEF ClearBlobKey
<1>2. /\ Only(q)
      /\ Stays(q) /\ req[q].pc = "clear" /\ req'[q].pc = "finish" /\ req'[q].result = req[q].result
  BY <1>1, AtFacts DEF ClearBlobKey, Steps
<1>3. UNCHANGED <<session, parts, blobs, object, reaper, stalled, lost, faults>>
  BY DEF ClearBlobKey, tables, gcVars
<1>4. Places' /\ Collectors'
  <2>1. Places'
    BY <1>1, <1>2, PlacesKept, PlaceFacts DEF Stays
  <2> QED BY <1>3, <2>1 DEF Collectors
<1>5. journal' \in [Keys -> JournalRow \cup {Null}]
  BY KeyFacts DEF ClearBlobKey, TypeOK
<1>6. req' \in [Requests -> Request]
  BY <1>2, ReqType
<1>7. TypeOK'
  BY <1>3, <1>5, <1>6 DEF TypeOK
<1> QED BY <1>2, <1>4, <1>7

\* A finished upload deletes what is left of it, best effort.
LEMMA DeleteLeftoversStep ==
  ASSUME Types, NEW q \in Requests, DeleteLeftovers(q)
  PROVE  /\ Types' /\ Only(q)
         /\ Stays(q) /\ req[q].pc = "finish" /\ req'[q].pc = "tidy" /\ req'[q].result = req[q].result
         /\ UNCHANGED <<session, parts, blobs, journal, reaper, stalled>>
         /\ lost \subseteq lost'
         /\ \A k \in Keys : object'[k] \in {object[k], Null}
         /\ \A k \in Leftovers(q) \cap OwnPart(q) : Gone(k)'
<1> USE DEF Types
<1>1. req[q] \in Request /\ req[q].pc = "finish"
  BY PlaceFacts DEF DeleteLeftovers
<1>2. /\ Only(q)
      /\ Stays(q) /\ req[q].pc = "finish" /\ req'[q].pc = "tidy" /\ req'[q].result = req[q].result
  BY <1>1, AtFacts DEF DeleteLeftovers, Steps
<1>3. UNCHANGED <<session, parts, blobs, journal, reaper, stalled>>
  BY DEF DeleteLeftovers, tables
<1>4. OwnPart(q) \subseteq Keys
  BY KeyFacts DEF OwnPart
<1>5. /\ object' \in [Keys -> Content \cup {Null}] /\ lost' \subseteq Keys /\ faults' \in 0..MaxFaults
      /\ lost \subseteq lost'
      /\ \A k \in Keys : object'[k] \in {object[k], Null}
      /\ \A k \in Leftovers(q) \cap OwnPart(q) : Gone(k)'
  <2>1. CASE object' = Without(Leftovers(q)) /\ UNCHANGED <<lost, faults>>
    BY <1>4, <2>1, WithoutFacts DEF TypeOK, Gone
  <2>2. CASE \E k \in Leftovers(q) :
               /\ Fault
               /\ object' = Without(Leftovers(q) \ {k})
               /\ lost' = IF k \in OwnPart(q) THEN lost \cup {k} ELSE lost
    <3>1. PICK k \in Leftovers(q) :
            /\ Fault
            /\ object' = Without(Leftovers(q) \ {k})
            /\ lost' = IF k \in OwnPart(q) THEN lost \cup {k} ELSE lost
      BY <2>2
    <3>2. /\ object' \in [Keys -> Content \cup {Null}]
          /\ \A j \in Keys : /\ object'[j] \in {object[j], Null}
                             /\ j \in Leftovers(q) \ {k} => object'[j] = Null
      BY <3>1, WithoutFacts
    <3>3. lost' \subseteq Keys /\ lost \subseteq lost' /\ faults' \in 0..MaxFaults
      BY <1>4, <3>1 DEF TypeOK, Fault
    <3>4. \A j \in Leftovers(q) \cap OwnPart(q) : Gone(j)'
      BY <1>4, <3>1, <3>2 DEF Gone
    <3> QED BY <3>2, <3>3, <3>4
  <2> QED BY <2>1, <2>2 DEF DeleteLeftovers
<1>6. Places' /\ Collectors'
  <2>1. Places'
    BY <1>1, <1>2, PlacesKept, PlaceFacts DEF Stays
  <2> QED BY <1>3, <2>1 DEF Collectors
<1>7. req' \in [Requests -> Request]
  BY <1>2, ReqType
<1>8. TypeOK'
  BY <1>3, <1>5, <1>7 DEF TypeOK
<1> QED BY <1>2, <1>3, <1>5, <1>6, <1>8

\* Then it clears the rows of its own objects.
LEMMA FinishStep ==
  ASSUME Types, NEW q \in Requests, Finish(q)
  PROVE  /\ Types' /\ Only(q)
         /\ Stays(q) /\ req'[q].pc = "done"
         /\ req[q].pc = "tidy" /\ req'[q].result \in {"recovered", "created"}
         /\ (req'[q].result = "recovered") <=> (req[q].result = "recovered")
         /\ UNCHANGED <<session, parts, blobs, object, reaper, stalled, lost>>
         /\ \A k \in Keys : journal'[k] = IF k \in OwnPart(q) \cup {CompleteKey(q)} THEN Null ELSE journal[k]
<1> USE DEF Types
<1>1. req[q] \in Request /\ req[q].pc = "tidy"
  BY PlaceFacts DEF Finish
<1>2. PICK x \in {"recovered", "created"} :
        /\ req' = Ended(q, x)
        /\ (x = "recovered") <=> (req[q].result = "recovered")
  BY DEF Finish
<1>3. /\ Only(q)
      /\ Stays(q) /\ req'[q].pc = "done"
      /\ req[q].pc = "tidy" /\ req'[q].result \in {"recovered", "created"}
      /\ (req'[q].result = "recovered") <=> (req[q].result = "recovered")
  BY <1>1, <1>2, EndedFacts DEF Results
<1>4. UNCHANGED <<session, parts, blobs, object, reaper, stalled, lost, faults>>
  BY DEF Finish, tables, gcVars
<1>5. Places' /\ Collectors'
  <2>1. Places'
    BY <1>3, PlacesKeptAtEnd
  <2> QED BY <1>4, <2>1 DEF Collectors
<1>6. /\ journal' \in [Keys -> JournalRow \cup {Null}]
      /\ \A k \in Keys : journal'[k] = IF k \in OwnPart(q) \cup {CompleteKey(q)} THEN Null ELSE journal[k]
  BY DEF Finish, TypeOK
<1>7. req' \in [Requests -> Request]
  BY <1>3, ReqType
<1>8. TypeOK'
  BY <1>4, <1>6, <1>7 DEF TypeOK
<1> QED BY <1>3, <1>4, <1>5, <1>6, <1>8

\* A DELETE takes an open session.
LEMMA ClaimCancelStep ==
  ASSUME Types, NEW q \in Requests, ClaimCancel(q)
  PROVE  /\ Types' /\ Only(q)
         /\ req[q].pc = "new" /\ KindOf[q] = "cancel" /\ req'[q].pc = "list" /\ req'[q].result = req[q].result
         /\ req'[q].session \in Posts /\ Exists(req'[q].session) /\ ~Locked(req'[q].session)
         /\ session[req'[q].session].state = "open" /\ session' = Claimed(req'[q].session, q)
<1> USE DEF Types
<1>1. req[q] \in Request /\ req[q].pc = "new" /\ KindOf[q] = "cancel"
  BY PlaceFacts DEF ClaimCancel
<1>2. PICK s \in Posts :
        /\ Exists(s) /\ ~Locked(s) /\ session[s].state = "open"
        /\ session' = Claimed(s, q)
        /\ req' = [req EXCEPT ![q].pc = "list", ![q].session = s]
  BY DEF ClaimCancel
<1>3. /\ Only(q)
      /\ req[q].pc = "new" /\ KindOf[q] = "cancel" /\ req'[q].pc = "list" /\ req'[q].result = req[q].result
      /\ req'[q].session \in Posts /\ Exists(req'[q].session) /\ ~Locked(req'[q].session)
      /\ session[req'[q].session].state = "open" /\ session' = Claimed(req'[q].session, q)
  BY <1>1, <1>2 DEF Only, TypeOK, Request, Steps
<1>4. UNCHANGED <<parts, blobs, object, journal, reaper, stalled, lost, faults>>
  BY DEF ClaimCancel, tables, gcVars
<1>5. Places' /\ Collectors'
  <2>1. Places'
    BY <1>1, <1>3, PlacesKept, PlaceFacts DEF Stays
  <2> QED BY <1>4, <2>1 DEF Collectors
<1>6. session' \in [Posts -> Session \cup {Null}]
  BY <1>2, ClaimedFacts
<1>7. req' \in [Requests -> Request]
  BY <1>3, ReqType
<1>8. TypeOK'
  BY <1>4, <1>6, <1>7 DEF TypeOK
<1> QED BY <1>3, <1>5, <1>8

\* A DELETE lists the keys of the session.
LEMMA ListKeysStep ==
  ASSUME Types, NEW q \in Requests, ListKeys(q)
  PROVE  /\ Types' /\ Only(q)
         /\ req[q].pc = "list" /\ req'[q].pc = "delete" /\ KindOf[q] = "cancel"
         /\ req'[q].session = req[q].session /\ req'[q].result = req[q].result
<1> USE DEF Types
<1>1. req[q] \in Request /\ req[q].pc = "list" /\ req[q].session \in Posts
  BY PlaceFacts DEF ListKeys
<1>2. <<BodyKey(req[q].session)>> \o parts[req[q].session] \in Seq(Keys)
  <2>1. BodyKey(req[q].session) \in Keys /\ parts[req[q].session] \in Seq(Keys)
    BY <1>1, KeyFacts DEF TypeOK, Posts
  <2> QED BY <2>1
<1>3. /\ Only(q)
      /\ req[q].pc = "list" /\ req'[q].pc = "delete" /\ KindOf[q] = "cancel"
      /\ req'[q].session = req[q].session /\ req'[q].result = req[q].result
  BY <1>1, <1>2, PlaceFacts DEF ListKeys, Only, TypeOK, Request, Steps
<1>4. UNCHANGED <<session, parts, blobs, object, journal, reaper, stalled, lost, faults>>
  BY DEF ListKeys, tables, gcVars
<1>5. Places' /\ Collectors'
  <2>1. Places'
    BY <1>1, <1>3, PlacesKept, PlaceFacts DEF Stays
  <2> QED BY <1>4, <2>1 DEF Collectors
<1>6. req' \in [Requests -> Request]
  BY <1>3, ReqType
<1>7. TypeOK'
  BY <1>4, <1>6 DEF TypeOK
<1> QED BY <1>3, <1>5, <1>7

\* It deletes them one by one.
LEMMA CancelDeleteStep ==
  ASSUME Types, NEW q \in Requests, CancelDelete(q)
  PROVE  /\ Types' /\ Only(q)
         /\ req[q].pc = "delete" /\ req'[q].pc = "delete" /\ KindOf[q] = "cancel"
         /\ req'[q].session = req[q].session /\ req'[q].result = req[q].result
<1> USE DEF Types
<1>1. req[q] \in Request /\ req[q].pc = "delete" /\ req[q].session \in Posts
  BY PlaceFacts DEF CancelDelete
<1>2. Tail(req[q].parts) \in Seq(Keys)
  BY <1>1 DEF CancelDelete, Request
<1>3. /\ Only(q)
      /\ req[q].pc = "delete" /\ req'[q].pc = "delete" /\ KindOf[q] = "cancel"
      /\ req'[q].session = req[q].session /\ req'[q].result = req[q].result
  BY <1>1, <1>2, PlaceFacts DEF CancelDelete, Only, TypeOK, Request, Steps
<1>4. UNCHANGED <<session, parts, blobs, journal, reaper, stalled, lost, faults>>
  BY DEF CancelDelete, tables, gcVars
<1>5. Places' /\ Collectors'
  <2>1. Places'
    BY <1>1, <1>3, PlacesKept, PlaceFacts DEF Stays
  <2> QED BY <1>4, <2>1 DEF Collectors
<1>6. object' \in [Keys -> Content \cup {Null}]
  BY WithoutFacts DEF CancelDelete
<1>7. req' \in [Requests -> Request]
  BY <1>3, ReqType
<1>8. TypeOK'
  BY <1>4, <1>6, <1>7 DEF TypeOK
<1> QED BY <1>3, <1>5, <1>8

\* It deletes the session if it still holds it.
LEMMA CancelDropStep ==
  ASSUME Types, NEW q \in Requests, CancelDrop(q)
  PROVE  /\ Types' /\ Only(q)
         /\ Stays(q) /\ req'[q].pc = "done"
         /\ req[q].pc = "delete" /\ req'[q].result \in {"cancelled", "error"} /\ KindOf[q] = "cancel"
         /\ \/ UNCHANGED <<session, parts>> /\ req'[q].result = "error"
            \/ /\ Owns(q) /\ req[q].session \in Posts
               /\ session' = [session EXCEPT ![req[q].session] = Null]
               /\ parts' = [parts EXCEPT ![req[q].session] = <<>>]
<1> USE DEF Types
<1>1. req[q] \in Request /\ req[q].pc = "delete" /\ req[q].session \in Posts
  BY PlaceFacts DEF CancelDrop
<1>2. /\ Only(q)
      /\ Stays(q) /\ req'[q].pc = "done"
      /\ req[q].pc = "delete" /\ req'[q].result \in {"cancelled", "error"} /\ KindOf[q] = "cancel"
      /\ \/ UNCHANGED <<session, parts>> /\ req'[q].result = "error"
         \/ /\ Owns(q) /\ req[q].session \in Posts
            /\ session' = [session EXCEPT ![req[q].session] = Null]
            /\ parts' = [parts EXCEPT ![req[q].session] = <<>>]
  <2>1. CASE Owns(q)
    BY <1>1, <2>1, EndedFacts, PlaceFacts DEF CancelDrop, Results
  <2>2. CASE ~Owns(q)
    BY <1>1, <2>2, EndedFacts, PlaceFacts DEF CancelDrop, Results
  <2> QED BY <2>1, <2>2
<1>3. UNCHANGED <<blobs, object, journal, reaper, stalled, lost, faults>>
  BY DEF CancelDrop, tables, gcVars
<1>4. Places' /\ Collectors'
  <2>1. Places'
    BY <1>2, PlacesKeptAtEnd
  <2> QED BY <1>3, <2>1 DEF Collectors
<1>5. session' \in [Posts -> Session \cup {Null}]
  BY <1>1 DEF CancelDrop, TypeOK
<1>6. parts' \in [Posts -> Seq(UploadKeys)]
  <2>1. <<>> \in Seq(UploadKeys)
    OBVIOUS
  <2> QED BY <1>1, <2>1 DEF CancelDrop, TypeOK
<1>7. req' \in [Requests -> Request]
  BY <1>2, ReqType
<1>8. TypeOK'
  BY <1>3, <1>5, <1>6, <1>7 DEF TypeOK
<1> QED BY <1>2, <1>4, <1>8

\* A DELETE that fails may reopen the session.
LEMMA CancelFailsStep ==
  ASSUME Types, NEW q \in Requests, CancelFails(q)
  PROVE  /\ Types' /\ Only(q)
         /\ Stays(q) /\ req'[q].pc = "done"
         /\ req[q].pc \in {"list", "delete"} /\ req'[q].result = "error" /\ KindOf[q] = "cancel"
         /\ session' = session \/ session' = Reopened(q)
<1> USE DEF Types
<1>1. req[q] \in Request /\ req[q].pc # "new"
  BY PlaceFacts DEF CancelFails
<1>2. /\ Only(q)
      /\ Stays(q) /\ req'[q].pc = "done"
      /\ req[q].pc \in {"list", "delete"} /\ req'[q].result = "error" /\ KindOf[q] = "cancel"
      /\ session' = session \/ session' = Reopened(q)
  BY EndedFacts, PlaceFacts DEF CancelFails, Results
<1>3. UNCHANGED <<parts, blobs, object, journal, reaper, stalled, lost>>
  BY DEF CancelFails, tables, gcVars
<1>4. Places' /\ Collectors'
  <2>1. Places'
    BY <1>2, PlacesKeptAtEnd
  <2> QED BY <1>3, <2>1 DEF Collectors
<1>5. session' \in [Posts -> Session \cup {Null}]
  BY ReopenedFacts DEF CancelFails, TypeOK
<1>6. faults' \in 0..MaxFaults
  BY DEF CancelFails, Fault, TypeOK
<1>7. req' \in [Requests -> Request]
  BY <1>2, ReqType
<1>8. TypeOK'
  BY <1>3, <1>5, <1>6, <1>7 DEF TypeOK
<1> QED BY <1>2, <1>4, <1>8

\* A handler may be dropped anywhere.
LEMMA AbortStep ==
  ASSUME Types, NEW q \in Requests, Abort(q)
  PROVE  /\ Types' /\ Only(q)
         /\ Stays(q) /\ req'[q].pc = "done"
         /\ req[q].pc \notin {"new", "done"} /\ req'[q].result = "error"
<1> USE DEF Types
<1>1. req[q] \in Request /\ req[q].pc # "new"
  BY PlaceFacts DEF Abort, InFlight
<1>2. /\ Only(q)
      /\ Stays(q) /\ req'[q].pc = "done"
      /\ req[q].pc \notin {"new", "done"} /\ req'[q].result = "error"
  BY <1>1, EndedFacts DEF Abort, InFlight, Results
<1>3. UNCHANGED <<session, parts, blobs, object, journal, reaper, stalled, lost>>
  BY DEF Abort, tables, gcVars, InFlight
<1>4. Places' /\ Collectors'
  <2>1. Places'
    BY <1>2, PlacesKeptAtEnd
  <2> QED BY <1>3, <2>1 DEF Collectors
<1>5. faults' \in 0..MaxFaults
  BY DEF Abort, Fault, TypeOK
<1>6. req' \in [Requests -> Request]
  BY <1>2, ReqType
<1>7. TypeOK'
  BY <1>3, <1>5, <1>6 DEF TypeOK
<1> QED BY <1>2, <1>4, <1>7

\* What the passing of time does to a session.
AgeEffect(s, a) ==
  /\ Exists(s) /\ session'[s] # Null
  /\ session'[s].age = a /\ session'[s].state = session[s].state
  /\ session'[s].token = session[s].token /\ session'[s].computed = session[s].computed
  /\ \A t \in Posts \ {s} : session'[t] = session[t]

\* It keeps the types.
LEMMA AgeFacts ==
  ASSUME Types, NEW s \in Posts, Exists(s), NEW a \in {"stale", "abandoned"},
         session' = [session EXCEPT ![s] = [@ EXCEPT !.age = a]]
  PROVE  AgeEffect(s, a) /\ session' \in [Posts -> Session \cup {Null}]
<1> DEFINE row == [session[s] EXCEPT !.age = a]
<1>1. session[s] \in Session
  BY DEF Types, TypeOK, Exists
<1>2. row \in Session /\ row.age = a /\ row.state = session[s].state
      /\ row.token = session[s].token /\ row.computed = session[s].computed
  BY <1>1 DEF Session
<1>3. row # Null
  BY <1>2
<1>4. session' = [session EXCEPT ![s] = row]
  OBVIOUS
<1> HIDE DEF row
<1>5. session'[s] = row /\ \A t \in Posts \ {s} : session'[t] = session[t]
  BY <1>4 DEF Types, TypeOK
<1>6. session' \in [Posts -> Session \cup {Null}]
  BY <1>2, <1>4 DEF Types, TypeOK
<1> QED BY <1>2, <1>3, <1>5, <1>6 DEF AgeEffect

\* A PUT that stalls still holds its session.
LEMMA StallStep ==
  ASSUME Types, NEW q \in Requests, Stall(q)
  PROVE  /\ Types' /\ req' = req /\ stalled' = stalled \cup {q}
         /\ Owns(q) /\ AgeEffect(req[q].session, "stale")
<1> USE DEF Types
<1>1. Owns(q) /\ req[q].session \in Posts /\ Exists(req[q].session)
  BY PlaceFacts DEF Stall, InFlight, Owns
<1>2. AgeEffect(req[q].session, "stale") /\ session' \in [Posts -> Session \cup {Null}]
  BY <1>1, AgeFacts DEF Stall
<1>3. UNCHANGED <<parts, blobs, object, journal, req, reaper, lost>>
      /\ stalled' = stalled \cup {q} /\ faults' \in 0..MaxFaults
  BY DEF Stall, Fault, TypeOK
<1>4. TypeOK'
  BY <1>2, <1>3 DEF TypeOK
<1> QED BY <1>1, <1>2, <1>3, <1>4 DEF Places, InFlight, Collectors

\* A session ages if nobody who runs holds its lease.
LEMMA AgeSessionStep ==
  ASSUME Types, NEW s \in Posts, AgeSession(s)
  PROVE  /\ Types'
         /\ UNCHANGED <<parts, blobs, object, journal, req, reaper, stalled, lost>>
         /\ \A q \in Requests : InFlight(q) => session[s].token # q
         /\ \/ AgeEffect(s, "stale") /\ session[s].age = "fresh"
            \/ /\ AgeEffect(s, "abandoned") /\ session[s].age = "stale"
               /\ \A q \in Requests : InFlight(q) => req[q].session # s
<1> USE DEF Types
<1>1. UNCHANGED <<parts, blobs, object, journal, req, reaper, stalled, lost, faults>>
      /\ Exists(s)
  BY DEF AgeSession, gcVars
<1>2. /\ session' \in [Posts -> Session \cup {Null}]
      /\ \/ AgeEffect(s, "stale") /\ session[s].age = "fresh"
         \/ /\ AgeEffect(s, "abandoned") /\ session[s].age = "stale"
            /\ \A q \in Requests : InFlight(q) => req[q].session # s
  BY <1>1, AgeFacts DEF AgeSession
<1>3. TypeOK'
  BY <1>1, <1>2 DEF TypeOK
<1> QED BY <1>1, <1>2, <1>3 DEF AgeSession, Places, InFlight, Collectors

\* A journal row ages if the request that wrote it is over.
LEMMA AgeKeyStep ==
  ASSUME Types, NEW k \in Keys, AgeKey(k)
  PROVE  /\ Types'
         /\ UNCHANGED <<session, parts, blobs, object, req, reaper, stalled, lost>>
         /\ journal[k] # Null /\ ~InFlight(journal[k].by)
         /\ journal'[k] # Null /\ journal'[k].by = journal[k].by
         /\ \A j \in Keys \ {k} : journal'[j] = journal[j]
<1> USE DEF Types
<1> DEFINE row == [journal[k] EXCEPT !.aged = TRUE]
<1>1. UNCHANGED <<session, parts, blobs, object, req, reaper, stalled, lost, faults>>
      /\ journal[k] # Null /\ ~InFlight(journal[k].by) /\ journal' = [journal EXCEPT ![k] = row]
  BY DEF AgeKey, gcVars, tables
<1>2. journal[k] \in JournalRow
  BY <1>1 DEF TypeOK
<1>3. row \in JournalRow /\ row.by = journal[k].by
  BY <1>2 DEF JournalRow
<1>4. row # Null
  BY <1>3
<1> HIDE DEF row
<1>5. journal' \in [Keys -> JournalRow \cup {Null}]
  BY <1>1, <1>3 DEF TypeOK
<1>6. TypeOK'
  BY <1>1, <1>5 DEF TypeOK
<1>7. journal'[k] = row /\ \A j \in Keys \ {k} : journal'[j] = journal[j]
  BY <1>1 DEF TypeOK
<1> QED BY <1>1, <1>3, <1>4, <1>6, <1>7 DEF Places, InFlight, Collectors

-----------------------------------------------------------------------------

\* Only the record of r changes, to a well-typed one that has what it needs.
OnlyReaper(r) ==
  /\ reaper' = [reaper EXCEPT ![r] = reaper'[r]] /\ reaper'[r] \in Reaper
  /\ reaper'[r].pc = "sweep" => reaper'[r].session \in Posts
  /\ reaper'[r].pc \in {"reap", "row"} => reaper'[r].key \in Keys

\* A collector that is idle needs nothing.
LEMMA IdleFacts ==
  ASSUME Types, NEW r \in Reapers, reaper' = [reaper EXCEPT ![r] = IdleReaper]
  PROVE  OnlyReaper(r) /\ reaper'[r].pc = "idle"
BY DEF Types, TypeOK, OnlyReaper, IdleReaper, Reaper

\* A step of a collector keeps the types if its writes do.
LEMMA ReaperTypes ==
  ASSUME Types, NEW r \in Reapers, OnlyReaper(r),
         session' \in [Posts -> Session \cup {Null}], parts' \in [Posts -> Seq(UploadKeys)],
         object' \in [Keys -> Content \cup {Null}], journal' \in [Keys -> JournalRow \cup {Null}],
         UNCHANGED <<blobs, req, stalled, lost>>, faults' \in 0..MaxFaults
  PROVE  Types'
<1> USE DEF Types
<1>1. reaper' \in [Reapers -> Reaper]
  BY DEF OnlyReaper, TypeOK
<1>2. TypeOK'
  BY <1>1 DEF TypeOK
<1>3. Collectors'
  BY DEF OnlyReaper, Collectors, TypeOK
<1>4. Places'
  BY DEF Places, InFlight
<1> QED BY <1>2, <1>3, <1>4

\* A sweep locks an abandoned session nobody has locked.
LEMMA LockAbandonedStep ==
  ASSUME Types, NEW r \in Reapers, LockAbandoned(r)
  PROVE  /\ Types' /\ OnlyReaper(r) /\ reaper'[r].pc = "sweep" /\ reaper[r].pc = "idle"
         /\ reaper'[r].key = Null
         /\ UNCHANGED <<session, parts, blobs, object, journal, req, stalled, lost>>
         /\ Exists(reaper'[r].session) /\ session[reaper'[r].session].age = "abandoned"
         /\ ~Locked(reaper'[r].session)
<1> USE DEF Types
<1>1. PICK s \in Posts :
        /\ Exists(s) /\ session[s].age = "abandoned" /\ ~Locked(s)
        /\ reaper' = [reaper EXCEPT ![r] =
             [pc |-> "sweep", session |-> s, key |-> Null,
              keys |-> {BodyKey(s)} \cup {parts[s][i] : i \in DOMAIN parts[s]}]]
  BY DEF LockAbandoned
<1>2. {BodyKey(s)} \cup {parts[s][i] : i \in DOMAIN parts[s]} \subseteq UploadKeys
  <2>1. parts[s] \in Seq(UploadKeys) /\ BodyKey(s) \in UploadKeys
    BY KeyFacts DEF TypeOK, Posts
  <2> QED BY <2>1
<1>3. OnlyReaper(r) /\ reaper'[r].pc = "sweep" /\ reaper'[r].session = s /\ reaper'[r].key = Null
  BY <1>1, <1>2 DEF OnlyReaper, TypeOK, Reaper
<1>4. UNCHANGED <<session, parts, blobs, object, journal, req, stalled, lost, faults>>
      /\ reaper[r].pc = "idle"
  BY DEF LockAbandoned, tables
<1>5. Types'
  BY <1>3, <1>4, ReaperTypes DEF TypeOK
<1> QED BY <1>1, <1>3, <1>4, <1>5

\* It deletes the objects one by one.
LEMMA SweepDeleteStep ==
  ASSUME Types, NEW r \in Reapers, SweepDelete(r)
  PROVE  /\ Types' /\ OnlyReaper(r) /\ reaper'[r].pc = "sweep" /\ reaper[r].pc = "sweep"
         /\ reaper'[r].session = reaper[r].session /\ reaper'[r].key = reaper[r].key
         /\ UNCHANGED <<session, parts, blobs, journal, req, stalled, lost>>
         /\ \E ks : object' = Without(ks)
<1> USE DEF Types
<1>1. PICK k \in reaper[r].keys :
        object' = Without({k}) /\ reaper' = [reaper EXCEPT ![r].keys = @ \ {k}]
  BY DEF SweepDelete
<1>2. /\ OnlyReaper(r) /\ reaper'[r].pc = "sweep" /\ reaper'[r].session = reaper[r].session
      /\ reaper'[r].key = reaper[r].key
  <2> DEFINE rest == reaper[r].keys \ {k}
             row  == [reaper[r] EXCEPT !.keys = rest]
  <2>1. reaper[r] \in Reaper /\ reaper[r].pc = "sweep" /\ reaper[r].session \in Posts
    BY DEF SweepDelete, TypeOK, Collectors
  <2>2. row \in Reaper /\ row.pc = "sweep" /\ row.session = reaper[r].session
        /\ row.key = reaper[r].key
    BY <2>1 DEF Reaper
  <2>3. reaper' = [reaper EXCEPT ![r] = row]
    BY <1>1
  <2> HIDE DEF row
  <2> QED BY <2>1, <2>2, <2>3 DEF OnlyReaper, TypeOK
<1>3. UNCHANGED <<session, parts, blobs, journal, req, stalled, lost, faults>>
      /\ reaper[r].pc = "sweep"
  BY DEF SweepDelete, tables
<1>4. Types'
  BY <1>1, <1>2, <1>3, ReaperTypes, WithoutFacts DEF TypeOK
<1> QED BY <1>1, <1>2, <1>3, <1>4

\* It deletes the session, and leaves the journal alone.
LEMMA SweepCommitStep ==
  ASSUME Types, NEW r \in Reapers, SweepCommit(r)
  PROVE  /\ Types' /\ OnlyReaper(r) /\ reaper'[r].pc = "idle" /\ reaper[r].pc = "sweep"
         /\ UNCHANGED <<blobs, object, journal, req, stalled, lost>>
         /\ reaper[r].session \in Posts
         /\ session' = [session EXCEPT ![reaper[r].session] = Null]
         /\ parts' = [parts EXCEPT ![reaper[r].session] = <<>>]
<1> USE DEF Types
<1>1. /\ UNCHANGED <<blobs, object, journal, req, stalled, lost, faults>>
      /\ session' = [session EXCEPT ![reaper[r].session] = Null]
      /\ parts' = [parts EXCEPT ![reaper[r].session] = <<>>]
      /\ reaper[r].pc = "sweep" /\ reaper[r].session \in Posts
  BY DEF SweepCommit, KeptJournal, Collectors
<1>2. OnlyReaper(r) /\ reaper'[r].pc = "idle"
  BY IdleFacts DEF SweepCommit
<1>3. parts' \in [Posts -> Seq(UploadKeys)]
  <2>1. <<>> \in Seq(UploadKeys)
    OBVIOUS
  <2> QED BY <1>1, <2>1 DEF TypeOK
<1>4. session' \in [Posts -> Session \cup {Null}]
  BY <1>1 DEF TypeOK
<1>5. Types'
  BY <1>1, <1>2, <1>3, <1>4, ReaperTypes DEF TypeOK
<1> QED BY <1>1, <1>2, <1>5

\* A cleanup-key sweep selects an aged row.
LEMMA SelectKeyStep ==
  ASSUME Types, NEW r \in Reapers, SelectKey(r)
  PROVE  /\ Types' /\ OnlyReaper(r) /\ reaper'[r].pc = "reap" /\ reaper[r].pc = "idle"
         /\ Reapable(reaper'[r].key)
         /\ UNCHANGED <<session, parts, blobs, object, journal, req, stalled, lost>>
<1> USE DEF Types
<1>1. PICK k \in Keys : Reapable(k) /\ reaper' = [reaper EXCEPT ![r].pc = "reap", ![r].key = k]
  BY DEF SelectKey
<1>2. OnlyReaper(r) /\ reaper'[r].pc = "reap" /\ reaper'[r].key = k
  <2> DEFINE row == [reaper[r] EXCEPT !.pc = "reap", !.key = k]
  <2>1. reaper[r] \in Reaper
    BY DEF TypeOK
  <2>2. row \in Reaper /\ row.pc = "reap" /\ row.key = k
    BY <2>1 DEF Reaper
  <2>3. reaper' = [reaper EXCEPT ![r] = row]
    BY <1>1
  <2> HIDE DEF row
  <2> QED BY <2>2, <2>3 DEF OnlyReaper, TypeOK
<1>3. UNCHANGED <<session, parts, blobs, object, journal, req, stalled, lost, faults>>
      /\ reaper[r].pc = "idle"
  BY DEF SelectKey, tables
<1>4. Types'
  BY <1>2, <1>3, ReaperTypes DEF TypeOK
<1> QED BY <1>1, <1>2, <1>3, <1>4

\* The object goes first.
LEMMA ReapObjectStep ==
  ASSUME Types, NEW r \in Reapers, ReapObject(r)
  PROVE  /\ Types' /\ OnlyReaper(r) /\ reaper'[r].pc = "row" /\ reaper[r].pc = "reap"
         /\ reaper'[r].key = reaper[r].key /\ reaper[r].key \in Keys
         /\ object' = Without({reaper[r].key})
         /\ UNCHANGED <<session, parts, blobs, journal, req, stalled, lost>>
<1> USE DEF Types
<1>1. /\ OnlyReaper(r) /\ reaper'[r].pc = "row" /\ reaper'[r].key = reaper[r].key
      /\ reaper[r].key \in Keys
  BY ZenonT(60) DEF ReapObject, OnlyReaper, TypeOK, Reaper, Collectors
<1>2. UNCHANGED <<session, parts, blobs, journal, req, stalled, lost, faults>>
      /\ reaper[r].pc = "reap" /\ object' = Without({reaper[r].key})
  BY DEF ReapObject, tables
<1>3. Types'
  BY <1>1, <1>2, ReaperTypes, WithoutFacts DEF TypeOK
<1> QED BY <1>1, <1>2, <1>3

\* The row goes last.
LEMMA ReapRowStep ==
  ASSUME Types, NEW r \in Reapers, ReapRow(r)
  PROVE  /\ Types' /\ OnlyReaper(r) /\ reaper'[r].pc = "idle" /\ reaper[r].pc = "row"
         /\ reaper[r].key \in Keys
         /\ \A k \in Keys : journal'[k] # journal[k] => k = reaper[r].key /\ journal'[k] = Null
         /\ UNCHANGED <<session, parts, blobs, object, req, stalled, lost>>
<1> USE DEF Types
<1>1. OnlyReaper(r) /\ reaper'[r].pc = "idle"
  BY IdleFacts DEF ReapRow
<1>2. UNCHANGED <<session, parts, blobs, object, req, stalled, lost, faults>>
      /\ reaper[r].pc = "row" /\ reaper[r].key \in Keys
  BY DEF ReapRow, tables, Collectors
<1>3. journal' = journal \/ journal' = [journal EXCEPT ![reaper[r].key] = Null]
  BY DEF ReapRow
<1>4. journal' \in [Keys -> JournalRow \cup {Null}]
  BY <1>2, <1>3 DEF TypeOK
<1>5. \A k \in Keys : journal'[k] # journal[k] => k = reaper[r].key /\ journal'[k] = Null
  BY <1>3 DEF TypeOK
<1>6. Types'
  BY <1>1, <1>2, <1>4, ReaperTypes DEF TypeOK
<1> QED BY <1>1, <1>2, <1>5, <1>6

\* A collector that fails starts again.
LEMMA ReaperFailsStep ==
  ASSUME Types, NEW r \in Reapers, ReaperFails(r)
  PROVE  /\ Types' /\ OnlyReaper(r) /\ reaper'[r].pc = "idle"
         /\ UNCHANGED <<session, parts, blobs, object, journal, req, stalled, lost>>
<1> USE DEF Types
<1>1. OnlyReaper(r) /\ reaper'[r].pc = "idle"
  BY IdleFacts DEF ReaperFails
<1>2. UNCHANGED <<session, parts, blobs, object, journal, req, stalled, lost>>
      /\ faults' \in 0..MaxFaults
  BY DEF ReaperFails, tables, Fault, TypeOK
<1>3. Types'
  BY <1>1, <1>2, ReaperTypes DEF TypeOK
<1> QED BY <1>1, <1>2, <1>3

-----------------------------------------------------------------------------

\* In every reachable state the types and the places are right.
THEOREM TypesHold == Spec => []Types
<1>1. Init => Types
  <2> SUFFICES ASSUME Init PROVE Types
    OBVIOUS
  <2>1. TypeOK
    BY DEF Init, TypeOK, Request, Reaper, Steps
  <2>2. Places /\ Collectors
    BY DEF Init, Places, InFlight, Collectors, StepsOf
  <2> QED BY <2>1, <2>2 DEF Types
<1>2. Types /\ [Next]_vars => Types'
  <2> SUFFICES ASSUME Types, [Next]_vars PROVE Types'
    OBVIOUS
  <2>1. ASSUME NEW q \in Requests, RequestStep(q) PROVE Types'
    BY <2>1, StartUploadStep, BeginPatchStep, PutBodyStep, MarkBodyStep, OpenSessionStep,
       AppendPartStep, AppendLostStep, RecoverAppendStep, ClaimSessionStep, DropEmptyPartStep, ClearEmptyPartStep,
       PromoteSinglePartStep, CollectPartsStep, ConcatStep, MarkCompleteStep, VerifyStep,
       RejectContentStep, CopyBlobStep, DropCompleteStep, CommitBlobStep, RecoverCommitStep,
       ClearBlobKeyStep, DeleteLeftoversStep, FinishStep, CompleteFailsStep, ClaimCancelStep,
       ListKeysStep, CancelDeleteStep, CancelDropStep DEF RequestStep
  <2>2. ASSUME NEW q \in Requests, RequestFault(q) PROVE Types'
    BY <2>2, WriteFailsStep, AppendUnknownStep, CommitUnknownStep, CancelFailsStep, AbortStep,
       StallStep DEF RequestFault
  <2>3. ASSUME NEW r \in Reapers, ReaperStep(r) \/ ReaperFails(r) PROVE Types'
    BY <2>3, LockAbandonedStep, SweepDeleteStep, SweepCommitStep, SelectKeyStep, ReapObjectStep,
       ReapRowStep, ReaperFailsStep DEF ReaperStep
  <2>4. CASE UNCHANGED vars
    BY <2>4 DEF vars, tables, Types, TypeOK, Places, InFlight, Collectors
  <2> QED BY <2>1, <2>2, <2>3, <2>4, AgeSessionStep, AgeKeyStep DEF Next
<1> QED BY <1>1, <1>2, PTL DEF Spec

\* Every variable holds a value of its type.
THEOREM TypeCorrect == Spec => []TypeOK
<1>1. Types => TypeOK
  BY DEF Types
<1> QED BY <1>1, TypesHold, PTL

-----------------------------------------------------------------------------
(* Accounting. *)

\* The journal rows stay, but for their mark; new ones are for keys of q.
JournalGrows(q) ==
  \A k \in UploadKeys :
    /\ journal[k] # Null =>
         journal'[k] # Null /\ journal'[k].by = journal[k].by /\ journal'[k].aged = journal[k].aged
    /\ journal[k] = Null /\ journal'[k] # Null =>
         k \in Scratch(q) /\ journal'[k].by = q /\ journal'[k].aged = FALSE

\* Objects are deleted; new ones are for journaled keys of q.
ObjectsShrink(q) ==
  \A k \in UploadKeys :
    object'[k] \in {object[k], Null} \/ (k \in Scratch(q) /\ journal'[k] # Null)

\* A step of q keeps the part of Accounting that is not about the journal's deletions.
LEMMA BooksKept ==
  ASSUME Types, Accounting, NEW q \in Requests, Only(q),
         req[q].pc # "done", req'[q].pc # "new", UNCHANGED reaper, lost \subseteq lost',
         ObjectsShrink(q), Knows(q)'
  PROVE  Known' /\ Reaping'
<1>1. \A p \in Requests \ {q} : req'[p] = req[p]
  BY DEF Only, Types, TypeOK
<1>2. \A p \in Requests \ {q} : BodyKey(p) \notin Scratch(q) /\ CompleteKey(p) \notin Scratch(q)
  BY KeyFacts DEF Scratch
<1>3. Known'
  <2> SUFFICES ASSUME NEW p \in Requests, p # q PROVE Knows(p)'
    BY DEF Known
  <2>1. req'[p] = req[p] /\ Knows(p)
    BY <1>1 DEF Accounting, Known
  <2>2. /\ object'[CompleteKey(p)] \in {object[CompleteKey(p)], Null}
        /\ object'[BodyKey(p)] \in {object[BodyKey(p)], Null}
    BY <1>2, KeyFacts DEF ObjectsShrink
  <2> QED BY <2>1, <2>2 DEF Knows, Gone
<1>4. Reaping'
  <2> SUFFICES ASSUME NEW r \in Reapers, reaper[r].key \in UploadKeys,
                      reaper[r].pc \in {"reap", "row"}
               PROVE  /\ req'[reaper[r].key[2]].pc = "done"
                      /\ reaper[r].pc = "row" => object'[reaper[r].key] = Null
    BY DEF Reaping
  <2> DEFINE k == reaper[r].key
  <2>1. req[k[2]].pc = "done" /\ (reaper[r].pc = "row" => object[k] = Null)
    BY DEF Accounting, Reaping
  <2>2. k[2] \in Requests \ {q} /\ k \notin Scratch(q)
    BY <2>1, KeyFacts DEF Scratch
  <2> QED BY <1>1, <2>1, <2>2 DEF ObjectsShrink
<1> QED BY <1>3, <1>4

\* A step of q that deletes no journal row keeps Accounting.
LEMMA AccountingKept ==
  ASSUME Types, Accounting, NEW q \in Requests, Only(q),
         req[q].pc # "done", req'[q].pc # "new", UNCHANGED reaper, lost \subseteq lost',
         ObjectsShrink(q), JournalGrows(q), Knows(q)',
         req'[q].pc = "put" => journal'[BodyKey(q)] # Null,
         req'[q].pc = "concat" => journal'[CompleteKey(q)] # Null
  PROVE  Accounting'
<1>1. \A p \in Requests \ {q} : req'[p] = req[p]
  BY DEF Only, Types, TypeOK
<1>2. Rows'
  <2> SUFFICES ASSUME NEW k \in UploadKeys, journal'[k] # Null
               PROVE  /\ journal'[k].by = k[2] /\ req'[k[2]].pc # "new"
                      /\ journal'[k].aged => req'[k[2]].pc = "done"
    BY DEF Rows
  <2>1. k[2] \in Requests
    BY KeyFacts
  <2>2. CASE journal[k] # Null
    <3>1. /\ journal[k].by = k[2] /\ req[k[2]].pc # "new"
          /\ journal[k].aged => req[k[2]].pc = "done"
      BY <2>2 DEF Accounting, Rows
    <3>2. journal'[k].by = journal[k].by /\ journal'[k].aged = journal[k].aged
      BY <2>2 DEF JournalGrows
    <3>3. CASE k[2] = q
      BY <3>1, <3>2, <3>3
    <3>4. CASE k[2] # q
      BY <1>1, <2>1, <3>1, <3>2, <3>4
    <3> QED BY <3>3, <3>4
  <2>3. CASE journal[k] = Null
    <3>1. k[2] = q
      BY <2>3, KeyFacts DEF JournalGrows, Scratch
    <3> QED BY <2>3, <3>1 DEF JournalGrows
  <2> QED BY <2>2, <2>3
<1>3. Journaled'
  <2> SUFFICES ASSUME NEW p \in Requests
               PROVE  /\ req'[p].pc = "put" => journal'[BodyKey(p)] # Null
                      /\ req'[p].pc = "concat" => journal'[CompleteKey(p)] # Null
    BY DEF Journaled
  <2>1. CASE p = q
    BY <2>1
  <2>2. CASE p # q
    BY <1>1, <2>2, KeyFacts DEF Accounting, Journaled, JournalGrows
  <2> QED BY <2>1, <2>2
<1>4. UploadObjectsAccounted'
  BY DEF ObjectsShrink, JournalGrows, Accounting, UploadObjectsAccounted
<1> QED BY <1>2, <1>3, <1>4, BooksKept DEF Accounting

\* A step that ends q and only deletes objects keeps Accounting.
LEMMA AccountingAtEnd ==
  ASSUME Types, Accounting, NEW q \in Requests, Only(q),
         req[q].pc # "done", req'[q].pc = "done", UNCHANGED <<journal, reaper, lost>>,
         \A k \in Keys : object'[k] \in {object[k], Null}
  PROVE  Accounting'
<1>1. JournalGrows(q) /\ ObjectsShrink(q)
  BY KeyFacts DEF JournalGrows, ObjectsShrink
<1>2. Knows(q)'
  <2>1. /\ object'[CompleteKey(q)] \in {object[CompleteKey(q)], Null}
        /\ object'[BodyKey(q)] \in {object[BodyKey(q)], Null} /\ Knows(q)
    BY KeyFacts DEF Accounting, Known
  <2> QED BY <2>1 DEF Knows, Gone
<1> QED BY <1>1, <1>2, AccountingKept

\* So does one that goes on and leaves journal and objects alone.
LEMMA AccountingOnward ==
  ASSUME Types, Accounting, NEW q \in Requests, Only(q),
         req[q].pc # "done", req'[q].pc \notin {"new", "put", "mark", "concat"},
         UNCHANGED <<journal, object, reaper, lost>>, Knows(q)'
  PROVE  Accounting'
<1>1. JournalGrows(q) /\ ObjectsShrink(q)
  BY DEF JournalGrows, ObjectsShrink
<1> QED BY <1>1, AccountingKept

\* Registering a key of q lets the journal grow.
LEMMA RegisterGrows ==
  ASSUME Types, NEW q \in Requests, NEW k \in Keys, NEW s \in Posts \cup {Null},
         k \in Scratch(q) \/ k \notin UploadKeys,
         journal' = register_oci_upload_cleanup_key(k, q, s)
  PROVE  JournalGrows(q) /\ journal'[k] # Null
<1>1. /\ journal'[k] # Null
      /\ \A j \in Keys : journal[j] # Null => journal'[j] = journal[j]
      /\ \A j \in Keys \ {k} : journal'[j] = journal[j]
      /\ journal[k] = Null => journal'[k].by = q /\ journal'[k].aged = FALSE
  <2> DEFINE row == [written |-> FALSE, owner |-> s, by |-> q, aged |-> FALSE]
  <2>1. row \in JournalRow
    BY DEF JournalRow
  <2>2. row # Null /\ row.by = q /\ row.aged = FALSE
    BY <2>1
  <2>3. journal' = IF journal[k] = Null THEN [journal EXCEPT ![k] = row] ELSE journal
    BY DEF register_oci_upload_cleanup_key
  <2> HIDE DEF row
  <2> QED BY <2>1, <2>2, <2>3 DEF Types, TypeOK
<1>2. ASSUME NEW j \in UploadKeys, journal[j] # Null
      PROVE  /\ journal'[j] # Null /\ journal'[j].by = journal[j].by
             /\ journal'[j].aged = journal[j].aged
  BY <1>1, <1>2, KeyFacts
<1>3. ASSUME NEW j \in UploadKeys, journal[j] = Null, journal'[j] # Null
      PROVE  j \in Scratch(q) /\ journal'[j].by = q /\ journal'[j].aged = FALSE
  <2>1. j = k
    BY <1>1, <1>3, KeyFacts
  <2> QED BY <1>1, <1>3, <2>1
<1> QED BY <1>1, <1>2, <1>3 DEF JournalGrows

\* So does marking one.
LEMMA MarkGrows ==
  ASSUME Types, NEW q \in Requests, NEW k \in Keys, journal' = Marked(k)
  PROVE  JournalGrows(q) /\ \A j \in Keys : journal'[j] = Null <=> journal[j] = Null
BY MarkedFacts, KeyFacts DEF Types, JournalGrows

\* Deleting objects leaves the others as they are.
LEMMA Deletes ==
  ASSUME NEW ks, object' = Without(ks)
  PROVE  \A k \in Keys : /\ object'[k] \in {object[k], Null}
                         /\ k \in ks => object'[k] = Null
                         /\ k \notin ks => object'[k] = object[k]
BY DEF Without

\* What was appended last is there.
LEMMA AppendHas ==
  ASSUME NEW ks \in Seq(UploadKeys), NEW k \in UploadKeys
  PROVE  Has(Append(ks, k), k)
<1>1. Len(ks) + 1 \in DOMAIN Append(ks, k) /\ Append(ks, k)[Len(ks) + 1] = k
  OBVIOUS
<1> QED BY <1>1 DEF Has

\* A request that ends, in whatever way, leaves its objects to the journal or deletes
\* them.
LEMMA EndAccounted ==
  ASSUME Types, Accounting, NEW q \in Requests,
         \/ OpenSession(q) \/ AppendPart(q) \/ AppendLost(q) \/ RecoverAppend(q) \/ WriteFails(q)
         \/ RejectContent(q) \/ CompleteFails(q) \/ CancelDrop(q) \/ CancelFails(q) \/ Abort(q)
  PROVE  Accounting'
<1>1. CASE OpenSession(q)
  <2>1. UNCHANGED <<journal, object, reaper, lost>>
    BY <1>1 DEF OpenSession, gcVars
  <2>2. Only(q) /\ req[q].pc # "done" /\ req'[q].pc = "done"
    BY <1>1, OpenSessionStep
  <2>3. \A k \in Keys : object'[k] \in {object[k], Null}
    BY <2>1
  <2> QED BY <2>1, <2>2, <2>3, AccountingAtEnd
<1>2. CASE AppendPart(q)
  <2>1. UNCHANGED <<journal, object, reaper, lost>>
    BY <1>2 DEF AppendPart, gcVars
  <2>2. Only(q) /\ req[q].pc # "done" /\ req'[q].pc = "done"
    BY <1>2, AppendPartStep
  <2>3. \A k \in Keys : object'[k] \in {object[k], Null}
    BY <2>1
  <2> QED BY <2>1, <2>2, <2>3, AccountingAtEnd
<1>3. CASE AppendLost(q)
  <2>1. UNCHANGED <<journal, reaper, lost>>
    BY <1>3 DEF AppendLost, gcVars
  <2>2. Only(q) /\ req[q].pc # "done" /\ req'[q].pc = "done"
    BY <1>3, AppendLostStep
  <2>3. \A k \in Keys : object'[k] \in {object[k], Null}
    BY <1>3, Deletes DEF AppendLost
  <2> QED BY <2>1, <2>2, <2>3, AccountingAtEnd
<1>4. CASE RecoverAppend(q)
  <2>1. UNCHANGED <<journal, reaper, lost>>
    BY <1>4 DEF RecoverAppend, gcVars
  <2>2. Only(q) /\ req[q].pc # "done" /\ req'[q].pc = "done"
    BY <1>4, RecoverAppendStep
  <2>3. \A k \in Keys : object'[k] \in {object[k], Null}
    BY <1>4, RecoverAppendStep
  <2> QED BY <2>1, <2>2, <2>3, AccountingAtEnd
<1>5. CASE WriteFails(q)
  <2>1. UNCHANGED <<journal, reaper, lost>>
    BY <1>5 DEF WriteFails, gcVars
  <2>2. Only(q) /\ req[q].pc # "done" /\ req'[q].pc = "done"
    BY <1>5, WriteFailsStep
  <2>3. \A k \in Keys : object'[k] \in {object[k], Null}
    BY <1>5, Deletes DEF WriteFails
  <2> QED BY <2>1, <2>2, <2>3, AccountingAtEnd
<1>6. CASE RejectContent(q)
  <2>1. UNCHANGED <<journal, reaper, lost>>
    BY <1>6 DEF RejectContent, gcVars
  <2>2. Only(q) /\ req[q].pc # "done" /\ req'[q].pc = "done"
    BY <1>6, RejectContentStep
  <2>3. \A k \in Keys : object'[k] \in {object[k], Null}
    BY <1>6, Deletes DEF RejectContent
  <2> QED BY <2>1, <2>2, <2>3, AccountingAtEnd
<1>7. CASE CompleteFails(q)
  <2>1. UNCHANGED <<journal, reaper, lost>>
    BY <1>7 DEF CompleteFails, gcVars
  <2>2. Only(q) /\ req[q].pc # "done" /\ req'[q].pc = "done"
    BY <1>7, CompleteFailsStep
  <2>3. \A k \in Keys : object'[k] \in {object[k], Null}
    BY <1>7, Deletes DEF CompleteFails
  <2> QED BY <2>1, <2>2, <2>3, AccountingAtEnd
<1>8. CASE CancelDrop(q)
  <2>1. UNCHANGED <<journal, object, reaper, lost>>
    BY <1>8 DEF CancelDrop, gcVars
  <2>2. Only(q) /\ req[q].pc # "done" /\ req'[q].pc = "done"
    BY <1>8, CancelDropStep
  <2>3. \A k \in Keys : object'[k] \in {object[k], Null}
    BY <2>1
  <2> QED BY <2>1, <2>2, <2>3, AccountingAtEnd
<1>9. CASE CancelFails(q)
  <2>1. UNCHANGED <<journal, object, reaper, lost>>
    BY <1>9 DEF CancelFails, gcVars
  <2>2. Only(q) /\ req[q].pc # "done" /\ req'[q].pc = "done"
    BY <1>9, CancelFailsStep
  <2>3. \A k \in Keys : object'[k] \in {object[k], Null}
    BY <2>1
  <2> QED BY <2>1, <2>2, <2>3, AccountingAtEnd
<1>10. CASE Abort(q)
  <2>1. UNCHANGED <<journal, object, reaper, lost>>
    BY <1>10 DEF Abort, gcVars
  <2>2. Only(q) /\ req[q].pc # "done" /\ req'[q].pc = "done"
    BY <1>10, AbortStep
  <2>3. \A k \in Keys : object'[k] \in {object[k], Null}
    BY <2>1
  <2> QED BY <2>1, <2>2, <2>3, AccountingAtEnd
<1> QED BY <1>1, <1>2, <1>3, <1>4, <1>5, <1>6, <1>7, <1>8, <1>9, <1>10

\* Steps on the tables alone.
LEMMA OnwardAccounted ==
  ASSUME Types, Accounting, NEW q \in Requests,
         AppendUnknown(q) \/ CommitBlob(q) \/ CommitUnknown(q) \/ ClaimCancel(q) \/ ListKeys(q)
  PROVE  Accounting'
<1> USE DEF Stays
<1>1. CASE AppendUnknown(q)
  <2>1. UNCHANGED <<journal, object, reaper, lost>>
    BY <1>1 DEF AppendUnknown, gcVars
  <2>2. /\ Only(q) /\ req[q].pc # "done" /\ req'[q].pc \notin {"new", "put", "mark", "concat"}
        /\ Knows(q)'
    BY <1>1, <2>1, AppendUnknownStep DEF Accounting, Known, Knows, Gone
  <2> QED BY <2>1, <2>2, AccountingOnward
<1>2. CASE CommitBlob(q)
  <2>1. UNCHANGED <<journal, object, reaper, lost>>
    BY <1>2 DEF CommitBlob, gcVars
  <2>2. /\ Only(q) /\ req[q].pc # "done" /\ req'[q].pc \notin {"new", "put", "mark", "concat"}
        /\ Knows(q)'
    BY <1>2, <2>1, CommitBlobStep DEF Accounting, Known, Knows, Gone
  <2> QED BY <2>1, <2>2, AccountingOnward
<1>3. CASE CommitUnknown(q)
  <2>1. UNCHANGED <<journal, object, reaper, lost>>
    BY <1>3 DEF CommitUnknown, gcVars
  <2>2. /\ Only(q) /\ req[q].pc # "done" /\ req'[q].pc \notin {"new", "put", "mark", "concat"}
        /\ Knows(q)'
    BY <1>3, <2>1, CommitUnknownStep DEF Accounting, Known, Knows, Gone
  <2> QED BY <2>1, <2>2, AccountingOnward
<1>4. CASE ClaimCancel(q)
  <2>1. UNCHANGED <<journal, object, reaper, lost>>
    BY <1>4 DEF ClaimCancel, gcVars
  <2>2. /\ Only(q) /\ req[q].pc # "done" /\ req'[q].pc \notin {"new", "put", "mark", "concat"}
        /\ Knows(q)'
    BY <1>4, <2>1, ClaimCancelStep DEF Accounting, Known, Knows, Gone
  <2> QED BY <2>1, <2>2, AccountingOnward
<1>5. CASE ListKeys(q)
  <2>1. UNCHANGED <<journal, object, reaper, lost>>
    BY <1>5 DEF ListKeys, gcVars
  <2>2. /\ Only(q) /\ req[q].pc # "done" /\ req'[q].pc \notin {"new", "put", "mark", "concat"}
        /\ Knows(q)'
    BY <1>5, <2>1, ListKeysStep DEF Accounting, Known, Knows, Gone
  <2> QED BY <2>1, <2>2, AccountingOnward
<1> QED BY <1>1, <1>2, <1>3, <1>4, <1>5

\* The key of the body is journaled first.
LEMMA StartUploadAccounted ==
  ASSUME Types, Accounting, NEW q \in Requests, StartUpload(q)
  PROVE  Accounting'
<1>1. UNCHANGED <<object, reaper, lost>>
  BY DEF StartUpload, gcVars
<1>2. JournalGrows(q) /\ journal'[BodyKey(q)] # Null
  <2>1. BodyKey(q) \in Keys /\ BodyKey(q) \in Scratch(q)
    BY KeyFacts DEF Scratch
  <2>2. PICK s \in Posts \cup {Null} :
          journal' = register_oci_upload_cleanup_key(BodyKey(q), q, s)
    BY DEF StartUpload, Posts
  <2> QED BY <2>1, <2>2, RegisterGrows
<1>3. /\ Only(q) /\ req[q].pc # "done" /\ req'[q].pc = "put" /\ Knows(q)'
  BY <1>1, StartUploadStep DEF Accounting, Known, Knows, Gone
<1>4. ObjectsShrink(q)
  BY <1>1 DEF ObjectsShrink
<1> QED BY <1>1, <1>2, <1>3, <1>4, AccountingKept

\* So is that of a PATCH.
LEMMA BeginPatchAccounted ==
  ASSUME Types, Accounting, NEW q \in Requests, BeginPatch(q)
  PROVE  Accounting'
<1>1. UNCHANGED <<object, reaper, lost>>
  BY DEF BeginPatch, gcVars
<1>2. JournalGrows(q) /\ journal'[BodyKey(q)] # Null
  <2>1. BodyKey(q) \in Keys /\ BodyKey(q) \in Scratch(q)
    BY KeyFacts DEF Scratch
  <2>2. PICK s \in Posts \cup {Null} :
          journal' = register_oci_upload_cleanup_key(BodyKey(q), q, s)
    BY DEF BeginPatch
  <2> QED BY <2>1, <2>2, RegisterGrows
<1>3. /\ Only(q) /\ req[q].pc # "done" /\ req'[q].pc = "put" /\ Knows(q)'
  BY <1>1, BeginPatchStep DEF Accounting, Known, Knows, Gone
<1>4. ObjectsShrink(q)
  BY <1>1 DEF ObjectsShrink
<1> QED BY <1>1, <1>2, <1>3, <1>4, AccountingKept

\* And that of a PUT with a body.
LEMMA ClaimSessionAccounted ==
  ASSUME Types, Accounting, NEW q \in Requests, ClaimSession(q)
  PROVE  Accounting'
<1>1. UNCHANGED <<object, reaper, lost>>
  BY DEF ClaimSession, gcVars
<1>2. JournalGrows(q) /\ (req'[q].pc = "put" => journal'[BodyKey(q)] # Null)
  <2>1. BodyKey(q) \in Keys /\ BodyKey(q) \in Scratch(q)
    BY KeyFacts DEF Scratch
  <2>2. CASE journal' = journal /\ req'[q].pc = "collect"
    BY <2>2 DEF JournalGrows
  <2>3. CASE journal' = register_oci_upload_cleanup_key(BodyKey(q), q, req'[q].session)
    <3>1. req'[q].session \in Posts \cup {Null}
      BY ClaimSessionStep
    <3> QED BY <2>1, <2>3, <3>1, RegisterGrows
  <2> QED BY <2>2, <2>3, ClaimSessionStep
<1>3. /\ Only(q) /\ req[q].pc # "done" /\ req'[q].pc \in {"put", "collect"} /\ Knows(q)'
  BY <1>1, ClaimSessionStep DEF Accounting, Known, Knows, Gone
<1>4. ObjectsShrink(q)
  BY <1>1 DEF ObjectsShrink
<1> QED BY <1>1, <1>2, <1>3, <1>4, AccountingKept

\* The body is written under a journaled key.
LEMMA PutBodyAccounted ==
  ASSUME Types, Accounting, NEW q \in Requests, PutBody(q)
  PROVE  Accounting'
<1>1. UNCHANGED <<journal, reaper, lost>>
  BY DEF PutBody, gcVars
<1>2. /\ req[q].pc = "put" /\ BodyKey(q) \in Scratch(q) /\ journal'[BodyKey(q)] # Null
      /\ BodyKey(q) \in Keys /\ CompleteKey(q) \in Keys /\ BodyKey(q) # CompleteKey(q)
  BY <1>1, KeyFacts DEF PutBody, Accounting, Journaled, Scratch
<1>3. \A k \in Keys \ {BodyKey(q)} : object'[k] = object[k]
  BY DEF PutBody, Types, TypeOK
<1>4. ObjectsShrink(q) /\ JournalGrows(q)
  BY <1>1, <1>2, <1>3, KeyFacts DEF ObjectsShrink, JournalGrows
<1>5. object'[CompleteKey(q)] = object[CompleteKey(q)]
  BY <1>2, <1>3
<1>6. /\ Only(q) /\ req[q].pc # "done" /\ req'[q].pc \in {"mark", "empty"} /\ Knows(q)'
  BY <1>1, <1>5, PutBodyStep DEF Accounting, Known, Knows, Gone
<1> QED BY <1>1, <1>4, <1>6, AccountingKept

\* The row is marked.
LEMMA MarkBodyAccounted ==
  ASSUME Types, Accounting, NEW q \in Requests, MarkBody(q)
  PROVE  Accounting'
<1>1. UNCHANGED <<object, reaper, lost>>
  BY DEF MarkBody, gcVars
<1>2. JournalGrows(q)
  BY MarkGrows, KeyFacts DEF MarkBody
<1>3. ObjectsShrink(q)
  BY <1>1 DEF ObjectsShrink
<1>4. /\ Only(q) /\ req[q].pc # "done" /\ req'[q].pc \notin {"new", "put", "concat"} /\ Knows(q)'
  BY <1>1, MarkBodyStep DEF Accounting, Known, Knows, Gone
<1> QED BY <1>1, <1>2, <1>3, <1>4, AccountingKept

\* Journaling the final key touches no upload key.
LEMMA PromoteSinglePartAccounted ==
  ASSUME Types, Accounting, NEW q \in Requests, PromoteSinglePart(q)
  PROVE  Accounting'
<1>1. UNCHANGED <<object, reaper, lost>>
  BY DEF PromoteSinglePart, gcVars
<1>2. JournalGrows(q)
  <2>1. BlobKey(DigestOf[q]) \in Keys /\ BlobKey(DigestOf[q]) \notin UploadKeys
    BY KeyFacts
  <2>2. req[q].session \in Posts \cup {Null}
    BY DEF Types, TypeOK, Request
  <2> QED BY <2>1, <2>2, RegisterGrows DEF PromoteSinglePart
<1>3. ObjectsShrink(q)
  BY <1>1 DEF ObjectsShrink
<1>4. /\ Only(q) /\ req[q].pc # "done" /\ req'[q].pc = "copy" /\ Knows(q)'
  BY <1>1, PromoteSinglePartStep DEF Accounting, Known, Knows, Gone, Promotable
<1> QED BY <1>1, <1>2, <1>3, <1>4, AccountingKept

\* As above.
LEMMA VerifyAccounted ==
  ASSUME Types, Accounting, NEW q \in Requests, Verify(q)
  PROVE  Accounting'
<1>1. UNCHANGED <<object, reaper, lost>>
  BY DEF Verify, gcVars
<1>2. JournalGrows(q)
  <2>1. BlobKey(DigestOf[q]) \in Keys /\ BlobKey(DigestOf[q]) \notin UploadKeys
    BY KeyFacts
  <2>2. req[q].session \in Posts \cup {Null}
    BY DEF Types, TypeOK, Request
  <2> QED BY <2>1, <2>2, RegisterGrows DEF Verify
<1>3. ObjectsShrink(q)
  BY <1>1 DEF ObjectsShrink
<1>4. /\ Only(q) /\ req[q].pc # "done" /\ req'[q].pc = "copy" /\ Knows(q)'
  BY <1>1, VerifyStep DEF Accounting, Known, Knows, Gone, Promotable
<1> QED BY <1>1, <1>2, <1>3, <1>4, AccountingKept

\* The key of the concatenation is journaled first, and the body is among the parts.
LEMMA CollectPartsAccounted ==
  ASSUME Types, Accounting, NEW q \in Requests, CollectParts(q)
  PROVE  Accounting'
<1>1. UNCHANGED <<object, reaper, lost>>
  BY DEF CollectParts, gcVars
<1>2. JournalGrows(q) /\ journal'[CompleteKey(q)] # Null
  <2>1. CompleteKey(q) \in Keys /\ CompleteKey(q) \in Scratch(q)
    BY KeyFacts DEF Scratch
  <2>2. req[q].session \in Posts \cup {Null}
    BY DEF Types, TypeOK, Request
  <2> QED BY <2>1, <2>2, RegisterGrows DEF CollectParts
<1>3. ObjectsShrink(q)
  BY <1>1 DEF ObjectsShrink
<1>4. BodyOf[q] # <<>> => Has(req'[q].parts, BodyKey(q))
  <2> SUFFICES ASSUME BodyOf[q] # <<>> PROVE Has(req'[q].parts, BodyKey(q))
    OBVIOUS
  <2>1. FetchedParts(q) \in Seq(UploadKeys) /\ BodyKey(q) \in UploadKeys
    BY CollectPartsStep, PlaceFacts, FetchedType, KeyFacts DEF Types
  <2>2. req'[q].parts = Append(FetchedParts(q), BodyKey(q))
    BY CollectPartsStep
  <2> QED BY <2>1, <2>2, AppendHas
<1>5. /\ Only(q) /\ req[q].pc # "done" /\ req'[q].pc = "concat" /\ Knows(q)'
  BY <1>1, <1>4, CollectPartsStep DEF Accounting, Known, Knows, Gone
<1> QED BY <1>1, <1>2, <1>3, <1>5, AccountingKept

\* The concatenation is written under a journaled key.
LEMMA ConcatAccounted ==
  ASSUME Types, Accounting, NEW q \in Requests, Concat(q)
  PROVE  Accounting'
<1>1. UNCHANGED <<journal, reaper, lost>>
  BY DEF Concat, gcVars
<1>2. /\ req[q].pc = "concat" /\ CompleteKey(q) \in Scratch(q) /\ journal[CompleteKey(q)] # Null
      /\ BodyKey(q) \in Keys /\ CompleteKey(q) \in Keys /\ BodyKey(q) # CompleteKey(q)
  BY KeyFacts DEF Concat, Accounting, Journaled, Scratch
<1>3. JournalGrows(q) /\ journal'[CompleteKey(q)] # Null
  BY <1>1, <1>2 DEF JournalGrows
<1>4. \A k \in Keys \ {CompleteKey(q)} : object'[k] = object[k]
  BY ConcatStep DEF Types, TypeOK
<1>5. ObjectsShrink(q)
  BY <1>2, <1>3, <1>4, KeyFacts DEF ObjectsShrink
<1>6. object'[BodyKey(q)] = object[BodyKey(q)]
  BY <1>2, <1>4
<1>7. /\ Only(q) /\ req[q].pc # "done" /\ req'[q].pc = "seal" /\ Knows(q)'
  BY <1>1, <1>6, ConcatStep DEF Accounting, Known, Knows, Gone
<1> QED BY <1>1, <1>3, <1>5, <1>7, AccountingKept

\* Its row is marked.
LEMMA MarkCompleteAccounted ==
  ASSUME Types, Accounting, NEW q \in Requests, MarkComplete(q)
  PROVE  Accounting'
<1>1. UNCHANGED <<object, reaper, lost>>
  BY MarkCompleteStep
<1>2. JournalGrows(q)
  BY MarkCompleteStep, MarkGrows, KeyFacts
<1>3. ObjectsShrink(q)
  BY <1>1 DEF ObjectsShrink
<1>4. /\ Only(q) /\ req[q].pc # "done" /\ req'[q].pc = "verify" /\ Knows(q)'
  BY <1>1, MarkCompleteStep DEF Accounting, Known, Knows, Gone, Stays
<1> QED BY <1>1, <1>2, <1>3, <1>4, AccountingKept

\* The copy touches no upload key.
LEMMA CopyBlobAccounted ==
  ASSUME Types, Accounting, NEW q \in Requests, CopyBlob(q)
  PROVE  Accounting'
<1>1. UNCHANGED <<journal, reaper, lost>>
  BY DEF CopyBlob, gcVars
<1>2. /\ BlobKey(DigestOf[q]) \in Keys /\ BlobKey(DigestOf[q]) \notin UploadKeys
      /\ BodyKey(q) \in UploadKeys /\ CompleteKey(q) \in UploadKeys /\ UploadKeys \subseteq Keys
  BY KeyFacts
<1>3. \A k \in UploadKeys : object'[k] = object[k]
  BY <1>2 DEF CopyBlob, Types, TypeOK
<1>4. ObjectsShrink(q) /\ JournalGrows(q)
  BY <1>1, <1>3 DEF ObjectsShrink, JournalGrows
<1>5. object'[BodyKey(q)] = object[BodyKey(q)] /\ object'[CompleteKey(q)] = object[CompleteKey(q)]
  BY <1>2, <1>3
<1>6. /\ Only(q) /\ req[q].pc # "done" /\ req'[q].pc \in {"drop", "commit"} /\ Knows(q)'
  BY <1>1, <1>5, CopyBlobStep DEF Accounting, Known, Knows, Gone, Stays
<1> QED BY <1>1, <1>4, <1>6, AccountingKept

\* A best-effort delete touches one of the request's own keys.
LEMMA DropAccounted ==
  ASSUME Types, Accounting, NEW q \in Requests, DropEmptyPart(q) \/ DropComplete(q)
  PROVE  Accounting'
<1>1. PICK k \in {BodyKey(q), CompleteKey(q)} :
        /\ DroppedBestEffort(k) /\ UNCHANGED <<journal, reaper>> /\ Only(q) /\ Stays(q)
        /\ \/ req[q].pc = "empty" /\ req'[q].pc = "unlist" /\ k = BodyKey(q)
           \/ req[q].pc = "drop" /\ req'[q].pc = "commit" /\ k = CompleteKey(q)
  BY DropEmptyPartStep, DropCompleteStep
<1>2. /\ lost \subseteq lost' /\ Gone(k)'
      /\ \A j \in Keys : object'[j] \in {object[j], Null}
  BY <1>1, DroppedFacts, KeyFacts DEF Types
<1>3. ObjectsShrink(q) /\ JournalGrows(q)
  BY <1>1, <1>2, KeyFacts DEF ObjectsShrink, JournalGrows
<1>4. /\ object'[BodyKey(q)] \in {object[BodyKey(q)], Null}
      /\ object'[CompleteKey(q)] \in {object[CompleteKey(q)], Null}
  BY <1>2, KeyFacts
<1>5. Knows(q)'
  BY <1>1, <1>2, <1>4 DEF Accounting, Known, Knows, Gone, Stays
<1> QED BY <1>1, <1>2, <1>3, <1>5, AccountingKept

\* Recovery deletes what the request wrote, or nothing.
LEMMA RecoverCommitAccounted ==
  ASSUME Types, Accounting, NEW q \in Requests, RecoverCommit(q)
  PROVE  Accounting'
<1>1. UNCHANGED <<journal, reaper, lost>>
  BY DEF RecoverCommit, gcVars
<1>2. \A k \in Keys : object'[k] \in {object[k], Null}
  BY RecoverCommitStep, Deletes
<1>3. ObjectsShrink(q) /\ JournalGrows(q)
  BY <1>1, <1>2, KeyFacts DEF ObjectsShrink, JournalGrows
<1>4. /\ object'[BodyKey(q)] \in {object[BodyKey(q)], Null}
      /\ object'[CompleteKey(q)] \in {object[CompleteKey(q)], Null}
  BY <1>2, KeyFacts
<1>5. /\ Only(q) /\ req[q].pc # "done" /\ req'[q].pc \in {"clear", "done"} /\ Knows(q)'
  BY <1>1, <1>4, RecoverCommitStep DEF Accounting, Known, Knows, Gone, Stays
<1> QED BY <1>1, <1>3, <1>5, AccountingKept

\* Clearing the row of the final key touches no upload key.
LEMMA ClearBlobKeyAccounted ==
  ASSUME Types, Accounting, NEW q \in Requests, ClearBlobKey(q)
  PROVE  Accounting'
<1>1. UNCHANGED <<object, reaper, lost>>
  BY DEF ClearBlobKey, gcVars
<1>2. JournalGrows(q)
  BY KeyFacts DEF ClearBlobKey, JournalGrows, Types, TypeOK
<1>3. ObjectsShrink(q)
  BY <1>1 DEF ObjectsShrink
<1>4. /\ Only(q) /\ req[q].pc # "done" /\ req'[q].pc = "finish" /\ Knows(q)'
  BY <1>1, ClearBlobKeyStep DEF Accounting, Known, Knows, Gone, Stays
<1> QED BY <1>1, <1>2, <1>3, <1>4, AccountingKept

\* A cancellation deletes objects.
LEMMA CancelDeleteAccounted ==
  ASSUME Types, Accounting, NEW q \in Requests, CancelDelete(q)
  PROVE  Accounting'
<1>1. UNCHANGED <<journal, reaper, lost>>
  BY DEF CancelDelete, gcVars
<1>2. \A k \in Keys : object'[k] \in {object[k], Null}
  BY Deletes DEF CancelDelete
<1>3. ObjectsShrink(q) /\ JournalGrows(q)
  BY <1>1, <1>2, KeyFacts DEF ObjectsShrink, JournalGrows
<1>4. /\ object'[BodyKey(q)] \in {object[BodyKey(q)], Null}
      /\ object'[CompleteKey(q)] \in {object[CompleteKey(q)], Null}
  BY <1>2, KeyFacts
<1>5. /\ Only(q) /\ req[q].pc # "done" /\ req'[q].pc = "delete" /\ Knows(q)'
  BY <1>1, <1>4, CancelDeleteStep DEF Accounting, Known, Knows, Gone
<1> QED BY <1>1, <1>3, <1>5, AccountingKept

\* A finished upload deletes its body, or leaves it to lost.
LEMMA DeleteLeftoversAccounted ==
  ASSUME Types, Accounting, NEW q \in Requests, DeleteLeftovers(q)
  PROVE  Accounting'
<1>1. /\ UNCHANGED <<journal, reaper>> /\ Only(q) /\ Stays(q) /\ lost \subseteq lost'
      /\ req[q].pc = "finish" /\ req'[q].pc = "tidy"
      /\ \A k \in Keys : object'[k] \in {object[k], Null}
  BY DeleteLeftoversStep
<1>2. Knows(q) /\ KindOf[q] \in {"mono", "put"}
  BY <1>1, PlaceFacts DEF Accounting, Known
<1>3. /\ object'[BodyKey(q)] \in {object[BodyKey(q)], Null}
      /\ object'[CompleteKey(q)] \in {object[CompleteKey(q)], Null}
  BY <1>1, KeyFacts
<1>4. Gone(BodyKey(q))'
  <2>1. CASE KindOf[q] = "put" /\ BodyOf[q] = <<>>
    BY <1>1, <1>2, <1>3, <2>1 DEF Knows, Gone
  <2>2. CASE ~(KindOf[q] = "put" /\ BodyOf[q] = <<>>)
    <3>1. BodyKey(q) \in OwnPart(q)
      BY <2>2 DEF OwnPart
    <3>2. BodyKey(q) \in Leftovers(q)
      <4>1. CASE KindOf[q] = "mono"
        BY <4>1 DEF Leftovers
      <4>2. CASE KindOf[q] = "put"
        <5>1. Has(req[q].parts, BodyKey(q))
          BY <1>1, <1>2, <2>2, <4>2 DEF Knows
        <5> QED BY <4>2, <5>1 DEF Has, Leftovers
      <4> QED BY <1>2, <4>1, <4>2
    <3> QED BY <3>1, <3>2, DeleteLeftoversStep
  <2> QED BY <2>1, <2>2
<1>5. Knows(q)'
  BY <1>1, <1>2, <1>3, <1>4 DEF Knows, Gone
<1>6. ObjectsShrink(q) /\ JournalGrows(q)
  BY <1>1, KeyFacts DEF ObjectsShrink, JournalGrows
<1> QED BY <1>1, <1>5, <1>6, AccountingKept

\* Clearing rows of q whose objects are gone keeps Accounting.
LEMMA RowsCleared ==
  ASSUME Types, Accounting, NEW q \in Requests, Only(q), Knows(q)',
         req[q].pc # "done", req'[q].pc \notin {"new", "put", "concat"},
         UNCHANGED <<object, reaper, lost>>,
         NEW ks, ks \subseteq Scratch(q), \A k \in ks : Gone(k),
         \A k \in Keys : journal'[k] = IF k \in ks THEN Null ELSE journal[k]
  PROVE  Accounting'
<1>1. ObjectsShrink(q)
  BY DEF ObjectsShrink
<1>2. Known' /\ Reaping'
  BY <1>1, BooksKept
<1>3. \A p \in Requests \ {q} :
        req'[p] = req[p] /\ BodyKey(p) \notin ks /\ CompleteKey(p) \notin ks
  BY KeyFacts DEF Only, Types, TypeOK, Scratch
<1>4. Rows'
  <2> SUFFICES ASSUME NEW k \in UploadKeys, journal'[k] # Null
               PROVE  /\ journal'[k].by = k[2] /\ req'[k[2]].pc # "new"
                      /\ journal'[k].aged => req'[k[2]].pc = "done"
    BY DEF Rows
  <2>1. k \in Keys /\ journal'[k] = journal[k] /\ k[2] \in Requests
    BY KeyFacts
  <2>2. /\ journal[k].by = k[2] /\ req[k[2]].pc # "new"
        /\ journal[k].aged => req[k[2]].pc = "done"
    BY <2>1 DEF Accounting, Rows
  <2>3. CASE k[2] = q
    BY <2>1, <2>2, <2>3
  <2>4. CASE k[2] # q
    BY <1>3, <2>1, <2>2, <2>4
  <2> QED BY <2>3, <2>4
<1>5. Journaled'
  <2> SUFFICES ASSUME NEW p \in Requests
               PROVE  /\ req'[p].pc = "put" => journal'[BodyKey(p)] # Null
                      /\ req'[p].pc = "concat" => journal'[CompleteKey(p)] # Null
    BY DEF Journaled
  <2>1. CASE p = q
    BY <2>1
  <2>2. CASE p # q
    BY <1>3, <2>2, KeyFacts DEF Accounting, Journaled
  <2> QED BY <2>1, <2>2
<1>6. UploadObjectsAccounted'
  BY KeyFacts DEF Accounting, UploadObjectsAccounted, Gone
<1> QED BY <1>2, <1>4, <1>5, <1>6 DEF Accounting

\* The journal rows an upload clears are those of objects it has deleted, or tried to
\* in vain.
LEMMA ClearAccounted ==
  ASSUME Types, Accounting, NEW q \in Requests, ClearEmptyPart(q) \/ Finish(q)
  PROVE  Accounting'
<1>2. Knows(q)
  BY DEF Accounting, Known
<1>3. CASE ClearEmptyPart(q)
  <2>1. Gone(BodyKey(q)) /\ KindOf[q] = "put"
    BY <1>2, <1>3, ClearEmptyPartStep, PlaceFacts DEF Knows
  <2>2. Knows(q)'
    BY <1>2, <1>3, <2>1, ClearEmptyPartStep DEF Knows, Gone, Stays
  <2>3. {BodyKey(q)} \subseteq Scratch(q)
    BY DEF Scratch
  <2>4. /\ Only(q) /\ req[q].pc # "done" /\ req'[q].pc \notin {"new", "put", "concat"}
        /\ UNCHANGED <<object, reaper, lost>>
        /\ \A k \in Keys : journal'[k] = IF k \in {BodyKey(q)} THEN Null ELSE journal[k]
    BY <1>3, ClearEmptyPartStep
  <2> QED BY <2>1, <2>2, <2>3, <2>4, RowsCleared
<1>4. CASE Finish(q)
  <2>1. Gone(BodyKey(q)) /\ Gone(CompleteKey(q))
    BY <1>2, <1>4, FinishStep DEF Knows
  <2>2. Knows(q)'
    BY <1>2, <1>4, <2>1, FinishStep DEF Knows, Gone, Stays
  <2>3. OwnPart(q) \cup {CompleteKey(q)} \subseteq Scratch(q)
    BY DEF Scratch, OwnPart
  <2>4. \A k \in OwnPart(q) \cup {CompleteKey(q)} : Gone(k)
    BY <2>1, <2>3 DEF Scratch
  <2>5. /\ Only(q) /\ req[q].pc # "done" /\ req'[q].pc \notin {"new", "put", "concat"}
        /\ UNCHANGED <<object, reaper, lost>>
        /\ \A k \in Keys : journal'[k] = IF k \in OwnPart(q) \cup {CompleteKey(q)} THEN Null ELSE journal[k]
    BY <1>4, FinishStep
  <2> QED BY <2>2, <2>3, <2>4, <2>5, RowsCleared
<1> QED BY <1>3, <1>4

\* A step that leaves the requests alone and at most deletes objects keeps Accounting
\* if the collectors know what they do.
LEMMA AccountingAside ==
  ASSUME Types, Accounting, UNCHANGED <<req, journal, lost>>,
         \A k \in Keys : object'[k] \in {object[k], Null}, Reaping'
  PROVE  Accounting'
<1>1. \A k \in UploadKeys : object'[k] \in {object[k], Null}
  BY KeyFacts
<1>2. Known'
  <2> SUFFICES ASSUME NEW q \in Requests PROVE Knows(q)'
    BY DEF Known
  <2>1. /\ object'[BodyKey(q)] \in {object[BodyKey(q)], Null}
        /\ object'[CompleteKey(q)] \in {object[CompleteKey(q)], Null} /\ Knows(q)
    BY <1>1, KeyFacts DEF Accounting, Known
  <2> QED BY <2>1 DEF Knows, Gone
<1>3. UploadObjectsAccounted'
  BY <1>1 DEF Accounting, UploadObjectsAccounted
<1>4. Rows' /\ Journaled'
  BY DEF Accounting, Rows, Journaled
<1> QED BY <1>2, <1>3, <1>4 DEF Accounting

\* The steps of the collectors, of which only the last one deletes a row: that of an
\* object that is gone, and whose request is over.
LEMMA ReaperAccounted ==
  ASSUME Types, Accounting, NEW r \in Reapers, ReaperStep(r) \/ ReaperFails(r)
  PROVE  Accounting'
<1>1. ASSUME UNCHANGED <<req, journal, lost>>, OnlyReaper(r),
             \A k \in Keys : object'[k] \in {object[k], Null},
             reaper'[r].key \in UploadKeys =>
               /\ reaper'[r].pc \in {"reap", "row"} => req[reaper'[r].key[2]].pc = "done"
               /\ reaper'[r].pc = "row" => object'[reaper'[r].key] = Null
      PROVE  Accounting'
  <2>1. Reaping'
    <3> SUFFICES ASSUME NEW t \in Reapers, reaper'[t].key \in UploadKeys
                 PROVE  /\ reaper'[t].pc \in {"reap", "row"} => req'[reaper'[t].key[2]].pc = "done"
                        /\ reaper'[t].pc = "row" => object'[reaper'[t].key] = Null
      BY DEF Reaping
    <3>1. CASE t = r
      BY <1>1, <3>1
    <3>2. CASE t # r
      <4>1. reaper'[t] = reaper[t] /\ req' = req
        BY <1>1, <3>2 DEF OnlyReaper, Types, TypeOK
      <4>2. object'[reaper[t].key] \in {object[reaper[t].key], Null}
        BY <1>1, <4>1, KeyFacts
      <4> QED BY <4>1, <4>2 DEF Accounting, Reaping
    <3> QED BY <3>1, <3>2
  <2> QED BY <1>1, <2>1, AccountingAside
<1>2. CASE LockAbandoned(r)
  BY <1>1, <1>2, LockAbandonedStep
<1>3. CASE SweepDelete(r)
  BY <1>1, <1>3, SweepDeleteStep, Deletes
<1>4. CASE SweepCommit(r)
  BY <1>1, <1>4, SweepCommitStep
<1>5. CASE SelectKey(r)
  <2>1. reaper'[r].key \in UploadKeys => req[reaper'[r].key[2]].pc = "done"
    BY <1>5, SelectKeyStep DEF Reapable, Accounting, Rows
  <2> QED BY <1>1, <1>5, <2>1, SelectKeyStep
<1>6. CASE ReapObject(r)
  <2>1. reaper[r].key \in UploadKeys => req[reaper[r].key[2]].pc = "done"
    BY <1>6, ReapObjectStep DEF Accounting, Reaping
  <2>2. object'[reaper[r].key] = Null /\ \A k \in Keys : object'[k] \in {object[k], Null}
    BY <1>6, ReapObjectStep, Deletes, ZenonT(60)
  <2> QED BY <1>1, <1>6, <2>1, <2>2, ReapObjectStep
<1>7. CASE ReapRow(r)
  <2>1. /\ UNCHANGED <<object, req, lost>> /\ OnlyReaper(r) /\ reaper'[r].pc = "idle"
        /\ \A k \in UploadKeys : journal'[k] # journal[k] => k = reaper[r].key /\ journal'[k] = Null
        /\ reaper[r].key \in UploadKeys =>
             req[reaper[r].key[2]].pc = "done" /\ object[reaper[r].key] = Null
    BY <1>7, ReapRowStep, KeyFacts DEF Accounting, Reaping
  <2>2. Rows'
    BY <2>1 DEF Accounting, Rows
  <2>3. Journaled'
    <3> SUFFICES ASSUME NEW p \in Requests, req[p].pc # "done"
                 PROVE  /\ journal'[BodyKey(p)] = journal[BodyKey(p)]
                        /\ journal'[CompleteKey(p)] = journal[CompleteKey(p)]
      BY <2>1 DEF Accounting, Journaled
    <3>1. reaper[r].key \notin {BodyKey(p), CompleteKey(p)}
      BY <2>1, KeyFacts
    <3> QED BY <2>1, <3>1, KeyFacts
  <2>4. Known'
    BY <2>1 DEF Accounting, Known, Knows, Gone
  <2>5. Reaping'
    <3> SUFFICES ASSUME NEW t \in Reapers, reaper'[t].key \in UploadKeys
                 PROVE  /\ reaper'[t].pc \in {"reap", "row"} => req'[reaper'[t].key[2]].pc = "done"
                        /\ reaper'[t].pc = "row" => object'[reaper'[t].key] = Null
      BY DEF Reaping
    <3>1. t # r => reaper'[t] = reaper[t]
      BY <2>1 DEF OnlyReaper, Types, TypeOK
    <3> QED BY <2>1, <3>1 DEF Accounting, Reaping
  <2>6. UploadObjectsAccounted'
    BY <2>1 DEF Accounting, UploadObjectsAccounted
  <2> QED BY <2>2, <2>3, <2>4, <2>5, <2>6 DEF Accounting
<1>8. CASE ReaperFails(r)
  BY <1>1, <1>8, ReaperFailsStep
<1> QED BY <1>2, <1>3, <1>4, <1>5, <1>6, <1>7, <1>8 DEF ReaperStep

\* Time passes.
LEMMA TimeAccounted ==
  ASSUME Types, Accounting,
         \/ \E q \in Requests : Stall(q)
         \/ \E s \in Posts : AgeSession(s)
         \/ \E k \in Keys : AgeKey(k)
  PROVE  Accounting'
<1>1. ASSUME UNCHANGED <<req, journal, lost, object, reaper>> PROVE Accounting'
  <2>1. Reaping'
    BY <1>1 DEF Accounting, Reaping
  <2> QED BY <1>1, <2>1, AccountingAside
<1>2. ASSUME NEW q \in Requests, Stall(q) PROVE Accounting'
  BY <1>1, <1>2 DEF Stall
<1>3. ASSUME NEW s \in Posts, AgeSession(s) PROVE Accounting'
  BY <1>1, <1>3, AgeSessionStep
<1>4. ASSUME NEW k \in Keys, AgeKey(k) PROVE Accounting'
  <2>1. /\ UNCHANGED <<object, req, reaper, lost>>
        /\ \A j \in UploadKeys : /\ (journal'[j] = Null) <=> (journal[j] = Null)
                                 /\ journal[j] # Null => journal'[j].by = journal[j].by
                                 /\ j # k => journal'[j] = journal[j]
        /\ ~InFlight(journal[k].by) /\ journal[k] # Null
    BY <1>4, AgeKeyStep, KeyFacts
  <2>2. Rows'
    <3> SUFFICES ASSUME NEW j \in UploadKeys, journal'[j] # Null
                 PROVE  /\ journal'[j].by = j[2] /\ req'[j[2]].pc # "new"
                        /\ journal'[j].aged => req'[j[2]].pc = "done"
      BY DEF Rows
    <3>1. /\ journal[j].by = j[2] /\ req[j[2]].pc # "new"
          /\ journal[j].aged => req[j[2]].pc = "done"
      BY <2>1 DEF Accounting, Rows
    <3>2. CASE j = k
      BY <2>1, <3>1, <3>2 DEF InFlight
    <3>3. CASE j # k
      BY <2>1, <3>1, <3>3
    <3> QED BY <3>2, <3>3
  <2>3. Journaled'
    BY <2>1, KeyFacts DEF Accounting, Journaled
  <2>4. Known' /\ Reaping'
    BY <2>1 DEF Accounting, Known, Knows, Gone, Reaping
  <2>5. UploadObjectsAccounted'
    BY <2>1 DEF Accounting, UploadObjectsAccounted
  <2> QED BY <2>2, <2>3, <2>4, <2>5 DEF Accounting
<1> QED BY <1>2, <1>3, <1>4

\* Every object has its row, and every row its request.
THEOREM AccountingHolds == Spec => []Accounting
<1>1. Init => Accounting
  <2> SUFFICES ASSUME Init PROVE Accounting
    OBVIOUS
  <2>1. Rows /\ UploadObjectsAccounted
    BY KeyFacts DEF Init, Rows, UploadObjectsAccounted
  <2>2. Journaled /\ Reaping
    BY DEF Init, Journaled, Reaping
  <2>3. Known
    BY KeyFacts DEF Init, Known, Knows, Gone
  <2> QED BY <2>1, <2>2, <2>3 DEF Accounting
<1>2. Types /\ Accounting /\ [Next]_vars => Accounting'
  <2> SUFFICES ASSUME Types, Accounting, [Next]_vars PROVE Accounting'
    OBVIOUS
  <2>1. ASSUME NEW q \in Requests, RequestStep(q) PROVE Accounting'
    BY <2>1, EndAccounted, OnwardAccounted, StartUploadAccounted, BeginPatchAccounted,
       PutBodyAccounted, MarkBodyAccounted, ClaimSessionAccounted, PromoteSinglePartAccounted,
       CollectPartsAccounted, ConcatAccounted, MarkCompleteAccounted, VerifyAccounted,
       CopyBlobAccounted, DropAccounted, RecoverCommitAccounted, ClearBlobKeyAccounted,
       DeleteLeftoversAccounted, ClearAccounted, CancelDeleteAccounted DEF RequestStep
  <2>2. ASSUME NEW q \in Requests, RequestFault(q) PROVE Accounting'
    BY <2>2, EndAccounted, OnwardAccounted, TimeAccounted DEF RequestFault
  <2>3. CASE UNCHANGED vars
    BY <2>3 DEF vars, tables, Accounting, Rows, Journaled, Known, Knows, Gone, Reaping,
                UploadObjectsAccounted
  <2> QED BY <2>1, <2>2, <2>3, ReaperAccounted, TimeAccounted DEF Next
<1> QED BY <1>1, <1>2, TypesHold, PTL DEF Spec

\* No upload object is out of the collector's sight: the journal of oci_v2.rs is written
\* before the storage call and cleared after the delete was tried, and only an object
\* whose best-effort delete failed is without a row.
THEOREM ObjectsCorrect == Spec => []UploadObjectsAccounted
<1>1. Accounting => UploadObjectsAccounted
  BY DEF Accounting
<1> QED BY <1>1, AccountingHolds, PTL

=============================================================================
