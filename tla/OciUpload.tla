------------------------------ MODULE OciUpload ------------------------------
(***************************************************************************)
(* Blob uploads of the OCI registry: the oci_upload_sessions,              *)
(* oci_upload_parts, oci_upload_cleanup_keys and oci_blobs tables of one   *)
(* repository, its storage objects, the POST, PATCH, PUT and DELETE        *)
(* handlers (backend/src/api/handlers/oci_v2.rs) and the three sweeps of   *)
(* the storage collector that clean up after them                          *)
(* (backend/src/services/storage_gc_service.rs).                           *)
(*                                                                         *)
(* A digest is the content it stands for.  Every SQL statement or          *)
(* transaction and every storage call is one step; the handler can be      *)
(* overtaken, or dropped (client gone, process killed), between any two.   *)
(* Time is abstracted to the ages the code compares with NOW(): a lease is *)
(* stale after 6 hours without heartbeat, a session abandoned and a        *)
(* journal row aged after 24.                                              *)
(***************************************************************************)
EXTENDS Integers, Sequences, FiniteSets

CONSTANTS
  Requests,    \* HTTP requests; each is received at most once
  KindOf,      \* request -> "post", "mono" (POST with ?digest=), "patch", "put" or "cancel"
  BodyOf,      \* request -> the content of its body
  DigestOf,    \* request -> the digest it asks for ("mono" and "put")
  Reapers,     \* backend processes running the storage collector
  Chunks,      \* pieces of content
  Digests,     \* the digests that are asked for
  Other,       \* any content that is neither a body nor asked for
  Null,        \* SQL NULL, an absent row or an absent object
  MaxFaults    \* bound on dropped handlers, failed calls and stalled leases

ASSUME OciUploadAssumption ==
  /\ KindOf \in [Requests -> {"post", "mono", "patch", "put", "cancel"}]
  /\ BodyOf \in [Requests -> Seq(Chunks)]
  /\ Digests \subseteq Seq(Chunks)
  /\ DigestOf \in [Requests -> Digests]
  /\ Null \notin Requests
  /\ Null \notin Seq(Chunks) /\ Other \notin Seq(Chunks) /\ Null # Other
  /\ MaxFaults \in Nat

VARIABLES
  session,  \* oci_upload_sessions, a row per session POST
  parts,    \* oci_upload_parts: the storage keys of a session by part_index
  object,   \* the storage backend: key -> content
  journal,  \* oci_upload_cleanup_keys: key -> row
  blobs,    \* digests with a row in oci_blobs
  req,      \* the handlers' places and local variables
  reaper,   \* the collectors' places
  stalled,  \* PUTs whose heartbeat missed the 6 hours while they were running
  lost,     \* upload keys whose best-effort delete failed in a request that went on
  faults    \* faults so far (bounded by MaxFaults)

tables == <<session, parts, blobs>>

vars == <<tables, object, journal, req, reaper, stalled, lost, faults>>

Posts == {q \in Requests : KindOf[q] = "post"}

\* upload_storage_key, upload_part_storage_key: the object a request streams its
\* body to; a session's storage_temp_key is that of its POST.
BodyKey(q) == <<"body", q>>

\* {storage_temp_key}.complete.{uuid}: the concatenation a PUT writes.
CompleteKey(q) == <<"complete", q>>

\* blob_storage_key: oci-blobs/<digest>
BlobKey(d) == <<"blob", d>>

UploadKeys == {"body", "complete"} \X Requests

Keys == UploadKeys \cup ({"blob"} \X Digests)

Content == {BodyOf[q] : q \in Requests} \cup Digests \cup {Other}

\* state_token names the PUT or DELETE that holds the lease.
Session == [state : {"open", "committing"}, token : Requests \cup {Null}, bytes : Nat,
            computed : Content \cup {Null}, age : {"fresh", "stale", "abandoned"}]

\* written: storage_write_completed_at is set; owner: upload_session_id;
\* by: the request whose INSERT created the row, and so dates created_at.
JournalRow == [written : BOOLEAN, owner : Posts \cup {Null}, by : Requests, aged : BOOLEAN]

\* A row is never mistaken for an absent one.
ASSUME NullAssumption == Null \notin Session /\ Null \notin JournalRow

Steps == {"new", "put", "mark", "open", "append", "recover", "empty", "unlist", "collect",
          "concat", "seal", "verify", "copy", "drop", "commit", "clear", "finish", "tidy",
          "list", "delete", "done"}

Request == [pc : Steps, session : Posts \cup {Null}, parts : Seq(Keys), bytes : Nat,
            computed : Content \cup {Null}, src : Keys \cup {Null},
            result : {"none", "accepted", "created", "recovered", "cancelled", "error"}]

Reaper == [pc : {"idle", "sweep", "reap", "row"}, session : Posts \cup {Null},
           keys : SUBSET UploadKeys, key : Keys \cup {Null}]

\* Every variable holds a value of its type: rows point to rows of their tables, a
\* journal row to the session it was registered for.
TypeOK ==
  /\ session \in [Posts -> Session \cup {Null}]
  /\ parts \in [Posts -> Seq(UploadKeys)]
  /\ object \in [Keys -> Content \cup {Null}]
  /\ journal \in [Keys -> JournalRow \cup {Null}]
  /\ blobs \subseteq Digests
  /\ req \in [Requests -> Request]
  /\ reaper \in [Reapers -> Reaper]
  /\ stalled \subseteq Requests
  /\ lost \subseteq Keys
  /\ faults \in 0..MaxFaults

-----------------------------------------------------------------------------
(* Helpers of the handlers. *)

Exists(s) == s # Null /\ session[s] # Null

InFlight(q) == req[q].pc \notin {"new", "done"}

\* A sweep holds the session row FOR UPDATE; UPDATE and DELETE wait for it.
Locked(s) == \E r \in Reapers : reaper[r].pc = "sweep" /\ reaper[r].session = s

\* WHERE id = $1 AND state = 'committing' AND state_token = $3
Owns(q) ==
  LET s == req[q].session IN
  Exists(s) /\ session[s].state = "committing" /\ session[s].token = q

Fault == faults < MaxFaults /\ faults' = faults + 1

Without(ks) == [k \in Keys |-> IF k \in ks THEN Null ELSE object[k]]

\* Mutant of register_oci_upload_cleanup_key: the row names the request, not its session.
register_oci_upload_cleanup_key_OwnRequest(k, q, s) ==
  IF journal[k] = Null
  THEN [journal EXCEPT ![k] = [written |-> FALSE, owner |-> q, by |-> q, aged |-> FALSE]]
  ELSE journal

\* INSERT ... ON CONFLICT (storage_key) DO NOTHING: an old row keeps its dates.
register_oci_upload_cleanup_key(k, q, s) ==
  IF journal[k] = Null
  THEN [journal EXCEPT ![k] = [written |-> FALSE, owner |-> s, by |-> q, aged |-> FALSE]]
  ELSE journal

Marked(k) == IF journal[k] = Null THEN journal ELSE [journal EXCEPT ![k].written = TRUE]

\* reset_oci_upload_session_state: only the token that owns the session reopens it.
Reopened(q) ==
  IF Owns(q)
  THEN [session EXCEPT ![req[q].session] =
          [@ EXCEPT !.state = "open", !.token = Null, !.age = "fresh"]]
  ELSE session

\* The request holds the completion lease from now on.
Claimed(s, q) ==
  [session EXCEPT ![s] = [@ EXCEPT !.state = "committing", !.token = q, !.age = "fresh"]]

Ended(q, r) == [req EXCEPT ![q].pc = "done", ![q].result = r]

At(q, pc) == [req EXCEPT ![q].pc = pc]

\* final_part: an empty body of a PUT is no part.
OwnPart(q) == IF KindOf[q] = "put" /\ BodyOf[q] = <<>> THEN {} ELSE {BodyKey(q)}

\* delete_storage_key_best_effort on the way to success: a failure is only logged, and
\* the handler goes on.  lost remembers the object it left.
DroppedBestEffort(k) ==
  \/ object' = Without({k}) /\ UNCHANGED <<lost, faults>>
  \/ /\ object[k] # Null /\ Fault
     /\ lost' = lost \cup {k}
     /\ UNCHANGED object

gcVars == <<reaper, stalled, lost>>

Init ==
  /\ session = [s \in Posts |-> Null]
  /\ parts = [s \in Posts |-> <<>>]
  /\ object = [k \in Keys |-> Null]
  /\ journal = [k \in Keys |-> Null]
  /\ blobs = {}
  /\ req = [q \in Requests |-> [pc |-> "new", session |-> Null, parts |-> <<>>, bytes |-> 0,
                                computed |-> Null, src |-> Null, result |-> "none"]]
  /\ reaper = [r \in Reapers |-> [pc |-> "idle", session |-> Null, keys |-> {}, key |-> Null]]
  /\ stalled = {}
  /\ lost = {}
  /\ faults = 0

-----------------------------------------------------------------------------
(* Streaming a request body: journal the key, write the object, mark the row. *)

\* handle_start_upload up to the storage write.
StartUpload(q) ==
  /\ req[q].pc = "new" /\ KindOf[q] \in {"post", "mono"}
  /\ journal' = register_oci_upload_cleanup_key(BodyKey(q), q, IF KindOf[q] = "post" THEN q ELSE Null)
  /\ req' = [req EXCEPT ![q].pc = "put", ![q].session = IF KindOf[q] = "post" THEN q ELSE Null]
  /\ UNCHANGED <<tables, object, gcVars, faults>>

\* handle_patch_upload: the session is read, not locked; the rest of the handler
\* works with this snapshot.
BeginPatch(q) ==
  /\ req[q].pc = "new" /\ KindOf[q] = "patch"
  /\ \E s \in Posts :
       /\ Exists(s) /\ session[s].state = "open"
       /\ req' = [req EXCEPT ![q].pc = "put", ![q].session = s,
                             ![q].parts = parts[s], ![q].bytes = session[s].bytes]
       /\ journal' = register_oci_upload_cleanup_key(BodyKey(q), q, s)
  /\ UNCHANGED <<tables, object, gcVars, faults>>

PutBody(q) ==
  /\ req[q].pc = "put"
  /\ object' = [object EXCEPT ![BodyKey(q)] = BodyOf[q]]
  /\ req' = [req EXCEPT ![q].pc = IF OwnPart(q) = {} THEN "empty" ELSE "mark",
                        ![q].computed = IF KindOf[q] = "mono" THEN BodyOf[q] ELSE @]
  /\ UNCHANGED <<tables, journal, gcVars, faults>>

MarkBody(q) ==
  /\ req[q].pc = "mark"
  /\ journal' = Marked(BodyKey(q))
  /\ req' = At(q, CASE KindOf[q] = "post" -> "open"
                    [] KindOf[q] = "mono" -> "verify"
                    [] KindOf[q] = "patch" -> "append"
                    [] OTHER -> "collect")
  /\ UNCHANGED <<tables, object, gcVars, faults>>

\* A storage call or a statement of a POST or PATCH failed: the handler deletes
\* its object and leaves the journal rows.
WriteFails(q) ==
  /\ req[q].pc \in {"put", "mark", "open", "append", "verify", "copy", "commit"}
  /\ KindOf[q] # "put"
  /\ Fault
  /\ object' = Without({BodyKey(q)})
  /\ req' = Ended(q, "error")
  /\ UNCHANGED <<tables, journal, gcVars>>

-----------------------------------------------------------------------------
(* POST and PATCH transactions. *)

OpenSession(q) ==
  /\ req[q].pc = "open"
  /\ session' = [session EXCEPT ![q] =
       [state |-> "open", token |-> Null, bytes |-> Len(BodyOf[q]),
        computed |-> IF BodyOf[q] = <<>> THEN Null ELSE BodyOf[q], age |-> "fresh"]]
  /\ parts' = [parts EXCEPT ![q] = IF BodyOf[q] = <<>> THEN <<>> ELSE <<BodyKey(q)>>]
  /\ req' = Ended(q, "accepted")
  /\ UNCHANGED <<object, journal, blobs, gcVars, faults>>

\* Mutant of CanAppend: the UPDATE does not ask for state = 'open'.
CanAppend_AnyState(q) ==
  LET s == req[q].session IN
  Exists(s) /\ Len(parts[s]) = Len(req[q].parts) /\ session[s].bytes = req[q].bytes

\* part_index is still free (UNIQUE) and the UPDATE's predicate matches:
\* state = 'open' AND bytes_received = the value read before the body streamed.
CanAppend(q) ==
  LET s == req[q].session IN
  /\ Exists(s) /\ Len(parts[s]) = Len(req[q].parts)
  /\ session[s].state = "open" /\ session[s].bytes = req[q].bytes

\* The transaction's two writes.  computed_digest survives only for a first part.
Appended(q) ==
  LET s == req[q].session IN
  /\ parts' = [parts EXCEPT ![s] = Append(@, BodyKey(q))]
  /\ session' = [session EXCEPT ![s] =
       [@ EXCEPT !.bytes = req[q].bytes + Len(BodyOf[q]), !.age = "fresh",
                 !.computed = IF req[q].bytes = 0 /\ req[q].parts = <<>> THEN BodyOf[q] ELSE Null]]

AppendPart(q) ==
  /\ req[q].pc = "append" /\ ~Locked(req[q].session)
  /\ CanAppend(q) /\ Appended(q)
  /\ req' = Ended(q, "accepted")
  /\ UNCHANGED <<object, journal, blobs, gcVars, faults>>

AppendLost(q) ==
  /\ req[q].pc = "append" /\ ~Locked(req[q].session)
  /\ ~CanAppend(q)
  /\ object' = Without({BodyKey(q)})
  /\ req' = Ended(q, "error")
  /\ UNCHANGED <<tables, journal, gcVars, faults>>

\* COMMIT reports an error; the transaction has landed or it has not.
AppendUnknown(q) ==
  /\ req[q].pc = "append" /\ ~Locked(req[q].session)
  /\ CanAppend(q) /\ Fault
  /\ Appended(q) \/ UNCHANGED <<session, parts>>
  /\ req' = At(q, "recover")
  /\ UNCHANGED <<object, journal, blobs, gcVars>>

\* recover_committed_patch_after_commit_error: the part is looked up in an open
\* session only; found with other byte counts is an error, not found deletes it.
RecoverAppend(q) ==
  LET s == req[q].session
      found == /\ Exists(s) /\ session[s].state = "open"
               /\ \E i \in DOMAIN parts[s] : parts[s][i] = BodyKey(q)
  IN /\ req[q].pc = "recover" /\ KindOf[q] = "patch"
     /\ object' = IF found THEN object ELSE Without({BodyKey(q)})
     /\ req' = Ended(q, IF found /\ session[s].bytes = req[q].bytes + Len(BodyOf[q])
                        THEN "accepted" ELSE "error")
     /\ UNCHANGED <<tables, journal, gcVars, faults>>

-----------------------------------------------------------------------------
(* PUT: completing an upload; a monolithic POST joins it at "verify". *)

\* claim_oci_upload_session_for_completion: an open session, or a lease that was
\* not renewed for 6 hours.
Claimable(s) ==
  Exists(s) /\ ~Locked(s) /\ (session[s].state = "open" \/ session[s].age # "fresh")

\* The body is streamed as the final part unless it is known to be empty, which an
\* empty body of unknown length (chunked transfer encoding) is not.
ClaimSession(q) ==
  /\ req[q].pc = "new" /\ KindOf[q] = "put"
  /\ \E s \in Posts, streamed \in BOOLEAN :
       /\ Claimable(s)
       /\ BodyOf[q] # <<>> => streamed
       /\ session' = Claimed(s, q)
       /\ req' = [req EXCEPT ![q].pc = IF streamed THEN "put" ELSE "collect",
                             ![q].session = s, ![q].bytes = session[s].bytes,
                             ![q].computed = session[s].computed]
       /\ journal' = IF streamed THEN register_oci_upload_cleanup_key(BodyKey(q), q, s)
                     ELSE journal
  /\ UNCHANGED <<parts, blobs, object, gcVars, faults>>

\* The streamed body had no bytes: its object is deleted, best effort.
DropEmptyPart(q) ==
  /\ req[q].pc = "empty"
  /\ DroppedBestEffort(BodyKey(q))
  /\ req' = At(q, "unlist")
  /\ UNCHANGED <<tables, journal, reaper, stalled>>

\* Its journal row is cleared whether or not the delete succeeded.
ClearEmptyPart(q) ==
  /\ req[q].pc = "unlist"
  /\ journal' = [journal EXCEPT ![BodyKey(q)] = Null]
  /\ req' = At(q, "collect")
  /\ UNCHANGED <<tables, object, gcVars, faults>>

\* fetch_oci_upload_parts: without part rows the session's own object stands in,
\* with the bytes_received that the claim returned.
FetchedParts(q) ==
  LET s == req[q].session IN
  IF parts[s] # <<>> THEN parts[s] ELSE IF req[q].bytes = 0 THEN <<>> ELSE <<BodyKey(s)>>

\* One part, no final part, and the digest cached with it is the one asked for.
Promotable(q) ==
  BodyOf[q] = <<>> /\ Len(FetchedParts(q)) = 1 /\ req[q].computed = DigestOf[q]

PromoteSinglePart(q) ==
  /\ req[q].pc = "collect" /\ Promotable(q)
  /\ req' = [req EXCEPT ![q].pc = "copy", ![q].parts = FetchedParts(q),
                        ![q].src = FetchedParts(q)[1]]
  /\ journal' = register_oci_upload_cleanup_key(BlobKey(DigestOf[q]), q, req[q].session)
  /\ UNCHANGED <<tables, object, gcVars, faults>>

Mismatched(q) == BodyOf[q] = <<>> /\ req[q].computed \notin {Null, DigestOf[q]}

CollectParts(q) ==
  /\ req[q].pc = "collect" /\ ~Promotable(q) /\ ~Mismatched(q)
  /\ req' = [req EXCEPT ![q].pc = "concat",
                        ![q].parts = FetchedParts(q) \o
                                     IF OwnPart(q) = {} THEN <<>> ELSE <<BodyKey(q)>>]
  /\ journal' = register_oci_upload_cleanup_key(CompleteKey(q), q, req[q].session)
  /\ UNCHANGED <<tables, object, gcVars, faults>>

\* storage_concat_stream skips parts of size zero and fails on a missing object.
HasHole(ks) == \E i \in DOMAIN ks : object[ks[i]] = Null /\ BodyOf[ks[i][2]] # <<>>

Concatenated(ks) ==
  LET upTo[i \in 0..Len(ks)] ==
        IF i = 0 THEN <<>>
        ELSE IF object[ks[i]] = Null THEN upTo[i - 1] ELSE upTo[i - 1] \o object[ks[i]]
  IN IF upTo[Len(ks)] \in Content THEN upTo[Len(ks)] ELSE Other

Concat(q) ==
  /\ req[q].pc = "concat" /\ ~HasHole(req[q].parts)
  /\ object' = [object EXCEPT ![CompleteKey(q)] = Concatenated(req[q].parts)]
  /\ req' = [req EXCEPT ![q].pc = "seal", ![q].computed = Concatenated(req[q].parts)]
  /\ UNCHANGED <<tables, journal, gcVars, faults>>

MarkComplete(q) ==
  /\ req[q].pc = "seal"
  /\ journal' = Marked(CompleteKey(q))
  /\ req' = At(q, "verify")
  /\ UNCHANGED <<tables, object, gcVars, faults>>

\* Mutant of DigestVerified: the computed digest is not compared.
DigestVerified_Always(q) == TRUE

DigestVerified(q) == req[q].computed = DigestOf[q]

\* The final key is journaled once the bytes were found to have the digest.
Verify(q) ==
  /\ req[q].pc = "verify" /\ DigestVerified(q)
  /\ req' = [req EXCEPT ![q].pc = "copy",
                        ![q].src = IF KindOf[q] = "mono" THEN BodyKey(q) ELSE CompleteKey(q)]
  /\ journal' = register_oci_upload_cleanup_key(BlobKey(DigestOf[q]), q, req[q].session)
  /\ UNCHANGED <<tables, object, gcVars, faults>>

\* What an upload that fails deletes: its own part, and the concatenation unless it
\* was promoted.
Discarded(q) ==
  OwnPart(q) \cup IF req[q].pc \in {"commit", "recover"} THEN {} ELSE {CompleteKey(q)}

\* DIGEST_INVALID, a part that is missing, or a source that is missing: the
\* request's own objects are deleted and the session is reopened.
RejectContent(q) ==
  /\ \/ req[q].pc = "collect" /\ ~Promotable(q) /\ Mismatched(q)
     \/ req[q].pc = "concat" /\ HasHole(req[q].parts)
     \/ req[q].pc = "verify" /\ ~DigestVerified(q)
     \/ req[q].pc = "copy" /\ object[req[q].src] = Null
  /\ object' = Without(Discarded(q))
  /\ session' = IF KindOf[q] = "put" THEN Reopened(q) ELSE session
  /\ req' = Ended(q, "error")
  /\ UNCHANGED <<parts, blobs, journal, gcVars, faults>>

\* The heartbeat saw the lease gone, or a statement or storage call failed.
CompleteFails(q) ==
  /\ KindOf[q] = "put"
  /\ req[q].pc \in {"put", "mark", "collect", "concat", "seal", "verify", "copy", "commit"}
  /\ (~Owns(q) /\ UNCHANGED faults) \/ Fault
  /\ object' = Without(Discarded(q))
  /\ session' = Reopened(q)
  /\ req' = Ended(q, "error")
  /\ UNCHANGED <<parts, blobs, journal, gcVars>>

\* storage.copy to oci-blobs/<digest>.
CopyBlob(q) ==
  /\ req[q].pc = "copy" /\ object[req[q].src] # Null
  /\ object' = [object EXCEPT ![BlobKey(DigestOf[q])] = object[req[q].src]]
  /\ req' = At(q, IF req[q].src = CompleteKey(q) THEN "drop" ELSE "commit")
  /\ UNCHANGED <<tables, journal, gcVars, faults>>

\* The concatenation has been promoted: it is deleted, best effort.
DropComplete(q) ==
  /\ req[q].pc = "drop"
  /\ DroppedBestEffort(CompleteKey(q))
  /\ req' = At(q, "commit")
  /\ UNCHANGED <<tables, journal, reaper, stalled>>

\* INSERT INTO oci_blobs and, for a PUT, DELETE of the session with its parts.
BlobCommitted(q) ==
  /\ blobs' = blobs \cup {DigestOf[q]}
  /\ IF KindOf[q] = "mono" THEN UNCHANGED <<session, parts>>
     ELSE /\ session' = [session EXCEPT ![req[q].session] = Null]
          /\ parts' = [parts EXCEPT ![req[q].session] = <<>>]

\* Mutant of SessionDeleted: the number of rows the DELETE matched is not looked at.
SessionDeleted_Unchecked(q) == ~Locked(req[q].session)

\* The DELETE of the transaction matches: the PUT still holds its lease.
SessionDeleted(q) == Owns(q) /\ ~Locked(req[q].session)

CommitBlob(q) ==
  /\ req[q].pc = "commit"
  /\ KindOf[q] = "put" => SessionDeleted(q)
  /\ BlobCommitted(q)
  /\ req' = At(q, "clear")
  /\ UNCHANGED <<object, journal, gcVars, faults>>

\* COMMIT of a PUT reports an error; the transaction has landed or it has not.
CommitUnknown(q) ==
  /\ req[q].pc = "commit" /\ KindOf[q] = "put" /\ SessionDeleted(q)
  /\ Fault
  /\ BlobCommitted(q) \/ UNCHANGED tables
  /\ req' = At(q, "recover")
  /\ UNCHANGED <<object, journal, gcVars>>

\* recover_committed_completion_after_commit_error: the session is gone and the
\* digest is there, so the upload must have landed; the client gets its 201.
RecoverCommit(q) ==
  LET landed == ~Exists(req[q].session) /\ DigestOf[q] \in blobs
      gone   == ~Exists(req[q].session)
  IN /\ req[q].pc = "recover" /\ KindOf[q] = "put"
     /\ req' = IF landed THEN [req EXCEPT ![q].pc = "clear", ![q].result = "recovered"]
               ELSE Ended(q, "error")
     /\ object' = IF gone THEN object ELSE Without(Discarded(q))
     /\ session' = IF gone THEN session ELSE Reopened(q)
     /\ UNCHANGED <<parts, blobs, journal, gcVars, faults>>

\* The blob row is durable: the journal row of the final key goes first.
ClearBlobKey(q) ==
  /\ req[q].pc = "clear"
  /\ journal' = [journal EXCEPT ![BlobKey(DigestOf[q])] = Null]
  /\ req' = At(q, "finish")
  /\ UNCHANGED <<tables, object, gcVars, faults>>

\* The objects a finished upload deletes, best effort.
Leftovers(q) ==
  IF KindOf[q] = "mono" THEN {BodyKey(q)}
  ELSE {BodyKey(req[q].session)} \cup {req[q].parts[i] : i \in DOMAIN req[q].parts}

\* A failed delete is only logged.
DeleteLeftovers(q) ==
  /\ req[q].pc = "finish"
  /\ \/ object' = Without(Leftovers(q)) /\ UNCHANGED <<lost, faults>>
     \/ \E k \in Leftovers(q) :
          /\ object[k] # Null /\ Fault
          /\ object' = Without(Leftovers(q) \ {k})
          /\ lost' = IF k \in OwnPart(q) THEN lost \cup {k} ELSE lost
  /\ req' = At(q, "tidy")
  /\ UNCHANGED <<tables, journal, reaper, stalled>>

\* The journal rows of the request's own objects are cleared all the same; the rows
\* of the session's parts stay.
Finish(q) ==
  /\ req[q].pc = "tidy"
  /\ journal' = [k \in Keys |-> IF k \in OwnPart(q) \cup {CompleteKey(q)} THEN Null ELSE journal[k]]
  /\ req' = Ended(q, IF req[q].result = "recovered" THEN "recovered" ELSE "created")
  /\ UNCHANGED <<tables, object, gcVars, faults>>

-----------------------------------------------------------------------------
(* DELETE: cancelling an upload. *)

ClaimCancel(q) ==
  /\ req[q].pc = "new" /\ KindOf[q] = "cancel"
  /\ \E s \in Posts :
       /\ Exists(s) /\ ~Locked(s) /\ session[s].state = "open"
       /\ session' = Claimed(s, q)
       /\ req' = [req EXCEPT ![q].pc = "list", ![q].session = s]
  /\ UNCHANGED <<parts, blobs, object, journal, gcVars, faults>>

\* The keys are those of the session row and its part rows (sorted and without
\* duplicates in the code; deleting a key twice changes nothing).
ListKeys(q) ==
  /\ req[q].pc = "list"
  /\ req' = [req EXCEPT ![q].pc = "delete",
                        ![q].parts = <<BodyKey(req[q].session)>> \o parts[req[q].session]]
  /\ UNCHANGED <<tables, object, journal, gcVars, faults>>

CancelDelete(q) ==
  /\ req[q].pc = "delete" /\ req[q].parts # <<>>
  /\ object' = Without({Head(req[q].parts)})
  /\ req' = [req EXCEPT ![q].parts = Tail(@)]
  /\ UNCHANGED <<tables, journal, gcVars, faults>>

CancelDrop(q) ==
  LET s == req[q].session IN
  /\ req[q].pc = "delete" /\ req[q].parts = <<>> /\ ~Locked(s)
  /\ IF Owns(q)
     THEN /\ session' = [session EXCEPT ![s] = Null]
          /\ parts' = [parts EXCEPT ![s] = <<>>]
          /\ req' = Ended(q, "cancelled")
     ELSE req' = Ended(q, "error") /\ UNCHANGED <<session, parts>>
  /\ UNCHANGED <<blobs, object, journal, gcVars, faults>>

\* A failed storage delete leaves the session committing; a failed SELECT of the
\* parts or DELETE of the session reopens it.
CancelFails(q) ==
  /\ req[q].pc \in {"list", "delete"}
  /\ Fault
  /\ session' = IF req[q].pc = "delete" /\ req[q].parts # <<>> THEN session ELSE Reopened(q)
  /\ req' = Ended(q, "error")
  /\ UNCHANGED <<parts, blobs, object, journal, gcVars>>

-----------------------------------------------------------------------------
(* The environment. *)

\* The client disconnects and axum drops the handler, or the process dies.
Abort(q) ==
  /\ InFlight(q) /\ Fault
  /\ req' = Ended(q, "error")
  /\ UNCHANGED <<tables, object, journal, gcVars>>

\* The process is suspended for 6 hours: no heartbeat, and the flag not yet read.
Stall(q) ==
  /\ KindOf[q] = "put" /\ InFlight(q) /\ req[q].pc \notin {"clear", "finish", "tidy"}
  /\ Owns(q) /\ Fault
  /\ session' = [session EXCEPT ![req[q].session] = [@ EXCEPT !.age = "stale"]]
  /\ stalled' = stalled \cup {q}
  /\ UNCHANGED <<parts, blobs, object, journal, req, reaper, lost>>

\* updated_at falls behind.  A running PUT renews it; no request runs for a day.
AgeSession(s) ==
  /\ Exists(s)
  /\ \A q \in Requests : InFlight(q) => session[s].token # q
  /\ \/ /\ session[s].age = "fresh"
        /\ session' = [session EXCEPT ![s] = [@ EXCEPT !.age = "stale"]]
     \/ /\ session[s].age = "stale"
        /\ \A q \in Requests : InFlight(q) => req[q].session # s
        /\ session' = [session EXCEPT ![s] = [@ EXCEPT !.age = "abandoned"]]
  /\ UNCHANGED <<parts, blobs, object, journal, req, gcVars, faults>>

\* A day passes after the request that wrote the journal row has ended.
AgeKey(k) ==
  /\ journal[k] # Null /\ ~journal[k].aged /\ ~InFlight(journal[k].by)
  /\ journal' = [journal EXCEPT ![k] = [@ EXCEPT !.aged = TRUE]]
  /\ UNCHANGED <<tables, object, req, gcVars, faults>>

-----------------------------------------------------------------------------
(* The collector: cleanup_abandoned_oci_uploads, and the two cleanup-key       *)
(* sweeps cleanup_unreferenced_oci_upload_keys and                             *)
(* reap_pending_oci_upload_cleanup_keys, which differ in who protects a key.   *)

IdleReaper == [pc |-> "idle", session |-> Null, keys |-> {}, key |-> Null]

\* lock_abandoned_oci_upload_session
LockAbandoned(r) ==
  /\ reaper[r].pc = "idle"
  /\ \E s \in Posts :
       /\ Exists(s) /\ session[s].age = "abandoned" /\ ~Locked(s)
       /\ reaper' = [reaper EXCEPT ![r] =
            [pc |-> "sweep", session |-> s, key |-> Null,
             keys |-> {BodyKey(s)} \cup {parts[s][i] : i \in DOMAIN parts[s]}]]
  /\ UNCHANGED <<tables, object, journal, req, stalled, lost, faults>>

SweepDelete(r) ==
  /\ reaper[r].pc = "sweep"
  /\ \E k \in reaper[r].keys :
       /\ object' = Without({k})
       /\ reaper' = [reaper EXCEPT ![r].keys = @ \ {k}]
  /\ UNCHANGED <<tables, journal, req, stalled, lost, faults>>

\* Mutant of KeptJournal: the sweep drops the journal rows of its session.
KeptJournal_DropOwned(s) ==
  [k \in Keys |-> IF journal[k] # Null /\ journal[k].owner = s THEN Null ELSE journal[k]]

\* The sweep leaves the journal alone: it owns the objects of failed completions.
KeptJournal(s) == journal

SweepCommit(r) ==
  LET s == reaper[r].session IN
  /\ reaper[r].pc = "sweep" /\ reaper[r].keys = {}
  /\ session' = [session EXCEPT ![s] = Null]
  /\ parts' = [parts EXCEPT ![s] = <<>>]
  /\ journal' = KeptJournal(s)
  /\ reaper' = [reaper EXCEPT ![r] = IdleReaper]
  /\ UNCHANGED <<blobs, object, req, stalled, lost, faults>>

\* A live session, part or blob row refers to the key.
Referenced(k) ==
  \/ \E s \in Posts : Exists(s) /\ (k = BodyKey(s) \/ \E i \in DOMAIN parts[s] : parts[s][i] = k)
  \/ \E d \in blobs : k = BlobKey(d)

\* Mutant of Reapable: a key whose write was never marked is left alone.
Reapable_WrittenOnly(k) ==
  journal[k] # Null /\ journal[k].aged /\ ~Referenced(k) /\ journal[k].written

\* A key whose write was marked is protected by its references only; one whose
\* write is pending also by the session it was registered for.
Reapable(k) ==
  /\ journal[k] # Null /\ journal[k].aged /\ ~Referenced(k)
  /\ journal[k].written \/ ~Exists(journal[k].owner)

SelectKey(r) ==
  /\ reaper[r].pc = "idle"
  /\ \E k \in Keys :
       /\ Reapable(k)
       /\ reaper' = [reaper EXCEPT ![r].pc = "reap", ![r].key = k]
  /\ UNCHANGED <<tables, object, journal, req, stalled, lost, faults>>

\* The object goes first, on the strength of the SELECT alone.
ReapObject(r) ==
  /\ reaper[r].pc = "reap"
  /\ object' = Without({reaper[r].key})
  /\ reaper' = [reaper EXCEPT ![r].pc = "row"]
  /\ UNCHANGED <<tables, journal, req, stalled, lost, faults>>

\* DELETE of the row, with the predicate asserted again.
ReapRow(r) ==
  LET k == reaper[r].key IN
  /\ reaper[r].pc = "row"
  /\ journal' = IF Reapable(k) THEN [journal EXCEPT ![k] = Null] ELSE journal
  /\ reaper' = [reaper EXCEPT ![r] = IdleReaper]
  /\ UNCHANGED <<tables, object, req, stalled, lost, faults>>

\* A storage delete fails or the process dies: the transaction is rolled back.
ReaperFails(r) ==
  /\ reaper[r].pc # "idle" /\ Fault
  /\ reaper' = [reaper EXCEPT ![r] = IdleReaper]
  /\ UNCHANGED <<tables, object, journal, req, stalled, lost>>

-----------------------------------------------------------------------------

\* A handler's own progress.
RequestStep(q) ==
  \/ StartUpload(q) \/ BeginPatch(q) \/ PutBody(q) \/ MarkBody(q) \/ OpenSession(q)
  \/ AppendPart(q) \/ AppendLost(q) \/ RecoverAppend(q)
  \/ ClaimSession(q) \/ DropEmptyPart(q) \/ ClearEmptyPart(q)
  \/ PromoteSinglePart(q) \/ CollectParts(q) \/ Concat(q) \/ MarkComplete(q) \/ Verify(q)
  \/ RejectContent(q) \/ CopyBlob(q) \/ DropComplete(q) \/ CommitBlob(q) \/ RecoverCommit(q)
  \/ ClearBlobKey(q) \/ DeleteLeftovers(q) \/ Finish(q) \/ CompleteFails(q)
  \/ ClaimCancel(q) \/ ListKeys(q) \/ CancelDelete(q) \/ CancelDrop(q)

RequestFault(q) ==
  \/ WriteFails(q) \/ AppendUnknown(q) \/ CommitUnknown(q) \/ CancelFails(q)
  \/ Abort(q) \/ Stall(q)

ReaperStep(r) ==
  \/ LockAbandoned(r) \/ SweepDelete(r) \/ SweepCommit(r)
  \/ SelectKey(r) \/ ReapObject(r) \/ ReapRow(r)

Next ==
  \/ \E q \in Requests : RequestStep(q) \/ RequestFault(q)
  \/ \E r \in Reapers : ReaperStep(r) \/ ReaperFails(r)
  \/ \E s \in Posts : AgeSession(s)
  \/ \E k \in Keys : AgeKey(k)

Spec == Init /\ [][Next]_vars

\* Handlers that run get to run on, the collector's hourly tick comes round
\* again, and time passes.
Fairness ==
  /\ \A q \in Requests : WF_vars(InFlight(q) /\ RequestStep(q))
  /\ \A r \in Reapers : WF_vars(ReaperStep(r))
  /\ \A s \in Posts : WF_vars(AgeSession(s))
  /\ \A k \in Keys : WF_vars(AgeKey(k))

FairSpec == Spec /\ Fairness

-----------------------------------------------------------------------------
(* Properties. *)

\* What is stored under oci-blobs/<digest> has that digest, whichever way it was
\* promoted (cached digest of a single part, concatenation, monolithic POST) and
\* however PATCH, PUT and DELETE interleave, provided no PUT for that digest
\* outlived its lease: handle_complete_upload trusts computed_digest, and reads
\* the part rows without asking whether it still owns the session.
BlobIntegrity ==
  \A d \in Digests :
    (\A q \in stalled : DigestOf[q] # d) => object[BlobKey(d)] \in {Null, d}

\* A completed upload contains every chunk a PATCH was told is accepted: no PATCH
\* commits once a PUT holds the lease (state = 'open' in the PATCH transaction),
\* and a PUT that lost the lease commits nothing.
AcceptedPartsAreKept ==
  \A p, q \in Requests :
    /\ KindOf[p] = "put" /\ req[p].result = "created"
    /\ KindOf[q] = "patch" /\ req[q].result = "accepted" /\ req[q].session = req[p].session
    => \E i \in DOMAIN req[p].parts : req[p].parts[i] = BodyKey(q)

\* An upload has one outcome: it is not completed twice, nor cancelled for one
\* client and completed for another, even when a PUT runs on after its lease was
\* stolen (the state_token of claim, cancel and the terminal DELETE).
OneOutcome ==
  \A p, q \in {r \in Requests : KindOf[r] # "mono" /\ req[r].result \in {"created", "cancelled"}} :
    req[p].session = req[q].session => p = q

\* No upload object is out of the collector's sight: whatever was dropped or
\* failed, and however the sweeps interleave, a temporary object has a journal row.
\* The exception is the code's own: an object whose best-effort delete failed (the
\* promoted concatenation, an empty final part, the final part of a finished
\* upload) stays, and the handler clears its row without looking.
UploadObjectsAccounted ==
  \A k \in UploadKeys : object[k] # Null => journal[k] # Null \/ k \in lost

\* Once the requests are over every temporary upload object is deleted: by its
\* handler, with the abandoned session, or by the cleanup-key sweeps.  What stays for
\* good is an object whose best-effort delete failed and whose row was then cleared;
\* while the row is there (the handler was dropped in between) the sweeps get it.
UploadObjectsReclaimed ==
  <>[](\A k \in UploadKeys : object[k] = Null \/ (k \in lost /\ journal[k] = Null))

\* What storage_gc_service.rs and oci_v2.rs say of the journal of final keys: "a
\* committed/referenced blob is never reclaimed".
CommittedBlobPresent == \A d \in blobs : object[BlobKey(d)] # Null

=============================================================================
