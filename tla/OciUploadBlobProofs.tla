------------------------- MODULE OciUploadBlobProofs -------------------------
(***************************************************************************)
(* What OciUpload promises the clients, for any number of requests,        *)
(* bodies, digests, collectors and faults: the content of a blob, one      *)
(* outcome for every upload, and no accepted chunk left out.               *)
(***************************************************************************)
EXTENDS OciUploadProofs

USE OciUploadAssumption, NullAssumption

-----------------------------------------------------------------------------
(* The inductive invariants, in layers: each uses the ones before it. *)

\* A session comes after its POST, and a request after its session.
Sessions ==
  /\ \A s \in Posts : Exists(s) => req[s].pc = "done"
  /\ \A q \in Requests :
       KindOf[q] # "post" /\ req[q].session # Null => req[req[q].session].pc = "done"

\* The lease names a request of this session that has begun, and that is over when
\* the session is abandoned.
Leases ==
  \A s \in Posts :
    Exists(s) /\ session[s].token # Null =>
      /\ req[session[s].token].session = s /\ req[session[s].token].pc # "new"
      /\ session[s].age = "abandoned" => req[session[s].token].pc = "done"

\* A sweep holds an abandoned session, alone.
Sweeps ==
  /\ \A s \in Posts : Locked(s) => Exists(s) /\ session[s].age = "abandoned"
  /\ \A r1, r2 \in Reapers :
       /\ reaper[r1].pc = "sweep" /\ reaper[r2].pc = "sweep"
       /\ reaper[r1].session = reaper[r2].session
       => r1 = r2

\* A cached digest is that of the session's only part.
Cached(s) ==
  Exists(s) /\ session[s].computed # Null =>
    \E k \in Requests : parts[s] = <<BodyKey(k)>> /\ session[s].computed = BodyOf[k]

CachedDigests == \A s \in Posts : Cached(s)

\* A PUT that has not stalled holds its session, as it was when it claimed it, until
\* it has read the part rows.
HoldsOn(q) ==
  KindOf[q] = "put" /\ q \notin stalled /\ req[q].pc \in {"put", "mark", "empty", "unlist", "collect"} =>
    /\ Owns(q) /\ session[req[q].session].age = "fresh"
    /\ session[req[q].session].computed = req[q].computed

Holds == \A q \in Requests : HoldsOn(q)

Ownership == Sessions /\ Leases /\ Sweeps /\ CachedDigests /\ Holds

-----------------------------------------------------------------------------

\* What q is about to copy is a body of the digest it asks for, or the concatenation
\* it has verified.
SourceOf(q) ==
  \/ \E k \in Requests : req[q].src = BodyKey(k) /\ BodyOf[k] = DigestOf[q]
  \/ req[q].src = CompleteKey(q) /\ object[CompleteKey(q)] \in {Null, DigestOf[q]}

\* An object has the content its key stands for.
Source(q) ==
  /\ object[BodyKey(q)] \in {Null, BodyOf[q]}
  /\ KindOf[q] = "mono" /\ req[q].pc \in {"mark", "verify"} => req[q].computed = BodyOf[q]
  /\ KindOf[q] = "put" /\ req[q].pc \in {"seal", "verify"} =>
       object[CompleteKey(q)] \in {Null, req[q].computed}
  /\ req[q].pc = "copy" /\ q \notin stalled => SourceOf(q)

Sources == \A q \in Requests : Source(q)

Contents == Sources /\ BlobIntegrity

-----------------------------------------------------------------------------

\* The requests that decided the outcome of their session.
Won(q) ==
  /\ KindOf[q] # "mono"
  /\ \/ req[q].result \in {"created", "cancelled"}
     \/ req[q].pc \in {"clear", "finish", "tidy"} /\ req[q].result # "recovered"

\* The decision ends the session, so that there is one.
Decisions ==
  /\ \A q \in Requests :
       Won(q) => KindOf[q] # "post" /\ req[q].session \in Posts /\ ~Exists(req[q].session)
  /\ \A p, q \in Requests : Won(p) /\ Won(q) /\ req[p].session = req[q].session => p = q
  /\ \A q \in Requests :
       req[q].result \in {"created", "cancelled", "accepted"} => req[q].pc = "done"

\* The part of a PATCH that was accepted is in its session; the PUT that holds the
\* lease has all parts of the session from the moment it has read them; and so the
\* PUT that won has the part.
Kept(q) ==
  KindOf[q] = "patch" /\ req[q].result = "accepted" =>
    /\ req[q].session \in Posts
    /\ Exists(req[q].session) => Has(parts[req[q].session], BodyKey(q))

HasAll(p) ==
  KindOf[p] = "put" /\ Owns(p) /\ req[p].pc \in {"concat", "seal", "verify", "copy", "drop", "commit"} =>
    \A k \in UploadKeys : Has(parts[req[p].session], k) => Has(req[p].parts, k)

Delivers(p, q) ==
  /\ KindOf[p] = "put" /\ Won(p)
  /\ KindOf[q] = "patch" /\ req[q].result = "accepted" /\ req[q].session = req[p].session
  => Has(req[p].parts, BodyKey(q))

PartsKept ==
  /\ \A q \in Requests : Kept(q) /\ HasAll(q)
  /\ \A p, q \in Requests : Delivers(p, q)

Outcomes == Decisions /\ PartsKept

-----------------------------------------------------------------------------
(* Ownership: what a step of a request may do to a session. *)

Same(s) == session'[s] = session[s] /\ parts'[s] = parts[s]

Opens(q, s) ==
  /\ s = q /\ req[q].pc = "open" /\ req'[q].pc = "done"
  /\ session'[s] # Null /\ session'[s].token = Null /\ session'[s].age = "fresh"

Drops(q, s) == Owns(q) /\ s = req[q].session /\ session'[s] = Null

Reopens(q, s) ==
  /\ Owns(q) /\ s = req[q].session /\ session'[s] # Null
  /\ session'[s].state = "open" /\ session'[s].token = Null /\ session'[s].age = "fresh"
  /\ session'[s].computed = session[s].computed /\ parts'[s] = parts[s]

Claims(q, s) ==
  /\ Claimable(s) /\ req[q].pc = "new" /\ req'[q].session = s /\ session'[s] # Null
  /\ session'[s].state = "committing" /\ session'[s].token = q /\ session'[s].age = "fresh"
  /\ session'[s].computed = session[s].computed /\ parts'[s] = parts[s]

Appends(q, s) ==
  /\ Exists(s) /\ ~Locked(s) /\ session[s].state = "open" /\ session'[s] # Null
  /\ session'[s].state = "open" /\ session'[s].token = session[s].token
  /\ session'[s].age = "fresh" /\ parts'[s] = Append(parts[s], BodyKey(q))

Moves(q) ==
  \A s \in Posts : \/ Same(s) \/ Opens(q, s) \/ Drops(q, s) \/ Reopens(q, s)
                   \/ Claims(q, s) \/ Appends(q, s)

\* A request takes its session up at its first step.
Takes(q) ==
  \/ req[q].pc # "new" /\ req'[q].session = req[q].session
  \/ /\ req[q].pc = "new"
     /\ \/ KindOf[q] = "post" \/ req'[q].session = Null
        \/ req'[q].session \in Posts /\ Exists(req'[q].session)

\* Nobody else touches the session of a PUT that holds it.
LEMMA HeldSame ==
  ASSUME Types, Sessions, NEW q \in Requests, NEW p \in Requests, p # q, Moves(q),
         req[q].pc # "done", NEW s \in Posts, Exists(s),
         session[s].state = "committing", session[s].token = p, session[s].age = "fresh"
  PROVE  Same(s)
<1>1. ~Opens(q, s)
  BY DEF Opens, Sessions
<1>2. ~Drops(q, s) /\ ~Reopens(q, s)
  BY DEF Drops, Reopens, Owns
<1>3. ~Claims(q, s) /\ ~Appends(q, s)
  BY DEF Claims, Claimable, Appends
<1> QED BY <1>1, <1>2, <1>3 DEF Moves

\* Nor that of a sweep.
LEMMA LockedSame ==
  ASSUME Types, Sessions, Leases, Sweeps, NEW q \in Requests, Moves(q),
         req[q].pc # "done", NEW s \in Posts, Locked(s)
  PROVE  Same(s) /\ Exists(s) /\ session[s].age = "abandoned"
<1>1. Exists(s) /\ session[s].age = "abandoned"
  BY DEF Sweeps
<1>2. ~Opens(q, s)
  BY <1>1 DEF Opens, Sessions
<1>3. ~Drops(q, s) /\ ~Reopens(q, s)
  BY <1>1 DEF Drops, Reopens, Owns, Leases
<1>4. ~Claims(q, s) /\ ~Appends(q, s)
  BY DEF Claims, Claimable, Appends
<1> QED BY <1>1, <1>2, <1>3, <1>4 DEF Moves

\* A step of a request that moves sessions in these ways keeps Ownership.
LEMMA OwnershipKept ==
  ASSUME Types, Ownership, NEW q \in Requests, Only(q), req[q].pc # "done", req'[q].pc # "new",
         UNCHANGED <<reaper, stalled>>, Moves(q), Takes(q), HoldsOn(q)',
         \A s \in Posts : Opens(q, s) \/ Appends(q, s) => Cached(s)'
  PROVE  Ownership'
<1>1. \A p \in Requests : p # q => req'[p] = req[p]
  BY DEF Only, Types, TypeOK
<1>2. \A s \in Posts : (Exists(s))' => Exists(s) \/ Opens(q, s)
  BY DEF Moves, Same, Drops, Reopens, Owns, Claims, Claimable, Appends, Exists
<1>3. \A p \in Requests : req[p].pc = "done" => req'[p].pc = "done"
  BY <1>1
<1>4. Sessions'
  <2>1. ASSUME NEW s \in Posts, (Exists(s))' PROVE req'[s].pc = "done"
    <3>1. s \in Requests
      BY DEF Posts
    <3>2. CASE Exists(s)
      BY <1>3, <3>1, <3>2 DEF Ownership, Sessions
    <3>3. CASE Opens(q, s)
      BY <3>3 DEF Opens
    <3> QED BY <1>2, <2>1, <3>2, <3>3
  <2>2. ASSUME NEW p \in Requests, KindOf[p] # "post", req'[p].session # Null
        PROVE  req'[req'[p].session].pc = "done"
    <3>1. CASE req'[p].session = req[p].session
      <4>1. req[p].session \in Requests /\ req[req[p].session].pc = "done"
        BY <2>2, <3>1 DEF Ownership, Sessions, Types, TypeOK, Request, Posts
      <4> QED BY <1>3, <3>1, <4>1
    <3>2. CASE req'[p].session # req[p].session
      <4>1. p = q
        BY <1>1, <3>2
      <4>2. req'[p].session \in Posts /\ Exists(req'[p].session)
        BY <2>2, <3>2, <4>1 DEF Takes
      <4>3. req[req'[p].session].pc = "done" /\ req'[p].session \in Requests
        BY <4>2 DEF Ownership, Sessions, Posts
      <4> QED BY <1>3, <4>3
    <3> QED BY <3>1, <3>2
  <2> QED BY <2>1, <2>2 DEF Sessions
<1>5. Leases'
  <2> SUFFICES ASSUME NEW s \in Posts, (Exists(s))', session'[s].token # Null
               PROVE  /\ req'[session'[s].token].session = s /\ req'[session'[s].token].pc # "new"
                      /\ session'[s].age = "abandoned" => req'[session'[s].token].pc = "done"
    BY DEF Leases
  <2>1. CASE Claims(q, s)
    BY <2>1 DEF Claims
  <2>2. CASE Opens(q, s) \/ Drops(q, s) \/ Reopens(q, s)
    BY <2>2 DEF Opens, Drops, Reopens, Exists
  <2>3. CASE Same(s) \/ Appends(q, s)
    <3>1. /\ Exists(s) /\ session'[s].token = session[s].token
          /\ session'[s].age \in {session[s].age, "fresh"}
      BY <2>3 DEF Same, Appends, Exists
    <3> DEFINE t == session[s].token
    <3>2. t \in Requests
      BY <3>1 DEF Types, TypeOK, Session, Exists
    <3>3. /\ req[t].session = s /\ req[t].pc # "new"
          /\ session[s].age = "abandoned" => req[t].pc = "done"
      BY <3>1 DEF Ownership, Leases
    <3>4. req'[t].session = s /\ req'[t].pc # "new"
      BY <1>1, <3>2, <3>3 DEF Takes
    <3> QED BY <1>3, <3>1, <3>2, <3>3, <3>4
  <2> QED BY <2>1, <2>2, <2>3 DEF Moves
<1>6. Sweeps'
  <2>1. \A s \in Posts : (Locked(s))' <=> Locked(s)
    BY DEF Locked
  <2>2. ASSUME NEW s \in Posts, Locked(s) PROVE (Exists(s))' /\ session'[s].age = "abandoned"
    <3>1. Same(s) /\ Exists(s) /\ session[s].age = "abandoned"
      BY <2>2, LockedSame DEF Ownership
    <3> QED BY <3>1 DEF Same, Exists
  <2>3. \A s \in Posts : (Locked(s) => Exists(s) /\ session[s].age = "abandoned")'
    BY <2>1, <2>2
  <2> QED BY <2>3 DEF Ownership, Sweeps
<1>7. CachedDigests'
  <2> SUFFICES ASSUME NEW s \in Posts PROVE Cached(s)'
    BY DEF CachedDigests
  <2>1. CASE Opens(q, s) \/ Appends(q, s)
    BY <2>1
  <2>2. CASE Drops(q, s)
    BY <2>2 DEF Drops, Cached, Exists
  <2>3. CASE Same(s) \/ Reopens(q, s) \/ Claims(q, s)
    <3>1. /\ (Exists(s))' => Exists(s)
          /\ Exists(s) => session'[s].computed = session[s].computed /\ parts'[s] = parts[s]
      BY <2>3 DEF Same, Reopens, Owns, Claims, Claimable, Exists
    <3>2. Cached(s)
      BY DEF Ownership, CachedDigests
    <3> QED BY <3>1, <3>2 DEF Cached
  <2> QED BY <2>1, <2>2, <2>3 DEF Moves
<1>8. Holds'
  <2> SUFFICES ASSUME NEW p \in Requests, p # q, KindOf[p] = "put", p \notin stalled,
                      req[p].pc \in {"put", "mark", "empty", "unlist", "collect"}
               PROVE  /\ (Owns(p))' /\ session'[req'[p].session].age = "fresh"
                      /\ session'[req'[p].session].computed = req'[p].computed
    BY <1>1 DEF Holds, HoldsOn
  <2> DEFINE s == req[p].session
  <2>1. /\ Owns(p) /\ session[s].age = "fresh" /\ session[s].computed = req[p].computed
    BY DEF Ownership, Holds, HoldsOn
  <2>2. s \in Posts
    BY PlaceFacts
  <2>3. Same(s)
    BY <2>1, <2>2, HeldSame DEF Ownership, Owns
  <2> QED BY <1>1, <2>1, <2>3 DEF Same, Owns, Exists
<1> QED BY <1>4, <1>5, <1>6, <1>7, <1>8 DEF Ownership

\* Steps that leave the tables alone.
LEMMA QuietOwned ==
  ASSUME Types, Ownership, NEW q \in Requests, Only(q),
         req[q].pc \notin {"new", "done"}, req'[q].pc # "new",
         req'[q].session = req[q].session, UNCHANGED <<session, parts, reaper, stalled>>,
         KindOf[q] = "put" /\ req'[q].pc \in {"put", "mark", "empty", "unlist", "collect"} =>
           req[q].pc \in {"put", "mark", "empty", "unlist", "collect"} /\ req'[q].computed = req[q].computed
  PROVE  Ownership'
<1>1. Moves(q) /\ Takes(q)
  BY DEF Moves, Same, Takes
<1>2. HoldsOn(q)'
  <2>1. HoldsOn(q)
    BY DEF Ownership, Holds
  <2> QED BY <2>1 DEF HoldsOn, Owns, Exists
<1>3. \A s \in Posts : Cached(s)'
  <2> SUFFICES ASSUME NEW s \in Posts PROVE Cached(s)'
    OBVIOUS
  <2>1. Cached(s)
    BY DEF Ownership, CachedDigests
  <2> QED BY <2>1 DEF Cached, Exists
<1> QED BY <1>1, <1>2, <1>3, OwnershipKept

\* As above, by name.
LEMMA QuietStepOwned ==
  ASSUME Types, Ownership, NEW q \in Requests,
         \/ PutBody(q) \/ MarkBody(q) \/ AppendLost(q) \/ RecoverAppend(q) \/ PromoteSinglePart(q)
         \/ CollectParts(q) \/ Concat(q) \/ Verify(q) \/ CopyBlob(q) \/ ClearBlobKey(q) \/ Finish(q)
         \/ ListKeys(q) \/ CancelDelete(q) \/ WriteFails(q) \/ Abort(q) \/ DropEmptyPart(q)
         \/ ClearEmptyPart(q) \/ MarkComplete(q) \/ DropComplete(q) \/ DeleteLeftovers(q)
  PROVE  Ownership'
<1>1. CASE PutBody(q)
  <2>1. UNCHANGED <<session, parts, reaper, stalled>>
    BY <1>1 DEF PutBody, tables, gcVars
  <2>2. /\ Only(q) /\ req[q].pc \notin {"new", "done"} /\ req'[q].pc # "new"
        /\ req'[q].session = req[q].session
        /\ KindOf[q] = "put" /\ req'[q].pc \in {"put", "mark", "empty", "unlist", "collect"} =>
             req[q].pc \in {"put", "mark", "empty", "unlist", "collect"} /\ req'[q].computed = req[q].computed
    BY <1>1, PutBodyStep DEF Stays
  <2> QED BY <2>1, <2>2, QuietOwned
<1>2. CASE MarkBody(q)
  <2>1. UNCHANGED <<session, parts, reaper, stalled>>
    BY <1>2 DEF MarkBody, tables, gcVars
  <2>2. /\ Only(q) /\ req[q].pc \notin {"new", "done"} /\ req'[q].pc # "new"
        /\ req'[q].session = req[q].session
        /\ KindOf[q] = "put" /\ req'[q].pc \in {"put", "mark", "empty", "unlist", "collect"} =>
             req[q].pc \in {"put", "mark", "empty", "unlist", "collect"} /\ req'[q].computed = req[q].computed
    BY <1>2, MarkBodyStep DEF Stays
  <2> QED BY <2>1, <2>2, QuietOwned
<1>3. CASE AppendLost(q)
  <2>1. UNCHANGED <<session, parts, reaper, stalled>>
    BY <1>3 DEF AppendLost, tables, gcVars
  <2>2. /\ Only(q) /\ req[q].pc \notin {"new", "done"} /\ req'[q].pc # "new"
        /\ req'[q].session = req[q].session
        /\ KindOf[q] = "put" /\ req'[q].pc \in {"put", "mark", "empty", "unlist", "collect"} =>
             req[q].pc \in {"put", "mark", "empty", "unlist", "collect"} /\ req'[q].computed = req[q].computed
    BY <1>3, AppendLostStep DEF Stays
  <2> QED BY <2>1, <2>2, QuietOwned
<1>4. CASE RecoverAppend(q)
  <2>1. UNCHANGED <<session, parts, reaper, stalled>>
    BY <1>4 DEF RecoverAppend, tables, gcVars
  <2>2. /\ Only(q) /\ req[q].pc \notin {"new", "done"} /\ req'[q].pc # "new"
        /\ req'[q].session = req[q].session
        /\ KindOf[q] = "put" /\ req'[q].pc \in {"put", "mark", "empty", "unlist", "collect"} =>
             req[q].pc \in {"put", "mark", "empty", "unlist", "collect"} /\ req'[q].computed = req[q].computed
    BY <1>4, RecoverAppendStep DEF Stays
  <2> QED BY <2>1, <2>2, QuietOwned
<1>5. CASE PromoteSinglePart(q)
  <2>1. UNCHANGED <<session, parts, reaper, stalled>>
    BY <1>5 DEF PromoteSinglePart, tables, gcVars
  <2>2. /\ Only(q) /\ req[q].pc \notin {"new", "done"} /\ req'[q].pc # "new"
        /\ req'[q].session = req[q].session
        /\ KindOf[q] = "put" /\ req'[q].pc \in {"put", "mark", "empty", "unlist", "collect"} =>
             req[q].pc \in {"put", "mark", "empty", "unlist", "collect"} /\ req'[q].computed = req[q].computed
    BY <1>5, PromoteSinglePartStep DEF Stays
  <2> QED BY <2>1, <2>2, QuietOwned
<1>6. CASE CollectParts(q)
  <2>1. UNCHANGED <<session, parts, reaper, stalled>>
    BY <1>6 DEF CollectParts, tables, gcVars
  <2>2. /\ Only(q) /\ req[q].pc \notin {"new", "done"} /\ req'[q].pc # "new"
        /\ req'[q].session = req[q].session
        /\ KindOf[q] = "put" /\ req'[q].pc \in {"put", "mark", "empty", "unlist", "collect"} =>
             req[q].pc \in {"put", "mark", "empty", "unlist", "collect"} /\ req'[q].computed = req[q].computed
    BY <1>6, CollectPartsStep DEF Stays
  <2> QED BY <2>1, <2>2, QuietOwned
<1>7. CASE Concat(q)
  <2>1. UNCHANGED <<session, parts, reaper, stalled>>
    BY <1>7 DEF Concat, tables, gcVars
  <2>2. /\ Only(q) /\ req[q].pc \notin {"new", "done"} /\ req'[q].pc # "new"
        /\ req'[q].session = req[q].session
        /\ KindOf[q] = "put" /\ req'[q].pc \in {"put", "mark", "empty", "unlist", "collect"} =>
             req[q].pc \in {"put", "mark", "empty", "unlist", "collect"} /\ req'[q].computed = req[q].computed
    BY <1>7, ConcatStep DEF Stays
  <2> QED BY <2>1, <2>2, QuietOwned
<1>8. CASE Verify(q)
  <2>1. UNCHANGED <<session, parts, reaper, stalled>>
    BY <1>8 DEF Verify, tables, gcVars
  <2>2. /\ Only(q) /\ req[q].pc \notin {"new", "done"} /\ req'[q].pc # "new"
        /\ req'[q].session = req[q].session
        /\ KindOf[q] = "put" /\ req'[q].pc \in {"put", "mark", "empty", "unlist", "collect"} =>
             req[q].pc \in {"put", "mark", "empty", "unlist", "collect"} /\ req'[q].computed = req[q].computed
    BY <1>8, VerifyStep DEF Stays
  <2> QED BY <2>1, <2>2, QuietOwned
<1>9. CASE CopyBlob(q)
  <2>1. UNCHANGED <<session, parts, reaper, stalled>>
    BY <1>9 DEF CopyBlob, tables, gcVars
  <2>2. /\ Only(q) /\ req[q].pc \notin {"new", "done"} /\ req'[q].pc # "new"
        /\ req'[q].session = req[q].session
        /\ KindOf[q] = "put" /\ req'[q].pc \in {"put", "mark", "empty", "unlist", "collect"} =>
             req[q].pc \in {"put", "mark", "empty", "unlist", "collect"} /\ req'[q].computed = req[q].computed
    BY <1>9, CopyBlobStep DEF Stays
  <2> QED BY <2>1, <2>2, QuietOwned
<1>10. CASE ClearBlobKey(q)
  <2>1. UNCHANGED <<session, parts, reaper, stalled>>
    BY <1>10 DEF ClearBlobKey, tables, gcVars
  <2>2. /\ Only(q) /\ req[q].pc \notin {"new", "done"} /\ req'[q].pc # "new"
        /\ req'[q].session = req[q].session
        /\ KindOf[q] = "put" /\ req'[q].pc \in {"put", "mark", "empty", "unlist", "collect"} =>
             req[q].pc \in {"put", "mark", "empty", "unlist", "collect"} /\ req'[q].computed = req[q].computed
    BY <1>10, ClearBlobKeyStep DEF Stays
  <2> QED BY <2>1, <2>2, QuietOwned
<1>11. CASE Finish(q)
  <2>1. UNCHANGED <<session, parts, reaper, stalled>>
    BY <1>11 DEF Finish, tables, gcVars
  <2>2. /\ Only(q) /\ req[q].pc \notin {"new", "done"} /\ req'[q].pc # "new"
        /\ req'[q].session = req[q].session
        /\ KindOf[q] = "put" /\ req'[q].pc \in {"put", "mark", "empty", "unlist", "collect"} =>
             req[q].pc \in {"put", "mark", "empty", "unlist", "collect"} /\ req'[q].computed = req[q].computed
    BY <1>11, FinishStep DEF Stays
  <2> QED BY <2>1, <2>2, QuietOwned
<1>12. CASE ListKeys(q)
  <2>1. UNCHANGED <<session, parts, reaper, stalled>>
    BY <1>12 DEF ListKeys, tables, gcVars
  <2>2. /\ Only(q) /\ req[q].pc \notin {"new", "done"} /\ req'[q].pc # "new"
        /\ req'[q].session = req[q].session
        /\ KindOf[q] = "put" /\ req'[q].pc \in {"put", "mark", "empty", "unlist", "collect"} =>
             req[q].pc \in {"put", "mark", "empty", "unlist", "collect"} /\ req'[q].computed = req[q].computed
    BY <1>12, ListKeysStep DEF Stays
  <2> QED BY <2>1, <2>2, QuietOwned
<1>13. CASE CancelDelete(q)
  <2>1. UNCHANGED <<session, parts, reaper, stalled>>
    BY <1>13 DEF CancelDelete, tables, gcVars
  <2>2. /\ Only(q) /\ req[q].pc \notin {"new", "done"} /\ req'[q].pc # "new"
        /\ req'[q].session = req[q].session
        /\ KindOf[q] = "put" /\ req'[q].pc \in {"put", "mark", "empty", "unlist", "collect"} =>
             req[q].pc \in {"put", "mark", "empty", "unlist", "collect"} /\ req'[q].computed = req[q].computed
    BY <1>13, CancelDeleteStep DEF Stays
  <2> QED BY <2>1, <2>2, QuietOwned
<1>14. CASE WriteFails(q)
  <2>1. UNCHANGED <<session, parts, reaper, stalled>>
    BY <1>14 DEF WriteFails, tables, gcVars
  <2>2. /\ Only(q) /\ req[q].pc \notin {"new", "done"} /\ req'[q].pc # "new"
        /\ req'[q].session = req[q].session
        /\ KindOf[q] = "put" /\ req'[q].pc \in {"put", "mark", "empty", "unlist", "collect"} =>
             req[q].pc \in {"put", "mark", "empty", "unlist", "collect"} /\ req'[q].computed = req[q].computed
    BY <1>14, WriteFailsStep DEF Stays
  <2> QED BY <2>1, <2>2, QuietOwned
<1>15. CASE Abort(q)
  <2>1. UNCHANGED <<session, parts, reaper, stalled>>
    BY <1>15 DEF Abort, tables, gcVars
  <2>2. /\ Only(q) /\ req[q].pc \notin {"new", "done"} /\ req'[q].pc # "new"
        /\ req'[q].session = req[q].session
        /\ KindOf[q] = "put" /\ req'[q].pc \in {"put", "mark", "empty", "unlist", "collect"} =>
             req[q].pc \in {"put", "mark", "empty", "unlist", "collect"} /\ req'[q].computed = req[q].computed
    BY <1>15, AbortStep DEF Stays
  <2> QED BY <2>1, <2>2, QuietOwned
<1>16. CASE DropEmptyPart(q)
  <2>1. UNCHANGED <<session, parts, reaper, stalled>>
    BY <1>16, DropEmptyPartStep
  <2>2. /\ Only(q) /\ req[q].pc \notin {"new", "done"} /\ req'[q].pc # "new"
        /\ req'[q].session = req[q].session
        /\ KindOf[q] = "put" /\ req'[q].pc \in {"put", "mark", "empty", "unlist", "collect"} =>
             req[q].pc \in {"put", "mark", "empty", "unlist", "collect"} /\ req'[q].computed = req[q].computed
    BY <1>16, DropEmptyPartStep DEF Stays
  <2> QED BY <2>1, <2>2, QuietOwned
<1>17. CASE ClearEmptyPart(q)
  <2>1. UNCHANGED <<session, parts, reaper, stalled>>
    BY <1>17, ClearEmptyPartStep
  <2>2. /\ Only(q) /\ req[q].pc \notin {"new", "done"} /\ req'[q].pc # "new"
        /\ req'[q].session = req[q].session
        /\ KindOf[q] = "put" /\ req'[q].pc \in {"put", "mark", "empty", "unlist", "collect"} =>
             req[q].pc \in {"put", "mark", "empty", "unlist", "collect"} /\ req'[q].computed = req[q].computed
    BY <1>17, ClearEmptyPartStep DEF Stays
  <2> QED BY <2>1, <2>2, QuietOwned
<1>18. CASE MarkComplete(q)
  <2>1. UNCHANGED <<session, parts, reaper, stalled>>
    BY <1>18, MarkCompleteStep
  <2>2. /\ Only(q) /\ req[q].pc \notin {"new", "done"} /\ req'[q].pc # "new"
        /\ req'[q].session = req[q].session
        /\ KindOf[q] = "put" /\ req'[q].pc \in {"put", "mark", "empty", "unlist", "collect"} =>
             req[q].pc \in {"put", "mark", "empty", "unlist", "collect"} /\ req'[q].computed = req[q].computed
    BY <1>18, MarkCompleteStep DEF Stays
  <2> QED BY <2>1, <2>2, QuietOwned
<1>19. CASE DropComplete(q)
  <2>1. UNCHANGED <<session, parts, reaper, stalled>>
    BY <1>19, DropCompleteStep
  <2>2. /\ Only(q) /\ req[q].pc \notin {"new", "done"} /\ req'[q].pc # "new"
        /\ req'[q].session = req[q].session
        /\ KindOf[q] = "put" /\ req'[q].pc \in {"put", "mark", "empty", "unlist", "collect"} =>
             req[q].pc \in {"put", "mark", "empty", "unlist", "collect"} /\ req'[q].computed = req[q].computed
    BY <1>19, DropCompleteStep DEF Stays
  <2> QED BY <2>1, <2>2, QuietOwned
<1>20. CASE DeleteLeftovers(q)
  <2>1. UNCHANGED <<session, parts, reaper, stalled>>
    BY <1>20, DeleteLeftoversStep
  <2>2. /\ Only(q) /\ req[q].pc \notin {"new", "done"} /\ req'[q].pc # "new"
        /\ req'[q].session = req[q].session
        /\ KindOf[q] = "put" /\ req'[q].pc \in {"put", "mark", "empty", "unlist", "collect"} =>
             req[q].pc \in {"put", "mark", "empty", "unlist", "collect"} /\ req'[q].computed = req[q].computed
    BY <1>20, DeleteLeftoversStep DEF Stays
  <2> QED BY <2>1, <2>2, QuietOwned
<1> QED BY <1>1, <1>2, <1>3, <1>4, <1>5, <1>6, <1>7, <1>8, <1>9, <1>10, <1>11, <1>12,
           <1>13, <1>14, <1>15, <1>16, <1>17, <1>18, <1>19, <1>20

\* A POST or PATCH begins.
LEMMA BeginOwned ==
  ASSUME Types, Ownership, NEW q \in Requests, StartUpload(q) \/ BeginPatch(q)
  PROVE  Ownership'
<1>1. UNCHANGED <<session, parts, reaper, stalled>>
  BY DEF StartUpload, BeginPatch, tables, gcVars
<1>2. /\ Only(q) /\ req[q].pc = "new" /\ req'[q].pc = "put" /\ KindOf[q] # "put" /\ Takes(q)
  BY StartUploadStep, BeginPatchStep DEF Takes
<1>3. Moves(q) /\ HoldsOn(q)'
  BY <1>1, <1>2 DEF Moves, Same, HoldsOn
<1>4. \A s \in Posts : Cached(s)'
  <2> SUFFICES ASSUME NEW s \in Posts PROVE Cached(s)'
    OBVIOUS
  <2>1. Cached(s)
    BY DEF Ownership, CachedDigests
  <2> QED BY <1>1, <2>1 DEF Cached, Exists
<1> QED BY <1>1, <1>2, <1>3, <1>4, OwnershipKept

\* A session is opened once its POST is over; its digest is that of its body.
LEMMA OpenOwned ==
  ASSUME Types, Ownership, NEW q \in Requests, OpenSession(q)
  PROVE  Ownership' /\ Moves(q)
<1>1. UNCHANGED <<reaper, stalled>>
  BY DEF OpenSession, gcVars
<1>2. /\ Only(q) /\ req[q].pc = "open" /\ req'[q].pc = "done" /\ KindOf[q] = "post" /\ Takes(q)
      /\ q \in Posts
  BY OpenSessionStep DEF Takes, Stays, Posts
<1>3. Opens(q, q) /\ \A s \in Posts \ {q} : Same(s)
  BY OpenSessionStep DEF Opens, Same
<1>4. Moves(q)
  BY <1>3 DEF Moves
<1>5. HoldsOn(q)'
  BY <1>2 DEF HoldsOn
<1>6. ASSUME NEW s \in Posts, Opens(q, s) \/ Appends(q, s) PROVE Cached(s)'
  <2>1. CASE s = q
    BY <1>2, <2>1, OpenSessionStep DEF Cached
  <2>2. CASE s # q
    <3>1. Same(s) /\ Cached(s)
      BY <1>3, <2>2 DEF Ownership, CachedDigests
    <3> QED BY <3>1 DEF Same, Cached, Exists
  <2> QED BY <2>1, <2>2
<1> QED BY <1>1, <1>2, <1>4, <1>5, <1>6, OwnershipKept

\* A part is appended to an open session; only a first part leaves it with a digest.
LEMMA AppendMoves ==
  ASSUME Types, Ownership, NEW q \in Requests, AppendEffect(q), ~Locked(req[q].session)
  PROVE  Moves(q) /\ \A s \in Posts : Opens(q, s) \/ Appends(q, s) => Cached(s)'
<1>0. PICK s \in Posts : s = req[q].session
  BY DEF AppendEffect
<1>1. Appends(q, s) /\ \A t \in Posts \ {s} : Same(t)
  BY <1>0 DEF AppendEffect, Appends, Same
<1>2. Moves(q)
  BY <1>1 DEF Moves
<1>3. Cached(s)'
  <2>1. session'[s].computed # Null =>
          /\ parts[s] = <<>> /\ session'[s].computed = BodyOf[q]
          /\ parts'[s] = Append(parts[s], BodyKey(q))
    BY <1>0 DEF AppendEffect
  <2>2. session'[s].computed # Null =>
          parts'[s] = <<BodyKey(q)>> /\ session'[s].computed = BodyOf[q]
    BY <2>1
  <2>3. session'[s].computed # Null =>
          \E k \in Requests : parts'[s] = <<BodyKey(k)>> /\ session'[s].computed = BodyOf[k]
    BY <2>2
  <2> QED BY <2>3 DEF Cached
<1>4. ASSUME NEW t \in Posts \ {s} PROVE Cached(t)'
  <2>1. Same(t) /\ Cached(t)
    BY <1>1 DEF Ownership, CachedDigests
  <2> QED BY <2>1 DEF Same, Cached, Exists
<1>5. ASSUME NEW t \in Posts PROVE Cached(t)'
  BY <1>3, <1>4
<1> QED BY <1>2, <1>5

\* The transaction of a PATCH, with or without an answer.
LEMMA AppendOwned ==
  ASSUME Types, Ownership, NEW q \in Requests, AppendPart(q) \/ AppendUnknown(q)
  PROVE  Ownership' /\ Moves(q)
<1>1. UNCHANGED <<reaper, stalled>>
  BY DEF AppendPart, AppendUnknown, gcVars
<1>2. /\ Only(q) /\ req[q].pc = "append" /\ req'[q].pc \in {"done", "recover"}
      /\ KindOf[q] = "patch" /\ Takes(q) /\ req'[q].session = req[q].session /\ ~Locked(req[q].session)
      /\ AppendEffect(q) \/ UNCHANGED <<session, parts>>
  BY AppendPartStep, AppendUnknownStep DEF Takes, Stays
<1>3. CASE AppendEffect(q)
  <2>1. HoldsOn(q)'
    BY <1>2 DEF HoldsOn
  <2> QED BY <1>1, <1>2, <1>3, <2>1, AppendMoves, OwnershipKept
<1>4. CASE UNCHANGED <<session, parts>>
  <2>1. Moves(q)
    BY <1>4 DEF Moves, Same
  <2> QED BY <1>1, <1>2, <1>4, <2>1, QuietOwned
<1> QED BY <1>2, <1>3, <1>4

\* A claim takes an open session, or one whose lease was not renewed.
LEMMA ClaimMoves ==
  ASSUME Types, Ownership, NEW q \in Requests, req[q].pc = "new",
         req'[q].session \in Posts, Claimable(req'[q].session),
         session' = Claimed(req'[q].session, q), parts' = parts
  PROVE  /\ Moves(q) /\ Claims(q, req'[q].session) /\ Takes(q)
         /\ \A s \in Posts : Opens(q, s) \/ Appends(q, s) => Cached(s)'
<1> DEFINE s == req'[q].session
<1>1. Exists(s)
  BY DEF Claimable
<1>2. Claims(q, s) /\ \A t \in Posts \ {s} : Same(t)
  <2>1. TypeOK
    BY DEF Types
  <2>2. /\ \A t \in Posts \ {s} : session'[t] = session[t]
        /\ session'[s] # Null /\ session'[s].state = "committing"
        /\ session'[s].token = q /\ session'[s].age = "fresh"
        /\ session'[s].computed = session[s].computed
    BY <1>1, <2>1, ClaimedFacts
  <2> QED BY <2>2 DEF Claims, Same
<1>3. Moves(q) /\ Takes(q)
  BY <1>1, <1>2 DEF Moves, Takes
<1>4. \A t \in Posts : ~Opens(q, t)
  BY DEF Opens
<1>5. ASSUME NEW t \in Posts, Appends(q, t) PROVE Cached(t)'
  <2>1. Cached(t) /\ Exists(t)
    BY <1>5 DEF Ownership, CachedDigests, Appends
  <2>2. session'[t].computed = session[t].computed /\ parts'[t] = parts[t]
    BY <1>2 DEF Claims, Same
  <2> QED BY <2>1, <2>2 DEF Cached
<1> QED BY <1>2, <1>3, <1>4, <1>5

\* The PUT that claims holds its session.
LEMMA ClaimOwned ==
  ASSUME Types, Ownership, NEW q \in Requests, ClaimSession(q)
  PROVE  Ownership' /\ Moves(q)
<1>1. UNCHANGED <<reaper, stalled, parts>>
  BY DEF ClaimSession, gcVars
<1>2. /\ Only(q) /\ req[q].pc = "new" /\ req'[q].pc \in {"put", "collect"}
      /\ req'[q].session \in Posts /\ Claimable(req'[q].session)
      /\ session' = Claimed(req'[q].session, q)
      /\ req'[q].computed = session[req'[q].session].computed
  BY ClaimSessionStep
<1>3. /\ Moves(q) /\ Claims(q, req'[q].session) /\ Takes(q)
      /\ \A s \in Posts : Opens(q, s) \/ Appends(q, s) => Cached(s)'
  BY <1>1, <1>2, ClaimMoves
<1>4. HoldsOn(q)'
  <2> DEFINE s == req'[q].session
  <2>1. s # Null
    BY <1>2 DEF Posts
  <2> QED BY <1>2, <1>3, <2>1 DEF Claims, HoldsOn, Owns, Exists
<1> QED BY <1>1, <1>2, <1>3, <1>4, OwnershipKept

\* So does a DELETE.
LEMMA CancelOwned ==
  ASSUME Types, Ownership, NEW q \in Requests, ClaimCancel(q)
  PROVE  Ownership' /\ Moves(q)
<1>1. UNCHANGED <<reaper, stalled, parts>>
  BY DEF ClaimCancel, gcVars
<1>2. /\ Only(q) /\ req[q].pc = "new" /\ req'[q].pc = "list" /\ req'[q].session \in Posts
      /\ Claimable(req'[q].session) /\ session' = Claimed(req'[q].session, q)
  BY ClaimCancelStep DEF Claimable
<1>3. /\ Moves(q) /\ Takes(q)
      /\ \A s \in Posts : Opens(q, s) \/ Appends(q, s) => Cached(s)'
  BY <1>1, <1>2, ClaimMoves
<1>4. HoldsOn(q)'
  BY <1>2 DEF HoldsOn
<1> QED BY <1>1, <1>2, <1>3, <1>4, OwnershipKept

\* A request that fails gives its session back.
LEMMA ReopenMoves ==
  ASSUME Types, Ownership, NEW q \in Requests, req[q].pc \notin {"new", "open"},
         session' = session \/ session' = Reopened(q), parts' = parts
  PROVE  /\ Moves(q)
         /\ \A s \in Posts : Opens(q, s) \/ Appends(q, s) => Cached(s)'
<1>1. /\ \A s \in Posts : (session'[s] = Null) <=> (session[s] = Null)
      /\ \A s \in Posts : Exists(s) => session'[s].computed = session[s].computed
      /\ \A s \in Posts : session'[s] # session[s] =>
           /\ Owns(q) /\ s = req[q].session
           /\ session'[s].state = "open" /\ session'[s].token = Null /\ session'[s].age = "fresh"
  <2>1. TypeOK
    BY DEF Types
  <2>2. CASE session' = session
    BY <2>2
  <2>3. CASE session' = Reopened(q)
    BY <2>1, <2>3, ReopenedFacts
  <2> QED BY <2>2, <2>3
<1>2. \A s \in Posts : Same(s) \/ Reopens(q, s)
  <2> SUFFICES ASSUME NEW s \in Posts, session'[s] # session[s] PROVE Reopens(q, s)
    BY DEF Same
  <2>1. /\ Owns(q) /\ s = req[q].session
        /\ session'[s].state = "open" /\ session'[s].token = Null /\ session'[s].age = "fresh"
    BY <1>1
  <2>2. Exists(s)
    BY <2>1 DEF Owns
  <2> QED BY <1>1, <2>1, <2>2 DEF Reopens, Exists
<1>3. Moves(q)
  BY <1>2 DEF Moves
<1>4. ASSUME NEW s \in Posts, Opens(q, s) \/ Appends(q, s) PROVE Cached(s)'
  <2>1. Exists(s) /\ Cached(s)
    BY <1>4 DEF Ownership, CachedDigests, Opens, Appends
  <2> QED BY <1>1, <2>1 DEF Cached
<1> QED BY <1>3, <1>4

\* The failures, by name.
LEMMA ReopenOwned ==
  ASSUME Types, Ownership, NEW q \in Requests,
         RejectContent(q) \/ CompleteFails(q) \/ CancelFails(q) \/ RecoverCommit(q)
  PROVE  Ownership' /\ Moves(q)
<1>1. UNCHANGED <<reaper, stalled, parts>>
  BY DEF RejectContent, CompleteFails, CancelFails, RecoverCommit, gcVars
<1>2. /\ Only(q) /\ req[q].pc \notin {"new", "open", "done"} /\ req'[q].pc \in {"done", "clear"}
      /\ req'[q].session = req[q].session
  <2>1. CASE RejectContent(q)
    BY <2>1, RejectContentStep DEF Stays
  <2>2. CASE CompleteFails(q)
    BY <2>2, CompleteFailsStep DEF Stays
  <2>3. CASE CancelFails(q)
    BY <2>3, CancelFailsStep DEF Stays
  <2>4. CASE RecoverCommit(q)
    BY <2>4, RecoverCommitStep DEF Stays
  <2> QED BY <2>1, <2>2, <2>3, <2>4
<1>3. session' = session \/ session' = Reopened(q)
  BY RejectContentStep, CancelFailsStep, RecoverCommitStep DEF CompleteFails
<1>4. Takes(q) /\ HoldsOn(q)'
  BY <1>2 DEF Takes, HoldsOn
<1> QED BY <1>1, <1>2, <1>3, <1>4, ReopenMoves, OwnershipKept

\* A request that owns its session may end it.
LEMMA DropMoves ==
  ASSUME Types, Ownership, NEW q \in Requests, req[q].pc \notin {"new", "open"},
         Owns(q), req[q].session \in Posts,
         session' = [session EXCEPT ![req[q].session] = Null],
         parts' = [parts EXCEPT ![req[q].session] = <<>>]
  PROVE  /\ Moves(q) /\ Drops(q, req[q].session)
         /\ \A s \in Posts : Opens(q, s) \/ Appends(q, s) => Cached(s)'
<1> DEFINE s == req[q].session
<1>1. Drops(q, s) /\ \A t \in Posts \ {s} : Same(t)
  BY DEF Drops, Same, Types, TypeOK
<1>2. Moves(q)
  BY <1>1 DEF Moves
<1>3. ASSUME NEW t \in Posts, Opens(q, t) \/ Appends(q, t) PROVE Cached(t)'
  <2>1. t # s
    BY <1>1, <1>3 DEF Drops, Opens, Appends
  <2>2. Same(t) /\ Cached(t)
    BY <1>1, <2>1 DEF Ownership, CachedDigests
  <2> QED BY <2>2 DEF Same, Cached, Exists
<1> QED BY <1>1, <1>2, <1>3

\* A commit or a cancellation, by name.
LEMMA DropOwned ==
  ASSUME Types, Ownership, NEW q \in Requests, CommitBlob(q) \/ CommitUnknown(q) \/ CancelDrop(q)
  PROVE  Ownership' /\ Moves(q)
<1>1. UNCHANGED <<reaper, stalled>>
  BY DEF CommitBlob, CommitUnknown, CancelDrop, gcVars
<1>2. /\ Only(q) /\ req[q].pc \notin {"new", "open", "done"}
      /\ req'[q].pc \in {"clear", "recover", "done"} /\ req'[q].session = req[q].session
  <2>1. CASE CommitBlob(q)
    BY <2>1, CommitBlobStep DEF Stays
  <2>2. CASE CommitUnknown(q)
    BY <2>2, CommitUnknownStep DEF Stays
  <2>3. CASE CancelDrop(q)
    BY <2>3, CancelDropStep DEF Stays
  <2> QED BY <2>1, <2>2, <2>3
<1>3. \/ UNCHANGED <<session, parts>>
      \/ /\ Owns(q) /\ req[q].session \in Posts
         /\ session' = [session EXCEPT ![req[q].session] = Null]
         /\ parts' = [parts EXCEPT ![req[q].session] = <<>>]
  BY CommitBlobStep, CommitUnknownStep, CancelDropStep DEF CommitEffect
<1>4. Takes(q) /\ HoldsOn(q)'
  BY <1>2 DEF Takes, HoldsOn
<1>5. CASE UNCHANGED <<session, parts>>
  <2>1. Moves(q)
    BY <1>5 DEF Moves, Same
  <2> QED BY <1>1, <1>2, <1>5, <2>1, QuietOwned
<1>6. CASE /\ Owns(q) /\ req[q].session \in Posts
           /\ session' = [session EXCEPT ![req[q].session] = Null]
           /\ parts' = [parts EXCEPT ![req[q].session] = <<>>]
  BY <1>1, <1>2, <1>4, <1>6, DropMoves, OwnershipKept
<1> QED BY <1>3, <1>5, <1>6

\* Ownership is about the tables, the requests and the sweeps.
LEMMA OwnershipAside ==
  ASSUME Ownership, UNCHANGED <<session, parts, req, stalled>>, Sweeps'
  PROVE  Ownership'
<1>1. Sessions' /\ Leases'
  BY DEF Ownership, Sessions, Leases, Exists
<1>2. CachedDigests'
  BY DEF Ownership, CachedDigests, Cached, Exists
<1>3. Holds'
  BY DEF Ownership, Holds, HoldsOn, Owns, Exists
<1> QED BY <1>1, <1>2, <1>3 DEF Ownership

\* A collector that does not lock a session locks none.
LEMMA SweepsKept ==
  ASSUME Types, Sweeps, NEW r \in Reapers, OnlyReaper(r), UNCHANGED session,
         reaper'[r].pc = "sweep" =>
           reaper[r].pc = "sweep" /\ reaper'[r].session = reaper[r].session
  PROVE  Sweeps'
<1>1. ASSUME NEW t \in Reapers, reaper'[t].pc = "sweep"
      PROVE  reaper[t].pc = "sweep" /\ reaper'[t].session = reaper[t].session
  BY <1>1 DEF OnlyReaper, Types, TypeOK
<1>2. \A s \in Posts : (Locked(s))' => Locked(s)
  BY <1>1 DEF Locked
<1>3. \A s \in Posts : (Locked(s))' => (Exists(s))' /\ session'[s].age = "abandoned"
  BY <1>2 DEF Sweeps, Exists
<1> QED BY <1>1, <1>3 DEF Sweeps

\* The sweep that ends a session ends that of nobody else.
LEMMA SweepCommitOwned ==
  ASSUME Types, Ownership, NEW r \in Reapers, SweepCommit(r)
  PROVE  Ownership'
<1>1. PICK s \in Posts : s = reaper[r].session
  BY SweepCommitStep
<1>2. /\ OnlyReaper(r) /\ reaper'[r].pc = "idle" /\ reaper[r].pc = "sweep"
      /\ UNCHANGED <<req, stalled>> /\ session'[s] = Null
      /\ \A t \in Posts \ {s} : Same(t)
  BY <1>1, SweepCommitStep DEF Same, Types, TypeOK
<1>3. Exists(s) /\ session[s].age = "abandoned"
  BY <1>1, <1>2 DEF Ownership, Sweeps, Locked
<1>4. Sessions' /\ Leases'
  BY <1>2 DEF Ownership, Sessions, Leases, Exists, Same
<1>5. Sweeps'
  <2>1. ASSUME NEW t \in Reapers, reaper'[t].pc = "sweep"
        PROVE  reaper[t].pc = "sweep" /\ reaper'[t].session = reaper[t].session /\ t # r
    BY <1>2, <2>1 DEF OnlyReaper, Types, TypeOK
  <2>2. ASSUME NEW t \in Posts, (Locked(t))'
        PROVE  (Exists(t))' /\ session'[t].age = "abandoned"
    <3>1. PICK u \in Reapers : reaper'[u].pc = "sweep" /\ reaper'[u].session = t
      BY <2>2 DEF Locked
    <3>2. reaper[u].pc = "sweep" /\ reaper[u].session = t /\ u # r
      BY <2>1, <3>1
    <3>3. t # s
      BY <1>1, <1>2, <3>2 DEF Ownership, Sweeps
    <3>4. Exists(t) /\ session[t].age = "abandoned"
      BY <3>2 DEF Ownership, Sweeps, Locked
    <3> QED BY <1>2, <3>3, <3>4 DEF Same, Exists
  <2> QED BY <2>1, <2>2 DEF Ownership, Sweeps
<1>6. CachedDigests'
  <2> SUFFICES ASSUME NEW t \in Posts PROVE Cached(t)'
    BY DEF CachedDigests
  <2>1. CASE t = s
    BY <1>2, <2>1 DEF Cached, Exists
  <2>2. CASE t # s
    <3>1. Same(t) /\ Cached(t)
      BY <1>2, <2>2 DEF Ownership, CachedDigests
    <3> QED BY <3>1 DEF Same, Cached, Exists
  <2> QED BY <2>1, <2>2
<1>7. Holds'
  <2> SUFFICES ASSUME NEW p \in Requests, KindOf[p] = "put", p \notin stalled,
                      req[p].pc \in {"put", "mark", "empty", "unlist", "collect"}
               PROVE  /\ (Owns(p))' /\ session'[req[p].session].age = "fresh"
                      /\ session'[req[p].session].computed = req[p].computed
    BY <1>2 DEF Holds, HoldsOn
  <2>1. /\ Owns(p) /\ session[req[p].session].age = "fresh"
        /\ session[req[p].session].computed = req[p].computed
    BY DEF Ownership, Holds, HoldsOn
  <2>2. req[p].session \in Posts \ {s}
    BY <1>3, <2>1, PlaceFacts
  <2> QED BY <1>2, <2>1, <2>2 DEF Same, Owns, Exists
<1> QED BY <1>4, <1>5, <1>6, <1>7 DEF Ownership

\* The steps of the collectors.
LEMMA ReaperOwned ==
  ASSUME Types, Ownership, NEW r \in Reapers, ReaperStep(r) \/ ReaperFails(r)
  PROVE  Ownership'
<1>1. ASSUME OnlyReaper(r), UNCHANGED <<session, parts, req, stalled>>,
             reaper'[r].pc = "sweep" =>
               reaper[r].pc = "sweep" /\ reaper'[r].session = reaper[r].session
      PROVE  Ownership'
  BY <1>1, SweepsKept, OwnershipAside DEF Ownership
<1>2. CASE LockAbandoned(r)
  <2>1. PICK s \in Posts : s = reaper'[r].session
    BY <1>2, LockAbandonedStep DEF OnlyReaper
  <2>2. /\ OnlyReaper(r) /\ UNCHANGED <<session, parts, req, stalled>> /\ reaper'[r].pc = "sweep"
        /\ Exists(s) /\ session[s].age = "abandoned" /\ ~Locked(s)
    BY <1>2, <2>1, LockAbandonedStep
  <2>3. \A t \in Reapers \ {r} : reaper'[t] = reaper[t]
    BY <2>2 DEF OnlyReaper, Types, TypeOK
  <2>4. \A t \in Reapers \ {r} : reaper'[t].pc = "sweep" => reaper'[t].session # s
    BY <2>2, <2>3 DEF Locked
  <2>5. ASSUME NEW t \in Posts, (Locked(t))'
        PROVE  (Exists(t))' /\ session'[t].age = "abandoned"
    <3>1. CASE t = s
      BY <2>2, <3>1 DEF Exists
    <3>2. CASE t # s
      <4>1. Locked(t)
        BY <2>1, <2>3, <2>5, <3>2 DEF Locked
      <4> QED BY <2>2, <4>1 DEF Ownership, Sweeps, Exists
    <3> QED BY <3>1, <3>2
  <2>6. ASSUME NEW r1 \in Reapers, NEW r2 \in Reapers,
               reaper'[r1].pc = "sweep", reaper'[r2].pc = "sweep",
               reaper'[r1].session = reaper'[r2].session
        PROVE  r1 = r2
    BY <2>1, <2>3, <2>4, <2>6 DEF Ownership, Sweeps
  <2>7. Sweeps'
    BY <2>5, <2>6 DEF Sweeps
  <2> QED BY <2>2, <2>7, OwnershipAside
<1>3. CASE SweepDelete(r)
  BY <1>1, <1>3, SweepDeleteStep
<1>4. CASE SweepCommit(r)
  BY <1>4, SweepCommitOwned
<1>5. CASE SelectKey(r)
  BY <1>1, <1>5, SelectKeyStep
<1>6. CASE ReapObject(r)
  BY <1>1, <1>6, ReapObjectStep
<1>7. CASE ReapRow(r)
  BY <1>1, <1>7, ReapRowStep
<1>8. CASE ReaperFails(r)
  BY <1>1, <1>8, ReaperFailsStep
<1> QED BY <1>2, <1>3, <1>4, <1>5, <1>6, <1>7, <1>8 DEF ReaperStep

\* A session grows old: nobody sweeps it yet, and nobody who is in time holds it.
LEMMA AgeOwned ==
  ASSUME Types, Ownership, NEW s \in Posts, NEW a \in {"stale", "abandoned"}, AgeEffect(s, a),
         UNCHANGED <<parts, req, reaper>>, stalled \subseteq stalled',
         session[s].age # "abandoned",
         a = "abandoned" /\ session[s].token # Null => req[session[s].token].pc = "done",
         \A p \in Requests : session[s].token = p =>
           p \in stalled' \/ req[p].pc \in {"new", "done"}
  PROVE  Ownership'
<1>1. \A t \in Posts : /\ (Exists(t))' <=> Exists(t)
                       /\ Exists(t) => /\ session'[t].state = session[t].state
                                       /\ session'[t].token = session[t].token
                                       /\ session'[t].computed = session[t].computed
                       /\ t # s => session'[t] = session[t]
  BY DEF AgeEffect, Exists
<1>2. Sessions'
  BY <1>1 DEF Ownership, Sessions
<1>3. Leases'
  <2> SUFFICES ASSUME NEW t \in Posts, (Exists(t))', session'[t].token # Null
               PROVE  /\ req[session'[t].token].session = t /\ req[session'[t].token].pc # "new"
                      /\ session'[t].age = "abandoned" => req[session'[t].token].pc = "done"
    BY DEF Leases
  <2>1. Exists(t) /\ session'[t].token = session[t].token
    BY <1>1
  <2>2. /\ req[session[t].token].session = t /\ req[session[t].token].pc # "new"
        /\ session[t].age = "abandoned" => req[session[t].token].pc = "done"
    BY <2>1 DEF Ownership, Leases
  <2>3. CASE t = s
    BY <2>1, <2>2, <2>3 DEF AgeEffect
  <2>4. CASE t # s
    BY <1>1, <2>1, <2>2, <2>4
  <2> QED BY <2>3, <2>4
<1>4. Sweeps'
  <2>1. \A t \in Posts : (Locked(t))' <=> Locked(t)
    BY DEF Locked
  <2>2. \A t \in Posts : Locked(t) => t # s /\ Exists(t) /\ session[t].age = "abandoned"
    BY DEF Ownership, Sweeps
  <2>3. \A t \in Posts : (Locked(t))' => (Exists(t))' /\ session'[t].age = "abandoned"
    BY <1>1, <2>1, <2>2
  <2> QED BY <2>3 DEF Ownership, Sweeps
<1>5. CachedDigests'
  BY <1>1 DEF Ownership, CachedDigests, Cached
<1>6. Holds'
  <2> SUFFICES ASSUME NEW p \in Requests, KindOf[p] = "put", p \notin stalled',
                      req[p].pc \in {"put", "mark", "empty", "unlist", "collect"}
               PROVE  /\ (Owns(p))' /\ session'[req[p].session].age = "fresh"
                      /\ session'[req[p].session].computed = req[p].computed
    BY DEF Holds, HoldsOn
  <2>1. /\ Owns(p) /\ session[req[p].session].age = "fresh"
        /\ session[req[p].session].computed = req[p].computed
    BY DEF Ownership, Holds, HoldsOn
  <2>2. req[p].session \in Posts /\ req[p].session # s
    BY <2>1, PlaceFacts DEF Owns
  <2> QED BY <1>1, <2>1, <2>2 DEF Owns, Exists
<1> QED BY <1>2, <1>3, <1>4, <1>5, <1>6 DEF Ownership

\* Time passes.
LEMMA TimeOwned ==
  ASSUME Types, Ownership,
         \/ \E q \in Requests : Stall(q)
         \/ \E s \in Posts : AgeSession(s)
         \/ \E k \in Keys : AgeKey(k)
  PROVE  Ownership'
<1>1. ASSUME NEW q \in Requests, Stall(q) PROVE Ownership'
  <2>1. PICK s \in Posts : s = req[q].session
    BY <1>1, StallStep, PlaceFacts DEF Stall, InFlight
  <2>2. /\ AgeEffect(s, "stale") /\ Owns(q) /\ stalled' = stalled \cup {q} /\ req[q].pc # "done"
        /\ UNCHANGED <<parts, req, reaper>>
    BY <1>1, <2>1, StallStep DEF Stall, InFlight
  <2>3. Exists(s) /\ session[s].token = q
    BY <2>1, <2>2 DEF Owns
  <2>4. session[s].age # "abandoned"
    BY <2>2, <2>3 DEF Ownership, Leases
  <2> QED BY <2>2, <2>3, <2>4, AgeOwned
<1>2. ASSUME NEW s \in Posts, AgeSession(s) PROVE Ownership'
  <2>1. /\ UNCHANGED <<parts, req, reaper, stalled>>
        /\ \A q \in Requests : InFlight(q) => session[s].token # q
        /\ \/ AgeEffect(s, "stale") /\ session[s].age = "fresh"
           \/ AgeEffect(s, "abandoned") /\ session[s].age = "stale"
    BY <1>2, AgeSessionStep
  <2>2. Exists(s)
    BY <2>1 DEF AgeEffect
  <2>3. session[s].token # Null => req[session[s].token].pc = "done"
    <3> SUFFICES ASSUME session[s].token # Null PROVE req[session[s].token].pc = "done"
      OBVIOUS
    <3>1. session[s].token \in Requests
      BY <2>2 DEF Types, TypeOK, Session, Exists
    <3>2. req[session[s].token].pc # "new"
      BY <2>2 DEF Ownership, Leases
    <3> QED BY <2>1, <3>1, <3>2 DEF InFlight
  <2>4. \A p \in Requests : session[s].token = p => req[p].pc \in {"new", "done"}
    BY <2>1 DEF InFlight
  <2> QED BY <2>1, <2>3, <2>4, AgeOwned
<1>3. ASSUME NEW k \in Keys, AgeKey(k) PROVE Ownership'
  <2>1. UNCHANGED <<session, parts, req, reaper, stalled>>
    BY <1>3, AgeKeyStep
  <2>2. Sweeps'
    BY <2>1 DEF Ownership, Sweeps, Locked, Exists
  <2> QED BY <2>1, <2>2, OwnershipAside
<1> QED BY <1>1, <1>2, <1>3

\* A step of a request moves the sessions in one of these ways, and keeps Ownership.
LEMMA RequestOwned ==
  ASSUME Types, Ownership, NEW q \in Requests, RequestStep(q) \/ RequestFault(q), ~Stall(q)
  PROVE  Ownership' /\ Moves(q)
<1>1. CASE StartUpload(q) \/ BeginPatch(q)
  <2>1. Moves(q)
    BY <1>1 DEF StartUpload, BeginPatch, tables, Moves, Same
  <2> QED BY <1>1, <2>1, BeginOwned
<1>2. CASE \/ PutBody(q) \/ MarkBody(q) \/ AppendLost(q) \/ RecoverAppend(q) \/ PromoteSinglePart(q)
           \/ CollectParts(q) \/ Concat(q) \/ Verify(q) \/ CopyBlob(q) \/ ClearBlobKey(q) \/ Finish(q)
           \/ ListKeys(q) \/ CancelDelete(q) \/ WriteFails(q) \/ Abort(q) \/ DropEmptyPart(q)
           \/ ClearEmptyPart(q) \/ MarkComplete(q) \/ DropComplete(q) \/ DeleteLeftovers(q)
  <2>1. UNCHANGED <<session, parts>>
    BY <1>2, DropEmptyPartStep, ClearEmptyPartStep, MarkCompleteStep, DropCompleteStep, DeleteLeftoversStep
       DEF PutBody, MarkBody, AppendLost, RecoverAppend, PromoteSinglePart, CollectParts, Concat,
                Verify, CopyBlob, ClearBlobKey, Finish, ListKeys, CancelDelete, WriteFails, Abort, tables
  <2>2. Moves(q)
    BY <2>1 DEF Moves, Same
  <2> QED BY <1>2, <2>2, QuietStepOwned
<1>3. CASE OpenSession(q)
  BY <1>3, OpenOwned
<1>4. CASE AppendPart(q) \/ AppendUnknown(q)
  BY <1>4, AppendOwned
<1>5. CASE ClaimSession(q)
  BY <1>5, ClaimOwned
<1>6. CASE ClaimCancel(q)
  BY <1>6, CancelOwned
<1>7. CASE RejectContent(q) \/ CompleteFails(q) \/ CancelFails(q) \/ RecoverCommit(q)
  BY <1>7, ReopenOwned
<1>8. CASE CommitBlob(q) \/ CommitUnknown(q) \/ CancelDrop(q)
  BY <1>8, DropOwned
<1> QED BY <1>1, <1>2, <1>3, <1>4, <1>5, <1>6, <1>7, <1>8 DEF RequestStep, RequestFault

\* Every lease has its holder.
THEOREM OwnershipHolds == Spec => []Ownership
<1>1. Init => Ownership
  BY DEF Init, Ownership, Sessions, Leases, Sweeps, CachedDigests, Cached, Holds, HoldsOn, Exists, Locked
<1>2. Types /\ Ownership /\ [Next]_vars => Ownership'
  <2> SUFFICES ASSUME Types, Ownership, [Next]_vars PROVE Ownership'
    OBVIOUS
  <2>1. ASSUME NEW q \in Requests, RequestStep(q) \/ RequestFault(q) PROVE Ownership'
    BY <2>1, RequestOwned, TimeOwned
  <2>2. CASE UNCHANGED vars
    <3>1. UNCHANGED <<session, parts, req, reaper, stalled>>
      BY <2>2 DEF vars, tables
    <3>2. Sweeps'
      BY <3>1 DEF Ownership, Sweeps, Locked, Exists
    <3> QED BY <3>1, <3>2, OwnershipAside
  <2> QED BY <2>1, <2>2, ReaperOwned, TimeOwned DEF Next
<1> QED BY <1>1, <1>2, TypesHold, PTL DEF Spec

-----------------------------------------------------------------------------
(* Contents. *)

\* Blobs are at most deleted.
LEMMA IntegrityKept ==
  ASSUME Types, BlobIntegrity, stalled \subseteq stalled',
         \A k \in Keys \ UploadKeys : object'[k] \in {object[k], Null}
  PROVE  BlobIntegrity'
<1> SUFFICES ASSUME NEW d \in Digests, \A q \in stalled' : DigestOf[q] # d
             PROVE  object'[BlobKey(d)] \in {Null, d}
  BY DEF BlobIntegrity
<1>1. object[BlobKey(d)] \in {Null, d}
  BY DEF BlobIntegrity
<1>2. object'[BlobKey(d)] \in {object[BlobKey(d)], Null}
  BY KeyFacts
<1> QED BY <1>1, <1>2

\* A step of q writes to the keys of q alone.
LEMMA SourcesKept ==
  ASSUME Types, Sources, NEW q \in Requests, Only(q), UNCHANGED stalled,
         \A k \in UploadKeys : object'[k] \in {object[k], Null} \/ k \in Scratch(q), Source(q)'
  PROVE  Sources'
<1> SUFFICES ASSUME NEW p \in Requests, p # q PROVE Source(p)'
  BY DEF Sources
<1>1. req'[p] = req[p]
  BY DEF Only, Types, TypeOK
<1>2. /\ object'[BodyKey(p)] \in {object[BodyKey(p)], Null}
      /\ object'[CompleteKey(p)] \in {object[CompleteKey(p)], Null}
  BY KeyFacts DEF Scratch
<1>3. Source(p)
  BY DEF Sources
<1>4. SourceOf(p) => SourceOf(p)'
  BY <1>1, <1>2 DEF SourceOf
<1> QED BY <1>1, <1>2, <1>3, <1>4 DEF Source

\* A step that only deletes, and does not come to a place where a source matters.
LEMMA ContentsDeleting ==
  ASSUME Types, Contents, NEW q \in Requests, Only(q), UNCHANGED stalled,
         \A k \in Keys : object'[k] \in {object[k], Null},
         req'[q].pc \notin {"mark", "seal", "verify", "copy"}
  PROVE  Contents'
<1>1. Source(q)'
  <2>1. object'[BodyKey(q)] \in {object[BodyKey(q)], Null}
    BY KeyFacts
  <2>2. Source(q)
    BY DEF Contents, Sources
  <2> QED BY <2>1, <2>2 DEF Source
<1>2. Sources' /\ BlobIntegrity'
  BY <1>1, KeyFacts, SourcesKept, IntegrityKept DEF Contents
<1> QED BY <1>2 DEF Contents

\* The steps that do, by name.
LEMMA DeletingContents ==
  ASSUME Types, Contents, NEW q \in Requests,
         \/ StartUpload(q) \/ BeginPatch(q) \/ WriteFails(q) \/ OpenSession(q) \/ AppendPart(q)
         \/ AppendLost(q) \/ AppendUnknown(q) \/ RecoverAppend(q) \/ ClaimSession(q) \/ CollectParts(q)
         \/ RejectContent(q) \/ CompleteFails(q) \/ CommitBlob(q) \/ CommitUnknown(q)
         \/ RecoverCommit(q) \/ ClearBlobKey(q) \/ Finish(q) \/ ClaimCancel(q) \/ ListKeys(q)
         \/ CancelDelete(q) \/ CancelDrop(q) \/ CancelFails(q) \/ Abort(q) \/ DropEmptyPart(q)
         \/ ClearEmptyPart(q) \/ DropComplete(q) \/ DeleteLeftovers(q)
  PROVE  Contents'
<1>1. CASE StartUpload(q)
  <2>1. UNCHANGED stalled
    BY <1>1 DEF StartUpload, gcVars
  <2>2. \A k \in Keys : object'[k] \in {object[k], Null}
    BY <1>1 DEF StartUpload, tables
  <2>3. Only(q) /\ req'[q].pc \notin {"mark", "seal", "verify", "copy"}
    BY <1>1, StartUploadStep
  <2> QED BY <2>1, <2>2, <2>3, ContentsDeleting
<1>2. CASE BeginPatch(q)
  <2>1. UNCHANGED stalled
    BY <1>2 DEF BeginPatch, gcVars
  <2>2. \A k \in Keys : object'[k] \in {object[k], Null}
    BY <1>2 DEF BeginPatch, tables
  <2>3. Only(q) /\ req'[q].pc \notin {"mark", "seal", "verify", "copy"}
    BY <1>2, BeginPatchStep
  <2> QED BY <2>1, <2>2, <2>3, ContentsDeleting
<1>3. CASE WriteFails(q)
  <2>1. UNCHANGED stalled
    BY <1>3 DEF WriteFails, gcVars
  <2>2. \A k \in Keys : object'[k] \in {object[k], Null}
    BY <1>3, Deletes DEF WriteFails
  <2>3. Only(q) /\ req'[q].pc \notin {"mark", "seal", "verify", "copy"}
    BY <1>3, WriteFailsStep
  <2> QED BY <2>1, <2>2, <2>3, ContentsDeleting
<1>4. CASE OpenSession(q)
  <2>1. UNCHANGED stalled
    BY <1>4 DEF OpenSession, gcVars
  <2>2. \A k \in Keys : object'[k] \in {object[k], Null}
    BY <1>4 DEF OpenSession, tables
  <2>3. Only(q) /\ req'[q].pc \notin {"mark", "seal", "verify", "copy"}
    BY <1>4, OpenSessionStep
  <2> QED BY <2>1, <2>2, <2>3, ContentsDeleting
<1>5. CASE AppendPart(q)
  <2>1. UNCHANGED stalled
    BY <1>5 DEF AppendPart, gcVars
  <2>2. \A k \in Keys : object'[k] \in {object[k], Null}
    BY <1>5 DEF AppendPart, tables
  <2>3. Only(q) /\ req'[q].pc \notin {"mark", "seal", "verify", "copy"}
    BY <1>5, AppendPartStep
  <2> QED BY <2>1, <2>2, <2>3, ContentsDeleting
<1>6. CASE AppendLost(q)
  <2>1. UNCHANGED stalled
    BY <1>6 DEF AppendLost, gcVars
  <2>2. \A k \in Keys : object'[k] \in {object[k], Null}
    BY <1>6, Deletes DEF AppendLost
  <2>3. Only(q) /\ req'[q].pc \notin {"mark", "seal", "verify", "copy"}
    BY <1>6, AppendLostStep
  <2> QED BY <2>1, <2>2, <2>3, ContentsDeleting
<1>7. CASE AppendUnknown(q)
  <2>1. UNCHANGED stalled
    BY <1>7 DEF AppendUnknown, gcVars
  <2>2. \A k \in Keys : object'[k] \in {object[k], Null}
    BY <1>7 DEF AppendUnknown, tables
  <2>3. Only(q) /\ req'[q].pc \notin {"mark", "seal", "verify", "copy"}
    BY <1>7, AppendUnknownStep
  <2> QED BY <2>1, <2>2, <2>3, ContentsDeleting
<1>8. CASE RecoverAppend(q)
  <2>1. UNCHANGED stalled
    BY <1>8 DEF RecoverAppend, gcVars
  <2>2. \A k \in Keys : object'[k] \in {object[k], Null}
    BY <1>8, RecoverAppendStep
  <2>3. Only(q) /\ req'[q].pc \notin {"mark", "seal", "verify", "copy"}
    BY <1>8, RecoverAppendStep
  <2> QED BY <2>1, <2>2, <2>3, ContentsDeleting
<1>9. CASE ClaimSession(q)
  <2>1. UNCHANGED stalled
    BY <1>9 DEF ClaimSession, gcVars
  <2>2. \A k \in Keys : object'[k] \in {object[k], Null}
    BY <1>9 DEF ClaimSession, tables
  <2>3. Only(q) /\ req'[q].pc \notin {"mark", "seal", "verify", "copy"}
    BY <1>9, ClaimSessionStep
  <2> QED BY <2>1, <2>2, <2>3, ContentsDeleting
<1>10. CASE CollectParts(q)
  <2>1. UNCHANGED stalled
    BY <1>10 DEF CollectParts, gcVars
  <2>2. \A k \in Keys : object'[k] \in {object[k], Null}
    BY <1>10 DEF CollectParts, tables
  <2>3. Only(q) /\ req'[q].pc \notin {"mark", "seal", "verify", "copy"}
    BY <1>10, CollectPartsStep
  <2> QED BY <2>1, <2>2, <2>3, ContentsDeleting
<1>11. CASE RejectContent(q)
  <2>1. UNCHANGED stalled
    BY <1>11 DEF RejectContent, gcVars
  <2>2. \A k \in Keys : object'[k] \in {object[k], Null}
    BY <1>11, Deletes DEF RejectContent
  <2>3. Only(q) /\ req'[q].pc \notin {"mark", "seal", "verify", "copy"}
    BY <1>11, RejectContentStep
  <2> QED BY <2>1, <2>2, <2>3, ContentsDeleting
<1>12. CASE CompleteFails(q)
  <2>1. UNCHANGED stalled
    BY <1>12 DEF CompleteFails, gcVars
  <2>2. \A k \in Keys : object'[k] \in {object[k], Null}
    BY <1>12, Deletes DEF CompleteFails
  <2>3. Only(q) /\ req'[q].pc \notin {"mark", "seal", "verify", "copy"}
    BY <1>12, CompleteFailsStep
  <2> QED BY <2>1, <2>2, <2>3, ContentsDeleting
<1>13. CASE CommitBlob(q)
  <2>1. UNCHANGED stalled
    BY <1>13 DEF CommitBlob, gcVars
  <2>2. \A k \in Keys : object'[k] \in {object[k], Null}
    BY <1>13 DEF CommitBlob, tables
  <2>3. Only(q) /\ req'[q].pc \notin {"mark", "seal", "verify", "copy"}
    BY <1>13, CommitBlobStep
  <2> QED BY <2>1, <2>2, <2>3, ContentsDeleting
<1>14. CASE CommitUnknown(q)
  <2>1. UNCHANGED stalled
    BY <1>14 DEF CommitUnknown, gcVars
  <2>2. \A k \in Keys : object'[k] \in {object[k], Null}
    BY <1>14 DEF CommitUnknown, tables
  <2>3. Only(q) /\ req'[q].pc \notin {"mark", "seal", "verify", "copy"}
    BY <1>14, CommitUnknownStep
  <2> QED BY <2>1, <2>2, <2>3, ContentsDeleting
<1>15. CASE RecoverCommit(q)
  <2>1. UNCHANGED stalled
    BY <1>15 DEF RecoverCommit, gcVars
  <2>2. \A k \in Keys : object'[k] \in {object[k], Null}
    BY <1>15, RecoverCommitStep, Deletes
  <2>3. Only(q) /\ req'[q].pc \notin {"mark", "seal", "verify", "copy"}
    BY <1>15, RecoverCommitStep
  <2> QED BY <2>1, <2>2, <2>3, ContentsDeleting
<1>16. CASE ClearBlobKey(q)
  <2>1. UNCHANGED stalled
    BY <1>16 DEF ClearBlobKey, gcVars
  <2>2. \A k \in Keys : object'[k] \in {object[k], Null}
    BY <1>16 DEF ClearBlobKey, tables
  <2>3. Only(q) /\ req'[q].pc \notin {"mark", "seal", "verify", "copy"}
    BY <1>16, ClearBlobKeyStep
  <2> QED BY <2>1, <2>2, <2>3, ContentsDeleting
<1>17. CASE Finish(q)
  <2>1. UNCHANGED stalled
    BY <1>17 DEF Finish, gcVars
  <2>2. \A k \in Keys : object'[k] \in {object[k], Null}
    BY <1>17, FinishStep
  <2>3. Only(q) /\ req'[q].pc \notin {"mark", "seal", "verify", "copy"}
    BY <1>17, FinishStep
  <2> QED BY <2>1, <2>2, <2>3, ContentsDeleting
<1>18. CASE ClaimCancel(q)
  <2>1. UNCHANGED stalled
    BY <1>18 DEF ClaimCancel, gcVars
  <2>2. \A k \in Keys : object'[k] \in {object[k], Null}
    BY <1>18 DEF ClaimCancel, tables
  <2>3. Only(q) /\ req'[q].pc \notin {"mark", "seal", "verify", "copy"}
    BY <1>18, ClaimCancelStep
  <2> QED BY <2>1, <2>2, <2>3, ContentsDeleting
<1>19. CASE ListKeys(q)
  <2>1. UNCHANGED stalled
    BY <1>19 DEF ListKeys, gcVars
  <2>2. \A k \in Keys : object'[k] \in {object[k], Null}
    BY <1>19 DEF ListKeys, tables
  <2>3. Only(q) /\ req'[q].pc \notin {"mark", "seal", "verify", "copy"}
    BY <1>19, ListKeysStep
  <2> QED BY <2>1, <2>2, <2>3, ContentsDeleting
<1>20. CASE CancelDelete(q)
  <2>1. UNCHANGED stalled
    BY <1>20 DEF CancelDelete, gcVars
  <2>2. \A k \in Keys : object'[k] \in {object[k], Null}
    BY <1>20, Deletes DEF CancelDelete
  <2>3. Only(q) /\ req'[q].pc \notin {"mark", "seal", "verify", "copy"}
    BY <1>20, CancelDeleteStep
  <2> QED BY <2>1, <2>2, <2>3, ContentsDeleting
<1>21. CASE CancelDrop(q)
  <2>1. UNCHANGED stalled
    BY <1>21 DEF CancelDrop, gcVars
  <2>2. \A k \in Keys : object'[k] \in {object[k], Null}
    BY <1>21 DEF CancelDrop, tables
  <2>3. Only(q) /\ req'[q].pc \notin {"mark", "seal", "verify", "copy"}
    BY <1>21, CancelDropStep
  <2> QED BY <2>1, <2>2, <2>3, ContentsDeleting
<1>22. CASE CancelFails(q)
  <2>1. UNCHANGED stalled
    BY <1>22 DEF CancelFails, gcVars
  <2>2. \A k \in Keys : object'[k] \in {object[k], Null}
    BY <1>22 DEF CancelFails, tables
  <2>3. Only(q) /\ req'[q].pc \notin {"mark", "seal", "verify", "copy"}
    BY <1>22, CancelFailsStep
  <2> QED BY <2>1, <2>2, <2>3, ContentsDeleting
<1>23. CASE Abort(q)
  <2>1. UNCHANGED stalled
    BY <1>23 DEF Abort, gcVars
  <2>2. \A k \in Keys : object'[k] \in {object[k], Null}
    BY <1>23 DEF Abort, tables
  <2>3. Only(q) /\ req'[q].pc \notin {"mark", "seal", "verify", "copy"}
    BY <1>23, AbortStep
  <2> QED BY <2>1, <2>2, <2>3, ContentsDeleting
<1>24. CASE DropEmptyPart(q)
  <2>1. UNCHANGED stalled
    BY <1>24, DropEmptyPartStep
  <2>2. \A k \in Keys : object'[k] \in {object[k], Null}
    BY <1>24, DropEmptyPartStep, DroppedFacts, KeyFacts DEF Types
  <2>3. Only(q) /\ req'[q].pc \notin {"mark", "seal", "verify", "copy"}
    BY <1>24, DropEmptyPartStep
  <2> QED BY <2>1, <2>2, <2>3, ContentsDeleting
<1>25. CASE ClearEmptyPart(q)
  <2>1. UNCHANGED stalled
    BY <1>25, ClearEmptyPartStep
  <2>2. \A k \in Keys : object'[k] \in {object[k], Null}
    BY <1>25, ClearEmptyPartStep
  <2>3. Only(q) /\ req'[q].pc \notin {"mark", "seal", "verify", "copy"}
    BY <1>25, ClearEmptyPartStep
  <2> QED BY <2>1, <2>2, <2>3, ContentsDeleting
<1>26. CASE DropComplete(q)
  <2>1. UNCHANGED stalled
    BY <1>26, DropCompleteStep
  <2>2. \A k \in Keys : object'[k] \in {object[k], Null}
    BY <1>26, DropCompleteStep, DroppedFacts, KeyFacts DEF Types
  <2>3. Only(q) /\ req'[q].pc \notin {"mark", "seal", "verify", "copy"}
    BY <1>26, DropCompleteStep
  <2> QED BY <2>1, <2>2, <2>3, ContentsDeleting
<1>27. CASE DeleteLeftovers(q)
  <2>1. UNCHANGED stalled
    BY <1>27, DeleteLeftoversStep
  <2>2. \A k \in Keys : object'[k] \in {object[k], Null}
    BY <1>27, DeleteLeftoversStep
  <2>3. Only(q) /\ req'[q].pc \notin {"mark", "seal", "verify", "copy"}
    BY <1>27, DeleteLeftoversStep
  <2> QED BY <2>1, <2>2, <2>3, ContentsDeleting
<1> QED BY <1>1, <1>2, <1>3, <1>4, <1>5, <1>6, <1>7, <1>8, <1>9, <1>10, <1>11, <1>12, <1>13, <1>14,
           <1>15, <1>16, <1>17, <1>18, <1>19, <1>20, <1>21, <1>22, <1>23, <1>24, <1>25, <1>26, <1>27

\* The body that is written under the key of a request is its body.
LEMMA PutBodyContents ==
  ASSUME Types, Contents, NEW q \in Requests, PutBody(q)
  PROVE  Contents'
<1>1. UNCHANGED stalled
  BY DEF PutBody, gcVars
<1>2. /\ BodyKey(q) \in Keys /\ BodyKey(q) \in UploadKeys /\ BodyKey(q) \in Scratch(q)
      /\ UploadKeys \subseteq Keys
  BY KeyFacts DEF Scratch
<1>3. object'[BodyKey(q)] = BodyOf[q] /\ \A k \in Keys \ {BodyKey(q)} : object'[k] = object[k]
  BY <1>2 DEF PutBody, Types, TypeOK
<1>4. Source(q)'
  BY <1>3, PutBodyStep DEF Source
<1>5. Sources' /\ BlobIntegrity'
  <2>1. Only(q)
    BY PutBodyStep
  <2>2. \A k \in UploadKeys : object'[k] \in {object[k], Null} \/ k \in Scratch(q)
    BY <1>2, <1>3
  <2>3. \A k \in Keys \ UploadKeys : object'[k] \in {object[k], Null}
    BY <1>2, <1>3
  <2> QED BY <1>1, <1>4, <2>1, <2>2, <2>3, SourcesKept, IntegrityKept DEF Contents
<1> QED BY <1>5 DEF Contents

\* A step that leaves the objects alone and knows its source.
LEMMA ContentsOnward ==
  ASSUME Types, Contents, NEW q \in Requests, Only(q), UNCHANGED <<stalled, object>>, Source(q)'
  PROVE  Contents'
<1>1. Sources' /\ BlobIntegrity'
  BY SourcesKept, IntegrityKept DEF Contents
<1> QED BY <1>1 DEF Contents

\* The digest of a monolithic POST is that of its body.
LEMMA MarkBodyContents ==
  ASSUME Types, Contents, NEW q \in Requests, MarkBody(q)
  PROVE  Contents'
<1>1. UNCHANGED <<stalled, object>>
  BY DEF MarkBody, gcVars
<1>2. Source(q)'
  <2>1. Source(q)
    BY DEF Contents, Sources
  <2> QED BY <1>1, <2>1, MarkBodyStep DEF Source, Stays
<1> QED BY <1>1, <1>2, MarkBodyStep, ContentsOnward

\* Marking the concatenation changes neither it nor its digest.
LEMMA MarkCompleteContents ==
  ASSUME Types, Contents, NEW q \in Requests, MarkComplete(q)
  PROVE  Contents'
<1>1. UNCHANGED <<stalled, object>>
  BY MarkCompleteStep
<1>2. Source(q)'
  <2>1. Source(q) /\ KindOf[q] = "put"
    BY PlaceFacts, MarkCompleteStep DEF Contents, Sources
  <2> QED BY <1>1, <2>1, MarkCompleteStep DEF Source, Stays
<1> QED BY <1>1, <1>2, MarkCompleteStep, ContentsOnward

\* The digest of a concatenation is that of the object written.
LEMMA ConcatContents ==
  ASSUME Types, Contents, NEW q \in Requests, Concat(q)
  PROVE  Contents'
<1>1. UNCHANGED stalled
  BY DEF Concat, gcVars
<1>2. /\ CompleteKey(q) \in Keys /\ CompleteKey(q) \in UploadKeys /\ CompleteKey(q) \in Scratch(q)
      /\ UploadKeys \subseteq Keys /\ BodyKey(q) \in Keys /\ BodyKey(q) # CompleteKey(q)
  BY KeyFacts DEF Scratch
<1>3. /\ object'[CompleteKey(q)] = req'[q].computed
      /\ \A k \in Keys \ {CompleteKey(q)} : object'[k] = object[k]
  BY <1>2, ConcatStep DEF Types, TypeOK
<1>4. Source(q)'
  <2>1. object'[BodyKey(q)] \in {Null, BodyOf[q]}
    BY <1>2, <1>3 DEF Contents, Sources, Source
  <2> QED BY <1>3, <2>1, ConcatStep DEF Source
<1>5. Sources' /\ BlobIntegrity'
  <2>1. Only(q)
    BY ConcatStep
  <2>2. \A k \in UploadKeys : object'[k] \in {object[k], Null} \/ k \in Scratch(q)
    BY <1>2, <1>3
  <2>3. \A k \in Keys \ UploadKeys : object'[k] \in {object[k], Null}
    BY <1>2, <1>3
  <2> QED BY <1>1, <1>4, <2>1, <2>2, <2>3, SourcesKept, IntegrityKept DEF Contents
<1> QED BY <1>5 DEF Contents

\* What is copied was verified.
LEMMA VerifyContents ==
  ASSUME Types, Contents, NEW q \in Requests, Verify(q)
  PROVE  Contents'
<1>1. UNCHANGED <<stalled, object>>
  BY DEF Verify, gcVars
<1>2. Source(q)
  BY DEF Contents, Sources
<1>3. /\ Only(q) /\ req[q].pc = "verify" /\ req'[q].pc = "copy" /\ req[q].computed = DigestOf[q]
      /\ \/ KindOf[q] = "mono" /\ req'[q].src = BodyKey(q)
         \/ KindOf[q] = "put" /\ req'[q].src = CompleteKey(q)
  BY VerifyStep
<1>4. (SourceOf(q))'
  <2>1. CASE KindOf[q] = "mono" /\ req'[q].src = BodyKey(q)
    BY <1>2, <1>3, <2>1 DEF Source, SourceOf
  <2>2. CASE KindOf[q] = "put" /\ req'[q].src = CompleteKey(q)
    BY <1>1, <1>2, <1>3, <2>2 DEF Source, SourceOf
  <2> QED BY <1>3, <2>1, <2>2
<1>5. Source(q)'
  BY <1>1, <1>2, <1>3, <1>4 DEF Source
<1> QED BY <1>1, <1>3, <1>5, ContentsOnward

\* The digest cached with a session is that of its only part, as long as the PUT holds
\* the session.
LEMMA PromoteContents ==
  ASSUME Types, Ownership, Contents, NEW q \in Requests, PromoteSinglePart(q)
  PROVE  Contents'
<1>1. UNCHANGED <<stalled, object>>
  BY DEF PromoteSinglePart, gcVars
<1>2. /\ Only(q) /\ req[q].pc = "collect" /\ req'[q].pc = "copy" /\ KindOf[q] = "put"
      /\ req[q].computed = DigestOf[q] /\ req'[q].src = FetchedParts(q)[1]
  BY PromoteSinglePartStep DEF Promotable
<1>3. ASSUME q \notin stalled PROVE (SourceOf(q))'
  <2>1. PICK s \in Posts : s = req[q].session
    BY <1>2, PlaceFacts
  <2>2. Exists(s) /\ session[s].computed = DigestOf[q]
    BY <1>2, <1>3, <2>1 DEF Ownership, Holds, HoldsOn, Owns
  <2>3. DigestOf[q] # Null
    BY ContentFacts
  <2>4. PICK k \in Requests : parts[s] = <<BodyKey(k)>> /\ session[s].computed = BodyOf[k]
    BY <2>2, <2>3 DEF Ownership, CachedDigests, Cached
  <2>5. <<BodyKey(k)>> # <<>> /\ <<BodyKey(k)>>[1] = BodyKey(k)
    OBVIOUS
  <2>6. FetchedParts(q)[1] = BodyKey(k)
    BY <2>1, <2>4, <2>5 DEF FetchedParts
  <2>7. req'[q].src = BodyKey(k) /\ BodyOf[k] = DigestOf[q]
    BY <1>2, <2>2, <2>4, <2>6
  <2> QED BY <2>7 DEF SourceOf
<1>4. Source(q)'
  <2>1. Source(q)
    BY DEF Contents, Sources
  <2> QED BY <1>1, <1>2, <1>3, <2>1 DEF Source
<1> QED BY <1>1, <1>2, <1>4, ContentsOnward

\* The copy puts that content under the digest.
LEMMA CopyContents ==
  ASSUME Types, Contents, NEW q \in Requests, CopyBlob(q)
  PROVE  Contents'
<1>1. UNCHANGED stalled
  BY DEF CopyBlob, gcVars
<1>2. Only(q) /\ req[q].pc = "copy" /\ req'[q].pc \in {"drop", "commit"} /\ req[q].src \in Keys
  BY CopyBlobStep
<1>3. /\ BlobKey(DigestOf[q]) \in Keys /\ BlobKey(DigestOf[q]) \notin UploadKeys
      /\ CompleteKey(q) \in UploadKeys /\ BodyKey(q) \in UploadKeys /\ UploadKeys \subseteq Keys
  BY KeyFacts
<1>4. /\ object'[BlobKey(DigestOf[q])] = object[req[q].src]
      /\ \A k \in UploadKeys : object'[k] \in {object[k], Null}
      /\ \A k \in Keys \ UploadKeys : k # BlobKey(DigestOf[q]) => object'[k] = object[k]
  BY <1>2, <1>3 DEF CopyBlob, Types, TypeOK
<1>5. Sources'
  <2>1. Source(q)
    BY DEF Contents, Sources
  <2>2. Source(q)'
    BY <1>2, <1>3, <1>4, <2>1 DEF Source
  <2> QED BY <1>1, <1>2, <1>4, <2>2, SourcesKept DEF Contents
<1>6. q \notin stalled => object[req[q].src] \in {Null, DigestOf[q]}
  <2> SUFFICES ASSUME q \notin stalled PROVE object[req[q].src] \in {Null, DigestOf[q]}
    OBVIOUS
  <2>1. SourceOf(q)
    BY <1>2 DEF Contents, Sources, Source
  <2>2. \A k \in Requests : object[BodyKey(k)] \in {Null, BodyOf[k]}
    BY DEF Contents, Sources, Source
  <2> QED BY <2>1, <2>2 DEF SourceOf
<1>7. BlobIntegrity'
  <2> SUFFICES ASSUME NEW d \in Digests, \A p \in stalled : DigestOf[p] # d
               PROVE  object'[BlobKey(d)] \in {Null, d}
    BY <1>1 DEF BlobIntegrity
  <2>1. CASE d = DigestOf[q]
    BY <1>4, <1>6, <2>1
  <2>2. CASE d # DigestOf[q]
    <3>1. BlobKey(d) # BlobKey(DigestOf[q]) /\ BlobKey(d) \in Keys \ UploadKeys
      BY <2>2, KeyFacts
    <3> QED BY <1>4, <3>1 DEF Contents, BlobIntegrity
  <2> QED BY <2>1, <2>2
<1> QED BY <1>5, <1>7 DEF Contents

\* Steps of others delete at most.
LEMMA ContentsAside ==
  ASSUME Types, Contents, UNCHANGED req, stalled \subseteq stalled',
         \A k \in Keys : object'[k] \in {object[k], Null}
  PROVE  Contents'
<1>1. BlobIntegrity'
  BY IntegrityKept DEF Contents
<1>2. Sources'
  <2> SUFFICES ASSUME NEW p \in Requests PROVE Source(p)'
    BY DEF Sources
  <2>1. /\ object'[BodyKey(p)] \in {object[BodyKey(p)], Null}
        /\ object'[CompleteKey(p)] \in {object[CompleteKey(p)], Null} /\ Source(p)
    BY KeyFacts DEF Contents, Sources
  <2>2. SourceOf(p) => SourceOf(p)'
    BY <2>1 DEF SourceOf
  <2>3. p \notin stalled' => p \notin stalled
    OBVIOUS
  <2> QED BY <2>1, <2>2, <2>3 DEF Source
<1> QED BY <1>1, <1>2 DEF Contents

\* Objects have the content their keys stand for.
THEOREM ContentsHold == Spec => []Contents
<1>1. Init => Contents
  <2> SUFFICES ASSUME Init PROVE Contents
    OBVIOUS
  <2>1. Sources
    BY KeyFacts DEF Init, Sources, Source
  <2>2. BlobIntegrity
    BY KeyFacts DEF Init, BlobIntegrity
  <2> QED BY <2>1, <2>2 DEF Contents
<1>2. Types /\ Ownership /\ Contents /\ [Next]_vars => Contents'
  <2> SUFFICES ASSUME Types, Ownership, Contents, [Next]_vars PROVE Contents'
    OBVIOUS
  <2>1. ASSUME NEW q \in Requests, RequestStep(q) PROVE Contents'
    BY <2>1, DeletingContents, PutBodyContents, MarkBodyContents, MarkCompleteContents, ConcatContents,
       VerifyContents, PromoteContents, CopyContents DEF RequestStep
  <2>2. ASSUME NEW q \in Requests, Stall(q) PROVE Contents'
    BY <2>2, ContentsAside DEF Stall
  <2>3. ASSUME NEW q \in Requests, RequestFault(q) PROVE Contents'
    BY <2>2, <2>3, DeletingContents DEF RequestFault
  <2>4. ASSUME NEW r \in Reapers, ReaperStep(r) \/ ReaperFails(r) PROVE Contents'
    <3>1. UNCHANGED <<req, stalled>>
      BY <2>4, LockAbandonedStep, SweepDeleteStep, SweepCommitStep, SelectKeyStep, ReapObjectStep,
         ReapRowStep, ReaperFailsStep DEF ReaperStep
    <3>2. \A k \in Keys : object'[k] \in {object[k], Null}
      BY <2>4, LockAbandonedStep, SweepDeleteStep, SweepCommitStep, SelectKeyStep, ReapObjectStep,
         ReapRowStep, ReaperFailsStep, Deletes DEF ReaperStep
    <3> QED BY <3>1, <3>2, ContentsAside
  <2>5. ASSUME NEW s \in Posts, AgeSession(s) PROVE Contents'
    BY <2>5, AgeSessionStep, ContentsAside
  <2>6. ASSUME NEW k \in Keys, AgeKey(k) PROVE Contents'
    BY <2>6, AgeKeyStep, ContentsAside
  <2>7. CASE UNCHANGED vars
    BY <2>7, ContentsAside DEF vars, tables
  <2> QED BY <2>1, <2>3, <2>4, <2>5, <2>6, <2>7 DEF Next
<1> QED BY <1>1, <1>2, TypesHold, OwnershipHolds, PTL DEF Spec

\* What is stored under oci-blobs/<digest> has that digest, unless a PUT for it
\* outlived its lease (handle_complete_upload).
THEOREM BlobsCorrect == Spec => []BlobIntegrity
<1>1. Contents => BlobIntegrity
  BY DEF Contents
<1> QED BY <1>1, ContentsHold, PTL

-----------------------------------------------------------------------------
(* Outcomes. *)

\* A part stays when others are appended.
LEMMA AppendKeeps ==
  ASSUME NEW ks \in Seq(UploadKeys), NEW j \in UploadKeys, NEW k, Has(ks, k)
  PROVE  Has(Append(ks, j), k)
<1>1. PICK i \in DOMAIN ks : ks[i] = k
  BY DEF Has
<1>2. i \in DOMAIN Append(ks, j) /\ Append(ks, j)[i] = k
  BY <1>1
<1> QED BY <1>2 DEF Has

\* A PUT reads all the part rows of its session.
LEMMA FetchedHas ==
  ASSUME Types, NEW q \in Requests, NEW k, Has(parts[req[q].session], k)
  PROVE  Has(FetchedParts(q), k)
<1>1. parts[req[q].session] # <<>>
  <2>1. DOMAIN <<>> = {}
    OBVIOUS
  <2> QED BY <2>1 DEF Has
<1> QED BY <1>1 DEF FetchedParts

\* A session that ended does not come back to a request that knows it.
LEMMA NotAnew ==
  ASSUME Types, Ownership, NEW q \in Requests, Moves(q), req[q].pc # "done",
         NEW p \in Requests, KindOf[p] # "post", NEW s \in Posts, s = req[p].session, (Exists(s))'
  PROVE  Exists(s)
<1>1. Exists(s) \/ Opens(q, s)
  BY DEF Moves, Same, Drops, Reopens, Owns, Claims, Claimable, Appends, Exists
<1>2. s # Null
  BY DEF Posts
<1>3. req[s].pc = "done"
  BY <1>2 DEF Ownership, Sessions
<1> QED BY <1>1, <1>3 DEF Opens

\* The step that decides: the session ends, and it was still there.
Wins(q) ==
  /\ KindOf[q] # "post" /\ req[q].session \in Posts /\ Drops(q, req[q].session)
  /\ KindOf[q] = "put" => req[q].pc = "commit"

\* Acceptance: the part is in the session, and the session is there.
Accepts(q) ==
  /\ req[q].session \in Posts /\ req'[q].session = req[q].session
  /\ Exists(req[q].session) /\ Has(parts'[req[q].session], BodyKey(q))

\* A step of q keeps Outcomes if it decides and accepts as it should.
LEMMA OutcomesKept ==
  ASSUME Types, Ownership, Outcomes, NEW q \in Requests, Only(q), Moves(q), req[q].pc # "done",
         req'[q].result \in {"created", "cancelled", "accepted"} => req'[q].pc = "done",
         Won(q)' => /\ Won(q) \/ Wins(q)
                    /\ req'[q].session = req[q].session /\ req'[q].parts = req[q].parts,
         KindOf[q] = "patch" /\ req'[q].result = "accepted" => Accepts(q),
         HasAll(q)'
  PROVE  Outcomes'
<1>1. \A p \in Requests \ {q} : req'[p] = req[p]
  BY DEF Only, Types, TypeOK
<1>2. \A p \in Requests \ {q} : Won(p)' => Won(p)
  BY <1>1 DEF Won
<1>3. ASSUME NEW p \in Requests, Won(p)'
      PROVE  /\ KindOf[p] # "post" /\ req[p].session \in Posts /\ req'[p].session = req[p].session
             /\ req'[p].parts = req[p].parts
             /\ Won(p) \/ (p = q /\ Wins(q))
  <2>1. /\ req'[p].session = req[p].session /\ req'[p].parts = req[p].parts
        /\ Won(p) \/ (p = q /\ Wins(q))
    BY <1>1, <1>2, <1>3
  <2>2. CASE Won(p)
    BY <2>1, <2>2 DEF Outcomes, Decisions
  <2>3. CASE p = q /\ Wins(q)
    BY <2>1, <2>3 DEF Wins
  <2> QED BY <2>1, <2>2, <2>3
<1>4. ASSUME NEW p \in Requests, Won(p)', NEW s \in Posts, s = req[p].session
      PROVE  ~(Exists(s))'
  <2>1. CASE Won(p)
    <3>1. ~Exists(s) /\ KindOf[p] # "post"
      BY <1>4, <2>1 DEF Outcomes, Decisions
    <3> QED BY <1>4, <3>1, NotAnew
  <2>2. CASE p = q /\ Wins(q)
    BY <1>4, <2>2 DEF Wins, Drops, Exists
  <2> QED BY <1>3, <1>4, <2>1, <2>2
<1>5. ASSUME NEW p \in Requests, Won(p), Wins(q) PROVE req[p].session # req[q].session
  <2>1. ~Exists(req[p].session)
    BY <1>5 DEF Outcomes, Decisions
  <2>2. Exists(req[q].session)
    BY <1>5 DEF Wins, Drops, Owns
  <2> QED BY <2>1, <2>2
<1>6. Decisions'
  <2>1. ASSUME NEW p \in Requests, Won(p)'
        PROVE  (KindOf[p] # "post" /\ req[p].session \in Posts /\ ~Exists(req[p].session))'
    <3>1. PICK s \in Posts : s = req[p].session /\ s = req'[p].session
      BY <1>3, <2>1
    <3>2. ~(Exists(s))'
      BY <1>4, <2>1, <3>1
    <3> QED BY <1>3, <2>1, <3>1, <3>2 DEF Exists
  <2>2. ASSUME NEW p1 \in Requests, NEW p2 \in Requests, Won(p1)', Won(p2)',
               req'[p1].session = req'[p2].session
        PROVE  p1 = p2
    <3>1. req[p1].session = req[p2].session
      BY <1>3, <2>2
    <3>2. CASE Won(p1) /\ Won(p2)
      BY <3>1, <3>2 DEF Outcomes, Decisions
    <3>3. CASE ~(Won(p1) /\ Won(p2))
      BY <1>3, <1>5, <2>2, <3>1, <3>3
    <3> QED BY <3>2, <3>3
  <2>3. ASSUME NEW p \in Requests, req'[p].result \in {"created", "cancelled", "accepted"}
        PROVE  req'[p].pc = "done"
    BY <1>1, <2>3 DEF Outcomes, Decisions
  <2> QED BY <2>1, <2>2, <2>3 DEF Decisions
<1>7. ASSUME NEW p \in Requests PROVE Kept(p)'
  <2> SUFFICES ASSUME KindOf[p] = "patch", req'[p].result = "accepted"
               PROVE  /\ req'[p].session \in Posts
                      /\ (Exists(req[p].session))' => Has(parts'[req'[p].session], BodyKey(p))
    BY DEF Kept
  <2>1. CASE p = q
    BY <2>1 DEF Accepts
  <2>2. CASE p # q
    <3>1. PICK s \in Posts : s = req[p].session /\ s = req'[p].session
      BY <1>1, <2>2 DEF Outcomes, PartsKept, Kept
    <3>2. ASSUME (Exists(s))' PROVE Has(parts'[s], BodyKey(p))
      <4>1. Exists(s)
        BY <3>1, <3>2, NotAnew
      <4>2. Has(parts[s], BodyKey(p))
        BY <1>1, <2>2, <3>1, <4>1 DEF Outcomes, PartsKept, Kept
      <4>3. CASE parts'[s] = parts[s]
        BY <4>2, <4>3
      <4>4. CASE parts'[s] = Append(parts[s], BodyKey(q))
        BY <4>2, <4>4, AppendKeeps, KeyFacts DEF Types, TypeOK
      <4>5. ~Opens(q, s) /\ ~Drops(q, s)
        BY <3>2, <4>1 DEF Opens, Drops, Ownership, Sessions, Exists
      <4> QED BY <4>3, <4>4, <4>5 DEF Moves, Same, Reopens, Claims, Appends
    <3> QED BY <3>1, <3>2 DEF Exists
  <2> QED BY <2>1, <2>2
<1>8. ASSUME NEW p \in Requests PROVE HasAll(p)'
  <2>1. CASE p = q
    BY <2>1
  <2>2. CASE p # q
    <3> SUFFICES ASSUME KindOf[p] = "put", (Owns(p))',
                        req[p].pc \in {"concat", "seal", "verify", "copy", "drop", "commit"},
                        NEW k \in UploadKeys, Has(parts'[req[p].session], k)
                 PROVE  Has(req[p].parts, k)
      BY <1>1, <2>2 DEF HasAll
    <3>1. PICK s \in Posts : s = req[p].session /\ s = req'[p].session
      BY <1>1, <2>2, PlaceFacts
    <3>2. session'[s] # Null /\ session'[s].state = "committing" /\ session'[s].token = p
      BY <3>1 DEF Owns, Exists
    <3>3. Same(s)
      BY <2>2, <3>2 DEF Moves, Opens, Drops, Reopens, Claims, Appends
    <3>4. Owns(p)
      BY <3>1, <3>2, <3>3 DEF Same, Owns, Exists, Posts
    <3>5. Has(parts[s], k)
      BY <3>1, <3>3 DEF Same
    <3> QED BY <3>1, <3>4, <3>5 DEF Outcomes, PartsKept, HasAll
  <2> QED BY <2>1, <2>2
<1>9. ASSUME NEW p1 \in Requests, NEW p2 \in Requests PROVE Delivers(p1, p2)'
  <2> SUFFICES ASSUME KindOf[p1] = "put", Won(p1)', KindOf[p2] = "patch",
                      req'[p2].result = "accepted", req'[p2].session = req'[p1].session
               PROVE  Has(req'[p1].parts, BodyKey(p2))
    BY DEF Delivers
  <2>1. PICK s \in Posts : s = req[p1].session /\ s = req'[p1].session
    BY <1>3
  <2>2. req'[p1].parts = req[p1].parts /\ (Won(p1) \/ (p1 = q /\ Wins(q)))
    BY <1>3
  <2>3. CASE p2 = q
    <3>1. Exists(s) /\ p1 # q
      BY <2>1, <2>3 DEF Accepts
    <3>2. Won(p1)
      BY <2>2, <3>1
    <3> QED BY <2>1, <3>1, <3>2 DEF Outcomes, Decisions
  <2>4. CASE p2 # q
    <3>1. req[p2].result = "accepted" /\ req[p2].session = s
      BY <1>1, <2>1, <2>4
    <3>2. CASE Won(p1)
      BY <1>3, <2>1, <3>1, <3>2 DEF Outcomes, PartsKept, Delivers
    <3>3. CASE p1 = q /\ Wins(q)
      <4>1. Owns(q) /\ Exists(s) /\ req[q].pc = "commit"
        BY <2>1, <3>3 DEF Wins, Drops, Owns
      <4>2. Has(parts[s], BodyKey(p2))
        BY <3>1, <4>1 DEF Outcomes, PartsKept, Kept
      <4>3. Has(req[q].parts, BodyKey(p2))
        BY <2>1, <3>3, <4>1, <4>2, KeyFacts DEF Outcomes, PartsKept, HasAll
      <4> QED BY <1>3, <3>3, <4>3
    <3> QED BY <2>2, <3>2, <3>3
  <2> QED BY <2>3, <2>4
<1> QED BY <1>6, <1>7, <1>8, <1>9 DEF Outcomes, PartsKept

\* A step that neither decides nor accepts nor reads the parts.
LEMMA OutcomesPlain ==
  ASSUME Types, Ownership, Outcomes, NEW q \in Requests, Only(q), Moves(q), req[q].pc # "done",
         \/ req'[q].result = req[q].result
         \/ req'[q].result \in {"error", "recovered"}
         \/ KindOf[q] = "post" /\ req'[q].result = "accepted" /\ req'[q].pc = "done",
         req'[q].pc \in {"clear", "finish", "tidy"} => req'[q].result = "recovered",
         KindOf[q] = "put" => req'[q].pc \notin {"concat", "seal", "verify", "copy", "drop", "commit"}
  PROVE  Outcomes'
<1>1. req[q].result \notin {"created", "cancelled", "accepted"}
  BY DEF Outcomes, Decisions
<1>2. ~Won(q)'
  BY <1>1 DEF Won
<1>3. HasAll(q)'
  BY DEF HasAll
<1>4. ~(KindOf[q] = "patch" /\ req'[q].result = "accepted")
  BY <1>1
<1>5. req'[q].result \in {"created", "cancelled", "accepted"} => req'[q].pc = "done"
  BY <1>1
<1> QED BY <1>2, <1>3, <1>4, <1>5, OutcomesKept

\* As above, by name.
LEMMA PlainOutcomes ==
  ASSUME Types, Ownership, Outcomes, NEW q \in Requests, Moves(q),
         \/ StartUpload(q) \/ BeginPatch(q) \/ PutBody(q) \/ MarkBody(q) \/ OpenSession(q)
         \/ AppendLost(q) \/ ClaimSession(q) \/ RejectContent(q) \/ RecoverCommit(q)
         \/ CompleteFails(q) \/ ClaimCancel(q) \/ ListKeys(q) \/ CancelDelete(q) \/ WriteFails(q)
         \/ AppendUnknown(q) \/ CommitUnknown(q) \/ CancelFails(q) \/ Abort(q)
         \/ DropEmptyPart(q) \/ ClearEmptyPart(q)
  PROVE  Outcomes'
<1>1. CASE StartUpload(q)
  BY <1>1, StartUploadStep, OutcomesPlain
<1>2. CASE BeginPatch(q)
  BY <1>2, BeginPatchStep, OutcomesPlain
<1>3. CASE PutBody(q)
  BY <1>3, PutBodyStep, OutcomesPlain
<1>4. CASE MarkBody(q)
  BY <1>4, MarkBodyStep, OutcomesPlain
<1>5. CASE OpenSession(q)
  <2>1. /\ Only(q) /\ KindOf[q] = "post" /\ req[q].pc = "open" /\ req'[q].pc = "done"
        /\ req'[q].result = "accepted"
    BY <1>5, OpenSessionStep
  <2> QED BY <2>1, OutcomesPlain
<1>6. CASE AppendLost(q)
  BY <1>6, AppendLostStep, OutcomesPlain
<1>7. CASE ClaimSession(q)
  BY <1>7, ClaimSessionStep, OutcomesPlain
<1>8. CASE RejectContent(q)
  BY <1>8, RejectContentStep, OutcomesPlain
<1>9. CASE RecoverCommit(q)
  BY <1>9, RecoverCommitStep, OutcomesPlain
<1>10. CASE CompleteFails(q)
  BY <1>10, CompleteFailsStep, OutcomesPlain
<1>11. CASE ClaimCancel(q)
  BY <1>11, ClaimCancelStep, OutcomesPlain
<1>12. CASE ListKeys(q)
  BY <1>12, ListKeysStep, OutcomesPlain
<1>13. CASE CancelDelete(q)
  BY <1>13, CancelDeleteStep, OutcomesPlain
<1>14. CASE WriteFails(q)
  BY <1>14, WriteFailsStep, OutcomesPlain
<1>15. CASE AppendUnknown(q)
  BY <1>15, AppendUnknownStep, OutcomesPlain
<1>16. CASE CommitUnknown(q)
  BY <1>16, CommitUnknownStep, OutcomesPlain
<1>17. CASE CancelFails(q)
  BY <1>17, CancelFailsStep, OutcomesPlain
<1>18. CASE Abort(q)
  BY <1>18, AbortStep, OutcomesPlain
<1>19. CASE DropEmptyPart(q)
  BY <1>19, DropEmptyPartStep, OutcomesPlain
<1>20. CASE ClearEmptyPart(q)
  BY <1>20, ClearEmptyPartStep, OutcomesPlain
<1> QED BY <1>1, <1>2, <1>3, <1>4, <1>5, <1>6, <1>7, <1>8, <1>9, <1>10, <1>11, <1>12,
           <1>13, <1>14, <1>15, <1>16, <1>17, <1>18, <1>19, <1>20

\* A PUT that goes on keeps the parts it has read.
LEMMA OutcomesReading ==
  ASSUME Types, Ownership, Outcomes, NEW q \in Requests, Only(q), Moves(q), req[q].pc # "done",
         req'[q].result = req[q].result, req'[q].session = req[q].session,
         req'[q].pc \in {"concat", "seal", "verify", "copy", "drop", "commit"}, UNCHANGED <<session, parts>>,
         KindOf[q] = "put" => \A k \in UploadKeys :
           Owns(q) /\ Has(parts[req[q].session], k) => Has(req'[q].parts, k)
  PROVE  Outcomes'
<1>1. req[q].result \notin {"created", "cancelled", "accepted"}
  BY DEF Outcomes, Decisions
<1>2. ~Won(q)'
  BY <1>1 DEF Won
<1>3. HasAll(q)'
  <2>1. (Owns(q))' => Owns(q)
    BY DEF Owns, Exists
  <2> QED BY <2>1 DEF HasAll
<1> QED BY <1>1, <1>2, <1>3, OutcomesKept

\* Reading the part rows, and what follows.
LEMMA ReadingOutcomes ==
  ASSUME Types, Ownership, Outcomes, NEW q \in Requests, Moves(q),
         \/ PromoteSinglePart(q) \/ CollectParts(q) \/ Concat(q) \/ MarkComplete(q) \/ Verify(q)
         \/ CopyBlob(q) \/ DropComplete(q)
  PROVE  Outcomes'
<1>1. UNCHANGED <<session, parts>>
  BY MarkCompleteStep, DropCompleteStep
     DEF PromoteSinglePart, CollectParts, Concat, Verify, CopyBlob, tables
<1>2. CASE PromoteSinglePart(q)
  <2>1. /\ Only(q) /\ req[q].pc # "done" /\ req'[q].pc = "copy" /\ req'[q].parts = FetchedParts(q)
        /\ req'[q].session = req[q].session /\ req'[q].result = req[q].result
    BY <1>2, PromoteSinglePartStep
  <2>2. ASSUME NEW k \in UploadKeys, Has(parts[req[q].session], k) PROVE Has(req'[q].parts, k)
    BY <2>1, <2>2, FetchedHas
  <2> QED BY <1>1, <2>1, <2>2, OutcomesReading
<1>3. CASE CollectParts(q)
  <2>1. ASSUME NEW k \in UploadKeys, Has(parts[req[q].session], k) PROVE Has(req'[q].parts, k)
    <3>1. Has(FetchedParts(q), k)
      BY <2>1, FetchedHas
    <3>2. FetchedParts(q) \in Seq(UploadKeys) /\ BodyKey(q) \in UploadKeys
      BY <1>3, CollectPartsStep, PlaceFacts, FetchedType, KeyFacts DEF Types
    <3>3. req'[q].parts = FetchedParts(q) \/ req'[q].parts = Append(FetchedParts(q), BodyKey(q))
      BY <1>3, CollectPartsStep
    <3>4. Has(Append(FetchedParts(q), BodyKey(q)), k)
      BY <3>1, <3>2, AppendKeeps
    <3> QED BY <3>1, <3>3, <3>4
  <2> QED BY <1>1, <1>3, <2>1, CollectPartsStep, OutcomesReading
<1>4. ASSUME req[q].pc \in {"concat", "seal", "verify", "copy", "drop", "commit"}, req'[q].parts = req[q].parts
      PROVE  KindOf[q] = "put" => \A k \in UploadKeys :
               Owns(q) /\ Has(parts[req[q].session], k) => Has(req'[q].parts, k)
  BY <1>4 DEF Outcomes, PartsKept, HasAll
<1>5. CASE Concat(q)
  BY <1>1, <1>4, <1>5, ConcatStep, OutcomesReading
<1>6. CASE Verify(q)
  BY <1>1, <1>4, <1>6, VerifyStep, OutcomesReading
<1>7. CASE CopyBlob(q)
  BY <1>1, <1>4, <1>7, CopyBlobStep, OutcomesReading DEF Stays
<1>8. CASE MarkComplete(q)
  BY <1>1, <1>4, <1>8, MarkCompleteStep, OutcomesReading DEF Stays
<1>9. CASE DropComplete(q)
  BY <1>1, <1>4, <1>9, DropCompleteStep, OutcomesReading DEF Stays
<1> QED BY <1>2, <1>3, <1>5, <1>6, <1>7, <1>8, <1>9

\* A PATCH is accepted with its part in the session.
LEMMA AcceptOutcomes ==
  ASSUME Types, Ownership, Outcomes, NEW q \in Requests, Moves(q), AppendPart(q) \/ RecoverAppend(q)
  PROVE  Outcomes'
<1>1. /\ Only(q) /\ req[q].pc \in {"append", "recover"} /\ req'[q].pc = "done"
      /\ req'[q].result \in {"accepted", "error"} /\ KindOf[q] = "patch"
      /\ req'[q].session = req[q].session
  BY AppendPartStep, RecoverAppendStep DEF Stays
<1>2. ~Won(q)' /\ HasAll(q)'
  BY <1>1 DEF Won, HasAll
<1>3. req[q].session \in Posts
  BY <1>1, PlaceFacts
<1>4. req'[q].result = "accepted" => Accepts(q)
  <2>1. CASE AppendPart(q)
    <3>1. AppendEffect(q)
      BY <2>1, AppendPartStep
    <3>2. Exists(req[q].session) /\ parts'[req[q].session] = Append(parts[req[q].session], BodyKey(q))
      BY <3>1 DEF AppendEffect
    <3>3. Has(parts'[req[q].session], BodyKey(q))
      BY <1>3, <3>2, AppendHas, KeyFacts DEF Types, TypeOK
    <3> QED BY <1>1, <1>3, <3>2, <3>3 DEF Accepts
  <2>2. CASE RecoverAppend(q)
    <3>1. parts' = parts
      BY <2>2 DEF RecoverAppend, tables
    <3> QED BY <1>1, <1>3, <2>2, <3>1, RecoverAppendStep DEF Accepts
  <2> QED BY <2>1, <2>2
<1> QED BY <1>1, <1>2, <1>4, OutcomesKept

\* The session ends with the decision.
LEMMA DecidingOutcomes ==
  ASSUME Types, Ownership, Outcomes, NEW q \in Requests, Moves(q), CommitBlob(q) \/ CancelDrop(q)
  PROVE  Outcomes'
<1>1. /\ Only(q) /\ Stays(q) /\ KindOf[q] \in {"mono", "put", "cancel"}
      /\ req[q].pc \in {"commit", "delete"}
      /\ KindOf[q] = "put" => req[q].pc = "commit"
  <2>1. KindOf[q] \in {"mono", "put", "cancel"}
    BY PlaceFacts, CommitBlobStep, CancelDropStep
  <2> QED BY <2>1, CommitBlobStep, CancelDropStep
<1>2. req[q].result \notin {"created", "cancelled", "accepted"}
  BY <1>1 DEF Outcomes, Decisions
<1>3. Won(q)' => Wins(q)
  <2> SUFFICES ASSUME Won(q)' PROVE Wins(q)
    OBVIOUS
  <2>1. KindOf[q] # "mono"
    BY DEF Won
  <2>2. /\ Owns(q) /\ req[q].session \in Posts
        /\ session' = [session EXCEPT ![req[q].session] = Null]
    <3>1. CASE CommitBlob(q)
      BY <2>1, <3>1, CommitBlobStep DEF CommitEffect
    <3>2. CASE CancelDrop(q)
      <4>1. req'[q].result # "error"
        BY <3>2, CancelDropStep DEF Won
      <4> QED BY <3>2, <4>1, CancelDropStep
    <3> QED BY <3>1, <3>2
  <2>3. session'[req[q].session] = Null
    BY <2>2 DEF Types, TypeOK
  <2> QED BY <1>1, <2>2, <2>3 DEF Wins, Drops
<1>4. /\ req'[q].result \in {"created", "cancelled", "accepted"} => req'[q].pc = "done"
      /\ KindOf[q] # "patch" /\ req'[q].pc \in {"clear", "done"}
  BY <1>1, <1>2, CommitBlobStep, CancelDropStep
<1>5. HasAll(q)'
  BY <1>4 DEF HasAll
<1> QED BY <1>1, <1>3, <1>4, <1>5, OutcomesKept DEF Stays

\* What a winner does after its decision changes nothing of it.
LEMMA EndingOutcomes ==
  ASSUME Types, Ownership, Outcomes, NEW q \in Requests, Moves(q),
         ClearBlobKey(q) \/ DeleteLeftovers(q) \/ Finish(q)
  PROVE  Outcomes'
<1>1. /\ Only(q) /\ Stays(q) /\ KindOf[q] \in {"mono", "put"} /\ req[q].pc \in {"clear", "finish", "tidy"}
      /\ req'[q].pc \in {"finish", "tidy", "done"}
  <2>1. KindOf[q] \in {"mono", "put"}
    BY PlaceFacts, ClearBlobKeyStep, DeleteLeftoversStep, FinishStep
  <2> QED BY <2>1, ClearBlobKeyStep, DeleteLeftoversStep, FinishStep
<1>2. req[q].result \notin {"created", "cancelled", "accepted"}
  BY <1>1 DEF Outcomes, Decisions
<1>3. Won(q)' => Won(q)
  <2>1. CASE ClearBlobKey(q)
    BY <1>1, <2>1, ClearBlobKeyStep DEF Won
  <2>2. CASE DeleteLeftovers(q)
    BY <1>1, <2>2, DeleteLeftoversStep DEF Won
  <2>3. CASE Finish(q)
    BY <1>1, <2>3, FinishStep DEF Won
  <2> QED BY <2>1, <2>2, <2>3
<1>4. /\ req'[q].result \in {"created", "cancelled", "accepted"} => req'[q].pc = "done"
      /\ KindOf[q] # "patch"
  BY <1>1, <1>2, ClearBlobKeyStep, DeleteLeftoversStep, FinishStep
<1>5. HasAll(q)'
  BY <1>1 DEF HasAll
<1> QED BY <1>1, <1>3, <1>4, <1>5, OutcomesKept DEF Stays

\* Steps of others at most end sessions.
LEMMA OutcomesAside ==
  ASSUME Types, Outcomes, UNCHANGED req,
         \A s \in Posts : \/ session'[s] = Null
                          \/ /\ Exists(s) /\ session'[s].state = session[s].state
                             /\ session'[s].token = session[s].token /\ parts'[s] = parts[s]
  PROVE  Outcomes'
<1>1. \A s \in Posts : (Exists(s))' => Exists(s) /\ parts'[s] = parts[s]
  BY DEF Exists
<1>2. Decisions'
  BY <1>1 DEF Outcomes, Decisions, Won
<1>3. ASSUME NEW p \in Requests PROVE Kept(p)'
  BY <1>1 DEF Outcomes, PartsKept, Kept
<1>4. ASSUME NEW p \in Requests PROVE HasAll(p)'
  <2> SUFFICES ASSUME KindOf[p] = "put", (Owns(p))',
                      req[p].pc \in {"concat", "seal", "verify", "copy", "drop", "commit"}
               PROVE  Owns(p) /\ parts'[req[p].session] = parts[req[p].session]
    BY DEF Outcomes, PartsKept, HasAll
  <2>1. req[p].session \in Posts
    BY PlaceFacts
  <2> QED BY <1>1, <2>1 DEF Owns, Exists
<1>5. ASSUME NEW p1 \in Requests, NEW p2 \in Requests PROVE Delivers(p1, p2)'
  BY DEF Outcomes, PartsKept, Delivers, Won
<1> QED BY <1>2, <1>3, <1>4, <1>5 DEF Outcomes, PartsKept

\* Time and the collectors, by name.
LEMMA OthersOutcomes ==
  ASSUME Types, Ownership, Outcomes,
         \/ \E r \in Reapers : ReaperStep(r) \/ ReaperFails(r)
         \/ \E q \in Requests : Stall(q)
         \/ \E s \in Posts : AgeSession(s)
         \/ \E k \in Keys : AgeKey(k)
  PROVE  Outcomes'
<1>1. ASSUME UNCHANGED <<session, parts, req>> PROVE Outcomes'
  BY <1>1, OutcomesAside DEF Exists, Posts
<1>2. ASSUME NEW s \in Posts, NEW a, AgeEffect(s, a), UNCHANGED <<parts, req>> PROVE Outcomes'
  <2>1. \A t \in Posts : \/ session'[t] = Null
                         \/ /\ Exists(t) /\ session'[t].state = session[t].state
                            /\ session'[t].token = session[t].token /\ parts'[t] = parts[t]
    BY <1>2 DEF AgeEffect, Exists, Posts
  <2> QED BY <1>2, <2>1, OutcomesAside
<1>3. ASSUME NEW r \in Reapers, SweepCommit(r) PROVE Outcomes'
  <2>1. \A t \in Posts : session'[t] = Null \/ (session'[t] = session[t] /\ parts'[t] = parts[t])
    BY <1>3, SweepCommitStep DEF Types, TypeOK
  <2>2. \A t \in Posts : \/ session'[t] = Null
                         \/ /\ Exists(t) /\ session'[t].state = session[t].state
                            /\ session'[t].token = session[t].token /\ parts'[t] = parts[t]
    BY <2>1 DEF Exists, Posts
  <2> QED BY <1>3, <2>2, SweepCommitStep, OutcomesAside
<1>4. ASSUME NEW r \in Reapers, ReaperStep(r) \/ ReaperFails(r) PROVE Outcomes'
  BY <1>1, <1>3, <1>4, LockAbandonedStep, SweepDeleteStep, SelectKeyStep, ReapObjectStep,
     ReapRowStep, ReaperFailsStep DEF ReaperStep
<1>5. ASSUME NEW q \in Requests, Stall(q) PROVE Outcomes'
  <2>1. PICK s \in Posts : s = req[q].session
    BY <1>5, PlaceFacts DEF Stall, InFlight
  <2>2. AgeEffect(s, "stale") /\ UNCHANGED <<parts, req>>
    BY <1>5, <2>1, StallStep DEF Stall
  <2> QED BY <1>2, <2>2
<1>6. ASSUME NEW s \in Posts, AgeSession(s) PROVE Outcomes'
  BY <1>2, <1>6, AgeSessionStep
<1>7. ASSUME NEW k \in Keys, AgeKey(k) PROVE Outcomes'
  BY <1>1, <1>7, AgeKeyStep
<1> QED BY <1>4, <1>5, <1>6, <1>7

\* Every session is decided once, with all that was accepted.
THEOREM OutcomesHold == Spec => []Outcomes
<1>1. Init => Outcomes
  BY DEF Init, Outcomes, Decisions, PartsKept, Kept, HasAll, Delivers, Won
<1>2. Types /\ Ownership /\ Outcomes /\ [Next]_vars => Outcomes'
  <2> SUFFICES ASSUME Types, Ownership, Outcomes, [Next]_vars PROVE Outcomes'
    OBVIOUS
  <2>1. ASSUME NEW q \in Requests, RequestStep(q) \/ RequestFault(q), ~Stall(q) PROVE Outcomes'
    <3>1. Moves(q)
      BY <2>1, RequestOwned
    <3> QED BY <2>1, <3>1, PlainOutcomes, ReadingOutcomes, AcceptOutcomes, DecidingOutcomes,
               EndingOutcomes DEF RequestStep, RequestFault
  <2>2. CASE UNCHANGED vars
    <3>1. UNCHANGED <<session, parts, req>>
      BY <2>2 DEF vars, tables
    <3>2. \A t \in Posts : \/ session'[t] = Null
                           \/ /\ Exists(t) /\ session'[t].state = session[t].state
                              /\ session'[t].token = session[t].token /\ parts'[t] = parts[t]
      BY <3>1 DEF Exists, Posts
    <3> QED BY <3>1, <3>2, OutcomesAside
  <2> QED BY <2>1, <2>2, OthersOutcomes DEF Next
<1> QED BY <1>1, <1>2, TypesHold, OwnershipHolds, PTL DEF Spec

\* An upload has one outcome (the state_token of claim, cancel and terminal DELETE in
\* oci_v2.rs).
THEOREM OutcomeCorrect == Spec => []OneOutcome
<1>1. Outcomes => OneOutcome
  BY DEF Outcomes, Decisions, OneOutcome, Won
<1> QED BY <1>1, OutcomesHold, PTL

\* A completed upload contains every chunk that was accepted (state = 'open' in the
\* transaction of handle_patch_upload).
THEOREM PartsCorrect == Spec => []AcceptedPartsAreKept
<1>1. Outcomes => AcceptedPartsAreKept
  <2> SUFFICES ASSUME Outcomes, NEW p \in Requests, NEW q \in Requests,
                      KindOf[p] = "put", req[p].result = "created", KindOf[q] = "patch",
                      req[q].result = "accepted", req[q].session = req[p].session
               PROVE  \E i \in DOMAIN req[p].parts : req[p].parts[i] = BodyKey(q)
    BY DEF AcceptedPartsAreKept
  <2>1. Won(p)
    BY DEF Won
  <2>2. Has(req[p].parts, BodyKey(q))
    BY <2>1 DEF Outcomes, PartsKept, Delivers
  <2> QED BY <2>2 DEF Has
<1> QED BY <1>1, OutcomesHold, PTL

=============================================================================
