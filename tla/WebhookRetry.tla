---------------------------- MODULE WebhookRetry -----------------------------
(***************************************************************************)
(* The webhook retry queue: rows of webhook_deliveries, the retry loops of *)
(* several backend replicas that share one database, and the operators'    *)
(* redeliver, enable and disable requests                                  *)
(* (backend/src/api/handlers/webhooks.rs, services/webhook_producer.rs,    *)
(* services/webhook_notifier.rs).                                          *)
(*                                                                         *)
(* Every SQL statement is one step.  A replica claims a batch of due rows  *)
(* and works through it one delivery at a time, so the claim of a row late *)
(* in the batch can lapse before its turn comes.                           *)
(***************************************************************************)
EXTENDS Integers, FiniteSets

CONSTANTS
  Replicas,       \* backend processes, each with one retry loop
  Webhooks,       \* rows of webhooks
  Deliveries,     \* rows webhook_deliveries may hold
  WebhookOf,      \* delivery -> webhook_id
  Tokens,         \* claim tokens; bounds the claims that are referenced at once
  NoToken,        \* SQL NULL in claim_token
  NoReason,       \* SQL NULL in disabled_reason
  BatchSize,      \* LIMIT of the claim statement
  MaxAttempts,    \* webhook_deliveries.max_attempts
  RedeliverBound, \* bound: no row with this many attempts is redelivered
  MaxFaults       \* bound on crashes and failed statements

ASSUME WebhookRetryAssumption ==
  /\ WebhookOf \in [Deliveries -> Webhooks]
  /\ NoToken \notin Tokens
  /\ NoReason \notin Deliveries
  /\ BatchSize \in Nat \ {0}
  /\ MaxAttempts \in Nat \ {0}
  /\ RedeliverBound \in Nat
  /\ MaxFaults \in Nat
  /\ Replicas # {}
  /\ Deliveries # {}

VARIABLES
  row,          \* webhook_deliveries: next_retry_at, attempts, success, claim_token
  lapsed,       \* the deliveries whose claim_expires_at <= NOW()
  enabled,      \* webhooks with is_enabled = true
  reason,       \* webhooks.disabled_reason: the delivery it names
  worker,       \* the batch entry that holds (or held) this claim token
  redelivering, \* deliveries an operator's redeliver request is sending
  prompt,       \* every send ends within its lease (30 s timeout, 120 s lease)
  faults        \* faults so far (bounded by MaxFaults)

vars == <<row, lapsed, enabled, reason, worker, redelivering, prompt, faults>>

\* due: no row yet, next_retry_at in the future, in the past, or NULL.
Row == [due : {"absent", "later", "now", "never"}, attempts : Nat, success : BOOLEAN,
        token : Tokens \cup {NoToken}]

\* A Claimed<RetryDeliveryRow> with the attempts the claim statement returned.
Worker == [pc : {"free", "claimed", "rejected", "checked", "sending", "disabling"},
           row : Deliveries, attempts : Nat, replica : Replicas]

\* Every variable holds a value of its type.
TypeOK ==
  /\ row \in [Deliveries -> Row]
  /\ lapsed \subseteq Deliveries
  /\ enabled \subseteq Webhooks
  /\ reason \in [Webhooks -> Deliveries \cup {NoReason}]
  /\ worker \in [Tokens -> Worker]
  /\ redelivering \subseteq Deliveries
  /\ prompt \in BOOLEAN
  /\ faults \in 0..MaxFaults

-----------------------------------------------------------------------------
NoRow == [due |-> "absent", attempts |-> 0, success |-> FALSE, token |-> NoToken]

FreeWorker == [pc |-> "free", row |-> CHOOSE d \in Deliveries : TRUE, attempts |-> 0,
               replica |-> CHOOSE r \in Replicas : TRUE]

\* gen_random_uuid(): a token no row and no batch refers to.
Fresh == {k \in Tokens : worker[k].pc = "free" /\ \A d \in Deliveries : row[d].token # k}

Busy(r) == \E k \in Tokens : worker[k].pc # "free" /\ worker[k].replica = r

\* The loop over the batch is at this entry, or may go on to it.
Turn(k) ==
  \A j \in Tokens \ {k} :
    worker[j].replica = worker[k].replica => worker[j].pc \in {"free", "claimed"}

Become(k, pc) == worker' = [worker EXCEPT ![k].pc = pc]

Leave(k) == worker' = [worker EXCEPT ![k] = FreeWorker]

\* Mutant of Holds: the statement names the row by its id alone.
Holds_AnyToken(k) == row[worker[k].row].due # "absent"

\* The predicate of the extension and of every finalizer: id = $1 AND claim_token = $n.
Holds(k) == row[worker[k].row].token = k

\* What a finalizer writes: the claim is dropped and next_retry_at is set.
Release(k, due, attempts, success) ==
  /\ row' = [row EXCEPT ![worker[k].row] =
               [due |-> due, attempts |-> attempts, success |-> success, token |-> NoToken]]
  /\ lapsed' = lapsed \ {worker[k].row}

Init ==
  /\ row = [d \in Deliveries |-> NoRow]
  /\ lapsed = {}
  /\ enabled = Webhooks
  /\ reason = [w \in Webhooks |-> NoReason]
  /\ worker = [k \in Tokens |-> FreeWorker]
  /\ redelivering = {}
  /\ prompt \in BOOLEAN
  /\ faults = 0

-----------------------------------------------------------------------------
(* One round of process_webhook_retries on replica r. *)

\* Mutant: the claim statement does not look at the claim that is there.
Candidates_IgnoreClaims ==
  {d \in Deliveries : ~row[d].success /\ row[d].due = "now" /\ row[d].attempts < MaxAttempts}

\* Mutant: it waits for the owner of a claim to release it.
Candidates_NeverExpire ==
  {d \in Deliveries : /\ ~row[d].success
                      /\ row[d].due = "now"
                      /\ row[d].attempts < MaxAttempts
                      /\ row[d].token = NoToken}

Candidates ==
  {d \in Deliveries : /\ ~row[d].success
                      /\ row[d].due = "now"
                      /\ row[d].attempts < MaxAttempts
                      /\ row[d].token = NoToken \/ d \in lapsed}

\* claim_due_webhook_deliveries: any rows within the limit that no other
\* statement has locked, each with a token of its own.
Claim(r, S, tok) ==
  /\ ~Busy(r)
  /\ S # {}
  /\ Cardinality(S) <= BatchSize
  /\ \A c, d \in S : tok[c] = tok[d] => c = d
  /\ row' = [d \in Deliveries |-> IF d \in S THEN [row[d] EXCEPT !.token = tok[d]] ELSE row[d]]
  /\ lapsed' = lapsed \ S
  /\ worker' = [k \in Tokens |->
                  IF \E d \in S : tok[d] = k
                  THEN LET d == CHOOSE d \in S : tok[d] = k
                       IN  [pc |-> "claimed", row |-> d, attempts |-> row[d].attempts, replica |-> r]
                  ELSE worker[k]]
  /\ UNCHANGED <<enabled, reason, redelivering, prompt, faults>>

ClaimBatch(r) == \E S \in SUBSET Candidates : \E tok \in [S -> Fresh] : Claim(r, S, tok)

\* The webhook is looked up: disabled, or its URL fails validation, or go on.
LookUp(k) ==
  /\ worker[k].pc = "claimed"
  /\ Turn(k)
  /\ \/ Become(k, "rejected")
     \/ WebhookOf[worker[k].row] \in enabled /\ Become(k, "checked")
  /\ UNCHANGED <<row, lapsed, enabled, reason, redelivering, prompt, faults>>

\* dead_letter_claimed_delivery
DeadLetter(k) ==
  /\ worker[k].pc = "rejected"
  /\ LET d == row[worker[k].row]
     IN  IF Holds(k) THEN Release(k, "never", d.attempts, d.success) ELSE UNCHANGED <<row, lapsed>>
  /\ Leave(k)
  /\ UNCHANGED <<enabled, reason, redelivering, prompt, faults>>

\* Mutant: the send does not wait for the extension's verdict.
ExtendClaim_Regardless(k) ==
  /\ worker[k].pc = "checked"
  /\ lapsed' = lapsed \ {worker[k].row}
  /\ Become(k, "sending")
  /\ UNCHANGED <<row, enabled, reason, redelivering, prompt, faults>>

\* extend_webhook_delivery_claim: a lost claim skips the send.
ExtendClaim(k) ==
  /\ worker[k].pc = "checked"
  /\ IF Holds(k) THEN lapsed' = lapsed \ {worker[k].row} /\ Become(k, "sending")
     ELSE Leave(k) /\ UNCHANGED lapsed
  /\ UNCHANGED <<row, enabled, reason, redelivering, prompt, faults>>

\* The answer, or the lack of one, is recorded with the attempts of the claim:
\* success, dead letter or another try (determine_retry_outcome).
FinishSend(k, ok) ==
  LET n == worker[k].attempts + 1
      exhausted == ~ok /\ n >= MaxAttempts
      d == row[worker[k].row]
  IN  /\ worker[k].pc = "sending"
      /\ IF Holds(k)
         THEN Release(k, IF ok \/ exhausted THEN "never" ELSE "later", n, ok \/ d.success)
         ELSE UNCHANGED <<row, lapsed>>
      /\ IF Holds(k) /\ exhausted THEN Become(k, "disabling") ELSE Leave(k)
      /\ UNCHANGED <<enabled, reason, redelivering, prompt, faults>>

\* Mutant: the reason is built from the id of the webhook.
AutoDisable_NamesWebhook(k) ==
  LET w == WebhookOf[worker[k].row]
  IN  /\ worker[k].pc = "disabling"
      /\ enabled' = enabled \ {w}
      /\ reason' = IF w \in enabled /\ reason[w] = NoReason
                   THEN [reason EXCEPT ![w] = w] ELSE reason
      /\ Leave(k)
      /\ UNCHANGED <<row, lapsed, redelivering, prompt, faults>>

\* auto_disable_webhook_for_dead_letter: COALESCE keeps a reason that is there.
AutoDisable(k) ==
  LET w == WebhookOf[worker[k].row]
  IN  /\ worker[k].pc = "disabling"
      /\ enabled' = enabled \ {w}
      /\ reason' = IF w \in enabled /\ reason[w] = NoReason
                   THEN [reason EXCEPT ![w] = worker[k].row] ELSE reason
      /\ Leave(k)
      /\ UNCHANGED <<row, lapsed, redelivering, prompt, faults>>

-----------------------------------------------------------------------------
(* Events, operators, faults and the passing of time. *)

\* enqueue_for_event: the webhook was enabled when the producer looked.
Enqueue(d) ==
  /\ row[d].due = "absent"
  /\ row' = [row EXCEPT ![d].due = "now"]
  /\ UNCHANGED <<lapsed, enabled, reason, worker, redelivering, prompt, faults>>

\* redeliver sends without a claim ...
Redeliver(d) ==
  /\ row[d].due # "absent"
  /\ d \notin redelivering
  /\ row[d].attempts < RedeliverBound
  /\ redelivering' = redelivering \cup {d}
  /\ UNCHANGED <<row, lapsed, enabled, reason, worker, prompt, faults>>

\* ... and records the outcome whatever has become of the row.
Redelivered(d, ok) ==
  /\ d \in redelivering
  /\ redelivering' = redelivering \ {d}
  /\ row' = [row EXCEPT ![d] = [row[d] EXCEPT !.success = ok, !.attempts = @ + 1]]
  /\ UNCHANGED <<lapsed, enabled, reason, worker, prompt, faults>>

\* set_webhook_enabled: disabled_reason stays.
EnableWebhook(w) ==
  /\ w \notin enabled
  /\ enabled' = enabled \cup {w}
  /\ UNCHANGED <<row, lapsed, reason, worker, redelivering, prompt, faults>>

DisableWebhook(w) ==
  /\ w \in enabled
  /\ enabled' = enabled \ {w}
  /\ UNCHANGED <<row, lapsed, reason, worker, redelivering, prompt, faults>>

CountFault == faults < MaxFaults /\ faults' = faults + 1

\* The process dies, or a `?` in the loop gives up the rest of the batch.
BatchFails(r) ==
  /\ CountFault
  /\ Busy(r)
  /\ worker' = [k \in Tokens |-> IF worker[k].replica = r THEN FreeWorker ELSE worker[k]]
  /\ UNCHANGED <<row, lapsed, enabled, reason, redelivering, prompt>>

\* A statement whose error is only logged: the loop goes on to the next entry.
StatementFails(k) ==
  /\ CountFault
  /\ worker[k].pc \in {"rejected", "checked", "sending", "disabling"}
  /\ Leave(k)
  /\ UNCHANGED <<row, lapsed, enabled, reason, redelivering, prompt>>

RedeliverFails(d) ==
  /\ CountFault
  /\ d \in redelivering
  /\ redelivering' = redelivering \ {d}
  /\ UNCHANGED <<row, lapsed, enabled, reason, worker, prompt>>

Sending(k) == worker[k].pc = "sending"

\* NOW() passes claim_expires_at.
Lapse(d) ==
  /\ row[d].token # NoToken
  /\ d \notin lapsed
  /\ prompt => ~Sending(row[d].token)
  /\ lapsed' = lapsed \cup {d}
  /\ UNCHANGED <<row, enabled, reason, worker, redelivering, prompt, faults>>

\* NOW() passes next_retry_at.
BecomesDue(d) ==
  /\ row[d].due = "later"
  /\ row' = [row EXCEPT ![d].due = "now"]
  /\ UNCHANGED <<lapsed, enabled, reason, worker, redelivering, prompt, faults>>

-----------------------------------------------------------------------------
WorkerStep(k) ==
  \/ LookUp(k)
  \/ DeadLetter(k)
  \/ ExtendClaim(k)
  \/ \E ok \in BOOLEAN : FinishSend(k, ok)
  \/ AutoDisable(k)

OperatorStep ==
  \/ \E d \in Deliveries : Redeliver(d) \/ \E ok \in BOOLEAN : Redelivered(d, ok)
  \/ \E w \in Webhooks : EnableWebhook(w) \/ DisableWebhook(w)

FaultStep ==
  \/ \E r \in Replicas : BatchFails(r)
  \/ \E k \in Tokens : StatementFails(k)
  \/ \E d \in Deliveries : RedeliverFails(d)

Next ==
  \/ \E r \in Replicas : ClaimBatch(r)
  \/ \E k \in Tokens : WorkerStep(k)
  \/ \E d \in Deliveries : Enqueue(d) \/ Lapse(d) \/ BecomesDue(d)
  \/ OperatorStep
  \/ FaultStep

Spec == Init /\ [][Next]_vars

\* The loop runs every thirty seconds, each send has a timeout, and time passes.
Fairness ==
  /\ \A r \in Replicas : WF_vars(ClaimBatch(r))
  /\ \A k \in Tokens : WF_vars(WorkerStep(k))
  /\ \A d \in Deliveries : WF_vars(BecomesDue(d))
  /\ \A d \in Deliveries :
       WF_vars(row[d].token # NoToken /\ worker[row[d].token].pc = "free" /\ Lapse(d))

FairSpec == Spec /\ Fairness

-----------------------------------------------------------------------------
(* Properties. *)

\* Two replicas never POST the same delivery at the same time, as long as a send
\* ends within the lease it was extended to: a batch entry whose claim has been
\* taken over finds out before it sends.
NoConcurrentSend ==
  prompt => \A j, k \in Tokens : Sending(j) /\ Sending(k) /\ worker[j].row = worker[k].row => j = k

\* Once the retry loop has settled a delivery (delivered or dead-lettered) it
\* never schedules, claims or sends it again, however late a stale owner of the
\* row comes back, and even if sends outlast their lease.
Settled(d) == row[d].due = "never" /\ row[d].token = NoToken

SettledStays ==
  [][\A d \in Deliveries : Settled(d) =>
       /\ Settled(d)'
       /\ \A k \in Tokens : Sending(k)' /\ worker'[k].row = d => Sending(k)]_vars

\* The retry queue implements the claim protocol of ClaimQueue, here without a
\* recovery step: a lapsed row goes from one token to the next.
Acting == {k \in Tokens : worker[k].pc \in {"claimed", "rejected", "checked", "sending"}}

Protocol == INSTANCE ClaimQueue
  WITH Rows <- Deliveries, holder <- [d \in Deliveries |-> row[d].token], acting <- Acting

\* Every step of the loops and the operators on webhook_deliveries is a step
\* that the claim protocol allows, or leaves all claims alone.
ImplementsClaimQueue == Protocol!Spec

\* Every delivery that is scheduled is delivered, dead-lettered or out of
\* attempts in the end, through crashes and lapsed claims.
EventuallySettled ==
  \A d \in Deliveries :
    row[d].due \in {"later", "now"} ~>
      row[d].due = "never" \/ row[d].success \/ row[d].attempts >= MaxAttempts

-----------------------------------------------------------------------------
(* What comments of the code say and the runs refute. *)

\* next_retry_at says "When to next attempt delivery. NULL = no more retries.":
\* an undelivered row that has it set still has attempts left.
ScheduledMeansRetry ==
  \A d \in Deliveries : row[d].due \in {"later", "now"} /\ ~row[d].success => row[d].attempts < MaxAttempts
=============================================================================
