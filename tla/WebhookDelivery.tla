--------------------------- MODULE WebhookDelivery ----------------------------
(***************************************************************************)
(* apps/web/lib/webhooks/outboundWebhookSender.ts: the rows of             *)
(* webhook_deliveries, the workers that call processDueOutboundWebhooks on *)
(* an interval, the target's answers, and what happens when a statement or *)
(* a process fails.  Which due rows a LIMIT leaves out, and the order of a *)
(* batch (ORDER BY next_attempt_at), are left open.                        *)
(***************************************************************************)
EXTENDS Naturals, FiniteSets

CONSTANTS Events,      \* events reported to enqueueOutboundWebhook
          Subs,        \* rows of webhook_subscriptions for their type
          Senders,     \* worker processes
          NoDelivery,  \* a worker between two deliveries
          Unreadable,  \* deliveries whose secret cannot be decrypted
          BatchLimit,  \* the `limit` of processDueOutboundWebhooks
          MaxTries,    \* BACKOFF_SCHEDULE_MS.length
          SendFaults   \* bound on failing statements, lost answers, crashes

Deliveries == Events \X Subs

ASSUME NoDeliveryAssumption == NoDelivery \notin Deliveries
ASSUME UnreadableAssumption == Unreadable \subseteq Deliveries
ASSUME SendBoundsAssumption ==
  BatchLimit \in Nat \ {0} /\ MaxTries \in Nat \ {0} /\ SendFaults \in Nat

VARIABLES row,      \* the webhook_deliveries table
          stage,    \* where each worker stands
          todo,     \* what is left of the worker's batch, the current one included
          now,      \* the delivery it is attempting
          seen,     \* `attempts` as its claim read it
          tries,    \* history: POSTs made for each delivery
          accepted, \* history: POSTs the target accepted
          mishaps   \* faults so far

sendVars == <<stage, todo, now, seen>>
historyVars == <<tries, accepted>>
deliveryVars == <<row, stage, todo, now, seen, tries, accepted, mishaps>>

------------------------------------------------------------------------------
DeliveryRow == [status : {"absent", "pending", "processing", "delivered", "exhausted"},
                due : BOOLEAN, attempts : Nat]

\* idle: no batch; claim: rows selected and locked; next: the loop's head;
\* mark: the target has accepted; settle: after the try block; down: dead.
SenderStages == {"idle", "claim", "next", "mark", "settle", "down"}

DeliveryTypeOK ==
  /\ row \in [Deliveries -> DeliveryRow]
  /\ stage \in [Senders -> SenderStages]
  /\ todo \in [Senders -> SUBSET Deliveries]
  /\ now \in [Senders -> Deliveries \union {NoDelivery}]
  /\ seen \in [Senders -> [Deliveries -> Nat]]
  /\ tries \in [Deliveries -> Nat]
  /\ accepted \in [Deliveries -> Nat]
  /\ mishaps \in 0..SendFaults

DeliveryInit ==
  /\ row = [d \in Deliveries |-> [status |-> "absent", due |-> FALSE, attempts |-> 0]]
  /\ stage = [w \in Senders |-> "idle"]
  /\ todo = [w \in Senders |-> {}]
  /\ now = [w \in Senders |-> NoDelivery]
  /\ seen = [w \in Senders |-> [d \in Deliveries |-> 0]]
  /\ tries = [d \in Deliveries |-> 0]
  /\ accepted = [d \in Deliveries |-> 0]
  /\ mishaps = 0

------------------------------------------------------------------------------
\* enqueueOutboundWebhook(): one row per enabled subscription, in one
\* transaction, due at once.
PostEvent(e, enabled) == LET new == {e} \X enabled IN
  /\ \A s \in Subs : row[<<e, s>>].status = "absent"
  /\ row' = [d \in Deliveries |->
       IF d \in new THEN [status |-> "pending", due |-> TRUE, attempts |-> 0] ELSE row[d]]
  /\ UNCHANGED <<sendVars, historyVars, mishaps>>

\* next_attempt_at <= now() becomes true.
BackoffEnds(d) ==
  /\ row[d].status = "pending"
  /\ ~row[d].due
  /\ row' = [row EXCEPT ![d].due = TRUE]
  /\ UNCHANGED <<sendVars, historyVars, mishaps>>

------------------------------------------------------------------------------
(* processDueOutboundWebhooks().                                           *)

Locked(d) == \E w \in Senders : stage[w] = "claim" /\ d \in todo[w]

\* Mutant: the SELECT without FOR UPDATE SKIP LOCKED.
DueRowsUnlocked == {d \in Deliveries : row[d].status = "pending" /\ row[d].due}

DueRows == {d \in Deliveries : row[d].status = "pending" /\ row[d].due /\ ~Locked(d)}

\* The batch is over: every delivery was attempted, or an error left the rest.
EndBatch(w) ==
  /\ stage' = [stage EXCEPT ![w] = "idle"]
  /\ todo' = [todo EXCEPT ![w] = {}]
  /\ now' = [now EXCEPT ![w] = NoDelivery]
  /\ UNCHANGED seen

\* BEGIN; SELECT ... LIMIT $1 FOR UPDATE SKIP LOCKED.
SelectDue(w) == \E S \in SUBSET DueRows :
  /\ stage[w] = "idle"
  /\ S # {}
  /\ Cardinality(S) = BatchLimit \/ (S = DueRows /\ Cardinality(S) < BatchLimit)
  /\ stage' = [stage EXCEPT ![w] = "claim"]
  /\ todo' = [todo EXCEPT ![w] = S]
  /\ seen' = [seen EXCEPT ![w] = [d \in Deliveries |->
                                    IF d \in S THEN row[d].attempts ELSE 0]]
  /\ UNCHANGED <<row, now, historyVars, mishaps>>

Processing(S) == [d \in Deliveries |->
  IF d \in S THEN [row[d] EXCEPT !.status = "processing"] ELSE row[d]]

\* The UPDATE to 'processing' and COMMIT.
CommitClaim(w) ==
  /\ stage[w] = "claim"
  /\ row' = Processing(todo[w])
  /\ stage' = [stage EXCEPT ![w] = "next"]
  /\ UNCHANGED <<todo, now, seen, historyVars, mishaps>>

------------------------------------------------------------------------------
(* attemptDelivery().                                                      *)

\* decryptProviderConfig throws, outside the try: so does the batch's loop.
DecryptFails(w, d) ==
  /\ stage[w] = "next"
  /\ d \in todo[w] \intersect Unreadable
  /\ EndBatch(w)
  /\ UNCHANGED <<row, historyVars, mishaps>>

\* The request is sent; `stage` is where its answer leads.
Post(w, d, answer) ==
  /\ stage[w] = "next"
  /\ d \in todo[w] \ Unreadable
  /\ tries' = [tries EXCEPT ![d] = @ + 1]
  /\ now' = [now EXCEPT ![w] = d]
  /\ stage' = [stage EXCEPT ![w] = answer]
  /\ UNCHANGED <<row, todo, seen>>

PostAccepted(w, d) ==
  /\ Post(w, d, "mark")
  /\ accepted' = [accepted EXCEPT ![d] = @ + 1]
  /\ UNCHANGED mishaps

\* Mutant: res.ok is not looked at.
PostRefusedUnchecked(w, d) ==
  /\ Post(w, d, "mark")
  /\ UNCHANGED <<accepted, mishaps>>

\* A status that is not ok, or no connection.
PostRefused(w, d) ==
  /\ Post(w, d, "settle")
  /\ UNCHANGED <<accepted, mishaps>>

DeliveredRow(r, attempts) == [r EXCEPT !.status = "delivered", !.attempts = attempts + 1]

\* Mutants: one try too many; ...
FailedRowLate(r, attempts) == IF attempts + 1 > MaxTries
  THEN [r EXCEPT !.status = "exhausted", !.attempts = attempts + 1]
  ELSE [r EXCEPT !.status = "pending", !.attempts = attempts + 1, !.due = FALSE]

\* ... a status the column allows and no statement writes.
FailedRowStatus(r, attempts) == [r EXCEPT !.status = "failed", !.attempts = attempts + 1]

\* 'exhausted' at the cap, else 'pending' after the backoff.
FailedRow(r, attempts) == IF attempts + 1 >= MaxTries
  THEN [r EXCEPT !.status = "exhausted", !.attempts = attempts + 1]
  ELSE [r EXCEPT !.status = "pending", !.attempts = attempts + 1, !.due = FALSE]

\* attemptDelivery() returns; the loop goes on with the rest.
EndAttempt(w) ==
  /\ stage' = [stage EXCEPT ![w] = IF todo[w] = {now[w]} THEN "idle" ELSE "next"]
  /\ todo' = [todo EXCEPT ![w] = @ \ {now[w]}]
  /\ now' = [now EXCEPT ![w] = NoDelivery]
  /\ UNCHANGED seen

MarkDelivered(w) == LET d == now[w] IN
  /\ stage[w] = "mark"
  /\ row' = [row EXCEPT ![d] = DeliveredRow(@, seen[w][d])]
  /\ EndAttempt(w)
  /\ UNCHANGED <<historyVars, mishaps>>

\* The UPDATE after the try block, by id alone.
SettleFailure(w) == LET d == now[w] IN
  /\ stage[w] = "settle"
  /\ row' = [row EXCEPT ![d] = FailedRow(@, seen[w][d])]
  /\ EndAttempt(w)
  /\ UNCHANGED <<historyVars, mishaps>>

------------------------------------------------------------------------------
(* Failures; a failed statement was rolled back or applied.                *)

Mishap == mishaps < SendFaults /\ mishaps' = mishaps + 1

\* The claim's transaction throws out of processDueOutboundWebhooks.
SelectDueError(w) ==
  /\ Mishap
  /\ stage[w] = "claim"
  /\ row' \in {row, Processing(todo[w])}
  /\ EndBatch(w)
  /\ UNCHANGED historyVars

\* The target accepts and its answer does not arrive: fetch rejects.
AnswerLost(w, d) ==
  /\ Mishap
  /\ Post(w, d, "settle")
  /\ accepted' = [accepted EXCEPT ![d] = @ + 1]

\* The UPDATE to 'delivered' throws inside the try around the POST: it is
\* caught as if the POST had failed.
MarkDeliveredError(w) == LET d == now[w] IN
  /\ Mishap
  /\ stage[w] = "mark"
  /\ row' \in {row, [row EXCEPT ![d] = DeliveredRow(@, seen[w][d])]}
  /\ stage' = [stage EXCEPT ![w] = "settle"]
  /\ UNCHANGED <<todo, now, seen, historyVars>>

\* The last UPDATE throws: the rest of the batch is left in 'processing'.
SettleError(w) == LET d == now[w] IN
  /\ Mishap
  /\ stage[w] = "settle"
  /\ row' \in {row, [row EXCEPT ![d] = FailedRow(@, seen[w][d])]}
  /\ EndBatch(w)
  /\ UNCHANGED historyVars

SenderDies(w) ==
  /\ Mishap
  /\ stage[w] # "down"
  /\ stage' = [stage EXCEPT ![w] = "down"]
  /\ todo' = [todo EXCEPT ![w] = {}]
  /\ now' = [now EXCEPT ![w] = NoDelivery]
  /\ UNCHANGED <<row, seen, historyVars>>

SenderStarts(w) ==
  /\ stage[w] = "down"
  /\ EndBatch(w)
  /\ UNCHANGED <<row, historyVars, mishaps>>

------------------------------------------------------------------------------
SenderStep(w) ==
  \/ SelectDue(w) \/ CommitClaim(w) \/ MarkDelivered(w) \/ SettleFailure(w)
  \/ \E d \in Deliveries : DecryptFails(w, d) \/ PostAccepted(w, d) \/ PostRefused(w, d)

SenderFailure(w) ==
  \/ SelectDueError(w) \/ MarkDeliveredError(w) \/ SettleError(w) \/ SenderDies(w)
  \/ \E d \in Deliveries : AnswerLost(w, d)

DeliveryNext ==
  \/ \E e \in Events, enabled \in SUBSET Subs : PostEvent(e, enabled)
  \/ \E d \in Deliveries : BackoffEnds(d)
  \/ \E w \in Senders : SenderStep(w) \/ SenderFailure(w) \/ SenderStarts(w)

DeliverySpec == DeliveryInit /\ [][DeliveryNext]_deliveryVars

\* The function is called again and again, a dead process is started again,
\* time passes.  Events and faults are not fair.
FairDeliverySpec ==
  /\ DeliverySpec
  /\ \A w \in Senders : WF_deliveryVars(SenderStep(w)) /\ WF_deliveryVars(SenderStarts(w))
  /\ \A d \in Deliveries : WF_deliveryVars(BackoffEnds(d))

------------------------------------------------------------------------------
(* Properties.                                                             *)

\* The claim's comment: "concurrent worker instances can't double-send the
\* same delivery".  No two workers have it in their batches, and once claimed
\* it is out of every other worker's reach until its own has let go of it.
ExclusiveSend == \A w \in Senders, d \in Deliveries : d \in todo[w] =>
  /\ stage[w] # "claim" => row[d].status \notin {"absent", "pending"}
  /\ \A v \in Senders \ {w} : d \notin todo[v]

\* At-least-once, and how much more: a target accepts one delivery a second
\* time only for a lost answer, a failed UPDATE or a crash, one each; and
\* 'delivered' is never recorded of a delivery nobody accepted.
AcceptedOnceButForMishaps == \A d \in Deliveries :
  /\ accepted[d] <= 1 + mishaps
  /\ row[d].status = "delivered" => accepted[d] > 0

\* No worker has the row and no SELECT will find it again.
Forgotten(d) ==
  row[d].status = "processing" /\ \A w \in Senders : d \notin todo[w]

\* Every delivery is delivered or exhausted in the end, unless a mishap left it
\* in 'processing', or a secret of its batch that does not decrypt left both there.
EveryDeliverySettles == \A d \in Deliveries :
  row[d].status = "pending" ~>
    \/ row[d].status \in {"delivered", "exhausted"}
    \/ Forgotten(d) /\ (mishaps > 0 \/ \E u \in Unreadable : Forgotten(u))

PhaseOf(status) == CASE status = "pending" -> "waiting"
                     [] status = "processing" -> "taken"
                     [] OTHER -> status

Promise == INSTANCE DeliveryContract WITH
  Parcels <- Deliveries, Limit <- MaxTries,
  phase <- [d \in Deliveries |-> PhaseOf(row[d].status)],
  sent <- tries, got <- accepted

\* The table moves only as a subscriber may expect: above all, at most
\* MaxTries requests for one delivery through every retry, crash and failed
\* UPDATE, and 'exhausted' only after exactly so many.
KeepsDeliveryContract == Promise!DCSpec
==============================================================================
