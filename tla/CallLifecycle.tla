---------------------------- MODULE CallLifecycle ----------------------------
(***************************************************************************)
(* A call from the moment the telephony provider accepts it: the row that  *)
(* createOutboundCall (apps/web/lib/calls/createCall.ts) commits after the *)
(* provider has answered, and the provider's webhooks, which arrive in any *)
(* order, before or after that commit, and more than once:                 *)
(* app/api/calls/webhook/[providerKey]/route.ts and its SQL function       *)
(* process_telephony_webhook_event (db/migrations/007_provider_registry).  *)
(***************************************************************************)
EXTENDS Naturals, FiniteSets, TelephonyAdapters

CONSTANTS Calls,
          Words,     \* what events say of the call, in the provider's words
          Copies,    \* distinct events of a call that report the same status
          NoEvent    \* a timestamp that is NULL

Terminal == {"completed", "failed", "no_answer"}

ASSUME WordsAssumption == Words \subseteq UNION {WordsOf(p) : p \in Providers}
ASSUME NoEventAssumption == NoEvent \notin Calls \X Words \X Copies

VARIABLES provider, \* the telephony provider each call is placed with, chosen by
                    \* its caller or the tenant's configuration
          stage,    \* where createOutboundCall stands for each call
          row,      \* the calls table
          recorded, \* the telephony_webhook_events table
          request,  \* the request that recorded an event, and its side effect
          acked,    \* events whose delivery was answered with 200
          refused,  \* history: the error answers to each call's deliveries
          notified, \* history: notifyCallAnswered() reached the voice gateway
          completed \* history: call.completed webhooks enqueued

vars == <<provider, stage, row, recorded, request, acked, refused, notified, completed>>

------------------------------------------------------------------------------
\* An event is identified by its idempotency key.
Events == Calls \X Words \X Copies
CallOf(e) == e[1]
WordOf(e) == e[2]
StatusOf(e) == EventStatus(provider[CallOf(e)], WordOf(e))

\* absent: not dialed; placed: the provider has it, its row is not committed;
\* stored: the row is committed; lost: the transaction failed, the call goes on;
\* refused: the provider did not take it.
CallStages == {"absent", "placed", "stored", "lost", "refused"}

\* The timestamps are named by the event that set them.
Row == [status : CallStatus, startedAt : Events \union {NoEvent},
        endedAt : Events \union {NoEvent}]

\* recorded: with the call's id and org, or with NULLs.
\* request: the request still has to notify, to enqueue; it did all it had to; its
\* side effect failed, as far as it knows; it ended without an answer.
TypeOK ==
  /\ provider \in [Calls -> Providers]
  /\ stage \in [Calls -> CallStages]
  /\ row \in [Calls -> Row]
  /\ recorded \in [Events -> {"no", "linked", "unlinked"}]
  /\ request \in [Events -> {"none", "notify", "enqueue", "done", "failed", "died"}]
  /\ acked \subseteq Events
  /\ refused \in [Calls -> SUBSET {401, 404, 500}]
  /\ notified \in [Calls -> Nat]
  /\ completed \in [Calls -> Nat]

Init ==
  /\ provider \in [Calls -> Providers]
  /\ stage = [c \in Calls |-> "absent"]
  /\ row = [c \in Calls |-> [status |-> "queued", startedAt |-> NoEvent,
                              endedAt |-> NoEvent]]
  /\ recorded = [e \in Events |-> "no"]
  /\ request = [e \in Events |-> "none"]
  /\ acked = {}
  /\ refused = [c \in Calls |-> {}]
  /\ notified = [c \in Calls |-> 0]
  /\ completed = [c \in Calls |-> 0]

------------------------------------------------------------------------------
(* createOutboundCall().                                                   *)

hookVars == <<provider, recorded, request, acked, refused, notified, completed>>

\* provider.createCall() answers; the provider may send events from now on.
\* The row that is to be inserted takes the answer's status.  An answer the
\* adapter cannot read undoes the transaction as a refusal does.
Dial(c) == \E answer \in createCall(provider[c]) :
  /\ stage[c] = "absent"
  /\ stage' = [stage EXCEPT ![c] = CASE answer = "refused" -> "refused"
                                     [] answer = "unreadable" -> "lost"
                                     [] OTHER -> "placed"]
  /\ row' = [row EXCEPT ![c].status = IF answer \in CallStatus THEN answer ELSE @]
  /\ UNCHANGED hookVars

\* The INSERT is committed, or fails and the call stays unknown for ever.
Store(c) ==
  /\ stage[c] = "placed"
  /\ \/ stage' = [stage EXCEPT ![c] = "stored"]
     \/ stage' = [stage EXCEPT ![c] = "lost"]
  /\ UNCHANGED <<row, hookVars>>

------------------------------------------------------------------------------
(* The webhook route: which deliveries reach the database.                 *)

\* Mutant: the configuration is found, as it would be by a SECURITY DEFINER
\* function.
ConfigFound(c) == Required(provider[c]) \union {"webhook_secret"}

\* The route asks for the tenant's configuration on a connection without a
\* tenant: the policies of calls and tenant_provider_config, which bind the
\* table's owner too, show it no row, and {} goes to the adapter.
ConfigOf(c) == {}

Answer(c) == RouteAnswer(provider[c], ConfigOf(c), HeadersOf(provider[c]))

\* A call that the provider has taken, and may report on.
Reported(c) == stage[c] \in {"placed", "stored", "lost"}

\* An event that the provider sends, in words of its own, gets through.
Heard(e) == LET c == CallOf(e) IN
  Reported(c) /\ WordOf(e) \in WordsOf(provider[c]) /\ Answer(c) = 200

\* It does not: nothing is recorded, and the provider may try again.
Refuse(c) ==
  /\ Reported(c)
  /\ Answer(c) # 200
  /\ refused' = [refused EXCEPT ![c] = @ \union {Answer(c)}]
  /\ UNCHANGED <<provider, stage, row, recorded, request, acked, notified, completed>>

------------------------------------------------------------------------------
(* The webhook route: an event that is let in.                             *)

\* Mutant of the UPDATE: ended_at cleared by an event that is not terminal.
AppliedReopen(r, e) ==
  [r EXCEPT !.status = IF StatusOf(e) = "none" THEN @ ELSE StatusOf(e),
            !.startedAt = IF StatusOf(e) = "in_progress" /\ @ = NoEvent THEN e ELSE @,
            !.endedAt = IF StatusOf(e) \in Terminal THEN e ELSE NoEvent]

\* The UPDATE of process_telephony_webhook_event.
Applied(r, e) ==
  [r EXCEPT !.status = IF StatusOf(e) = "none" THEN @ ELSE StatusOf(e),
            !.startedAt = IF StatusOf(e) = "in_progress" /\ @ = NoEvent THEN e ELSE @,
            !.endedAt = IF StatusOf(e) \in Terminal THEN e ELSE @]

\* Mutant: the webhook is for calls that failed.
SideEffectForgets(e) ==
  CASE StatusOf(e) = "in_progress" -> "notify"
    [] StatusOf(e) \in Terminal \ {"completed"} -> "enqueue"
    [] OTHER -> "done"

\* What the route still has to do for an event that was new.
SideEffect(e) ==
  CASE StatusOf(e) = "in_progress" -> "notify"
    [] StatusOf(e) \in Terminal -> "enqueue"
    [] OTHER -> "done"

\* The answer 200 arrives.  It may be lost, as may the answer of the database
\* before it: the provider has heard nothing then.
Acknowledge(e) == acked' = acked \union {e}

\* A delivery arrives while the call's row is visible: recorded and applied.
ReceiveNew(e) == LET c == CallOf(e) IN
  /\ Heard(e)
  /\ stage[c] = "stored"
  /\ recorded[e] = "no"
  /\ recorded' = [recorded EXCEPT ![e] = "linked"]
  /\ row' = [row EXCEPT ![c] = Applied(@, e)]
  /\ request' = [request EXCEPT ![e] = SideEffect(e)]
  /\ \/ UNCHANGED acked
     \/ SideEffect(e) = "done" /\ Acknowledge(e)
  /\ UNCHANGED <<provider, stage, refused, notified, completed>>

\* A delivery arrives before the row is visible, or the row never will be:
\* the event is recorded with NULLs, nothing is applied.
ReceiveEarly(e) ==
  /\ Heard(e)
  /\ stage[CallOf(e)] # "stored"
  /\ recorded[e] = "no"
  /\ recorded' = [recorded EXCEPT ![e] = "unlinked"]
  /\ request' = [request EXCEPT ![e] = "done"]
  /\ UNCHANGED acked \/ Acknowledge(e)
  /\ UNCHANGED <<provider, stage, row, refused, notified, completed>>

\* Mutant: was_new is not looked at.
ReceiveAgainRepeats(e) ==
  /\ recorded[e] # "no"
  /\ request' = [request EXCEPT ![e] = SideEffect(e)]
  /\ acked' = acked \union {e}
  /\ UNCHANGED <<provider, stage, row, recorded, refused, notified, completed>>


\* A retried delivery: ON CONFLICT DO NOTHING, was_new is false, 200.
ReceiveAgain(e) ==
  /\ recorded[e] # "no"
  /\ acked' = acked \union {e}
  /\ UNCHANGED <<provider, stage, row, recorded, request, refused, notified, completed>>

\* The route ends, and answers 200 if it lives.
End(e, how) ==
  /\ request' = [request EXCEPT ![e] = how]
  /\ \/ UNCHANGED acked
     \/ how # "died" /\ Acknowledge(e)
  /\ UNCHANGED <<provider, stage, row, recorded, refused>>

\* notifyCallAnswered() reaches the voice gateway, enqueueOutboundWebhook(
\* 'call.completed') commits.
Effect(e) ==
  \/ /\ request[e] = "notify"
     /\ notified' = [notified EXCEPT ![CallOf(e)] = @ + 1]
     /\ UNCHANGED completed
  \/ /\ request[e] = "enqueue"
     /\ completed' = [completed EXCEPT ![CallOf(e)] = @ + 1]
     /\ UNCHANGED notified

NoEffect(e) == request[e] \in {"notify", "enqueue"} /\ UNCHANGED <<notified, completed>>

SideEffectDone(e) == Effect(e) /\ End(e, "done")

\* Both catch their errors, log them and never try again; the gateway, or the
\* database, may have done it all the same.
SideEffectFails(e) == (Effect(e) \/ NoEffect(e)) /\ End(e, "failed")

\* The process dies between the function's commit and the answer, or the commit's
\* own answer is lost and the route throws.
Die(e) == (Effect(e) \/ NoEffect(e)) /\ End(e, "died")

------------------------------------------------------------------------------
Route(e) ==
  \/ ReceiveNew(e) \/ ReceiveEarly(e) \/ ReceiveAgain(e)
  \/ SideEffectDone(e) \/ SideEffectFails(e)

Next ==
  \/ \E c \in Calls : Dial(c) \/ Store(c) \/ Refuse(c)
  \/ \E e \in Events : Route(e) \/ Die(e)

Spec == Init /\ [][Next]_vars

\* The provider retries an event it sent until it is answered.  Nothing makes it
\* send an event in the first place, or a request under way go on: the call to
\* the voice gateway has no timeout of the route's own.
FairSpec == Spec /\ \A e \in Events : WF_vars(e \notin acked /\ ReceiveAgain(e))

------------------------------------------------------------------------------
(* Properties.                                                             *)

Linked(c, statuses) ==
  {e \in Events : CallOf(e) = c /\ StatusOf(e) \in statuses /\ recorded[e] = "linked"}

\* The route's comment: a retried delivery is "a no-op the second time".  The
\* side effects of an event happen at most once, however often it is delivered
\* and however many of its deliveries overlap.
NoEffectTwice == \A c \in Calls :
  /\ notified[c] <= Cardinality(Linked(c, {"in_progress"}))
  /\ completed[c] <= Cardinality(Linked(c, Terminal))

\* The other way round, route.ts: "the FIRST time" a call is in progress, "tell the
\* voice-gateway", and call.completed "fires".  An event that was linked to its
\* call and that has nobody told of it has a request of its own still on its way,
\* or one whose side effect failed or that ended without an answer: a repeated
\* delivery, an overlapping one, or the order of events loses nothing.
LostEffectHasCause == \A c \in Calls :
  /\ Cardinality({e \in Linked(c, {"in_progress"}) : request[e] \notin {"notify", "failed", "died"}})
       <= notified[c]
  /\ Cardinality({e \in Linked(c, Terminal) : request[e] \notin {"enqueue", "failed", "died"}})
       <= completed[c]

\* ended_at is set exactly when a terminal event was applied, even when a late
\* 'ringing' or 'in_progress' has since overwritten the status.
EndedIffTerminal == \A c \in Calls :
  row[c].endedAt # NoEvent <=> Linked(c, Terminal) # {}

\* route.ts:20-28 promises that a delivery is verified with the secret of the
\* tenant who owns the call.  That tenant's configuration is out of the
\* route's reach, so no event of a real provider is ever recorded: its calls
\* keep the status they were accepted with, have no end, and notify nobody.
RealProvidersUnheard == \A c \in Calls : provider[c] # "mock" =>
  /\ \A e \in Events : CallOf(e) = c => recorded[e] = "no"
  /\ row[c].startedAt = NoEvent /\ row[c].endedAt = NoEvent
  /\ notified[c] = 0 /\ completed[c] = 0


\* route.ts:131 says the call.completed webhook "fires once per call reaching
\* a terminal status".
CompletedFiresOnce == \A c \in Calls : completed[c] <= 1
==============================================================================
