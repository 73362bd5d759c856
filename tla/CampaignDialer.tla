--------------------------- MODULE CampaignDialer ----------------------------
(***************************************************************************)
(* apps/web/lib/campaigns/dialer.ts on top of the job queue: one campaign, *)
(* its campaign_leads, the scheduler tick that turns due leads into jobs,  *)
(* the handler that runs createOutboundCall (lib/calls/createCall.ts) with *)
(* its compliance and wallet gates, and scheduleNextAttempt, which reacts  *)
(* to a call's disposition.                                                *)
(*                                                                         *)
(* The handler runs between two steps of JobQueue: it starts when a claim  *)
(* is committed and ends in HandlerReturns or HandlerThrows.  Each await   *)
(* that other actors can get in between is a stage of dial[w].             *)
(***************************************************************************)
EXTENDS Naturals, FiniteSets

CONSTANTS Jobs, Workers, NoWorker, NoJob, Caps, MaxFaults,  \* as in JobQueue
          Leads,         \* leads of the campaign
          NoLead,        \* payload of a job not yet enqueued
          NoDisposition, \* no disposition of the lead is being processed
          MaxAttempts,   \* campaigns.max_attempts
          MaxPerHour,    \* campaigns.max_calls_per_hour
          MaxChanges     \* bound on changes made outside the dialer

ASSUME QueueAssumption ==
  NoWorker \notin Workers /\ NoJob \notin Jobs /\ Caps \subseteq Nat \ {0} /\ MaxFaults \in Nat
ASSUME WorkersAssumption == IsFiniteSet(Workers) /\ Workers # {}
ASSUME NoLeadAssumption == NoLead \notin Leads
ASSUME NoDispositionAssumption == NoDisposition \notin [seen : Nat, terminal : BOOLEAN]
ASSUME LimitsAssumption == {MaxAttempts, MaxPerHour, MaxChanges} \subseteq Nat

VARIABLES job, rowLock, worker, starts, faults,   \* the queue
          leadOf,    \* payload of each job
          lead,      \* the campaign_leads rows
          batch,     \* leads the scheduler has selected and not yet enqueued
          dial,      \* stage of each worker's handler
          recent,    \* rows of calls younger than an hour
          awaiting,  \* recorded calls of a lead whose disposition is to come
          disp,      \* scheduleNextAttempt in progress for a lead
          consent,   \* what lead_compliance says of each lead
          campaign,  \* status and calling window of the campaign
          funded,    \* the wallet gate would pass
          changes,   \* changes made outside the dialer so far
          dials,     \* history: calls the provider placed for each job
          lateDials, \* history: calls placed to a lead without its consent
          droppedDisp \* history: leads one of whose dispositions was lost

Q == INSTANCE JobQueue

queueVars == <<job, rowLock, worker, starts, faults>>
leadVars == <<lead, awaiting, disp, droppedDisp>>
worldVars == <<consent, campaign, funded, changes>>
dialVars == <<dial, recent, dials, lateDials>>
schedVars == <<leadOf, batch>>
vars == <<queueVars, leadVars, worldVars, dialVars, schedVars>>

------------------------------------------------------------------------------
LeadStatuses == {"pending", "in_progress", "completed", "exhausted", "blocked"}

\* due: next_attempt_at <= now(); phone: phone_number is on file.
LeadRow == [status : LeadStatuses, attempts : Nat, due : BOOLEAN, phone : BOOLEAN]

\* Where processCampaignDialJob stands:
\*   load      its first transaction reads the lead and the campaign
\*   consent, campaign, wallet    the gates, inside createOutboundCall
\*   provider  the provider's createCall is next
\*   record    the call is placed; INSERT, UPDATE and COMMIT are next
\*   block     a gate refused: markCampaignLeadOutcome is next
DialStages == {"idle", "load", "consent", "campaign", "wallet", "provider",
               "record", "block"}

\* What scheduleNextAttempt knows after its two SELECTs.
Disposition == [seen : Nat, terminal : BOOLEAN]

TypeOK ==
  /\ Q!TypeOK
  /\ leadOf \in [Jobs -> Leads \union {NoLead}]
  /\ lead \in [Leads -> LeadRow]
  /\ batch \subseteq Leads
  /\ dial \in [Workers -> DialStages]
  /\ recent \in Nat
  /\ awaiting \in [Leads -> Nat]
  /\ disp \in [Leads -> Disposition \union {NoDisposition}]
  /\ consent \in [Leads -> {"granted", "withheld"}]
  /\ campaign \in {"open", "closed", "paused"}
  /\ funded \in BOOLEAN
  /\ changes \in 0..MaxChanges
  /\ dials \in [Jobs -> Nat]
  /\ lateDials \in [Leads -> Nat]
  /\ droppedDisp \subseteq Leads

NewLead(phone) == [status |-> "pending", attempts |-> 0, due |-> TRUE, phone |-> phone]

Init ==
  /\ Q!Init
  /\ leadOf = [j \in Jobs |-> NoLead]
  /\ \E phone \in [Leads -> BOOLEAN] : lead = [l \in Leads |-> NewLead(phone[l])]
  /\ batch = {}
  /\ dial = [w \in Workers |-> "idle"]
  /\ recent = 0
  /\ awaiting = [l \in Leads |-> 0]
  /\ disp = [l \in Leads |-> NoDisposition]
  /\ consent = [l \in Leads |-> "granted"]
  /\ campaign = "open"
  /\ funded = TRUE
  /\ changes = 0
  /\ dials = [j \in Jobs |-> 0]
  /\ lateDials = [l \in Leads |-> 0]
  /\ droppedDisp = {}

------------------------------------------------------------------------------
(* The scheduler tick, enqueueDueCampaignLeads().                          *)

Due(l) == /\ lead[l].status = "pending"
          /\ lead[l].due
          /\ lead[l].attempts < MaxAttempts

\* The SELECT.  It marks nothing: the next tick selects the same rows again.
ScanDue ==
  /\ batch = {}
  /\ campaign # "paused"
  /\ \E l \in Leads : Due(l)
  /\ batch' = {l \in Leads : Due(l)}
  /\ UNCHANGED <<queueVars, leadOf, leadVars, worldVars, dialVars>>

\* One enqueueCampaignDial(), committed by itself on another connection.
EnqueueDue(l, j, max) ==
  /\ l \in batch
  /\ Q!Enqueue(j, max, TRUE)
  /\ leadOf' = [leadOf EXCEPT ![j] = l]
  /\ batch' = batch \ {l}
  /\ UNCHANGED <<leadVars, worldVars, dialVars>>

\* An enqueue throws, or the process dies: the rest of the batch is dropped.
ScanAborts ==
  /\ batch # {}
  /\ batch' = {}
  /\ UNCHANGED <<queueVars, leadOf, leadVars, worldVars, dialVars>>

------------------------------------------------------------------------------
(* The handler, processCampaignDialJob().                                  *)

LeadOf(w) == leadOf[worker[w].job]

\* The queue hands the job to the handler.
StartDial(w) ==
  /\ Q!ClaimCommit(w)
  /\ dial' = [dial EXCEPT ![w] = "load"]
  /\ UNCHANGED <<schedVars, leadVars, worldVars, recent, dials, lateDials>>

\* A check of the handler: go on to the next stage, or to the blocking update.
Gate(w, stage, passed, next) ==
  /\ dial[w] = stage
  /\ dial' = [dial EXCEPT ![w] = IF passed THEN next ELSE "block"]
  /\ UNCHANGED <<queueVars, schedVars, leadVars, worldVars, recent, dials, lateDials>>

\* The handler's own read of the lead; status and attempts are not looked at.
LoadLead(w) == Gate(w, "load", lead[LeadOf(w)].phone, "consent")

\* Mutant: the lead_compliance row is read and its verdict ignored.
CheckConsentIgnored(w) == Gate(w, "consent", TRUE, "campaign")

\* assertCallIsCompliant: the lead_compliance row.
CheckConsent(w) == Gate(w, "consent", consent[LeadOf(w)] = "granted", "campaign")

\* Mutant: the hourly count compared with > instead of >=.
CheckCampaignOffByOne(w) ==
  Gate(w, "campaign", campaign = "open" /\ recent <= MaxPerHour, "wallet")

\* assertCallIsCompliant: status, days, hours and the hourly count.
CheckCampaign(w) ==
  Gate(w, "campaign", campaign = "open" /\ recent < MaxPerHour, "wallet")

\* assertWalletHasBalance; the alert it inserts is rolled back by its throw.
CheckWallet(w) == Gate(w, "wallet", funded, "provider")

\* The provider has a call to place for this worker's job.
Placed(w) ==
  /\ dials' = [dials EXCEPT ![worker[w].job] = @ + 1]
  /\ lateDials' = IF consent[LeadOf(w)] = "granted" THEN lateDials
                  ELSE [lateDials EXCEPT ![LeadOf(w)] = @ + 1]

\* Mutant: the lead is marked before the transaction that records the call.
PlaceCallMarked(w) ==
  /\ dial[w] = "provider"
  /\ Placed(w)
  /\ dial' = [dial EXCEPT ![w] = "record"]
  /\ lead' = [lead EXCEPT ![LeadOf(w)].status = "in_progress"]
  /\ UNCHANGED <<queueVars, schedVars, awaiting, disp, droppedDisp, worldVars, recent>>

\* provider.createCall() answers.
PlaceCall(w) ==
  /\ dial[w] = "provider"
  /\ Placed(w)
  /\ dial' = [dial EXCEPT ![w] = "record"]
  /\ UNCHANGED <<queueVars, schedVars, leadVars, worldVars, recent>>

\* INSERT INTO calls, UPDATE campaign_leads, COMMIT; the handler returns.
RecordCall(w) == LET l == LeadOf(w) IN
  /\ dial[w] = "record"
  /\ Q!HandlerReturns(w)
  /\ dial' = [dial EXCEPT ![w] = "idle"]
  /\ lead' = [lead EXCEPT ![l].status = "in_progress", ![l].attempts = @ + 1]
  /\ recent' = recent + 1
  /\ awaiting' = [awaiting EXCEPT ![l] = @ + 1]
  /\ UNCHANGED <<schedVars, disp, droppedDisp, worldVars, dials, lateDials>>

\* markCampaignLeadOutcome('blocked'), whatever the row's status; then return.
MarkBlocked(w) ==
  /\ dial[w] = "block"
  /\ Q!HandlerReturns(w)
  /\ dial' = [dial EXCEPT ![w] = "idle"]
  /\ lead' = [lead EXCEPT ![LeadOf(w)].status = "blocked"]
  /\ UNCHANGED <<schedVars, awaiting, disp, droppedDisp, worldVars, recent, dials,
                 lateDials>>

\* What is left when the handler stops half-way: its transaction is rolled
\* back, but a call the provider accepted is not, even when its answer is lost.
Abandon(w) ==
  /\ dial[w] # "idle"
  /\ dial' = [dial EXCEPT ![w] = "idle"]
  /\ \/ UNCHANGED <<dials, lateDials>>
     \/ dial[w] = "provider" /\ Placed(w)
  /\ UNCHANGED <<schedVars, leadVars, worldVars, recent>>

\* Mutants: the handler dials again by itself when recording the call fails, ...
DialThrowsRedials(w) ==
  \/ Q!HandlerThrows(w) /\ Abandon(w)
  \/ /\ dial[w] = "record"
     /\ dial' = [dial EXCEPT ![w] = "provider"]
     /\ UNCHANGED <<queueVars, schedVars, leadVars, worldVars, recent, dials, lateDials>>

\* ... and the catch block swallows every error.
DialThrowsSwallowed(w) == Q!HandlerReturns(w) /\ Abandon(w)

\* Any other error is rethrown and markFailed takes over.
DialThrows(w) == Q!HandlerThrows(w) /\ Abandon(w)

\* The process dies, in the handler or elsewhere.
DialCrash(w) ==
  /\ Q!Crash(w)
  /\ \/ Abandon(w)
     \/ dial[w] = "idle" /\ UNCHANGED <<schedVars, leadVars, worldVars, dialVars>>

\* The queue's other steps do not touch the dialer.  stop() is left out: it
\* only takes steps away.
QueueStep(w) ==
  /\ \/ Q!ClaimSelect(w) \/ Q!MarkCompleted(w)
     \/ Q!MarkFailedRead(w) \/ Q!MarkFailedWrite(w)
     \/ Q!ClaimError(w) \/ Q!MarkCompletedError(w) \/ Q!MarkFailedError(w)
     \/ Q!Restart(w)
  /\ UNCHANGED <<schedVars, leadVars, worldVars, dialVars>>

------------------------------------------------------------------------------
(* scheduleNextAttempt().  Nothing in the repository calls it yet; its     *)
(* comment says it is called when a call's disposition comes back, hence   *)
(* here at most once for every recorded call.                              *)

\* Its SELECT of attempts; no row is locked.
ReadAttempts(l, terminal) ==
  /\ awaiting[l] > 0
  /\ disp[l] = NoDisposition
  /\ awaiting' = [awaiting EXCEPT ![l] = @ - 1]
  /\ disp' = [disp EXCEPT ![l] = [seen |-> lead[l].attempts, terminal |-> terminal]]
  /\ UNCHANGED <<queueVars, schedVars, lead, droppedDisp, worldVars, dialVars>>

\* The row as its UPDATE leaves it: no status is respected.
Rescheduled(row, d, due) ==
  CASE d.seen >= MaxAttempts -> [row EXCEPT !.status = "exhausted"]
    [] d.seen < MaxAttempts /\ d.terminal -> [row EXCEPT !.status = "completed"]
    [] OTHER -> [row EXCEPT !.status = "pending", !.due = due]

\* due: the retry schedule's delay for the next attempt is zero.
WriteOutcome(l, due) ==
  /\ disp[l] # NoDisposition
  /\ lead' = [lead EXCEPT ![l] = Rescheduled(@, disp[l], due)]
  /\ disp' = [disp EXCEPT ![l] = NoDisposition]
  /\ UNCHANGED <<queueVars, schedVars, awaiting, droppedDisp, worldVars, dialVars>>

\* Its transaction fails; nothing calls it again.
LoseOutcome(l) ==
  /\ disp[l] # NoDisposition
  /\ disp' = [disp EXCEPT ![l] = NoDisposition]
  /\ droppedDisp' = droppedDisp \union {l}
  /\ UNCHANGED <<queueVars, schedVars, lead, awaiting, worldVars, dialVars>>

------------------------------------------------------------------------------
(* The world around the dialer.                                            *)

Change == changes < MaxChanges /\ changes' = changes + 1

\* Opt-out, a DND flag without consent, or consent that expires.
WithdrawConsent(l) ==
  /\ Change
  /\ consent[l] = "granted"
  /\ consent' = [consent EXCEPT ![l] = "withheld"]
  /\ UNCHANGED <<queueVars, schedVars, leadVars, campaign, funded, dialVars>>

\* Paused or resumed; the calling window closes or opens.
ChangeCampaign(status) ==
  /\ Change
  /\ campaign # status
  /\ campaign' = status
  /\ UNCHANGED <<queueVars, schedVars, leadVars, consent, funded, dialVars>>

\* The wallet runs empty, or is topped up.
ChangeFunds ==
  /\ Change
  /\ funded' = ~funded
  /\ UNCHANGED <<queueVars, schedVars, leadVars, consent, campaign, dialVars>>

\* next_attempt_at <= now() becomes true.
LeadBecomesDue(l) ==
  /\ ~lead[l].due
  /\ lead' = [lead EXCEPT ![l].due = TRUE]
  /\ UNCHANGED <<queueVars, schedVars, awaiting, disp, droppedDisp, worldVars, dialVars>>

\* The oldest call of the last hour is now older.
CallAges ==
  /\ recent > 0
  /\ recent' = recent - 1
  /\ UNCHANGED <<queueVars, schedVars, leadVars, worldVars, dial, dials, lateDials>>

------------------------------------------------------------------------------
Scheduler ==
  \/ ScanDue \/ ScanAborts
  \/ \E l \in Leads, j \in Jobs, max \in Caps : EnqueueDue(l, j, max)

Handler(w) ==
  \/ StartDial(w) \/ LoadLead(w)
  \/ CheckConsent(w) \/ CheckCampaign(w) \/ CheckWallet(w)
  \/ PlaceCall(w) \/ RecordCall(w) \/ MarkBlocked(w)
  \/ DialThrows(w) \/ DialCrash(w) \/ QueueStep(w)

Outcome(l) ==
  \/ \E terminal \in BOOLEAN : ReadAttempts(l, terminal)
  \/ \E due \in BOOLEAN : WriteOutcome(l, due)
  \/ LoseOutcome(l)

World ==
  \/ \E l \in Leads : WithdrawConsent(l) \/ LeadBecomesDue(l)
  \/ \E status \in {"open", "closed", "paused"} : ChangeCampaign(status)
  \/ ChangeFunds \/ CallAges

Next ==
  \/ Scheduler \/ World
  \/ \E w \in Workers : Handler(w)
  \/ \E l \in Leads : Outcome(l)

Spec == Init /\ [][Next]_vars

------------------------------------------------------------------------------
(* Properties.                                                             *)

\* One job dials its lead at most max_attempts times, however often its
\* handler throws after the provider has placed the call, or its process dies.
DialsPerJobCapped == \A j \in Jobs : dials[j] <= job[j].max

\* gate.ts calls itself a hard gate run before every dial.  It takes no lock,
\* so a lead may still be dialed after withdrawing consent, but only by calls
\* that had already passed the check: at most one per worker, never by a retry.
OptOutOvershoot == \A l \in Leads : lateDials[l] <= Cardinality(Workers)

\* max_calls_per_hour is counted without a lock: concurrent handlers can
\* overshoot it, by at most one call for each worker but the first.
HourlyOvershoot == recent < MaxPerHour + Cardinality(Workers)

\* A job is completed only once its lead was dialed and recorded, or blocked.
CompletedMeansDecided == \A j \in Jobs : job[j].status = "completed" =>
  \/ lead[leadOf[j]].attempts > 0
  \/ lead[leadOf[j]].status = "blocked"

\* No lead waits for nothing: while it is 'in_progress', one of its recorded
\* calls has its disposition to come, unless processing a disposition failed.
InProgressIsAwaited == \A l \in Leads : lead[l].status = "in_progress" =>
  awaiting[l] > 0 \/ disp[l] # NoDisposition \/ l \in droppedDisp

\* dialer.ts:18 says campaigns.max_attempts "is a hard cap".
CampaignHardCap == \A l \in Leads : lead[l].attempts <= MaxAttempts

\* dialer.ts:121 says "compliance blocks are terminal for this lead, never
\* retried": a blocked row stays blocked.
BlockedIsTerminal == [][\A l \in Leads :
  lead[l].status = "blocked" => lead'[l].status = "blocked"]_vars
==============================================================================
