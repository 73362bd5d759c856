------------------------- MODULE CampaignDialerProofs -------------------------
(***************************************************************************)
(* Theorems about CampaignDialer, for every set of jobs, workers and       *)
(* leads, every limit, and every number of faults and outside changes.     *)
(* What the queue contributes is taken from the theorems about JobQueue.   *)
(***************************************************************************)
EXTENDS CampaignDialer, FiniteSetTheorems, TLAPS

QP == INSTANCE JobQueueProofs

DialTypeOK ==
  /\ leadOf \in [Jobs -> Leads \union {NoLead}]
  /\ lead \in [Leads -> LeadRow]
  /\ batch \subseteq Leads
  /\ dial \in [Workers -> DialStages]
  /\ recent \in Nat
  /\ awaiting \in [Leads -> Nat]
  /\ disp \in [Leads -> Disposition \union {NoDisposition}]
  /\ consent \in [Leads -> {"granted", "withheld"}]
  /\ campaign \in {"open", "closed", "paused"}
  /\ funded \in BOOLEAN
  /\ changes \in 0..MaxChanges
  /\ dials \in [Jobs -> Nat]
  /\ lateDials \in [Leads -> Nat]
  /\ droppedDisp \subseteq Leads

\* The handler's stages are those of the queue's running job, and a job that
\* exists has a lead.
RunInv ==
  /\ \A w \in Workers : dial[w] # "idle" <=> worker[w].stage = "run"
  /\ \A j \in Jobs : job[j].status # "absent" => leadOf[j] \in Leads

\* Each invocation of the handler places one call at most.
BeforeCall == {"load", "consent", "campaign", "wallet", "provider", "block"}
CallInv ==
  /\ \A j \in Jobs : dials[j] <= starts[j]
  /\ \A w \in Workers : dial[w] \in BeforeCall =>
       dials[worker[w].job] < starts[worker[w].job]

\* Handlers that saw the lead's consent, or the hour's count, and may still call.
PastConsent(l) ==
  {w \in Workers : dial[w] \in {"campaign", "wallet", "provider"} /\ LeadOf(w) = l}
PastCount == {w \in Workers : dial[w] \in {"wallet", "provider", "record"}}

ConsentInv == \A l \in Leads :
  /\ consent[l] = "granted" => lateDials[l] = 0
  /\ consent[l] = "withheld" =>
       lateDials[l] + Cardinality(PastConsent(l)) <= Cardinality(Workers)

HourInv == recent + Cardinality(PastCount) < MaxPerHour + Cardinality(Workers)

\* A disposition comes only from a recorded call.
OutcomeInv == \A l \in Leads :
  awaiting[l] > 0 \/ disp[l] # NoDisposition => lead[l].attempts > 0

Decided(l) == lead[l].attempts > 0 \/ lead[l].status = "blocked"

DecidedInv ==
  /\ \A j \in Jobs : job[j].status = "completed" => Decided(leadOf[j])
  /\ \A w \in Workers : worker[w].stage = "complete" => Decided(leadOf[worker[w].job])

IInv == /\ QP!IInv /\ DialTypeOK /\ RunInv /\ CallInv /\ ConsentInv /\ HourInv
        /\ OutcomeInv /\ InProgressIsAwaited /\ DecidedInv

------------------------------------------------------------------------------
(* The queue's steps under the two names they have here.                   *)

LEMMA SameSteps ==
  ASSUME NEW w
  PROVE  /\ Q!ClaimSelect(w) => QP!ClaimSelect(w)
         /\ Q!ClaimCommit(w) => QP!ClaimCommit(w)
         /\ Q!HandlerReturns(w) => QP!HandlerReturns(w)
         /\ Q!HandlerThrows(w) => QP!HandlerThrows(w)
         /\ Q!MarkCompleted(w) => QP!MarkCompleted(w)
         /\ Q!MarkFailedRead(w) => QP!MarkFailedRead(w)
         /\ Q!MarkFailedWrite(w) => QP!MarkFailedWrite(w)
         /\ Q!ClaimError(w) => QP!ClaimError(w)
         /\ Q!MarkCompletedError(w) => QP!MarkCompletedError(w)
         /\ Q!MarkFailedError(w) => QP!MarkFailedError(w)
         /\ Q!Crash(w) => QP!Crash(w)
         /\ Q!Restart(w) => QP!Restart(w)
<1>1. Q!ClaimSelect(w) => QP!ClaimSelect(w)
  BY DEF Q!ClaimSelect, QP!ClaimSelect, Q!Claimable, QP!Claimable
<1>2. Q!ClaimCommit(w) => QP!ClaimCommit(w)
  BY DEF Q!ClaimCommit, QP!ClaimCommit, Q!Claimed, QP!Claimed, Q!Goto, QP!Goto
<1>3. Q!HandlerReturns(w) => QP!HandlerReturns(w)
  BY DEF Q!HandlerReturns, QP!HandlerReturns, Q!Goto, QP!Goto
<1>4. Q!HandlerThrows(w) => QP!HandlerThrows(w)
  BY DEF Q!HandlerThrows, QP!HandlerThrows, Q!Goto, QP!Goto
<1>5. Q!EndTick(w) => QP!EndTick(w)
  BY DEF Q!EndTick, QP!EndTick, Q!IdleLoop, QP!IdleLoop
<1>6. Q!MarkCompleted(w) => QP!MarkCompleted(w)
  BY <1>5 DEF Q!MarkCompleted, QP!MarkCompleted
<1>7. Q!MarkFailedRead(w) => QP!MarkFailedRead(w)
  BY DEF Q!MarkFailedRead, QP!MarkFailedRead
<1>8. \A r, n : Q!Failed(r, n) = QP!Failed(r, n)
  BY DEF Q!Failed, QP!Failed
<1>9. Q!MarkFailedWrite(w) => QP!MarkFailedWrite(w)
  BY <1>5, <1>8 DEF Q!MarkFailedWrite, QP!MarkFailedWrite
<1>10. Q!ClaimError(w) => QP!ClaimError(w)
  BY <1>5 DEF Q!ClaimError, QP!ClaimError, Q!Fault, QP!Fault, Q!Claimed, QP!Claimed
<1>11. Q!MarkCompletedError(w) => QP!MarkCompletedError(w)
  BY DEF Q!MarkCompletedError, QP!MarkCompletedError, Q!Fault, QP!Fault, Q!Goto, QP!Goto
<1>12. Q!MarkFailedError(w) => QP!MarkFailedError(w)
  BY <1>5, <1>8 DEF Q!MarkFailedError, QP!MarkFailedError, Q!Fault, QP!Fault
<1>13. Q!Crash(w) => QP!Crash(w)
  BY DEF Q!Crash, QP!Crash, Q!Fault, QP!Fault, Q!IdleLoop, QP!IdleLoop
<1>14. Q!Restart(w) => QP!Restart(w)
  BY <1>5 DEF Q!Restart, QP!Restart
<1> QED BY <1>1, <1>2, <1>3, <1>4, <1>6, <1>7, <1>9, <1>10, <1>11, <1>12, <1>13, <1>14

LEMMA SameEnqueue ==
  ASSUME NEW j, NEW max, NEW due, Q!Enqueue(j, max, due)
  PROVE  QP!Enqueue(j, max, due)
BY DEF Q!Enqueue, QP!Enqueue, Q!AbsentRow, QP!AbsentRow

\* Every step of the dialer is a step of the queue or leaves it alone.
LEMMA QueueKept ==
  ASSUME QP!IInv, [Next]_vars
  PROVE  QP!IInv'
<1>1. CASE UNCHANGED queueVars
  <2>1. UNCHANGED QP!vars
    BY <1>1 DEF queueVars, QP!vars
  <2> QED BY <2>1, QueueAssumption, QP!NextInv
<1>2. ASSUME NEW l \in Leads, NEW j \in Jobs, NEW max \in Caps, EnqueueDue(l, j, max) PROVE QP!IInv'
  <2>1. QP!Enqueue(j, max, TRUE)
    BY <1>2, SameEnqueue DEF EnqueueDue
  <2> QED BY <2>1, QueueAssumption, QP!EnqueueInv
<1>3. ASSUME NEW w \in Workers, Handler(w), ~UNCHANGED queueVars PROVE QP!IInv'
  <2>1. \/ QP!ClaimSelect(w) \/ QP!ClaimCommit(w) \/ QP!HandlerReturns(w) \/ QP!HandlerThrows(w)
        \/ QP!MarkCompleted(w) \/ QP!MarkFailedRead(w) \/ QP!MarkFailedWrite(w)
        \/ QP!ClaimError(w) \/ QP!MarkCompletedError(w) \/ QP!MarkFailedError(w)
        \/ QP!Crash(w) \/ QP!Restart(w)
    BY <1>3, SameSteps
       DEF Handler, StartDial, LoadLead, CheckConsent, CheckCampaign, CheckWallet, Gate, PlaceCall,
           RecordCall, MarkBlocked, DialThrows, DialCrash, QueueStep
  <2>2. QP!Next
    BY <2>1 DEF QP!Next, QP!Step, QP!Failure
  <2> QED BY <2>2, QueueAssumption, QP!NextInv
<1>4. CASE World \/ ScanDue \/ ScanAborts \/ \E l \in Leads : Outcome(l)
  <2>1. UNCHANGED queueVars
    BY <1>4 DEF World, ScanDue, ScanAborts, Outcome, WithdrawConsent, LeadBecomesDue, ChangeCampaign,
                ChangeFunds, CallAges, ReadAttempts, WriteOutcome, LoseOutcome
  <2> QED BY <1>1, <2>1
<1>5. CASE UNCHANGED vars
  BY <1>1, <1>5 DEF vars
<1> QED BY <1>1, <1>2, <1>3, <1>4, <1>5 DEF Next, Scheduler

------------------------------------------------------------------------------
(* What the dialer needs to know of the queue.                             *)

LEMMA QueueView ==
  ASSUME QP!IInv
  PROVE  /\ job \in [Jobs -> QP!Row] /\ worker \in [Workers -> QP!Loop] /\ starts \in [Jobs -> Nat]
         /\ \A j \in Jobs : starts[j] <= job[j].max /\ starts[j] \in Nat /\ job[j].max \in Nat
         /\ \A w \in Workers : worker[w].stage \in {"claim", "run", "complete", "fail", "update"} =>
              worker[w].job \in Jobs /\ job[worker[w].job].status # "absent"
         /\ \A w \in Workers : worker[w].stage = "claim" => job[worker[w].job].status = "pending"
         /\ \A w \in Workers : worker[w].stage \in {"run", "complete"} =>
              job[worker[w].job].status # "pending"
         /\ \A v, w \in Workers :
              /\ worker[v].stage \in {"run", "complete"} /\ worker[w].stage \in {"run", "complete"}
              /\ worker[v].job = worker[w].job
              => v = w
<1>1. job \in [Jobs -> QP!Row] /\ worker \in [Workers -> QP!Loop] /\ starts \in [Jobs -> Nat]
  BY DEF QP!IInv, QP!TypeOK
<1>2. ASSUME NEW j \in Jobs
      PROVE  starts[j] <= job[j].max /\ starts[j] \in Nat /\ job[j].max \in Nat
  <2>1. /\ job[j].attempts \in Nat /\ job[j].max \in Nat /\ starts[j] \in Nat
        /\ job[j].status \in {"absent", "pending", "processing", "completed", "dead_letter"}
    BY <1>1 DEF QP!Row, QP!Statuses
  <2>2. CASE job[j].status = "absent"
    BY <2>1, <2>2 DEF QP!IInv, QP!RowInv
  <2>3. CASE job[j].status # "absent"
    BY <2>1, <2>3 DEF QP!IInv, QP!RowInv
  <2> QED BY <2>2, <2>3
<1>3. \A w \in Workers : worker[w].stage = "claim" =>
        worker[w].job \in Jobs /\ job[worker[w].job].status = "pending"
  BY DEF QP!IInv, QP!LoopInv
<1>4. \A w \in Workers : worker[w].stage \in {"run", "complete", "fail", "update"} =>
        /\ worker[w].job \in Jobs /\ job[worker[w].job].lockedBy = w
        /\ job[worker[w].job].status \in {"processing", "completed"}
  BY DEF QP!IInv, QP!LoopInv, QP!Holds
<1> QED BY <1>1, <1>2, <1>3, <1>4

\* A queue step outside the handler.
LEMMA QueueStepView ==
  ASSUME QP!IInv, NEW w \in Workers, QueueStep(w)
  PROVE  /\ UNCHANGED <<schedVars, leadVars, worldVars, dialVars, starts>>
         /\ worker[w].stage # "run" /\ worker'[w].stage \notin {"run", "complete"}
         /\ \A v \in Workers \ {w} : worker'[v] = worker[v]
         /\ \A j \in Jobs : /\ job'[j].status # "absent" => job[j].status # "absent"
                            /\ job'[j].status = "completed" =>
                                 \/ job[j].status = "completed"
                                 \/ worker[w].stage = "complete" /\ worker[w].job = j
<1>1. UNCHANGED <<schedVars, leadVars, worldVars, dialVars>>
  BY DEF QueueStep
<1>2. /\ job \in [Jobs -> QP!Row] /\ worker \in [Workers -> QP!Loop]
      /\ worker[w].stage \in {"claim", "run", "complete", "fail", "update"} =>
           worker[w].job \in Jobs /\ job[worker[w].job].status # "absent"
  BY QueueView
<1> USE <1>1, <1>2
<1>3. CASE Q!ClaimSelect(w)
  BY <1>3 DEF Q!ClaimSelect, QP!Loop
<1>4. CASE Q!MarkCompleted(w)
  BY <1>4 DEF Q!MarkCompleted, Q!EndTick, Q!IdleLoop, QP!Loop, QP!Row
<1>5. CASE Q!MarkFailedRead(w)
  BY <1>5 DEF Q!MarkFailedRead, QP!Loop
<1>6. \A r \in QP!Row, n \in Nat :
        Q!Failed(r, n).status \in {"dead_letter", "pending"}
  BY DEF Q!Failed, QP!Row
<1>7. CASE Q!MarkFailedWrite(w)
  <2>1. job[worker[w].job] \in QP!Row /\ worker[w].seen \in Nat /\ worker[w].job \in Jobs
    BY <1>7 DEF Q!MarkFailedWrite, QP!Loop
  <2>2. Q!Failed(job[worker[w].job], worker[w].seen).status \in {"dead_letter", "pending"}
    BY <1>6, <2>1
  <2> QED BY <1>7, <2>1, <2>2 DEF Q!MarkFailedWrite, Q!EndTick, Q!IdleLoop
<1>8. CASE Q!ClaimError(w)
  BY <1>8 DEF Q!ClaimError, Q!EndTick, Q!IdleLoop, QP!Loop, QP!Row, Q!Claimed
<1>9. CASE Q!MarkCompletedError(w)
  BY <1>9 DEF Q!MarkCompletedError, Q!Goto, QP!Loop, QP!Row
<1>10. CASE Q!MarkFailedError(w)
  <2>1. job[worker[w].job] \in QP!Row /\ worker[w].seen \in Nat /\ worker[w].job \in Jobs
    BY <1>10 DEF Q!MarkFailedError, QP!Loop
  <2>2. Q!Failed(job[worker[w].job], worker[w].seen).status \in {"dead_letter", "pending"}
    BY <1>6, <2>1
  <2> QED BY <1>10, <2>1, <2>2 DEF Q!MarkFailedError, Q!EndTick, Q!IdleLoop
<1>11. CASE Q!Restart(w)
  BY <1>11 DEF Q!Restart, Q!EndTick, Q!IdleLoop, QP!Loop
<1> QED BY <1>3, <1>4, <1>5, <1>7, <1>8, <1>9, <1>10, <1>11 DEF QueueStep

\* The handler ends: its transaction's rows aside, only w's loop moves.
LEMMA EndView ==
  ASSUME QP!IInv, NEW w \in Workers,
         Q!HandlerReturns(w) \/ Q!HandlerThrows(w) \/ Q!Crash(w)
  PROVE  /\ UNCHANGED <<job, starts>>
         /\ \A v \in Workers \ {w} : worker'[v] = worker[v]
         /\ worker'[w].stage # "run"
         /\ Q!HandlerReturns(w) => worker[w].stage = "run" /\ worker'[w].job = worker[w].job
         /\ worker'[w].stage = "complete" => Q!HandlerReturns(w)
<1>1. worker \in [Workers -> QP!Loop]
  BY QueueView
<1> QED BY <1>1 DEF Q!HandlerReturns, Q!HandlerThrows, Q!Crash, Q!Goto, Q!IdleLoop, QP!Loop

------------------------------------------------------------------------------
(* The handler's steps, by what they leave alone.                          *)

LEMMA HandlerView ==
  ASSUME IInv, NEW w \in Workers, dial[w] # "idle"
  PROVE  /\ worker[w].stage = "run" /\ worker[w].job \in Jobs
         /\ job[worker[w].job].status # "absent" /\ LeadOf(w) \in Leads
BY QueueView DEF IInv, RunInv, LeadOf

Gates(w) == LoadLead(w) \/ CheckConsent(w) \/ CheckCampaign(w) \/ CheckWallet(w)

LEMMA GatesView ==
  ASSUME NEW w, Gates(w)
  PROVE  /\ UNCHANGED <<queueVars, schedVars, leadVars, worldVars, recent, dials, lateDials>>
         /\ \E next \in DialStages :
              /\ dial' = [dial EXCEPT ![w] = next]
              /\ \/ dial[w] = "load" /\ next \in {"consent", "block"}
                 \/ dial[w] = "consent" /\ next = "block"
                 \/ dial[w] = "consent" /\ next = "campaign" /\ consent[LeadOf(w)] = "granted"
                 \/ dial[w] = "campaign" /\ next = "block"
                 \/ dial[w] = "campaign" /\ next = "wallet" /\ recent < MaxPerHour
                 \/ dial[w] = "wallet" /\ next \in {"provider", "block"}
BY DEF Gates, LoadLead, CheckConsent, CheckCampaign, CheckWallet, Gate, DialStages

\* Half-way ends of the handler.
Stops(w) == Abandon(w) /\ (Q!HandlerThrows(w) \/ Q!Crash(w))

LEMMA HandlerCases ==
  ASSUME NEW w, Handler(w)
  PROVE  \/ StartDial(w) \/ Gates(w) \/ PlaceCall(w) \/ RecordCall(w) \/ MarkBlocked(w)
         \/ Stops(w) \/ QueueStep(w)
         \/ /\ dial[w] = "idle" /\ Q!Crash(w)
            /\ UNCHANGED <<schedVars, leadVars, worldVars, dialVars>>
BY DEF Handler, Gates, Stops, DialThrows, DialCrash

LEMMA StartView ==
  ASSUME IInv, NEW w \in Workers, StartDial(w)
  PROVE  /\ UNCHANGED <<schedVars, leadVars, worldVars, recent, dials, lateDials>>
         /\ dial[w] = "idle" /\ dial' = [dial EXCEPT ![w] = "load"]
         /\ worker[w].job \in Jobs /\ worker'[w].job = worker[w].job /\ worker'[w].stage = "run"
         /\ \A v \in Workers \ {w} : worker'[v] = worker[v]
         /\ starts' = [starts EXCEPT ![worker[w].job] = @ + 1]
         /\ job[worker[w].job].status = "pending"
         /\ \A j \in Jobs : /\ job'[j].status # "absent" => job[j].status # "absent"
                            /\ job'[j].status = "completed" => job[j].status = "completed"
<1>1. Q!ClaimCommit(w) /\ UNCHANGED <<schedVars, leadVars, worldVars, recent, dials, lateDials>>
      /\ dial' = [dial EXCEPT ![w] = "load"]
  BY DEF StartDial
<1>2. worker[w].stage = "claim"
  BY <1>1 DEF Q!ClaimCommit
<1>3. /\ worker \in [Workers -> QP!Loop] /\ job \in [Jobs -> QP!Row] /\ worker[w].job \in Jobs
      /\ job[worker[w].job].status = "pending"
  BY <1>2, QueueView DEF IInv
<1>4. dial[w] = "idle"
  BY <1>2 DEF IInv, RunInv
<1>5. /\ worker'[w].job = worker[w].job /\ worker'[w].stage = "run"
      /\ \A v \in Workers \ {w} : worker'[v] = worker[v]
      /\ starts' = [starts EXCEPT ![worker[w].job] = @ + 1]
  BY <1>1, <1>3 DEF Q!ClaimCommit, Q!Goto, QP!Loop
<1>6. \A j \in Jobs : /\ job'[j].status # "absent" => job[j].status # "absent"
                      /\ job'[j].status = "completed" => job[j].status = "completed"
  BY <1>1, <1>3 DEF Q!ClaimCommit, Q!Claimed, QP!Row
<1> QED BY <1>1, <1>3, <1>4, <1>5, <1>6

LEMMA EnqueueView ==
  ASSUME IInv, NEW l \in Leads, NEW j \in Jobs, NEW max \in Caps, EnqueueDue(l, j, max)
  PROVE  /\ UNCHANGED <<leadVars, worldVars, dialVars, worker, starts>>
         /\ leadOf' = [leadOf EXCEPT ![j] = l] /\ batch' = batch \ {l}
         /\ job[j].status = "absent" /\ job'[j].status = "pending"
         /\ \A i \in Jobs \ {j} : job'[i] = job[i]
<1>1. Q!Enqueue(j, max, TRUE) /\ UNCHANGED <<leadVars, worldVars, dialVars>>
      /\ leadOf' = [leadOf EXCEPT ![j] = l] /\ batch' = batch \ {l}
  BY DEF EnqueueDue
<1>2. job \in [Jobs -> QP!Row]
  BY QueueView DEF IInv
<1> QED BY <1>1, <1>2 DEF Q!Enqueue, Q!AbsentRow

\* Steps that neither the queue nor a handler sees.
Elsewhere == ScanDue \/ ScanAborts \/ World \/ \E l \in Leads : Outcome(l)

LEMMA ElsewhereView ==
  ASSUME Elsewhere
  PROVE  UNCHANGED <<queueVars, leadOf, dial, dials, lateDials>>
<1>1. CASE ScanDue \/ ScanAborts
  BY <1>1 DEF ScanDue, ScanAborts, dialVars
<1>2. CASE World
  <2>1. ASSUME NEW l \in Leads, WithdrawConsent(l) \/ LeadBecomesDue(l)
        PROVE  UNCHANGED <<queueVars, leadOf, dial, dials, lateDials>>
    BY <2>1 DEF WithdrawConsent, LeadBecomesDue, dialVars, schedVars
  <2>2. ASSUME NEW status, ChangeCampaign(status)
        PROVE  UNCHANGED <<queueVars, leadOf, dial, dials, lateDials>>
    BY <2>2 DEF ChangeCampaign, dialVars, schedVars
  <2>3. CASE ChangeFunds \/ CallAges
    BY <2>3 DEF ChangeFunds, CallAges, dialVars, schedVars
  <2> QED BY <1>2, <2>1, <2>2, <2>3 DEF World
<1>3. ASSUME NEW l \in Leads, Outcome(l)
      PROVE  UNCHANGED <<queueVars, leadOf, dial, dials, lateDials>>
  BY <1>3 DEF Outcome, ReadAttempts, WriteOutcome, LoseOutcome, dialVars, schedVars
<1> QED BY <1>1, <1>2, <1>3 DEF Elsewhere

LEMMA NextCases ==
  ASSUME [Next]_vars
  PROVE  \/ Elsewhere \/ UNCHANGED vars
         \/ \E l \in Leads, j \in Jobs, max \in Caps : EnqueueDue(l, j, max)
         \/ \E w \in Workers : Handler(w)
BY DEF Next, Scheduler, Elsewhere

------------------------------------------------------------------------------
LEMMA RunKept ==
  ASSUME IInv, [Next]_vars
  PROVE  RunInv'
<1> USE DEF IInv, RunInv
<1>0. dial \in [Workers -> DialStages] /\ leadOf \in [Jobs -> Leads \union {NoLead}]
  BY DEF DialTypeOK
<1>1. CASE Elsewhere \/ UNCHANGED vars
  BY <1>1, ElsewhereView DEF queueVars, vars, schedVars, dialVars
<1>2. ASSUME NEW l \in Leads, NEW j \in Jobs, NEW max \in Caps, EnqueueDue(l, j, max) PROVE RunInv'
  BY <1>0, <1>2, EnqueueView DEF dialVars
<1>3. ASSUME NEW w \in Workers, Handler(w) PROVE RunInv'
  <2>1. CASE StartDial(w)
    BY <1>0, <2>1, StartView DEF schedVars
  <2>2. CASE Gates(w)
    BY <1>0, <2>2, GatesView DEF schedVars, queueVars
  <2>3. CASE PlaceCall(w)
    BY <1>0, <2>3 DEF PlaceCall, schedVars, queueVars
  <2>4. CASE RecordCall(w) \/ MarkBlocked(w) \/ Stops(w)
    <3>1. UNCHANGED leadOf /\ dial' = [dial EXCEPT ![w] = "idle"]
          /\ (Q!HandlerReturns(w) \/ Q!HandlerThrows(w) \/ Q!Crash(w))
      BY <2>4 DEF RecordCall, MarkBlocked, Stops, Abandon, schedVars
    <3> QED BY <1>0, <3>1, EndView
  <2>5. CASE QueueStep(w)
    BY <1>0, <2>5, QueueStepView DEF schedVars, dialVars
  <2>6. CASE dial[w] = "idle" /\ Q!Crash(w) /\ UNCHANGED <<schedVars, leadVars, worldVars, dialVars>>
    BY <1>0, <2>6, EndView DEF schedVars, dialVars
  <2> QED BY <1>3, <2>1, <2>2, <2>3, <2>4, <2>5, <2>6, HandlerCases
<1> QED BY <1>1, <1>2, <1>3, NextCases

\* A call placed, with the handler moved on to `next`.
LEMMA PlacedCalls ==
  ASSUME IInv, NEW w \in Workers, dial[w] = "provider", Placed(w), NEW next \in {"record", "idle"},
         dial' = [dial EXCEPT ![w] = next], UNCHANGED starts,
         \A v \in Workers \ {w} : worker'[v] = worker[v]
  PROVE  CallInv'
<1>1. PICK j \in Jobs : j = worker[w].job
  BY HandlerView
<1>2. /\ dials \in [Jobs -> Nat] /\ starts \in [Jobs -> Nat] /\ dial \in [Workers -> DialStages]
      /\ dials' = [dials EXCEPT ![j] = @ + 1] /\ dials[j] < starts[j]
  BY <1>1, QueueView DEF Placed, IInv, DialTypeOK, CallInv, BeforeCall
<1>3. \A v \in Workers \ {w} : dial[v] \in BeforeCall =>
        worker[v].job \in Jobs \ {j} /\ dials[worker[v].job] < starts[worker[v].job]
  BY <1>1, QueueView, HandlerView DEF IInv, RunInv, CallInv, BeforeCall
<1>4. \A v \in Workers : dial'[v] \in BeforeCall => v # w /\ dial[v] \in BeforeCall
  BY <1>2 DEF BeforeCall
<1> QED BY <1>2, <1>3, <1>4 DEF IInv, CallInv

LEMMA CallKept ==
  ASSUME IInv, [Next]_vars
  PROVE  CallInv'
<1>0. /\ dials \in [Jobs -> Nat] /\ starts \in [Jobs -> Nat] /\ dial \in [Workers -> DialStages]
      /\ CallInv /\ \A v \in Workers : dial[v] # "idle" => worker[v].job \in Jobs
  BY QueueView, HandlerView DEF IInv, DialTypeOK
<1>1. CASE Elsewhere \/ UNCHANGED vars
  BY <1>0, <1>1, ElsewhereView DEF queueVars, vars, schedVars, dialVars, CallInv
<1>2. ASSUME NEW l \in Leads, NEW j \in Jobs, NEW max \in Caps, EnqueueDue(l, j, max) PROVE CallInv'
  BY <1>0, <1>2, EnqueueView DEF dialVars, CallInv
<1>3. ASSUME NEW w \in Workers, Handler(w) PROVE CallInv'
  <2>1. CASE StartDial(w)
    <3>1. PICK j \in Jobs : j = worker[w].job /\ job[j].status = "pending"
      BY <2>1, StartView
    <3>2. \A v \in Workers \ {w} : dial[v] # "idle" => worker[v].job # j
      BY <3>1, QueueView DEF IInv, RunInv
    <3>3. /\ starts' = [starts EXCEPT ![j] = @ + 1] /\ UNCHANGED dials
          /\ dial' = [dial EXCEPT ![w] = "load"] /\ worker'[w].job = j
          /\ \A v \in Workers \ {w} : worker'[v] = worker[v]
      BY <2>1, <3>1, StartView
    <3>4. dials[j] <= starts[j] /\ dials[j] \in Nat /\ starts[j] \in Nat
      BY <1>0 DEF CallInv
    <3> QED BY <1>0, <3>2, <3>3, <3>4 DEF CallInv, BeforeCall
  <2>2. CASE Gates(w)
    BY <1>0, <2>2, GatesView DEF queueVars, CallInv, BeforeCall
  <2>3. CASE PlaceCall(w)
    BY <2>3, PlacedCalls DEF PlaceCall, queueVars
  <2>4. CASE Stops(w) /\ Placed(w) /\ dial[w] = "provider"
    BY <2>4, PlacedCalls, EndView DEF Stops, Abandon, IInv
  <2>5. CASE RecordCall(w) \/ MarkBlocked(w) \/ (Stops(w) /\ UNCHANGED dials)
    <3>1. UNCHANGED dials /\ dial' = [dial EXCEPT ![w] = "idle"]
          /\ (Q!HandlerReturns(w) \/ Q!HandlerThrows(w) \/ Q!Crash(w))
      BY <2>5 DEF RecordCall, MarkBlocked, Stops, Abandon
    <3>2. UNCHANGED starts /\ \A v \in Workers \ {w} : worker'[v] = worker[v]
      BY <3>1, EndView DEF IInv
    <3> QED BY <1>0, <3>1, <3>2 DEF CallInv, BeforeCall
  <2>6. CASE QueueStep(w)
    <3>1. dial[w] = "idle"
      BY <2>6, QueueStepView DEF IInv, RunInv
    <3> QED BY <1>0, <2>6, <3>1, QueueStepView DEF dialVars, CallInv, BeforeCall, IInv
  <2>7. CASE dial[w] = "idle" /\ Q!Crash(w) /\ UNCHANGED <<schedVars, leadVars, worldVars, dialVars>>
    BY <1>0, <2>7, EndView DEF dialVars, CallInv, BeforeCall, IInv
  <2> QED BY <1>3, <2>1, <2>2, <2>3, <2>4, <2>5, <2>6, <2>7, HandlerCases DEF Stops, Abandon
<1> QED BY <1>1, <1>2, <1>3, NextCases

------------------------------------------------------------------------------
(* The gates that take no lock.                                            *)

LEMMA WorkersFinite ==
  /\ Cardinality(Workers) \in Nat /\ Cardinality(Workers) > 0
  /\ \A S \in SUBSET Workers : IsFiniteSet(S) /\ Cardinality(S) \in Nat
                               /\ Cardinality(S) <= Cardinality(Workers)
  /\ \A S \in SUBSET Workers : \A T \in SUBSET S : Cardinality(T) <= Cardinality(S)
  /\ \A S \in SUBSET Workers : \A w \in S : Cardinality(S \ {w}) = Cardinality(S) - 1
<1>1. \A S \in SUBSET Workers : IsFiniteSet(S) /\ Cardinality(S) \in Nat
                                /\ Cardinality(S) <= Cardinality(Workers)
  BY WorkersAssumption, FS_Subset, FS_CardinalityType
<1>2. Cardinality(Workers) \in Nat /\ Cardinality(Workers) # 0
  BY WorkersAssumption, FS_CardinalityType, FS_EmptySet
<1>3. \A S \in SUBSET Workers : \A T \in SUBSET S : Cardinality(T) <= Cardinality(S)
  BY <1>1, FS_Subset
<1>4. \A S \in SUBSET Workers : \A w \in S : Cardinality(S \ {w}) = Cardinality(S) - 1
  BY <1>1, FS_RemoveElement
<1> QED BY <1>1, <1>2, <1>3, <1>4

LEMMA HourKept ==
  ASSUME IInv, [Next]_vars
  PROVE  HourInv'
<1>0. /\ recent \in Nat /\ MaxPerHour \in Nat /\ dial \in [Workers -> DialStages]
      /\ PastCount \in SUBSET Workers /\ Cardinality(Workers) \in Nat
      /\ Cardinality(PastCount) \in Nat /\ HourInv
  BY LimitsAssumption, WorkersFinite DEF IInv, DialTypeOK, PastCount
<1>1. ASSUME PastCount' \subseteq PastCount, recent' \in Nat, recent' <= recent PROVE HourInv'
  <2>1. Cardinality(PastCount') \in Nat /\ Cardinality(PastCount') <= Cardinality(PastCount)
    BY <1>0, <1>1, WorkersFinite
  <2> QED BY <1>0, <1>1, <2>1 DEF HourInv
<1>2. CASE Elsewhere \/ UNCHANGED vars
  <2>1. UNCHANGED dial
    BY <1>2, ElsewhereView DEF vars, dialVars
  <2>2. UNCHANGED recent \/ CallAges
    BY <1>2 DEF vars, dialVars, Elsewhere, World, ScanDue, ScanAborts, Outcome, WithdrawConsent,
                LeadBecomesDue, ChangeCampaign, ChangeFunds, ReadAttempts, WriteOutcome, LoseOutcome
  <2> QED BY <1>0, <1>1, <2>1, <2>2 DEF PastCount, CallAges
<1>3. ASSUME NEW l \in Leads, NEW j \in Jobs, NEW max \in Caps, EnqueueDue(l, j, max) PROVE HourInv'
  BY <1>0, <1>1, <1>3, EnqueueView DEF dialVars, PastCount
<1>4. ASSUME NEW w \in Workers, Handler(w) PROVE HourInv'
  <2>1. CASE StartDial(w)
    BY <1>0, <1>1, <2>1, StartView DEF PastCount
  <2>2. CASE Gates(w)
    <3>1. PICK next \in DialStages :
            /\ dial' = [dial EXCEPT ![w] = next] /\ recent' = recent
            /\ \/ dial[w] = "campaign" /\ next = "wallet" /\ recent < MaxPerHour
               \/ next \notin {"wallet", "provider", "record"} \/ dial[w] = "wallet"
      BY <2>2, GatesView
    <3>2. CASE recent < MaxPerHour
      <4>1. PastCount' \in SUBSET Workers
        BY DEF PastCount
      <4>2. Cardinality(PastCount') \in Nat /\ Cardinality(PastCount') <= Cardinality(Workers)
        BY <4>1, WorkersFinite
      <4> QED BY <1>0, <3>1, <3>2, <4>2 DEF HourInv
    <3>3. CASE ~(recent < MaxPerHour)
      BY <1>0, <1>1, <3>1, <3>3 DEF PastCount
    <3> QED BY <3>2, <3>3
  <2>3. CASE PlaceCall(w)
    BY <1>0, <1>1, <2>3 DEF PlaceCall, PastCount
  <2>4. CASE RecordCall(w)
    <3>1. recent' = recent + 1 /\ w \in PastCount /\ PastCount' = PastCount \ {w}
      BY <1>0, <2>4 DEF RecordCall, PastCount
    <3>2. Cardinality(PastCount') = Cardinality(PastCount) - 1
      BY <1>0, <3>1, WorkersFinite
    <3> QED BY <1>0, <3>1, <3>2 DEF HourInv
  <2>5. CASE MarkBlocked(w)
    BY <1>0, <1>1, <2>5 DEF MarkBlocked, PastCount
  <2>6. CASE Stops(w)
    BY <1>0, <1>1, <2>6 DEF Stops, Abandon, PastCount
  <2>7. CASE QueueStep(w) \/ UNCHANGED <<schedVars, leadVars, worldVars, dialVars>>
    BY <1>0, <1>1, <2>7 DEF QueueStep, dialVars, PastCount
  <2> QED BY <1>4, <2>1, <2>2, <2>3, <2>4, <2>5, <2>6, <2>7, HandlerCases
<1> QED BY <1>2, <1>3, <1>4, NextCases

\* A step that starts no new race and withdraws no consent.
LEMMA NoLaterCalls ==
  ASSUME IInv, UNCHANGED <<consent, lateDials>>,
         \A l \in Leads : consent[l] = "withheld" => PastConsent(l)' \subseteq PastConsent(l)
  PROVE  ConsentInv'
<1> SUFFICES ASSUME NEW l \in Leads, consent'[l] = "withheld"
             PROVE  lateDials'[l] + Cardinality(PastConsent(l)') <= Cardinality(Workers)
  BY DEF IInv, ConsentInv
<1>1. PastConsent(l)' \subseteq PastConsent(l) /\ PastConsent(l) \in SUBSET Workers
  BY DEF PastConsent
<1>2. Cardinality(PastConsent(l)') <= Cardinality(PastConsent(l))
      /\ Cardinality(PastConsent(l)') \in Nat /\ Cardinality(PastConsent(l)) \in Nat
      /\ Cardinality(Workers) \in Nat
  BY <1>1, WorkersFinite
<1>3. lateDials[l] \in Nat /\ lateDials[l] + Cardinality(PastConsent(l)) <= Cardinality(Workers)
  BY DEF IInv, ConsentInv, DialTypeOK
<1> QED BY <1>2, <1>3

\* A call placed is taken off the race it was in.
LEMMA PlacedLate ==
  ASSUME IInv, NEW w \in Workers, dial[w] = "provider", Placed(w), NEW next \in {"record", "idle"},
         dial' = [dial EXCEPT ![w] = next], UNCHANGED <<consent, leadOf>>,
         \A v \in Workers \ {w} : worker'[v] = worker[v]
  PROVE  ConsentInv'
<1>1. PICK l \in Leads : l = LeadOf(w)
  BY HandlerView
<1>2. /\ lateDials \in [Leads -> Nat] /\ dial \in [Workers -> DialStages]
      /\ \A c \in Leads : PastConsent(c) \in SUBSET Workers
  BY DEF IInv, DialTypeOK, PastConsent
<1>3. \A c \in Leads : PastConsent(c)' = PastConsent(c) \ {w}
  BY <1>2 DEF PastConsent, LeadOf
<1>4. w \in PastConsent(l)
  BY <1>1 DEF PastConsent
<1>5. CASE consent[l] = "granted"
  <2>1. UNCHANGED lateDials
    BY <1>1, <1>5 DEF Placed
  <2> QED BY <1>3, <2>1, NoLaterCalls
<1>6. CASE consent[l] # "granted"
  <2>1. lateDials' = [lateDials EXCEPT ![l] = @ + 1] /\ consent[l] = "withheld"
    BY <1>1, <1>6 DEF Placed, IInv, DialTypeOK
  <2>2. /\ lateDials'[l] = lateDials[l] + 1
        /\ Cardinality(PastConsent(l)') = Cardinality(PastConsent(l)) - 1
        /\ Cardinality(PastConsent(l)) \in Nat /\ Cardinality(Workers) \in Nat
        /\ lateDials[l] + Cardinality(PastConsent(l)) <= Cardinality(Workers)
    BY <1>2, <1>3, <1>4, <2>1, WorkersFinite DEF IInv, ConsentInv
  <2>3. ASSUME NEW c \in Leads, c # l
        PROVE  /\ lateDials'[c] = lateDials[c] /\ lateDials[c] \in Nat
               /\ Cardinality(PastConsent(c)') <= Cardinality(PastConsent(c))
               /\ Cardinality(PastConsent(c)') \in Nat /\ Cardinality(PastConsent(c)) \in Nat
    BY <1>2, <1>3, <2>1, <2>3, WorkersFinite
  <2>4. lateDials[l] \in Nat
    BY <1>2
  <2> HIDE DEF PastConsent
  <2> QED BY <2>1, <2>2, <2>3, <2>4 DEF IInv, ConsentInv
<1> QED BY <1>5, <1>6

LEMMA ConsentKept ==
  ASSUME IInv, [Next]_vars
  PROVE  ConsentInv'
<1>0. dial \in [Workers -> DialStages] /\ consent \in [Leads -> {"granted", "withheld"}]
      /\ lateDials \in [Leads -> Nat] /\ leadOf \in [Jobs -> Leads \union {NoLead}]
  BY DEF IInv, DialTypeOK
<1>1. CASE (Elsewhere /\ UNCHANGED consent) \/ UNCHANGED vars
  <2>1. UNCHANGED <<queueVars, leadOf, dial, lateDials, consent>>
    BY <1>1, ElsewhereView DEF vars, dialVars, schedVars, worldVars
  <2>2. \A l \in Leads : PastConsent(l)' = PastConsent(l)
    BY <2>1 DEF PastConsent, LeadOf, queueVars
  <2> QED BY <2>1, <2>2, NoLaterCalls
<1>2. ASSUME NEW l \in Leads, WithdrawConsent(l) PROVE ConsentInv'
  <2>1. /\ UNCHANGED lateDials /\ consent[l] = "granted"
        /\ \A c \in Leads \ {l} : consent'[c] = consent[c]
        /\ \A c \in Leads : PastConsent(c)' = PastConsent(c)
        /\ consent'[l] = "withheld"
    BY <1>0, <1>2 DEF WithdrawConsent, dialVars, queueVars, schedVars, PastConsent, LeadOf
  <2>2. lateDials[l] = 0 /\ Cardinality(PastConsent(l)) \in Nat
        /\ Cardinality(PastConsent(l)) <= Cardinality(Workers)
    BY <2>1, WorkersFinite DEF IInv, ConsentInv, PastConsent
  <2> HIDE DEF PastConsent
  <2> QED BY <2>1, <2>2 DEF IInv, ConsentInv
<1>3. Elsewhere => UNCHANGED consent \/ \E l \in Leads : WithdrawConsent(l)
  BY DEF Elsewhere, World, ScanDue, ScanAborts, Outcome, worldVars, LeadBecomesDue, ChangeCampaign,
         ChangeFunds, CallAges, ReadAttempts, WriteOutcome, LoseOutcome
<1>4. ASSUME NEW l \in Leads, NEW j \in Jobs, NEW max \in Caps, EnqueueDue(l, j, max) PROVE ConsentInv'
  <2>1. UNCHANGED <<dial, worker, consent, lateDials>> /\ leadOf' = [leadOf EXCEPT ![j] = l]
        /\ job[j].status = "absent"
    BY <1>4, EnqueueView DEF dialVars, worldVars
  <2>2. \A w \in Workers : dial[w] # "idle" => worker[w].job \in Jobs \ {j}
    BY <2>1, HandlerView
  <2>3. \A c \in Leads : PastConsent(c)' \subseteq PastConsent(c)
    BY <1>0, <2>1, <2>2 DEF PastConsent, LeadOf
  <2> QED BY <2>1, <2>3, NoLaterCalls
<1>5. ASSUME NEW w \in Workers, Handler(w) PROVE ConsentInv'
  <2>1. UNCHANGED <<consent, leadOf>>
    BY <1>5, HandlerCases, GatesView
       DEF StartDial, PlaceCall, RecordCall, MarkBlocked, Stops, Abandon, QueueStep, worldVars, schedVars
  <2>2. ASSUME UNCHANGED lateDials, \A v \in Workers \ {w} : dial'[v] = dial[v] /\ worker'[v] = worker[v],
               \/ dial'[w] \notin {"campaign", "wallet", "provider"}
               \/ /\ dial[w] \in {"campaign", "wallet", "provider"} \/ consent[LeadOf(w)] = "granted"
                  /\ worker'[w] = worker[w]
        PROVE  ConsentInv'
    <3>1. \A c \in Leads : consent[c] = "withheld" => PastConsent(c)' \subseteq PastConsent(c)
      BY <2>1, <2>2 DEF PastConsent, LeadOf
    <3> QED BY <2>1, <2>2, <3>1, NoLaterCalls
  <2>3. CASE StartDial(w)
    BY <1>0, <2>2, <2>3, StartView
  <2>4. CASE Gates(w)
    <3>1. PICK next \in DialStages :
            /\ dial' = [dial EXCEPT ![w] = next] /\ UNCHANGED <<lateDials, worker>>
            /\ \/ next \notin {"campaign", "wallet", "provider"}
               \/ next = "campaign" /\ consent[LeadOf(w)] = "granted"
               \/ dial[w] \in {"campaign", "wallet", "provider"}
      BY <2>4, GatesView DEF queueVars
    <3> QED BY <1>0, <2>2, <3>1
  <2>5. CASE PlaceCall(w)
    BY <2>1, <2>5, PlacedLate DEF PlaceCall, queueVars
  <2>6. CASE Stops(w) /\ Placed(w) /\ dial[w] = "provider"
    BY <2>1, <2>6, PlacedLate, EndView DEF Stops, Abandon, IInv
  <2>7. CASE RecordCall(w) \/ MarkBlocked(w) \/ (Stops(w) /\ UNCHANGED lateDials)
    <3>1. UNCHANGED lateDials /\ dial' = [dial EXCEPT ![w] = "idle"]
          /\ (Q!HandlerReturns(w) \/ Q!HandlerThrows(w) \/ Q!Crash(w))
      BY <2>7 DEF RecordCall, MarkBlocked, Stops, Abandon
    <3>2. \A v \in Workers \ {w} : worker'[v] = worker[v]
      BY <3>1, EndView DEF IInv
    <3> QED BY <1>0, <2>2, <3>1, <3>2
  <2>8. CASE QueueStep(w)
    <3>1. dial[w] = "idle"
      BY <2>8, QueueStepView DEF IInv, RunInv
    <3> QED BY <1>0, <2>2, <2>8, <3>1, QueueStepView DEF dialVars, IInv
  <2>9. CASE dial[w] = "idle" /\ Q!Crash(w) /\ UNCHANGED <<schedVars, leadVars, worldVars, dialVars>>
    BY <1>0, <2>2, <2>9, EndView DEF dialVars, IInv
  <2> QED BY <1>5, <2>3, <2>4, <2>5, <2>6, <2>7, <2>8, <2>9, HandlerCases DEF Stops, Abandon
<1> QED BY <1>1, <1>2, <1>3, <1>4, <1>5, NextCases

------------------------------------------------------------------------------
(* The campaign_leads rows.                                                *)

LEMMA RescheduledRow ==
  ASSUME NEW r \in LeadRow, NEW d \in Disposition, NEW due \in BOOLEAN
  PROVE  /\ Rescheduled(r, d, due) \in LeadRow
         /\ Rescheduled(r, d, due).attempts = r.attempts
         /\ Rescheduled(r, d, due).status \in {"exhausted", "completed", "pending"}
<1> DEFINE exhausted == [r EXCEPT !.status = "exhausted"]
           completed == [r EXCEPT !.status = "completed"]
           pending == [r EXCEPT !.status = "pending", !.due = due]
<1>1. /\ {exhausted, completed, pending} \subseteq LeadRow
      /\ exhausted.attempts = r.attempts /\ exhausted.status = "exhausted"
      /\ completed.attempts = r.attempts /\ completed.status = "completed"
      /\ pending.attempts = r.attempts /\ pending.status = "pending"
  BY DEF LeadRow, LeadStatuses
<1>2. Rescheduled(r, d, due) \in {exhausted, completed, pending}
  <2>1. d.seen \in Nat /\ MaxAttempts \in Nat
    BY LimitsAssumption DEF Disposition
  <2>2. CASE d.seen >= MaxAttempts
    BY <2>1, <2>2 DEF Rescheduled
  <2>3. CASE d.seen < MaxAttempts /\ d.terminal
    BY <2>1, <2>3 DEF Rescheduled
  <2>4. CASE d.seen < MaxAttempts /\ ~d.terminal
    BY <2>1, <2>4 DEF Rescheduled
  <2> QED BY <2>1, <2>2, <2>3, <2>4
<1> HIDE DEF exhausted, completed, pending
<1> QED BY <1>1, <1>2

\* Who changes a lead's row, its expected calls or its disposition, and how.
LeadStep ==
  \/ UNCHANGED <<lead, awaiting, disp, droppedDisp>>
  \/ \E l \in Leads : \E r \in LeadRow :
       /\ lead' = [lead EXCEPT ![l] = r]
       /\ \/ /\ UNCHANGED <<awaiting, disp, droppedDisp>>
             /\ r.attempts = lead[l].attempts /\ r.status \in {lead[l].status, "blocked"}
          \/ /\ r.attempts = lead[l].attempts + 1
             /\ awaiting' = [awaiting EXCEPT ![l] = @ + 1] /\ UNCHANGED <<disp, droppedDisp>>
          \/ /\ disp[l] # NoDisposition /\ r.attempts = lead[l].attempts
             /\ r.status \in {"exhausted", "completed", "pending"}
             /\ disp' = [disp EXCEPT ![l] = NoDisposition] /\ UNCHANGED <<awaiting, droppedDisp>>
  \/ \E l \in Leads : \E d \in Disposition :
       /\ awaiting[l] > 0 /\ awaiting' = [awaiting EXCEPT ![l] = @ - 1]
       /\ disp' = [disp EXCEPT ![l] = d] /\ UNCHANGED <<lead, droppedDisp>>
  \/ \E l \in Leads :
       /\ disp[l] # NoDisposition
       /\ disp' = [disp EXCEPT ![l] = NoDisposition]
       /\ droppedDisp' = droppedDisp \union {l} /\ UNCHANGED <<lead, awaiting>>

LEMMA LeadView ==
  ASSUME IInv, [Next]_vars
  PROVE  LeadStep
<1>0. /\ lead \in [Leads -> LeadRow] /\ \A l \in Leads : lead[l] \in LeadRow
      /\ disp \in [Leads -> Disposition \union {NoDisposition}]
  BY DEF IInv, DialTypeOK
<1>1. CASE UNCHANGED vars \/ ScanDue \/ ScanAborts
  BY <1>1 DEF vars, ScanDue, ScanAborts, leadVars, LeadStep
<1>2. ASSUME NEW l \in Leads, LeadBecomesDue(l) PROVE LeadStep
  <2> DEFINE r == [lead[l] EXCEPT !.due = TRUE]
  <2>1. r \in LeadRow /\ r.attempts = lead[l].attempts /\ r.status = lead[l].status
    BY <1>0 DEF LeadRow
  <2>2. lead' = [lead EXCEPT ![l] = r] /\ UNCHANGED <<awaiting, disp, droppedDisp>>
    BY <1>2 DEF LeadBecomesDue
  <2> HIDE DEF r
  <2> QED BY <2>1, <2>2 DEF LeadStep
<1>3. World => UNCHANGED leadVars \/ \E l \in Leads : LeadBecomesDue(l)
  BY DEF World, WithdrawConsent, ChangeCampaign, ChangeFunds, CallAges
<1>4. ASSUME NEW l \in Leads, Outcome(l) PROVE LeadStep
  <2>1. ASSUME NEW terminal \in BOOLEAN, ReadAttempts(l, terminal) PROVE LeadStep
    <3>1. [seen |-> lead[l].attempts, terminal |-> terminal] \in Disposition
      BY <1>0 DEF Disposition, LeadRow
    <3> QED BY <2>1, <3>1 DEF ReadAttempts, LeadStep
  <2>2. ASSUME NEW due \in BOOLEAN, WriteOutcome(l, due) PROVE LeadStep
    <3> DEFINE r == Rescheduled(lead[l], disp[l], due)
    <3>1. disp[l] \in Disposition /\ disp[l] # NoDisposition
      BY <1>0, <2>2 DEF WriteOutcome
    <3>2. r \in LeadRow /\ r.attempts = lead[l].attempts
          /\ r.status \in {"exhausted", "completed", "pending"}
      BY <1>0, <3>1, RescheduledRow
    <3>3. lead' = [lead EXCEPT ![l] = r] /\ disp' = [disp EXCEPT ![l] = NoDisposition]
          /\ UNCHANGED <<awaiting, droppedDisp>>
      BY <2>2 DEF WriteOutcome
    <3> HIDE DEF r
    <3> QED BY <3>1, <3>2, <3>3 DEF LeadStep
  <2>3. CASE LoseOutcome(l)
    BY <2>3 DEF LoseOutcome, LeadStep
  <2> QED BY <1>4, <2>1, <2>2, <2>3 DEF Outcome
<1>5. ASSUME NEW l \in Leads, NEW j \in Jobs, NEW max \in Caps, EnqueueDue(l, j, max) PROVE LeadStep
  BY <1>5 DEF EnqueueDue, leadVars, LeadStep
<1>6. ASSUME NEW w \in Workers, Handler(w) PROVE LeadStep
  <2>1. CASE RecordCall(w)
    <3>1. PICK l \in Leads : l = LeadOf(w)
      BY <2>1, HandlerView DEF RecordCall
    <3> DEFINE r == [lead[l] EXCEPT !.status = "in_progress", !.attempts = lead[l].attempts + 1]
    <3>a. lead[l].attempts + 1 \in Nat
      BY <1>0 DEF LeadRow
    <3>2. r \in LeadRow /\ r.attempts = lead[l].attempts + 1
      BY <1>0, <3>a DEF LeadRow, LeadStatuses
    <3>3. lead' = [lead EXCEPT ![l] = r] /\ awaiting' = [awaiting EXCEPT ![l] = @ + 1]
          /\ UNCHANGED <<disp, droppedDisp>>
      BY <1>0, <2>1, <3>1 DEF RecordCall
    <3> HIDE DEF r
    <3> QED BY <3>2, <3>3 DEF LeadStep
  <2>2. CASE MarkBlocked(w)
    <3>1. PICK l \in Leads : l = LeadOf(w)
      BY <2>2, HandlerView DEF MarkBlocked
    <3> DEFINE r == [lead[l] EXCEPT !.status = "blocked"]
    <3>2. r \in LeadRow /\ r.attempts = lead[l].attempts /\ r.status = "blocked"
      BY <1>0 DEF LeadRow, LeadStatuses
    <3>3. lead' = [lead EXCEPT ![l] = r] /\ UNCHANGED <<awaiting, disp, droppedDisp>>
      BY <2>2, <3>1 DEF MarkBlocked
    <3> HIDE DEF r
    <3> QED BY <3>2, <3>3 DEF LeadStep
  <2>3. CASE ~(RecordCall(w) \/ MarkBlocked(w))
    <3>1. UNCHANGED leadVars
      BY <1>6, <2>3, HandlerCases, GatesView DEF StartDial, PlaceCall, Stops, Abandon, QueueStep
    <3> QED BY <3>1 DEF leadVars, LeadStep
  <2> QED BY <2>1, <2>2, <2>3
<1> QED BY <1>1, <1>2, <1>3, <1>4, <1>5, <1>6, NextCases DEF Elsewhere, leadVars, LeadStep

LEMMA RowsKept ==
  ASSUME IInv, [Next]_vars
  PROVE  /\ OutcomeInv' /\ InProgressIsAwaited'
         /\ lead' \in [Leads -> LeadRow] /\ awaiting' \in [Leads -> Nat]
         /\ disp' \in [Leads -> Disposition \union {NoDisposition}] /\ droppedDisp' \subseteq Leads
         /\ \A l \in Leads : Decided(l) => Decided(l)'
<1>0. /\ lead \in [Leads -> LeadRow] /\ awaiting \in [Leads -> Nat]
      /\ disp \in [Leads -> Disposition \union {NoDisposition}] /\ droppedDisp \subseteq Leads
      /\ \A l \in Leads : lead[l].attempts \in Nat
      /\ OutcomeInv /\ InProgressIsAwaited /\ LeadStep
  BY LeadView DEF IInv, DialTypeOK, LeadRow
<1>1. CASE UNCHANGED <<lead, awaiting, disp, droppedDisp>>
  BY <1>0, <1>1 DEF OutcomeInv, InProgressIsAwaited, Decided
<1>2. ASSUME NEW l \in Leads, NEW r \in LeadRow, lead' = [lead EXCEPT ![l] = r],
             UNCHANGED <<awaiting, disp, droppedDisp>>,
             r.attempts = lead[l].attempts, r.status \in {lead[l].status, "blocked"}
      PROVE  OutcomeInv' /\ InProgressIsAwaited' /\ \A c \in Leads : Decided(c) => Decided(c)'
  BY <1>0, <1>2 DEF OutcomeInv, InProgressIsAwaited, Decided
<1>3. ASSUME NEW l \in Leads, NEW r \in LeadRow, lead' = [lead EXCEPT ![l] = r],
             r.attempts = lead[l].attempts + 1,
             awaiting' = [awaiting EXCEPT ![l] = @ + 1], UNCHANGED <<disp, droppedDisp>>
      PROVE  OutcomeInv' /\ InProgressIsAwaited' /\ \A c \in Leads : Decided(c) => Decided(c)'
  BY <1>0, <1>3 DEF OutcomeInv, InProgressIsAwaited, Decided
<1>4. ASSUME NEW l \in Leads, NEW r \in LeadRow, lead' = [lead EXCEPT ![l] = r],
             disp[l] # NoDisposition, r.attempts = lead[l].attempts,
             r.status \in {"exhausted", "completed", "pending"},
             disp' = [disp EXCEPT ![l] = NoDisposition], UNCHANGED <<awaiting, droppedDisp>>
      PROVE  OutcomeInv' /\ InProgressIsAwaited' /\ \A c \in Leads : Decided(c) => Decided(c)'
  BY <1>0, <1>4 DEF OutcomeInv, InProgressIsAwaited, Decided
<1>5. ASSUME NEW l \in Leads, NEW d \in Disposition, awaiting[l] > 0,
             awaiting' = [awaiting EXCEPT ![l] = @ - 1],
             disp' = [disp EXCEPT ![l] = d], UNCHANGED <<lead, droppedDisp>>
      PROVE  OutcomeInv' /\ InProgressIsAwaited' /\ \A c \in Leads : Decided(c) => Decided(c)'
  <2>1. d # NoDisposition
    BY NoDispositionAssumption DEF Disposition
  <2> QED BY <1>0, <1>5, <2>1 DEF OutcomeInv, InProgressIsAwaited, Decided
<1>6. ASSUME NEW l \in Leads, disp[l] # NoDisposition, disp' = [disp EXCEPT ![l] = NoDisposition],
             droppedDisp' = droppedDisp \union {l}, UNCHANGED <<lead, awaiting>>
      PROVE  OutcomeInv' /\ InProgressIsAwaited' /\ \A c \in Leads : Decided(c) => Decided(c)'
  BY <1>0, <1>6 DEF OutcomeInv, InProgressIsAwaited, Decided
<1>7. OutcomeInv' /\ InProgressIsAwaited' /\ \A c \in Leads : Decided(c) => Decided(c)'
  BY <1>0, <1>1, <1>2, <1>3, <1>4, <1>5, <1>6 DEF LeadStep
<1>8. lead' \in [Leads -> LeadRow]
  BY <1>0 DEF LeadStep
<1>9. /\ awaiting' \in [Leads -> Nat]
      /\ disp' \in [Leads -> Disposition \union {NoDisposition}] /\ droppedDisp' \subseteq Leads
  BY <1>0 DEF LeadStep
<1> QED BY <1>7, <1>8, <1>9

LEMMA DecidedKept ==
  ASSUME IInv, [Next]_vars
  PROVE  DecidedInv'
<1>0. /\ \A l \in Leads : Decided(l) => Decided(l)'
      /\ lead \in [Leads -> LeadRow] /\ leadOf \in [Jobs -> Leads \union {NoLead}]
      /\ DecidedInv
      /\ \A j \in Jobs : job[j].status = "completed" => leadOf[j] \in Leads
      /\ \A w \in Workers : worker[w].stage = "complete" =>
           worker[w].job \in Jobs /\ leadOf[worker[w].job] \in Leads
           /\ job[worker[w].job].status # "absent"
  BY RowsKept, QueueView DEF IInv, DialTypeOK, RunInv
<1>1. ASSUME UNCHANGED leadOf,
             \A j \in Jobs : job'[j].status = "completed" =>
               \/ job[j].status = "completed"
               \/ \E w \in Workers : worker[w].stage = "complete" /\ worker[w].job = j,
             \A w \in Workers : worker'[w].stage = "complete" =>
               \/ worker[w].stage = "complete" /\ worker'[w].job = worker[w].job
               \/ worker'[w].job \in Jobs /\ leadOf[worker'[w].job] \in Leads
                  /\ Decided(leadOf[worker[w].job])'
      PROVE  DecidedInv'
  <2>1. \A j \in Jobs : job'[j].status = "completed" => leadOf[j] \in Leads /\ Decided(leadOf[j])
    BY <1>0, <1>1 DEF DecidedInv
  <2>2. \A w \in Workers : worker[w].stage = "complete" => Decided(leadOf[worker[w].job])
    BY <1>0 DEF DecidedInv
  <2>3. \A j \in Jobs : job'[j].status = "completed" => Decided(leadOf[j])'
    BY <1>0, <1>1, <2>1 DEF Decided
  <2>4. \A w \in Workers : worker'[w].stage = "complete" => Decided(leadOf[worker[w].job])'
    <3> SUFFICES ASSUME NEW w \in Workers, worker'[w].stage = "complete"
                 PROVE  Decided(leadOf[worker[w].job])'
      OBVIOUS
    <3>1. CASE worker[w].stage = "complete" /\ worker'[w].job = worker[w].job
      <4>1. PICK l \in Leads : l = leadOf[worker[w].job] /\ l = leadOf'[worker'[w].job]
        BY <1>0, <1>1, <3>1
      <4>2. Decided(l)'
        BY <1>0, <2>2, <3>1, <4>1
      <4> QED BY <4>1, <4>2 DEF Decided
    <3> QED BY <1>1, <3>1
  <2> QED BY <2>3, <2>4 DEF DecidedInv
<1>2. CASE Elsewhere \/ UNCHANGED vars
  <2>1. UNCHANGED <<job, worker, leadOf>>
    BY <1>2, ElsewhereView DEF queueVars, vars, schedVars
  <2> QED BY <1>1, <2>1
<1>3. ASSUME NEW l \in Leads, NEW j \in Jobs, NEW max \in Caps, EnqueueDue(l, j, max) PROVE DecidedInv'
  <2>1. /\ leadOf' = [leadOf EXCEPT ![j] = l] /\ UNCHANGED <<worker, lead>>
        /\ job[j].status = "absent" /\ job'[j].status = "pending"
        /\ \A i \in Jobs \ {j} : job'[i] = job[i]
    BY <1>3, EnqueueView DEF leadVars
  <2>2. \A w \in Workers : worker[w].stage = "complete" => worker[w].job \in Jobs \ {j}
    BY <1>0, <2>1
  <2> QED BY <1>0, <2>1, <2>2 DEF DecidedInv, Decided
<1>4. ASSUME NEW w \in Workers, Handler(w) PROVE DecidedInv'
  <2>1. CASE StartDial(w)
    BY <1>0, <1>1, <2>1, StartView DEF schedVars
  <2>2. CASE Gates(w) \/ PlaceCall(w)
    <3>1. UNCHANGED <<job, worker, leadOf>>
      BY <2>2, GatesView DEF PlaceCall, queueVars, schedVars
    <3> QED BY <1>1, <3>1
  <2>3. CASE RecordCall(w) \/ MarkBlocked(w)
    <3>1. /\ UNCHANGED <<leadOf, job>> /\ worker'[w].job = worker[w].job
          /\ \A v \in Workers \ {w} : worker'[v] = worker[v]
          /\ LeadOf(w) \in Leads /\ worker[w].job \in Jobs
      BY <2>3, EndView, HandlerView DEF RecordCall, MarkBlocked, schedVars, IInv
    <3>2. lead'[LeadOf(w)].attempts > 0 \/ lead'[LeadOf(w)].status = "blocked"
      <4>1. lead[LeadOf(w)] \in LeadRow /\ lead[LeadOf(w)].attempts \in Nat
        BY <1>0, <3>1 DEF LeadRow
      <4> QED BY <1>0, <2>3, <3>1, <4>1 DEF RecordCall, MarkBlocked, LeadRow
    <3>3. Decided(leadOf[worker[w].job])'
      BY <3>1, <3>2 DEF Decided, LeadOf
    <3> QED BY <1>1, <3>1, <3>3 DEF LeadOf
  <2>4. CASE Stops(w) \/ (/\ dial[w] = "idle" /\ Q!Crash(w)
                          /\ UNCHANGED <<schedVars, leadVars, worldVars, dialVars>>)
    <3>1. UNCHANGED <<leadOf, job>> /\ worker'[w].stage # "complete"
          /\ \A v \in Workers \ {w} : worker'[v] = worker[v]
      <4>1. UNCHANGED leadOf /\ (Q!HandlerThrows(w) \/ Q!Crash(w))
        BY <2>4 DEF Stops, Abandon, schedVars
      <4>2. worker \in [Workers -> QP!Loop]
        BY QueueView DEF IInv
      <4>3. worker'[w].stage # "complete"
        BY <4>1, <4>2 DEF Q!HandlerThrows, Q!Crash, Q!Goto, Q!IdleLoop, QP!Loop
      <4> QED BY <4>1, <4>3, EndView DEF IInv
    <3> QED BY <1>1, <3>1
  <2>5. CASE QueueStep(w)
    BY <1>1, <2>5, QueueStepView DEF IInv, schedVars
  <2> QED BY <1>4, <2>1, <2>2, <2>3, <2>4, <2>5, HandlerCases
<1> QED BY <1>2, <1>3, <1>4, NextCases

LEMMA PlacedTypes ==
  ASSUME IInv, NEW w \in Workers, dial[w] # "idle", Placed(w)
  PROVE  dials' \in [Jobs -> Nat] /\ lateDials' \in [Leads -> Nat]
BY HandlerView DEF Placed, IInv, DialTypeOK

LEMMA TypesKept ==
  ASSUME IInv, [Next]_vars
  PROVE  DialTypeOK'
<1>0. /\ lead' \in [Leads -> LeadRow] /\ awaiting' \in [Leads -> Nat]
      /\ disp' \in [Leads -> Disposition \union {NoDisposition}] /\ droppedDisp' \subseteq Leads
  BY RowsKept
<1>1. /\ leadOf' \in [Jobs -> Leads \union {NoLead}] /\ batch' \subseteq Leads
  <2>1. DialTypeOK
    BY DEF IInv
  <2>2. CASE Elsewhere \/ UNCHANGED vars
    <3>1. UNCHANGED leadOf
      BY <2>2, ElsewhereView DEF vars, schedVars
    <3>2. batch' \subseteq Leads
      <4>1. ScanDue => batch' \subseteq Leads
        BY DEF ScanDue
      <4>2. ScanAborts \/ World \/ (\E l \in Leads : Outcome(l)) \/ UNCHANGED vars => batch' \subseteq batch
        BY DEF ScanAborts, World, Outcome, WithdrawConsent, LeadBecomesDue, ChangeCampaign,
               ChangeFunds, CallAges, ReadAttempts, WriteOutcome, LoseOutcome, schedVars, vars
      <4> QED BY <2>1, <2>2, <4>1, <4>2 DEF Elsewhere, DialTypeOK
    <3> QED BY <2>1, <3>1, <3>2 DEF DialTypeOK
  <2>3. ASSUME NEW l \in Leads, NEW j \in Jobs, NEW max \in Caps, EnqueueDue(l, j, max)
        PROVE  leadOf' \in [Jobs -> Leads \union {NoLead}] /\ batch' \subseteq Leads
    BY <2>1, <2>3, EnqueueView DEF DialTypeOK
  <2>4. ASSUME NEW w \in Workers, Handler(w) PROVE UNCHANGED schedVars
    BY <2>4, HandlerCases, GatesView
       DEF StartDial, PlaceCall, RecordCall, MarkBlocked, Stops, Abandon, QueueStep
  <2> QED BY <2>1, <2>2, <2>3, <2>4, NextCases DEF schedVars, DialTypeOK
<1>2. /\ dial' \in [Workers -> DialStages] /\ recent' \in Nat
      /\ dials' \in [Jobs -> Nat] /\ lateDials' \in [Leads -> Nat]
  <2>1. /\ dial \in [Workers -> DialStages] /\ recent \in Nat
        /\ dials \in [Jobs -> Nat] /\ lateDials \in [Leads -> Nat]
    BY DEF IInv, DialTypeOK
  <2>2. CASE UNCHANGED dialVars
    BY <2>1, <2>2 DEF dialVars
  <2>3. CASE CallAges
    BY <2>1, <2>3 DEF CallAges
  <2>4. ASSUME NEW w \in Workers, Handler(w)
        PROVE  /\ dial' \in [Workers -> DialStages] /\ recent' \in Nat
               /\ dials' \in [Jobs -> Nat] /\ lateDials' \in [Leads -> Nat]
    <3>1. CASE StartDial(w)
      BY <2>1, <3>1 DEF StartDial, DialStages
    <3>2. CASE Gates(w)
      BY <2>1, <3>2, GatesView
    <3>3. CASE PlaceCall(w)
      BY <2>1, <3>3, PlacedTypes DEF PlaceCall, DialStages
    <3>4. CASE RecordCall(w) \/ MarkBlocked(w)
      BY <2>1, <3>4 DEF RecordCall, MarkBlocked, DialStages
    <3>5. CASE Stops(w)
      BY <2>1, <3>5, PlacedTypes DEF Stops, Abandon, DialStages
    <3>6. CASE QueueStep(w) \/ UNCHANGED <<schedVars, leadVars, worldVars, dialVars>>
      BY <2>2, <3>6 DEF QueueStep
    <3> QED BY <2>4, <3>1, <3>2, <3>3, <3>4, <3>5, <3>6, HandlerCases
  <2>5. (Elsewhere /\ ~CallAges) \/ UNCHANGED vars => UNCHANGED dialVars
    BY DEF vars, Elsewhere, World, ScanDue, ScanAborts, Outcome, WithdrawConsent,
           LeadBecomesDue, ChangeCampaign, ChangeFunds, ReadAttempts, WriteOutcome, LoseOutcome
  <2>6. \A l \in Leads, j \in Jobs, max \in Caps : EnqueueDue(l, j, max) => UNCHANGED dialVars
    BY DEF EnqueueDue
  <2> QED BY <2>2, <2>3, <2>4, <2>5, <2>6, NextCases
<1>3. /\ consent' \in [Leads -> {"granted", "withheld"}] /\ campaign' \in {"open", "closed", "paused"}
      /\ funded' \in BOOLEAN /\ changes' \in 0..MaxChanges
  <2>1. /\ consent \in [Leads -> {"granted", "withheld"}] /\ campaign \in {"open", "closed", "paused"}
        /\ funded \in BOOLEAN /\ changes \in 0..MaxChanges /\ MaxChanges \in Nat
    BY LimitsAssumption DEF IInv, DialTypeOK
  <2>2. CASE UNCHANGED worldVars
    BY <2>1, <2>2 DEF worldVars
  <2>3. ASSUME NEW l \in Leads, WithdrawConsent(l)
        PROVE  /\ consent' \in [Leads -> {"granted", "withheld"}] /\ UNCHANGED <<campaign, funded>>
               /\ changes' \in 0..MaxChanges
    BY <2>1, <2>3 DEF WithdrawConsent, Change
  <2>4. ASSUME NEW status \in {"open", "closed", "paused"}, ChangeCampaign(status)
        PROVE  /\ campaign' \in {"open", "closed", "paused"} /\ UNCHANGED <<consent, funded>>
               /\ changes' \in 0..MaxChanges
    BY <2>1, <2>4 DEF ChangeCampaign, Change
  <2>5. ASSUME ChangeFunds
        PROVE  funded' \in BOOLEAN /\ UNCHANGED <<consent, campaign>> /\ changes' \in 0..MaxChanges
    BY <2>1, <2>5 DEF ChangeFunds, Change
  <2>6. ASSUME NEW w \in Workers, Handler(w) PROVE UNCHANGED worldVars
    BY <2>6, HandlerCases, GatesView
       DEF StartDial, PlaceCall, RecordCall, MarkBlocked, Stops, Abandon, QueueStep
  <2>7. \A l \in Leads, j \in Jobs, max \in Caps : EnqueueDue(l, j, max) => UNCHANGED worldVars
    BY DEF EnqueueDue
  <2>8. UNCHANGED vars \/ ScanDue \/ ScanAborts \/ CallAges
        \/ (\E l \in Leads : LeadBecomesDue(l) \/ Outcome(l)) => UNCHANGED worldVars
    BY DEF vars, ScanDue, ScanAborts, CallAges, LeadBecomesDue, Outcome, ReadAttempts, WriteOutcome,
           LoseOutcome
  <2> QED BY <2>1, <2>2, <2>3, <2>4, <2>5, <2>6, <2>7, <2>8, NextCases DEF Elsewhere, World
<1> QED BY <1>0, <1>1, <1>2, <1>3 DEF DialTypeOK

------------------------------------------------------------------------------
LEMMA Init_IInv == Init => IInv
<1> SUFFICES ASSUME Init PROVE IInv
  OBVIOUS
<1>1. QP!IInv
  <2>1. QP!Init
    BY DEF Init, Q!Init, QP!Init, Q!AbsentRow, QP!AbsentRow, Q!IdleLoop, QP!IdleLoop
  <2> QED BY <2>1, QueueAssumption, QP!InitInv
<1>2. DialTypeOK
  <2>1. PICK phone \in [Leads -> BOOLEAN] : lead = [l \in Leads |-> NewLead(phone[l])]
    BY DEF Init
  <2>2. \A l \in Leads : NewLead(phone[l]) \in LeadRow
    BY DEF NewLead, LeadRow, LeadStatuses
  <2>3. lead \in [Leads -> LeadRow]
    BY <2>1, <2>2
  <2> QED BY <2>3, LimitsAssumption DEF Init, DialTypeOK, DialStages
<1>3. \A l \in Leads : lead[l].status = "pending"
  BY DEF Init, NewLead
<1>4. \A w \in Workers : dial[w] = "idle" /\ worker[w].stage = "poll"
  BY DEF Init, Q!Init, Q!IdleLoop
<1>5. \A j \in Jobs : job[j].status = "absent"
  BY DEF Init, Q!Init, Q!AbsentRow
<1>6. RunInv /\ OutcomeInv /\ InProgressIsAwaited /\ DecidedInv
  BY <1>3, <1>4, <1>5 DEF Init, RunInv, OutcomeInv, InProgressIsAwaited, DecidedInv
<1>7. CallInv
  BY <1>4 DEF Init, Q!Init, CallInv, BeforeCall
<1>8. ConsentInv
  BY DEF Init, ConsentInv
<1>9. HourInv
  <2>1. PastCount = {}
    BY <1>4 DEF PastCount
  <2> QED BY <2>1, FS_EmptySet, WorkersFinite, LimitsAssumption DEF Init, HourInv
<1> QED BY <1>1, <1>2, <1>6, <1>7, <1>8, <1>9 DEF IInv

LEMMA Step_IInv == IInv /\ [Next]_vars => IInv'
<1> SUFFICES ASSUME IInv, [Next]_vars PROVE IInv'
  OBVIOUS
<1>1. QP!IInv'
  BY QueueKept DEF IInv
<1> QED BY <1>1, TypesKept, RunKept, CallKept, ConsentKept, HourKept, RowsKept, DecidedKept DEF IInv

\* The inductive invariant holds in every reachable state.
THEOREM DialerInvariantHolds == Spec => []IInv
BY Init_IInv, Step_IInv, PTL DEF Spec

\* dialer.ts: the rows, the handlers' stages and the histories keep their types.
THEOREM DialerTypeCorrect == Spec => []TypeOK
<1>1. QP!TypeOK => Q!TypeOK
  BY DEF QP!TypeOK, Q!TypeOK, QP!Row, Q!Row, QP!Statuses, Q!Statuses, QP!Loop, Q!Loop, QP!Stages, Q!Stages
<1>2. IInv => TypeOK
  BY <1>1 DEF IInv, QP!IInv, DialTypeOK, TypeOK
<1> QED BY <1>2, DialerInvariantHolds, PTL

\* processCampaignDialJob() places at most max_attempts calls for one job,
\* whatever is thrown, lost or killed between createCall and COMMIT.
THEOREM DialsAreCapped == Spec => []DialsPerJobCapped
<1>1. IInv => DialsPerJobCapped
  BY QueueView DEF IInv, DialTypeOK, CallInv, DialsPerJobCapped
<1> QED BY <1>1, DialerInvariantHolds, PTL

\* gate.ts: after consent is withdrawn a lead is called at most once for each
\* worker, by those whose check had already passed.
THEOREM LateCallsAreBounded == Spec => []OptOutOvershoot
<1>1. IInv => OptOutOvershoot
  <2> SUFFICES ASSUME IInv, NEW l \in Leads PROVE lateDials[l] <= Cardinality(Workers)
    BY DEF OptOutOvershoot
  <2>1. /\ lateDials[l] \in Nat /\ consent[l] \in {"granted", "withheld"}
        /\ Cardinality(PastConsent(l)) \in Nat /\ Cardinality(Workers) \in Nat
    BY WorkersFinite DEF IInv, DialTypeOK, PastConsent
  <2> QED BY <2>1 DEF IInv, ConsentInv
<1> QED BY <1>1, DialerInvariantHolds, PTL

\* gate.ts: the unlocked count of the last hour's calls is overshot by at most
\* one call for each worker but the first.
THEOREM HourIsBounded == Spec => []HourlyOvershoot
<1>1. IInv => HourlyOvershoot
  <2> SUFFICES ASSUME IInv PROVE recent < MaxPerHour + Cardinality(Workers)
    BY DEF HourlyOvershoot
  <2>1. Cardinality(PastCount) \in Nat /\ Cardinality(Workers) \in Nat /\ recent \in Nat /\ MaxPerHour \in Nat
    BY WorkersFinite, LimitsAssumption DEF IInv, DialTypeOK, PastCount
  <2> QED BY <2>1 DEF IInv, HourInv
<1> QED BY <1>1, DialerInvariantHolds, PTL

\* A job_queue row says 'completed' only of a lead that was called and
\* recorded, or blocked.
THEOREM CompletedJobsDecided == Spec => []CompletedMeansDecided
<1>1. IInv => CompletedMeansDecided
  BY DEF IInv, DecidedInv, Decided, CompletedMeansDecided
<1> QED BY <1>1, DialerInvariantHolds, PTL

\* A campaign_leads row 'in_progress' has a call whose disposition is to come,
\* or one whose processing failed.
THEOREM NoLeadWaitsInVain == Spec => []InProgressIsAwaited
<1>1. IInv => InProgressIsAwaited
  BY DEF IInv
<1> QED BY <1>1, DialerInvariantHolds, PTL
==============================================================================
