------------------------------ MODULE JobQueue -------------------------------
(***************************************************************************)
(* apps/web/lib/queue/pg-queue.ts: the Postgres job queue.  Rows of        *)
(* job_queue, the poll loop of every worker process, the statements it     *)
(* sends, and what happens when a statement fails or a process dies.       *)
(*                                                                         *)
(* One queue_name is modelled (the statements never touch another's rows). *)
(* Which of several due rows is claimed first (ORDER BY run_at) is left    *)
(* open: every order is explored.                                          *)
(***************************************************************************)
EXTENDS Naturals, FiniteSets

CONSTANTS Jobs,       \* ids of rows that may be inserted
          Workers,    \* worker loops (startWorker), each a process of its own
          NoWorker,   \* locked_by IS NULL, and: no transaction locks the row
          NoJob,      \* a worker holding no job
          Caps,       \* values of max_attempts that callers enqueue with
          MaxFaults   \* bound on failing statements and process crashes

ASSUME NoWorkerAssumption == NoWorker \notin Workers
ASSUME NoJobAssumption == NoJob \notin Jobs
ASSUME CapsAssumption == Caps \subseteq Nat \ {0}
ASSUME MaxFaultsAssumption == MaxFaults \in Nat

VARIABLES job,      \* the job_queue table
          rowLock,  \* row locks of open claim transactions (FOR UPDATE)
          worker,   \* the poll loop of each worker
          starts,   \* history: handler invocations of each job
          faults    \* statements failed and processes crashed so far

vars == <<job, rowLock, worker, starts, faults>>

------------------------------------------------------------------------------
Statuses == {"absent", "pending", "processing", "completed", "dead_letter"}

Row == [status : Statuses, due : BOOLEAN, attempts : Nat, max : Nat,
        lockedBy : Workers \union {NoWorker}]

\* Where a worker loop stands between two awaits:
\*   poll      the timer is armed, or the last tick just ended
\*   claim     claimNext has selected a row and not yet committed
\*   run       the handler runs
\*   complete  the handler returned, markCompleted is next
\*   fail      the catch block: markFailed's SELECT is next
\*   update    markFailed has read attempts, its UPDATE is next
\*   down      the process is dead
Stages == {"poll", "claim", "run", "complete", "fail", "update", "down"}

Loop == [stage : Stages, job : Jobs \union {NoJob}, seen : Nat, stopped : BOOLEAN]

TypeOK ==
  /\ job \in [Jobs -> Row]
  /\ rowLock \in [Jobs -> Workers \union {NoWorker}]
  /\ worker \in [Workers -> Loop]
  /\ starts \in [Jobs -> Nat]
  /\ faults \in 0..MaxFaults

\* The worker has claimed its job and has not yet let go of it.
Holds(w) == worker[w].stage \in {"run", "complete", "fail", "update"}

AbsentRow == [status |-> "absent", due |-> FALSE, attempts |-> 0, max |-> 0,
              lockedBy |-> NoWorker]

IdleLoop == [stage |-> "poll", job |-> NoJob, seen |-> 0, stopped |-> FALSE]

Init ==
  /\ job = [j \in Jobs |-> AbsentRow]
  /\ rowLock = [j \in Jobs |-> NoWorker]
  /\ worker = [w \in Workers |-> IdleLoop]
  /\ starts = [j \in Jobs |-> 0]
  /\ faults = 0

------------------------------------------------------------------------------
(* Callers.                                                                *)

\* enqueue(): now, or for a later run_at.
Enqueue(j, max, due) ==
  /\ job[j].status = "absent"
  /\ job' = [job EXCEPT ![j] = [AbsentRow EXCEPT !.status = "pending",
                                                 !.due = due, !.max = max]]
  /\ UNCHANGED <<rowLock, worker, starts, faults>>

\* run_at <= now() becomes true.
BecomeDue(j) ==
  /\ job[j].status = "pending"
  /\ ~job[j].due
  /\ job' = [job EXCEPT ![j].due = TRUE]
  /\ UNCHANGED <<rowLock, worker, starts, faults>>

------------------------------------------------------------------------------
(* The worker loop.                                                        *)

Goto(w, stage) == worker' = [worker EXCEPT ![w].stage = stage]

\* The end of a tick, by return or through the loop's own catch.
EndTick(w) ==
  worker' = [worker EXCEPT ![w] = [IdleLoop EXCEPT !.stopped = worker[w].stopped]]

\* Mutant: the SELECT without FOR UPDATE SKIP LOCKED.
ClaimableLocked(j) == job[j].status = "pending" /\ job[j].due

\* Mutant: the SELECT without status = 'pending', only skipping rows in work.
ClaimableAgain(j) == /\ job[j].status \notin {"absent", "processing"}
                     /\ job[j].due
                     /\ rowLock[j] = NoWorker

Claimable(j) == job[j].status = "pending" /\ job[j].due /\ rowLock[j] = NoWorker

\* claimNext(): BEGIN; SELECT ... FOR UPDATE SKIP LOCKED LIMIT 1.
ClaimSelect(w) == \E j \in Jobs :
  /\ worker[w].stage = "poll"
  /\ ~worker[w].stopped
  /\ Claimable(j)
  /\ rowLock' = [rowLock EXCEPT ![j] = w]
  /\ worker' = [worker EXCEPT ![w].stage = "claim", ![w].job = j]
  /\ UNCHANGED <<job, starts, faults>>

Claimed(row, w) == [row EXCEPT !.status = "processing", !.lockedBy = w]

\* claimNext(): the UPDATE and COMMIT; startWorker then invokes the handler.
ClaimCommit(w) == LET j == worker[w].job IN
  /\ worker[w].stage = "claim"
  /\ job' = [job EXCEPT ![j] = Claimed(@, w)]
  /\ rowLock' = [rowLock EXCEPT ![j] = NoWorker]
  /\ Goto(w, "run")
  /\ starts' = [starts EXCEPT ![j] = @ + 1]
  /\ UNCHANGED faults

HandlerReturns(w) ==
  /\ worker[w].stage = "run"
  /\ Goto(w, "complete")
  /\ UNCHANGED <<job, rowLock, starts, faults>>

\* Mutant: no catch around the handler; the tick ends with the job in hand.
HandlerThrowsUncaught(w) ==
  /\ worker[w].stage = "run"
  /\ EndTick(w)
  /\ UNCHANGED <<job, rowLock, starts, faults>>

HandlerThrows(w) ==
  /\ worker[w].stage = "run"
  /\ Goto(w, "fail")
  /\ UNCHANGED <<job, rowLock, starts, faults>>

\* markCompleted(): an unconditional UPDATE by id.
MarkCompleted(w) == LET j == worker[w].job IN
  /\ worker[w].stage = "complete"
  /\ job' = [job EXCEPT ![j].status = "completed"]
  /\ EndTick(w)
  /\ UNCHANGED <<rowLock, starts, faults>>

\* markFailed(): SELECT attempts, max_attempts.
MarkFailedRead(w) == LET j == worker[w].job IN
  /\ worker[w].stage = "fail"
  /\ worker' = [worker EXCEPT ![w].stage = "update", ![w].seen = job[j].attempts]
  /\ UNCHANGED <<job, rowLock, starts, faults>>

\* Mutants of the row's update: the cap compared with the old count, ...
FailedOffByOne(row, seen) ==
  IF seen + 1 > row.max
    THEN [row EXCEPT !.status = "dead_letter", !.attempts = seen + 1]
    ELSE [row EXCEPT !.status = "pending", !.attempts = seen + 1,
                     !.due = TRUE, !.lockedBy = NoWorker]

\* ... a retry that gives up one attempt early.
FailedEarly(row, seen) ==
  IF seen + 2 >= row.max
    THEN [row EXCEPT !.status = "dead_letter", !.attempts = seen + 1]
    ELSE [row EXCEPT !.status = "pending", !.attempts = seen + 1,
                     !.due = TRUE, !.lockedBy = NoWorker]

\* The row as markFailed's UPDATE leaves it; retryDelayMs is 0 in startWorker.
Failed(row, seen) ==
  IF seen + 1 >= row.max
    THEN [row EXCEPT !.status = "dead_letter", !.attempts = seen + 1]
    ELSE [row EXCEPT !.status = "pending", !.attempts = seen + 1,
                     !.due = TRUE, !.lockedBy = NoWorker]

\* markFailed(): the UPDATE, again by id alone.
MarkFailedWrite(w) == LET j == worker[w].job IN
  /\ worker[w].stage = "update"
  /\ job' = [job EXCEPT ![j] = Failed(@, worker[w].seen)]
  /\ EndTick(w)
  /\ UNCHANGED <<rowLock, starts, faults>>

------------------------------------------------------------------------------
(* Failures.  A statement that reports an error has been rolled back or,   *)
(* when only its answer was lost, applied: each case is a disjunct.        *)

Fault == faults < MaxFaults /\ faults' = faults + 1

\* claimNext() throws: startWorker's outer catch swallows it.
ClaimError(w) == LET j == worker[w].job IN
  /\ Fault
  /\ worker[w].stage = "claim"
  /\ job' \in {job, [job EXCEPT ![j] = Claimed(@, w)]}
  /\ rowLock' = [rowLock EXCEPT ![j] = NoWorker]
  /\ EndTick(w)
  /\ UNCHANGED starts

\* markCompleted() throws: the same catch as the handler's, so markFailed runs.
MarkCompletedError(w) == LET j == worker[w].job IN
  /\ Fault
  /\ worker[w].stage = "complete"
  /\ job' \in {job, [job EXCEPT ![j].status = "completed"]}
  /\ Goto(w, "fail")
  /\ UNCHANGED <<rowLock, starts>>

\* markFailed() throws, from its SELECT or its UPDATE: the outer catch
\* swallows it and the loop goes on without the job.
MarkFailedError(w) == LET j == worker[w].job IN
  /\ Fault
  /\ \/ worker[w].stage = "fail" /\ UNCHANGED job
     \/ /\ worker[w].stage = "update"
        /\ job' \in {job, [job EXCEPT ![j] = Failed(@, worker[w].seen)]}
  /\ EndTick(w)
  /\ UNCHANGED <<rowLock, starts>>

\* The process dies; the database rolls its open transaction back.
Crash(w) ==
  /\ Fault
  /\ worker[w].stage # "down"
  /\ worker' = [worker EXCEPT ![w] = [IdleLoop EXCEPT !.stage = "down"]]
  /\ rowLock' = [j \in Jobs |-> IF rowLock[j] = w THEN NoWorker ELSE rowLock[j]]
  /\ UNCHANGED <<job, starts>>

\* A new process takes the dead one's place.
Restart(w) ==
  /\ worker[w].stage = "down"
  /\ EndTick(w)
  /\ UNCHANGED <<job, rowLock, starts, faults>>

\* stop(): honoured between ticks; the tick under way runs to its end.
Stop(w) ==
  /\ worker[w].stage # "down"
  /\ ~worker[w].stopped
  /\ worker' = [worker EXCEPT ![w].stopped = TRUE]
  /\ UNCHANGED <<job, rowLock, starts, faults>>

------------------------------------------------------------------------------
Caller == \E j \in Jobs :
  BecomeDue(j) \/ \E max \in Caps, due \in BOOLEAN : Enqueue(j, max, due)

\* The worker's own code, when nothing fails.
Step(w) ==
  \/ ClaimSelect(w) \/ ClaimCommit(w)
  \/ HandlerReturns(w) \/ HandlerThrows(w)
  \/ MarkCompleted(w) \/ MarkFailedRead(w) \/ MarkFailedWrite(w)

Failure(w) ==
  ClaimError(w) \/ MarkCompletedError(w) \/ MarkFailedError(w) \/ Crash(w)

Next == Caller \/ \E w \in Workers : Step(w) \/ Failure(w) \/ Restart(w) \/ Stop(w)

Spec == Init /\ [][Next]_vars

\* A live loop keeps taking its steps, a crashed process is started again and
\* time passes.  Callers, faults and stop() are not fair.
FairSpec ==
  /\ Spec
  /\ \A w \in Workers : WF_vars(Step(w)) /\ WF_vars(Restart(w))
  /\ \A j \in Jobs : WF_vars(BecomeDue(j))

------------------------------------------------------------------------------
(* Properties.                                                             *)

\* pg-queue.ts promises that "multiple worker processes can safely claim
\* distinct jobs concurrently": two workers never hold the same job, and a
\* held job is never offered to a third (its row is not pending and names its
\* holder), whatever failed in between.
ExclusiveClaim == \A w \in Workers : Holds(w) =>
  /\ job[worker[w].job].status # "pending"
  /\ job[worker[w].job].lockedBy = w
  /\ \A v \in Workers \ {w} : Holds(v) => worker[v].job # worker[w].job

\* markFailed's comment calls max_attempts "the hard attempt cap ... enforced
\* at the queue layer": across retries, crashes, restarts and lost answers no
\* handler is invoked more than max_attempts times for one job.
HardAttemptCap == \A j \in Jobs : starts[j] <= job[j].max

Settled(j) == job[j].status \in {"completed", "dead_letter"}

\* The worker that cannot know whether its markCompleted was applied.
InDoubt(j) == \E w \in Workers :
  worker[w].job = j /\ worker[w].stage = "update"

\* A dead-lettered row never changes again; a completed one only through
\* markFailed of the one worker whose markCompleted was applied while its
\* answer was lost (the UPDATEs of pg-queue.ts do not look at status).
SettledRowsStay == [][\A j \in Jobs :
  Settled(j) /\ job'[j] # job[j] => job[j].status = "completed" /\ InDoubt(j)]_vars

\* No loop owns the row any more and no statement of pg-queue.ts will ever
\* select it: claimNext asks for status 'pending'.
Orphaned(j) == job[j].status = "processing"
  /\ ~\E w \in Workers : Holds(w) /\ worker[w].job = j

\* Every enqueued job ends completed or dead-lettered, unless a fault left its
\* row in 'processing' with no owner or every worker was told to stop.
EveryJobSettles == \A j \in Jobs :
  job[j].status = "pending" ~> \/ Settled(j)
                               \/ Orphaned(j) /\ faults > 0
                               \/ \A w \in Workers : worker[w].stopped

\* Migration 011 calls this "a working, persistent, crash-safe queue": a job
\* taken by a worker would eventually leave 'processing' even when the worker
\* dies, since its successor is started again and polls for ever (no worker
\* being told to stop).
CrashSafe == \A j \in Jobs :
  job[j].status = "processing" ~> \/ job[j].status # "processing"
                                  \/ \E w \in Workers : worker[w].stopped

PhaseOf(status) ==
  CASE status = "absent" -> "absent"
    [] status = "pending" -> "waiting"
    [] status = "processing" -> "running"
    [] status = "completed" -> "done"
    [] OTHER -> "dead"

Contract == INSTANCE JobContract WITH
  phase <- [j \in Jobs |-> PhaseOf(job[j].status)],
  runs <- starts,
  cap <- [j \in Jobs |-> job[j].max]

\* The queue keeps the contract of the JobQueue interface (types.ts): with
\* workers, transactions and faults hidden, its rows move only as JobContract
\* allows; above all, a job is dead only after exactly max_attempts runs.
KeepsContract == Contract!CSpec
==============================================================================
