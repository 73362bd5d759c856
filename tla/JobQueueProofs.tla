--------------------------- MODULE JobQueueProofs ----------------------------
(***************************************************************************)
(* Theorems about JobQueue, for every set of jobs and workers, every set   *)
(* of attempt caps and every number of faults.                             *)
(***************************************************************************)
EXTENDS JobQueue, TLAPS

\* What a row says about the handler invocations it has seen.
RowInv == \A j \in Jobs :
  /\ job[j].status = "absent" => job[j] = AbsentRow /\ starts[j] = 0
  /\ job[j].status # "absent" => job[j].max > 0
  /\ job[j].status \in {"pending", "processing", "completed"}
       => job[j].attempts < job[j].max
  /\ job[j].status = "pending" => starts[j] = job[j].attempts
  /\ job[j].status = "processing"
       => starts[j] \in {job[j].attempts, job[j].attempts + 1}
  /\ job[j].status = "completed" => starts[j] = job[j].attempts + 1
  /\ job[j].status = "dead_letter"
       => starts[j] = job[j].attempts /\ job[j].attempts = job[j].max

\* A row lock belongs to the open claim transaction that took it.
LockInv == \A j \in Jobs : rowLock[j] # NoWorker =>
  worker[rowLock[j]].stage = "claim" /\ worker[rowLock[j]].job = j

\* What a loop's program counter says about the row in its hand.
LoopInv == \A w \in Workers :
  LET j == worker[w].job IN
  /\ worker[w].stage = "claim" =>
       /\ j \in Jobs
       /\ job[j].status = "pending"
       /\ rowLock[j] = w
  /\ Holds(w) =>
       /\ j \in Jobs
       /\ job[j].lockedBy = w
       /\ starts[j] = job[j].attempts + 1
       /\ \/ job[j].status = "processing"
          \/ job[j].status = "completed" /\ worker[w].stage \in {"fail", "update"}
  /\ worker[w].stage = "update" => worker[w].seen = job[j].attempts

IInv == TypeOK /\ RowInv /\ LockInv /\ LoopInv

------------------------------------------------------------------------------
\* The rows the statements write, field by field.
LEMMA ClaimedRow ==
  ASSUME NEW r \in Row, NEW w \in Workers
  PROVE  /\ Claimed(r, w) \in Row
         /\ Claimed(r, w).status = "processing"
         /\ Claimed(r, w).lockedBy = w
         /\ Claimed(r, w).attempts = r.attempts
         /\ Claimed(r, w).max = r.max
  BY DEF Claimed, Row, Statuses

LEMMA FailedRow ==
  ASSUME NEW r \in Row, NEW seen \in Nat
  PROVE  /\ Failed(r, seen) \in Row
         /\ Failed(r, seen).attempts = seen + 1
         /\ Failed(r, seen).max = r.max
         /\ seen + 1 >= r.max => Failed(r, seen).status = "dead_letter"
         /\ seen + 1 < r.max => /\ Failed(r, seen).status = "pending"
                                /\ Failed(r, seen).lockedBy = NoWorker
<1>0. r.max \in Nat /\ seen + 1 \in Nat
  BY DEF Row
<1>1. CASE seen + 1 >= r.max
  <2> DEFINE d == [r EXCEPT !.status = "dead_letter", !.attempts = seen + 1]
  <2>1. Failed(r, seen) = d
    BY <1>1 DEF Failed
  <2>2. /\ d \in Row
        /\ d.attempts = seen + 1
        /\ d.max = r.max
        /\ d.status = "dead_letter"
    BY <1>0 DEF Row, Statuses
  <2> QED BY <1>0, <1>1, <2>1, <2>2
<1>2. CASE ~(seen + 1 >= r.max)
  <2> DEFINE p == [r EXCEPT !.status = "pending", !.attempts = seen + 1,
                            !.due = TRUE, !.lockedBy = NoWorker]
  <2>1. Failed(r, seen) = p
    BY <1>2 DEF Failed
  <2>2. /\ p \in Row
        /\ p.attempts = seen + 1
        /\ p.max = r.max
        /\ p.status = "pending"
        /\ p.lockedBy = NoWorker
    BY <1>0 DEF Row, Statuses
  <2> HIDE DEF p
  <2> QED BY <1>0, <1>2, <2>1, <2>2
<1> QED BY <1>1, <1>2

\* Replacing one row leaves the table a table and the other rows alone.
LEMMA RowUpdate ==
  ASSUME NEW j \in Jobs, NEW r \in Row, TypeOK, job' = [job EXCEPT ![j] = r]
  PROVE  /\ job' \in [Jobs -> Row]
         /\ job'[j] = r
         /\ \A i \in Jobs \ {j} : job'[i] = job[i]
  BY DEF TypeOK

LEMMA LoopUpdate ==
  ASSUME NEW l \in Loop, NEW s \in Stages, NEW j \in Jobs
  PROVE  [l EXCEPT !.stage = s, !.job = j] \in Loop
  BY DEF Loop

LEMMA InitInv == Init => IInv
  BY NoWorkerAssumption, NoJobAssumption, MaxFaultsAssumption
     DEF Init, IInv, TypeOK, RowInv, LockInv, LoopInv, Holds, AbsentRow, IdleLoop,
         Row, Loop, Statuses, Stages

LEMMA EnqueueInv ==
  ASSUME NEW j \in Jobs, NEW max \in Caps, NEW due \in BOOLEAN, IInv, Enqueue(j, max, due)
  PROVE  IInv'
<1> USE NoWorkerAssumption, NoJobAssumption, CapsAssumption, MaxFaultsAssumption
    DEF IInv, Enqueue
<1>1. job' \in [Jobs -> Row]
  BY DEF TypeOK, Row, Statuses, LoopInv, Holds, AbsentRow
<1>2. worker' \in [Workers -> Loop]
  BY DEF TypeOK, Loop, Stages, Row, LoopInv, Holds
<1>3. TypeOK'
  BY <1>1, <1>2 DEF TypeOK, LoopInv, Holds
<1>4. RowInv'
  BY DEF TypeOK, Row, RowInv, LoopInv, AbsentRow, Holds
<1>5. LockInv'
  BY DEF TypeOK, Loop, LockInv, LoopInv, Holds
<1>6. LoopInv'
  BY DEF TypeOK, Row, Loop, RowInv, LockInv, LoopInv, Holds
<1> QED BY <1>3, <1>4, <1>5, <1>6

LEMMA BecomeDueInv ==
  ASSUME NEW j \in Jobs, IInv, BecomeDue(j)
  PROVE  IInv'
<1> USE NoWorkerAssumption, NoJobAssumption, CapsAssumption, MaxFaultsAssumption
    DEF IInv, BecomeDue
<1> DEFINE r == [job[j] EXCEPT !.due = TRUE]
<1>a. /\ r \in Row
      /\ r.status = "pending"
      /\ r.attempts = job[j].attempts
      /\ r.max = job[j].max
      /\ r.lockedBy = job[j].lockedBy
  BY DEF TypeOK, Row
<1>b. job' = [job EXCEPT ![j] = r]
  OBVIOUS
<1> HIDE DEF r
<1>c. job'[j] = r /\ \A i \in Jobs \ {j} : job'[i] = job[i]
  BY <1>a, <1>b, RowUpdate
<1>1. job' \in [Jobs -> Row]
  BY <1>a, <1>b, RowUpdate
<1>2. worker' \in [Workers -> Loop]
  BY DEF TypeOK, Loop, Stages, Row, LoopInv, Holds
<1>3. TypeOK'
  BY <1>1, <1>2 DEF TypeOK, LoopInv, Holds
<1>4. RowInv'
  BY <1>a, <1>c DEF TypeOK, RowInv
<1>5. LockInv'
  BY DEF TypeOK, Loop, LockInv, LoopInv, Holds
<1>6. LoopInv'
  BY <1>a, <1>c DEF TypeOK, LoopInv, Holds
<1> QED BY <1>3, <1>4, <1>5, <1>6

LEMMA ClaimSelectInv ==
  ASSUME NEW w \in Workers, IInv, ClaimSelect(w)
  PROVE  IInv'
<1> USE NoWorkerAssumption, NoJobAssumption, CapsAssumption, MaxFaultsAssumption
    DEF IInv, ClaimSelect, Claimable
<1>a. PICK j \in Jobs :
        /\ Claimable(j)
        /\ rowLock' = [rowLock EXCEPT ![j] = w]
        /\ worker' = [worker EXCEPT ![w].stage = "claim", ![w].job = j]
  OBVIOUS
<1>b. [worker[w] EXCEPT !.stage = "claim", !.job = j] \in Loop
  <2>1. worker[w] \in Loop /\ "claim" \in Stages
    BY DEF TypeOK, Stages
  <2> QED BY <2>1, <1>a, LoopUpdate
<1>1. job' \in [Jobs -> Row]
  BY DEF TypeOK, Row, Statuses, LoopInv, Holds, AbsentRow
<1>2. worker' \in [Workers -> Loop]
  BY <1>a, <1>b DEF TypeOK
<1>3. TypeOK'
  BY <1>1, <1>2 DEF TypeOK, LoopInv, Holds
<1>4. RowInv'
  BY DEF TypeOK, Row, RowInv, LoopInv, AbsentRow, Holds
<1>5. LockInv'
  BY DEF TypeOK, Loop, LockInv, LoopInv, Holds
<1>6. LoopInv'
  BY DEF TypeOK, Row, Loop, RowInv, LockInv, LoopInv, Holds
<1> QED BY <1>3, <1>4, <1>5, <1>6

LEMMA ClaimCommitInv ==
  ASSUME NEW w \in Workers, IInv, ClaimCommit(w)
  PROVE  IInv'
<1> USE NoWorkerAssumption, NoJobAssumption, CapsAssumption, MaxFaultsAssumption
    DEF IInv, ClaimCommit, Goto
<1> DEFINE j == worker[w].job
           r == Claimed(job[j], w)
<1>a. j \in Jobs /\ job[j].status = "pending"
  BY DEF LoopInv
<1>b. /\ r \in Row
      /\ r.status = "processing"
      /\ r.lockedBy = w
      /\ r.attempts = job[j].attempts
      /\ r.max = job[j].max
  BY <1>a, ClaimedRow DEF TypeOK
<1>c. /\ job' \in [Jobs -> Row]
      /\ job'[j] = r
      /\ \A i \in Jobs \ {j} : job'[i] = job[i]
  BY <1>a, <1>b, RowUpdate
<1> HIDE DEF r
<1>1. job' \in [Jobs -> Row]
  BY <1>c
<1>2. worker' \in [Workers -> Loop]
  BY DEF TypeOK, Loop, Stages, Row, LoopInv, Holds
<1>3. TypeOK'
  BY <1>1, <1>2, <1>a DEF TypeOK
<1>4. RowInv'
  BY <1>a, <1>b, <1>c DEF TypeOK, Row, RowInv
<1>5. LockInv'
  BY DEF TypeOK, Loop, LockInv, LoopInv, Holds
<1>6. LoopInv'
  BY <1>a, <1>b, <1>c DEF TypeOK, Loop, RowInv, LockInv, LoopInv, Holds
<1> QED BY <1>3, <1>4, <1>5, <1>6

LEMMA HandlerReturnsInv ==
  ASSUME NEW w \in Workers, IInv, HandlerReturns(w)
  PROVE  IInv'
<1> USE NoWorkerAssumption, NoJobAssumption, CapsAssumption, MaxFaultsAssumption
    DEF IInv, HandlerReturns, Goto
<1>1. job' \in [Jobs -> Row]
  BY DEF TypeOK, Row, Statuses, LoopInv, Holds, AbsentRow
<1>2. worker' \in [Workers -> Loop]
  BY DEF TypeOK, Loop, Stages, Row, LoopInv, Holds
<1>3. TypeOK'
  BY <1>1, <1>2 DEF TypeOK, LoopInv, Holds
<1>4. RowInv'
  BY DEF TypeOK, Row, RowInv, LoopInv, AbsentRow, Holds
<1>5. LockInv'
  BY DEF TypeOK, Loop, LockInv, LoopInv, Holds
<1>6. LoopInv'
  BY DEF TypeOK, Row, Loop, RowInv, LockInv, LoopInv, Holds
<1> QED BY <1>3, <1>4, <1>5, <1>6

LEMMA HandlerThrowsInv ==
  ASSUME NEW w \in Workers, IInv, HandlerThrows(w)
  PROVE  IInv'
<1> USE NoWorkerAssumption, NoJobAssumption, CapsAssumption, MaxFaultsAssumption
    DEF IInv, HandlerThrows, Goto
<1>1. job' \in [Jobs -> Row]
  BY DEF TypeOK, Row, Statuses, LoopInv, Holds, AbsentRow
<1>2. worker' \in [Workers -> Loop]
  BY DEF TypeOK, Loop, Stages, Row, LoopInv, Holds
<1>3. TypeOK'
  BY <1>1, <1>2 DEF TypeOK, LoopInv, Holds
<1>4. RowInv'
  BY DEF TypeOK, Row, RowInv, LoopInv, AbsentRow, Holds
<1>5. LockInv'
  BY DEF TypeOK, Loop, LockInv, LoopInv, Holds
<1>6. LoopInv'
  BY DEF TypeOK, Row, Loop, RowInv, LockInv, LoopInv, Holds
<1> QED BY <1>3, <1>4, <1>5, <1>6

LEMMA MarkCompletedInv ==
  ASSUME NEW w \in Workers, IInv, MarkCompleted(w)
  PROVE  IInv'
<1> USE NoWorkerAssumption, NoJobAssumption, CapsAssumption, MaxFaultsAssumption
    DEF IInv, MarkCompleted, EndTick, IdleLoop
<1>1. job' \in [Jobs -> Row]
  BY DEF TypeOK, Row, Statuses, LoopInv, Holds, AbsentRow
<1>2. worker' \in [Workers -> Loop]
  BY DEF TypeOK, Loop, Stages, Row, LoopInv, Holds
<1>3. TypeOK'
  BY <1>1, <1>2 DEF TypeOK, LoopInv, Holds
<1>4. RowInv'
  BY DEF TypeOK, Row, RowInv, LoopInv, AbsentRow, Holds
<1>5. LockInv'
  BY DEF TypeOK, Loop, LockInv, LoopInv, Holds
<1>6. LoopInv'
  BY DEF TypeOK, Row, Loop, RowInv, LockInv, LoopInv, Holds
<1> QED BY <1>3, <1>4, <1>5, <1>6

LEMMA MarkFailedReadInv ==
  ASSUME NEW w \in Workers, IInv, MarkFailedRead(w)
  PROVE  IInv'
<1> USE NoWorkerAssumption, NoJobAssumption, CapsAssumption, MaxFaultsAssumption
    DEF IInv, MarkFailedRead
<1>a. worker[w].job \in Jobs /\ job[worker[w].job].attempts \in Nat
  BY DEF LoopInv, Holds, TypeOK, Row
<1>1. job' \in [Jobs -> Row]
  BY DEF TypeOK, Row, Statuses, LoopInv, Holds, AbsentRow
<1>2. worker' \in [Workers -> Loop]
  BY <1>a DEF TypeOK, Loop, Stages
<1>3. TypeOK'
  BY <1>1, <1>2 DEF TypeOK, LoopInv, Holds
<1>4. RowInv'
  BY DEF TypeOK, Row, RowInv, LoopInv, AbsentRow, Holds
<1>5. LockInv'
  BY DEF TypeOK, Loop, LockInv, LoopInv, Holds
<1>6. LoopInv'
  BY DEF TypeOK, Row, Loop, RowInv, LockInv, LoopInv, Holds
<1> QED BY <1>3, <1>4, <1>5, <1>6

LEMMA MarkFailedWriteInv ==
  ASSUME NEW w \in Workers, IInv, MarkFailedWrite(w)
  PROVE  IInv'
<1> USE NoWorkerAssumption, NoJobAssumption, CapsAssumption, MaxFaultsAssumption
    DEF IInv, MarkFailedWrite, EndTick, IdleLoop
<1> DEFINE j == worker[w].job
           seen == worker[w].seen
           r == Failed(job[j], seen)
<1>a. /\ j \in Jobs
      /\ seen = job[j].attempts /\ seen \in Nat
      /\ job[j].max \in Nat /\ seen + 1 <= job[j].max
      /\ starts[j] = seen + 1
      /\ job[j].status \in {"processing", "completed"}
      /\ job[j].lockedBy = w
  BY DEF LoopInv, Holds, RowInv, TypeOK, Row, Loop
<1>b. /\ r \in Row
      /\ r.attempts = seen + 1
      /\ r.max = job[j].max
      /\ seen + 1 >= job[j].max => r.status = "dead_letter"
      /\ seen + 1 < job[j].max => r.status = "pending" /\ r.lockedBy = NoWorker
  BY <1>a, FailedRow DEF TypeOK
<1>c. /\ job' \in [Jobs -> Row]
      /\ job'[j] = r
      /\ \A i \in Jobs \ {j} : job'[i] = job[i]
  BY <1>a, <1>b, RowUpdate
<1> HIDE DEF r
<1>1. job' \in [Jobs -> Row]
  BY <1>c
<1>2. worker' \in [Workers -> Loop]
  BY DEF TypeOK, Loop, Stages
<1>3. TypeOK'
  BY <1>1, <1>2 DEF TypeOK
<1>4. RowInv'
  BY <1>a, <1>b, <1>c DEF TypeOK, RowInv
<1>5. LockInv'
  BY DEF TypeOK, Loop, LockInv, LoopInv, Holds
<1>6. LoopInv'
  BY <1>a, <1>b, <1>c DEF TypeOK, LoopInv, Holds
<1> QED BY <1>3, <1>4, <1>5, <1>6

LEMMA ClaimErrorInv ==
  ASSUME NEW w \in Workers, IInv, ClaimError(w)
  PROVE  IInv'
<1> USE NoWorkerAssumption, NoJobAssumption, CapsAssumption, MaxFaultsAssumption
    DEF IInv, ClaimError, Fault, EndTick, IdleLoop
<1> DEFINE j == worker[w].job
           r == Claimed(job[j], w)
<1>a. j \in Jobs /\ job[j].status = "pending"
  BY DEF LoopInv
<1>b. /\ r \in Row
      /\ r.status = "processing"
      /\ r.lockedBy = w
      /\ r.attempts = job[j].attempts
      /\ r.max = job[j].max
  BY <1>a, ClaimedRow DEF TypeOK
<1>c. /\ job' \in [Jobs -> Row]
      /\ job'[j] \in {job[j], r}
      /\ \A i \in Jobs \ {j} : job'[i] = job[i]
  <2>1. CASE job' = job
    BY <2>1 DEF TypeOK
  <2>2. CASE job' = [job EXCEPT ![j] = r]
    BY <2>2, <1>a, <1>b, RowUpdate
  <2> QED BY <2>1, <2>2
<1>d. /\ worker'[w].stage = "poll"
      /\ \A v \in Workers \ {w} : worker'[v] = worker[v]
      /\ rowLock'[j] = NoWorker
      /\ \A i \in Jobs \ {j} : rowLock'[i] = rowLock[i]
  BY <1>a DEF TypeOK
<1> HIDE DEF r
<1>1. job' \in [Jobs -> Row]
  BY <1>c
<1>2. worker' \in [Workers -> Loop]
  BY DEF TypeOK, Loop, Stages
<1>3. TypeOK'
  <2>1. rowLock' \in [Jobs -> Workers \union {NoWorker}] /\ starts' \in [Jobs -> Nat]
    BY <1>a DEF TypeOK
  <2>2. faults' \in 0..MaxFaults
    BY DEF TypeOK
  <2> QED BY <1>1, <1>2, <2>1, <2>2 DEF TypeOK
<1>4. RowInv'
  BY <1>a, <1>b, <1>c DEF TypeOK, Row, RowInv
<1>5. LockInv'
  BY DEF TypeOK, Loop, LockInv, LoopInv, Holds
<1>6. LoopInv'
  BY <1>a, <1>b, <1>c, <1>d DEF TypeOK, RowInv, LoopInv, Holds
<1> QED BY <1>3, <1>4, <1>5, <1>6

LEMMA MarkCompletedErrorInv ==
  ASSUME NEW w \in Workers, IInv, MarkCompletedError(w)
  PROVE  IInv'
<1> USE NoWorkerAssumption, NoJobAssumption, CapsAssumption, MaxFaultsAssumption
    DEF IInv, MarkCompletedError, Fault, Goto
<1> DEFINE j == worker[w].job
           r == [job[j] EXCEPT !.status = "completed"]
<1>a. /\ j \in Jobs
      /\ job[j].status = "processing"
      /\ job[j].lockedBy = w
      /\ starts[j] = job[j].attempts + 1
  BY DEF LoopInv, Holds
<1>b. /\ r \in Row
      /\ r.status = "completed"
      /\ r.attempts = job[j].attempts
      /\ r.max = job[j].max
      /\ r.lockedBy = w
  BY <1>a DEF TypeOK, Row, Statuses
<1>c. /\ job' \in [Jobs -> Row]
      /\ job'[j] \in {job[j], r}
      /\ \A i \in Jobs \ {j} : job'[i] = job[i]
  <2>1. CASE job' = job
    BY <2>1 DEF TypeOK
  <2>2. CASE job' = [job EXCEPT ![j] = r]
    BY <2>2, <1>a, <1>b, RowUpdate
  <2> QED BY <2>1, <2>2
<1>d. /\ worker'[w].stage = "fail" /\ worker'[w].job = j
      /\ \A v \in Workers \ {w} : worker'[v] = worker[v]
  BY DEF TypeOK, Loop
<1> HIDE DEF r
<1>1. job' \in [Jobs -> Row]
  BY <1>c
<1>2. worker' \in [Workers -> Loop]
  BY DEF TypeOK, Loop, Stages, Row, LoopInv, Holds
<1>3. TypeOK'
  BY <1>1, <1>2 DEF TypeOK
<1>4. RowInv'
  BY <1>a, <1>b, <1>c DEF RowInv
<1>5. LockInv'
  BY DEF TypeOK, Loop, LockInv, LoopInv, Holds
<1>6. LoopInv'
  BY <1>a, <1>b, <1>c, <1>d DEF TypeOK, LoopInv, Holds
<1> QED BY <1>3, <1>4, <1>5, <1>6

LEMMA MarkFailedErrorInv ==
  ASSUME NEW w \in Workers, IInv, MarkFailedError(w)
  PROVE  IInv'
<1> USE NoWorkerAssumption, NoJobAssumption, CapsAssumption, MaxFaultsAssumption
    DEF IInv, MarkFailedError, Fault, EndTick, IdleLoop
<1>a. CASE job' = job
  <2>1. TypeOK'
    BY <1>a DEF TypeOK, Loop, Stages
  <2>2. RowInv'
    BY <1>a DEF RowInv
  <2>3. LockInv'
    BY <1>a DEF TypeOK, Loop, LockInv
  <2>4. LoopInv'
    BY <1>a DEF TypeOK, LoopInv, Holds
  <2> QED BY <2>1, <2>2, <2>3, <2>4
<1>b. CASE job' # job
  \* The applied UPDATE is MarkFailedWrite, but for the count of faults.
  <2> DEFINE j == worker[w].job
             seen == worker[w].seen
             r == Failed(job[j], seen)
  <2>a. /\ j \in Jobs
        /\ seen = job[j].attempts /\ seen \in Nat
        /\ job[j].max \in Nat /\ seen + 1 <= job[j].max
        /\ starts[j] = seen + 1
        /\ job[j].status \in {"processing", "completed"}
        /\ job[j].lockedBy = w
    BY <1>b DEF LoopInv, Holds, RowInv, TypeOK, Row, Loop
  <2>b. /\ r \in Row
        /\ r.attempts = seen + 1
        /\ r.max = job[j].max
        /\ seen + 1 >= job[j].max => r.status = "dead_letter"
        /\ seen + 1 < job[j].max => r.status = "pending" /\ r.lockedBy = NoWorker
    BY <2>a, FailedRow DEF TypeOK
  <2>c. /\ job' \in [Jobs -> Row]
        /\ job'[j] = r
        /\ \A i \in Jobs \ {j} : job'[i] = job[i]
    BY <1>b, <2>a, <2>b, RowUpdate
  <2> HIDE DEF r
  <2>1. job' \in [Jobs -> Row]
    BY <2>c
  <2>2. worker' \in [Workers -> Loop]
    BY DEF TypeOK, Loop, Stages
  <2>3. TypeOK'
    BY <2>1, <2>2 DEF TypeOK
  <2>4. RowInv'
    BY <2>a, <2>b, <2>c DEF TypeOK, RowInv
  <2>5. LockInv'
    BY DEF TypeOK, Loop, LockInv, LoopInv, Holds
  <2>6. LoopInv'
    BY <2>a, <2>b, <2>c DEF TypeOK, LoopInv, Holds
  <2> QED BY <2>3, <2>4, <2>5, <2>6
<1> QED BY <1>a, <1>b

LEMMA CrashInv ==
  ASSUME NEW w \in Workers, IInv, Crash(w)
  PROVE  IInv'
<1> USE NoWorkerAssumption, NoJobAssumption, CapsAssumption, MaxFaultsAssumption
    DEF IInv, Crash, Fault, IdleLoop
<1>1. job' \in [Jobs -> Row]
  BY DEF TypeOK, Row, Statuses, LoopInv, Holds, AbsentRow
<1>2. worker' \in [Workers -> Loop]
  BY DEF TypeOK, Loop, Stages, Row, LoopInv, Holds
<1>3. TypeOK'
  BY <1>1, <1>2 DEF TypeOK, LoopInv, Holds
<1>4. RowInv'
  BY DEF TypeOK, Row, RowInv, LoopInv, AbsentRow, Holds
<1>5. LockInv'
  BY DEF TypeOK, Loop, LockInv, LoopInv, Holds
<1>6. LoopInv'
  BY DEF TypeOK, Row, Loop, RowInv, LockInv, LoopInv, Holds
<1> QED BY <1>3, <1>4, <1>5, <1>6

LEMMA RestartInv ==
  ASSUME NEW w \in Workers, IInv, Restart(w)
  PROVE  IInv'
<1> USE NoWorkerAssumption, NoJobAssumption, CapsAssumption, MaxFaultsAssumption
    DEF IInv, Restart, EndTick, IdleLoop
<1>1. job' \in [Jobs -> Row]
  BY DEF TypeOK, Row, Statuses, LoopInv, Holds, AbsentRow
<1>2. worker' \in [Workers -> Loop]
  BY DEF TypeOK, Loop, Stages, Row, LoopInv, Holds
<1>3. TypeOK'
  BY <1>1, <1>2 DEF TypeOK, LoopInv, Holds
<1>4. RowInv'
  BY DEF TypeOK, Row, RowInv, LoopInv, AbsentRow, Holds
<1>5. LockInv'
  BY DEF TypeOK, Loop, LockInv, LoopInv, Holds
<1>6. LoopInv'
  BY DEF TypeOK, Row, Loop, RowInv, LockInv, LoopInv, Holds
<1> QED BY <1>3, <1>4, <1>5, <1>6

LEMMA StopInv ==
  ASSUME NEW w \in Workers, IInv, Stop(w)
  PROVE  IInv'
<1> USE NoWorkerAssumption, NoJobAssumption, CapsAssumption, MaxFaultsAssumption
    DEF IInv, Stop
<1>1. job' \in [Jobs -> Row]
  BY DEF TypeOK, Row, Statuses, LoopInv, Holds, AbsentRow
<1>2. worker' \in [Workers -> Loop]
  BY DEF TypeOK, Loop
<1>3. TypeOK'
  BY <1>1, <1>2 DEF TypeOK, LoopInv, Holds
<1>4. RowInv'
  BY DEF TypeOK, Row, RowInv, LoopInv, AbsentRow, Holds
<1>5. LockInv'
  BY DEF TypeOK, Loop, LockInv, LoopInv, Holds
<1>6. LoopInv'
  BY DEF TypeOK, Row, Loop, RowInv, LockInv, LoopInv, Holds
<1> QED BY <1>3, <1>4, <1>5, <1>6

------------------------------------------------------------------------------
LEMMA NextInv == IInv /\ [Next]_vars => IInv'
<1> SUFFICES ASSUME IInv, [Next]_vars PROVE IInv'
  OBVIOUS
<1>1. CASE Caller
  BY <1>1, EnqueueInv, BecomeDueInv DEF Caller
<1>2. ASSUME NEW w \in Workers, Step(w) PROVE IInv'
  BY <1>2, ClaimSelectInv, ClaimCommitInv, HandlerReturnsInv, HandlerThrowsInv,
     MarkCompletedInv, MarkFailedReadInv, MarkFailedWriteInv DEF Step
<1>3. ASSUME NEW w \in Workers, Failure(w) PROVE IInv'
  BY <1>3, ClaimErrorInv, MarkCompletedErrorInv, MarkFailedErrorInv, CrashInv DEF Failure
<1>4. ASSUME NEW w \in Workers, Restart(w) \/ Stop(w) PROVE IInv'
  BY <1>4, RestartInv, StopInv
<1>5. CASE UNCHANGED vars
  BY <1>5 DEF vars, IInv, TypeOK, RowInv, LockInv, LoopInv, Holds
<1> QED BY <1>1, <1>2, <1>3, <1>4, <1>5 DEF Next

\* The table and the loops keep their types: pg-queue.ts writes no status but
\* those it reads, and no worker loses track of its job.
THEOREM InvariantHolds == Spec => []IInv
  BY InitInv, NextInv, PTL DEF Spec

\* Every field of the rows and the loops keeps its type.
THEOREM TypeCorrect == Spec => []TypeOK
<1>1. IInv => TypeOK
  BY DEF IInv
<1> QED BY <1>1, InvariantHolds, PTL

\* Two workers never hold the same job: claimNext's row lock and status test
\* are enough, however many workers crash, restart or lose an answer.
THEOREM ClaimsAreExclusive == Spec => []ExclusiveClaim
<1>1. IInv => ExclusiveClaim
  BY DEF IInv, LoopInv, ExclusiveClaim
<1> QED BY <1>1, InvariantHolds, PTL

\* max_attempts bounds the handler invocations of a job, not only the counted
\* failures.
THEOREM CapIsHard == Spec => []HardAttemptCap
<1>1. IInv => HardAttemptCap
  <2> SUFFICES ASSUME IInv, NEW j \in Jobs PROVE starts[j] <= job[j].max
    BY DEF HardAttemptCap
  <2>1. /\ job[j].attempts \in Nat /\ job[j].max \in Nat /\ starts[j] \in Nat
        /\ job[j].status \in Statuses
    BY DEF IInv, TypeOK, Row
  <2>2. CASE job[j].status = "absent"
    BY <2>2 DEF IInv, RowInv, AbsentRow
  <2>3. CASE job[j].status \in {"pending", "processing", "completed"}
    BY <2>1, <2>3 DEF IInv, RowInv
  <2>4. CASE job[j].status = "dead_letter"
    BY <2>1, <2>4 DEF IInv, RowInv
  <2> QED BY <2>1, <2>2, <2>3, <2>4 DEF Statuses
<1> QED BY <1>1, InvariantHolds, PTL

------------------------------------------------------------------------------
(* Action properties and the refinement.                                   *)

\* A settled row is never touched by an enqueue, a claim or a completion, and
\* the only markFailed that reaches one is that of its own doubting worker.
THEOREM SettledRowsAreStable == Spec => SettledRowsStay
<1>1. IInv /\ [Next]_vars => [\A j \in Jobs :
        Settled(j) /\ job'[j] # job[j] => job[j].status = "completed" /\ InDoubt(j)]_vars
  <2> SUFFICES ASSUME IInv, Next, NEW j \in Jobs, Settled(j), job'[j] # job[j]
               PROVE  job[j].status = "completed" /\ InDoubt(j)
    OBVIOUS
  <2>0. /\ job \in [Jobs -> Row]
        /\ job[j].status \in {"completed", "dead_letter"}
    BY DEF IInv, TypeOK, Settled
  <2>1. ~Caller
    BY <2>0 DEF Caller, Enqueue, BecomeDue
  <2>2. PICK w \in Workers : Step(w) \/ Failure(w) \/ Restart(w) \/ Stop(w)
    BY <2>1 DEF Next
  <2>3. worker[w].stage = "claim" => worker[w].job # j
    BY <2>0 DEF IInv, LoopInv
  <2>4. worker[w].stage = "complete" => worker[w].job # j
    BY <2>0 DEF IInv, LoopInv, Holds
  <2>5. CASE MarkFailedWrite(w) \/ MarkFailedError(w)
    <3>1. worker[w].stage = "update" /\ worker[w].job = j
      BY <2>0, <2>5 DEF MarkFailedWrite, MarkFailedError
    <3>2. job[j].status = "completed"
      BY <2>0, <3>1 DEF IInv, LoopInv, Holds
    <3> QED BY <3>1, <3>2 DEF InDoubt
  <2>6. CASE ~(MarkFailedWrite(w) \/ MarkFailedError(w))
    BY <2>0, <2>2, <2>3, <2>4, <2>6
       DEF Step, Failure, Restart, Stop, ClaimSelect, ClaimCommit, HandlerReturns,
           HandlerThrows, MarkCompleted, MarkFailedRead, ClaimError,
           MarkCompletedError, Crash
  <2> QED BY <2>5, <2>6
<1> QED BY <1>1, InvariantHolds, PTL DEF Spec, SettledRowsStay

\* The contract's view of the table.
Phase == [j \in Jobs |-> PhaseOf(job[j].status)]
Cap == [j \in Jobs |-> job[j].max]

\* Replacing one row replaces one entry of the view.
LEMMA ViewUpdate ==
  ASSUME TypeOK, NEW j \in Jobs, NEW r \in Row, job' = [job EXCEPT ![j] = r]
  PROVE  /\ Phase' = [Phase EXCEPT ![j] = PhaseOf(r.status)]
         /\ Cap' = [Cap EXCEPT ![j] = r.max]
         /\ r.max = job[j].max => Cap' = Cap
         /\ PhaseOf(r.status) = PhaseOf(job[j].status) => Phase' = Phase
<1>1. /\ job'[j] = r
      /\ \A i \in Jobs \ {j} : job'[i] = job[i]
  BY RowUpdate
<1>2. Phase' = [i \in Jobs |-> PhaseOf(job'[i].status)]
  BY DEF Phase, PhaseOf
<1>3. Cap' = [i \in Jobs |-> job'[i].max]
  BY DEF Cap
<1>4. Phase' = [Phase EXCEPT ![j] = PhaseOf(r.status)]
  <2>1. [Phase EXCEPT ![j] = PhaseOf(r.status)]
          = [i \in Jobs |-> IF i = j THEN PhaseOf(r.status) ELSE PhaseOf(job[i].status)]
    BY DEF Phase
  <2>2. \A i \in Jobs : PhaseOf(job'[i].status)
          = IF i = j THEN PhaseOf(r.status) ELSE PhaseOf(job[i].status)
    BY <1>1
  <2> QED BY <1>2, <2>1, <2>2
<1>5. Cap' = [Cap EXCEPT ![j] = r.max]
  <2>1. [Cap EXCEPT ![j] = r.max] = [i \in Jobs |-> IF i = j THEN r.max ELSE job[i].max]
    BY DEF Cap
  <2>2. \A i \in Jobs : job'[i].max = IF i = j THEN r.max ELSE job[i].max
    BY <1>1
  <2> QED BY <1>3, <2>1, <2>2
<1>6. ASSUME r.max = job[j].max PROVE Cap' = Cap
  BY <1>1, <1>3, <1>6 DEF Cap
<1>7. ASSUME PhaseOf(r.status) = PhaseOf(job[j].status) PROVE Phase' = Phase
  BY <1>1, <1>2, <1>7 DEF Phase
<1> QED BY <1>4, <1>5, <1>6, <1>7

\* Which contract step each change of a row is.
LEMMA RowStep ==
  ASSUME IInv, NEW j \in Jobs, NEW r \in Row, job' = [job EXCEPT ![j] = r],
         r.max = job[j].max,
         \/ /\ job[j].status = "pending" /\ r.status = "processing"
            /\ starts' \in {starts, [starts EXCEPT ![j] = @ + 1]}
         \/ /\ job[j].status = "processing" /\ r.status = "completed"
            /\ starts' = starts
         \/ /\ job[j].status \in {"processing", "completed"}
            /\ starts[j] = r.attempts /\ starts' = starts
            /\ \/ r.status = "pending" /\ r.attempts < r.max
               \/ r.status = "dead_letter" /\ r.attempts = r.max
  PROVE  Contract!CNext
<1>1. /\ Phase' = [Phase EXCEPT ![j] = PhaseOf(r.status)]
      /\ Cap' = Cap
  BY ViewUpdate DEF IInv
<1>2. Phase[j] = PhaseOf(job[j].status) /\ Cap[j] = job[j].max
  BY DEF Phase, Cap
<1>3. CASE job[j].status = "pending"
  <2>1. starts[j] < job[j].max
    BY <1>3 DEF IInv, RowInv
  <2>2. Contract!Begin(j) \/ Contract!Strand(j)
    BY <1>1, <1>2, <1>3, <2>1
       DEF Contract!Begin, Contract!Strand, Phase, Cap, PhaseOf
  <2> QED BY <2>2 DEF Contract!CNext
<1>4. CASE job[j].status = "processing" /\ r.status = "completed"
  <2>1. Contract!Finish(j)
    BY <1>1, <1>2, <1>4 DEF Contract!Finish, Phase, Cap, PhaseOf
  <2> QED BY <2>1 DEF Contract!CNext
<1>5. CASE job[j].status \in {"processing", "completed"} /\ r.status # "completed"
  <2>1. Contract!Retry(j) \/ Contract!GiveUp(j)
    BY <1>1, <1>2, <1>5
       DEF Contract!Retry, Contract!GiveUp, Phase, Cap, PhaseOf
  <2> QED BY <2>1 DEF Contract!CNext
<1> QED BY <1>3, <1>4, <1>5

\* The view of the table does not see the loops and the locks.
LEMMA HiddenStep ==
  ASSUME job' = job, starts' = starts
  PROVE  UNCHANGED Contract!cvars
  BY DEF Contract!cvars

\* A step of markFailed that is applied, whatever its worker hears of it.
LEMMA FailedStep ==
  ASSUME IInv, NEW w \in Workers, worker[w].stage = "update", starts' = starts,
         job' = [job EXCEPT ![worker[w].job] = Failed(@, worker[w].seen)]
  PROVE  Contract!CNext
<1> DEFINE j == worker[w].job
           r == Failed(job[j], worker[w].seen)
<1>1. /\ j \in Jobs
      /\ worker[w].seen = job[j].attempts /\ worker[w].seen \in Nat
      /\ job[j].attempts < job[j].max /\ job[j].max \in Nat
      /\ starts[j] = job[j].attempts + 1
      /\ job[j].status \in {"processing", "completed"}
  BY DEF IInv, LoopInv, Holds, RowInv, TypeOK, Row, Loop
<1>2. /\ r \in Row /\ r.max = job[j].max
      /\ r.attempts = starts[j]
      /\ \/ r.status = "pending" /\ r.attempts < r.max
         \/ r.status = "dead_letter" /\ r.attempts = r.max
  <2>1. job[j] \in Row
    BY <1>1 DEF IInv, TypeOK
  <2> DEFINE seen == worker[w].seen
  <2>2. /\ r \in Row /\ r.attempts = seen + 1 /\ r.max = job[j].max
        /\ seen + 1 >= job[j].max => r.status = "dead_letter"
        /\ seen + 1 < job[j].max => r.status = "pending"
    BY <1>1, <2>1, FailedRow
  <2> HIDE DEF r, seen, j
  <2>3. seen = job[j].attempts
    BY <1>1 DEF seen
  <2> QED BY <1>1, <2>2, <2>3
<1>3. job' = [job EXCEPT ![j] = r]
  OBVIOUS
<1> HIDE DEF r, j
<1> QED BY <1>1, <1>2, <1>3, RowStep

\* Every step of the queue is a step of the contract or invisible to it.
LEMMA StepKeepsContract ==
  ASSUME IInv, [Next]_vars
  PROVE  [Contract!CNext]_(Contract!cvars)
<1>1. ASSUME NEW j \in Jobs, NEW max \in Caps, NEW due \in BOOLEAN, Enqueue(j, max, due)
      PROVE  Contract!CNext
  <2> DEFINE r == [AbsentRow EXCEPT !.status = "pending", !.due = due, !.max = max]
  <2>1. r \in Row /\ r.status = "pending" /\ r.max \in Nat \ {0}
    BY CapsAssumption, NoWorkerAssumption DEF AbsentRow, Row, Statuses
  <2>2. job' = [job EXCEPT ![j] = r] /\ starts' = starts /\ job[j].status = "absent"
    BY <1>1 DEF Enqueue
  <2> HIDE DEF r
  <2>3. /\ Phase' = [Phase EXCEPT ![j] = PhaseOf(r.status)]
        /\ Cap' = [Cap EXCEPT ![j] = r.max]
    BY <2>1, <2>2, ViewUpdate DEF IInv
  <2>4. Phase[j] = "absent" /\ PhaseOf(r.status) = "waiting"
    BY <2>1, <2>2 DEF Phase, PhaseOf
  <2>5. Cap'[j] = r.max
    BY <2>3 DEF Cap
  <2>6. Cap'[j] \in Nat \ {0} /\ Cap' = [Cap EXCEPT ![j] = Cap'[j]]
    BY <2>1, <2>3, <2>5
  <2>7. Contract!Submit(j)
    BY <2>2, <2>3, <2>4, <2>6 DEF Contract!Submit, Phase, Cap
  <2> QED BY <2>7 DEF Contract!CNext
<1>2. ASSUME NEW j \in Jobs, BecomeDue(j) PROVE UNCHANGED Contract!cvars
  <2> DEFINE r == [job[j] EXCEPT !.due = TRUE]
  <2>1. r \in Row /\ r.status = job[j].status /\ r.max = job[j].max
    BY DEF IInv, TypeOK, Row
  <2>2. job' = [job EXCEPT ![j] = r] /\ starts' = starts
    BY <1>2 DEF BecomeDue
  <2> HIDE DEF r
  <2>3. Phase' = Phase /\ Cap' = Cap
    BY <2>1, <2>2, ViewUpdate DEF IInv
  <2> QED BY <2>2, <2>3 DEF Contract!cvars, Phase, Cap
<1>3. ASSUME NEW w \in Workers, ClaimCommit(w) \/ ClaimError(w)
      PROVE  [Contract!CNext]_(Contract!cvars)
  <2> DEFINE j == worker[w].job
             r == Claimed(job[j], w)
  <2>1. j \in Jobs /\ job[j].status = "pending"
    BY <1>3 DEF IInv, LoopInv, ClaimCommit, ClaimError
  <2>2. r \in Row /\ r.max = job[j].max /\ r.status = "processing"
    BY <2>1, ClaimedRow DEF IInv, TypeOK
  <2>3. CASE job' = job /\ starts' = starts
    BY <2>3, HiddenStep
  <2>4. CASE /\ job' = [job EXCEPT ![j] = r]
             /\ starts' \in {starts, [starts EXCEPT ![j] = @ + 1]}
    <3> HIDE DEF r, j
    <3> QED BY <2>1, <2>2, <2>4, RowStep
  <2> QED BY <1>3, <2>3, <2>4 DEF ClaimCommit, ClaimError
<1>4. ASSUME NEW w \in Workers, MarkCompleted(w) \/ MarkCompletedError(w)
      PROVE  [Contract!CNext]_(Contract!cvars)
  <2> DEFINE j == worker[w].job
             r == [job[j] EXCEPT !.status = "completed"]
  <2>1. j \in Jobs /\ job[j].status = "processing"
    BY <1>4 DEF IInv, LoopInv, Holds, MarkCompleted, MarkCompletedError
  <2>2. r \in Row /\ r.max = job[j].max /\ r.status = "completed"
    BY <2>1 DEF IInv, TypeOK, Row, Statuses
  <2>3. CASE job' = job /\ starts' = starts
    BY <2>3, HiddenStep
  <2>4. CASE job' = [job EXCEPT ![j] = r] /\ starts' = starts
    <3> HIDE DEF r, j
    <3> QED BY <2>1, <2>2, <2>4, RowStep
  <2> QED BY <1>4, <2>3, <2>4 DEF MarkCompleted, MarkCompletedError
<1>5. ASSUME NEW w \in Workers, MarkFailedWrite(w) \/ MarkFailedError(w)
      PROVE  [Contract!CNext]_(Contract!cvars)
  <2>1. CASE job' = job /\ starts' = starts
    BY <2>1, HiddenStep
  <2>2. CASE ~(job' = job)
    BY <1>5, <2>2, FailedStep DEF MarkFailedWrite, MarkFailedError
  <2> QED BY <1>5, <2>1, <2>2 DEF MarkFailedWrite, MarkFailedError
<1>6. ASSUME NEW w \in Workers,
             \/ ClaimSelect(w) \/ HandlerReturns(w) \/ HandlerThrows(w)
             \/ MarkFailedRead(w) \/ Crash(w) \/ Restart(w) \/ Stop(w)
      PROVE  UNCHANGED Contract!cvars
  BY <1>6, HiddenStep
     DEF ClaimSelect, HandlerReturns, HandlerThrows, MarkFailedRead, Crash, Restart, Stop
<1>7. CASE UNCHANGED vars
  BY <1>7, HiddenStep DEF vars
<1> QED
  BY <1>1, <1>2, <1>3, <1>4, <1>5, <1>6, <1>7 DEF Next, Caller, Step, Failure

LEMMA InitKeepsContract == Init => Contract!CInit
  BY DEF Init, Contract!CInit, AbsentRow, PhaseOf

\* The Postgres queue implements the JobQueue contract, step by step.
THEOREM QueueKeepsContract == Spec => KeepsContract
<1>1. IInv /\ [Next]_vars => [Contract!CNext]_(Contract!cvars)
  BY StepKeepsContract
<1> QED BY <1>1, InitKeepsContract, InvariantHolds, PTL
        DEF Spec, KeepsContract, Contract!CSpec

==============================================================================
