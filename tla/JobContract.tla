----------------------------- MODULE JobContract -----------------------------
(***************************************************************************)
(* What the job queue promises its callers (the JobQueue interface of      *)
(* apps/web/lib/queue/types.ts), without workers, transactions or faults:  *)
(* a job is handed out at most cap[j] times, is given up as dead only      *)
(* after exactly cap[j] handler invocations, and is never handed out       *)
(* while it is already handed out.                                         *)
(***************************************************************************)
EXTENDS Naturals

CONSTANTS Jobs

VARIABLES phase,   \* [Jobs -> Phases]
          runs,    \* [Jobs -> Nat]: invocations of the job's handler
          cap      \* [Jobs -> Nat]: max_attempts, fixed when the job is submitted

cvars == <<phase, runs, cap>>

Phases == {"absent", "waiting", "running", "done", "dead"}

CInit ==
  /\ phase = [j \in Jobs |-> "absent"]
  /\ runs = [j \in Jobs |-> 0]
  /\ cap = [j \in Jobs |-> 0]

Submit(j) ==
  /\ phase[j] = "absent"
  /\ phase' = [phase EXCEPT ![j] = "waiting"]
  /\ cap'[j] \in Nat \ {0}
  /\ cap' = [cap EXCEPT ![j] = cap'[j]]
  /\ UNCHANGED runs

\* A worker takes the job and invokes its handler.
Begin(j) ==
  /\ phase[j] = "waiting"
  /\ runs[j] < cap[j]
  /\ phase' = [phase EXCEPT ![j] = "running"]
  /\ runs' = [runs EXCEPT ![j] = @ + 1]
  /\ UNCHANGED cap

\* The job leaves the queue for a worker that never learns it owns it.
Strand(j) ==
  /\ phase[j] = "waiting"
  /\ phase' = [phase EXCEPT ![j] = "running"]
  /\ UNCHANGED <<runs, cap>>

Finish(j) ==
  /\ phase[j] = "running"
  /\ phase' = [phase EXCEPT ![j] = "done"]
  /\ UNCHANGED <<runs, cap>>

\* The handler failed, or reported success and the worker could not learn
\* that the success was recorded: the job goes back, if it has runs left.
Retry(j) ==
  /\ phase[j] \in {"running", "done"}
  /\ runs[j] < cap[j]
  /\ phase' = [phase EXCEPT ![j] = "waiting"]
  /\ UNCHANGED <<runs, cap>>

GiveUp(j) ==
  /\ phase[j] \in {"running", "done"}
  /\ runs[j] = cap[j]
  /\ phase' = [phase EXCEPT ![j] = "dead"]
  /\ UNCHANGED <<runs, cap>>

CNext == \E j \in Jobs :
  Submit(j) \/ Begin(j) \/ Strand(j) \/ Finish(j) \/ Retry(j) \/ GiveUp(j)

CSpec == CInit /\ [][CNext]_cvars
==============================================================================
