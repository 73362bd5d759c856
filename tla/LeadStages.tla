------------------------------ MODULE LeadStages -------------------------------
(***************************************************************************)
(* One lead's pipeline stage and its history: transitionLeadStage and      *)
(* getLeadStageHistory (lib/crm/pipeline.ts), setLeadDisposition           *)
(* (lib/crm/dispositions.ts), getLead (lib/data/leads.ts) and the page     *)
(* app/dashboard/leads/[id] that shows them.                               *)
(*                                                                         *)
(* A move is one READ COMMITTED transaction: it reads the stage without a  *)
(* lock, waits for the row in its UPDATE and inserts the history row.      *)
(***************************************************************************)
EXTENDS Naturals, Sequences, FiniteSets

CONSTANTS Moves,   \* calls of transitionLeadStage
          Stages,  \* stages of this organization
          NoStage  \* the stage is NULL

ASSUME NoStageAssumption == NoStage \notin Stages

VARIABLES stage,       \* leads.pipeline_stage_id
          classified,  \* last_disposition_id is set
          rowLock,     \* the move that has updated the lead and not committed
          history,     \* lead_stage_history, as it was committed
          move,        \* each move
          clock,       \* counts transactions, for now()
          page         \* the lead page that is being rendered

stagesVars == <<stage, classified, rowLock, history, move, clock, page>>

Places == Stages \union {NoStage}

\* created_at is now(): when the move's transaction began.
Entry == [from : Places, to : Stages, created_at : Nat, by : Moves]

StagesTypeOK ==
  /\ stage \in Places
  /\ classified \in BOOLEAN
  /\ rowLock \in SUBSET Moves
  /\ history \in Seq(Entry)
  \* met is history: the moves that were open at some time while this one was
  /\ move \in [Moves -> [at : {"idle", "begun", "read", "updated", "over"}, to : Places,
                         from : Places, created_at : Nat, met : SUBSET Moves]]
  /\ clock \in Nat
  /\ page \in [at : {"none", "lead", "shown"}, stage : Places, history : Seq(Entry)]

StagesInit ==
  /\ stage = NoStage
  /\ classified = FALSE
  /\ rowLock = {}
  /\ history = <<>>
  /\ move = [m \in Moves |-> [at |-> "idle", to |-> NoStage, from |-> NoStage,
                              created_at |-> 0, met |-> {}]]
  /\ clock = 0
  /\ page = [at |-> "none", stage |-> NoStage, history |-> <<>>]

------------------------------------------------------------------------------
Open == {m \in Moves : move[m].at \in {"begun", "read", "updated"}}

\* BEGIN; any stage of the organization is a legal target, whatever the present.
BeginMove(m, to) ==
  /\ move[m].at = "idle"
  /\ move' = [n \in Moves |->
       IF n = m THEN [move[m] EXCEPT !.at = "begun", !.to = to, !.created_at = clock + 1, !.met = Open]
       ELSE IF n \in Open THEN [move[n] EXCEPT !.met = @ \union {m}] ELSE move[n]]
  /\ clock' = clock + 1
  /\ UNCHANGED <<stage, classified, rowLock, history, page>>

\* SELECT pipeline_stage_id, no FOR UPDATE; the target is looked up.
ReadStage(m) ==
  /\ move[m].at = "begun"
  /\ move' = [move EXCEPT ![m].at = "read", ![m].from = stage]
  /\ UNCHANGED <<stage, classified, rowLock, history, clock, page>>

\* The UPDATE waits for the row.
UpdateLead(m) ==
  /\ move[m].at = "read"
  /\ rowLock = {}
  /\ rowLock' = {m}
  /\ move' = [move EXCEPT ![m].at = "updated"]
  /\ UNCHANGED <<stage, classified, history, clock, page>>

\* The history's INSERT and COMMIT: the move and its entry become visible at once.
CommitMove(m) ==
  /\ move[m].at = "updated"
  /\ stage' = move[m].to
  /\ history' = Append(history, [from |-> move[m].from, to |-> move[m].to,
                                 created_at |-> move[m].created_at, by |-> m])
  /\ rowLock' = {}
  /\ move' = [move EXCEPT ![m].at = "over"]
  /\ UNCHANGED <<classified, clock, page>>

\* An unknown lead or stage, or any error: rolled back.
RollBackMove(m) ==
  /\ m \in Open
  /\ move' = [move EXCEPT ![m].at = "over"]
  /\ rowLock' = rowLock \ {m}
  /\ UNCHANGED <<stage, classified, history, clock, page>>

\* setLeadDisposition() waits for the row as well.
SetLeadDisposition ==
  /\ rowLock = {}
  /\ classified' = TRUE
  /\ UNCHANGED <<stage, rowLock, history, move, clock, page>>

\* getLead(), then getLeadStageHistory(), each a transaction of its own.
OpenLead ==
  /\ page.at = "none"
  /\ page' = [at |-> "lead", stage |-> stage, history |-> <<>>]
  /\ UNCHANGED <<stage, classified, rowLock, history, move, clock>>

\* Mutant: ORDER BY created_at DESC.
BeforeNewestFirst(i, j) == history[i].created_at > history[j].created_at

\* ORDER BY created_at ASC: no two moves began at the same time.
Before(i, j) == history[i].created_at < history[j].created_at

Listed == [n \in DOMAIN history |-> history[CHOOSE i \in DOMAIN history :
  Cardinality({j \in DOMAIN history : Before(j, i)}) = n - 1]]

ShowHistory ==
  /\ page.at = "lead"
  /\ page' = [page EXCEPT !.at = "shown", !.history = Listed]
  /\ UNCHANGED <<stage, classified, rowLock, history, move, clock>>

StagesNext ==
  \/ \E m \in Moves, s \in Stages : BeginMove(m, s)
  \/ \E m \in Moves : ReadStage(m) \/ UpdateLead(m) \/ CommitMove(m) \/ RollBackMove(m)
  \/ SetLeadDisposition \/ OpenLead \/ ShowHistory

StagesSpec == StagesInit /\ [][StagesNext]_stagesVars
------------------------------------------------------------------------------
(* Properties.                                                             *)

Apart(e) == move[e.by].met = {}

\* pipeline.ts: "every status change timestamped".  The listed history tells how
\* the lead came to its stage: an entry starts where the one before it ended, and
\* the last one ends where the lead is, unless a move overlapped another (then
\* both name the same origin, or the list is not in the order of the commits).
\* And a page that shows a stage also shows the move that led to it.
HistoryTellsTheStage ==
  /\ \A i \in 1 .. Len(Listed) : Apart(Listed[i]) =>
       /\ i > 1 /\ Apart(Listed[i - 1]) => Listed[i].from = Listed[i - 1].to
       /\ i = Len(Listed) => Listed[i].to = stage
  /\ page.at = "shown" =>
       page.stage = NoStage \/ \E i \in 1 .. Len(page.history) : page.history[i].to = page.stage
==============================================================================
