------------------------- MODULE WebhookDeliveryProofs -------------------------
(***************************************************************************)
(* Theorems about WebhookDelivery, for every set of events, subscriptions  *)
(* and workers, every batch limit, number of tries and number of faults.   *)
(***************************************************************************)
EXTENDS WebhookDelivery, TLAPS

\* A worker at rest has no batch; one in the middle of an attempt has its
\* delivery in its batch.
StageOK(w) ==
  /\ stage[w] \in {"idle", "down"} => todo[w] = {}
  /\ now[w] # NoDelivery <=> stage[w] \in {"mark", "settle"}
  /\ now[w] # NoDelivery => now[w] \in todo[w]

Disjoint == \A v, w \in Senders : v # w => todo[v] \intersect todo[w] = {}

\* What a worker's batch says about the row: the claim read it while it was
\* pending, and since then the row is the worker's alone.
BatchOK(w, d) ==
  /\ seen[w][d] < MaxTries
  /\ tries[d] = IF now[w] = d THEN seen[w][d] + 1 ELSE seen[w][d]
  /\ stage[w] = "claim" => row[d].status = "pending"
  /\ stage[w] # "claim" => \/ row[d].status = "processing"
                           \/ row[d].status = "delivered" /\ stage[w] = "settle" /\ now[w] = d
  /\ stage[w] = "mark" /\ now[w] = d => accepted[d] > 0

TableOK(d) ==
  /\ tries[d] <= MaxTries
  /\ row[d].status = "pending" => tries[d] = row[d].attempts /\ tries[d] < MaxTries
  /\ row[d].status = "absent" => tries[d] = 0 /\ accepted[d] = 0
  /\ row[d].status = "delivered" => accepted[d] > 0
  /\ row[d].status = "exhausted" => tries[d] = MaxTries

\* An acceptance is accounted for by its delivery being recorded, or by the
\* worker that is about to record it; any other by a mishap.
CoverOK(d) ==
  \/ accepted[d] <= mishaps
  \/ /\ accepted[d] <= mishaps + 1
     /\ \/ \E w \in Senders : stage[w] = "mark" /\ now[w] = d
        \/ row[d].status = "delivered" /\ \A w \in Senders : d \notin todo[w]

StageInv == \A w \in Senders : StageOK(w)
BatchInv == \A w \in Senders : \A d \in todo[w] : BatchOK(w, d)
TableInv == \A d \in Deliveries : TableOK(d)
CoverInv == \A d \in Deliveries : CoverOK(d)

IInv == DeliveryTypeOK /\ StageInv /\ Disjoint /\ BatchInv /\ TableInv /\ CoverInv

------------------------------------------------------------------------------
(* What the operators write.                                               *)

LEMMA RowsWritten ==
  ASSUME NEW r \in DeliveryRow, NEW n \in Nat
  PROVE  /\ DeliveredRow(r, n) \in DeliveryRow /\ DeliveredRow(r, n).status = "delivered"
         /\ FailedRow(r, n) \in DeliveryRow /\ FailedRow(r, n).attempts = n + 1
         /\ n + 1 >= MaxTries => FailedRow(r, n).status = "exhausted"
         /\ n + 1 < MaxTries => FailedRow(r, n).status = "pending"
<1> DEFINE delivered == [r EXCEPT !.status = "delivered", !.attempts = n + 1]
           exhausted == [r EXCEPT !.status = "exhausted", !.attempts = n + 1]
           pending == [r EXCEPT !.status = "pending", !.attempts = n + 1, !.due = FALSE]
<1>0. n + 1 \in Nat /\ MaxTries \in Nat
  BY SendBoundsAssumption
<1>1. delivered \in DeliveryRow /\ delivered.status = "delivered"
  BY <1>0 DEF DeliveryRow
<1>2. exhausted \in DeliveryRow /\ exhausted.status = "exhausted" /\ exhausted.attempts = n + 1
  BY <1>0 DEF DeliveryRow
<1>3. pending \in DeliveryRow /\ pending.status = "pending" /\ pending.attempts = n + 1
  BY <1>0 DEF DeliveryRow
<1>4. DeliveredRow(r, n) = delivered
  BY DEF DeliveredRow
<1>5. FailedRow(r, n) = IF n + 1 >= MaxTries THEN exhausted ELSE pending
  BY DEF FailedRow
<1> HIDE DEF delivered, exhausted, pending
<1>6. CASE n + 1 >= MaxTries
  BY <1>0, <1>1, <1>2, <1>4, <1>5, <1>6
<1>7. CASE ~(n + 1 >= MaxTries)
  BY <1>0, <1>1, <1>3, <1>4, <1>5, <1>7
<1> QED BY <1>6, <1>7

LEMMA RowsClaimed ==
  ASSUME DeliveryTypeOK, NEW S \in SUBSET Deliveries
  PROVE  /\ Processing(S) \in [Deliveries -> DeliveryRow]
         /\ \A d \in S : Processing(S)[d].status = "processing"
         /\ \A d \in Deliveries \ S : Processing(S)[d] = row[d]
<1>1. \A d \in Deliveries : [row[d] EXCEPT !.status = "processing"] \in DeliveryRow
                             /\ [row[d] EXCEPT !.status = "processing"].status = "processing"
  BY DEF DeliveryTypeOK, DeliveryRow
<1> QED BY <1>1 DEF Processing, DeliveryTypeOK

LEMMA Idles ==
  ASSUME DeliveryTypeOK, NEW w \in Senders, EndBatch(w)
  PROVE  /\ stage' \in [Senders -> SenderStages]
         /\ todo' \in [Senders -> SUBSET Deliveries]
         /\ now' \in [Senders -> Deliveries \union {NoDelivery}]
         /\ stage'[w] = "idle" /\ todo'[w] = {} /\ now'[w] = NoDelivery
         /\ \A v \in Senders \ {w} : stage'[v] = stage[v] /\ todo'[v] = todo[v] /\ now'[v] = now[v]
         /\ seen' = seen
BY DEF EndBatch, DeliveryTypeOK, SenderStages

LEMMA AttemptEnds ==
  ASSUME DeliveryTypeOK, NEW w \in Senders, EndAttempt(w), now[w] \in Deliveries
  PROVE  /\ stage' \in [Senders -> SenderStages]
         /\ todo' \in [Senders -> SUBSET Deliveries]
         /\ now' \in [Senders -> Deliveries \union {NoDelivery}]
         /\ stage'[w] \in {"idle", "next"} /\ todo'[w] = todo[w] \ {now[w]} /\ now'[w] = NoDelivery
         /\ stage'[w] = "idle" => todo'[w] = {}
         /\ \A v \in Senders \ {w} : stage'[v] = stage[v] /\ todo'[v] = todo[v] /\ now'[v] = now[v]
         /\ seen' = seen
BY DEF EndAttempt, DeliveryTypeOK, SenderStages

------------------------------------------------------------------------------
LEMMA Init_IInv == DeliveryInit => IInv
<1> SUFFICES ASSUME DeliveryInit PROVE IInv
  OBVIOUS
<1> USE SendBoundsAssumption
<1>1. DeliveryTypeOK
  BY DEF DeliveryInit, DeliveryTypeOK, DeliveryRow, SenderStages
<1>2. StageInv /\ Disjoint /\ BatchInv
  BY DEF DeliveryInit, StageInv, StageOK, Disjoint, BatchInv
<1>3. TableInv /\ CoverInv
  BY DEF DeliveryInit, TableInv, TableOK, CoverInv, CoverOK
<1> QED BY <1>1, <1>2, <1>3 DEF IInv

\* A step of the rows alone, in nobody's batch unless its status stays.
LEMMA RowStep ==
  ASSUME IInv, UNCHANGED <<sendVars, historyVars, mishaps>>,
         row' \in [Deliveries -> DeliveryRow],
         \A d \in Deliveries :
           \/ row'[d].status = row[d].status /\ row'[d].attempts = row[d].attempts
           \/ row[d].status = "absent" /\ row'[d].status = "pending" /\ row'[d].attempts = 0
  PROVE  IInv'
<1> USE SendBoundsAssumption DEF IInv, sendVars, historyVars
<1>1. DeliveryTypeOK' /\ StageInv' /\ Disjoint'
  BY DEF DeliveryTypeOK, StageInv, StageOK, Disjoint
<1>2. \A w \in Senders : \A d \in todo[w] : d \in Deliveries /\ row'[d].status = row[d].status
  BY DEF DeliveryTypeOK, BatchInv, BatchOK
<1>3. BatchInv'
  BY <1>2 DEF BatchInv, BatchOK
<1>4. TableInv'
  BY DEF TableInv, TableOK, DeliveryTypeOK
<1>5. CoverInv'
  BY DEF CoverInv, CoverOK
<1> QED BY <1>1, <1>3, <1>4, <1>5

\* A step of worker w that touches no delivery outside its batch.
OwnCover(w, d) ==
  \/ accepted[d] <= mishaps
  \/ /\ accepted[d] <= mishaps + 1
     /\ \/ stage[w] = "mark" /\ now[w] = d
        \/ row[d].status = "delivered" /\ d \notin todo[w]

LEMMA OwnStep ==
  ASSUME IInv, DeliveryTypeOK', NEW w \in Senders,
         \A v \in Senders \ {w} : /\ stage'[v] = stage[v] /\ todo'[v] = todo[v]
                                  /\ now'[v] = now[v] /\ seen'[v] = seen[v],
         todo'[w] \subseteq todo[w], mishaps <= mishaps',
         \A d \in Deliveries \ todo[w] :
           row'[d] = row[d] /\ tries'[d] = tries[d] /\ accepted'[d] = accepted[d],
         StageOK(w)', \A d \in todo'[w] : BatchOK(w, d)',
         \A d \in todo[w] : TableOK(d)' /\ OwnCover(w, d)'
  PROVE  IInv'
<1> USE DEF IInv
<1>1. StageInv'
  BY DEF StageInv, StageOK
<1>2. Disjoint'
  BY DEF Disjoint
<1>3. BatchInv'
  <2> SUFFICES ASSUME NEW v \in Senders, NEW d \in todo'[v] PROVE BatchOK(v, d)'
    BY DEF BatchInv
  <2>1. CASE v = w
    BY <2>1
  <2>2. CASE v # w
    <3>1. d \in todo[v] /\ d \notin todo[w] /\ d \in Deliveries
      BY <2>2 DEF Disjoint, DeliveryTypeOK
    <3> QED BY <2>2, <3>1 DEF BatchInv, BatchOK
  <2> QED BY <2>1, <2>2
<1>4. TableInv'
  BY DEF TableInv, TableOK
<1>5. CoverInv'
  <2> SUFFICES ASSUME NEW d \in Deliveries PROVE CoverOK(d)'
    BY DEF CoverInv
  <2>0. mishaps \in Nat /\ mishaps' \in Nat /\ accepted[d] \in Nat /\ accepted'[d] \in Nat
    BY SendBoundsAssumption DEF DeliveryTypeOK
  <2>1. CASE d \in todo[w]
    <3>1. \A v \in Senders \ {w} : d \notin todo'[v]
      BY <2>1 DEF Disjoint
    <3> QED BY <2>0, <2>1, <3>1 DEF OwnCover, CoverOK
  <2>2. CASE d \notin todo[w]
    <3>1. now[w] # d
      BY <2>2, NoDeliveryAssumption DEF StageInv, StageOK
    <3>2. CoverOK(d) /\ row'[d] = row[d] /\ accepted'[d] = accepted[d]
      BY <2>2 DEF CoverInv
    <3>3. (\E v \in Senders : stage[v] = "mark" /\ now[v] = d)
            => \E v \in Senders : stage'[v] = "mark" /\ now'[v] = d
      BY <3>1
    <3>4. (\A v \in Senders : d \notin todo[v]) => \A v \in Senders : d \notin todo'[v]
      OBVIOUS
    <3> QED BY <2>0, <3>2, <3>3, <3>4 DEF CoverOK
  <2> QED BY <2>1, <2>2
<1> QED BY <1>1, <1>2, <1>3, <1>4, <1>5

LEMMA PostEvent_IInv ==
  ASSUME IInv, NEW e \in Events, NEW enabled \in SUBSET Subs, PostEvent(e, enabled)
  PROVE  IInv'
<1> DEFINE new == {e} \X enabled
           fresh == [status |-> "pending", due |-> TRUE, attempts |-> 0]
<1>1. new \subseteq Deliveries /\ \A d \in new : row[d].status = "absent"
  BY DEF PostEvent, Deliveries
<1>2. row' = [d \in Deliveries |-> IF d \in new THEN fresh ELSE row[d]]
      /\ UNCHANGED <<sendVars, historyVars, mishaps>>
  BY DEF PostEvent
<1>3. fresh \in DeliveryRow /\ fresh.status = "pending" /\ fresh.attempts = 0
  BY DEF DeliveryRow
<1> HIDE DEF new, fresh
<1>4. row' \in [Deliveries -> DeliveryRow]
  BY <1>2, <1>3 DEF IInv, DeliveryTypeOK
<1>5. \A d \in Deliveries :
           \/ row'[d].status = row[d].status /\ row'[d].attempts = row[d].attempts
           \/ row[d].status = "absent" /\ row'[d].status = "pending" /\ row'[d].attempts = 0
  BY <1>1, <1>2, <1>3
<1> QED BY <1>2, <1>4, <1>5, RowStep

LEMMA BackoffEnds_IInv ==
  ASSUME IInv, NEW d \in Deliveries, BackoffEnds(d)
  PROVE  IInv'
<1>1. row' = [row EXCEPT ![d] = [row[d] EXCEPT !.due = TRUE]] /\ UNCHANGED <<sendVars, historyVars, mishaps>>
  BY DEF BackoffEnds
<1>2. [row[d] EXCEPT !.due = TRUE] \in DeliveryRow
      /\ [row[d] EXCEPT !.due = TRUE].status = row[d].status
      /\ [row[d] EXCEPT !.due = TRUE].attempts = row[d].attempts
  BY DEF IInv, DeliveryTypeOK, DeliveryRow
<1>3. row' \in [Deliveries -> DeliveryRow]
  BY <1>1, <1>2 DEF IInv, DeliveryTypeOK
<1>4. \A c \in Deliveries : row'[c].status = row[c].status /\ row'[c].attempts = row[c].attempts
  BY <1>1, <1>2 DEF IInv, DeliveryTypeOK
<1> QED BY <1>1, <1>3, <1>4, RowStep

------------------------------------------------------------------------------
(* The claim.                                                              *)

LEMMA SelectDue_IInv ==
  ASSUME IInv, NEW w \in Senders, SelectDue(w)
  PROVE  IInv'
<1> USE SendBoundsAssumption DEF IInv
<1>1. PICK S \in SUBSET DueRows :
        /\ stage[w] = "idle"
        /\ stage' = [stage EXCEPT ![w] = "claim"]
        /\ todo' = [todo EXCEPT ![w] = S]
        /\ seen' = [seen EXCEPT ![w] = [d \in Deliveries |-> IF d \in S THEN row[d].attempts ELSE 0]]
        /\ UNCHANGED <<row, now, historyVars, mishaps>>
  BY DEF SelectDue
<1>2. \A d \in S : d \in Deliveries /\ row[d].status = "pending" /\ ~Locked(d)
  BY DEF DueRows
<1>3. \A d \in Deliveries : row[d] \in DeliveryRow /\ row[d].attempts \in Nat
  BY DEF DeliveryTypeOK, DeliveryRow
<1>4. [d \in Deliveries |-> IF d \in S THEN row[d].attempts ELSE 0] \in [Deliveries -> Nat]
  BY <1>3
<1>5. /\ todo'[w] = S /\ stage'[w] = "claim" /\ now'[w] = now[w] /\ now[w] = NoDelivery
      /\ \A d \in S : seen'[w][d] = row[d].attempts
      /\ \A v \in Senders \ {w} : stage'[v] = stage[v] /\ todo'[v] = todo[v] /\ now'[v] = now[v]
                               /\ seen'[v] = seen[v]
  BY <1>1, <1>2 DEF DeliveryTypeOK, StageInv, StageOK
<1>6. \A v \in Senders \ {w} : todo[v] \intersect S = {}
  BY <1>2 DEF BatchInv, BatchOK, Locked
<1>7. DeliveryTypeOK'
  BY <1>1, <1>2, <1>4 DEF DeliveryTypeOK, SenderStages, historyVars
<1>8. StageInv'
  BY <1>5 DEF StageInv, StageOK
<1>9. Disjoint'
  BY <1>5, <1>6 DEF Disjoint
<1>10. BatchInv'
  <2> SUFFICES ASSUME NEW v \in Senders, NEW d \in todo'[v] PROVE BatchOK(v, d)'
    BY DEF BatchInv
  <2>1. CASE v = w
    <3>1. d \in S /\ d \in Deliveries /\ row[d].status = "pending" /\ seen'[w][d] = row[d].attempts
          /\ d # NoDelivery
      BY <1>2, <1>5, <2>1, NoDeliveryAssumption
    <3>2. tries[d] = row[d].attempts /\ tries[d] < MaxTries
      BY <3>1 DEF TableInv, TableOK
    <3> QED BY <1>1, <1>5, <2>1, <3>1, <3>2 DEF BatchOK, historyVars
  <2>2. CASE v # w
    BY <1>1, <1>5, <2>2 DEF BatchInv, BatchOK, historyVars
  <2> QED BY <2>1, <2>2
<1>11. TableInv'
  BY <1>1 DEF TableInv, TableOK, historyVars
<1>12. CoverInv'
  <2> SUFFICES ASSUME NEW d \in Deliveries PROVE CoverOK(d)'
    BY DEF CoverInv
  <2>1. CoverOK(d)
    BY DEF CoverInv
  <2>2. (\E v \in Senders : stage[v] = "mark" /\ now[v] = d)
          => \E v \in Senders : stage'[v] = "mark" /\ now'[v] = d
    BY <1>1, <1>5
  <2>3. row[d].status = "delivered" /\ (\A v \in Senders : d \notin todo[v])
          => \A v \in Senders : d \notin todo'[v]
    BY <1>2, <1>5
  <2> QED BY <1>1, <2>1, <2>2, <2>3 DEF CoverOK, historyVars
<1> QED BY <1>7, <1>8, <1>9, <1>10, <1>11, <1>12

\* Whose rows the claim writes.
LEMMA CommitClaim_IInv ==
  ASSUME IInv, NEW w \in Senders, CommitClaim(w)
  PROVE  IInv'
<1> USE DEF IInv
<1>1. /\ stage[w] = "claim" /\ row' = Processing(todo[w])
      /\ stage' = [stage EXCEPT ![w] = "next"]
      /\ UNCHANGED <<todo, now, seen, tries, accepted, mishaps>>
  BY DEF CommitClaim, historyVars
<1>2. todo[w] \subseteq Deliveries /\ now[w] = NoDelivery /\ mishaps \in Nat
  BY <1>1, SendBoundsAssumption DEF DeliveryTypeOK, StageInv, StageOK
<1>3. /\ row' \in [Deliveries -> DeliveryRow]
      /\ \A d \in todo[w] : row'[d].status = "processing"
      /\ \A d \in Deliveries \ todo[w] : row'[d] = row[d]
  BY <1>1, <1>2, RowsClaimed
<1>4. DeliveryTypeOK'
  BY <1>1, <1>3 DEF DeliveryTypeOK, SenderStages
<1>5. stage'[w] = "next" /\ \A v \in Senders \ {w} : stage'[v] = stage[v]
  BY <1>1 DEF DeliveryTypeOK
<1>6. StageOK(w)'
  BY <1>1, <1>2, <1>5 DEF StageOK
<1>7. \A d \in todo[w] : BatchOK(w, d)'
  BY <1>1, <1>2, <1>3, <1>5 DEF BatchInv, BatchOK
<1>8. \A d \in todo[w] : TableOK(d)'
  BY <1>1, <1>2, <1>3 DEF TableInv, TableOK
<1>9. \A d \in todo[w] : accepted[d] <= mishaps
  BY <1>1, <1>2 DEF CoverInv, CoverOK, BatchInv, BatchOK, Disjoint, StageInv, StageOK
<1>10. \A d \in todo[w] : OwnCover(w, d)'
  BY <1>1, <1>9 DEF OwnCover
<1> QED BY <1>1, <1>2, <1>3, <1>4, <1>5, <1>6, <1>7, <1>8, <1>10, OwnStep

------------------------------------------------------------------------------
(* An attempt.                                                             *)

LEMMA Post_IInv ==
  ASSUME IInv, NEW w \in Senders, NEW d \in Deliveries, NEW answer \in {"mark", "settle"},
         Post(w, d, answer),
         \/ UNCHANGED <<accepted, mishaps>> /\ answer = "settle"
         \/ accepted' = [accepted EXCEPT ![d] = @ + 1] /\ answer = "mark" /\ UNCHANGED mishaps
         \/ accepted' = [accepted EXCEPT ![d] = @ + 1] /\ Mishap
  PROVE  IInv'
<1> USE DEF IInv
<1>1. /\ stage[w] = "next" /\ d \in todo[w]
      /\ tries' = [tries EXCEPT ![d] = @ + 1]
      /\ now' = [now EXCEPT ![w] = d]
      /\ stage' = [stage EXCEPT ![w] = answer]
      /\ UNCHANGED <<row, todo, seen>>
  BY DEF Post
<1>2. /\ now[w] = NoDelivery /\ d # NoDelivery /\ mishaps \in Nat /\ mishaps <= mishaps'
      /\ mishaps' \in 0..SendFaults
  BY <1>1, SendBoundsAssumption, NoDeliveryAssumption DEF DeliveryTypeOK, StageInv, StageOK, Mishap
<1>3. /\ accepted' \in [Deliveries -> Nat] /\ tries' \in [Deliveries -> Nat]
      /\ tries[d] \in Nat /\ tries'[d] = tries[d] + 1
      /\ accepted[d] \in Nat
      /\ \A c \in Deliveries \ {d} : tries'[c] = tries[c] /\ accepted'[c] = accepted[c]
      /\ \/ accepted'[d] = accepted[d] /\ answer = "settle" /\ mishaps' = mishaps
         \/ accepted'[d] = accepted[d] + 1 /\ answer = "mark" /\ mishaps' = mishaps
         \/ accepted'[d] = accepted[d] + 1 /\ mishaps' = mishaps + 1
  BY <1>1 DEF DeliveryTypeOK, Mishap
<1>4. DeliveryTypeOK'
  BY <1>1, <1>2, <1>3 DEF DeliveryTypeOK, SenderStages
<1>5. /\ stage'[w] = answer /\ now'[w] = d
      /\ \A v \in Senders \ {w} : stage'[v] = stage[v] /\ now'[v] = now[v]
  BY <1>1 DEF DeliveryTypeOK
<1>6. StageOK(w)'
  BY <1>1, <1>2, <1>5 DEF StageOK
<1>7. todo[w] \subseteq Deliveries /\ seen[w] \in [Deliveries -> Nat] /\ MaxTries \in Nat
  BY SendBoundsAssumption DEF DeliveryTypeOK
<1>8. \A c \in todo[w] : /\ seen[w][c] \in Nat /\ seen[w][c] < MaxTries /\ tries[c] = seen[w][c]
                         /\ row[c].status = "processing"
  BY <1>1, <1>2, <1>7, NoDeliveryAssumption DEF BatchInv, BatchOK
<1>9. \A c \in todo[w] : BatchOK(w, c)'
  BY <1>1, <1>3, <1>5, <1>7, <1>8 DEF BatchOK
<1>10. \A c \in todo[w] : TableOK(c)'
  BY <1>1, <1>3, <1>7, <1>8 DEF TableInv, TableOK
<1>11. \A c \in todo[w] : accepted[c] <= mishaps
  BY <1>1, <1>7, <1>8 DEF CoverInv, CoverOK, Disjoint, StageInv, StageOK
<1>12. \A c \in todo[w] : accepted[c] \in Nat
  BY <1>7 DEF DeliveryTypeOK
<1>13. \A c \in todo[w] : OwnCover(w, c)'
  BY <1>2, <1>3, <1>5, <1>7, <1>11, <1>12 DEF OwnCover
<1> QED BY <1>1, <1>2, <1>3, <1>4, <1>5, <1>6, <1>9, <1>10, <1>13, OwnStep

\* What an attempt under way knows.
LEMMA Attempting ==
  ASSUME IInv, NEW w \in Senders, stage[w] \in {"mark", "settle"}
  PROVE  /\ now[w] \in Deliveries /\ now[w] \in todo[w]
         /\ row[now[w]] \in DeliveryRow /\ seen[w][now[w]] \in Nat
         /\ seen[w][now[w]] + 1 <= MaxTries /\ tries[now[w]] = seen[w][now[w]] + 1
         /\ row[now[w]].status \in {"processing", "delivered"}
         /\ stage[w] = "mark" => accepted[now[w]] > 0 /\ row[now[w]].status = "processing"
         /\ stage[w] = "settle" => accepted[now[w]] <= mishaps
         /\ \A c \in todo[w] \ {now[w]} :
              /\ c \in Deliveries /\ seen[w][c] < MaxTries /\ tries[c] = seen[w][c]
              /\ row[c].status = "processing" /\ accepted[c] <= mishaps
<1> USE DEF IInv
<1>1. now[w] \in Deliveries /\ now[w] \in todo[w] /\ todo[w] \subseteq Deliveries
  BY DEF DeliveryTypeOK, StageInv, StageOK
<1>2. row[now[w]] \in DeliveryRow /\ seen[w][now[w]] \in Nat /\ MaxTries \in Nat
  BY <1>1, SendBoundsAssumption DEF DeliveryTypeOK
<1>3. \A c \in todo[w] : BatchOK(w, c) /\ \A v \in Senders : v # w => c \notin todo[v]
  BY DEF BatchInv, Disjoint
<1>4. \A v \in Senders : now[v] # NoDelivery => now[v] \in todo[v]
  BY DEF StageInv, StageOK
<1>5. \A c \in todo[w] : (\E v \in Senders : stage[v] = "mark" /\ now[v] = c)
                           => stage[w] = "mark" /\ now[w] = c
  BY <1>1, <1>3, <1>4, NoDeliveryAssumption
<1>6. \A c \in todo[w] : accepted[c] <= mishaps \/ (stage[w] = "mark" /\ now[w] = c)
  BY <1>1, <1>5 DEF CoverInv, CoverOK
<1> QED BY <1>1, <1>2, <1>3, <1>6 DEF BatchOK

\* The attempt's delivery gets its verdict and leaves the batch.
LEMMA Verdict_IInv ==
  ASSUME IInv, NEW w \in Senders, stage[w] \in {"mark", "settle"}, EndAttempt(w),
         UNCHANGED <<historyVars, mishaps>>,
         NEW r \in DeliveryRow, row' = [row EXCEPT ![now[w]] = r],
         \/ stage[w] = "mark" /\ r.status = "delivered"
         \/ /\ stage[w] = "settle" /\ r.attempts = seen[w][now[w]] + 1
            /\ seen[w][now[w]] + 1 >= MaxTries => r.status = "exhausted"
            /\ seen[w][now[w]] + 1 < MaxTries => r.status = "pending"
  PROVE  IInv'
<1> USE DEF IInv
<1>0. PICK d \in Deliveries : d = now[w]
  BY Attempting
<1>1. /\ d \in Deliveries /\ d \in todo[w] /\ seen[w][d] \in Nat
      /\ seen[w][d] + 1 <= MaxTries /\ tries[d] = seen[w][d] + 1
      /\ stage[w] = "mark" => accepted[d] > 0
      /\ stage[w] = "settle" => accepted[d] <= mishaps
      /\ \A c \in todo[w] \ {d} :
           /\ c \in Deliveries /\ seen[w][c] < MaxTries /\ tries[c] = seen[w][c]
           /\ row[c].status = "processing" /\ accepted[c] <= mishaps
  BY <1>0, Attempting
<1>2. /\ stage' \in [Senders -> SenderStages]
      /\ todo' \in [Senders -> SUBSET Deliveries]
      /\ now' \in [Senders -> Deliveries \union {NoDelivery}]
      /\ stage'[w] \in {"idle", "next"} /\ todo'[w] = todo[w] \ {d} /\ now'[w] = NoDelivery
      /\ stage'[w] = "idle" => todo'[w] = {}
      /\ \A v \in Senders \ {w} : stage'[v] = stage[v] /\ todo'[v] = todo[v] /\ now'[v] = now[v]
      /\ seen' = seen
  BY <1>0, AttemptEnds
<1>3. /\ row' \in [Deliveries -> DeliveryRow] /\ row'[d] = r
      /\ \A c \in Deliveries \ {d} : row'[c] = row[c]
  BY <1>0 DEF DeliveryTypeOK
<1>4. tries' = tries /\ accepted' = accepted /\ mishaps' = mishaps /\ mishaps \in Nat /\ MaxTries \in Nat
  BY SendBoundsAssumption DEF historyVars, DeliveryTypeOK
<1>a. \/ stage[w] = "mark" /\ r.status = "delivered"
      \/ /\ stage[w] = "settle" /\ r.attempts = seen[w][d] + 1
         /\ seen[w][d] + 1 >= MaxTries => r.status = "exhausted"
         /\ seen[w][d] + 1 < MaxTries => r.status = "pending"
  BY <1>0
<1>5. DeliveryTypeOK'
  BY <1>2, <1>3, <1>4 DEF DeliveryTypeOK
<1>6. StageOK(w)'
  BY <1>2 DEF StageOK
<1>7. \A c \in todo'[w] : BatchOK(w, c)'
  BY <1>1, <1>2, <1>3, <1>4, NoDeliveryAssumption DEF BatchOK
<1>8. \A c \in todo[w] : TableOK(c)'
  <2>1. TableOK(d)'
    BY <1>1, <1>3, <1>4, <1>a DEF TableOK
  <2>2. \A c \in todo[w] \ {d} : TableOK(c)'
    BY <1>1, <1>3, <1>4 DEF TableInv, TableOK
  <2> QED BY <2>1, <2>2
<1>9. \A c \in todo[w] : OwnCover(w, c)'
  <2>1. accepted[d] <= mishaps + 1
    BY <1>1, <1>4 DEF CoverInv, CoverOK, DeliveryTypeOK
  <2>2. OwnCover(w, d)'
    BY <1>1, <1>2, <1>3, <1>4, <2>1, <1>a DEF OwnCover
  <2> QED BY <1>1, <1>4, <2>2 DEF OwnCover
<1>10. \A c \in Deliveries \ todo[w] : row'[c] = row[c]
  BY <1>1, <1>3
<1> QED BY <1>2, <1>4, <1>5, <1>6, <1>7, <1>8, <1>9, <1>10, OwnStep

LEMMA MarkDelivered_IInv ==
  ASSUME IInv, NEW w \in Senders, MarkDelivered(w)
  PROVE  IInv'
<1> DEFINE r == DeliveredRow(row[now[w]], seen[w][now[w]])
<1>1. stage[w] = "mark" /\ EndAttempt(w) /\ UNCHANGED <<historyVars, mishaps>>
      /\ row' = [row EXCEPT ![now[w]] = r]
  BY DEF MarkDelivered
<1>0. row[now[w]] \in DeliveryRow /\ seen[w][now[w]] \in Nat
  BY <1>1, Attempting
<1>2. r \in DeliveryRow /\ r.status = "delivered"
  BY <1>0, RowsWritten
<1> HIDE DEF r
<1> QED BY <1>1, <1>2, Verdict_IInv

LEMMA SettleFailure_IInv ==
  ASSUME IInv, NEW w \in Senders, SettleFailure(w)
  PROVE  IInv'
<1> DEFINE r == FailedRow(row[now[w]], seen[w][now[w]])
<1>1. stage[w] = "settle" /\ EndAttempt(w) /\ UNCHANGED <<historyVars, mishaps>>
      /\ row' = [row EXCEPT ![now[w]] = r]
  BY DEF SettleFailure
<1>0. row[now[w]] \in DeliveryRow /\ seen[w][now[w]] \in Nat /\ MaxTries \in Nat
  BY <1>1, Attempting, SendBoundsAssumption
<1>2. /\ r \in DeliveryRow /\ r.attempts = seen[w][now[w]] + 1
      /\ seen[w][now[w]] + 1 >= MaxTries => r.status = "exhausted"
      /\ seen[w][now[w]] + 1 < MaxTries => r.status = "pending"
  BY <1>0, RowsWritten
<1> HIDE DEF r
<1> QED BY <1>1, <1>2, Verdict_IInv

LEMMA MarkDeliveredError_IInv ==
  ASSUME IInv, NEW w \in Senders, MarkDeliveredError(w)
  PROVE  IInv'
<1> USE DEF IInv
<1>0. PICK d \in Deliveries :
        d = now[w] /\ d \in todo[w] /\ row[d] \in DeliveryRow /\ seen[w][d] \in Nat
  BY Attempting DEF MarkDeliveredError
<1> DEFINE r == DeliveredRow(row[d], seen[w][d])
<1>1. /\ stage[w] = "mark" /\ row' \in {row, [row EXCEPT ![d] = r]}
      /\ stage' = [stage EXCEPT ![w] = "settle"] /\ Mishap
      /\ UNCHANGED <<todo, now, seen, tries, accepted>>
  BY <1>0 DEF MarkDeliveredError, historyVars
<1>2. /\ d \in Deliveries /\ d \in todo[w] /\ seen[w][d] \in Nat
      /\ seen[w][d] + 1 <= MaxTries /\ tries[d] = seen[w][d] + 1
      /\ accepted[d] > 0 /\ row[d].status = "processing"
      /\ \A c \in todo[w] \ {d} :
           /\ c \in Deliveries /\ seen[w][c] < MaxTries /\ tries[c] = seen[w][c]
           /\ row[c].status = "processing" /\ accepted[c] <= mishaps
  BY <1>0, <1>1, Attempting
<1>3. r \in DeliveryRow /\ r.status = "delivered"
  BY <1>0, RowsWritten
<1> HIDE DEF r
<1>4. /\ row' \in [Deliveries -> DeliveryRow] /\ row'[d].status \in {"processing", "delivered"}
      /\ \A c \in Deliveries \ {d} : row'[c] = row[c]
  BY <1>1, <1>2, <1>3 DEF DeliveryTypeOK
<1>5. /\ mishaps' = mishaps + 1 /\ mishaps \in Nat /\ mishaps' \in 0..SendFaults /\ MaxTries \in Nat
      /\ stage'[w] = "settle" /\ \A v \in Senders \ {w} : stage'[v] = stage[v]
  BY <1>1, SendBoundsAssumption DEF DeliveryTypeOK, Mishap
<1>6. DeliveryTypeOK'
  BY <1>1, <1>4, <1>5 DEF DeliveryTypeOK, SenderStages
<1>7. StageOK(w)'
  BY <1>0, <1>1, <1>2, <1>5, NoDeliveryAssumption DEF StageOK
<1>8. \A c \in todo'[w] : BatchOK(w, c)'
  BY <1>0, <1>1, <1>2, <1>4, <1>5 DEF BatchInv, BatchOK
<1>9. \A c \in todo[w] : TableOK(c)'
  BY <1>1, <1>2, <1>4, <1>5 DEF TableInv, TableOK
<1>10. \A c \in todo[w] : OwnCover(w, c)'
  <2>1. \A c \in todo[w] : c \in Deliveries /\ accepted[c] \in Nat /\ accepted[c] <= mishaps + 1
    BY <1>2, <1>5 DEF CoverInv, CoverOK, DeliveryTypeOK
  <2> QED BY <1>1, <1>5, <2>1 DEF OwnCover
<1>11. \A c \in Deliveries \ todo[w] : row'[c] = row[c]
  BY <1>2, <1>4
<1> QED BY <1>1, <1>5, <1>6, <1>7, <1>8, <1>9, <1>10, <1>11, OwnStep

------------------------------------------------------------------------------
(* A worker lets go of its batch.                                          *)

LEMMA LetGo ==
  ASSUME IInv, NEW w \in Senders, row' \in [Deliveries -> DeliveryRow],
         stage' \in [Senders -> SenderStages], stage'[w] \in {"idle", "down"},
         todo' \in [Senders -> SUBSET Deliveries], todo'[w] = {},
         now' \in [Senders -> Deliveries \union {NoDelivery}], now'[w] = NoDelivery,
         \A v \in Senders \ {w} : stage'[v] = stage[v] /\ todo'[v] = todo[v] /\ now'[v] = now[v],
         UNCHANGED <<seen, tries, accepted>>,
         Mishap \/ (mishaps' = mishaps /\ stage[w] \in {"next", "down"}),
         \A d \in Deliveries \ todo[w] : row'[d] = row[d],
         \A d \in todo[w] : TableOK(d)'
  PROVE  IInv'
<1> USE DEF IInv
<1>1. mishaps \in Nat /\ mishaps' \in 0..SendFaults /\ mishaps <= mishaps'
      /\ (mishaps' = mishaps + 1 \/ (mishaps' = mishaps /\ stage[w] \in {"next", "down"}))
  BY SendBoundsAssumption DEF DeliveryTypeOK, Mishap
<1>2. DeliveryTypeOK'
  BY <1>1 DEF DeliveryTypeOK
<1>3. StageOK(w)'
  BY DEF StageOK
<1>4. \A d \in todo[w] : OwnCover(w, d)'
  <2> SUFFICES ASSUME NEW d \in todo[w] PROVE accepted[d] <= mishaps'
    BY DEF OwnCover
  <2>1. d \in Deliveries /\ accepted[d] \in Nat /\ CoverOK(d) /\ accepted[d] <= mishaps + 1
    BY <1>1 DEF DeliveryTypeOK, CoverInv, CoverOK
  <2>2. CASE mishaps' = mishaps + 1
    BY <2>1, <2>2
  <2>3. CASE mishaps' = mishaps /\ stage[w] \in {"next", "down"}
    <3>1. \A v \in Senders : stage[v] = "mark" => now[v] # d
      BY <2>1, <2>3, NoDeliveryAssumption DEF StageInv, StageOK, Disjoint
    <3> QED BY <2>1, <2>3, <3>1 DEF CoverOK
  <2> QED BY <1>1, <2>2, <2>3
<1> QED BY <1>1, <1>2, <1>3, <1>4, OwnStep

LEMMA Quits ==
  ASSUME IInv, NEW w \in Senders, stage'[w] \in {"idle", "down"},
         stage' \in [Senders -> SenderStages],
         todo' \in [Senders -> SUBSET Deliveries], todo'[w] = {},
         now' \in [Senders -> Deliveries \union {NoDelivery}], now'[w] = NoDelivery,
         \A v \in Senders \ {w} : stage'[v] = stage[v] /\ todo'[v] = todo[v] /\ now'[v] = now[v],
         UNCHANGED <<row, seen, tries, accepted>>,
         Mishap \/ (mishaps' = mishaps /\ stage[w] \in {"next", "down"})
  PROVE  IInv'
<1>1. row' \in [Deliveries -> DeliveryRow] /\ todo[w] \subseteq Deliveries
  BY DEF IInv, DeliveryTypeOK
<1>2. \A d \in todo[w] : TableOK(d)'
  BY <1>1 DEF IInv, TableInv, TableOK
<1> QED BY <1>1, <1>2, LetGo

LEMMA DecryptFails_IInv ==
  ASSUME IInv, NEW w \in Senders, NEW d \in Deliveries, DecryptFails(w, d)
  PROVE  IInv'
<1>1. EndBatch(w) /\ stage[w] = "next" /\ UNCHANGED <<row, tries, accepted, mishaps>> /\ DeliveryTypeOK
  BY DEF DecryptFails, historyVars, IInv
<1> QED BY <1>1, Idles, Quits

LEMMA SenderDies_IInv ==
  ASSUME IInv, NEW w \in Senders, SenderDies(w)
  PROVE  IInv'
<1>1. /\ stage' \in [Senders -> SenderStages] /\ stage'[w] = "down"
      /\ todo' \in [Senders -> SUBSET Deliveries] /\ todo'[w] = {}
      /\ now' \in [Senders -> Deliveries \union {NoDelivery}] /\ now'[w] = NoDelivery
      /\ \A v \in Senders \ {w} : stage'[v] = stage[v] /\ todo'[v] = todo[v] /\ now'[v] = now[v]
      /\ Mishap /\ UNCHANGED <<row, seen, tries, accepted>>
  BY DEF SenderDies, historyVars, IInv, DeliveryTypeOK, SenderStages
<1> QED BY <1>1, Quits

LEMMA SenderStarts_IInv ==
  ASSUME IInv, NEW w \in Senders, SenderStarts(w)
  PROVE  IInv'
<1>1. EndBatch(w) /\ stage[w] = "down" /\ UNCHANGED <<row, tries, accepted, mishaps>> /\ DeliveryTypeOK
  BY DEF SenderStarts, historyVars, IInv
<1> QED BY <1>1, Idles, Quits

LEMMA SelectDueError_IInv ==
  ASSUME IInv, NEW w \in Senders, SelectDueError(w)
  PROVE  IInv'
<1>1. /\ Mishap /\ stage[w] = "claim" /\ EndBatch(w) /\ DeliveryTypeOK
      /\ UNCHANGED <<tries, accepted>> /\ row' \in {row, Processing(todo[w])}
  BY DEF SelectDueError, historyVars, IInv
<1>2. todo[w] \subseteq Deliveries
  BY <1>1 DEF DeliveryTypeOK
<1>3. CASE UNCHANGED row
  BY <1>1, <1>3, Idles, Quits
<1>4. CASE row' = Processing(todo[w])
  <2>1. /\ row' \in [Deliveries -> DeliveryRow]
        /\ \A d \in todo[w] : row'[d].status = "processing"
        /\ \A d \in Deliveries \ todo[w] : row'[d] = row[d]
    BY <1>1, <1>2, <1>4, RowsClaimed
  <2>2. \A d \in todo[w] : TableOK(d)'
    BY <1>1, <1>2, <2>1 DEF IInv, TableInv, TableOK
  <2> QED BY <1>1, <2>1, <2>2, Idles, LetGo
<1> QED BY <1>1, <1>3, <1>4

LEMMA SettleError_IInv ==
  ASSUME IInv, NEW w \in Senders, SettleError(w)
  PROVE  IInv'
<1>0. PICK d \in Deliveries :
        /\ d = now[w] /\ d \in todo[w] /\ row[d] \in DeliveryRow /\ seen[w][d] \in Nat
        /\ seen[w][d] + 1 <= MaxTries /\ tries[d] = seen[w][d] + 1
  BY Attempting DEF SettleError
<1> DEFINE r == FailedRow(row[d], seen[w][d])
<1>1. /\ Mishap /\ EndBatch(w) /\ DeliveryTypeOK /\ UNCHANGED <<tries, accepted>>
      /\ row' \in {row, [row EXCEPT ![d] = r]}
  BY <1>0 DEF SettleError, historyVars, IInv
<1>2. /\ r \in DeliveryRow /\ r.attempts = seen[w][d] + 1
      /\ seen[w][d] + 1 >= MaxTries => r.status = "exhausted"
      /\ seen[w][d] + 1 < MaxTries => r.status = "pending"
  BY <1>0, RowsWritten
<1> HIDE DEF r
<1>3. CASE UNCHANGED row
  BY <1>1, <1>3, Idles, Quits
<1>4. CASE row' = [row EXCEPT ![d] = r]
  <2>1. /\ row' \in [Deliveries -> DeliveryRow] /\ row'[d] = r
        /\ \A c \in Deliveries \ {d} : row'[c] = row[c]
    BY <1>1, <1>2, <1>4 DEF DeliveryTypeOK
  <2>2. \A c \in todo[w] : c \in Deliveries
    BY <1>1 DEF DeliveryTypeOK
  <2>3. TableOK(d)'
    BY <1>0, <1>1, <1>2, <2>1, SendBoundsAssumption DEF TableOK
  <2>4. \A c \in todo[w] : TableOK(c)'
    BY <1>1, <2>1, <2>2, <2>3 DEF IInv, TableInv, TableOK
  <2>5. \A c \in Deliveries \ todo[w] : row'[c] = row[c]
    BY <1>0, <2>1
  <2> QED BY <1>1, <2>1, <2>4, <2>5, Idles, LetGo
<1> QED BY <1>1, <1>3, <1>4

------------------------------------------------------------------------------
LEMMA Step_IInv == IInv /\ [DeliveryNext]_deliveryVars => IInv'
<1> SUFFICES ASSUME IInv, [DeliveryNext]_deliveryVars PROVE IInv'
  OBVIOUS
<1>1. CASE UNCHANGED deliveryVars
  BY <1>1 DEF deliveryVars, IInv, DeliveryTypeOK, StageInv, StageOK, Disjoint, BatchInv, BatchOK,
              TableInv, TableOK, CoverInv, CoverOK
<1>2. ASSUME NEW e \in Events, NEW enabled \in SUBSET Subs, PostEvent(e, enabled) PROVE IInv'
  BY <1>2, PostEvent_IInv
<1>3. ASSUME NEW d \in Deliveries, BackoffEnds(d) PROVE IInv'
  BY <1>3, BackoffEnds_IInv
<1>4. ASSUME NEW w \in Senders, SenderStep(w) PROVE IInv'
  <2>1. ASSUME NEW d \in Deliveries, PostAccepted(w, d) PROVE IInv'
    BY <2>1, Post_IInv DEF PostAccepted
  <2>2. ASSUME NEW d \in Deliveries, PostRefused(w, d) PROVE IInv'
    BY <2>2, Post_IInv DEF PostRefused
  <2> QED BY <1>4, <2>1, <2>2, SelectDue_IInv, CommitClaim_IInv, MarkDelivered_IInv,
             SettleFailure_IInv, DecryptFails_IInv DEF SenderStep
<1>5. ASSUME NEW w \in Senders, SenderFailure(w) PROVE IInv'
  <2>1. ASSUME NEW d \in Deliveries, AnswerLost(w, d) PROVE IInv'
    BY <2>1, Post_IInv DEF AnswerLost
  <2> QED BY <1>5, <2>1, SelectDueError_IInv, MarkDeliveredError_IInv, SettleError_IInv,
             SenderDies_IInv DEF SenderFailure
<1>6. ASSUME NEW w \in Senders, SenderStarts(w) PROVE IInv'
  BY <1>6, SenderStarts_IInv
<1> QED BY <1>1, <1>2, <1>3, <1>4, <1>5, <1>6 DEF DeliveryNext

\* The inductive invariant holds in every reachable state.
THEOREM DeliveryInvariantHolds == DeliverySpec => []IInv
BY Init_IInv, Step_IInv, PTL DEF DeliverySpec

\* outboundWebhookSender.ts: rows, batches and histories keep their types.
THEOREM DeliveryTypeCorrect == DeliverySpec => []DeliveryTypeOK
<1>1. IInv => DeliveryTypeOK
  BY DEF IInv
<1> QED BY <1>1, DeliveryInvariantHolds, PTL

\* However many workers call processDueOutboundWebhooks: no two of them hold
\* one delivery, and a claimed one is not claimable (FOR UPDATE SKIP LOCKED,
\* then 'processing').
THEOREM SendsAreExclusive == DeliverySpec => []ExclusiveSend
<1>1. IInv => ExclusiveSend
  BY DEF IInv, ExclusiveSend, Disjoint, BatchInv, BatchOK
<1> QED BY <1>1, DeliveryInvariantHolds, PTL

\* attemptDelivery(): each acceptance beyond the first has a lost answer, a
\* failed UPDATE or a crash of its own behind it, and a row says 'delivered'
\* only of what was accepted.
THEOREM AcceptancesAreCovered == DeliverySpec => []AcceptedOnceButForMishaps
<1>1. IInv => AcceptedOnceButForMishaps
  BY SendBoundsAssumption
     DEF IInv, AcceptedOnceButForMishaps, CoverInv, CoverOK, TableInv, TableOK, DeliveryTypeOK
<1> QED BY <1>1, DeliveryInvariantHolds, PTL

------------------------------------------------------------------------------
(* The refinement.                                                         *)

Phase == [d \in Deliveries |-> PhaseOf(row[d].status)]

LEMMA Unseen ==
  ASSUME UNCHANGED <<row, tries, accepted>>
  PROVE  UNCHANGED Promise!dcvars
BY DEF Promise!dcvars

LEMMA Written ==
  ASSUME DeliveryTypeOK, NEW d \in Deliveries, NEW r \in DeliveryRow,
         row' = [row EXCEPT ![d] = r]
  PROVE  Phase' = [Phase EXCEPT ![d] = PhaseOf(r.status)]
<1>1. row'[d] = r /\ \A c \in Deliveries \ {d} : row'[c] = row[c]
  BY DEF DeliveryTypeOK
<1>2. Phase' = [c \in Deliveries |-> PhaseOf(row'[c].status)]
  BY DEF Phase
<1>3. \A c \in Deliveries : PhaseOf(row'[c].status) =
                              IF c = d THEN PhaseOf(r.status) ELSE PhaseOf(row[c].status)
  BY <1>1
<1>4. Phase' = [c \in Deliveries |-> IF c = d THEN PhaseOf(r.status) ELSE PhaseOf(row[c].status)]
  BY <1>2, <1>3
<1> QED BY <1>4 DEF Phase

\* A verdict, recorded by whichever statement, is a Conclude.
LEMMA Concluded ==
  ASSUME IInv, NEW d \in Deliveries, NEW r \in DeliveryRow, UNCHANGED <<tries, accepted>>,
         row' = [row EXCEPT ![d] = r], row[d].status \in {"processing", "delivered"},
         \/ r.status = "delivered" /\ accepted[d] > 0
         \/ r.status = "pending" /\ tries[d] < MaxTries
         \/ r.status = "exhausted" /\ tries[d] = MaxTries
  PROVE  Promise!DCNext
<1>1. Phase' = [Phase EXCEPT ![d] = PhaseOf(r.status)]
  BY Written DEF IInv
<1>2. Phase[d] \in {"taken", "delivered"}
  BY DEF Phase, PhaseOf
<1>3. PhaseOf("delivered") = "delivered" /\ PhaseOf("pending") = "waiting"
      /\ PhaseOf("exhausted") = "exhausted"
  BY DEF PhaseOf
<1>4. Promise!Conclude(d)
  BY <1>1, <1>2, <1>3 DEF Promise!Conclude, Phase
<1> QED BY <1>4 DEF Promise!DCNext

\* So is a claim, or an event, for all its rows at once.
LEMMA Moved ==
  ASSUME DeliveryTypeOK, NEW S \in SUBSET Deliveries, NEW from, NEW to,
         \A d \in S : PhaseOf(row[d].status) = from /\ PhaseOf(row'[d].status) = to,
         \A d \in Deliveries \ S : row'[d] = row[d], UNCHANGED <<tries, accepted>>
  PROVE  Promise!Move(S, from, to)
<1>1. Phase' = [d \in Deliveries |-> PhaseOf(row'[d].status)]
  BY DEF Phase
<1>2. Phase' = [d \in Deliveries |-> IF d \in S THEN to ELSE Phase[d]]
  BY <1>1 DEF Phase
<1>3. \A d \in S : Phase[d] = from
  BY DEF Phase
<1> QED BY <1>2, <1>3 DEF Promise!Move, Phase

LEMMA Claimed ==
  ASSUME IInv, NEW w \in Senders, stage[w] = "claim", row' = Processing(todo[w]),
         UNCHANGED <<tries, accepted>>
  PROVE  Promise!DCNext
<1>1. todo[w] \in SUBSET Deliveries /\ DeliveryTypeOK
  BY DEF IInv, DeliveryTypeOK
<1>2. /\ \A d \in todo[w] : row[d].status = "pending" /\ row'[d].status = "processing"
      /\ \A d \in Deliveries \ todo[w] : row'[d] = row[d]
  BY <1>1, RowsClaimed DEF IInv, BatchInv, BatchOK
<1>3. PhaseOf("pending") = "waiting" /\ PhaseOf("processing") = "taken"
  BY DEF PhaseOf
<1>4. Promise!Move(todo[w], "waiting", "taken")
  BY <1>1, <1>2, <1>3, Moved
<1> QED BY <1>1, <1>4 DEF Promise!DCNext

LEMMA Posted ==
  ASSUME IInv, NEW w \in Senders, NEW d \in Deliveries, NEW answer, Post(w, d, answer),
         accepted' \in {accepted, [accepted EXCEPT ![d] = @ + 1]}
  PROVE  Promise!DCNext
<1>1. /\ stage[w] = "next" /\ d \in todo[w] /\ row' = row
      /\ tries' = [tries EXCEPT ![d] = @ + 1]
  BY DEF Post
<1>2. now[w] = NoDelivery /\ d # NoDelivery
  BY <1>1, NoDeliveryAssumption DEF IInv, StageInv, StageOK, DeliveryTypeOK
<1>3. row[d].status = "processing" /\ tries[d] < MaxTries
  BY <1>1, <1>2 DEF IInv, BatchInv, BatchOK
<1>4. Phase[d] = "taken" /\ Phase' = Phase
  BY <1>1, <1>3 DEF Phase, PhaseOf
<1>5. Promise!Try(d)
  BY <1>1, <1>3, <1>4 DEF Promise!Try, Phase
<1> QED BY <1>5 DEF Promise!DCNext

LEMMA AttemptSettled ==
  ASSUME IInv, NEW w \in Senders, UNCHANGED <<tries, accepted>>, stage[w] \in {"mark", "settle"},
         LET d == now[w] IN
         \/ row' = row
         \/ stage[w] = "mark" /\ row' = [row EXCEPT ![d] = DeliveredRow(@, seen[w][d])]
         \/ stage[w] = "settle" /\ row' = [row EXCEPT ![d] = FailedRow(@, seen[w][d])]
  PROVE  [Promise!DCNext]_(Promise!dcvars)
<1>0. PICK d \in Deliveries :
        /\ d = now[w] /\ row[d] \in DeliveryRow /\ seen[w][d] \in Nat
        /\ seen[w][d] + 1 <= MaxTries /\ tries[d] = seen[w][d] + 1
        /\ row[d].status \in {"processing", "delivered"}
        /\ stage[w] = "mark" => accepted[d] > 0
  BY Attempting
<1>1. CASE row' = row
  BY <1>1, Unseen
<1>2. CASE stage[w] = "mark" /\ row' = [row EXCEPT ![d] = DeliveredRow(row[d], seen[w][d])]
  <2> DEFINE r == DeliveredRow(row[d], seen[w][d])
  <2>1. r \in DeliveryRow /\ r.status = "delivered"
    BY <1>0, RowsWritten
  <2> HIDE DEF r
  <2>2. row' = [row EXCEPT ![d] = r]
    BY <1>2 DEF r
  <2> QED BY <1>0, <1>2, <2>1, <2>2, Concluded
<1>3. CASE stage[w] = "settle" /\ row' = [row EXCEPT ![d] = FailedRow(row[d], seen[w][d])]
  <2> DEFINE r == FailedRow(row[d], seen[w][d])
  <2>1. /\ r \in DeliveryRow
        /\ seen[w][d] + 1 >= MaxTries => r.status = "exhausted"
        /\ seen[w][d] + 1 < MaxTries => r.status = "pending"
    BY <1>0, RowsWritten
  <2> HIDE DEF r
  <2>2. row' = [row EXCEPT ![d] = r]
    BY <1>3 DEF r
  <2>3. \/ r.status = "pending" /\ tries[d] < MaxTries
        \/ r.status = "exhausted" /\ tries[d] = MaxTries
    BY <1>0, <2>1, SendBoundsAssumption
  <2> QED BY <1>0, <2>1, <2>2, <2>3, Concluded
<1> QED BY <1>0, <1>1, <1>2, <1>3

LEMMA Step_Contract == IInv /\ [DeliveryNext]_deliveryVars => [Promise!DCNext]_(Promise!dcvars)
<1> SUFFICES ASSUME IInv, [DeliveryNext]_deliveryVars PROVE [Promise!DCNext]_(Promise!dcvars)
  OBVIOUS
<1>1. CASE UNCHANGED deliveryVars
  BY <1>1, Unseen DEF deliveryVars
<1>2. ASSUME NEW e \in Events, NEW enabled \in SUBSET Subs, PostEvent(e, enabled)
      PROVE  Promise!DCNext
  <2> DEFINE new == {e} \X enabled
  <2>1. /\ new \in SUBSET Deliveries
        /\ \A d \in new : row[d].status = "absent" /\ row'[d].status = "pending"
        /\ \A d \in Deliveries \ new : row'[d] = row[d]
        /\ UNCHANGED <<tries, accepted>>
    BY <1>2 DEF PostEvent, Deliveries, historyVars
  <2>2. PhaseOf("absent") = "absent" /\ PhaseOf("pending") = "waiting"
    BY DEF PhaseOf
  <2> HIDE DEF new
  <2>3. Promise!Move(new, "absent", "waiting")
    BY <2>1, <2>2, Moved DEF IInv
  <2> QED BY <2>1, <2>3 DEF Promise!DCNext
<1>3. ASSUME NEW d \in Deliveries, BackoffEnds(d) PROVE UNCHANGED Promise!dcvars
  <2> DEFINE r == [row[d] EXCEPT !.due = TRUE]
  <2>1. r \in DeliveryRow /\ r.status = row[d].status /\ row' = [row EXCEPT ![d] = r]
        /\ UNCHANGED <<tries, accepted>>
    BY <1>3 DEF BackoffEnds, historyVars, IInv, DeliveryTypeOK, DeliveryRow
  <2> HIDE DEF r
  <2>2. Phase' = Phase
    BY <2>1, Written DEF IInv, Phase
  <2> QED BY <2>1, <2>2 DEF Promise!dcvars, Phase
<1>4. ASSUME NEW w \in Senders, CommitClaim(w) \/ SelectDueError(w)
      PROVE  [Promise!DCNext]_(Promise!dcvars)
  BY <1>4, Claimed, Unseen DEF CommitClaim, SelectDueError, historyVars
<1>5. ASSUME NEW w \in Senders, NEW d \in Deliveries,
             PostAccepted(w, d) \/ PostRefused(w, d) \/ AnswerLost(w, d)
      PROVE  Promise!DCNext
  BY <1>5, Posted DEF PostAccepted, PostRefused, AnswerLost
<1>6. ASSUME NEW w \in Senders,
             MarkDelivered(w) \/ SettleFailure(w) \/ MarkDeliveredError(w) \/ SettleError(w)
      PROVE  [Promise!DCNext]_(Promise!dcvars)
  BY <1>6, AttemptSettled
     DEF MarkDelivered, SettleFailure, MarkDeliveredError, SettleError, historyVars
<1>7. ASSUME NEW w \in Senders, SelectDue(w) \/ SenderDies(w) \/ SenderStarts(w)
      PROVE  UNCHANGED Promise!dcvars
  BY <1>7, Unseen DEF SelectDue, SenderDies, SenderStarts, historyVars
<1>8. ASSUME NEW w \in Senders, NEW d \in Deliveries, DecryptFails(w, d)
      PROVE  UNCHANGED Promise!dcvars
  BY <1>8, Unseen DEF DecryptFails, historyVars
<1> QED BY <1>1, <1>2, <1>3, <1>4, <1>5, <1>6, <1>7, <1>8
        DEF DeliveryNext, SenderStep, SenderFailure

LEMMA Init_Contract == DeliveryInit => Promise!DCInit
BY DEF DeliveryInit, Promise!DCInit, PhaseOf

\* processDueOutboundWebhooks() and enqueueOutboundWebhook() keep the promise
\* of DeliveryContract, step by step: through every retry, crash and failed
\* statement a delivery is tried at most MaxTries times.
THEOREM DeliveryKeepsContract == DeliverySpec => KeepsDeliveryContract
BY Init_IInv, Step_IInv, Init_Contract, Step_Contract, PTL
   DEF DeliverySpec, KeepsDeliveryContract, Promise!DCSpec
==============================================================================
