------------------------------ MODULE OfficeProofs -----------------------------
(****************************************************************************)
(* Theorems about LeadStages, Reminders, ProviderFailover, ConnectionPool, *)
(* VoiceSession and CostWriter, for all values of their constants, and about*)
(* MCOffice, which runs them beside LeadIntake and Accounts.               *)
(****************************************************************************)
EXTENDS MCOffice, AccessProofs, SequenceTheorems

------------------------------------------------------------------------------
(* A lead's stage and its history.                                         *)

\* Each move that has begun has a time of its own.
TimesInv ==
  /\ \A m \in Moves : move[m].at # "idle" => move[m].created_at \in 1 .. clock
  /\ \A m, n \in Moves : m # n /\ move[m].at # "idle" /\ move[n].at # "idle" =>
       move[m].created_at # move[n].created_at

\* A move that has begun has a stage of the organization for its target.
TargetsInv == \A m \in Moves : move[m].at # "idle" => move[m].to \in Stages

\* Open moves have met each other; one that has met nobody still knows the stage.
OverlapsInv ==
  /\ \A m, n \in Open : m # n => n \in move[m].met
  /\ \A m \in Moves : move[m].at \in {"read", "updated"} /\ move[m].met = {} => move[m].from = stage

\* Where the lead was before its i-th move.
StageBefore(i) == IF i = 1 THEN NoStage ELSE history[i - 1].to

EntryOK(i) ==
  /\ move[history[i].by].at = "over"
  /\ history[i].created_at = move[history[i].by].created_at
  /\ \A j \in 1 .. Len(history) : j # i => history[j].by # history[i].by
  /\ \A m \in Open : move[m].created_at < history[i].created_at =>
       m \in move[history[i].by].met /\ history[i].by \in move[m].met
  /\ Apart(history[i]) =>
       /\ \A j \in 1 .. Len(history) : /\ j < i => Before(j, i)
                                       /\ j > i => Before(i, j)
       /\ history[i].from = StageBefore(i)

PageInv ==
  /\ page.at = "lead" => page.stage = NoStage \/ \E i \in 1 .. Len(history) : history[i].to = page.stage
  /\ page.at = "shown" =>
       page.stage = NoStage \/ \E i \in 1 .. Len(page.history) : page.history[i].to = page.stage

StagesInv ==
  /\ StagesTypeOK
  /\ TimesInv
  /\ TargetsInv
  /\ OverlapsInv
  /\ \A i \in 1 .. Len(history) : EntryOK(i)
  /\ stage = StageBefore(Len(history) + 1)
  /\ PageInv

------------------------------------------------------------------------------
(* The listed history.                                                     *)

Earlier(i) == {j \in 1 .. Len(history) : Before(j, i)}

\* getLeadStageHistory lists every entry once, and one that overlapped no other
\* at the place at which it was committed.
LEMMA ListedFacts ==
  ASSUME StagesInv
  PROVE  /\ Listed \in Seq(Entry) /\ Len(Listed) = Len(history)
         /\ \A i \in 1 .. Len(history) : \E n \in 1 .. Len(history) : Listed[n] = history[i]
         /\ \A n \in 1 .. Len(history) : \E i \in 1 .. Len(history) :
              Listed[n] = history[i] /\ (Apart(history[i]) => i = n)
<1> DEFINE N == Len(history)
           I == 1 .. N
           r == [i \in I |-> Cardinality(Earlier(i)) + 1]
<1>0. N \in Nat /\ history \in [I -> Entry] /\ DOMAIN history = I
  BY LenProperties DEF StagesInv, StagesTypeOK
<1>key. \A i, j \in I : /\ history[i].created_at \in Nat
                        /\ i # j => history[i].created_at # history[j].created_at
  <2>1. \A i \in I : history[i] \in Entry
    BY <1>0
  <2>2. \A i \in I : /\ history[i].created_at \in Nat /\ history[i].by \in Moves
                     /\ move[history[i].by].at # "idle"
                     /\ history[i].created_at = move[history[i].by].created_at
    BY <2>1 DEF Entry, StagesInv, EntryOK
  <2>3. \A i, j \in I : i # j => history[i].by # history[j].by
    BY DEF StagesInv, EntryOK
  <2> QED BY <2>2, <2>3 DEF StagesInv, TimesInv
<1>I. IsFiniteSet(I) /\ Cardinality(I) = N
  BY <1>0, FS_Interval
<1>1. ASSUME NEW i \in I
      PROVE  IsFiniteSet(Earlier(i)) /\ Cardinality(Earlier(i)) \in Nat /\ r[i] \in I
  <2>1. Earlier(i) \subseteq I \ {i}
    BY <1>key DEF Earlier, Before
  <2>2. IsFiniteSet(I \ {i}) /\ Cardinality(I \ {i}) = N - 1
    BY <1>I, FS_RemoveElement
  <2>3. IsFiniteSet(Earlier(i)) /\ Cardinality(Earlier(i)) <= N - 1
    BY <2>1, <2>2, FS_Subset
  <2>4. Cardinality(Earlier(i)) \in Nat
    BY <2>3, FS_CardinalityType
  <2> QED BY <1>0, <2>3, <2>4
<1>2. ASSUME NEW i \in I, NEW j \in I, history[i].created_at < history[j].created_at
      PROVE  r[i] < r[j]
  <2>1. Earlier(i) \subseteq Earlier(j) /\ i \in Earlier(j) /\ i \notin Earlier(i)
    BY <1>key, <1>2 DEF Earlier, Before
  <2>2. Cardinality(Earlier(i)) < Cardinality(Earlier(j))
    <3>1. Earlier(i) # Earlier(j)
      BY <2>1
    <3>2. Cardinality(Earlier(i)) <= Cardinality(Earlier(j))
          /\ Cardinality(Earlier(i)) # Cardinality(Earlier(j))
      BY <1>1, <2>1, <3>1, FS_Subset
    <3> QED BY <1>1, <3>2
  <2> QED BY <1>1, <2>2
<1>3. \A i, j \in I : r[i] = r[j] => i = j
  <2> SUFFICES ASSUME NEW i \in I, NEW j \in I, i # j PROVE r[i] # r[j]
    OBVIOUS
  <2>1. history[i].created_at < history[j].created_at \/ history[j].created_at < history[i].created_at
    BY <1>key
  <2>2. r[i] \in Nat /\ r[j] \in Nat
    <3>1. r[i] \in I /\ r[j] \in I
      BY <1>1
    <3> HIDE DEF r
    <3> QED BY <1>0, <3>1
  <2> HIDE DEF r, I
  <2> QED BY <1>2, <2>1, <2>2
<1>4. \A n \in I : \E i \in I : r[i] = n
  <2>1. r \in [I -> I]
    BY <1>1
  <2>2. IsInjective(r)
    BY <1>3, <2>1 DEF IsInjective
  <2>3. r \in Injection(I, I)
    BY <2>1, <2>2 DEF Injection
  <2>4. r \in Surjection(I, I)
    BY <1>I, <2>3, FS_Injection
  <2> QED BY <2>4 DEF Surjection
<1>5. ASSUME NEW n \in I
      PROVE  \E i \in I : r[i] = n /\ Listed[n] = history[i]
  <2>1. PICK i \in I : r[i] = n
    BY <1>4
  <2>2. PICK k : k = CHOOSE x \in I : Cardinality(Earlier(x)) = n - 1
    OBVIOUS
  <2>3. Cardinality(Earlier(i)) = n - 1
    BY <1>0, <1>1, <2>1
  <2>4. k \in I /\ Cardinality(Earlier(k)) = n - 1
    BY <2>2, <2>3
  <2>5. r[k] = n
    BY <1>0, <2>4
  <2>6. Listed[n] = history[k]
    BY <1>0, <2>2 DEF Listed, Earlier
  <2> QED BY <2>4, <2>5, <2>6
<1>6. Listed \in Seq(Entry) /\ Len(Listed) = N
  <2>1. Listed = [n \in I |-> Listed[n]]
    BY <1>0 DEF Listed
  <2>2. \A n \in I : Listed[n] \in Entry
    BY <1>0, <1>5
  <2>3. Listed \in [I -> Entry]
    BY <2>1, <2>2
  <2>4. Listed \in Seq(Entry)
    BY <1>0, <2>3, SeqDef
  <2>5. DOMAIN Listed = 1 .. Len(Listed) /\ Len(Listed) \in Nat
    BY <2>4, LenProperties
  <2>6. DOMAIN Listed = 1 .. N
    BY <2>3
  <2>7. PICK k \in Nat : k = Len(Listed) /\ 1 .. k = 1 .. N
    BY <2>5, <2>6
  <2>8. Cardinality(1 .. k) = k
    BY FS_Interval
  <2> QED BY <1>I, <2>4, <2>7, <2>8
<1>7. \A i \in I : \E n \in I : Listed[n] = history[i]
  <2> SUFFICES ASSUME NEW i \in I PROVE \E n \in I : Listed[n] = history[i]
    OBVIOUS
  <2>1. r[i] \in I
    BY <1>1
  <2>2. PICK k \in I : r[k] = r[i] /\ Listed[r[i]] = history[k]
    BY <1>5, <2>1
  <2> QED BY <1>3, <2>1, <2>2
<1>8. ASSUME NEW i \in I, Apart(history[i]) PROVE r[i] = i
  <2>1. \A j \in I : /\ j < i => history[j].created_at < history[i].created_at
                     /\ j > i => history[i].created_at < history[j].created_at
    BY <1>8 DEF StagesInv, EntryOK, Before
  <2>2. Earlier(i) = 1 .. i - 1
    <3>1. \A j \in I : Before(j, i) <=> j < i
      BY <1>0, <1>key, <2>1 DEF Before
    <3> QED BY <1>0, <3>1 DEF Earlier
  <2>3. Cardinality(1 .. i - 1) = i - 1
    BY <1>0, FS_Interval
  <2> QED BY <1>0, <2>2, <2>3
<1>9. \A n \in I : \E i \in I : Listed[n] = history[i] /\ (Apart(history[i]) => i = n)
  BY <1>5, <1>8
<1> QED BY <1>6, <1>7, <1>9

------------------------------------------------------------------------------
(* The steps.                                                              *)

MoveRow == [at : {"idle", "begun", "read", "updated", "over"}, to : Places,
            from : Places, created_at : Nat, met : SUBSET Moves]

LEMMA StagesInit_Inv == StagesInit => StagesInv
<1> SUFFICES ASSUME StagesInit PROVE StagesInv
  OBVIOUS
<1> USE DEF StagesInit
<1>1. Len(history) = 0 /\ history \in Seq(Entry)
  BY EmptySeq
<1>2. StagesTypeOK
  BY <1>1 DEF StagesTypeOK, Places
<1>3. \A m \in Moves : move[m].at = "idle"
  OBVIOUS
<1>4. TimesInv /\ TargetsInv /\ OverlapsInv
  BY <1>3 DEF TimesInv, TargetsInv, OverlapsInv, Open
<1>5. stage = StageBefore(Len(history) + 1)
  BY <1>1 DEF StageBefore
<1> QED BY <1>1, <1>2, <1>4, <1>5 DEF StagesInv, PageInv

\* The history of moves that are over stays explained while others begin and go on.
LEMMA EntriesStay ==
  ASSUME StagesInv, history' = history, move' \in [Moves -> MoveRow],
         \A m \in Moves : move[m].at = "over" => move'[m] = move[m],
         \A m \in Open' : \/ /\ m \in Open /\ move'[m].created_at = move[m].created_at
                             /\ move[m].met \subseteq move'[m].met
                          \/ move'[m].created_at > clock
  PROVE  \A i \in 1 .. Len(history') : EntryOK(i)'
<1> SUFFICES ASSUME NEW i \in 1 .. Len(history) PROVE EntryOK(i)'
  OBVIOUS
<1>1. history[i] \in Entry /\ \A j \in 1 .. Len(history) : history[j] \in Entry
  BY LenProperties DEF StagesInv, StagesTypeOK
<1>2. EntryOK(i) /\ history[i].by \in Moves
  BY <1>1 DEF StagesInv, Entry
<1>3. move'[history[i].by] = move[history[i].by] /\ move[history[i].by].at = "over"
  BY <1>2 DEF EntryOK
<1>4. history[i].created_at \in 1 .. clock /\ clock \in Nat
  BY <1>2, <1>3 DEF EntryOK, StagesInv, TimesInv, StagesTypeOK
<1>5. ASSUME NEW m \in Open', move'[m].created_at < history[i].created_at
      PROVE  m \in move'[history[i].by].met /\ history[i].by \in move'[m].met
  <2>1. move'[m].created_at \in Nat
    <3>1. m \in Moves
      BY DEF Open
    <3> QED BY <3>1 DEF MoveRow
  <2>2. m \in Open /\ move'[m].created_at = move[m].created_at /\ move[m].met \subseteq move'[m].met
    BY <1>4, <1>5, <2>1
  <2> QED BY <1>2, <1>3, <1>5, <2>2 DEF EntryOK
<1>6. Apart(history[i])' <=> Apart(history[i])
  BY <1>3 DEF Apart
<1>7. StageBefore(i)' = StageBefore(i)
  BY DEF StageBefore
<1>8. \A j \in 1 .. Len(history) : (Before(j, i)' <=> Before(j, i)) /\ (Before(i, j)' <=> Before(i, j))
  BY DEF Before
<1> QED BY <1>2, <1>3, <1>5, <1>6, <1>7, <1>8 DEF EntryOK

LEMMA BeginMove_Inv ==
  ASSUME StagesInv, NEW x \in Moves, NEW to \in Stages, BeginMove(x, to)
  PROVE  StagesInv'
<1> USE DEF BeginMove
<1>0. move \in [Moves -> MoveRow] /\ clock \in Nat
  BY DEF StagesInv, StagesTypeOK, MoveRow
<1>1. Open \subseteq Moves /\ x \notin Open
  BY DEF Open
<1>2. /\ move'[x] = [move[x] EXCEPT !.at = "begun", !.to = to, !.created_at = clock + 1, !.met = Open]
      /\ move'[x] \in MoveRow
      /\ move'[x].at = "begun" /\ move'[x].created_at = clock + 1 /\ move'[x].met = Open
      /\ move'[x].to = to
  <2>1. move'[x] = [move[x] EXCEPT !.at = "begun", !.to = to, !.created_at = clock + 1, !.met = Open]
    OBVIOUS
  <2>2. move[x] \in MoveRow /\ to \in Places /\ clock + 1 \in Nat /\ Open \in SUBSET Moves
    BY <1>0, <1>1 DEF Places
  <2> QED BY <2>1, <2>2 DEF MoveRow
<1>3. ASSUME NEW n \in Moves \ {x}
      PROVE  /\ move'[n] \in MoveRow
             /\ move'[n].at = move[n].at /\ move'[n].created_at = move[n].created_at
             /\ move'[n].from = move[n].from /\ move'[n].to = move[n].to
             /\ n \in Open => move'[n].met = move[n].met \union {x}
             /\ n \notin Open => move'[n] = move[n]
  <2>1. CASE n \in Open
    <3>1. move'[n] = [move[n] EXCEPT !.met = move[n].met \union {x}]
      BY <2>1
    <3>2. move[n] \in MoveRow
      BY <1>0
    <3> QED BY <2>1, <3>1, <3>2 DEF MoveRow
  <2>2. CASE n \notin Open
    BY <1>0, <2>2
  <2> QED BY <2>1, <2>2
<1>4. move' \in [Moves -> MoveRow]
  <2>1. move' = [n \in Moves |-> move'[n]]
    OBVIOUS
  <2> QED BY <1>2, <1>3, <2>1
<1>5. StagesTypeOK'
  BY <1>0, <1>4 DEF StagesInv, StagesTypeOK, MoveRow
<1>6. Open' = Open \union {x}
  <2>1. \A n \in Moves : move'[n].at \in {"begun", "read", "updated"}
                         <=> n = x \/ move[n].at \in {"begun", "read", "updated"}
    BY <1>2, <1>3
  <2> QED BY <2>1 DEF Open
<1>7. TimesInv' /\ TargetsInv'
  BY <1>0, <1>2, <1>3 DEF TimesInv, TargetsInv, StagesInv
<1>8. OverlapsInv'
  <2>1. ASSUME NEW m \in Open', NEW n \in Open', m # n PROVE n \in move'[m].met
    BY <1>1, <1>2, <1>3, <1>6, <2>1 DEF OverlapsInv, StagesInv
  <2>2. ASSUME NEW m \in Moves, move'[m].at \in {"read", "updated"}, move'[m].met = {}
        PROVE  move'[m].from = stage'
    <3>1. m # x
      BY <1>2, <2>2
    <3>2. m \in Open
      BY <1>3, <2>2, <3>1 DEF Open
    <3> QED BY <1>3, <2>2, <3>1, <3>2
  <2> QED BY <2>1, <2>2 DEF OverlapsInv
<1>9. \A i \in 1 .. Len(history') : EntryOK(i)'
  <2>1. \A m \in Moves : move[m].at = "over" => move'[m] = move[m]
    BY <1>2, <1>3 DEF Open
  <2>2. \A m \in Open' : \/ /\ m \in Open /\ move'[m].created_at = move[m].created_at
                             /\ move[m].met \subseteq move'[m].met
                          \/ move'[m].created_at > clock
    BY <1>0, <1>1, <1>2, <1>3, <1>6
  <2> QED BY <1>4, <2>1, <2>2, EntriesStay
<1>10. (stage = StageBefore(Len(history) + 1))'
  BY DEF StagesInv, StageBefore
<1>11. PageInv'
  BY DEF StagesInv, PageInv
<1> QED BY <1>5, <1>7, <1>8, <1>9, <1>10, <1>11 DEF StagesInv

\* Moves whose times and meetings stay: reading, updating, rolling back.
LEMMA GoesOn_Inv ==
  ASSUME StagesInv, NEW x \in Moves, ReadStage(x) \/ UpdateLead(x) \/ RollBackMove(x)
  PROVE  StagesInv'
<1>0. move \in [Moves -> MoveRow] /\ move[x] \in MoveRow /\ stage \in Places
  BY DEF StagesInv, StagesTypeOK, MoveRow
<1>1. x \in Open
  BY DEF ReadStage, UpdateLead, RollBackMove, Open
<1>2. /\ move' \in [Moves -> MoveRow]
      /\ \A n \in Moves \ {x} : move'[n] = move[n]
      /\ move'[x].at \in {"read", "updated", "over"}
      /\ move'[x].created_at = move[x].created_at /\ move'[x].met = move[x].met
      /\ move'[x].to = move[x].to
      /\ move'[x].at = "read" => move'[x].from = stage
      /\ move'[x].at = "updated" => move'[x].from = move[x].from /\ move[x].at = "read"
      /\ rowLock' \in SUBSET Moves
  <2>1. CASE ReadStage(x)
    <3>1. move'[x] = [move[x] EXCEPT !.at = "read", !.from = stage]
      BY <1>0, <2>1 DEF ReadStage
    <3>2. move'[x] \in MoveRow /\ move'[x].at = "read" /\ move'[x].from = stage
          /\ move'[x].created_at = move[x].created_at /\ move'[x].met = move[x].met
          /\ move'[x].to = move[x].to
      BY <1>0, <3>1 DEF MoveRow
    <3>3. move' = [move EXCEPT ![x] = move'[x]]
      BY <1>0, <2>1 DEF ReadStage
    <3> QED BY <1>0, <2>1, <3>2, <3>3 DEF ReadStage, StagesInv, StagesTypeOK
  <2>2. CASE UpdateLead(x)
    BY <1>0, <2>2 DEF UpdateLead, MoveRow
  <2>3. CASE RollBackMove(x)
    BY <1>0, <2>3 DEF RollBackMove, MoveRow, StagesInv, StagesTypeOK
  <2> QED BY <2>1, <2>2, <2>3
<1>3. UNCHANGED <<stage, classified, history, clock, page>>
  BY DEF ReadStage, UpdateLead, RollBackMove
<1>4. StagesTypeOK'
  BY <1>2, <1>3 DEF StagesInv, StagesTypeOK, MoveRow
<1>5. Open' \subseteq Open /\ \A m \in Moves : move'[m].created_at = move[m].created_at
                                           /\ move'[m].met = move[m].met
                                           /\ move'[m].to = move[m].to
                                           /\ (move'[m].at # "idle" => move[m].at # "idle")
  BY <1>1, <1>2 DEF Open
<1>6. TimesInv' /\ TargetsInv'
  BY <1>3, <1>5 DEF TimesInv, TargetsInv, StagesInv
<1>7. OverlapsInv'
  <2>1. ASSUME NEW m \in Open', NEW n \in Open', m # n PROVE n \in move'[m].met
    <3>1. m \in Open /\ n \in Open /\ m \in Moves
      BY <1>5 DEF Open
    <3> QED BY <1>5, <2>1, <3>1 DEF OverlapsInv, StagesInv
  <2>2. ASSUME NEW m \in Moves, move'[m].at \in {"read", "updated"}, move'[m].met = {}
        PROVE  move'[m].from = stage'
    BY <1>2, <1>3, <1>5, <2>2 DEF OverlapsInv, StagesInv
  <2> QED BY <2>1, <2>2 DEF OverlapsInv
<1>8. \A i \in 1 .. Len(history') : EntryOK(i)'
  <2>1. \A m \in Moves : move[m].at = "over" => move'[m] = move[m]
    BY <1>1, <1>2 DEF Open
  <2>2. \A m \in Open' : m \in Open /\ m \in Moves
    BY <1>5 DEF Open
  <2> QED BY <1>2, <1>3, <1>5, <2>1, <2>2, EntriesStay
<1>9. (stage = StageBefore(Len(history) + 1))'
  BY <1>3 DEF StagesInv, StageBefore
<1>10. PageInv'
  BY <1>3 DEF StagesInv, PageInv
<1> QED BY <1>4, <1>6, <1>7, <1>8, <1>9, <1>10 DEF StagesInv

\* The pages, and dispositions.
LEMMA Shown_Inv ==
  ASSUME StagesInv, SetLeadDisposition \/ OpenLead \/ ShowHistory \/ UNCHANGED stagesVars
  PROVE  StagesInv'
<1>1. UNCHANGED <<stage, history, move, clock>>
  BY DEF SetLeadDisposition, OpenLead, ShowHistory, stagesVars
<1>2. rowLock' = rowLock /\ classified' \in BOOLEAN
  BY DEF SetLeadDisposition, OpenLead, ShowHistory, stagesVars, StagesInv, StagesTypeOK
<1>3. Len(history) \in Nat /\ stage \in Places /\ stage = StageBefore(Len(history) + 1)
  BY LenProperties DEF StagesInv, StagesTypeOK
<1>4. (page \in [at : {"none", "lead", "shown"}, stage : Places, history : Seq(Entry)])' /\ PageInv'
  <2>1. CASE SetLeadDisposition \/ UNCHANGED stagesVars
    BY <1>1, <2>1 DEF SetLeadDisposition, stagesVars, StagesInv, StagesTypeOK, PageInv
  <2>2. CASE OpenLead
    <3>1. page' = [at |-> "lead", stage |-> stage, history |-> <<>>]
      BY <2>2 DEF OpenLead
    <3>2. stage = NoStage \/ \E i \in 1 .. Len(history) : history[i].to = stage
      <4>1. CASE Len(history) = 0
        BY <1>3, <4>1 DEF StageBefore
      <4>2. CASE Len(history) # 0
        BY <1>3, <4>2 DEF StageBefore
      <4> QED BY <4>1, <4>2
    <3> QED BY <1>1, <1>3, <3>1, <3>2, EmptySeq DEF PageInv
  <2>3. CASE ShowHistory
    <3>1. PICK L : L = Listed
      OBVIOUS
    <3>2. page' = [page EXCEPT !.at = "shown", !.history = L] /\ page.at = "lead"
      BY <2>3, <3>1 DEF ShowHistory
    <3>3. L \in Seq(Entry) /\ Len(L) = Len(history)
          /\ \A i \in 1 .. Len(history) : \E n \in 1 .. Len(history) : L[n] = history[i]
      BY <3>1, ListedFacts
    <3>4. page' \in [at : {"none", "lead", "shown"}, stage : Places, history : Seq(Entry)]
          /\ page'.at = "shown" /\ page'.stage = page.stage /\ page'.history = L
      BY <3>2, <3>3 DEF StagesInv, StagesTypeOK
    <3>5. page.stage = NoStage \/ \E i \in 1 .. Len(history) : history[i].to = page.stage
      BY <3>2 DEF StagesInv, PageInv
    <3> QED BY <3>3, <3>4, <3>5 DEF PageInv
  <2> QED BY <2>1, <2>2, <2>3
<1>5. StagesTypeOK'
  BY <1>1, <1>2, <1>4 DEF StagesInv, StagesTypeOK
<1>6. Open' = Open
  BY <1>1 DEF Open
<1>7. TimesInv' /\ TargetsInv' /\ OverlapsInv'
  BY <1>1, <1>6 DEF TimesInv, TargetsInv, OverlapsInv, StagesInv
<1>8. \A i \in 1 .. Len(history') : EntryOK(i)'
  BY <1>1, <1>6, EntriesStay DEF StagesInv, StagesTypeOK, MoveRow
<1>9. (stage = StageBefore(Len(history) + 1))'
  BY <1>1, <1>3 DEF StageBefore
<1> QED BY <1>4, <1>5, <1>7, <1>8, <1>9 DEF StagesInv

\* An entry is added and the lead moves: one step.
LEMMA CommitMove_Inv ==
  ASSUME StagesInv, NEW x \in Moves, CommitMove(x)
  PROVE  StagesInv'
<1>0. move \in [Moves -> MoveRow] /\ move[x] \in MoveRow /\ history \in Seq(Entry)
      /\ move[x].at = "updated" /\ x \in Open /\ move[x].to \in Stages
  BY DEF StagesInv, StagesTypeOK, MoveRow, CommitMove, Open, TargetsInv
<1>1. PICK e : e = [from |-> move[x].from, to |-> move[x].to, created_at |-> move[x].created_at, by |-> x]
  OBVIOUS
<1>2. /\ e \in Entry /\ e.by = x /\ e.from = move[x].from /\ e.to = move[x].to
      /\ e.created_at = move[x].created_at
  BY <1>0, <1>1 DEF Entry, MoveRow
<1>3. /\ move' = [move EXCEPT ![x].at = "over"]
      /\ stage' = move[x].to /\ history' = Append(history, e) /\ rowLock' = {}
      /\ UNCHANGED <<classified, clock, page>>
  BY <1>1 DEF CommitMove
<1>4. PICK N \in Nat : N = Len(history)
  BY <1>0, LenProperties
<1>5. /\ history' \in Seq(Entry) /\ Len(history') = N + 1 /\ history'[N + 1] = e
      /\ \A i \in 1 .. N : history'[i] = history[i]
  BY <1>0, <1>2, <1>3, <1>4, AppendProperties
<1>6. /\ move' \in [Moves -> MoveRow]
      /\ \A m \in Moves \ {x} : move'[m] = move[m]
      /\ move'[x].at = "over" /\ move'[x].to = move[x].to /\ move'[x].from = move[x].from
      /\ move'[x].created_at = move[x].created_at /\ move'[x].met = move[x].met
  BY <1>0, <1>3 DEF MoveRow
<1>7. StagesTypeOK'
  BY <1>0, <1>3, <1>5, <1>6 DEF StagesInv, StagesTypeOK, MoveRow, Places
<1>8. Open' = Open \ {x} /\ Open \subseteq Moves
  BY <1>0, <1>6 DEF Open
<1>9. TimesInv' /\ TargetsInv'
  BY <1>0, <1>3, <1>6 DEF TimesInv, TargetsInv, StagesInv
<1>10. OverlapsInv'
  <2>1. ASSUME NEW m \in Open', NEW n \in Open', m # n PROVE n \in move'[m].met
    BY <1>6, <1>8, <2>1 DEF OverlapsInv, StagesInv
  <2>2. ASSUME NEW m \in Moves, move'[m].at \in {"read", "updated"}, move'[m].met = {}
        PROVE  move'[m].from = stage'
    <3>1. m # x /\ m \in Open /\ move'[m] = move[m]
      BY <1>6, <2>2 DEF Open
    <3>2. x \in move[m].met
      BY <1>0, <3>1 DEF OverlapsInv, StagesInv
    <3> QED BY <2>2, <3>1, <3>2
  <2> QED BY <2>1, <2>2 DEF OverlapsInv
<1>entry. \A i \in 1 .. N : /\ history[i] \in Entry /\ history[i].by \in Moves /\ history[i].by # x
                            /\ move'[history[i].by] = move[history[i].by]
                            /\ history[i].created_at \in Nat
                            /\ history[i].created_at # move[x].created_at
  <2> SUFFICES ASSUME NEW i \in 1 .. N
               PROVE  /\ history[i] \in Entry /\ history[i].by \in Moves /\ history[i].by # x
                      /\ move'[history[i].by] = move[history[i].by]
                      /\ history[i].created_at \in Nat
                      /\ history[i].created_at # move[x].created_at
    OBVIOUS
  <2>1. history[i] \in Entry
    BY <1>0, <1>4, LenProperties
  <2>2. /\ move[history[i].by].at = "over"
        /\ history[i].created_at = move[history[i].by].created_at
    BY <1>4 DEF StagesInv, EntryOK
  <2>3. history[i].by \in Moves /\ history[i].created_at \in Nat
    BY <2>1 DEF Entry
  <2>4. history[i].by # x
    BY <1>0, <2>2
  <2> QED BY <1>0, <1>6, <2>1, <2>2, <2>3, <2>4 DEF StagesInv, TimesInv
<1>time. move[x].created_at \in Nat
  BY <1>0 DEF MoveRow
\* Who has not met x began and ended before it.
<1>11. ASSUME NEW i \in 1 .. N, Apart(history[i]) \/ move[x].met = {}
       PROVE  history[i].created_at < move[x].created_at
  <2>1. EntryOK(i)
    BY <1>4 DEF StagesInv
  <2>2. CASE move[x].created_at < history[i].created_at
    BY <1>0, <1>11, <2>1, <2>2 DEF EntryOK, Apart
  <2> QED BY <1>entry, <1>time, <2>2
<1>12. ASSUME NEW i \in 1 .. N + 1 PROVE EntryOK(i)'
  <2>1. CASE i \in 1 .. N
    <3>1. EntryOK(i) /\ history'[i] = history[i]
      BY <1>4, <1>5, <2>1 DEF StagesInv
    <3>2. move'[history[i].by].at = "over" /\ history[i].created_at = move'[history[i].by].created_at
      BY <1>entry, <2>1, <3>1 DEF EntryOK
    <3>3. \A j \in 1 .. N + 1 : j # i => history'[j].by # history[i].by
      <4>1. \A j \in 1 .. N : j # i => history'[j].by # history[i].by
        BY <1>4, <1>5, <3>1 DEF EntryOK
      <4>2. history'[N + 1].by # history[i].by
        BY <1>2, <1>5, <1>entry, <2>1
      <4> QED BY <4>1, <4>2
    <3>4. \A m \in Open' : move'[m].created_at < history[i].created_at =>
            m \in move'[history[i].by].met /\ history[i].by \in move'[m].met
      BY <1>6, <1>8, <1>entry, <2>1, <3>1 DEF EntryOK
    <3>5. Apart(history[i])' <=> Apart(history[i])
      BY <1>entry, <2>1, <3>1 DEF Apart
    <3>6. ASSUME Apart(history[i])
          PROVE  /\ \A j \in 1 .. N + 1 : /\ j < i => Before(j, i)'
                                          /\ j > i => Before(i, j)'
                 /\ history[i].from = StageBefore(i)'
      <4>1. \A j \in 1 .. N : /\ j < i => Before(j, i)'
                              /\ j > i => Before(i, j)'
        BY <1>4, <1>5, <3>1, <3>6 DEF EntryOK, Before
      <4>2. Before(i, N + 1)'
        BY <1>2, <1>5, <1>11, <2>1, <3>6 DEF Before
      <4>3. history[i].from = StageBefore(i) /\ StageBefore(i)' = StageBefore(i)
        BY <1>5, <2>1, <3>1, <3>6 DEF EntryOK, StageBefore
      <4> QED BY <2>1, <4>1, <4>2, <4>3
    <3>7. Apart(history[i])' => Apart(history[i])
      BY <3>5
    <3>8. Apart(history[i])' <=> (move'[history[i].by].met = {})
      BY <3>1 DEF Apart
    <3> QED BY <1>5, <3>1, <3>2, <3>3, <3>4, <3>6, <3>7, <3>8 DEF EntryOK, Apart
  <2>2. CASE i = N + 1
    <3>1. history'[i] = e
      BY <1>5, <2>2
    <3>2. \A j \in 1 .. N + 1 : j # i => history'[j].by # x
      BY <1>5, <1>entry, <2>2
    <3>3. \A m \in Open' : m \in move'[x].met /\ x \in move'[m].met
      BY <1>0, <1>6, <1>8 DEF StagesInv, OverlapsInv
    <3>4. ASSUME move'[x].met = {}
          PROVE  /\ \A j \in 1 .. N + 1 : /\ j < i => Before(j, i)'
                                          /\ j > i => Before(i, j)'
                 /\ move[x].from = StageBefore(i)'
      <4>1. \A j \in 1 .. N : Before(j, i)'
        BY <1>2, <1>5, <1>6, <1>11, <2>2, <3>1, <3>4 DEF Before
      <4>2. move[x].from = stage
        BY <1>0, <1>6, <3>4 DEF StagesInv, OverlapsInv
      <4>3. stage = StageBefore(N + 1)
        BY <1>4 DEF StagesInv
      <4>4. StageBefore(N + 1)' = StageBefore(N + 1)
        BY <1>5 DEF StageBefore
      <4>5. StageBefore(i)' = StageBefore(N + 1)'
        BY <2>2 DEF StageBefore
      <4> QED BY <2>2, <4>1, <4>2, <4>3, <4>4, <4>5
    <3>5. Apart(history[i])' <=> move'[x].met = {}
      BY <1>2, <3>1 DEF Apart
    <3> QED BY <1>2, <1>5, <1>6, <3>1, <3>2, <3>3, <3>4, <3>5 DEF EntryOK, Apart
  <2> QED BY <2>1, <2>2
<1>13. (stage = StageBefore(Len(history) + 1))'
  BY <1>2, <1>3, <1>4, <1>5 DEF StageBefore
<1>14. PageInv'
  <2>1. \A s : (\E i \in 1 .. Len(history) : history[i].to = s) =>
                 (\E i \in 1 .. Len(history') : history'[i].to = s)
    BY <1>4, <1>5
  <2> QED BY <1>3, <2>1 DEF StagesInv, PageInv
<1> QED BY <1>5, <1>7, <1>9, <1>10, <1>12, <1>13, <1>14 DEF StagesInv

LEMMA StagesStep_Inv == StagesInv /\ [StagesNext]_stagesVars => StagesInv'
BY BeginMove_Inv, GoesOn_Inv, CommitMove_Inv, Shown_Inv DEF StagesNext

\* The inductive invariant of a lead's moves.
THEOREM StagesInvariantHolds == StagesSpec => []StagesInv
BY StagesInit_Inv, StagesStep_Inv, PTL DEF StagesSpec

\* The listed history explains the stage.
LEMMA HistoryExplains == StagesInv => HistoryTellsTheStage
<1> SUFFICES ASSUME StagesInv PROVE HistoryTellsTheStage
  OBVIOUS
<1>1. /\ Len(Listed) = Len(history) /\ Len(history) \in Nat
      /\ \A n \in 1 .. Len(history) : \E i \in 1 .. Len(history) :
           Listed[n] = history[i] /\ (Apart(history[i]) => i = n)
  BY ListedFacts, LenProperties DEF StagesInv, StagesTypeOK
<1>2. ASSUME NEW i \in 1 .. Len(history), Apart(Listed[i])
      PROVE  Listed[i] = history[i] /\ history[i].from = StageBefore(i)
  <2>1. Listed[i] = history[i]
    BY <1>1, <1>2
  <2> QED BY <1>2, <2>1 DEF StagesInv, EntryOK
<1>3. ASSUME NEW i \in 1 .. Len(history), Apart(Listed[i]), i > 1, Apart(Listed[i - 1])
      PROVE  Listed[i].from = Listed[i - 1].to
  <2>1. Listed[i - 1] = history[i - 1] /\ Listed[i] = history[i] /\ history[i].from = StageBefore(i)
    BY <1>1, <1>2, <1>3
  <2> QED BY <1>3, <2>1 DEF StageBefore
<1>4. ASSUME NEW i \in 1 .. Len(history), Apart(Listed[i]), i = Len(history)
      PROVE  Listed[i].to = stage
  <2>1. Listed[i] = history[i]
    BY <1>2, <1>4
  <2> QED BY <1>1, <1>4, <2>1 DEF StagesInv, StageBefore
<1> QED BY <1>1, <1>3, <1>4 DEF HistoryTellsTheStage, StagesInv, PageInv

\* A lead's listed history tells how it came to its stage, but for moves that
\* overlapped, and no page shows a stage without the move that led to it.
THEOREM HistoryIsTold == StagesSpec => []HistoryTellsTheStage
BY StagesInvariantHolds, HistoryExplains, PTL

------------------------------------------------------------------------------
(* Reminders.                                                              *)

SentOne(a) == IF job[a].at = "sent" THEN 1 ELSE 0

\* A handler that has passed its check works on an appointment that is not
\* reminded of; messages count what was recorded of what was sent; a job that
\* waits may still run.
Counted(a) ==
  /\ job[a].at \in {"read", "sent"} => a \notin reminded
  /\ messages[a] = IF a \in reminded THEN 1 ELSE 0
  /\ messages[a] + SentOne(a) <= sends[a]
  /\ sends[a] <= messages[a] + lapses[a] + SentOne(a)
  /\ job[a].at = "queued" => job[a].runs < MaxRuns
  /\ appointment[a] = "absent" => job[a].at = "none"
  /\ job[a].at = "none" => sends[a] = 0 /\ job[a].runs = 0

RemindersInv == RemindersTypeOK /\ \A a \in Appointments : Counted(a)

LEMMA RemindersInit_Inv == RemindersInit => RemindersInv
BY MaxRunsAssumption DEF RemindersInit, RemindersInv, RemindersTypeOK, Counted, SentOne, JobStates

\* A step changes one appointment's rows and no other's.
LEMMA OtherAppointmentsKeep ==
  ASSUME NEW a \in Appointments, RemindersInv, RemindersTypeOK', Counted(a)',
         \A b \in Appointments \ {a} :
           /\ job'[b] = job[b] /\ messages'[b] = messages[b] /\ sends'[b] = sends[b]
           /\ lapses'[b] = lapses[b] /\ appointment'[b] = appointment[b]
           /\ b \in reminded' <=> b \in reminded
  PROVE  RemindersInv'
BY DEF RemindersInv, Counted, SentOne

LEMMA RemindersStep_Inv == RemindersInv /\ [RemindersNext]_remindersVars => RemindersInv'
<1> SUFFICES ASSUME RemindersInv, [RemindersNext]_remindersVars PROVE RemindersInv'
  OBVIOUS
<1>1. CASE UNCHANGED remindersVars
  BY <1>1 DEF RemindersInv, remindersVars, RemindersTypeOK, Counted, SentOne
<1>2. ASSUME NEW a \in Appointments,
             \/ CreateAppointment(a) \/ ScheduleReminder(a) \/ StartReminder(a) \/ SendReminder(a)
             \/ SendFails(a) \/ AcceptanceLost(a) \/ MarkReminded(a) \/ MarkFails(a)
             \/ WorkerCrashes(a) \/ CancelOrPass(a)
      PROVE  RemindersInv'
  <2> USE MaxRunsAssumption
  <2>0. RemindersTypeOK /\ Counted(a) /\ AfterError(a) \in {"queued", "over"}
    BY DEF RemindersInv, AfterError
  <2>1. CASE CreateAppointment(a)
    <3>1. RemindersTypeOK' /\ Counted(a)'
      BY <2>0, <2>1 DEF CreateAppointment, RemindersTypeOK, Counted, SentOne
    <3> QED BY <2>0, <2>1, <3>1, OtherAppointmentsKeep DEF CreateAppointment, RemindersTypeOK
  <2>2. CASE ScheduleReminder(a)
    <3>1. RemindersTypeOK'
      BY <2>0, <2>2 DEF ScheduleReminder, RemindersTypeOK, JobStates
    <3>2. Counted(a)'
      BY <2>0, <2>2 DEF ScheduleReminder, RemindersTypeOK, Counted, SentOne
    <3> QED BY <2>0, <2>2, <3>1, <3>2, OtherAppointmentsKeep DEF ScheduleReminder, RemindersTypeOK
  <2>3. CASE StartReminder(a)
    <3>1. RemindersTypeOK'
      BY <2>0, <2>3 DEF StartReminder, RemindersTypeOK, JobStates, Counted
    <3>2. Counted(a)'
      BY <2>0, <2>3 DEF StartReminder, ReadyToRemind, RemindersTypeOK, Counted, SentOne
    <3> QED BY <2>0, <2>3, <3>1, <3>2, OtherAppointmentsKeep DEF StartReminder, RemindersTypeOK
  <2>4. CASE SendReminder(a)
    <3>1. RemindersTypeOK'
      BY <2>0, <2>4 DEF SendReminder, RemindersTypeOK, JobStates
    <3>2. Counted(a)'
      BY <2>0, <2>4 DEF SendReminder, RemindersTypeOK, Counted, SentOne
    <3> QED BY <2>0, <2>4, <3>1, <3>2, OtherAppointmentsKeep DEF SendReminder, RemindersTypeOK
  <2>5. CASE SendFails(a)
    <3>1. RemindersTypeOK'
      BY <2>0, <2>5 DEF SendFails, RemindersTypeOK, JobStates
    <3>2. Counted(a)'
      BY <2>0, <2>5 DEF SendFails, AfterError, RemindersTypeOK, Counted, SentOne
    <3> QED BY <2>0, <2>5, <3>1, <3>2, OtherAppointmentsKeep DEF SendFails, RemindersTypeOK
  <2>6. CASE AcceptanceLost(a)
    <3>1. RemindersTypeOK'
      BY <2>0, <2>6 DEF AcceptanceLost, RemindersTypeOK, JobStates
    <3>2. Counted(a)'
      BY <2>0, <2>6 DEF AcceptanceLost, AfterError, RemindersTypeOK, Counted, SentOne
    <3> QED BY <2>0, <2>6, <3>1, <3>2, OtherAppointmentsKeep DEF AcceptanceLost, RemindersTypeOK
  <2>7. CASE MarkReminded(a)
    <3>1. RemindersTypeOK'
      BY <2>0, <2>7 DEF MarkReminded, RemindersTypeOK, JobStates
    <3>2. Counted(a)'
      BY <2>0, <2>7 DEF MarkReminded, AfterError, RemindersTypeOK, Counted, SentOne
    <3> QED BY <2>0, <2>7, <3>1, <3>2, OtherAppointmentsKeep DEF MarkReminded, RemindersTypeOK
  <2>8. CASE MarkFails(a)
    <3>1. RemindersTypeOK'
      BY <2>0, <2>8 DEF MarkFails, RemindersTypeOK, JobStates
    <3>2. Counted(a)'
      BY <2>0, <2>8 DEF MarkFails, AfterError, RemindersTypeOK, Counted, SentOne
    <3> QED BY <2>0, <2>8, <3>1, <3>2, OtherAppointmentsKeep DEF MarkFails, RemindersTypeOK
  <2>9. CASE WorkerCrashes(a)
    <3>1. RemindersTypeOK'
      BY <2>0, <2>9 DEF WorkerCrashes, RemindersTypeOK, JobStates
    <3>2. Counted(a)'
      BY <2>0, <2>9 DEF WorkerCrashes, RemindersTypeOK, Counted, SentOne
    <3> QED BY <2>0, <2>9, <3>1, <3>2, OtherAppointmentsKeep DEF WorkerCrashes, RemindersTypeOK
  <2>10. CASE CancelOrPass(a)
    <3>1. RemindersTypeOK' /\ Counted(a)'
      BY <2>0, <2>10 DEF CancelOrPass, RemindersTypeOK, Counted, SentOne
    <3> QED BY <2>0, <2>10, <3>1, OtherAppointmentsKeep DEF CancelOrPass, RemindersTypeOK
  <2> QED BY <1>2, <2>1, <2>2, <2>3, <2>4, <2>5, <2>6, <2>7, <2>8, <2>9, <2>10
<1> QED BY <1>1, <1>2 DEF RemindersNext

\* The inductive invariant: at most one message is recorded, exactly when the
\* appointment is marked, and what was sent exceeds what was recorded by a
\* message in hand and by lapses only.
THEOREM RemindersInvariantHolds == RemindersSpec => []RemindersInv
BY RemindersInit_Inv, RemindersStep_Inv, PTL DEF RemindersSpec

\* Type correctness of appointments, jobs and messages.
THEOREM RemindersTypeCorrect == RemindersSpec => []RemindersTypeOK
BY RemindersInvariantHolds, PTL DEF RemindersInv

LEMMA ReminderCauses == RemindersInv => RemindersHaveCause
<1> SUFFICES ASSUME RemindersInv, NEW a \in Appointments
             PROVE /\ messages[a] <= 1
                   /\ sends[a] <= messages[a] + lapses[a] + SentOne(a)
                   /\ (a \in reminded) <=> (messages[a] > 0)
                   /\ appointment[a] = "upcoming" /\ sends[a] = 0 => a \in DueUnsent
  BY DEF RemindersHaveCause, SentOne
<1>1. RemindersTypeOK /\ Counted(a)
  BY DEF RemindersInv
<1>2. sends[a] = 0 => a \notin reminded
  BY <1>1 DEF Counted, SentOne, RemindersTypeOK
<1> QED BY <1>1, <1>2 DEF Counted, DueUnsent, SentOne, RemindersTypeOK

\* A reminder is sent twice only after a failure between the provider's
\* acceptance and the commit, however often the job runs; an appointment nobody
\* was reminded of stays on the failsafe list.
THEOREM DoubleRemindersHaveCause == RemindersSpec => []RemindersHaveCause
BY RemindersInvariantHolds, ReminderCauses, PTL

------------------------------------------------------------------------------
(* Provider failover.                                                      *)

Links(w) == {e \in events : e.walk = w}
Abandoned(w) == {p \in Providers : <<w, p>> \in running}

Walked(w) == {[walk |-> w, from |-> k, to |-> k + 1] : k \in 1 .. walk[w].i - 1}
Leaving(w) == [walk |-> w, from |-> walk[w].i,
               to |-> IF walk[w].i < Len(List(w)) THEN walk[w].i + 1 ELSE walk[w].i]

OnItsList(w) ==
  /\ Len(List(w)) <= MaxAttempts
  /\ IF walk[w].at \in {"idle", "noProviders"} THEN walk[w].i = 0
                                              ELSE walk[w].i \in 1 .. Len(List(w))
  /\ walk[w].at = "exhausted" => walk[w].i = Len(List(w))

Linked(w) ==
  \/ Links(w) = Walked(w) /\ walk[w].at # "exhausted"
  \/ Links(w) = Walked(w) \union {Leaving(w)} /\ walk[w].at \in {"exhausted", "noteFailed"}

Allowed(w) == trouble[w] + (IF walk[w].at = "result" THEN 1 ELSE 0)

Caused(w) ==
  /\ IsFiniteSet(Abandoned(w))
  /\ effects[w] + Cardinality(Abandoned(w)) <= Allowed(w)

FailoverInv ==
  /\ FailoverTypeOK
  /\ \A w \in Walks : OnItsList(w) /\ Linked(w) /\ Caused(w)

LEMMA FailoverInit_Inv == FailoverInit => FailoverInv
<1> SUFFICES ASSUME FailoverInit PROVE FailoverInv
  OBVIOUS
<1> USE DEF FailoverInit
<1>1. configured \in Seq(Providers)
  <2>1. PICK m \in 0 .. Cardinality(Providers) : configured \in [1 .. m -> Providers]
    BY DEF SeqOf
  <2> QED BY <2>1
<1>2. walk \in [Walks -> [at : WalkStages, list : Seq(Providers), i : 0 .. MaxAttempts]]
  BY MaxAttemptsAssumption, EmptySeq DEF WalkStages
<1>3. FailoverTypeOK
  BY <1>1, <1>2 DEF FailoverTypeOK
<1>4. ASSUME NEW w \in Walks PROVE OnItsList(w) /\ Linked(w) /\ Caused(w)
  <2>1. OnItsList(w)
    BY EmptySeq, MaxAttemptsAssumption DEF OnItsList, List
  <2>2. Walked(w) = {} /\ Links(w) = {} /\ walk[w].at # "exhausted"
    BY DEF Walked, Links
  <2>3. Abandoned(w) = {}
    BY DEF Abandoned
  <2>4. Caused(w)
    BY <2>3, FS_EmptySet DEF Caused, Allowed
  <2> QED BY <2>1, <2>2, <2>4 DEF Linked
<1> QED BY <1>3, <1>4 DEF FailoverInv

LEMMA SameWalk ==
  ASSUME NEW w \in Walks, OnItsList(w), Linked(w), Caused(w),
         walk'[w] = walk[w], effects'[w] = effects[w], trouble'[w] = trouble[w],
         Abandoned(w)' = Abandoned(w), Links(w)' = Links(w)
  PROVE  (OnItsList(w) /\ Linked(w) /\ Caused(w))'
<1>1. OnItsList(w)'
  BY DEF OnItsList, List
<1>2. Walked(w)' = Walked(w) /\ Leaving(w)' = Leaving(w)
  BY DEF Walked, Leaving, List
<1>3. Linked(w)'
  BY <1>2 DEF Linked
<1>4. Caused(w)'
  BY DEF Caused, Allowed
<1> QED BY <1>1, <1>3, <1>4

LEMMA AbandonedAdds ==
  ASSUME NEW w \in Walks, NEW p, NEW x \in Walks, running' = running \union {<<x, p>>},
         IsFiniteSet(Abandoned(w))
  PROVE  /\ IsFiniteSet(Abandoned(w)')
         /\ Cardinality(Abandoned(w)') <= Cardinality(Abandoned(w)) + 1
         /\ w # x => Abandoned(w)' = Abandoned(w)
<1>1. Abandoned(w)' = Abandoned(w) \/ Abandoned(w)' = Abandoned(w) \union {p}
  BY DEF Abandoned
<1>2. w # x => Abandoned(w)' = Abandoned(w)
  BY DEF Abandoned
<1> QED BY <1>1, <1>2, FS_AddElement, FS_CardinalityType

LEMMA AbandonedEnds ==
  ASSUME NEW w \in Walks, NEW p \in Providers, <<w, p>> \in running,
         running' = running \ {<<w, p>>}, IsFiniteSet(Abandoned(w))
  PROVE  /\ IsFiniteSet(Abandoned(w)')
         /\ Cardinality(Abandoned(w)') = Cardinality(Abandoned(w)) - 1
<1>1. Abandoned(w)' = Abandoned(w) \ {p} /\ p \in Abandoned(w)
  BY DEF Abandoned
<1> QED BY <1>1, FS_RemoveElement, FS_CardinalityType

LEMMA AttemptedType ==
  ASSUME NEW s \in Seq(Providers)
  PROVE  /\ Attempted(s) \in Seq(Providers)
         /\ Len(Attempted(s)) <= MaxAttempts
         /\ s # <<>> => 1 <= Len(Attempted(s))
<1> DEFINE n == IF Len(s) < MaxAttempts THEN Len(s) ELSE MaxAttempts
<1>1. n \in 0 .. Len(s) /\ n <= MaxAttempts /\ n \in Nat
  BY MaxAttemptsAssumption, LenProperties
<1>2. s # <<>> => 1 <= n
  BY MaxAttemptsAssumption, LenProperties, EmptySeq
<1> HIDE DEF n
<1>3. SubSeq(s, 1, n) \in Seq(Providers) /\ Len(SubSeq(s, 1, n)) = n
  BY <1>1, SubSeqProperties, LenProperties
<1> QED BY <1>1, <1>2, <1>3 DEF Attempted, n

\* Every step of a walk leaves the other walks as they are.
LEMMA OthersStay ==
  ASSUME FailoverInv, NEW w \in Walks,
         \A x \in Walks \ {w} : walk'[x] = walk[x] /\ effects'[x] = effects[x] /\ trouble'[x] = trouble[x],
         \A x \in Walks \ {w} : Abandoned(x)' = Abandoned(x) /\ Links(x)' = Links(x),
         (OnItsList(w) /\ Linked(w) /\ Caused(w))'
  PROVE  \A x \in Walks : (OnItsList(x) /\ Linked(x) /\ Caused(x))'
<1> SUFFICES ASSUME NEW x \in Walks \ {w} PROVE (OnItsList(x) /\ Linked(x) /\ Caused(x))'
  OBVIOUS
<1> QED BY SameWalk DEF FailoverInv

\* A walk that turns from "trying" to "noting" or "result", at the same candidate.
LEMMA Answered ==
  ASSUME FailoverInv, NEW w \in Walks, walk[w].at = "trying", NEW s \in {"noting", "result"},
         walk' = [walk EXCEPT ![w].at = s], events' = events
  PROVE  /\ walk' \in [Walks -> [at : WalkStages, list : Seq(Providers), i : 0 .. MaxAttempts]]
         /\ OnItsList(w)' /\ Linked(w)'
         /\ walk'[w].at = s
         /\ \A x \in Walks : Links(x)' = Links(x)
         /\ \A x \in Walks \ {w} : walk'[x] = walk[x]
<1> USE DEF FailoverInv, FailoverTypeOK, WalkStages
<1>1. walk' \in [Walks -> [at : WalkStages, list : Seq(Providers), i : 0 .. MaxAttempts]]
  OBVIOUS
<1>2. walk'[w].at = s /\ walk'[w].i = walk[w].i /\ walk'[w].list = walk[w].list
  OBVIOUS
<1>3. OnItsList(w)'
  BY <1>2 DEF OnItsList, List
<1>4. \A x \in Walks : Links(x)' = Links(x)
  BY DEF Links
<1>5. Walked(w)' = Walked(w)
  BY <1>2 DEF Walked
<1>6. Linked(w)'
  BY <1>2, <1>4, <1>5 DEF Linked
<1> QED BY <1>1, <1>2, <1>3, <1>4, <1>6

LEMMA BeginWalk_Inv ==
  ASSUME FailoverInv, NEW w \in Walks, BeginWalk(w)
  PROVE  FailoverInv'
<1> USE DEF FailoverInv, BeginWalk
<1>1. Attempted(configured) \in Seq(Providers) /\ Len(Attempted(configured)) <= MaxAttempts
      /\ (configured # <<>> => 1 <= Len(Attempted(configured)))
  BY AttemptedType DEF FailoverTypeOK
<1>2. walk' \in [Walks -> [at : WalkStages, list : Seq(Providers), i : 0 .. MaxAttempts]]
  BY <1>1, EmptySeq, MaxAttemptsAssumption DEF FailoverTypeOK, WalkStages
<1>3. FailoverTypeOK'
  BY <1>2 DEF FailoverTypeOK
<1>4. walk'[w] = IF configured = <<>>
                 THEN [at |-> "noProviders", list |-> <<>>, i |-> 0]
                 ELSE [at |-> "trying", list |-> Attempted(configured), i |-> 1]
  BY DEF FailoverTypeOK
<1>5. Len(Attempted(configured)) \in Nat
  BY <1>1, LenProperties
<1>6. OnItsList(w)'
  BY <1>1, <1>4, <1>5, EmptySeq, MaxAttemptsAssumption DEF OnItsList, List
<1>7. \A x \in Walks : Links(x)' = Links(x) /\ Abandoned(x)' = Abandoned(x)
  BY DEF Links, Abandoned
<1>8. Walked(w) = {} /\ Walked(w)' = {} /\ walk[w].at = "idle" /\ walk'[w].at # "exhausted"
  BY <1>4 DEF Walked, OnItsList
<1>9. Linked(w)'
  BY <1>7, <1>8 DEF Linked
<1>10. Caused(w)'
  BY <1>4, <1>7 DEF Caused, Allowed
<1>11. \A x \in Walks \ {w} : walk'[x] = walk[x]
  BY DEF FailoverTypeOK
<1> QED BY <1>3, <1>6, <1>7, <1>9, <1>10, <1>11, OthersStay

LEMMA Leaves_Inv ==
  ASSUME FailoverInv, NEW w \in Walks, NoAdapter(w) \/ ProviderRefuses(w)
  PROVE  FailoverInv'
<1> USE DEF NoAdapter, ProviderRefuses, CanTry
<1>1. walk[w].at = "trying" /\ walk' = [walk EXCEPT ![w].at = "noting"]
      /\ UNCHANGED <<configured, broken, running, effects, trouble, events>>
  OBVIOUS
<1>2. FailoverTypeOK'
  BY <1>1, Answered DEF FailoverInv, FailoverTypeOK
<1>3. OnItsList(w)' /\ Linked(w)' /\ walk'[w].at = "noting"
      /\ (\A x \in Walks \ {w} : walk'[x] = walk[x]) /\ \A x \in Walks : Links(x)' = Links(x)
  BY <1>1, Answered
<1>4. \A x \in Walks : Abandoned(x)' = Abandoned(x)
  BY <1>1 DEF Abandoned
<1>5. Caused(w)'
  BY <1>1, <1>3, <1>4 DEF Caused, Allowed, FailoverInv
<1> QED BY <1>1, <1>2, <1>3, <1>4, <1>5, OthersStay DEF FailoverInv

LEMMA Succeed_Inv ==
  ASSUME FailoverInv, NEW w \in Walks, Succeed(w)
  PROVE  FailoverInv'
<1> USE DEF Succeed, CanTry
<1>1. FailoverTypeOK'
  <2>1. walk' \in [Walks -> [at : WalkStages, list : Seq(Providers), i : 0 .. MaxAttempts]]
    BY Answered
  <2> QED BY <2>1 DEF FailoverInv, FailoverTypeOK
<1>2. OnItsList(w)' /\ Linked(w)' /\ walk'[w].at = "result"
      /\ (\A x \in Walks \ {w} : walk'[x] = walk[x]) /\ \A x \in Walks : Links(x)' = Links(x)
  BY Answered
<1>3. \A x \in Walks : Abandoned(x)' = Abandoned(x)
  BY DEF Abandoned
<1>4. effects'[w] = effects[w] + 1 /\ \A x \in Walks \ {w} : effects'[x] = effects[x]
  BY DEF FailoverInv, FailoverTypeOK
<1>5. effects[w] \in Nat /\ trouble[w] \in Nat
  BY DEF FailoverInv, FailoverTypeOK
<1>6. Cardinality(Abandoned(w)) \in Nat
  BY FS_CardinalityType DEF FailoverInv, Caused
<1>7. Caused(w)'
  BY <1>2, <1>3, <1>4, <1>5, <1>6 DEF Caused, Allowed, FailoverInv
<1> QED BY <1>1, <1>2, <1>3, <1>4, <1>7, OthersStay DEF FailoverInv

LEMMA AnswerLost_Inv ==
  ASSUME FailoverInv, NEW w \in Walks, AnswerLost(w)
  PROVE  FailoverInv'
<1> USE DEF AnswerLost, CanTry
<1>1. FailoverTypeOK'
  <2>1. walk' \in [Walks -> [at : WalkStages, list : Seq(Providers), i : 0 .. MaxAttempts]]
    BY Answered
  <2> QED BY <2>1 DEF FailoverInv, FailoverTypeOK
<1>2. OnItsList(w)' /\ Linked(w)' /\ walk'[w].at = "noting"
      /\ (\A x \in Walks \ {w} : walk'[x] = walk[x]) /\ \A x \in Walks : Links(x)' = Links(x)
  BY Answered
<1>3. \A x \in Walks : Abandoned(x)' = Abandoned(x)
  BY DEF Abandoned
<1>4. effects'[w] = effects[w] + 1 /\ trouble'[w] = trouble[w] + 1
  BY DEF FailoverInv, FailoverTypeOK
<1>5. effects[w] \in Nat /\ trouble[w] \in Nat
  BY DEF FailoverInv, FailoverTypeOK
<1>6. Cardinality(Abandoned(w)) \in Nat
  BY FS_CardinalityType DEF FailoverInv, Caused
<1>7. Caused(w)'
  BY <1>2, <1>3, <1>4, <1>5, <1>6 DEF Caused, Allowed, FailoverInv
<1>8. \A x \in Walks \ {w} : effects'[x] = effects[x] /\ trouble'[x] = trouble[x]
  BY DEF FailoverInv, FailoverTypeOK
<1> QED BY <1>1, <1>2, <1>3, <1>7, <1>8, OthersStay DEF FailoverInv

LEMMA TimeOut_Inv ==
  ASSUME FailoverInv, NEW w \in Walks, TimeOut(w)
  PROVE  FailoverInv'
<1> USE DEF TimeOut, CanTry
<1>0. PICK p : p = Current(w)
  OBVIOUS
<1>1. p \in Providers
  BY <1>0, LenProperties DEF FailoverInv, FailoverTypeOK, OnItsList, Current, List
<1>2. FailoverTypeOK'
  <2>1. walk' \in [Walks -> [at : WalkStages, list : Seq(Providers), i : 0 .. MaxAttempts]]
    BY Answered
  <2> QED BY <1>0, <1>1, <2>1 DEF FailoverInv, FailoverTypeOK
<1>3. OnItsList(w)' /\ Linked(w)' /\ walk'[w].at = "noting"
      /\ (\A x \in Walks \ {w} : walk'[x] = walk[x]) /\ \A x \in Walks : Links(x)' = Links(x)
  BY Answered
<1>4. IsFiniteSet(Abandoned(w)') /\ Cardinality(Abandoned(w)') <= Cardinality(Abandoned(w)) + 1
  BY <1>0, AbandonedAdds DEF FailoverInv, Caused
<1>5. \A x \in Walks \ {w} : Abandoned(x)' = Abandoned(x)
  BY <1>0, AbandonedAdds DEF FailoverInv, Caused
<1>6. trouble'[w] = trouble[w] + 1 /\ \A x \in Walks \ {w} : trouble'[x] = trouble[x]
  BY DEF FailoverInv, FailoverTypeOK
<1>7. effects[w] \in Nat /\ trouble[w] \in Nat
  BY DEF FailoverInv, FailoverTypeOK
<1>8. Cardinality(Abandoned(w)) \in Nat /\ Cardinality(Abandoned(w)') \in Nat
  BY <1>4, FS_CardinalityType DEF FailoverInv, Caused
<1>9. Caused(w)'
  BY <1>3, <1>4, <1>6, <1>7, <1>8 DEF Caused, Allowed, FailoverInv
<1> QED BY <1>2, <1>3, <1>5, <1>6, <1>9, OthersStay DEF FailoverInv

LEMMA LateEnd_Inv ==
  ASSUME FailoverInv, NEW w \in Walks, NEW p \in Providers, LateEnd(w, p)
  PROVE  FailoverInv'
<1> USE DEF LateEnd
<1>1. FailoverTypeOK'
  BY DEF FailoverInv, FailoverTypeOK
<1>2. IsFiniteSet(Abandoned(w)') /\ Cardinality(Abandoned(w)') = Cardinality(Abandoned(w)) - 1
  BY AbandonedEnds DEF FailoverInv, Caused
<1>3. \A x \in Walks \ {w} : Abandoned(x)' = Abandoned(x)
  BY DEF Abandoned
<1>4. \A x \in Walks : Links(x)' = Links(x)
  BY DEF Links
<1>5. effects'[w] \in {effects[w], effects[w] + 1} /\ \A x \in Walks \ {w} : effects'[x] = effects[x]
  BY DEF FailoverInv, FailoverTypeOK
<1>6. effects[w] \in Nat /\ trouble[w] \in Nat
  BY DEF FailoverInv, FailoverTypeOK
<1>7. Cardinality(Abandoned(w)) \in Nat
  BY FS_CardinalityType DEF FailoverInv, Caused
<1>8. Caused(w)'
  BY <1>2, <1>5, <1>6, <1>7 DEF Caused, Allowed, FailoverInv
<1>9. OnItsList(w)' /\ Linked(w)'
  BY <1>4 DEF FailoverInv, OnItsList, List, Linked, Walked, Leaving
<1> QED BY <1>1, <1>3, <1>4, <1>5, <1>8, <1>9, OthersStay DEF FailoverInv

\* A walk that is to log a failure: its event is one, and none of the others.
LEMMA LinkFacts ==
  ASSUME FailoverInv, NEW w \in Walks, walk[w].at = "noting"
  PROVE  /\ walk[w].i \in 1 .. Len(List(w)) /\ Len(List(w)) <= MaxAttempts
         /\ Len(List(w)) \in Nat /\ walk[w].i \in 1 .. MaxAttempts
         /\ Links(w) = Walked(w)
         /\ Link(w) = Leaving(w) /\ Link(w) \in Event /\ Link(w).walk = w
<1>1. List(w) \in Seq(Providers)
  BY DEF FailoverInv, FailoverTypeOK, List
<1>2. Len(List(w)) \in Nat
  BY <1>1, LenProperties
<1>3. OnItsList(w) /\ Linked(w)
  BY DEF FailoverInv
<1>4. walk[w].i \in 1 .. Len(List(w)) /\ Len(List(w)) <= MaxAttempts /\ walk[w].i \in 1 .. MaxAttempts
  BY <1>2, <1>3, MaxAttemptsAssumption DEF OnItsList
<1>5. Links(w) = Walked(w)
  BY <1>3 DEF Linked
<1>6. Link(w) = Leaving(w)
  BY <1>2, <1>4 DEF Link, Leaving, NextOf
<1>7. Leaving(w) \in Event /\ Leaving(w).walk = w
  BY <1>2, <1>4, MaxAttemptsAssumption DEF Leaving, Event
<1> QED BY <1>2, <1>4, <1>5, <1>6, <1>7

LEMMA NoteFails_Inv ==
  ASSUME FailoverInv, NEW w \in Walks, NoteFails(w)
  PROVE  FailoverInv'
<1> USE DEF NoteFails
<1>0. /\ Links(w) = Walked(w)
      /\ Link(w) = Leaving(w) /\ Link(w) \in Event /\ Link(w).walk = w
  BY LinkFacts
<1>1. FailoverTypeOK'
  BY <1>0 DEF FailoverInv, FailoverTypeOK, WalkStages
<1>2. walk'[w].at = "noteFailed" /\ walk'[w].i = walk[w].i /\ walk'[w].list = walk[w].list
      /\ \A x \in Walks \ {w} : walk'[x] = walk[x]
  BY DEF FailoverInv, FailoverTypeOK
<1>3. /\ \A x \in Walks : Abandoned(x)' = Abandoned(x)
      /\ \A x \in Walks \ {w} : Links(x)' = Links(x)
      /\ Links(w)' = Links(w) \/ Links(w)' = Links(w) \union {Link(w)}
  BY <1>0 DEF Links, Abandoned
<1>4. OnItsList(w)'
  BY <1>2 DEF FailoverInv, OnItsList, List
<1>5. Walked(w)' = Walked(w) /\ Leaving(w)' = Leaving(w)
  BY <1>2 DEF Walked, Leaving, List
<1>6. Linked(w)' /\ Caused(w)'
  BY <1>0, <1>2, <1>3, <1>5 DEF FailoverInv, Linked, Caused, Allowed
<1> QED BY <1>1, <1>2, <1>3, <1>4, <1>6, OthersStay DEF FailoverInv

LEMMA NoteFailure_Inv ==
  ASSUME FailoverInv, NEW w \in Walks, NoteFailure(w)
  PROVE  FailoverInv'
<1>0. PICK i : i = walk[w].i
  OBVIOUS
<1>1. walk[w].at = "noting" /\ i \in 1 .. Len(List(w)) /\ Len(List(w)) <= MaxAttempts
      /\ Len(List(w)) \in Nat /\ i \in 1 .. MaxAttempts
  BY <1>0, LinkFacts DEF NoteFailure
<1>2. \A x \in Walks : Abandoned(x)' = Abandoned(x)
  BY DEF Abandoned, NoteFailure
<1>3. Links(w) = Walked(w)
  BY <1>1, LinkFacts
<1>4. CASE i + 1 <= Len(List(w))
  <2>1. walk' = [walk EXCEPT ![w].at = "trying", ![w].i = i + 1]
        /\ events' = events \union {[walk |-> w, from |-> i, to |-> i + 1]}
        /\ UNCHANGED <<configured, broken, running, effects, trouble>>
    BY <1>0, <1>1, <1>4 DEF NoteFailure, NextOf, Link, FailoverInv, FailoverTypeOK
  <2>2. i + 1 \in 1 .. MaxAttempts
    BY <1>1, <1>4, MaxAttemptsAssumption
  <2>3. FailoverTypeOK'
    <3>1. walk' \in [Walks -> [at : WalkStages, list : Seq(Providers), i : 0 .. MaxAttempts]]
      <4>1. walk'[w] = [at |-> "trying", list |-> walk[w].list, i |-> i + 1]
        BY <2>1 DEF FailoverInv, FailoverTypeOK
      <4>2. walk'[w] \in [at : WalkStages, list : Seq(Providers), i : 0 .. MaxAttempts]
        BY <2>2, <4>1, MaxAttemptsAssumption DEF FailoverInv, FailoverTypeOK, WalkStages
      <4>3. walk' = [walk EXCEPT ![w] = walk'[w]]
        BY <2>1 DEF FailoverInv, FailoverTypeOK
      <4> QED BY <4>2, <4>3 DEF FailoverInv, FailoverTypeOK
    <3>2. [walk |-> w, from |-> i, to |-> i + 1] \in Event
      BY <1>1, <2>2 DEF Event
    <3> QED BY <2>1, <3>1, <3>2 DEF FailoverInv, FailoverTypeOK
  <2>4. walk'[w].at = "trying" /\ walk'[w].i = i + 1 /\ walk'[w].list = walk[w].list
        /\ \A x \in Walks \ {w} : walk'[x] = walk[x]
    BY <2>1 DEF FailoverInv, FailoverTypeOK
  <2>5. OnItsList(w)'
    BY <1>1, <1>4, <2>4 DEF OnItsList, List
  <2>6. Walked(w)' = Walked(w) \union {[walk |-> w, from |-> i, to |-> i + 1]}
    BY <1>0, <1>1, <2>4 DEF Walked
  <2>7. Links(w)' = Links(w) \union {[walk |-> w, from |-> i, to |-> i + 1]}
    BY <2>1 DEF Links
  <2>8. Linked(w)'
    BY <1>3, <2>4, <2>6, <2>7 DEF Linked
  <2>9. \A x \in Walks \ {w} : Links(x)' = Links(x)
    BY <2>1 DEF Links
  <2>10. Caused(w)'
    BY <1>1, <1>2, <2>1, <2>4 DEF FailoverInv, Caused, Allowed
  <2> QED BY <1>2, <2>1, <2>3, <2>4, <2>5, <2>8, <2>9, <2>10, OthersStay DEF FailoverInv
<1>5. CASE ~ i + 1 <= Len(List(w))
  <2>1. walk' = [walk EXCEPT ![w].at = "exhausted"]
        /\ events' = events \union {[walk |-> w, from |-> i, to |-> i]}
        /\ UNCHANGED <<configured, broken, running, effects, trouble>>
    BY <1>0, <1>1, <1>5 DEF NoteFailure, NextOf, Link, FailoverInv, FailoverTypeOK
  <2>3. FailoverTypeOK'
    <3>1. walk' \in [Walks -> [at : WalkStages, list : Seq(Providers), i : 0 .. MaxAttempts]]
      BY <2>1 DEF FailoverInv, FailoverTypeOK, WalkStages
    <3>2. [walk |-> w, from |-> i, to |-> i] \in Event
      BY <1>1 DEF Event
    <3> QED BY <2>1, <3>1, <3>2 DEF FailoverInv, FailoverTypeOK
  <2>4. walk'[w].at = "exhausted" /\ walk'[w].i = i /\ walk'[w].list = walk[w].list
        /\ \A x \in Walks \ {w} : walk'[x] = walk[x]
    BY <1>0, <2>1 DEF FailoverInv, FailoverTypeOK
  <2>5. OnItsList(w)'
    BY <1>1, <1>5, <2>4 DEF OnItsList, List
  <2>6. Walked(w)' = Walked(w) /\ Leaving(w)' = [walk |-> w, from |-> i, to |-> i]
    BY <1>0, <1>1, <1>5, <2>4 DEF Walked, Leaving, List
  <2>7. Links(w)' = Links(w) \union {[walk |-> w, from |-> i, to |-> i]}
    BY <2>1 DEF Links
  <2>8. Linked(w)'
    BY <1>3, <2>4, <2>6, <2>7 DEF Linked
  <2>9. \A x \in Walks \ {w} : Links(x)' = Links(x)
    BY <2>1 DEF Links
  <2>10. Caused(w)'
    BY <1>1, <1>2, <2>1, <2>4 DEF FailoverInv, Caused, Allowed
  <2> QED BY <1>2, <2>1, <2>3, <2>4, <2>5, <2>8, <2>9, <2>10, OthersStay DEF FailoverInv
<1> QED BY <1>4, <1>5

LEMMA Reconfigure_Inv ==
  ASSUME FailoverInv, NEW p \in Providers, Reconfigure(p)
  PROVE  FailoverInv'
<1>1. configured \in Seq(Providers)
  BY DEF FailoverInv, FailoverTypeOK
<1>2. configured' \in Seq(Providers)
  <2>1. CASE p \in Range(configured)
    <3>1. PICK k \in DOMAIN configured : configured' = RemoveAt(configured, k)
      BY <2>1 DEF Reconfigure
    <3>2. k \in 1 .. Len(configured) /\ Len(configured) \in Nat
      BY <1>1, LenProperties
    <3>3. SubSeq(configured, 1, k - 1) \in Seq(Providers)
      BY <1>1, <3>2, SubSeqProperties, ElementOfSeq
    <3>4. SubSeq(configured, k + 1, Len(configured)) \in Seq(Providers)
      BY <1>1, <3>2, SubSeqProperties, ElementOfSeq
    <3> QED BY <3>1, <3>3, <3>4, ConcatProperties DEF RemoveAt
  <2>2. CASE p \notin Range(configured)
    BY <1>1, <2>2, AppendProperties DEF Reconfigure
  <2> QED BY <2>1, <2>2
<1>3. FailoverTypeOK'
  BY <1>2 DEF FailoverInv, FailoverTypeOK, Reconfigure
<1>4. \A x \in Walks : (OnItsList(x) /\ Linked(x) /\ Caused(x))'
  <2> TAKE x \in Walks
  <2>1. Links(x)' = Links(x) /\ Abandoned(x)' = Abandoned(x)
    BY DEF Links, Abandoned, Reconfigure
  <2> QED BY <2>1, SameWalk DEF FailoverInv, Reconfigure
<1> QED BY <1>3, <1>4 DEF FailoverInv

LEMMA FailoverStep_Inv == FailoverInv /\ [FailoverNext]_failoverVars => FailoverInv'
<1> SUFFICES ASSUME FailoverInv, [FailoverNext]_failoverVars PROVE FailoverInv'
  OBVIOUS
<1>1. CASE UNCHANGED failoverVars
  <2> USE <1>1 DEF failoverVars
  <2>1. FailoverTypeOK'
    BY DEF FailoverInv, FailoverTypeOK
  <2>2. \A x \in Walks : (OnItsList(x) /\ Linked(x) /\ Caused(x))'
    <3> TAKE x \in Walks
    <3>1. Links(x)' = Links(x) /\ Abandoned(x)' = Abandoned(x)
      BY DEF Links, Abandoned
    <3> QED BY <3>1, SameWalk DEF FailoverInv
  <2> QED BY <2>1, <2>2 DEF FailoverInv
<1>2. CASE FailoverNext
  BY <1>2, BeginWalk_Inv, Leaves_Inv, Succeed_Inv, AnswerLost_Inv, TimeOut_Inv, NoteFailure_Inv,
     NoteFails_Inv, LateEnd_Inv, Reconfigure_Inv DEF FailoverNext
<1> QED BY <1>1, <1>2

\* The inductive invariant of the walks over a list of providers: where each walk
\* is on its list, which failover events it has logged, and which attempts it has
\* abandoned that may still take effect.
THEOREM FailoverInvariantHolds == FailoverSpec => []FailoverInv
BY FailoverInit_Inv, FailoverStep_Inv, PTL DEF FailoverSpec

LEMMA WalksAccounts == FailoverInv => WalkIsAccountedFor
<1> SUFFICES ASSUME FailoverInv, NEW w \in Walks
             PROVE  /\ Len(List(w)) <= MaxAttempts
                    /\ Linked(w)
                    /\ walk[w].at = "exhausted" => walk[w].i = Len(List(w))
                    /\ effects[w] + Cardinality(Abandoned(w)) <= Allowed(w)
  BY DEF WalkIsAccountedFor, Linked, Links, Walked, Leaving, Abandoned, Allowed
<1> QED BY DEF FailoverInv, OnItsList, Linked, Caused

\* A walk's failover events link each provider that it left to the next, or, when
\* the log itself failed, the one it could not leave as well; a walk that gave up tried all it listed, and an operation takes effect more than once
\* only by timeouts and lost answers.
THEOREM WalksAreAccountedFor == FailoverSpec => []WalkIsAccountedFor
BY FailoverInvariantHolds, WalksAccounts, PTL

------------------------------------------------------------------------------
(* The connection pool.                                                    *)

\* The queue holds each request that waits for a connection once.
QueueInv ==
  /\ \A i \in 1 .. Len(waiting) : user[waiting[i]].at \in {"connecting", "nesting"}
  /\ \A i, j \in 1 .. Len(waiting) : waiting[i] = waiting[j] => i = j

\* Who nests and who locks.
UseInv == \A r \in Requests :
  /\ user[r].at \in {"nesting", "nested", "returned"} => user[r].use \in {"topup", "adjustment"}
  /\ user[r].at = "locking" => NeedsRow(user[r].use)

\* Whoever is past the lock of the wallet's row holds it, and nobody else.
RowInv == \A r \in Requests :
  walletRow = r <=> \/ user[r].at = "locked"
                    \/ user[r].at \in {"nesting", "nested", "returned"} /\ user[r].use = "adjustment"

LockedUse == \A r \in Requests : user[r].at = "locked" => NeedsRow(user[r].use)

PoolInv == PoolTypeOK /\ QueueInv /\ UseInv /\ RowInv /\ LockedUse

\* A request that joins the queue, or leaves it for another spot, joins or
\* leaves it once.
LEMMA JoinsQueue ==
  ASSUME PoolTypeOK, QueueInv, NEW r \in Requests, NEW from \in Spots \ {"connecting", "nesting"},
         NEW to \in {"connecting", "nesting"}, Connect(r, from, to)
  PROVE  QueueInv' /\ waiting' \in Seq(Requests)
<1>1. /\ waiting' = Append(waiting, r) /\ waiting' \in Seq(Requests)
      /\ Len(waiting') = Len(waiting) + 1 /\ Len(waiting) \in Nat
      /\ waiting'[Len(waiting) + 1] = r
      /\ \A i \in 1 .. Len(waiting) : waiting'[i] = waiting[i]
  BY DEF Connect, Goes, PoolTypeOK
<1>2. \A i \in 1 .. Len(waiting) : waiting[i] # r /\ waiting[i] \in Requests
  BY DEF Connect, Goes, PoolTypeOK, QueueInv
<1>3. user'[r].at = to /\ \A q \in Requests : q # r => user'[q] = user[q]
  BY DEF Connect, Goes, PoolTypeOK
<1>4. \A i \in 1 .. Len(waiting') : user'[waiting'[i]].at \in {"connecting", "nesting"}
  BY <1>1, <1>2, <1>3 DEF QueueInv
<1>5. \A i, j \in 1 .. Len(waiting') : waiting'[i] = waiting'[j] => i = j
  BY <1>1, <1>2 DEF QueueInv
<1> QED BY <1>1, <1>4, <1>5 DEF QueueInv

LEMMA QueueKept ==
  ASSUME PoolTypeOK, QueueInv, NEW r \in Requests, user[r].at \notin {"connecting", "nesting"},
         waiting' = waiting, NEW s, user' = [user EXCEPT ![r].at = s]
  PROVE  QueueInv'
<1>1. \A i \in 1 .. Len(waiting) : waiting[i] # r /\ waiting[i] \in Requests
  BY DEF PoolTypeOK, QueueInv
<1>2. \A q \in Requests : q # r => user'[q] = user[q]
  BY DEF PoolTypeOK
<1> QED BY <1>1, <1>2 DEF QueueInv

LEMMA LeavesQueue ==
  ASSUME PoolTypeOK, QueueInv, waiting # <<>>, NEW s, waiting' = Tail(waiting),
         user' = [user EXCEPT ![Head(waiting)].at = s]
  PROVE  /\ QueueInv' /\ waiting' \in Seq(Requests)
         /\ Head(waiting) \in Requests
         /\ user[Head(waiting)].at \in {"connecting", "nesting"}
<1>1. /\ Len(waiting) \in Nat \ {0} /\ Head(waiting) = waiting[1]
      /\ waiting[1] \in Requests
      /\ waiting' \in Seq(Requests) /\ Len(waiting') = Len(waiting) - 1
      /\ \A i \in 1 .. Len(waiting') : waiting'[i] = waiting[i + 1]
  BY HeadTailProperties, EmptySeq, ElementOfSeq DEF PoolTypeOK
<1>2. \A i \in 1 .. Len(waiting') : waiting[i + 1] # waiting[1] /\ waiting[i + 1] \in Requests
  <2> SUFFICES ASSUME NEW i \in 1 .. Len(waiting')
               PROVE waiting[i + 1] # waiting[1] /\ waiting[i + 1] \in Requests
    OBVIOUS
  <2>1. i \in Nat /\ i + 1 \in 1 .. Len(waiting) /\ 1 \in 1 .. Len(waiting) /\ i + 1 # 1
    BY <1>1
  <2> QED BY <2>1, ElementOfSeq DEF QueueInv, PoolTypeOK
<1>3. \A q \in Requests : q # waiting[1] => user'[q] = user[q]
  BY <1>1 DEF PoolTypeOK
<1>4. QueueInv'
  BY <1>1, <1>2, <1>3 DEF QueueInv
<1> QED BY <1>1, <1>4 DEF QueueInv

LEMMA PoolInit_Inv == PoolInit => PoolInv
<1> SUFFICES ASSUME PoolInit PROVE PoolInv
  OBVIOUS
<1>1. PoolTypeOK
  BY DEF PoolInit, PoolTypeOK, Spots
<1>2. QueueInv
  BY DEF PoolInit, QueueInv
<1>3. UseInv /\ LockedUse
  BY DEF PoolInit, UseInv, LockedUse
<1>4. RowInv
  BY NoRequestAssumption DEF PoolInit, RowInv
<1> QED BY <1>1, <1>2, <1>3, <1>4 DEF PoolInv

LEMMA PoolStep_Inv == PoolInv /\ [PoolNext]_poolVars => PoolInv'
<1> SUFFICES ASSUME PoolInv, [PoolNext]_poolVars PROVE PoolInv'
  OBVIOUS
<1> USE NoRequestAssumption DEF PoolInv
<1>1. CASE Grant
  <2> DEFINE q == Head(waiting)
  <2>1. QueueInv' /\ waiting' \in Seq(Requests) /\ q \in Requests
        /\ user[q].at \in {"connecting", "nesting"}
    BY <1>1, LeavesQueue DEF Grant
  <2>2. user' = [user EXCEPT ![q].at = IF @ = "connecting" THEN "begun" ELSE "nested"]
    BY <1>1 DEF Grant
  <2>3. walletRow' = walletRow
    BY <1>1 DEF Grant
  <2> HIDE DEF q
  <2>4. PoolTypeOK'
    BY <2>1, <2>2, <2>3 DEF PoolTypeOK, Spots
  <2>5. UseInv' /\ LockedUse' /\ RowInv'
    BY <2>1, <2>2, <2>3 DEF PoolTypeOK, UseInv, LockedUse, RowInv
  <2> QED BY <2>1, <2>4, <2>5
<1>2. ASSUME NEW r \in Requests, OpenTransaction(r) PROVE PoolInv'
  <2>1. QueueInv' /\ waiting' \in Seq(Requests)
    BY <1>2, JoinsQueue DEF OpenTransaction, Spots
  <2>2. PoolTypeOK'
    BY <1>2, <2>1 DEF OpenTransaction, Connect, Goes, PoolTypeOK, Spots
  <2>3. UseInv' /\ LockedUse' /\ RowInv'
    BY <1>2 DEF OpenTransaction, Connect, Goes, PoolTypeOK, UseInv, LockedUse, RowInv
  <2> QED BY <2>1, <2>2, <2>3
<1>3. ASSUME NEW r \in Requests, ResolveProvider(r) PROVE PoolInv'
  <2>1. QueueInv' /\ waiting' \in Seq(Requests)
    BY <1>3, JoinsQueue DEF ResolveProvider, Spots
  <2>2. PoolTypeOK'
    BY <1>3, <2>1 DEF ResolveProvider, Connect, Goes, PoolTypeOK, Spots
  <2>3. UseInv' /\ LockedUse' /\ RowInv'
    BY <1>3 DEF ResolveProvider, NestsProvider, Connect, Goes, PoolTypeOK, UseInv, LockedUse, RowInv
  <2> QED BY <2>1, <2>2, <2>3
<1>4. ASSUME NEW r \in Requests, WaitForRow(r) PROVE PoolInv'
  <2>1. QueueInv'
    BY <1>4, QueueKept DEF WaitForRow, Goes
  <2>2. PoolTypeOK'
    BY <1>4 DEF WaitForRow, Goes, PoolTypeOK, Spots
  <2>3. UseInv' /\ LockedUse' /\ RowInv'
    BY <1>4 DEF WaitForRow, Goes, PoolTypeOK, UseInv, LockedUse, RowInv
  <2> QED BY <2>1, <2>2, <2>3
<1>5. ASSUME NEW r \in Requests, LockRow(r) PROVE PoolInv'
  <2>1. QueueInv'
    BY <1>5, QueueKept DEF LockRow, Goes
  <2>2. PoolTypeOK'
    BY <1>5 DEF LockRow, Goes, PoolTypeOK, Spots
  <2>3. UseInv' /\ LockedUse' /\ RowInv'
    BY <1>5 DEF LockRow, Goes, PoolTypeOK, UseInv, LockedUse, RowInv
  <2> QED BY <2>1, <2>2, <2>3
<1>6. ASSUME NEW r \in Requests, RefuseDebit(r) PROVE PoolInv'
  <2>1. QueueInv' /\ waiting' \in Seq(Requests)
    BY <1>6, JoinsQueue DEF RefuseDebit, Spots
  <2>2. PoolTypeOK'
    BY <1>6, <2>1 DEF RefuseDebit, Connect, Goes, PoolTypeOK, Spots
  <2>3. UseInv' /\ LockedUse' /\ RowInv'
    BY <1>6 DEF RefuseDebit, Connect, Goes, PoolTypeOK, UseInv, LockedUse, RowInv
  <2> QED BY <2>1, <2>2, <2>3
<1>7. ASSUME NEW r \in Requests, Return(r) PROVE PoolInv'
  <2>1. QueueInv'
    BY <1>7, QueueKept DEF Return, Goes
  <2>2. PoolTypeOK'
    BY <1>7 DEF Return, Goes, PoolTypeOK, Spots
  <2>3. UseInv' /\ LockedUse' /\ RowInv'
    BY <1>7 DEF Return, Goes, PoolTypeOK, UseInv, LockedUse, RowInv
  <2> QED BY <2>1, <2>2, <2>3
<1>8. ASSUME NEW r \in Requests, Finish(r) PROVE PoolInv'
  <2>1. QueueInv'
    BY <1>8, QueueKept DEF Finish
  <2>2. PoolTypeOK'
    BY <1>8 DEF Finish, PoolTypeOK, Spots
  <2>3. UseInv' /\ LockedUse'
    BY <1>8 DEF Finish, PoolTypeOK, UseInv, LockedUse
  <2>4. RowInv'
    BY <1>8 DEF Finish, PoolTypeOK, RowInv
  <2> QED BY <2>1, <2>2, <2>3, <2>4
<1>9. ASSUME NEW r \in Requests, Fail(r) PROVE PoolInv'
  <2>1. QueueInv'
    BY <1>9, QueueKept DEF Fail
  <2>2. PoolTypeOK'
    BY <1>9 DEF Fail, PoolTypeOK, Spots
  <2>3. UseInv' /\ LockedUse' /\ RowInv'
    BY <1>9 DEF Fail, PoolTypeOK, UseInv, LockedUse, RowInv
  <2> QED BY <2>1, <2>2, <2>3
<1>10. CASE UNCHANGED poolVars
  BY <1>10 DEF poolVars, PoolTypeOK, QueueInv, UseInv, LockedUse, RowInv
<1> QED BY <1>1, <1>2, <1>3, <1>4, <1>5, <1>6, <1>7, <1>8, <1>9, <1>10 DEF PoolNext

\* The inductive invariant: the queue holds each waiting request once, only
\* top-ups and adjustments nest, and the wallet's row is held by exactly the
\* request that is past its lock.
THEOREM PoolInvariantHolds == PoolSpec => []PoolInv
BY PoolInit_Inv, PoolStep_Inv, PTL DEF PoolSpec

\* Type correctness of the pool's model.
THEOREM PoolTypeCorrect == PoolSpec => []PoolTypeOK
BY PoolInvariantHolds, PTL DEF PoolInv

LEMMA JamCauses == PoolInv => JamNeedsNesting
<1> SUFFICES ASSUME PoolInv, Jammed, NEW r \in Requests, Holding(r)
             PROVE  \/ user[r].use = "topup" /\ user[r].at = "nesting"
                    \/ NeedsRow(user[r].use) /\ walletRow # NoRequest
                         /\ user[walletRow].use = "adjustment" /\ user[walletRow].at = "nesting"
  BY DEF JamNeedsNesting
<1> USE NoRequestAssumption DEF PoolInv
<1>1. CASE user[r].at = "nesting"
  <2>1. user[r].use = "topup" \/ (user[r].use = "adjustment" /\ walletRow = r)
    BY <1>1 DEF UseInv, RowInv
  <2> QED BY <1>1, <2>1 DEF NeedsRow
<1>2. CASE user[r].at = "locking" /\ walletRow # NoRequest
  <2>1. walletRow \in Requests
    BY <1>2 DEF PoolTypeOK
  <2>2. user[walletRow].at \in {"locked", "nesting", "nested", "returned"}
    BY <2>1 DEF RowInv
  <2>3. user[walletRow].at = "nesting"
    BY <2>1, <2>2 DEF Jammed, Holding, Waits
  <2>4. user[walletRow].use = "adjustment"
    BY <2>1, <2>3 DEF RowInv
  <2> QED BY <1>2, <2>3, <2>4 DEF UseInv
<1> QED BY <1>1, <1>2 DEF Jammed, Waits

\* Whatever the traffic and however small the pool, it jams only under top-ups
\* that resolve their provider or a refused adjustment that holds the wallet's
\* row: outbound calls, which reuse their connection, never jam it.
THEOREM JamsNeedNesting == PoolSpec => []JamNeedsNesting
BY PoolInvariantHolds, JamCauses, PTL

------------------------------------------------------------------------------
(* The voice gateway's streams.                                            *)

Line(v, role) == [by |-> v, role |-> role]

\* What the call's conversation holds of v: the question, the question answered.
Asked(o, v) == \E i \in 1 .. Len(talk[o].messages) : talk[o].messages[i] = Line(v, "user")
Told(o, v) == \E i, j \in 1 .. Len(talk[o].messages) :
  i < j /\ talk[o].messages[i] = Line(v, "user") /\ talk[o].messages[j] = Line(v, "assistant")

\* A stream's orchestrator is the present session's, or the session was lost.
Home(o) == session = o \/ restarts > 0 \/ \E s \in Starts \ {o} : starts[s] = "done"

Heard(r) == r.interruptedBy # {} /\ ~r.wiped

StreamOK(v) == LET r == stream[v] IN
  /\ r.at \notin {"new", "refused"} => r.on \in Starts /\ Home(r.on)
  /\ v \notin r.interruptedBy
  /\ r.at \in {"new", "listening", "thinking"} => r.interruptedBy = {}
  /\ r.at = "speaking" /\ r.left > 0 => (talk[r.on].interrupted <=> Heard(r))
  /\ r.at = "speaking" /\ r.left = 0 => ~Heard(r)
  /\ r.at = "thinking" => Asked(r.on, v)
  /\ r.at \in {"speaking", "said", "cut"} => Told(r.on, v)
  /\ r.at = "cut" => r.interruptedBy # {}
  /\ r.at = "said" => ~Heard(r)

VoiceInv == VoiceTypeOK /\ \A v \in Streams : StreamOK(v)

StreamRow == [at : TurnStages, on : 0 .. MaxStarts, tools : 0 .. MaxTools,
              left : 0 .. MaxChunks, interruptedBy : SUBSET Streams, wiped : BOOLEAN]

LEMMA VoiceInit_Inv == VoiceInit => VoiceInv
<1> SUFFICES ASSUME VoiceInit PROVE VoiceInv
  OBVIOUS
<1> USE VoiceAssumption
<1>1. <<>> \in Seq(Message)
  BY EmptySeq
<1>2. VoiceTypeOK
  BY <1>1 DEF VoiceInit, VoiceTypeOK, TurnStages
<1>3. \A v \in Streams : StreamOK(v)
  BY DEF VoiceInit, StreamOK
<1> QED BY <1>2, <1>3 DEF VoiceInv

\* A conversation only grows.
LEMMA ConversationGrows ==
  ASSUME VoiceTypeOK, NEW o \in Starts, NEW m \in Message,
         talk'[o].messages = Append(talk[o].messages, m)
  PROVE  \A v \in Streams :
           /\ Asked(o, v) => Asked(o, v)'
           /\ Told(o, v) => Told(o, v)'
           /\ m = Line(v, "user") => Asked(o, v)'
           /\ m = Line(v, "assistant") /\ Asked(o, v) => Told(o, v)'
<1> DEFINE s == talk[o].messages
           t == talk'[o].messages
<1>1. s \in Seq(Message)
  BY DEF VoiceTypeOK
<1>2. /\ Len(s) \in Nat /\ Len(t) = Len(s) + 1 /\ t[Len(s) + 1] = m
      /\ \A i \in 1 .. Len(s) : t[i] = s[i]
  BY <1>1, AppendProperties, LenProperties
<1> HIDE DEF s, t
<1> TAKE v \in Streams
<1>3. Asked(o, v) <=> \E i \in 1 .. Len(s) : s[i] = Line(v, "user")
  BY DEF Asked, s
<1>4. Asked(o, v)' <=> \E i \in 1 .. Len(t) : t[i] = Line(v, "user")
  BY DEF Asked, t, Line
<1>5. Told(o, v) <=> \E i, j \in 1 .. Len(s) :
        i < j /\ s[i] = Line(v, "user") /\ s[j] = Line(v, "assistant")
  BY DEF Told, s
<1>6. Told(o, v)' <=> \E i, j \in 1 .. Len(t) :
        i < j /\ t[i] = Line(v, "user") /\ t[j] = Line(v, "assistant")
  BY DEF Told, t, Line
<1>7. Asked(o, v) => Asked(o, v)'
  BY <1>2, <1>3, <1>4
<1>8. Told(o, v) => Told(o, v)'
  BY <1>2, <1>5, <1>6
<1>9. m = Line(v, "user") => Asked(o, v)'
  BY <1>2, <1>4
<1>10. m = Line(v, "assistant") /\ Asked(o, v) => Told(o, v)'
  <2> SUFFICES ASSUME m = Line(v, "assistant"), Asked(o, v) PROVE Told(o, v)'
    OBVIOUS
  <2>1. PICK i \in 1 .. Len(s) : s[i] = Line(v, "user")
    BY <1>3
  <2>2. i \in 1 .. Len(t) /\ Len(s) + 1 \in 1 .. Len(t) /\ i < Len(s) + 1 /\ t[i] = s[i]
    BY <1>2, <2>1
  <2> QED BY <1>2, <1>6, <2>1, <2>2
<1> QED BY <1>7, <1>8, <1>9, <1>10

\* A stream that a step leaves alone stays in order when the flag of its
\* orchestrator does and the conversation is not cut.
LEMMA OtherStreams ==
  ASSUME VoiceInv, NEW u \in Streams, stream'[u] = stream[u],
         \A o \in Starts :
           /\ Home(o) => Home(o)'
           /\ stream[u].on = o =>
                /\ talk'[o].interrupted = talk[o].interrupted
                     \/ ~(stream[u].at = "speaking" /\ stream[u].left > 0)
                /\ Asked(o, u) => Asked(o, u)'
                /\ Told(o, u) => Told(o, u)'
  PROVE  StreamOK(u)'
<1>1. StreamOK(u)
  BY DEF VoiceInv
<1>2. CASE stream[u].at \in {"new", "refused"}
  BY <1>1, <1>2 DEF StreamOK
<1>3. CASE stream[u].at \notin {"new", "refused"}
  <2>1. PICK o \in Starts : o = stream[u].on /\ Home(o)
    BY <1>1, <1>3 DEF StreamOK
  <2>2. Home(o)' /\ (Asked(o, u) => Asked(o, u)') /\ (Told(o, u) => Told(o, u)')
    BY <2>1
  <2>3. talk'[o].interrupted = talk[o].interrupted
          \/ ~(stream[u].at = "speaking" /\ stream[u].left > 0)
    BY <2>1
  <2> QED BY <1>1, <2>1, <2>2, <2>3 DEF StreamOK, Starts, Heard
<1> QED BY <1>2, <1>3

\* A step on stream v alone: what is left to show.
LEMMA StreamStep ==
  ASSUME VoiceInv, NEW v \in Streams, NEW r \in StreamRow,
         stream' = [stream EXCEPT ![v] = r],
         talk' \in [Starts -> [messages : Seq(Message), interrupted : BOOLEAN]],
         UNCHANGED <<starts, session, restarts>>,
         \A o \in Starts, u \in Streams \ {v} :
           /\ talk'[o].interrupted = talk[o].interrupted
           /\ Asked(o, u) => Asked(o, u)'
           /\ Told(o, u) => Told(o, u)',
         StreamOK(v)'
  PROVE  VoiceInv'
<1>1. VoiceTypeOK'
  BY DEF VoiceInv, VoiceTypeOK, StreamRow
<1>2. \A o \in Starts : Home(o) => Home(o)'
  BY DEF Home
<1>3. ASSUME NEW u \in Streams \ {v} PROVE StreamOK(u)'
  <2>1. stream'[u] = stream[u]
    BY DEF VoiceInv, VoiceTypeOK
  <2> QED BY <1>2, <2>1, OtherStreams
<1> QED BY <1>1, <1>3 DEF VoiceInv

LEMMA SameTalk ==
  ASSUME UNCHANGED talk
  PROVE  \A o, u : /\ talk'[o].interrupted = talk[o].interrupted
                   /\ Asked(o, u) => Asked(o, u)'
                   /\ Told(o, u) => Told(o, u)'
BY DEF Asked, Told, Line

LEMMA TurnOverTyped ==
  ASSUME NEW v, stream[v] \in StreamRow, NEW at \in TurnStages
  PROVE  TurnOver(v, at) \in StreamRow
<1>1. 0 \in 0 .. MaxTools /\ 0 \in 0 .. MaxChunks
  BY VoiceAssumption
<1> QED BY <1>1 DEF TurnOver, StreamRow

LEMMA Starting_Inv ==
  ASSUME VoiceInv, NEW s \in Starts,
         BeginStart(s) \/ ResolveLayer(s) \/ InstallSession(s) \/ StartFails(s)
  PROVE  VoiceInv'
<1> USE VoiceAssumption DEF BeginStart, ResolveLayer, InstallSession, StartFails
<1>1. UNCHANGED <<talk, stream, restarts>>
  OBVIOUS
<1>2. starts \in [Starts -> {"new", "stt", "llm", "tts", "done", "failed"}] /\ session \in 0 .. MaxStarts
  BY DEF VoiceInv, VoiceTypeOK
<1>3. /\ starts' \in [Starts -> {"new", "stt", "llm", "tts", "done", "failed"}]
      /\ session' \in 0 .. MaxStarts
  <2>1. starts[s] \in DOMAIN NextLayer => NextLayer[starts[s]] \in {"llm", "tts"}
    BY DEF NextLayer
  <2> QED BY <1>2, <2>1 DEF Starts
<1>4. VoiceTypeOK'
  BY <1>1, <1>3 DEF VoiceInv, VoiceTypeOK
<1>5. \A o \in Starts : starts[o] = "done" => starts'[o] = "done"
  BY <1>2 DEF NextLayer
<1>6. ASSUME NEW o \in Starts, Home(o) PROVE Home(o)'
  <2>1. session' = session \/ (session' = s /\ starts'[s] = "done")
    BY <1>2
  <2> QED BY <1>1, <1>5, <1>6, <2>1 DEF Home
<1>7. ASSUME NEW u \in Streams PROVE StreamOK(u)'
  BY <1>1, <1>6, SameTalk, OtherStreams
<1> QED BY <1>4, <1>7 DEF VoiceInv

LEMMA Connecting_Inv ==
  ASSUME VoiceInv, NEW v \in Streams, RefuseStream(v) \/ ConnectStream(v)
  PROVE  VoiceInv'
<1>1. VoiceTypeOK /\ StreamOK(v) /\ stream[v] \in StreamRow
  BY DEF VoiceInv, VoiceTypeOK, StreamRow
<1>2. CASE RefuseStream(v)
  <2> DEFINE r == [stream[v] EXCEPT !.at = "refused", !.tools = 0, !.left = 0]
  <2>1. r \in StreamRow /\ stream' = [stream EXCEPT ![v] = r] /\ UNCHANGED <<starts, session, talk, restarts>>
    <3>1. stream' = [stream EXCEPT ![v] = r] /\ UNCHANGED <<starts, session, talk, restarts>>
      BY <1>2 DEF RefuseStream, To, TurnOver
    <3> QED BY <1>1, <3>1, TurnOverTyped DEF TurnOver, TurnStages
  <2>2. StreamOK(v)'
    BY <1>1, <2>1 DEF StreamOK, VoiceTypeOK
  <2> QED BY <1>1, <2>1, <2>2, SameTalk, StreamStep DEF VoiceTypeOK
<1>3. CASE ConnectStream(v)
  <2> DEFINE r == [stream[v] EXCEPT !.at = "listening", !.on = session]
  <2>1. r \in StreamRow /\ stream' = [stream EXCEPT ![v] = r] /\ UNCHANGED <<starts, session, talk, restarts>>
    BY <1>1, <1>3 DEF ConnectStream, StreamRow, TurnStages, VoiceTypeOK
  <2>2. session \in Starts /\ Home(session)'
    BY <1>1, <1>3, <2>1, VoiceAssumption DEF ConnectStream, Home, VoiceTypeOK, Starts
  <2>3. StreamOK(v)'
    BY <1>1, <1>3, <2>1, <2>2 DEF ConnectStream, StreamOK, VoiceTypeOK, Home
  <2> QED BY <1>1, <2>1, <2>3, SameTalk, StreamStep DEF VoiceTypeOK
<1> QED BY <1>2, <1>3

\* The interruption reaches exactly the replies that are playing.
LEMMA Interrupt_Inv ==
  ASSUME VoiceInv, NEW v \in Streams, Interrupt(v)
  PROVE  VoiceInv'
<1>1. VoiceTypeOK /\ StreamOK(v) /\ stream[v].at = "listening"
  BY DEF VoiceInv, Interrupt
<1>2. PICK o \in Starts : o = stream[v].on
  BY <1>1 DEF StreamOK
<1>3. /\ talk' = [talk EXCEPT ![o].interrupted = TRUE]
      /\ UNCHANGED <<starts, session, restarts>>
  BY <1>2 DEF Interrupt
<1>4. ASSUME NEW u \in Streams
      PROVE  stream'[u] = IF u \in Replying(v)
               THEN [stream[u] EXCEPT !.interruptedBy = @ \union {v}, !.wiped = FALSE]
               ELSE stream[u]
  BY DEF Interrupt
<1>5. VoiceTypeOK'
  <2>1. stream' \in [Streams -> StreamRow]
    <3>1. ASSUME NEW u \in Streams PROVE stream[u] \in StreamRow
      BY <1>1 DEF VoiceTypeOK, StreamRow
    <3>2. ASSUME NEW u \in Streams PROVE stream'[u] \in StreamRow
      <4>1. CASE u \in Replying(v)
        <5>1. stream'[u] = [stream[u] EXCEPT !.interruptedBy = stream[u].interruptedBy \union {v},
                                             !.wiped = FALSE]
          BY <1>4, <4>1
        <5>2. stream[u].interruptedBy \union {v} \in SUBSET Streams
          BY <3>1 DEF StreamRow
        <5> QED BY <3>1, <5>1, <5>2 DEF StreamRow
      <4>2. CASE u \notin Replying(v)
        BY <1>4, <3>1, <4>2
      <4> QED BY <4>1, <4>2
    <3> QED BY <3>2 DEF Interrupt
  <2>2. talk' \in [Starts -> [messages : Seq(Message), interrupted : BOOLEAN]]
    BY <1>1, <1>3 DEF VoiceTypeOK
  <2> QED BY <1>1, <1>3, <2>1, <2>2 DEF VoiceTypeOK, StreamRow
<1>6. \A x \in Starts : talk'[x].messages = talk[x].messages
                        /\ talk'[x].interrupted = IF x = o THEN TRUE ELSE talk[x].interrupted
  BY <1>1, <1>3 DEF VoiceTypeOK
<1>7. \A x \in Starts, u \in Streams : (Asked(x, u) => Asked(x, u)') /\ (Told(x, u) => Told(x, u)')
  BY <1>6 DEF Asked, Told, Line
<1>8. \A x \in Starts : Home(x) => Home(x)'
  BY <1>3 DEF Home
<1>9. ASSUME NEW u \in Streams PROVE StreamOK(u)'
  <2>1. CASE u \in Replying(v)
    <3>1. /\ stream[u].at = "speaking" /\ stream[u].on = o /\ stream[u].left > 0 /\ u # v
          /\ stream[u] \in StreamRow /\ StreamOK(u)
      BY <1>1, <1>2, <2>1 DEF Replying, VoiceInv, VoiceTypeOK, StreamRow
    <3>2. /\ stream'[u].at = "speaking" /\ stream'[u].on = o /\ stream'[u].left > 0
          /\ stream'[u].left = stream[u].left
          /\ stream'[u].interruptedBy = stream[u].interruptedBy \union {v} /\ stream'[u].wiped = FALSE
      BY <1>4, <2>1, <3>1 DEF StreamRow
    <3>3. Home(o)' /\ Told(o, u)' /\ talk'[o].interrupted = TRUE
      BY <1>6, <1>7, <1>8, <3>1 DEF StreamOK
    <3> QED BY <3>1, <3>2, <3>3 DEF StreamOK, Heard, StreamRow
  <2>2. CASE u \notin Replying(v)
    <3>1. stream[u].on = o => ~(stream[u].at = "speaking" /\ stream[u].left > 0)
      BY <1>2, <2>2 DEF Replying
    <3> QED BY <1>4, <1>6, <1>7, <1>8, <2>2, <3>1, OtherStreams
  <2> QED BY <2>1, <2>2
<1> QED BY <1>5, <1>9 DEF VoiceInv

\* A line said on v: the conversation grows, the flag stays.
LEMMA SaidLine ==
  ASSUME VoiceTypeOK, NEW v \in Streams, NEW o \in Starts, NEW role \in {"user", "tool", "assistant"},
         o = stream[v].on,
         talk' = [talk EXCEPT ![o].messages = Says(v, role)]
  PROVE  /\ talk' \in [Starts -> [messages : Seq(Message), interrupted : BOOLEAN]]
         /\ \A x \in Starts, u \in Streams :
              /\ talk'[x].interrupted = talk[x].interrupted
              /\ Asked(x, u) => Asked(x, u)'
              /\ Told(x, u) => Told(x, u)'
         /\ role = "user" => Asked(o, v)'
<1> DEFINE m == Line(v, role)
<1>1. m \in Message
  BY DEF Line, Message
<1>2. Says(v, role) = Append(talk[o].messages, m) /\ talk[o].messages \in Seq(Message)
  BY DEF Says, Line, VoiceTypeOK
<1>3. Append(talk[o].messages, m) \in Seq(Message)
  BY <1>1, <1>2, AppendProperties
<1> HIDE DEF m
<1>4. talk' \in [Starts -> [messages : Seq(Message), interrupted : BOOLEAN]]
  BY <1>2, <1>3 DEF VoiceTypeOK
<1>5. /\ talk'[o].messages = Append(talk[o].messages, m)
      /\ \A x \in Starts : talk'[x].interrupted = talk[x].interrupted
                           /\ (x # o => talk'[x] = talk[x])
  BY <1>2 DEF VoiceTypeOK
<1>6. \A x \in Starts \ {o}, u \in Streams : (Asked(x, u) => Asked(x, u)') /\ (Told(x, u) => Told(x, u)')
  BY <1>5 DEF Asked, Told, Line
<1>7. \A u \in Streams : /\ Asked(o, u) => Asked(o, u)'
                         /\ Told(o, u) => Told(o, u)'
                         /\ m = Line(u, "user") => Asked(o, u)'
  BY <1>1, <1>5, ConversationGrows
<1>8. role = "user" => m = Line(v, "user")
  BY DEF m
<1> QED BY <1>4, <1>5, <1>6, <1>7, <1>8

LEMMA Asking_Inv ==
  ASSUME VoiceInv, NEW v \in Streams, EndOfSpeech(v) \/ UseTool(v) \/ NoReply(v)
  PROVE  VoiceInv'
<1>1. /\ VoiceTypeOK /\ StreamOK(v) /\ stream[v] \in StreamRow
      /\ stream[v].at \in {"listening", "thinking"}
  BY DEF VoiceInv, VoiceTypeOK, StreamRow, EndOfSpeech, UseTool, NoReply
<1>2. PICK o \in Starts : o = stream[v].on /\ Home(o)
  BY <1>1 DEF StreamOK
<1>3. UNCHANGED <<starts, session, restarts>> /\ Home(o)'
  BY <1>2 DEF EndOfSpeech, UseTool, NoReply, Home
<1>4. CASE To(v, "silent") /\ UNCHANGED talk
  <2>1. stream' = [stream EXCEPT ![v] = TurnOver(v, "silent")] /\ TurnOver(v, "silent") \in StreamRow
    BY <1>1, <1>4, TurnOverTyped DEF To, TurnStages
  <2>2. stream'[v].at = "silent" /\ stream'[v].on = o /\ stream'[v].interruptedBy = stream[v].interruptedBy
    BY <1>1, <1>2, <2>1 DEF TurnOver, StreamRow, VoiceTypeOK
  <2>3. StreamOK(v)'
    BY <1>1, <1>2, <1>3, <2>2 DEF StreamOK
  <2> QED BY <1>1, <1>3, <1>4, <2>1, <2>3, SameTalk, StreamStep DEF VoiceTypeOK
<1>5. CASE /\ stream[v].at = "listening"
           /\ stream' = [stream EXCEPT ![v].at = "thinking"]
           /\ talk' = [talk EXCEPT ![o].messages = Says(v, "user")]
  <2> DEFINE r == [stream[v] EXCEPT !.at = "thinking"]
  <2>1. r \in StreamRow /\ stream' = [stream EXCEPT ![v] = r]
    BY <1>1, <1>5 DEF StreamRow, TurnStages
  <2>2. stream'[v].at = "thinking" /\ stream'[v].on = o /\ stream'[v].interruptedBy = stream[v].interruptedBy
    BY <1>1, <1>2, <2>1 DEF StreamRow, VoiceTypeOK
  <2>3. /\ talk' \in [Starts -> [messages : Seq(Message), interrupted : BOOLEAN]]
        /\ \A x \in Starts, u \in Streams :
              /\ talk'[x].interrupted = talk[x].interrupted
              /\ Asked(x, u) => Asked(x, u)'
              /\ Told(x, u) => Told(x, u)'
        /\ Asked(o, v)'
    BY <1>1, <1>2, <1>5, SaidLine
  <2>4. StreamOK(v)'
    BY <1>1, <1>2, <1>3, <1>5, <2>2, <2>3 DEF StreamOK
  <2> HIDE DEF r
  <2> QED BY <1>3, <2>1, <2>3, <2>4, StreamStep
<1>6. CASE /\ stream[v].at = "thinking"
           /\ stream[v].tools < MaxTools
           /\ stream' = [stream EXCEPT ![v].tools = @ + 1]
           /\ talk' = [talk EXCEPT ![o].messages = Says(v, "tool")]
  <2> DEFINE r == [stream[v] EXCEPT !.tools = stream[v].tools + 1]
  <2>1. r \in StreamRow /\ stream' = [stream EXCEPT ![v] = r]
    BY <1>1, <1>6, VoiceAssumption DEF StreamRow
  <2>2. /\ stream'[v].at = "thinking" /\ stream'[v].on = o
        /\ stream'[v].interruptedBy = stream[v].interruptedBy
    BY <1>1, <1>2, <1>6, <2>1 DEF StreamRow, VoiceTypeOK
  <2>3. /\ talk' \in [Starts -> [messages : Seq(Message), interrupted : BOOLEAN]]
        /\ \A x \in Starts, u \in Streams :
              /\ talk'[x].interrupted = talk[x].interrupted
              /\ Asked(x, u) => Asked(x, u)'
              /\ Told(x, u) => Told(x, u)'
    BY <1>1, <1>2, <1>6, SaidLine
  <2>4. StreamOK(v)'
    BY <1>1, <1>2, <1>3, <1>6, <2>2, <2>3 DEF StreamOK
  <2> HIDE DEF r
  <2> QED BY <1>3, <2>1, <2>3, <2>4, StreamStep
<1> QED BY <1>2, <1>4, <1>5, <1>6 DEF EndOfSpeech, UseTool, NoReply

\* The last chunk is sent only while the flag is down: an interruption of this
\* reply has been cleared.
LEMMA Playing_Inv ==
  ASSUME VoiceInv, NEW v \in Streams,
         SendChunk(v) \/ CutReply(v) \/ EndReply(v) \/ TurnThrows(v)
  PROVE  VoiceInv'
<1>1. VoiceTypeOK /\ StreamOK(v) /\ stream[v] \in StreamRow
  BY DEF VoiceInv, VoiceTypeOK, StreamRow
<1>2. stream[v].at \in {"listening", "thinking", "speaking"} /\ UNCHANGED <<starts, session, talk, restarts>>
  BY DEF SendChunk, CutReply, EndReply, TurnThrows
<1>3. PICK o \in Starts : o = stream[v].on /\ Home(o)'
  BY <1>1, <1>2 DEF StreamOK, Home
<1>4. talk' \in [Starts -> [messages : Seq(Message), interrupted : BOOLEAN]]
  BY <1>1, <1>2 DEF VoiceTypeOK
<1>5. CASE SendChunk(v)
  <2> DEFINE r == [stream[v] EXCEPT !.left = stream[v].left - 1]
  <2>1. r \in StreamRow /\ stream' = [stream EXCEPT ![v] = r]
    BY <1>1, <1>5, VoiceAssumption DEF SendChunk, StreamRow
  <2>2. /\ stream'[v].at = "speaking" /\ stream'[v].on = o
        /\ stream'[v].interruptedBy = stream[v].interruptedBy /\ stream'[v].wiped = stream[v].wiped
    BY <1>1, <1>3, <1>5, <2>1 DEF SendChunk, StreamRow, VoiceTypeOK
  <2>3. ~Heard(stream[v]) /\ ~talk[o].interrupted /\ Told(o, v)
    BY <1>1, <1>3, <1>5 DEF SendChunk, StreamOK
  <2>4. Told(o, v)' /\ talk'[o].interrupted = talk[o].interrupted
    BY <1>2, <2>3, SameTalk
  <2>5. StreamOK(v)'
    BY <1>1, <1>3, <2>2, <2>3, <2>4 DEF StreamOK, Heard
  <2> QED BY <1>2, <1>4, <2>1, <2>5, SameTalk, StreamStep
<1>6. ASSUME NEW at \in {"cut", "said", "lost"}, To(v, at),
             at # "lost" => stream[v].at = "speaking",
             at = "cut" => Heard(stream[v]), at = "said" => ~Heard(stream[v])
      PROVE  VoiceInv'
  <2>1. stream' = [stream EXCEPT ![v] = TurnOver(v, at)] /\ TurnOver(v, at) \in StreamRow
    BY <1>1, <1>6, TurnOverTyped DEF To, TurnStages
  <2>2. /\ stream'[v].at = at /\ stream'[v].on = o
        /\ stream'[v].interruptedBy = stream[v].interruptedBy /\ stream'[v].wiped = stream[v].wiped
    BY <1>1, <1>3, <2>1 DEF TurnOver, StreamRow, VoiceTypeOK
  <2>3. at # "lost" => Told(o, v)'
    BY <1>1, <1>2, <1>3, <1>6, SameTalk DEF StreamOK
  <2>4. StreamOK(v)'
    BY <1>1, <1>3, <1>6, <2>2, <2>3 DEF StreamOK, Heard
  <2> QED BY <1>2, <1>4, <2>1, <2>4, SameTalk, StreamStep
<1>7. CutReply(v) => To(v, "cut") /\ Heard(stream[v]) /\ stream[v].at = "speaking"
  BY <1>1, <1>3 DEF CutReply, StreamOK
<1>8. EndReply(v) => To(v, "said") /\ ~Heard(stream[v]) /\ stream[v].at = "speaking"
  BY <1>1 DEF EndReply, StreamOK
<1> QED BY <1>5, <1>6, <1>7, <1>8 DEF TurnThrows

\* A reply clears the flag for all, and marks those it was raised for.
LEMMA Reply_Inv ==
  ASSUME VoiceInv, NEW v \in Streams, NEW n \in 0 .. MaxChunks, Reply(v, n)
  PROVE  VoiceInv'
<1>1. /\ VoiceTypeOK /\ StreamOK(v) /\ stream[v] \in StreamRow /\ stream[v].at = "thinking"
      /\ UNCHANGED <<starts, session, restarts>>
  BY DEF VoiceInv, VoiceTypeOK, StreamRow, Reply
<1>2. PICK o \in Starts : o = stream[v].on /\ Home(o)' /\ Asked(o, v)
  BY <1>1 DEF StreamOK, Home
<1>3. ASSUME NEW u \in Streams
      PROVE  stream'[u] =
        IF u = v THEN [stream[u] EXCEPT !.at = "speaking", !.left = n]
        ELSE IF u \in Replying(v) /\ stream[u].interruptedBy # {}
          THEN [stream[u] EXCEPT !.wiped = TRUE]
          ELSE stream[u]
  BY DEF Reply, Speaking
<1> DEFINE m == Line(v, "assistant")
<1>4. m \in Message /\ talk[o].messages \in Seq(Message) /\ Says(v, "assistant") = Append(talk[o].messages, m)
  BY <1>1, <1>2 DEF Line, Message, VoiceTypeOK, Says
<1>5. Append(talk[o].messages, m) \in Seq(Message)
  BY <1>4, AppendProperties
<1>6. talk' = [talk EXCEPT ![o] = [messages |-> Append(talk[o].messages, m), interrupted |-> FALSE]]
  BY <1>2, <1>4 DEF Reply
<1>7. /\ talk' \in [Starts -> [messages : Seq(Message), interrupted : BOOLEAN]]
      /\ talk'[o].messages = Append(talk[o].messages, m) /\ talk'[o].interrupted = FALSE
      /\ \A x \in Starts \ {o} : talk'[x] = talk[x]
  <2> HIDE DEF m
  <2> QED BY <1>1, <1>5, <1>6 DEF VoiceTypeOK
<1>8. /\ \A x \in Starts \ {o}, u \in Streams : (Asked(x, u) => Asked(x, u)') /\ (Told(x, u) => Told(x, u)')
  BY <1>7 DEF Asked, Told, Line
<1>9. /\ \A u \in Streams : (Asked(o, u) => Asked(o, u)') /\ (Told(o, u) => Told(o, u)')
      /\ Told(o, v)'
  <2> HIDE DEF m
  <2>1. \A u \in Streams : /\ Asked(o, u) => Asked(o, u)'
                           /\ Told(o, u) => Told(o, u)'
                           /\ m = Line(u, "assistant") /\ Asked(o, u) => Told(o, u)'
    BY <1>1, <1>4, <1>7, ConversationGrows
  <2> QED BY <1>2, <2>1 DEF m
<1>10. VoiceTypeOK'
  <2>1. ASSUME NEW u \in Streams PROVE stream'[u] \in StreamRow
    <3>1. stream[u] \in StreamRow
      BY <1>1 DEF VoiceTypeOK, StreamRow
    <3> QED BY <1>3, <3>1 DEF StreamRow, TurnStages
  <2>2. stream' \in [Streams -> StreamRow]
    BY <2>1 DEF Reply, Speaking
  <2> QED BY <1>1, <1>7, <2>2 DEF VoiceTypeOK, StreamRow
<1>11. \A x \in Starts : Home(x) => Home(x)'
  BY <1>1 DEF Home
<1>12. ASSUME NEW u \in Streams PROVE StreamOK(u)'
  <2>1. CASE u = v
    <3>1. /\ stream'[v].at = "speaking" /\ stream'[v].on = o
          /\ stream'[v].interruptedBy = {}
      BY <1>1, <1>2, <1>3 DEF StreamRow, StreamOK
    <3> QED BY <1>1, <1>2, <1>7, <1>9, <2>1, <3>1 DEF StreamOK, Heard
  <2>2. CASE u # v /\ u \in Replying(v)
    <3>1. /\ stream[u].at = "speaking" /\ stream[u].on = o /\ stream[u].left > 0
          /\ stream[u] \in StreamRow /\ StreamOK(u)
      BY <1>1, <1>2, <2>2 DEF Replying, VoiceInv, VoiceTypeOK, StreamRow
    <3>2. /\ stream'[u].at = "speaking" /\ stream'[u].on = o /\ stream'[u].left = stream[u].left
          /\ stream'[u].interruptedBy = stream[u].interruptedBy
          /\ stream[u].interruptedBy # {} => stream'[u].wiped
      BY <1>3, <2>2, <3>1 DEF StreamRow
    <3>3. Home(o)' /\ Told(o, u)' /\ talk'[o].interrupted = FALSE
      BY <1>7, <1>9, <1>2, <3>1 DEF StreamOK
    <3> QED BY <3>1, <3>2, <3>3 DEF StreamOK, Heard, StreamRow
  <2>3. CASE u # v /\ u \notin Replying(v)
    <3>1. stream[u].on = o => ~(stream[u].at = "speaking" /\ stream[u].left > 0)
      BY <1>2, <2>3 DEF Replying
    <3>2. stream'[u] = stream[u]
      BY <1>3, <2>3
    <3>3. ASSUME NEW x \in Starts
          PROVE  /\ Home(x) => Home(x)'
                 /\ stream[u].on = x =>
                      /\ talk'[x].interrupted = talk[x].interrupted
                           \/ ~(stream[u].at = "speaking" /\ stream[u].left > 0)
                      /\ Asked(x, u) => Asked(x, u)'
                      /\ Told(x, u) => Told(x, u)'
      BY <1>7, <1>8, <1>9, <1>11, <3>1
    <3> QED BY <3>2, <3>3, OtherStreams
  <2> QED BY <2>1, <2>2, <2>3
<1> QED BY <1>10, <1>12 DEF VoiceInv

LEMMA Restart_Inv ==
  ASSUME VoiceInv, GatewayRestarts
  PROVE  VoiceInv'
<1>1. VoiceTypeOK /\ UNCHANGED talk /\ restarts' = restarts + 1 /\ session' = 0
  BY DEF VoiceInv, GatewayRestarts
<1>2. restarts' \in 0 .. MaxRestarts /\ restarts' > 0 /\ session' \in 0 .. MaxStarts
  BY <1>1, VoiceAssumption DEF GatewayRestarts, VoiceTypeOK
<1>3. ASSUME NEW u \in Streams
      PROVE  /\ stream[u] \in StreamRow
             /\ stream'[u] = IF stream[u].at \in {"listening", "thinking", "speaking"}
                               THEN TurnOver(u, "lost") ELSE stream[u]
  BY <1>1 DEF GatewayRestarts, VoiceTypeOK, StreamRow
<1>4. VoiceTypeOK'
  <2>1. ASSUME NEW u \in Streams PROVE stream'[u] \in StreamRow
    BY <1>3, TurnOverTyped DEF TurnStages
  <2>2. stream' \in [Streams -> StreamRow]
    BY <2>1 DEF GatewayRestarts
  <2>3. starts' \in [Starts -> {"new", "stt", "llm", "tts", "done", "failed"}]
    BY <1>1 DEF GatewayRestarts, VoiceTypeOK
  <2> QED BY <1>1, <1>2, <2>2, <2>3 DEF VoiceTypeOK, StreamRow
<1>5. \A o \in Starts : Home(o)'
  BY <1>2 DEF Home
<1>6. ASSUME NEW u \in Streams PROVE StreamOK(u)'
  <2>1. CASE stream[u].at \in {"listening", "thinking", "speaking"}
    <3>1. /\ stream'[u].at = "lost" /\ stream'[u].on = stream[u].on
          /\ stream'[u].interruptedBy = stream[u].interruptedBy
      BY <1>3, <2>1 DEF TurnOver, StreamRow
    <3>2. StreamOK(u)
      BY DEF VoiceInv
    <3>3. PICK o \in Starts : o = stream[u].on
      BY <2>1, <3>2 DEF StreamOK
    <3> QED BY <1>5, <2>1, <3>1, <3>2, <3>3 DEF StreamOK
  <2>2. CASE stream[u].at \notin {"listening", "thinking", "speaking"}
    BY <1>1, <1>3, <1>5, <2>2, SameTalk, OtherStreams
  <2> QED BY <2>1, <2>2
<1> QED BY <1>4, <1>6 DEF VoiceInv

LEMMA VoiceStep_Inv == VoiceInv /\ [VoiceNext]_voiceVars => VoiceInv'
<1> SUFFICES ASSUME VoiceInv, [VoiceNext]_voiceVars PROVE VoiceInv'
  OBVIOUS
<1>1. CASE UNCHANGED voiceVars
  <2>1. VoiceTypeOK'
    BY <1>1 DEF voiceVars, VoiceInv, VoiceTypeOK
  <2>2. \A u \in Streams : StreamOK(u)'
    BY <1>1, SameTalk, OtherStreams DEF voiceVars, Home
  <2> QED BY <2>1, <2>2 DEF VoiceInv
<1> QED BY <1>1, Starting_Inv, Connecting_Inv, Interrupt_Inv, Asking_Inv, Playing_Inv,
           Reply_Inv, Restart_Inv DEF VoiceNext

\* The inductive invariant of the streams of one call: whose session each talks
\* to, whom the interruption flag was raised for, and what the conversation holds.
THEOREM VoiceInvariantHolds == VoiceSpec => []VoiceInv
BY VoiceInit_Inv, VoiceStep_Inv, PTL DEF VoiceSpec

LEMMA PlaybackCause == VoiceInv => PlaybackHeedsOthers
BY DEF VoiceInv, StreamOK, Heard, PlaybackHeedsOthers

\* A reply is cut short only by an interruption that another stream raised while
\* it was playing, and goes on only when a later reply cleared that signal.
THEOREM InterruptionsAreHeeded == VoiceSpec => []PlaybackHeedsOthers
BY VoiceInvariantHolds, PlaybackCause, PTL

LEMMA MemoryCause == VoiceInv => AnsweredTurnsRemembered
<1> SUFFICES ASSUME VoiceInv, NEW v \in Streams, stream[v].at \in {"said", "cut"},
                    restarts <= 0, ~\E s \in Starts \ {stream[v].on} : starts[s] = "done"
             PROVE  Remembered(v)
  BY DEF AnsweredTurnsRemembered, VoiceInv, VoiceTypeOK
<1>1. PICK o \in Starts : o = stream[v].on /\ Home(o) /\ Told(o, v)
  BY DEF VoiceInv, StreamOK
<1>0. restarts \in Nat
  BY VoiceAssumption DEF VoiceInv, VoiceTypeOK
<1>2. session = o
  BY <1>0, <1>1 DEF Home
<1>3. talk[o].messages \in Seq(Message)
  BY DEF VoiceInv, VoiceTypeOK
<1>4. DOMAIN talk[o].messages = 1 .. Len(talk[o].messages)
  BY <1>3, LenProperties
<1> QED BY <1>1, <1>2, <1>4 DEF Told, Line, Remembered

\* A turn that was answered is in the conversation of the stream's session, the
\* question before its answer, unless a restart or another start lost it.
THEOREM TurnsAreRemembered == VoiceSpec => []AnsweredTurnsRemembered
BY VoiceInvariantHolds, MemoryCause, PTL

------------------------------------------------------------------------------
(* The cost of a call.                                                     *)

\* Where the loop stands: what is behind it is billed and nothing else, and it is
\* past a report's rate only if there is one.
CostInv ==
  /\ CostTypeOK
  /\ Len(reports) <= MaxReports
  /\ writer.i <= Len(reports) + 1
  /\ usage = costs
  /\ 1 .. writer.i - 1 \subseteq costs
  /\ costs \subseteq 1 .. Len(reports)
  /\ writer.at \in {"usage", "cost", "commit"} =>
       writer.i <= Len(reports) /\ reports[writer.i] = "rated"
  /\ writer.at = "over" => writer.i = Len(reports) + 1
  /\ writer.at = "raised" =>
       writer.faulty \/ (writer.i <= Len(reports) /\ reports[writer.i] # "rated")

LEMMA CostInit_Inv == CostInit => CostInv
<1> SUFFICES ASSUME CostInit PROVE CostInv
  OBVIOUS
<1>1. PICK m \in 0 .. MaxReports : reports \in [1 .. m -> {"rated", "unrated", "oddUnit"}]
  BY DEF CostInit, SeqOf
<1>2. reports \in Seq({"rated", "unrated", "oddUnit"}) /\ Len(reports) = m
  BY <1>1, MaxReportsAssumption
<1> QED BY <1>1, <1>2, MaxReportsAssumption DEF CostInit, CostInv, CostTypeOK

LEMMA CostStep_Inv == CostInv /\ [CostNext]_costVars => CostInv'
<1> SUFFICES ASSUME CostInv, [CostNext]_costVars PROVE CostInv'
  OBVIOUS
<1> USE MaxReportsAssumption
<1>1. CASE FindRate
  BY <1>1 DEF FindRate, WriterAt, CostInv, CostTypeOK
<1>2. CASE NoRate
  BY <1>2 DEF NoRate, WriterAt, CostInv, CostTypeOK
<1>3. CASE InsertUsage
  BY <1>3 DEF InsertUsage, WriterAt, CostInv, CostTypeOK
<1>4. CASE InsertCost
  BY <1>4 DEF InsertCost, WriterAt, CostInv, CostTypeOK
<1>5. CASE CommitReport
  <2>1. /\ writer.i \in 1 .. Len(reports) /\ Len(reports) \in Nat /\ Len(reports) <= MaxReports
        /\ writer' = [writer EXCEPT !.at = "rate", !.i = writer.i + 1]
        /\ reports' = reports /\ usage' = usage \union {writer.i} /\ costs' = costs \union {writer.i}
    BY <1>5 DEF CommitReport, Committed, WriterAt, CostInv, CostTypeOK
  <2>2. writer'.at = "rate" /\ writer'.i = writer.i + 1
    BY <2>1 DEF CostInv, CostTypeOK
  <2>3. CostTypeOK'
    <3>1. writer.i \in 1 .. MaxReports
      BY <2>1
    <3>2. usage' \subseteq 1 .. MaxReports /\ costs' \subseteq 1 .. MaxReports
      BY <2>1, <3>1 DEF CostInv, CostTypeOK
    <3>3. writer' = [at |-> "rate", i |-> writer.i + 1, faulty |-> writer.faulty]
      BY <2>1 DEF CostInv, CostTypeOK
    <3>4. writer.i + 1 \in 1 .. MaxReports + 1
      BY <3>1
    <3> QED BY <2>1, <3>2, <3>3, <3>4 DEF CostInv, CostTypeOK
  <2>4. 1 .. writer'.i - 1 = (1 .. writer.i - 1) \union {writer.i}
    BY <2>1, <2>2
  <2> QED BY <2>1, <2>2, <2>3, <2>4 DEF CostInv
<1>6. CASE WriteError
  <2>1. /\ writer.i \in 1 .. Len(reports) /\ Len(reports) \in Nat /\ Len(reports) <= MaxReports
        /\ writer' = [writer EXCEPT !.at = "raised", !.faulty = TRUE] /\ reports' = reports
        /\ \/ usage' = usage \union {writer.i} /\ costs' = costs \union {writer.i}
           \/ usage' = usage /\ costs' = costs
    BY <1>6 DEF WriteError, Committed, CostInv, CostTypeOK
  <2>2. writer'.at = "raised" /\ writer'.i = writer.i /\ writer'.faulty
    BY <2>1 DEF CostInv, CostTypeOK
  <2>3. CostTypeOK'
    <3>1. writer.i \in 1 .. MaxReports
      BY <2>1
    <3>2. usage' \subseteq 1 .. MaxReports /\ costs' \subseteq 1 .. MaxReports
      BY <2>1, <3>1 DEF CostInv, CostTypeOK
    <3> QED BY <2>1, <3>1, <3>2 DEF CostInv, CostTypeOK
  <2> QED BY <2>1, <2>2, <2>3 DEF CostInv
<1>7. CASE ReturnResults
  BY <1>7 DEF ReturnResults, CostInv, CostTypeOK
<1>8. CASE UNCHANGED costVars
  BY <1>8 DEF costVars, CostInv, CostTypeOK
<1> QED BY <1>1, <1>2, <1>3, <1>4, <1>5, <1>6, <1>7, <1>8 DEF CostNext

\* The inductive invariant of the loop over a call's reports.
THEOREM CostInvariantHolds == CostSpec => []CostInv
BY CostInit_Inv, CostStep_Inv, PTL DEF CostSpec

LEMMA CostCauses == CostInv => UnbilledHasCause
BY MaxReportsAssumption DEF CostInv, CostTypeOK, UnbilledHasCause

\* A report has both of its rows or neither, and one that has a rate is left out
\* only by a failed statement or behind one that has none.
THEOREM UnbilledReportsHaveCause == CostSpec => []UnbilledHasCause
BY CostInvariantHolds, CostCauses, PTL

------------------------------------------------------------------------------
(* The office.                                                             *)

IntakeHonest == RetriesAndOptOutsHonoured /\ UncalledLeadHasCause
AccountsHonest == SignupsAreWhole /\ RolesAreRead

\* Each desk's own invariant; of the two that share the rate limiter, the one
\* that is not at work keeps its types and its promises.
OfficeInv ==
  /\ LimiterInv /\ IntakeTypeOK /\ IntakeHonest /\ AccountsTypeOK /\ AccountsHonest
  /\ desk = "intake" => IntakeInv
  /\ desk = "accounts" => AccountsInv
  /\ StagesInv /\ RemindersInv /\ FailoverInv /\ PoolInv /\ VoiceInv /\ CostInv

LEMMA IntakePromises == IntakeInv => LimiterInv /\ IntakeTypeOK /\ IntakeHonest
<1>1. IntakeInv => LimiterInv /\ IntakeTypeOK
  BY DEF IntakeInv
<1> QED BY <1>1, RetriesHonoured, UncalledCause DEF IntakeHonest

LEMMA IntakePromisesNext == IntakeInv' => LimiterInv' /\ IntakeTypeOK' /\ IntakeHonest'
BY IntakePromises, PTL

LEMMA AccountsPromises == AccountsInv => LimiterInv /\ AccountsTypeOK /\ AccountsHonest
BY DEF AccountsInv, AccountTypes, AccountsHonest

\* The desks that are not at work.
LEMMA IntakeRests ==
  ASSUME IntakeTypeOK, IntakeHonest, LimiterInv', UNCHANGED intakeOnly
  PROVE  IntakeTypeOK' /\ IntakeHonest'
<1> USE DEF intakeOnly
<1>1. IntakeTypeOK'
  BY DEF IntakeTypeOK, LimiterInv
<1>2. RetriesAndOptOutsHonoured'
  BY DEF IntakeHonest, RetriesAndOptOutsHonoured, LeadsOf
<1>3. UncalledLeadHasCause'
  <2>1. \A r : Status(r)' = Status(r)
    BY DEF Status
  <2>2. \A x : LeadsOf(x)' = LeadsOf(x)
    BY DEF LeadsOf
  <2> QED BY <2>1, <2>2 DEF IntakeHonest, UncalledLeadHasCause
<1> QED BY <1>1, <1>2, <1>3 DEF IntakeHonest

LEMMA AccountsRest ==
  ASSUME AccountsTypeOK, AccountsHonest, UNCHANGED accountOnly
  PROVE  AccountsTypeOK' /\ AccountsHonest'
BY DEF accountOnly, AccountsTypeOK, AccountsHonest, SignupsAreWhole, RolesAreRead, Live

LEMMA StagesRest == StagesInv /\ UNCHANGED stagesVars => StagesInv'
BY StagesStep_Inv
LEMMA RemindersRest == RemindersInv /\ UNCHANGED remindersVars => RemindersInv'
BY RemindersStep_Inv
LEMMA FailoverRests == FailoverInv /\ UNCHANGED failoverVars => FailoverInv'
BY FailoverStep_Inv
LEMMA PoolRests == PoolInv /\ UNCHANGED poolVars => PoolInv'
BY PoolStep_Inv
LEMMA VoiceRests == VoiceInv /\ UNCHANGED voiceVars => VoiceInv'
BY VoiceStep_Inv
LEMMA CostRests == CostInv /\ UNCHANGED costVars => CostInv'
BY CostStep_Inv

LEMMA OfficeInit_Inv == OfficeInit => OfficeInv
<1> SUFFICES ASSUME OfficeInit PROVE OfficeInv
  OBVIOUS
<1>1. IntakeInv /\ AccountsInv
  BY IntakeInit_Inv, AccountsInit_Inv DEF OfficeInit
<1>2. StagesInv /\ RemindersInv /\ FailoverInv
  BY StagesInit_Inv, RemindersInit_Inv, FailoverInit_Inv DEF OfficeInit
<1>3. PoolInv /\ VoiceInv /\ CostInv
  BY PoolInit_Inv, VoiceInit_Inv, CostInit_Inv DEF OfficeInit
<1> QED BY <1>1, <1>2, <1>3, IntakePromises, AccountsPromises DEF OfficeInv

\* A step of one desk, the others at rest.
LEMMA OfficeStep_Inv == OfficeInv /\ [OfficeNext]_officeVars => OfficeInv'
<1> SUFFICES ASSUME OfficeInv, [OfficeNext]_officeVars PROVE OfficeInv'
  OBVIOUS
<1>0. /\ LimiterInv /\ IntakeTypeOK /\ IntakeHonest /\ AccountsTypeOK /\ AccountsHonest
      /\ desk = "intake" => IntakeInv
      /\ desk = "accounts" => AccountsInv
      /\ StagesInv /\ RemindersInv /\ FailoverInv /\ PoolInv /\ VoiceInv /\ CostInv
  BY DEF OfficeInv
<1>1. CASE /\ desk = "intake" /\ IntakeNext
           /\ UNCHANGED <<desk, stagesVars, remindersVars, accountOnly, failoverVars, poolVars, gatewayVars>>
  <2>1. IntakeInv'
    BY <1>0, <1>1, IntakeStep_Inv
  <2>2. LimiterInv' /\ IntakeTypeOK' /\ IntakeHonest'
    BY <2>1, IntakePromisesNext
  <2>3. AccountsTypeOK' /\ AccountsHonest'
    BY <1>0, <1>1, AccountsRest
  <2>4. StagesInv' /\ RemindersInv' /\ FailoverInv' /\ PoolInv' /\ VoiceInv' /\ CostInv'
    BY <1>0, <1>1, StagesRest, RemindersRest, FailoverRests, PoolRests, VoiceRests, CostRests DEF gatewayVars
  <2> QED BY <1>1, <2>1, <2>2, <2>3, <2>4 DEF OfficeInv
<1>2. CASE /\ desk = "accounts" /\ AccountsNext
           /\ UNCHANGED <<desk, intakeOnly, stagesVars, remindersVars, failoverVars, poolVars, gatewayVars>>
  <2>1. AccountsInv'
    BY <1>0, <1>2, AccountsStep_Inv
  <2>2. LimiterInv' /\ AccountsTypeOK' /\ AccountsHonest'
    BY <2>1 DEF AccountsInv, AccountTypes, AccountsHonest
  <2>3. IntakeTypeOK' /\ IntakeHonest'
    BY <1>0, <1>2, <2>2, IntakeRests
  <2>4. StagesInv' /\ RemindersInv' /\ FailoverInv' /\ PoolInv' /\ VoiceInv' /\ CostInv'
    BY <1>0, <1>2, StagesRest, RemindersRest, FailoverRests, PoolRests, VoiceRests, CostRests DEF gatewayVars
  <2> QED BY <1>2, <2>1, <2>2, <2>3, <2>4 DEF OfficeInv
<1>3. ASSUME UNCHANGED <<intakeVars, accountOnly>>
      PROVE  /\ LimiterInv' /\ IntakeTypeOK' /\ IntakeHonest' /\ AccountsTypeOK' /\ AccountsHonest'
             /\ IntakeInv => IntakeInv'
             /\ AccountsInv => AccountsInv'
  <2>1. LimiterInv'
    BY <1>0, <1>3, LimiterStays DEF intakeVars
  <2>2. IntakeTypeOK' /\ IntakeHonest'
    BY <1>0, <1>3, <2>1, IntakeRests DEF intakeVars, intakeOnly
  <2>3. AccountsTypeOK' /\ AccountsHonest'
    BY <1>0, <1>3, AccountsRest
  <2>4. IntakeInv => IntakeInv'
    BY <1>3, IntakeStep_Inv
  <2>5. UNCHANGED accountVars
    BY <1>3 DEF intakeVars, accountOnly, accountVars
  <2>6. AccountsInv => AccountsInv'
    BY <2>5, AccountsStep_Inv
  <2> QED BY <2>1, <2>2, <2>3, <2>4, <2>6
<1>4. ASSUME UNCHANGED <<desk, intakeVars, accountOnly>>,
             StagesInv', RemindersInv', FailoverInv', PoolInv', VoiceInv', CostInv'
      PROVE  OfficeInv'
  BY <1>0, <1>3, <1>4 DEF OfficeInv
<1>5. CASE /\ desk = "stages" /\ StagesNext
           /\ UNCHANGED <<desk, intakeVars, remindersVars, accountOnly, failoverVars, poolVars, gatewayVars>>
  BY <1>0, <1>4, <1>5, StagesStep_Inv, RemindersRest, FailoverRests, PoolRests, VoiceRests, CostRests DEF gatewayVars
<1>6. CASE /\ desk = "reminders" /\ RemindersNext
           /\ UNCHANGED <<desk, intakeVars, stagesVars, accountOnly, failoverVars, poolVars, gatewayVars>>
  BY <1>0, <1>4, <1>6, StagesRest, RemindersStep_Inv, FailoverRests, PoolRests, VoiceRests, CostRests DEF gatewayVars
<1>7. CASE /\ desk = "failover" /\ FailoverNext
           /\ UNCHANGED <<desk, intakeVars, stagesVars, remindersVars, accountOnly, poolVars, gatewayVars>>
  BY <1>0, <1>4, <1>7, StagesRest, RemindersRest, FailoverStep_Inv, PoolRests, VoiceRests, CostRests DEF gatewayVars
<1>8. CASE /\ desk = "pool" /\ PoolNext
           /\ UNCHANGED <<desk, intakeVars, stagesVars, remindersVars, accountOnly, failoverVars, gatewayVars>>
  BY <1>0, <1>4, <1>8, StagesRest, RemindersRest, FailoverRests, PoolStep_Inv, VoiceRests, CostRests DEF gatewayVars
<1>9. CASE desk = "voice" /\ VoiceNext /\ UNCHANGED <<desk, officeOnly, costVars>>
  BY <1>0, <1>4, <1>9, StagesRest, RemindersRest, FailoverRests, PoolRests, VoiceStep_Inv, CostRests DEF officeOnly
<1>10. CASE desk = "costs" /\ CostNext /\ UNCHANGED <<desk, officeOnly, voiceVars>>
  BY <1>0, <1>4, <1>10, StagesRest, RemindersRest, FailoverRests, PoolRests, VoiceRests, CostStep_Inv DEF officeOnly
<1>11. CASE UNCHANGED officeVars
  BY <1>0, <1>4, <1>11, StagesRest, RemindersRest, FailoverRests, PoolRests, VoiceRests, CostRests
     DEF officeVars, officeOnly, gatewayVars
<1> QED BY <1>1, <1>2, <1>5, <1>6, <1>7, <1>8, <1>9, <1>10, <1>11 DEF OfficeNext

\* The eight components' inductive invariants hold of the office that runs them.
THEOREM OfficeInvariantHolds == OfficeSpec => []OfficeInv
BY OfficeInit_Inv, OfficeStep_Inv, PTL DEF OfficeSpec

\* Type correctness of the eight components: tables, queues, sessions, streams.
THEOREM OfficeTypesHold == OfficeSpec => []OfficeTypeOK
<1>1. OfficeInv => OfficeTypeOK
  BY DEF OfficeInv, OfficeTypeOK, StagesInv, RemindersInv, FailoverInv, PoolInv, VoiceInv, CostInv
<1> QED BY <1>1, OfficeInvariantHolds, PTL

\* What each component promises holds of the office as well, whose webhooks and
\* accounts share one rate limiter.
THEOREM OfficeKeepsItsPromises == OfficeSpec => [](
  /\ RateOvershoot /\ RetriesAndOptOutsHonoured /\ UncalledLeadHasCause
  /\ SignupsAreWhole /\ RolesAreRead /\ HistoryTellsTheStage /\ RemindersHaveCause
  /\ WalkIsAccountedFor /\ JamNeedsNesting
  /\ PlaybackHeedsOthers /\ AnsweredTurnsRemembered /\ UnbilledHasCause)
<1>1. OfficeInv => /\ RateOvershoot /\ RetriesAndOptOutsHonoured /\ UncalledLeadHasCause
                   /\ SignupsAreWhole /\ RolesAreRead
  BY DEF OfficeInv, LimiterInv, IntakeHonest, AccountsHonest
<1>2. OfficeInv => HistoryTellsTheStage /\ RemindersHaveCause /\ WalkIsAccountedFor /\ JamNeedsNesting
  BY HistoryExplains, ReminderCauses, WalksAccounts, JamCauses DEF OfficeInv
<1>3. OfficeInv => PlaybackHeedsOthers /\ AnsweredTurnsRemembered /\ UnbilledHasCause
  BY PlaybackCause, MemoryCause, CostCauses DEF OfficeInv
<1> QED BY <1>1, <1>2, <1>3, OfficeInvariantHolds, PTL
================================================================================
