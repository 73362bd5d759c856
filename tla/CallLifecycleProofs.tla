-------------------------- MODULE CallLifecycleProofs --------------------------
(***************************************************************************)
(* Theorems about CallLifecycle, for every set of calls, of words and of   *)
(* events.                                                                 *)
(***************************************************************************)
EXTENDS CallLifecycle, FiniteSetTheorems, TLAPS

Answered == {"in_progress"}

AllLinked == {e \in Events : recorded[e] = "linked"}

\* The linked events whose request did all it had to, and those whose request is
\* over in one way or another.
DoneFor(c, statuses) == {e \in Linked(c, statuses) : request[e] = "done"}
OverFor(c, statuses) == {e \in Linked(c, statuses) : request[e] \in {"done", "failed", "died"}}

\* What a request that still has something to do says about its event.
RequestInv == \A e \in Events :
  /\ recorded[e] = "linked" => request[e] # "none"
  /\ request[e] = "notify" => recorded[e] = "linked" /\ StatusOf(e) \in Answered
  /\ request[e] = "enqueue" => recorded[e] = "linked" /\ StatusOf(e) \in Terminal

\* Every request that did all it had to had its effect, and every effect belongs
\* to a request of its own that is over.
Balanced(effects, c, statuses) ==
  Cardinality(DoneFor(c, statuses)) <= effects /\ effects <= Cardinality(OverFor(c, statuses))

CountInv ==
  /\ IsFiniteSet(AllLinked)
  /\ \A c \in Calls : Balanced(notified[c], c, Answered) /\ Balanced(completed[c], c, Terminal)

IInv == TypeOK /\ RequestInv /\ CountInv /\ EndedIffTerminal /\ RealProvidersUnheard

------------------------------------------------------------------------------
(* The adapters.                                                           *)

\* Whatever word a provider sends, the normalised status is one of ours.
LEMMA StatusTyped ==
  ASSUME NEW p \in Providers, NEW w \in WordsOf(p)
  PROVE  EventStatus(p, w) \in CallStatus \union {"none"}
<1>1. CASE w = "none" \/ p = "mock"
  <2>1. p = "mock" => w \in {"none"} \union CallStatus
    BY DEF WordsOf
  <2>2. EventStatus(p, w) = w
    BY <1>1 DEF EventStatus
  <2> QED BY <1>1, <2>1, <2>2
<1>2. CASE w # "none" /\ p = "plivo"
  <2>1. statusFromPlivo(w) \in CallStatus
    BY DEF statusFromPlivo, CallStatus
  <2>2. EventStatus(p, w) = statusFromPlivo(w)
    BY <1>2 DEF EventStatus
  <2> QED BY <2>1, <2>2
<1>3. CASE w # "none" /\ p = "frejun_teler"
  <2>1. statusFromFreJun(w) \in CallStatus
    BY DEF statusFromFreJun, CallStatus
  <2>2. EventStatus(p, w) = statusFromFreJun(w)
    BY <1>3 DEF EventStatus
  <2> QED BY <2>1, <2>2
<1> QED BY <1>1, <1>2, <1>3 DEF Providers

\* Built from {}, the class of a real provider throws.
LEMMA OnlyMockAnswers ==
  ASSUME TypeOK, NEW c \in Calls
  PROVE  Answer(c) \in {200, 401, 404, 500} /\ (Answer(c) = 200 <=> provider[c] = "mock")
<1>1. provider[c] \in Providers
  BY DEF TypeOK
<1>2. CASE provider[c] = "mock"
  <2>1. receiveWebhook("mock", {}, HeadersOf("mock")) = 200
    BY DEF receiveWebhook, verifySignature
  <2>2. Required("mock") = {}
    BY DEF Required
  <2> QED BY <1>1, <1>2, <2>1, <2>2 DEF Answer, ConfigOf, RouteAnswer
<1>3. CASE provider[c] # "mock"
  <2>1. provider[c] = "plivo" \/ provider[c] = "frejun_teler"
    BY <1>1, <1>3 DEF Providers
  <2>2. Required("plivo") = {"auth_id", "auth_token"} /\ Required("frejun_teler") = {"api_key", "account_id"}
    BY DEF Required
  <2>3. ~(Required(provider[c]) \subseteq {})
    BY <2>1, <2>2
  <2>4. Answer(c) = 500
    BY <1>1, <2>3 DEF Answer, ConfigOf, RouteAnswer
  <2> QED BY <1>3, <2>4
<1> QED BY <1>2, <1>3

LEMMA EventParts == ASSUME NEW e \in Events PROVE CallOf(e) \in Calls /\ e # NoEvent
BY NoEventAssumption DEF Events, CallOf

------------------------------------------------------------------------------
(* Sets of events.                                                         *)

LEMMA FiniteParts ==
  ASSUME IsFiniteSet(AllLinked), NEW c, NEW statuses
  PROVE  /\ IsFiniteSet(DoneFor(c, statuses)) /\ Cardinality(DoneFor(c, statuses)) \in Nat
         /\ IsFiniteSet(OverFor(c, statuses)) /\ Cardinality(OverFor(c, statuses)) \in Nat
         /\ Cardinality(OverFor(c, statuses)) <= Cardinality(Linked(c, statuses))
         /\ Cardinality(Linked(c, statuses)) \in Nat
<1>1. /\ Linked(c, statuses) \subseteq AllLinked
      /\ DoneFor(c, statuses) \subseteq AllLinked
      /\ OverFor(c, statuses) \subseteq Linked(c, statuses)
  BY DEF Linked, AllLinked, DoneFor, OverFor
<1> QED BY <1>1, FS_Subset, FS_CardinalityType

\* A step that has no effect, ends no request with one, and reopens none.
LEMMA NoEffectCounts ==
  ASSUME TypeOK, CountInv, IsFiniteSet(AllLinked'), UNCHANGED <<notified, completed>>,
         \A c \in Calls : \A s \in {Answered, Terminal} :
           DoneFor(c, s)' \subseteq DoneFor(c, s) /\ OverFor(c, s) \subseteq OverFor(c, s)'
  PROVE  CountInv'
<1>1. ASSUME NEW c \in Calls, NEW s \in {Answered, Terminal}
      PROVE  /\ Cardinality(DoneFor(c, s)') <= Cardinality(DoneFor(c, s))
             /\ Cardinality(OverFor(c, s)) <= Cardinality(OverFor(c, s)')
             /\ Cardinality(DoneFor(c, s)) \in Nat /\ Cardinality(DoneFor(c, s)') \in Nat
             /\ Cardinality(OverFor(c, s)) \in Nat /\ Cardinality(OverFor(c, s)') \in Nat
  <2>1. /\ IsFiniteSet(DoneFor(c, s)) /\ Cardinality(DoneFor(c, s)) \in Nat
        /\ Cardinality(OverFor(c, s)) \in Nat
    BY FiniteParts DEF CountInv
  <2>2. DoneFor(c, s)' \subseteq AllLinked' /\ OverFor(c, s)' \subseteq AllLinked'
    BY DEF DoneFor, OverFor, Linked, AllLinked
  <2>3. /\ IsFiniteSet(OverFor(c, s)') /\ Cardinality(OverFor(c, s)') \in Nat
        /\ Cardinality(DoneFor(c, s)') \in Nat
    BY <2>2, FS_Subset, FS_CardinalityType
  <2> QED BY <2>1, <2>3, FS_Subset
<1>2. ASSUME NEW c \in Calls, NEW s \in {Answered, Terminal}, NEW n \in Nat, Balanced(n, c, s)
      PROVE  Cardinality(DoneFor(c, s)') <= n /\ n <= Cardinality(OverFor(c, s)')
  BY <1>1, <1>2 DEF Balanced
<1>3. ASSUME NEW c \in Calls
      PROVE  /\ Cardinality(DoneFor(c, Answered)') <= notified[c]
             /\ notified[c] <= Cardinality(OverFor(c, Answered)')
             /\ Cardinality(DoneFor(c, Terminal)') <= completed[c]
             /\ completed[c] <= Cardinality(OverFor(c, Terminal)')
  <2>1. notified[c] \in Nat /\ completed[c] \in Nat
    BY DEF TypeOK
  <2>2. Balanced(notified[c], c, Answered) /\ Balanced(completed[c], c, Terminal)
    BY DEF CountInv
  <2> QED BY <1>2, <2>1, <2>2
<1> QED BY <1>3 DEF CountInv, Balanced

------------------------------------------------------------------------------
LEMMA Init_IInv == Init => IInv
<1> SUFFICES ASSUME Init PROVE IInv
  OBVIOUS
<1>1. TypeOK
  BY DEF Init, TypeOK, CallStages, Row, CallStatus
<1>2. RequestInv
  BY DEF Init, RequestInv
<1>3. AllLinked = {} /\ \A c, s : Linked(c, s) = {} /\ DoneFor(c, s) = {} /\ OverFor(c, s) = {}
  BY DEF Init, AllLinked, Linked, DoneFor, OverFor
<1>4. CountInv
  <2>1. \A c, s : Balanced(0, c, s)
    BY <1>3, FS_EmptySet DEF Balanced
  <2>2. \A c \in Calls : notified[c] = 0 /\ completed[c] = 0
    BY DEF Init
  <2> QED BY <1>3, <2>1, <2>2, FS_EmptySet DEF CountInv
<1>5. EndedIffTerminal
  BY <1>3 DEF Init, EndedIffTerminal
<1>6. RealProvidersUnheard
  BY DEF Init, RealProvidersUnheard
<1> QED BY <1>1, <1>2, <1>4, <1>5, <1>6 DEF IInv

\* Steps that leave the events, their requests and the timestamps alone.
LEMMA QuietStep ==
  ASSUME IInv, TypeOK', UNCHANGED <<provider, recorded, request, notified, completed>>,
         \A c \in Calls : row'[c].startedAt = row[c].startedAt /\ row'[c].endedAt = row[c].endedAt
  PROVE  IInv'
<1>1. AllLinked' = AllLinked /\ \A c, s : /\ Linked(c, s)' = Linked(c, s)
                                          /\ DoneFor(c, s)' = DoneFor(c, s)
                                          /\ OverFor(c, s)' = OverFor(c, s)
  BY DEF AllLinked, Linked, DoneFor, OverFor, StatusOf
<1>2. RequestInv'
  BY DEF IInv, RequestInv, StatusOf
<1>3. CountInv'
  BY <1>1, NoEffectCounts DEF IInv, CountInv
<1>4. EndedIffTerminal'
  BY <1>1 DEF IInv, EndedIffTerminal
<1>5. RealProvidersUnheard'
  BY DEF IInv, RealProvidersUnheard
<1> QED BY <1>2, <1>3, <1>4, <1>5 DEF IInv

LEMMA Call_IInv ==
  ASSUME IInv, NEW c \in Calls, Dial(c) \/ Store(c) \/ Refuse(c)
  PROVE  IInv'
<1>0. TypeOK /\ row[c] \in Row
  BY DEF IInv, TypeOK
<1>1. CASE Dial(c)
  <2>1. PICK answer \in createCall(provider[c]) :
          /\ stage' = [stage EXCEPT ![c] = CASE answer = "refused" -> "refused"
                                             [] answer = "unreadable" -> "lost"
                                             [] OTHER -> "placed"]
          /\ row' = [row EXCEPT ![c].status = IF answer \in CallStatus THEN answer ELSE @]
    BY <1>1 DEF Dial
  <2>2. UNCHANGED <<provider, recorded, request, acked, refused, notified, completed>>
    BY <1>1 DEF Dial, hookVars
  <2>3. stage' \in [Calls -> CallStages]
    BY <1>0, <2>1 DEF TypeOK, CallStages
  <2>4. row' \in [Calls -> Row]
    BY <1>0, <2>1 DEF TypeOK, Row
  <2>5. TypeOK'
    BY <1>0, <2>2, <2>3, <2>4 DEF TypeOK, Events
  <2>6. \A d \in Calls : row'[d].startedAt = row[d].startedAt /\ row'[d].endedAt = row[d].endedAt
    BY <1>0, <2>1 DEF TypeOK, Row
  <2> QED BY <2>2, <2>5, <2>6, QuietStep
<1>2. CASE Store(c)
  <2>1. UNCHANGED <<provider, row, recorded, request, acked, refused, notified, completed>>
    BY <1>2 DEF Store, hookVars
  <2>2. TypeOK'
    BY <1>0, <1>2, <2>1 DEF Store, TypeOK, CallStages
  <2> QED BY <2>1, <2>2, QuietStep
<1>3. CASE Refuse(c)
  <2>1. Answer(c) \in {401, 404, 500}
    BY <1>0, <1>3, OnlyMockAnswers DEF Refuse
  <2>2. TypeOK'
    BY <1>0, <1>3, <2>1 DEF Refuse, TypeOK
  <2> QED BY <1>3, <2>2, QuietStep DEF Refuse
<1> QED BY <1>1, <1>2, <1>3

------------------------------------------------------------------------------
(* A row after an event.                                                   *)

LEMMA AppliedRow ==
  ASSUME NEW r \in Row, NEW e \in Events, StatusOf(e) \in CallStatus \union {"none"}
  PROVE  /\ Applied(r, e) \in Row
         /\ StatusOf(e) \in Terminal => Applied(r, e).endedAt = e
         /\ StatusOf(e) \notin Terminal => Applied(r, e).endedAt = r.endedAt
BY DEF Applied, Row

LEMMA ReceiveNew_IInv ==
  ASSUME IInv, NEW e \in Events, ReceiveNew(e)
  PROVE  IInv'
<1> DEFINE c == CallOf(e)
<1>1. TypeOK /\ c \in Calls /\ e # NoEvent /\ row[c] \in Row
  BY EventParts DEF IInv, TypeOK
<1>2. /\ recorded[e] = "no" /\ recorded' = [recorded EXCEPT ![e] = "linked"]
      /\ row' = [row EXCEPT ![c] = Applied(@, e)]
      /\ request' = [request EXCEPT ![e] = SideEffect(e)]
      /\ acked' \in {acked, acked \union {e}}
      /\ UNCHANGED <<provider, stage, refused, notified, completed>>
  BY DEF ReceiveNew, Acknowledge
<1>3. provider[c] = "mock" /\ WordOf(e) \in WordsOf(provider[c])
  BY <1>1, OnlyMockAnswers DEF ReceiveNew, Heard
<1>4. StatusOf(e) \in CallStatus \union {"none"}
  BY <1>3, StatusTyped DEF StatusOf, Providers
<1>5. /\ SideEffect(e) \in {"notify", "enqueue", "done"}
      /\ SideEffect(e) = "notify" => StatusOf(e) = "in_progress"
      /\ SideEffect(e) = "enqueue" => StatusOf(e) \in Terminal
      /\ SideEffect(e) = "done" => StatusOf(e) \notin Terminal \union Answered
  BY DEF SideEffect, Answered, Terminal
<1>6. \A f \in Events : StatusOf(f)' = StatusOf(f)
  BY <1>2 DEF StatusOf
<1>7. /\ Applied(row[c], e) \in Row
      /\ StatusOf(e) \in Terminal => Applied(row[c], e).endedAt = e
      /\ StatusOf(e) \notin Terminal => Applied(row[c], e).endedAt = row[c].endedAt
  BY <1>1, <1>4, AppliedRow
<1>8. row'[c] = Applied(row[c], e) /\ \A d \in Calls \ {c} : row'[d] = row[d]
  BY <1>1, <1>2 DEF TypeOK
<1>9. /\ recorded'[e] = "linked" /\ request'[e] = SideEffect(e)
      /\ \A f \in Events \ {e} : recorded'[f] = recorded[f] /\ request'[f] = request[f]
  BY <1>1, <1>2 DEF TypeOK
<1>10. TypeOK'
  <2>1. row' \in [Calls -> Row]
    BY <1>1, <1>2, <1>7 DEF TypeOK
  <2>2. request' \in [Events -> {"none", "notify", "enqueue", "done", "failed", "died"}]
    BY <1>1, <1>2, <1>5 DEF TypeOK
  <2>3. recorded' \in [Events -> {"no", "linked", "unlinked"}] /\ acked' \subseteq Events
    BY <1>1, <1>2 DEF TypeOK
  <2> QED BY <1>1, <1>2, <2>1, <2>2, <2>3 DEF TypeOK
<1>11. RequestInv'
  BY <1>5, <1>6, <1>9 DEF IInv, RequestInv, Answered
<1>12. CountInv'
  <2>1. AllLinked' = AllLinked \union {e}
    BY <1>9 DEF AllLinked
  <2>2. IsFiniteSet(AllLinked')
    BY <2>1, FS_AddElement DEF IInv, CountInv
  <2>3. \A d \in Calls : \A s \in {Answered, Terminal} :
          DoneFor(d, s)' \subseteq DoneFor(d, s) /\ OverFor(d, s) \subseteq OverFor(d, s)'
    BY <1>2, <1>5, <1>6, <1>9 DEF DoneFor, OverFor, Linked
  <2> QED BY <1>1, <1>2, <2>2, <2>3, NoEffectCounts DEF IInv
<1>13. EndedIffTerminal'
  <2>1. \A d \in Calls \ {c} : Linked(d, Terminal)' = Linked(d, Terminal)
    BY <1>6, <1>9 DEF Linked
  <2>2. CASE StatusOf(e) \in Terminal
    <3>1. e \in Linked(c, Terminal)'
      BY <1>6, <1>9, <2>2 DEF Linked
    <3> QED BY <1>1, <1>7, <1>8, <2>1, <2>2, <3>1 DEF IInv, EndedIffTerminal
  <2>3. CASE StatusOf(e) \notin Terminal
    <3>1. Linked(c, Terminal)' = Linked(c, Terminal)
      BY <1>6, <1>9, <2>3 DEF Linked
    <3> QED BY <1>1, <1>7, <1>8, <2>1, <2>3, <3>1 DEF IInv, EndedIffTerminal
  <2> QED BY <2>2, <2>3
<1>14. RealProvidersUnheard'
  <2> SUFFICES ASSUME NEW d \in Calls, provider[d] # "mock"
               PROVE /\ \A f \in Events : CallOf(f) = d => recorded'[f] = "no"
                     /\ row'[d].startedAt = NoEvent /\ row'[d].endedAt = NoEvent
                     /\ notified[d] = 0 /\ completed[d] = 0
    BY <1>2 DEF RealProvidersUnheard
  <2>1. d # c
    BY <1>3
  <2> QED BY <1>8, <1>9, <2>1 DEF IInv, RealProvidersUnheard
<1> QED BY <1>10, <1>11, <1>12, <1>13, <1>14 DEF IInv

LEMMA ReceiveEarly_IInv ==
  ASSUME IInv, NEW e \in Events, ReceiveEarly(e)
  PROVE  IInv'
<1>1. TypeOK /\ CallOf(e) \in Calls
  BY EventParts DEF IInv
<1>2. /\ recorded[e] = "no" /\ recorded' = [recorded EXCEPT ![e] = "unlinked"]
      /\ request' = [request EXCEPT ![e] = "done"]
      /\ acked' \in {acked, acked \union {e}}
      /\ UNCHANGED <<provider, stage, row, refused, notified, completed>>
  BY DEF ReceiveEarly, Acknowledge
<1>3. provider[CallOf(e)] = "mock"
  BY <1>1, OnlyMockAnswers DEF ReceiveEarly, Heard
<1>4. \A f \in Events : StatusOf(f)' = StatusOf(f)
  BY <1>2 DEF StatusOf
<1>5. /\ recorded'[e] = "unlinked" /\ request'[e] = "done"
      /\ \A f \in Events \ {e} : recorded'[f] = recorded[f] /\ request'[f] = request[f]
  BY <1>1, <1>2 DEF TypeOK
<1>6. TypeOK'
  BY <1>1, <1>2 DEF TypeOK
<1>7. RequestInv'
  BY <1>4, <1>5 DEF IInv, RequestInv
<1>8. AllLinked' = AllLinked /\ \A c, s : Linked(c, s)' = Linked(c, s)
  BY <1>2, <1>4, <1>5 DEF AllLinked, Linked
<1>9. CountInv'
  <2>1. \A d \in Calls : \A s \in {Answered, Terminal} :
          DoneFor(d, s)' \subseteq DoneFor(d, s) /\ OverFor(d, s) \subseteq OverFor(d, s)'
    BY <1>2, <1>4, <1>5 DEF DoneFor, OverFor, Linked
  <2> QED BY <1>1, <1>2, <1>8, <2>1, NoEffectCounts DEF IInv, CountInv
<1>10. EndedIffTerminal'
  BY <1>2, <1>8 DEF IInv, EndedIffTerminal
<1>11. RealProvidersUnheard'
  BY <1>2, <1>3, <1>5 DEF IInv, RealProvidersUnheard
<1> QED BY <1>6, <1>7, <1>9, <1>10, <1>11 DEF IInv

\* A request that ends, with its side effect or without.
LEMMA Ending_IInv ==
  ASSUME IInv, NEW e \in Events, SideEffectDone(e) \/ SideEffectFails(e) \/ Die(e)
  PROVE  IInv'
<1> DEFINE c == CallOf(e)
<1>1. TypeOK /\ c \in Calls /\ IsFiniteSet(AllLinked) /\ RequestInv
  BY EventParts DEF IInv, CountInv
<1>2. PICK how \in {"done", "failed", "died"} :
        /\ End(e, how)
        /\ Effect(e) \/ (how # "done" /\ NoEffect(e))
  BY DEF SideEffectDone, SideEffectFails, Die
<1>3. /\ request[e] \in {"notify", "enqueue"} /\ recorded[e] = "linked"
      /\ request'[e] = how /\ \A f \in Events \ {e} : request'[f] = request[f]
      /\ UNCHANGED <<provider, stage, row, recorded, refused>>
      /\ acked' \in {acked, acked \union {e}}
      /\ request' = [request EXCEPT ![e] = how]
  BY <1>1, <1>2 DEF Effect, NoEffect, End, Acknowledge, TypeOK, RequestInv
<1>4. /\ notified' \in [Calls -> Nat] /\ completed' \in [Calls -> Nat]
      /\ \A d \in Calls \ {c} : notified'[d] = notified[d] /\ completed'[d] = completed[d]
  BY <1>1, <1>2 DEF Effect, NoEffect, TypeOK
<1>5. /\ notified'[c] \in IF request[e] = "notify"
                         THEN IF how = "done" THEN {notified[c] + 1} ELSE notified[c] .. notified[c] + 1
                         ELSE {notified[c]}
      /\ completed'[c] \in IF request[e] = "enqueue"
                          THEN IF how = "done" THEN {completed[c] + 1} ELSE completed[c] .. completed[c] + 1
                          ELSE {completed[c]}
  BY <1>1, <1>2 DEF Effect, NoEffect, TypeOK
<1>6. TypeOK'
  BY <1>1, <1>3, <1>4 DEF TypeOK
<1>7. \A f \in Events : StatusOf(f)' = StatusOf(f)
  BY <1>3 DEF StatusOf
<1>8. AllLinked' = AllLinked /\ \A d, s : Linked(d, s)' = Linked(d, s)
  BY <1>3, <1>7 DEF AllLinked, Linked
<1>9. RequestInv'
  BY <1>1, <1>3, <1>7 DEF RequestInv
<1>10. EndedIffTerminal'
  BY <1>3, <1>8 DEF IInv, EndedIffTerminal
<1>11. RealProvidersUnheard'
  <2>1. provider[c] = "mock"
    BY <1>1, <1>3 DEF IInv, RealProvidersUnheard
  <2> QED BY <1>3, <1>4, <2>1 DEF IInv, RealProvidersUnheard
\* Both sets gain the event, or the second does, for the call and the status.
<1>12. ASSUME NEW d \in Calls, NEW s, NEW n \in Nat, NEW m \in Nat, Balanced(n, d, s),
              IF d = c /\ StatusOf(e) \in s
              THEN m \in IF how = "done" THEN {n + 1} ELSE n .. n + 1
              ELSE m = n
       PROVE  Cardinality(DoneFor(d, s)') <= m /\ m <= Cardinality(OverFor(d, s)')
  <2>1. /\ IsFiniteSet(DoneFor(d, s)) /\ Cardinality(DoneFor(d, s)) \in Nat
        /\ IsFiniteSet(OverFor(d, s)) /\ Cardinality(OverFor(d, s)) \in Nat
        /\ Cardinality(DoneFor(d, s)) <= n /\ n <= Cardinality(OverFor(d, s))
    BY <1>1, <1>12, FiniteParts DEF Balanced
  <2>2. e \notin DoneFor(d, s) /\ e \notin OverFor(d, s)
    BY <1>3 DEF DoneFor, OverFor
  <2>3. CASE d = c /\ StatusOf(e) \in s
    <3>1. OverFor(d, s)' = OverFor(d, s) \union {e}
      BY <1>3, <1>8, <2>3 DEF OverFor, Linked
    <3>2. DoneFor(d, s)' = IF how = "done" THEN DoneFor(d, s) \union {e} ELSE DoneFor(d, s)
      BY <1>3, <1>8, <2>3 DEF DoneFor, Linked
    <3>3. Cardinality(OverFor(d, s)') = Cardinality(OverFor(d, s)) + 1
      BY <2>1, <2>2, <3>1, FS_AddElement
    <3>4. Cardinality(DoneFor(d, s)') = Cardinality(DoneFor(d, s)) + (IF how = "done" THEN 1 ELSE 0)
      <4>1. CASE how = "done"
        <5>1. DoneFor(d, s)' = DoneFor(d, s) \union {e}
          BY <3>2, <4>1
        <5> QED BY <2>1, <2>2, <4>1, <5>1, FS_AddElement
      <4>2. CASE how # "done"
        BY <2>1, <3>2, <4>2
      <4> QED BY <4>1, <4>2
    <3> QED BY <1>12, <2>1, <2>3, <3>3, <3>4
  <2>4. CASE ~(d = c /\ StatusOf(e) \in s)
    <3>1. DoneFor(d, s)' = DoneFor(d, s) /\ OverFor(d, s)' = OverFor(d, s)
      BY <1>3, <1>8, <2>4 DEF DoneFor, OverFor, Linked
    <3> QED BY <1>12, <2>1, <2>4, <3>1
  <2> QED BY <2>3, <2>4
<1>13. CountInv'
  <2>1. /\ request[e] = "notify" <=> StatusOf(e) \in Answered
        /\ request[e] = "enqueue" <=> StatusOf(e) \in Terminal
    BY <1>1, <1>3 DEF RequestInv, Answered, Terminal
  <2>2. ASSUME NEW d \in Calls
        PROVE  /\ Cardinality(DoneFor(d, Answered)') <= notified'[d]
               /\ notified'[d] <= Cardinality(OverFor(d, Answered)')
    <3>1. notified[d] \in Nat /\ notified'[d] \in Nat /\ Balanced(notified[d], d, Answered)
      BY <1>1, <1>4 DEF IInv, CountInv, TypeOK
    <3> QED BY <1>4, <1>5, <1>12, <2>1, <3>1
  <2>3. ASSUME NEW d \in Calls
        PROVE  /\ Cardinality(DoneFor(d, Terminal)') <= completed'[d]
               /\ completed'[d] <= Cardinality(OverFor(d, Terminal)')
    <3>1. completed[d] \in Nat /\ completed'[d] \in Nat /\ Balanced(completed[d], d, Terminal)
      BY <1>1, <1>4 DEF IInv, CountInv, TypeOK
    <3> QED BY <1>4, <1>5, <1>12, <2>1, <3>1
  <2> QED BY <1>1, <1>8, <2>2, <2>3 DEF CountInv, Balanced
<1> QED BY <1>6, <1>9, <1>10, <1>11, <1>13 DEF IInv

LEMMA Step_IInv == IInv /\ [Next]_vars => IInv'
<1> SUFFICES ASSUME IInv, [Next]_vars PROVE IInv'
  OBVIOUS
<1>1. ASSUME NEW c \in Calls, Dial(c) \/ Store(c) \/ Refuse(c) PROVE IInv'
  BY <1>1, Call_IInv
<1>2. ASSUME NEW e \in Events, Route(e) \/ Die(e) PROVE IInv'
  <2>1. CASE ReceiveAgain(e)
    <3>1. TypeOK'
      BY <2>1 DEF ReceiveAgain, IInv, TypeOK
    <3> QED BY <2>1, <3>1, QuietStep DEF ReceiveAgain
  <2> QED BY <1>2, <2>1, ReceiveNew_IInv, ReceiveEarly_IInv, Ending_IInv DEF Route
<1>3. CASE UNCHANGED vars
  <2>1. TypeOK'
    BY <1>3 DEF vars, IInv, TypeOK
  <2> QED BY <1>3, <2>1, QuietStep DEF vars
<1> QED BY <1>1, <1>2, <1>3 DEF Next

------------------------------------------------------------------------------
\* The inductive invariant: every notification and every call.completed belongs
\* to a request of its own that is over, whose event was linked to its call, and
\* every request that ended well has had its effect.
THEOREM LifecycleInvariantHolds == Spec => []IInv
BY Init_IInv, Step_IInv, PTL DEF Spec

\* Type correctness; in particular every status in the calls table is one of
\* CallStatus, whatever words the providers use.
THEOREM LifecycleTypeCorrect == Spec => []TypeOK
BY LifecycleInvariantHolds, PTL DEF IInv

\* No event has its side effect twice, however often it is delivered.
THEOREM EffectsHappenOnce == Spec => []NoEffectTwice
<1>1. IInv => NoEffectTwice
  <2> SUFFICES ASSUME IInv, NEW c \in Calls
               PROVE /\ notified[c] <= Cardinality(Linked(c, Answered))
                     /\ completed[c] <= Cardinality(Linked(c, Terminal))
    BY DEF NoEffectTwice, Answered
  <2>1. notified[c] \in Nat /\ completed[c] \in Nat /\ IsFiniteSet(AllLinked)
    BY DEF IInv, TypeOK, CountInv
  <2>2. Balanced(notified[c], c, Answered) /\ Balanced(completed[c], c, Terminal)
    BY DEF IInv, CountInv
  <2> QED BY <2>1, <2>2, FiniteParts DEF Balanced
<1> QED BY <1>1, LifecycleInvariantHolds, PTL

\* An event that was linked and whose effect is missing has a request under way,
\* failed or cut off behind it.
THEOREM LostEffectsHaveCause == Spec => []LostEffectHasCause
<1>1. IInv => LostEffectHasCause
  <2> SUFFICES ASSUME IInv, NEW c \in Calls
               PROVE /\ Cardinality({e \in Linked(c, Answered) : request[e] \notin {"notify", "failed", "died"}})
                          <= notified[c]
                     /\ Cardinality({e \in Linked(c, Terminal) : request[e] \notin {"enqueue", "failed", "died"}})
                          <= completed[c]
    BY DEF LostEffectHasCause, Answered
  <2>1. TypeOK /\ RequestInv /\ Balanced(notified[c], c, Answered) /\ Balanced(completed[c], c, Terminal)
    BY DEF IInv, CountInv
  <2>2. {e \in Linked(c, Answered) : request[e] \notin {"notify", "failed", "died"}} = DoneFor(c, Answered)
    BY <2>1 DEF Linked, DoneFor, RequestInv, TypeOK, Answered, Terminal
  <2>3. {e \in Linked(c, Terminal) : request[e] \notin {"enqueue", "failed", "died"}} = DoneFor(c, Terminal)
    BY <2>1 DEF Linked, DoneFor, RequestInv, TypeOK, Answered, Terminal
  <2> QED BY <2>1, <2>2, <2>3 DEF Balanced
<1> QED BY <1>1, LifecycleInvariantHolds, PTL

\* A call has an end exactly when a terminal event was applied to it.
THEOREM EndIsReported == Spec => []EndedIffTerminal
<1>1. IInv => EndedIffTerminal
  BY DEF IInv
<1> QED BY <1>1, LifecycleInvariantHolds, PTL

\* The route accepts no event of a real provider.
THEOREM RealProvidersStayUnheard == Spec => []RealProvidersUnheard
<1>1. IInv => RealProvidersUnheard
  BY DEF IInv
<1> QED BY <1>1, LifecycleInvariantHolds, PTL
==============================================================================
