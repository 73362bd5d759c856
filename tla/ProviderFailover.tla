---------------------------- MODULE ProviderFailover ----------------------------
(***************************************************************************)
(* callWithFailover() of lib/providers/failover.ts: one walk over the      *)
(* providers that a tenant has configured for a layer, in their order,     *)
(* with an operation that may take effect whatever its caller sees of it.  *)
(* A timeout abandons the promise, not the request it made.  Adapters:     *)
(* lib/providers/telephony/adapters; the list: registry.ts.                *)
(***************************************************************************)
EXTENDS Naturals, FiniteSets, Sequences, SequencesExt

CONSTANTS Providers,
          Walks,       \* calls of callWithFailover
          MaxAttempts  \* opts.maxAttempts, 3 by default

ASSUME MaxAttemptsAssumption == MaxAttempts \in Nat \ {0}

VARIABLES configured, \* tenant_provider_config, the default first, then by priority
          broken,     \* providers without an adapter, or with an unreadable config
          walk,       \* each walk
          running,    \* operations that timed out and still run: <<walk, provider>>
          effects,    \* history: how often each walk's operation took effect
          trouble,    \* history: timeouts and answers that were lost, per walk
          events     \* provider_failover_events

failoverVars == <<configured, broken, walk, running, effects, trouble, events>>

WalkStages == {"idle", "trying", "noting", "result", "noProviders", "exhausted", "noteFailed"}

\* from, to: positions in the walk's list.
Event == [walk : Walks, from : 1 .. MaxAttempts, to : 1 .. MaxAttempts]

FailoverTypeOK ==
  /\ configured \in Seq(Providers)
  /\ broken \subseteq Providers
  /\ walk \in [Walks -> [at : WalkStages, list : Seq(Providers), i : 0 .. MaxAttempts]]
  /\ running \subseteq Walks \X Providers
  /\ effects \in [Walks -> Nat]
  /\ trouble \in [Walks -> Nat]
  /\ events \subseteq Event

FailoverInit ==
  /\ configured \in {s \in SeqOf(Providers, Cardinality(Providers)) : IsInjective(s)}
  /\ broken \in SUBSET Providers
  /\ walk = [w \in Walks |-> [at |-> "idle", list |-> <<>>, i |-> 0]]
  /\ running = {}
  /\ effects = [w \in Walks |-> 0]
  /\ trouble = [w \in Walks |-> 0]
  /\ events = {}

------------------------------------------------------------------------------
List(w) == walk[w].list
Current(w) == List(w)[walk[w].i]

\* candidates.slice(0, maxAttempts).
Attempted(s) == SubSeq(s, 1, IF Len(s) < MaxAttempts THEN Len(s) ELSE MaxAttempts)

\* The list is read once; a change of the configuration does not reach the walk.
BeginWalk(w) ==
  /\ walk[w].at = "idle"
  /\ walk' = [walk EXCEPT ![w] =
       IF configured = <<>> THEN [at |-> "noProviders", list |-> <<>>, i |-> 0]
                            ELSE [at |-> "trying", list |-> Attempted(configured), i |-> 1]]
  /\ UNCHANGED <<configured, broken, running, effects, trouble, events>>

Reconfigure(p) ==
  /\ IF p \in Range(configured)
     THEN \E k \in {k \in DOMAIN configured : configured[k] = p} :
            configured' = RemoveAt(configured, k)
     ELSE configured' = Append(configured, p)
  /\ UNCHANGED <<broken, walk, running, effects, trouble, events>>

\* No adapter for the identifier, decryption fails, or the constructor throws.
NoAdapter(w) ==
  /\ walk[w].at = "trying"
  /\ Current(w) \in broken
  /\ walk' = [walk EXCEPT ![w].at = "noting"]
  /\ UNCHANGED <<configured, broken, running, effects, trouble, events>>

CanTry(w) == walk[w].at = "trying" /\ Current(w) \notin broken

\* The provider answers: { result, providerKey }.
Succeed(w) ==
  /\ CanTry(w)
  /\ effects' = [effects EXCEPT ![w] = @ + 1]
  /\ walk' = [walk EXCEPT ![w].at = "result"]
  /\ UNCHANGED <<configured, broken, running, trouble, events>>

\* The adapter throws: the provider refuses.
ProviderRefuses(w) ==
  /\ CanTry(w)
  /\ walk' = [walk EXCEPT ![w].at = "noting"]
  /\ UNCHANGED <<configured, broken, running, effects, trouble, events>>

\* The adapter throws although the provider did it: an answer without the call's
\* id, a connection that breaks.
AnswerLost(w) ==
  /\ CanTry(w)
  /\ effects' = [effects EXCEPT ![w] = @ + 1]
  /\ trouble' = [trouble EXCEPT ![w] = @ + 1]
  /\ walk' = [walk EXCEPT ![w].at = "noting"]
  /\ UNCHANGED <<configured, broken, running, events>>

\* withTimeout() rejects first.
TimeOut(w) ==
  /\ CanTry(w)
  /\ running' = running \union {<<w, Current(w)>>}
  /\ trouble' = [trouble EXCEPT ![w] = @ + 1]
  /\ walk' = [walk EXCEPT ![w].at = "noting"]
  /\ UNCHANGED <<configured, broken, effects, events>>

\* The abandoned operation ends, with or without effect; nobody looks.
LateEnd(w, p) ==
  /\ <<w, p>> \in running
  /\ running' = running \ {<<w, p>>}
  /\ effects' \in {effects, [effects EXCEPT ![w] = @ + 1]}
  /\ UNCHANGED <<configured, broken, walk, trouble, events>>

\* Mutant: the next candidate is looked up in the whole list's numbering.
NextOfSkipped(w) == walk[w].i + 2

\* attempted[i + 1].
NextOf(w) == walk[w].i + 1

\* The event of a provider that failed: to the next candidate, or of the last one
\* to itself.
Link(w) == LET n == NextOf(w) IN
  [walk |-> w, from |-> walk[w].i, to |-> IF n <= Len(List(w)) THEN n ELSE walk[w].i]

\* writeFailoverEvent(); then on.
NoteFailure(w) ==
  /\ walk[w].at = "noting"
  /\ walk' = [walk EXCEPT ![w] = IF NextOf(w) <= Len(List(w))
                                 THEN [@ EXCEPT !.at = "trying", !.i = NextOf(w)]
                                 ELSE [@ EXCEPT !.at = "exhausted"]]
  /\ events' = events \union {Link(w)}
  /\ UNCHANGED <<configured, broken, running, effects, trouble>>

\* Its transaction is not guarded: the walk throws that error, candidates left or
\* not.  Nothing is logged, or the COMMIT was applied and only its answer lost.
NoteFails(w) ==
  /\ walk[w].at = "noting"
  /\ walk' = [walk EXCEPT ![w].at = "noteFailed"]
  /\ events' \in {events, events \union {Link(w)}}
  /\ UNCHANGED <<configured, broken, running, effects, trouble>>

FailoverNext ==
  \/ \E w \in Walks :
       \/ BeginWalk(w) \/ NoAdapter(w) \/ Succeed(w) \/ ProviderRefuses(w) \/ AnswerLost(w)
       \/ TimeOut(w) \/ NoteFailure(w) \/ NoteFails(w)
       \/ \E p \in Providers : LateEnd(w, p)
  \/ \E p \in Providers : Reconfigure(p)

FailoverSpec == FailoverInit /\ [][FailoverNext]_failoverVars
------------------------------------------------------------------------------
(* Properties.                                                             *)

\* failover.ts: "on exception/timeout, logs a failover event and retries the
\* next-priority provider, up to maxAttempts candidates".  The events of a walk
\* link each candidate it left to the next and no further, except that a walk cut
\* short by the log itself may have logged the candidate it never went on to; an
\* exhausted walk tried all it listed; and the operation takes effect more than
\* once only by timeouts and lost answers, of which the caller hears nothing
\* when a later provider succeeds.
WalkIsAccountedFor == \A w \in Walks :
  LET i == walk[w].i
      last == Len(List(w))
      logged == {e \in events : e.walk = w}
      left == {[walk |-> w, from |-> k, to |-> k + 1] : k \in 1 .. i - 1}
      leaving == [walk |-> w, from |-> i, to |-> IF i < last THEN i + 1 ELSE i] IN
  /\ last <= MaxAttempts
  /\ \/ logged = left /\ walk[w].at # "exhausted"
     \/ logged = left \union {leaving} /\ walk[w].at \in {"exhausted", "noteFailed"}
  /\ walk[w].at = "exhausted" => i = last
  /\ effects[w] + Cardinality({p \in Providers : <<w, p>> \in running})
       <= trouble[w] + (IF walk[w].at = "result" THEN 1 ELSE 0)
==============================================================================
