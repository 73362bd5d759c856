-------------------------- MODULE AgentBuilderProofs ---------------------------
(****************************************************************************)
(* Theorems about AgentBuilder, for every number of tabs, requests and     *)
(* configurations.                                                         *)
(****************************************************************************)
EXTENDS AgentBuilder, FiniteSetTheorems, TLAPS

Committed(c) == prompt[c].version > 0
InFlight(c) == commit[c].stage \in {"new", "begun", "reset", "lists"}

\* Where a commit request stands, and what of its work exists.
CommitOK(c) ==
  /\ commit[c].stage = "none" => commit[c].tab = "api" /\ commit[c].agent \in {NoAgent, OldAgent}
  /\ commit[c].stage # "none" => commit[c].config \in Configs
  /\ commit[c].stage \in {"none", "new", "begun", "reset"} =>
       ~Committed(c) /\ commit[c].left = {} /\ ~commit[c].failed
  /\ InTransaction(c) => commit[c].agent \in Agents /\ Verdict[commit[c].config] = "complete"
  /\ Committed(c) => /\ prompt[c].agent = commit[c].agent /\ commit[c].agent \in Agents
                     /\ Verdict[commit[c].config] = "complete"
  /\ commit[c].left # {} => Committed(c)
  /\ commit[c].stage = "dead" \/ (commit[c].stage = "answered" /\ ~commit[c].failed) => commit[c].left = {}
  /\ commit[c].stage \in {"lists", "answered"} /\ ~commit[c].failed =>
       /\ Committed(c)
       /\ \A l \in Tables \ commit[c].left : \A k \in Suggested[commit[c].config][l] :
            listRows[<<commit[c].agent, l, k>>] = 1

\* The last version of an agent's prompts exists and is no larger than their number.
HasLatest(a) == \E n \in 0 .. Cardinality(PromptsOf(a)) :
  /\ \A c \in PromptsOf(a) : prompt[c].version <= n
  /\ n = 0 \/ \E c \in PromptsOf(a) : prompt[c].version = n

\* A transaction has seen what was committed before it began.
SeesEarlier(c, d) ==
  InTransaction(c) /\ Committed(d) /\ prompt[d].agent = commit[c].agent /\ <<c, d>> \notin overlap =>
    /\ prompt[d].version < commit[c].version
    /\ commit[c].stage = "reset" /\ prompt[d].active => d \in commit[c].old

Branches(c, d) ==
  /\ Committed(c) /\ Committed(d) /\ prompt[c].agent = prompt[d].agent
  /\ prompt[c].version = prompt[d].version \/ (prompt[c].active /\ prompt[d].active)

VersionsInv ==
  /\ \A a \in Owners : HasLatest(a)
  /\ \A c \in Commits : InTransaction(c) =>
       commit[c].version \in 1 .. 1 + Cardinality(PromptsOf(commit[c].agent))
  /\ \A c, d \in Commits : c # d =>
       /\ <<c, d>> \in overlap => <<d, c>> \in overlap
       /\ InTransaction(c) /\ InTransaction(d) => <<c, d>> \in overlap
       /\ SeesEarlier(c, d)
       /\ Branches(c, d) => <<c, d>> \in overlap

\* What a tab has sent, it has shown for review.
ReviewedInv == \A c \in Commits :
  commit[c].tab \in Tabs => commit[c].config \in shown[commit[c].tab]

BuilderInv ==
  /\ BuilderTypeOK
  /\ \A c \in Commits : CommitOK(c)
  /\ VersionsInv
  /\ ReviewedInv

------------------------------------------------------------------------------
(* The lists.                                                              *)

\* An insertion keeps the rows' type, holds every key it is given at least
\* once and, but for the organization's own lists, none twice.
LEMMA InsertedRows ==
  ASSUME ListTypeOK, NEW a \in Owners, NEW t \in Tables, NEW K \in SUBSET Keys,
         listRows' = Inserted(a, t, K)
  PROVE  /\ ListTypeOK'
         /\ \A b \in Agents, l \in Tables, k \in Keys :
              listRows[<<b, l, k>>] = 1 => listRows'[<<b, l, k>>] = 1
         /\ a \in Agents => \A k \in K : listRows'[<<a, t, k>>] = 1
<1> USE NoAgentAssumption DEF Owners
<1>1. ListTypeOK'
  BY DEF ListTypeOK, Inserted
<1>2. ASSUME NEW b \in Agents, NEW l \in Tables, NEW k \in Keys
      PROVE  /\ listRows[<<b, l, k>>] = 1 => listRows'[<<b, l, k>>] = 1
             /\ b = a /\ l = t /\ k \in K => listRows'[<<b, l, k>>] = 1
  <2>1. <<b, l, k>> \in ListEntries
    BY DEF ListEntries
  <2>2. PICK x : x = <<b, l, k>>
    OBVIOUS
  <2>3. x[1] = b /\ x[2] = l /\ x[3] = k /\ x \in ListEntries
    BY <2>1, <2>2
  <2>4. listRows'[x] = IF x[1] = a /\ x[2] = t /\ x[3] \in K
                       THEN IF a = NoAgent THEN listRows[x] + 1 ELSE 1 ELSE listRows[x]
    BY <2>3 DEF Inserted
  <2> QED BY <2>2, <2>3, <2>4
<1> QED BY <1>1, <1>2

------------------------------------------------------------------------------
(* What a step does to the requests.                                       *)

Others(c) == \A d \in Commits \ {c} : commit'[d] = commit[d]

LEMMA BeginFacts ==
  ASSUME BuilderTypeOK, NEW c \in Commits, NEW g \in Configs, NEW o \in Tabs \union {"api"},
         NEW a \in Owners, Begin(c, g, o, a)
  PROVE  /\ commit' \in [Commits -> CommitState] /\ Others(c)
         /\ commit[c].stage = "none"
         /\ commit'[c].stage = "new" /\ commit'[c].config = g /\ commit'[c].tab = o
         /\ commit'[c].agent = a /\ commit'[c].left = commit[c].left
         /\ commit'[c].failed = commit[c].failed
         /\ UNCHANGED <<pageVars, prompt, overlap, listRows>>
<1> USE DEF BuilderTypeOK, Begin
<1>1. commit[c] \in CommitState /\ commit[c].stage = "none"
  OBVIOUS
<1>2. commit'[c] = [commit[c] EXCEPT !.stage = "new", !.config = g, !.tab = o, !.agent = a]
  OBVIOUS
<1>3. commit'[c] \in CommitState /\ commit'[c].stage = "new" /\ commit'[c].config = g
      /\ commit'[c].tab = o /\ commit'[c].agent = a /\ commit'[c].left = commit[c].left
      /\ commit'[c].failed = commit[c].failed
  BY <1>1, <1>2 DEF CommitState, CommitStages
<1>4. commit' = [commit EXCEPT ![c] = commit'[c]]
  OBVIOUS
<1> QED BY <1>1, <1>3, <1>4 DEF Others

LEMMA RefuseFacts ==
  ASSUME BuilderTypeOK, NEW c \in Commits, Refuse(c)
  PROVE  /\ commit' \in [Commits -> CommitState] /\ Others(c)
         /\ commit[c].stage \in {"new", "begun", "reset"}
         /\ commit'[c].stage = "lists" /\ commit'[c].failed = TRUE
         /\ commit'[c].config = commit[c].config /\ commit'[c].tab = commit[c].tab
         /\ commit'[c].agent = commit[c].agent /\ commit'[c].left = commit[c].left
<1> USE DEF BuilderTypeOK, Refuse
<1>1. commit[c] \in CommitState
  OBVIOUS
<1>2. commit'[c] = [commit[c] EXCEPT !.stage = "lists", !.failed = TRUE, !.version = 0, !.old = {}]
  OBVIOUS
<1>3. commit'[c] \in CommitState /\ commit'[c].stage = "lists" /\ commit'[c].failed = TRUE
      /\ commit'[c].config = commit[c].config /\ commit'[c].tab = commit[c].tab
      /\ commit'[c].agent = commit[c].agent /\ commit'[c].left = commit[c].left
  BY <1>1, <1>2 DEF CommitState, CommitStages
<1>4. commit' = [commit EXCEPT ![c] = commit'[c]]
  OBVIOUS
<1> QED BY <1>3, <1>4 DEF Others

LEMMA DieFacts ==
  ASSUME BuilderTypeOK, NEW c \in Commits, Die(c)
  PROVE  /\ commit' \in [Commits -> CommitState] /\ Others(c)
         /\ InFlight(c)
         /\ commit'[c].stage = "dead" /\ commit'[c].failed = FALSE /\ commit'[c].left = {}
         /\ commit'[c].config = commit[c].config /\ commit'[c].tab = commit[c].tab
         /\ commit'[c].agent = commit[c].agent
<1> USE DEF BuilderTypeOK, Die
<1>1. commit[c] \in CommitState
  OBVIOUS
<1>2. commit'[c] = [commit[c] EXCEPT !.stage = "dead", !.left = {}, !.failed = FALSE,
                                     !.version = 0, !.old = {}]
  OBVIOUS
<1>3. commit'[c] \in CommitState /\ commit'[c].stage = "dead" /\ commit'[c].failed = FALSE
      /\ commit'[c].left = {}
      /\ commit'[c].config = commit[c].config /\ commit'[c].tab = commit[c].tab
      /\ commit'[c].agent = commit[c].agent
  BY <1>1, <1>2 DEF CommitState, CommitStages
<1>4. commit' = [commit EXCEPT ![c] = commit'[c]]
  OBVIOUS
<1> QED BY <1>3, <1>4 DEF Others, InFlight

LEMMA AnswerFacts ==
  ASSUME BuilderTypeOK, NEW c \in Commits, Answer(c)
  PROVE  /\ commit' \in [Commits -> CommitState] /\ Others(c)
         /\ commit[c].stage = "lists" /\ (commit[c].left = {} \/ commit[c].failed)
         /\ commit'[c].stage = "answered" /\ commit'[c].failed = commit[c].failed
         /\ commit'[c].left = commit[c].left
         /\ commit'[c].config = commit[c].config /\ commit'[c].tab = commit[c].tab
         /\ commit'[c].agent = commit[c].agent
<1> USE DEF BuilderTypeOK, Answer
<1>1. commit[c] \in CommitState
  OBVIOUS
<1>2. commit'[c] = [commit[c] EXCEPT !.stage = "answered"]
  OBVIOUS
<1>3. commit'[c] \in CommitState /\ commit'[c].stage = "answered"
      /\ commit'[c].failed = commit[c].failed /\ commit'[c].left = commit[c].left
      /\ commit'[c].config = commit[c].config /\ commit'[c].tab = commit[c].tab
      /\ commit'[c].agent = commit[c].agent
  BY <1>1, <1>2 DEF CommitState, CommitStages
<1>4. commit' = [commit EXCEPT ![c] = commit'[c]]
  OBVIOUS
<1> QED BY <1>3, <1>4 DEF Others, Success, Failure

\* A list that is inserted, or that fails.
LEMMA ListFacts ==
  ASSUME BuilderTypeOK, NEW c \in Commits, NEW l \in Tables, InsertList(c, l) \/ ListFails(c, l)
  PROVE  /\ commit' \in [Commits -> CommitState] /\ Others(c)
         /\ l \in commit[c].left /\ commit'[c].left = commit[c].left \ {l}
         /\ commit'[c].stage = commit[c].stage
         /\ commit'[c].failed = (commit[c].failed \/ ListFails(c, l))
         /\ commit'[c].config = commit[c].config /\ commit'[c].tab = commit[c].tab
         /\ commit'[c].agent = commit[c].agent /\ commit'[c].version = commit[c].version
         /\ commit'[c].old = commit[c].old
<1> USE DEF BuilderTypeOK
<1>1. commit[c] \in CommitState /\ l \in commit[c].left
  BY DEF InsertList, ListFails
<1>2. CASE ListFails(c, l)
  <2>1. commit' = [commit EXCEPT ![c].left = commit[c].left \ {l}, ![c].failed = TRUE]
    BY <1>2 DEF ListFails
  <2>2. commit'[c] = [commit[c] EXCEPT !.left = commit[c].left \ {l}, !.failed = TRUE]
    BY <2>1
  <2>3. commit'[c] \in CommitState /\ commit'[c].left = commit[c].left \ {l}
        /\ commit'[c].failed = TRUE /\ commit'[c].stage = commit[c].stage
        /\ commit'[c].config = commit[c].config /\ commit'[c].tab = commit[c].tab
        /\ commit'[c].agent = commit[c].agent /\ commit'[c].version = commit[c].version
        /\ commit'[c].old = commit[c].old
    BY <1>1, <2>2 DEF CommitState
  <2>4. commit' = [commit EXCEPT ![c] = commit'[c]]
    BY <2>1
  <2> QED BY <1>1, <1>2, <2>3, <2>4 DEF Others
<1>3. CASE ~ListFails(c, l)
  <2>1. commit' = [commit EXCEPT ![c].left = commit[c].left \ {l}]
    BY <1>3 DEF InsertList
  <2>2. commit'[c] = [commit[c] EXCEPT !.left = commit[c].left \ {l}]
    BY <2>1
  <2>3. commit'[c] \in CommitState /\ commit'[c].left = commit[c].left \ {l}
        /\ commit'[c].failed = commit[c].failed /\ commit'[c].stage = commit[c].stage
        /\ commit'[c].config = commit[c].config /\ commit'[c].tab = commit[c].tab
        /\ commit'[c].agent = commit[c].agent /\ commit'[c].version = commit[c].version
        /\ commit'[c].old = commit[c].old
    BY <1>1, <2>2 DEF CommitState
  <2>4. commit' = [commit EXCEPT ![c] = commit'[c]]
    BY <2>1
  <2>5. commit[c].failed \in BOOLEAN
    BY <1>1 DEF CommitState
  <2> QED BY <1>1, <1>3, <2>3, <2>4, <2>5 DEF Others
<1> QED BY <1>2, <1>3

LEMMA DeactivateFacts ==
  ASSUME BuilderTypeOK, NEW c \in Commits, Deactivate(c)
  PROVE  /\ commit' \in [Commits -> CommitState] /\ Others(c)
         /\ commit[c].stage = "begun"
         /\ commit'[c].stage = "reset" /\ commit'[c].failed = commit[c].failed
         /\ commit'[c].left = commit[c].left
         /\ commit'[c].config = commit[c].config /\ commit'[c].tab = commit[c].tab
         /\ commit'[c].agent = commit[c].agent /\ commit'[c].version = commit[c].version
         /\ commit'[c].old = {d \in PromptsOf(commit[c].agent) : prompt[d].active}
<1> USE DEF BuilderTypeOK, Deactivate
<1>0. PICK O : O = {d \in PromptsOf(commit[c].agent) : prompt[d].active}
  OBVIOUS
<1>1. commit[c] \in CommitState /\ O \subseteq Commits
  BY <1>0 DEF PromptsOf
<1>2. commit' = [commit EXCEPT ![c].stage = "reset", ![c].old = O]
  BY <1>0
<1>3. commit'[c] = [commit[c] EXCEPT !.stage = "reset", !.old = O]
  BY <1>2
<1>4. commit'[c] \in CommitState /\ commit'[c].stage = "reset"
      /\ commit'[c].failed = commit[c].failed /\ commit'[c].left = commit[c].left
      /\ commit'[c].config = commit[c].config /\ commit'[c].tab = commit[c].tab
      /\ commit'[c].agent = commit[c].agent /\ commit'[c].version = commit[c].version
      /\ commit'[c].old = O
  BY <1>1, <1>3 DEF CommitState, CommitStages
<1>5. commit' = [commit EXCEPT ![c] = commit'[c]]
  BY <1>2
<1> QED BY <1>0, <1>4, <1>5 DEF Others

LEMMA FreshExists ==
  ASSUME BuilderTypeOK, NEW c \in Commits, commit[c].agent = NoAgent
  PROVE  FreshAgents # {}
<1> DEFINE D == Commits \ {c}
           T == {commit[d].agent : d \in D}
           f == [d \in D |-> commit[d].agent]
<1>1. IsFiniteSet(D) /\ Cardinality(D) = Cardinality(Commits) - 1 /\ Cardinality(Commits) \in Nat
  BY FreshAssumption, FS_RemoveElement, FS_CardinalityType
<1>2. f \in Surjection(D, T)
  BY DEF Surjection
<1>3. IsFiniteSet(T) /\ Cardinality(T) <= Cardinality(D)
  BY <1>1, <1>2, FS_Surjection
<1>4. IsFiniteSet(T \union {OldAgent}) /\ Cardinality(T \union {OldAgent}) <= Cardinality(T) + 1
      /\ Cardinality(T) \in Nat /\ Cardinality(T \union {OldAgent}) \in Nat
  BY <1>3, FS_AddElement, FS_CardinalityType
<1>5. SUFFICES ASSUME FreshAgents = {} PROVE FALSE
  OBVIOUS
<1>6. Agents \subseteq T \union {OldAgent}
  BY <1>5, NoAgentAssumption DEF FreshAgents
<1>7. Cardinality(Agents) <= Cardinality(T \union {OldAgent}) /\ Cardinality(Agents) \in Nat
  BY <1>4, <1>6, FreshAssumption, FS_Subset, FS_CardinalityType
<1> QED BY <1>1, <1>3, <1>4, <1>7, FreshAssumption

LEMMA PromptsFinite ==
  ASSUME NEW a
  PROVE  /\ IsFiniteSet(PromptsOf(a)) /\ Cardinality(PromptsOf(a)) \in Nat
         /\ Cardinality(PromptsOf(a)) <= Cardinality(Commits) /\ Cardinality(Commits) \in Nat
<1>1. PromptsOf(a) \subseteq Commits
  BY DEF PromptsOf
<1> QED BY <1>1, FreshAssumption, FS_Subset, FS_CardinalityType

\* The next version is one more than the last.
LEMMA NextVersionIsNext ==
  ASSUME BuilderTypeOK, NEW a \in Owners, HasLatest(a)
  PROVE  /\ NextVersion(a) \in 1 .. 1 + Cardinality(PromptsOf(a))
         /\ \A d \in PromptsOf(a) : prompt[d].version < NextVersion(a)
<1> DEFINE Latest(n) == /\ \A d \in PromptsOf(a) : prompt[d].version <= n
                        /\ n = 0 \/ \E d \in PromptsOf(a) : prompt[d].version = n
<1>1. PICK m \in 0 .. Cardinality(PromptsOf(a)) : Latest(m)
  BY DEF HasLatest
<1>2. m \in 0 .. Cardinality(Commits)
  BY PromptsFinite
<1>3. PICK n : n = CHOOSE k \in 0 .. Cardinality(Commits) : Latest(k)
  OBVIOUS
<1>4. n \in 0 .. Cardinality(Commits) /\ Latest(n)
  BY <1>1, <1>2, <1>3
<1>5. n <= m
  BY <1>1, <1>4
<1>6. NextVersion(a) = 1 + n
  BY <1>3 DEF NextVersion
<1>7. \A d \in PromptsOf(a) : prompt[d].version \in Nat
  BY DEF PromptsOf, BuilderTypeOK, Prompt
<1> QED BY <1>1, <1>4, <1>5, <1>6, <1>7, PromptsFinite

LEMMA ReadFacts ==
  ASSUME BuilderTypeOK, NEW c \in Commits, ReadVersion(c), \A a \in Owners : HasLatest(a)
  PROVE  /\ commit' \in [Commits -> CommitState] /\ Others(c)
         /\ commit[c].stage = "new" /\ Verdict[commit[c].config] = "complete"
         /\ commit'[c].stage = "begun" /\ commit'[c].failed = commit[c].failed
         /\ commit'[c].left = commit[c].left
         /\ commit'[c].config = commit[c].config /\ commit'[c].tab = commit[c].tab
         /\ commit'[c].agent \in Agents
         /\ commit'[c].version \in 1 .. 1 + Cardinality(PromptsOf(commit'[c].agent))
         /\ \A d \in PromptsOf(commit'[c].agent) : prompt[d].version < commit'[c].version
<1> DEFINE A == IF commit[c].agent = NoAgent THEN CHOOSE x \in FreshAgents : TRUE
                                             ELSE commit[c].agent
<1>read. commit' = [commit EXCEPT ![c].stage = "begun", ![c].agent = A, ![c].version = NextVersion(A)]
  BY DEF ReadVersion
<1>0. PICK a : a = A
  OBVIOUS
<1>1. commit[c] \in CommitState /\ commit \in [Commits -> CommitState]
  BY DEF BuilderTypeOK
<1>2. a \in Agents
  <2>1. CASE commit[c].agent = NoAgent
    <3>1. a \in FreshAgents
      BY <1>0, <2>1, FreshExists
    <3> QED BY <3>1 DEF FreshAgents
  <2>2. CASE commit[c].agent # NoAgent
    BY <1>0, <1>1, <2>2 DEF CommitState, Owners
  <2> QED BY <2>1, <2>2
<1>3. PICK v : v = NextVersion(a)
  OBVIOUS
<1>4. v \in 1 .. 1 + Cardinality(PromptsOf(a)) /\ \A d \in PromptsOf(a) : prompt[d].version < v
  BY <1>2, <1>3, NextVersionIsNext DEF Owners
<1>5. v \in Nat
  <2>1. Cardinality(PromptsOf(a)) \in Nat
    BY PromptsFinite
  <2> QED BY <1>4, <2>1
<1>6. commit' = [commit EXCEPT ![c].stage = "begun", ![c].agent = a, ![c].version = v]
  <2> HIDE DEF A
  <2> QED BY <1>0, <1>3, <1>read
<1>7. commit'[c] = [commit[c] EXCEPT !.stage = "begun", !.agent = a, !.version = v]
  BY <1>1, <1>6
<1>8. commit'[c] \in CommitState /\ commit'[c].stage = "begun"
      /\ commit'[c].failed = commit[c].failed /\ commit'[c].left = commit[c].left
      /\ commit'[c].config = commit[c].config /\ commit'[c].tab = commit[c].tab
      /\ commit'[c].agent = a /\ commit'[c].version = v
  BY <1>1, <1>2, <1>5, <1>7 DEF CommitState, CommitStages, Owners
<1>9. commit' = [commit EXCEPT ![c] = commit'[c]]
  BY <1>1, <1>6
<1>10. commit[c].stage = "new" /\ Verdict[commit[c].config] = "complete"
  BY DEF ReadVersion
<1> QED BY <1>1, <1>2, <1>4, <1>8, <1>9, <1>10 DEF Others

\* Every prompt that exists keeps its agent and version; the request's own appears.
LEMMA CommitFacts ==
  ASSUME BuilderTypeOK, NEW c \in Commits, CommitPrompt(c), commit[c].config \in Configs
  PROVE  /\ commit' \in [Commits -> CommitState] /\ Others(c)
         /\ commit[c].stage = "reset"
         /\ commit'[c].stage = "lists" /\ commit'[c].failed = commit[c].failed
         /\ commit'[c].left = {l \in Tables : Suggested[commit[c].config][l] # {}}
         /\ commit'[c].config = commit[c].config /\ commit'[c].tab = commit[c].tab
         /\ commit'[c].agent = commit[c].agent
         /\ prompt' \in [Commits -> Prompt]
         /\ prompt'[c].agent = commit[c].agent /\ prompt'[c].version = commit[c].version
         /\ prompt'[c].active = TRUE
         /\ \A d \in Commits \ {c} :
              /\ prompt'[d].agent = prompt[d].agent /\ prompt'[d].version = prompt[d].version
              /\ prompt'[d].active = (prompt[d].active /\ d \notin commit[c].old)
<1> USE DEF BuilderTypeOK, CommitPrompt
<1>0. PICK L : L = {l \in Tables : Suggested[commit[c].config][l] # {}}
  OBVIOUS
<1>1. commit[c] \in CommitState /\ L \subseteq Tables
  BY <1>0
<1>2. commit' = [commit EXCEPT ![c].stage = "lists", ![c].left = L, ![c].version = 0, ![c].old = {}]
  BY <1>0
<1>3. commit'[c] = [commit[c] EXCEPT !.stage = "lists", !.left = L, !.version = 0, !.old = {}]
  BY <1>2
<1>4. commit'[c] \in CommitState /\ commit'[c].stage = "lists"
      /\ commit'[c].failed = commit[c].failed /\ commit'[c].left = L
      /\ commit'[c].config = commit[c].config /\ commit'[c].tab = commit[c].tab
      /\ commit'[c].agent = commit[c].agent
  BY <1>1, <1>3 DEF CommitState, CommitStages
<1>5. commit' = [commit EXCEPT ![c] = commit'[c]]
  BY <1>2
<1>6. prompt'[c] = [agent |-> commit[c].agent, version |-> commit[c].version, active |-> TRUE]
  OBVIOUS
<1>7. prompt'[c] \in Prompt
  BY <1>1, <1>6 DEF Prompt, CommitState
<1>8. ASSUME NEW d \in Commits \ {c}
      PROVE  /\ prompt'[d] \in Prompt
             /\ prompt'[d].agent = prompt[d].agent /\ prompt'[d].version = prompt[d].version
             /\ prompt'[d].active = (prompt[d].active /\ d \notin commit[c].old)
  <2>1. prompt[d] \in Prompt
    OBVIOUS
  <2>2. CASE d \in commit[c].old
    <3>1. prompt'[d] = [prompt[d] EXCEPT !.active = FALSE]
      BY <2>2
    <3> QED BY <2>1, <2>2, <3>1 DEF Prompt
  <2>3. CASE d \notin commit[c].old
    <3>1. prompt'[d] = prompt[d]
      BY <2>3
    <3> QED BY <2>1, <2>3, <3>1 DEF Prompt
  <2> QED BY <2>2, <2>3
<1>9. prompt' \in [Commits -> Prompt]
  <2>1. prompt' = [d \in Commits |-> prompt'[d]]
    OBVIOUS
  <2> QED BY <1>7, <1>8, <2>1
<1> QED BY <1>0, <1>4, <1>5, <1>6, <1>8, <1>9 DEF Others

------------------------------------------------------------------------------
(* What a step leaves of each part of the invariant.                       *)

LEMMA VersionsKept ==
  ASSUME VersionsInv, prompt' = prompt, overlap' = overlap,
         \A d \in Commits : InTransaction(d)' =>
           /\ commit'[d].stage = commit[d].stage /\ commit'[d].agent = commit[d].agent
           /\ commit'[d].version = commit[d].version /\ commit'[d].old = commit[d].old
  PROVE  VersionsInv'
<1>1. \A a : PromptsOf(a)' = PromptsOf(a)
  BY DEF PromptsOf
<1>2. \A a \in Owners : HasLatest(a)'
  BY <1>1 DEF VersionsInv, HasLatest
<1>3. \A d \in Commits : InTransaction(d)' => InTransaction(d)
  BY DEF InTransaction
<1>4. ASSUME NEW d \in Commits, InTransaction(d)'
      PROVE  (commit[d].version \in 1 .. 1 + Cardinality(PromptsOf(commit[d].agent)))'
  <2>1. PICK a : a = commit[d].agent
    OBVIOUS
  <2>2. commit'[d].agent = a /\ PromptsOf(a)' = PromptsOf(a)
    BY <1>1, <1>4, <2>1
  <2>3. commit'[d].version \in 1 .. 1 + Cardinality(PromptsOf(a))
    BY <1>3, <1>4, <2>1 DEF VersionsInv
  <2>4. PromptsOf(commit[d].agent)' = PromptsOf(a)
    BY <2>2 DEF PromptsOf
  <2> QED BY <2>3, <2>4
<1>5. ASSUME NEW c \in Commits, NEW d \in Commits, c # d
      PROVE  /\ <<c, d>> \in overlap' => <<d, c>> \in overlap'
             /\ InTransaction(c)' /\ InTransaction(d)' => <<c, d>> \in overlap'
             /\ SeesEarlier(c, d)'
             /\ Branches(c, d)' => <<c, d>> \in overlap'
  BY <1>3, <1>5 DEF VersionsInv, SeesEarlier, Branches, Committed
<1> QED BY <1>2, <1>4, <1>5 DEF VersionsInv

LEMMA ReviewedKept ==
  ASSUME ReviewedInv, \A t \in Tabs : shown[t] \subseteq shown'[t],
         \A d \in Commits : commit'[d].tab = commit[d].tab /\ commit'[d].config = commit[d].config
  PROVE  ReviewedInv'
BY DEF ReviewedInv

LEMMA CommitStays ==
  ASSUME BuilderTypeOK, NEW d \in Commits, CommitOK(d), commit'[d] = commit[d],
         prompt'[d].version = prompt[d].version, prompt'[d].agent = prompt[d].agent,
         \A b \in Agents, l \in Tables, k \in Keys :
           listRows[<<b, l, k>>] = 1 => listRows'[<<b, l, k>>] = 1
  PROVE  CommitOK(d)'
<1>1. commit[d].stage # "none" => \A l \in Tables : Suggested[commit[d].config][l] \subseteq Keys
  BY SuggestedAssumption DEF CommitOK
<1>2. InTransaction(d)' <=> InTransaction(d)
  BY DEF InTransaction
<1>3. Committed(d)' <=> Committed(d)
  BY DEF Committed
<1> QED BY <1>1, <1>2, <1>3 DEF CommitOK

LEMMA PageTypes ==
  NoDraft \in Page /\ \A g \in Configs : PageOf(g) \in Page
BY DEF Page, NoDraft, PageOf

\* A tab forgets no configuration that it has shown.
LEMMA ShowFacts ==
  ASSUME BuilderTypeOK, NEW t \in Tabs, NEW p, Show(t, p)
  PROVE  shown' \in [Tabs -> SUBSET Configs] /\ \A u \in Tabs : shown[u] \subseteq shown'[u]
<1>1. PICK S : S = {g \in Configs : p = PageOf(g) /\ p.form = "review"}
  OBVIOUS
<1>2. shown' = [shown EXCEPT ![t] = @ \union S] /\ S \subseteq Configs
  BY <1>1 DEF Show
<1> QED BY <1>2 DEF BuilderTypeOK

LEMMA RespondFacts ==
  ASSUME BuilderTypeOK, NEW t \in Tabs, NEW page \in Page, Respond(t, page)
  PROVE  /\ draft' \in Page /\ shown' \in [Tabs -> SUBSET Configs]
         /\ \A u \in Tabs : shown[u] \subseteq shown'[u]
<1>1. draft' \in Page
  BY DEF BuilderTypeOK, Respond
<1>2. PICK p : Show(t, p)
  BY DEF Respond
<1> QED BY <1>1, <1>2, ShowFacts

------------------------------------------------------------------------------
(* The page.                                                               *)

LEMMA Pages_Inv ==
  ASSUME BuilderInv, UNCHANGED databaseVars,
         draft' \in Page, shown' \in [Tabs -> SUBSET Configs],
         \A u \in Tabs : shown[u] \subseteq shown'[u]
  PROVE  BuilderInv'
<1> USE DEF databaseVars
<1>1. BuilderTypeOK'
  BY DEF BuilderInv, BuilderTypeOK, ListTypeOK
<1>2. \A c \in Commits : CommitOK(c)'
  BY CommitStays DEF BuilderInv
<1>3. VersionsInv'
  BY VersionsKept DEF BuilderInv
<1>4. ReviewedInv'
  BY ReviewedKept DEF BuilderInv
<1> QED BY <1>1, <1>2, <1>3, <1>4 DEF BuilderInv

LEMMA TabStep_Inv ==
  ASSUME BuilderInv, NEW t \in Tabs,
         Open(t) \/ ResetDraft(t) \/ GatewayFails(t) \/ GatewayReturns(t)
  PROVE  BuilderInv'
<1>1. UNCHANGED databaseVars /\ BuilderTypeOK
  BY DEF Open, ResetDraft, GatewayFails, GatewayReturns, BuilderInv
<1>2. CASE Open(t) \/ ResetDraft(t)
  <2>1. PICK p : Show(t, p)
    BY <1>2 DEF Open, ResetDraft
  <2>2. draft' \in Page
    BY <1>1, <1>2 DEF Open, ResetDraft, BuilderTypeOK
  <2> QED BY <1>1, <2>1, <2>2, ShowFacts, Pages_Inv
<1>3. CASE GatewayFails(t) \/ GatewayReturns(t)
  <2>1. PICK page \in Page : Respond(t, page)
    BY <1>3, PageTypes DEF GatewayFails, GatewayReturns
  <2> QED BY <1>1, <2>1, RespondFacts, Pages_Inv
<1> QED BY <1>2, <1>3

LEMMA ExpireDraft_Inv ==
  ASSUME BuilderInv, ExpireDraft
  PROVE  BuilderInv'
<1>1. UNCHANGED <<shown, databaseVars>> /\ draft' = NoDraft
  BY DEF ExpireDraft
<1>2. shown \in [Tabs -> SUBSET Configs]
  BY DEF BuilderInv, BuilderTypeOK
<1> QED BY <1>1, <1>2, PageTypes, Pages_Inv

------------------------------------------------------------------------------
(* The requests.                                                           *)

LEMMA BuilderInit_Inv == BuilderInit => BuilderInv
<1> SUFFICES ASSUME BuilderInit PROVE BuilderInv
  OBVIOUS
<1> USE DEF BuilderInit
<1>1. \A c \in Commits : /\ commit[c].stage = "none" /\ commit[c].tab = "api" /\ commit[c].agent = NoAgent
                         /\ commit[c].left = {} /\ ~commit[c].failed
                         /\ commit[c] \in CommitState
                         /\ prompt[c] \in Prompt /\ ~Committed(c)
  BY DEF Committed, NoPrompt, Prompt, CommitState, CommitStages, Owners
<1>2. BuilderTypeOK
  <2>1. ListTypeOK
    BY DEF ListTypeOK, ListInit
  <2> QED BY <1>1, <2>1, PageTypes DEF BuilderTypeOK
<1>3. \A c \in Commits : CommitOK(c) /\ ~InTransaction(c)
  BY <1>1 DEF CommitOK, InTransaction
<1>4. VersionsInv
  <2>1. ASSUME NEW a \in Owners PROVE HasLatest(a)
    <3>1. PromptsOf(a) = {}
      BY <1>1 DEF PromptsOf, Committed
    <3>2. 0 \in 0 .. Cardinality(PromptsOf(a))
      BY PromptsFinite
    <3> QED BY <3>1, <3>2 DEF HasLatest
  <2> QED BY <1>1, <1>3, <2>1 DEF VersionsInv, SeesEarlier, Branches
<1>5. ReviewedInv
  BY <1>1, TabsAssumption DEF ReviewedInv
<1> QED BY <1>2, <1>3, <1>4, <1>5 DEF BuilderInv

\* A request is sent: by a tab that has shown what it sends, or through the API.
LEMMA Begin_Inv ==
  ASSUME BuilderInv, NEW c \in Commits, NEW g \in Configs, NEW o \in Tabs \union {"api"},
         NEW a \in {NoAgent, OldAgent}, Begin(c, g, o, a), o \in Tabs => g \in shown[o]
  PROVE  BuilderInv'
<1>0. a \in Owners
  BY OldAgentAssumption DEF Owners
<1>1. /\ commit' \in [Commits -> CommitState] /\ Others(c)
      /\ commit[c].stage = "none"
      /\ commit'[c].stage = "new" /\ commit'[c].config = g /\ commit'[c].tab = o
      /\ commit'[c].agent = a /\ commit'[c].left = commit[c].left
      /\ commit'[c].failed = commit[c].failed
      /\ UNCHANGED <<pageVars, prompt, overlap, listRows>>
  BY <1>0, BeginFacts DEF BuilderInv
<1>2. BuilderTypeOK'
  BY <1>1 DEF BuilderInv, BuilderTypeOK, ListTypeOK, pageVars
<1>3. ASSUME NEW d \in Commits PROVE CommitOK(d)'
  <2>1. CASE d = c
    <3>1. CommitOK(c)
      BY DEF BuilderInv
    <3>2. ~Committed(c)' /\ ~InTransaction(c)'
      BY <1>1, <3>1 DEF CommitOK, Committed, InTransaction
    <3> QED BY <1>1, <2>1, <3>1, <3>2 DEF CommitOK
  <2>2. CASE d # c
    BY <1>1, <2>2, CommitStays DEF BuilderInv, Others
  <2> QED BY <2>1, <2>2
<1>4. VersionsInv'
  BY <1>1, VersionsKept DEF BuilderInv, Others, InTransaction
<1>5. ReviewedInv'
  BY <1>1 DEF BuilderInv, ReviewedInv, Others, pageVars
<1> QED BY <1>2, <1>3, <1>4, <1>5 DEF BuilderInv

\* A request goes on: what it sent stays what was reviewed.
LEMMA Background ==
  ASSUME BuilderInv, NEW c \in Commits, Others(c), UNCHANGED pageVars,
         commit'[c].tab = commit[c].tab, commit'[c].config = commit[c].config
  PROVE  ReviewedInv'
BY ReviewedKept DEF BuilderInv, Others, pageVars

LEMMA Refuse_Inv ==
  ASSUME BuilderInv, NEW c \in Commits, Refuse(c)
  PROVE  BuilderInv'
<1>1. /\ commit' \in [Commits -> CommitState] /\ Others(c)
      /\ commit[c].stage \in {"new", "begun", "reset"}
      /\ commit'[c].stage = "lists" /\ commit'[c].failed = TRUE
      /\ commit'[c].config = commit[c].config /\ commit'[c].tab = commit[c].tab
      /\ commit'[c].agent = commit[c].agent /\ commit'[c].left = commit[c].left
  BY RefuseFacts DEF BuilderInv
<1>2. UNCHANGED <<pageVars, prompt, overlap, listRows>>
  BY DEF Refuse
<1>3. BuilderTypeOK'
  BY <1>1, <1>2 DEF BuilderInv, BuilderTypeOK, ListTypeOK, pageVars
<1>4. CommitOK(c) /\ ~Committed(c)
  BY <1>1 DEF BuilderInv, CommitOK
<1>5. ReviewedInv'
  BY <1>1, <1>2, <1>4, Background
<1>6. VersionsInv'
  BY <1>1, <1>2, VersionsKept DEF BuilderInv, Others, InTransaction
<1>7. ASSUME NEW d \in Commits PROVE CommitOK(d)'
  <2>1. CASE d = c
    BY <1>1, <1>2, <1>4, <2>1 DEF CommitOK, InTransaction, Committed
  <2>2. CASE d # c
    BY <1>1, <1>2, <2>2, CommitStays DEF BuilderInv, Others
  <2> QED BY <2>1, <2>2
<1> QED BY <1>3, <1>5, <1>6, <1>7 DEF BuilderInv

LEMMA Deactivate_Inv ==
  ASSUME BuilderInv, NEW c \in Commits, Deactivate(c)
  PROVE  BuilderInv'
<1>1. /\ commit' \in [Commits -> CommitState] /\ Others(c)
      /\ commit[c].stage = "begun"
      /\ commit'[c].stage = "reset" /\ commit'[c].failed = commit[c].failed
      /\ commit'[c].left = commit[c].left
      /\ commit'[c].config = commit[c].config /\ commit'[c].tab = commit[c].tab
      /\ commit'[c].agent = commit[c].agent /\ commit'[c].version = commit[c].version
      /\ commit'[c].old = {d \in PromptsOf(commit[c].agent) : prompt[d].active}
  BY DeactivateFacts DEF BuilderInv
<1>2. UNCHANGED <<pageVars, prompt, overlap, listRows>>
  BY DEF Deactivate
<1>3. BuilderTypeOK'
  BY <1>1, <1>2 DEF BuilderInv, BuilderTypeOK, ListTypeOK, pageVars
<1>4. CommitOK(c) /\ ~Committed(c)
  BY <1>1 DEF BuilderInv, CommitOK
<1>5. ReviewedInv'
  BY <1>1, <1>2, <1>4, Background
<1>6. VersionsInv'
  <2>1. \A d \in Commits : (InTransaction(d)' <=> InTransaction(d)) /\ (Committed(d)' <=> Committed(d))
                           /\ commit'[d].agent = commit[d].agent /\ commit'[d].version = commit[d].version
    BY <1>1, <1>2 DEF InTransaction, Others, Committed
  <2>2. \A a : PromptsOf(a)' = PromptsOf(a)
    BY <1>2 DEF PromptsOf
  <2>3. \A a \in Owners : HasLatest(a)'
    BY <1>2, <2>2 DEF HasLatest, BuilderInv, VersionsInv
  <2>4. ASSUME NEW d \in Commits, InTransaction(d)'
        PROVE  (commit[d].version \in 1 .. 1 + Cardinality(PromptsOf(commit[d].agent)))'
    <3>1. PromptsOf(commit[d].agent)' = PromptsOf(commit[d].agent)
      BY <1>2, <2>1 DEF PromptsOf
    <3> QED BY <2>1, <2>4, <3>1 DEF BuilderInv, VersionsInv
  <2>5. ASSUME NEW d \in Commits, NEW e \in Commits, d # e
        PROVE  /\ <<d, e>> \in overlap' => <<e, d>> \in overlap'
               /\ InTransaction(d)' /\ InTransaction(e)' => <<d, e>> \in overlap'
               /\ Branches(d, e)' => <<d, e>> \in overlap'
    BY <1>2, <2>1, <2>5 DEF BuilderInv, VersionsInv, Branches
  <2>6. ASSUME NEW d \in Commits, NEW e \in Commits, d # e PROVE SeesEarlier(d, e)'
    <3>1. SeesEarlier(d, e)
      BY <2>6 DEF BuilderInv, VersionsInv
    <3>2. CASE d # c
      BY <1>1, <1>2, <2>1, <3>1, <3>2 DEF SeesEarlier, Others
    <3>3. CASE d = c
      <4>1. Committed(e) /\ prompt[e].agent = commit[c].agent /\ prompt[e].active => e \in commit'[c].old
        BY <1>1 DEF PromptsOf, Committed
      <4> QED BY <1>2, <2>1, <3>1, <3>3, <4>1 DEF SeesEarlier
    <3> QED BY <3>2, <3>3
  <2> QED BY <2>3, <2>4, <2>5, <2>6 DEF VersionsInv
<1>7. ASSUME NEW d \in Commits PROVE CommitOK(d)'
  <2>1. CASE d = c
    BY <1>1, <1>2, <1>4, <2>1 DEF CommitOK, InTransaction, Committed
  <2>2. CASE d # c
    BY <1>1, <1>2, <2>2, CommitStays DEF BuilderInv, Others
  <2> QED BY <2>1, <2>2
<1> QED BY <1>3, <1>5, <1>6, <1>7 DEF BuilderInv

LEMMA ReadVersion_Inv ==
  ASSUME BuilderInv, NEW c \in Commits, ReadVersion(c)
  PROVE  BuilderInv'
<1>0. \A a \in Owners : HasLatest(a)
  BY DEF BuilderInv, VersionsInv
<1>1. /\ commit' \in [Commits -> CommitState] /\ Others(c)
      /\ commit[c].stage = "new" /\ Verdict[commit[c].config] = "complete"
      /\ commit'[c].stage = "begun" /\ commit'[c].failed = commit[c].failed
      /\ commit'[c].left = commit[c].left
      /\ commit'[c].config = commit[c].config /\ commit'[c].tab = commit[c].tab
      /\ commit'[c].agent \in Agents
      /\ commit'[c].version \in 1 .. 1 + Cardinality(PromptsOf(commit'[c].agent))
      /\ \A d \in PromptsOf(commit'[c].agent) : prompt[d].version < commit'[c].version
  BY <1>0, ReadFacts DEF BuilderInv
<1>2. UNCHANGED <<pageVars, prompt, listRows>>
      /\ overlap' = overlap \union UNION {{<<c, d>>, <<d, c>>} : d \in {d \in Commits : InTransaction(d)}}
  BY DEF ReadVersion
<1>overlap. /\ overlap \subseteq overlap' /\ overlap' \subseteq Commits \X Commits
            /\ \A d \in Commits : InTransaction(d) => <<c, d>> \in overlap' /\ <<d, c>> \in overlap'
            /\ \A d, e \in Commits : <<d, e>> \in overlap' /\ <<d, e>> \notin overlap =>
                 \/ d = c /\ InTransaction(e)
                 \/ e = c /\ InTransaction(d)
  <2>1. overlap \subseteq Commits \X Commits
    BY DEF BuilderInv, BuilderTypeOK
  <2> QED BY <1>2, <2>1
<1>3. BuilderTypeOK'
  BY <1>1, <1>2, <1>overlap DEF BuilderInv, BuilderTypeOK, ListTypeOK, pageVars
<1>4. CommitOK(c) /\ ~Committed(c)
  BY <1>1 DEF BuilderInv, CommitOK
<1>5. ReviewedInv'
  BY <1>1, <1>2, <1>4, Background
<1>6. VersionsInv'
  <2>0. ~InTransaction(c) /\ InTransaction(c)'
    BY <1>1 DEF InTransaction
  <2>1. \A d \in Commits \ {c} : commit'[d] = commit[d] /\ (InTransaction(d)' <=> InTransaction(d))
    BY <1>1, <1>2 DEF InTransaction, Others
  <2>2. \A a : PromptsOf(a)' = PromptsOf(a)
    BY <1>2 DEF PromptsOf
  <2>3. \A a \in Owners : HasLatest(a)'
    BY <1>2, <2>2 DEF HasLatest, BuilderInv, VersionsInv
  <2>4. ASSUME NEW d \in Commits, InTransaction(d)'
        PROVE  (commit[d].version \in 1 .. 1 + Cardinality(PromptsOf(commit[d].agent)))'
    <3>1. PromptsOf(commit[d].agent)' = PromptsOf(commit'[d].agent)
      BY <1>2 DEF PromptsOf
    <3>2. commit'[d].version \in 1 .. 1 + Cardinality(PromptsOf(commit'[d].agent))
      BY <1>1, <2>1, <2>4 DEF BuilderInv, VersionsInv
    <3> QED BY <3>1, <3>2
  <2>5. ASSUME NEW d \in Commits, NEW e \in Commits, d # e
        PROVE  /\ <<d, e>> \in overlap' => <<e, d>> \in overlap'
               /\ InTransaction(d)' /\ InTransaction(e)' => <<d, e>> \in overlap'
               /\ Branches(d, e)' => <<d, e>> \in overlap'
    <3>1. <<d, e>> \in overlap => <<e, d>> \in overlap
      BY <2>5 DEF BuilderInv, VersionsInv
    <3>2. <<d, e>> \in overlap' => <<e, d>> \in overlap'
      BY <1>overlap, <3>1
    <3>3. InTransaction(d)' /\ InTransaction(e)' => <<d, e>> \in overlap'
      BY <1>overlap, <2>1, <2>5 DEF BuilderInv, VersionsInv
    <3>4. Branches(d, e)' => Branches(d, e)
      BY <1>2 DEF Branches, Committed
    <3> QED BY <1>overlap, <2>5, <3>2, <3>3, <3>4 DEF BuilderInv, VersionsInv
  <2>6. ASSUME NEW d \in Commits, NEW e \in Commits, d # e PROVE SeesEarlier(d, e)'
    <3>1. SeesEarlier(d, e)
      BY <2>6 DEF BuilderInv, VersionsInv
    <3>2. CASE d # c
      BY <1>overlap, <1>2, <2>1, <3>1, <3>2 DEF SeesEarlier, Committed
    <3>3. CASE d = c
      <4>1. Committed(e) /\ prompt[e].agent = commit'[c].agent => e \in PromptsOf(commit'[c].agent)
        BY DEF PromptsOf, Committed
      <4>2. Committed(e)' <=> Committed(e)
        BY <1>2 DEF Committed
      <4> QED BY <1>1, <1>2, <3>3, <4>1, <4>2 DEF SeesEarlier
    <3> QED BY <3>2, <3>3
  <2> QED BY <2>3, <2>4, <2>5, <2>6 DEF VersionsInv
<1>7. ASSUME NEW d \in Commits PROVE CommitOK(d)'
  <2>1. CASE d = c
    BY <1>1, <1>2, <1>4, <2>1 DEF CommitOK, InTransaction, Committed
  <2>2. CASE d # c
    BY <1>1, <1>2, <2>2, CommitStays DEF BuilderInv, Others
  <2> QED BY <2>1, <2>2
<1> QED BY <1>3, <1>5, <1>6, <1>7 DEF BuilderInv

LEMMA CommitPrompt_Inv ==
  ASSUME BuilderInv, NEW c \in Commits, CommitPrompt(c)
  PROVE  BuilderInv'
<1>0. commit[c].stage = "reset" /\ InTransaction(c) /\ CommitOK(c) /\ commit[c].config \in Configs
      /\ ~Committed(c) /\ commit[c].agent \in Agents /\ ~commit[c].failed
  BY DEF CommitPrompt, InTransaction, BuilderInv, CommitOK
<1>1. /\ commit' \in [Commits -> CommitState] /\ Others(c)
      /\ commit'[c].stage = "lists" /\ commit'[c].failed = commit[c].failed
      /\ commit'[c].left = {l \in Tables : Suggested[commit[c].config][l] # {}}
      /\ commit'[c].config = commit[c].config /\ commit'[c].tab = commit[c].tab
      /\ commit'[c].agent = commit[c].agent
      /\ prompt' \in [Commits -> Prompt]
      /\ prompt'[c].agent = commit[c].agent /\ prompt'[c].version = commit[c].version
      /\ prompt'[c].active = TRUE
      /\ \A d \in Commits \ {c} :
           /\ prompt'[d].agent = prompt[d].agent /\ prompt'[d].version = prompt[d].version
           /\ prompt'[d].active = (prompt[d].active /\ d \notin commit[c].old)
  BY <1>0, CommitFacts DEF BuilderInv
<1>2. UNCHANGED <<pageVars, overlap, listRows>>
  BY DEF CommitPrompt
<1>3. BuilderTypeOK'
  BY <1>1, <1>2 DEF BuilderInv, BuilderTypeOK, ListTypeOK, pageVars
<1>v. PICK a, n : a = commit[c].agent /\ n = commit[c].version
  OBVIOUS
<1>4. /\ n \in 1 .. 1 + Cardinality(PromptsOf(a)) /\ a \in Owners
      /\ prompt'[c].agent = a /\ prompt'[c].version = n
  BY <1>0, <1>1, <1>v DEF BuilderInv, VersionsInv, Owners
<1>n. n \in Nat \ {0}
  <2>1. Cardinality(PromptsOf(a)) \in Nat
    BY PromptsFinite
  <2> QED BY <1>4, <2>1
<1>5. Committed(c)' /\ \A d \in Commits \ {c} : Committed(d)' <=> Committed(d)
  BY <1>1, <1>4, <1>n DEF Committed
<1>6. ReviewedInv'
  BY <1>0, <1>1, <1>2, <1>5, Background
<1>7. VersionsInv'
  <2>0. ~InTransaction(c)'
    BY <1>1 DEF InTransaction
  <2>1. \A d \in Commits \ {c} : commit'[d] = commit[d] /\ (InTransaction(d)' <=> InTransaction(d))
    BY <1>1, <1>2 DEF InTransaction, Others
  <2>2. PromptsOf(a)' = PromptsOf(a) \union {c} /\ c \notin PromptsOf(a)
    BY <1>0, <1>1, <1>4, <1>5, <1>v DEF PromptsOf, Committed
  <2>3. \A b : b # a => PromptsOf(b)' = PromptsOf(b)
    BY <1>0, <1>1, <1>4, <1>5, <1>v DEF PromptsOf, Committed
  <2>4. Cardinality(PromptsOf(a)') = 1 + Cardinality(PromptsOf(a)) /\ Cardinality(PromptsOf(a)) \in Nat
    BY <2>2, PromptsFinite, FS_AddElement
  <2>same. \A d \in PromptsOf(a) : prompt'[d].version = prompt[d].version /\ prompt[d].version \in Nat
    BY <1>1, <2>2 DEF BuilderInv, BuilderTypeOK, Prompt, PromptsOf
  <2>5. HasLatest(a)'
    <3> PICK m \in 0 .. Cardinality(PromptsOf(a)) :
          /\ \A d \in PromptsOf(a) : prompt[d].version <= m
          /\ m = 0 \/ \E d \in PromptsOf(a) : prompt[d].version = m
      BY <1>4 DEF BuilderInv, VersionsInv, HasLatest
    <3>1. CASE n >= m
      <4>1. n \in 0 .. Cardinality(PromptsOf(a)')
        BY <1>4, <2>4
      <4>2. \A d \in PromptsOf(a)' : prompt'[d].version <= n
        BY <1>4, <1>n, <2>2, <2>4, <2>same, <3>1
      <4>3. \E d \in PromptsOf(a)' : prompt'[d].version = n
        BY <1>4, <2>2
      <4> QED BY <4>1, <4>2, <4>3 DEF HasLatest
    <3>2. CASE n < m
      <4>1. m \in 0 .. Cardinality(PromptsOf(a)')
        BY <2>4
      <4>2. \A d \in PromptsOf(a)' : prompt'[d].version <= m
        BY <1>4, <1>n, <2>2, <2>4, <2>same, <3>2
      <4>3. m = 0 \/ \E d \in PromptsOf(a)' : prompt'[d].version = m
        BY <2>2, <2>same
      <4> QED BY <4>1, <4>2, <4>3 DEF HasLatest
    <3> QED BY <1>n, <2>4, <3>1, <3>2
  <2>6. ASSUME NEW b \in Owners PROVE HasLatest(b)'
    <3>1. CASE b = a
      BY <2>5, <3>1 DEF HasLatest, PromptsOf
    <3>2. CASE b # a
      <4>1. HasLatest(b) /\ PromptsOf(b)' = PromptsOf(b) /\ c \notin PromptsOf(b)
        BY <1>0, <2>3, <3>2 DEF BuilderInv, VersionsInv, PromptsOf, Committed
      <4>2. \A d \in PromptsOf(b) : prompt'[d].version = prompt[d].version
        BY <1>1, <4>1 DEF PromptsOf
      <4> QED BY <4>1, <4>2 DEF HasLatest
    <3> QED BY <3>1, <3>2
  <2>7. ASSUME NEW d \in Commits, InTransaction(d)'
        PROVE  (commit[d].version \in 1 .. 1 + Cardinality(PromptsOf(commit[d].agent)))'
    <3>1. d # c /\ InTransaction(d) /\ commit'[d] = commit[d]
      BY <2>0, <2>1, <2>7
    <3>2. PICK b : b = commit[d].agent
      OBVIOUS
    <3>3. commit[d].version \in 1 .. 1 + Cardinality(PromptsOf(b))
      BY <3>1, <3>2 DEF BuilderInv, VersionsInv
    <3>4. Cardinality(PromptsOf(b)) <= Cardinality(PromptsOf(b)') /\ Cardinality(PromptsOf(b)) \in Nat
          /\ Cardinality(PromptsOf(b)') \in Nat
      <4>1. CASE b = a
        <5>1. PromptsOf(b)' = PromptsOf(a)' /\ PromptsOf(b) = PromptsOf(a)
          BY <4>1 DEF PromptsOf
        <5> QED BY <2>4, <5>1
      <4>2. CASE b # a
        BY <2>3, <4>2, PromptsFinite
      <4> QED BY <4>1, <4>2
    <3>5. PromptsOf(commit[d].agent)' = PromptsOf(b)'
      BY <3>1, <3>2 DEF PromptsOf
    <3>6. commit'[d].version \in 1 .. 1 + Cardinality(PromptsOf(b)')
      BY <3>1, <3>3, <3>4
    <3> QED BY <3>5, <3>6
  <2>8. ASSUME NEW d \in Commits, NEW e \in Commits, d # e
        PROVE  /\ <<d, e>> \in overlap' => <<e, d>> \in overlap'
               /\ InTransaction(d)' /\ InTransaction(e)' => <<d, e>> \in overlap'
    BY <1>2, <2>0, <2>1, <2>8 DEF BuilderInv, VersionsInv
  <2>9. ASSUME NEW d \in Commits, NEW e \in Commits, d # e PROVE SeesEarlier(d, e)'
    <3>1. CASE d = c
      BY <2>0, <3>1 DEF SeesEarlier
    <3>2. CASE d # c /\ e = c
      BY <1>0, <1>2, <2>1, <3>2 DEF SeesEarlier, BuilderInv, VersionsInv
    <3>3. CASE d # c /\ e # c
      <4>1. SeesEarlier(d, e)
        BY <2>9 DEF BuilderInv, VersionsInv
      <4> QED BY <1>1, <1>2, <1>5, <2>1, <3>3, <4>1 DEF SeesEarlier
    <3> QED BY <3>1, <3>2, <3>3
  <2>new. ASSUME NEW e \in Commits \ {c}, Committed(e), prompt[e].agent = a, <<c, e>> \notin overlap
          PROVE  prompt'[e].version # n /\ ~prompt'[e].active
    <3>1. SeesEarlier(c, e)
      BY DEF BuilderInv, VersionsInv
    <3>2. prompt[e].version < n /\ (prompt[e].active => e \in commit[c].old)
      BY <1>0, <1>v, <2>new, <3>1 DEF SeesEarlier
    <3>3. prompt[e].version \in Nat
      BY DEF BuilderInv, BuilderTypeOK, Prompt
    <3>4. prompt'[e].version # n
      BY <1>1, <1>n, <3>2, <3>3
    <3>5. prompt'[e].active = (prompt[e].active /\ e \notin commit[c].old)
      BY <1>1
    <3>6. ~prompt'[e].active
      BY <3>2, <3>5, Zenon
    <3> QED BY <3>4, <3>6
  <2>10. ASSUME NEW d \in Commits, NEW e \in Commits, d # e, Branches(d, e)'
         PROVE  <<d, e>> \in overlap'
    <3>1. \A x \in Commits \ {c} : <<c, x>> \in overlap <=> <<x, c>> \in overlap
      BY DEF BuilderInv, VersionsInv
    <3>2. CASE d = c
      <4>1. Committed(e) /\ prompt[e].agent = a
        BY <1>1, <1>4, <1>5, <2>10, <3>2 DEF Branches
      <4>2. prompt'[e].version = n \/ prompt'[e].active
        BY <1>4, <2>10, <3>2 DEF Branches
      <4> QED BY <1>2, <2>10, <2>new, <3>2, <4>1, <4>2
    <3>3. CASE e = c
      <4>1. Committed(d) /\ prompt[d].agent = a
        BY <1>1, <1>4, <1>5, <2>10, <3>3 DEF Branches
      <4>2. prompt'[d].version = n \/ prompt'[d].active
        BY <1>4, <2>10, <3>3 DEF Branches
      <4> QED BY <1>2, <2>10, <2>new, <3>1, <3>3, <4>1, <4>2
    <3>4. CASE d # c /\ e # c
      <4>1. Branches(d, e)
        BY <1>1, <1>5, <2>10, <3>4 DEF Branches
      <4> QED BY <1>2, <2>10, <4>1 DEF BuilderInv, VersionsInv
    <3> QED BY <3>2, <3>3, <3>4
  <2> QED BY <2>6, <2>7, <2>8, <2>9, <2>10 DEF VersionsInv
<1>8. ASSUME NEW d \in Commits PROVE CommitOK(d)'
  <2>1. CASE d = c
    <3>1. \A l \in Tables \ commit'[c].left : Suggested[commit[c].config][l] = {}
      BY <1>1
    <3>2. ~InTransaction(c)' /\ prompt'[c].agent = commit'[c].agent
      BY <1>1 DEF InTransaction
    <3> QED BY <1>0, <1>1, <1>5, <2>1, <3>1, <3>2 DEF CommitOK
  <2>2. CASE d # c
    BY <1>1, <1>2, <2>2, CommitStays DEF BuilderInv, Others
  <2> QED BY <2>1, <2>2
<1> QED BY <1>3, <1>6, <1>7, <1>8 DEF BuilderInv

LEMMA List_Inv ==
  ASSUME BuilderInv, NEW c \in Commits, NEW l \in Tables, InsertList(c, l) \/ ListFails(c, l)
  PROVE  BuilderInv'
<1>1. /\ commit' \in [Commits -> CommitState] /\ Others(c)
      /\ l \in commit[c].left /\ commit'[c].left = commit[c].left \ {l}
      /\ commit'[c].stage = commit[c].stage
      /\ commit'[c].failed = (commit[c].failed \/ ListFails(c, l))
      /\ commit'[c].config = commit[c].config /\ commit'[c].tab = commit[c].tab
      /\ commit'[c].agent = commit[c].agent /\ commit'[c].version = commit[c].version
      /\ commit'[c].old = commit[c].old
  BY ListFacts DEF BuilderInv
<1>2. UNCHANGED <<pageVars, prompt, overlap>>
  BY DEF InsertList, ListFails
<1>3. CommitOK(c) /\ commit[c] \in CommitState
  BY DEF BuilderInv, BuilderTypeOK
<1>4. Committed(c) /\ commit[c].agent \in Agents /\ commit[c].stage \notin {"none", "new", "begun", "reset"}
      /\ (commit[c].stage = "answered" => commit[c].failed) /\ commit[c].config \in Configs
  BY <1>1, <1>3 DEF CommitOK
<1>5. PICK a, K : a = commit[c].agent /\ K = Suggested[commit[c].config][l]
  OBVIOUS
<1>6. a \in Agents /\ K \in SUBSET Keys /\ a \in Owners
  BY <1>4, <1>5, SuggestedAssumption DEF Owners
<1>7. /\ ListTypeOK'
      /\ \A b \in Agents, m \in Tables, k \in Keys :
           listRows[<<b, m, k>>] = 1 => listRows'[<<b, m, k>>] = 1
      /\ InsertList(c, l) => \A k \in K : listRows'[<<a, l, k>>] = 1
  <2>0. ListTypeOK
    BY DEF BuilderInv, BuilderTypeOK
  <2>1. CASE InsertList(c, l)
    <3>1. listRows' = Inserted(a, l, K)
      BY <1>5, <2>1 DEF InsertList, InsertSuggestions
    <3> QED BY <1>6, <2>0, <3>1, InsertedRows
  <2>2. CASE ~InsertList(c, l)
    <3>1. listRows' = listRows
      BY <2>2 DEF ListFails
    <3> QED BY <2>0, <2>2, <3>1 DEF ListTypeOK
  <2> QED BY <2>1, <2>2
<1>8. BuilderTypeOK'
  BY <1>1, <1>2, <1>7 DEF BuilderInv, BuilderTypeOK, pageVars
<1>9. ReviewedInv'
  BY <1>1, <1>2, Background
<1>10. VersionsInv'
  BY <1>1, <1>2, VersionsKept DEF BuilderInv, Others, InTransaction
<1>11. ASSUME NEW d \in Commits PROVE CommitOK(d)'
  <2>1. CASE d = c
    <3>1. ASSUME ~commit'[c].failed, NEW m \in Tables \ commit'[c].left,
                 NEW k \in Suggested[commit[c].config][m]
          PROVE  listRows'[<<commit[c].agent, m, k>>] = 1
      <4>0. ~commit[c].failed /\ InsertList(c, l)
        BY <1>1, <1>3, <3>1 DEF CommitState
      <4>1. k \in Keys
        BY <1>4, SuggestedAssumption
      <4>2. CASE m = l
        BY <1>5, <1>7, <3>1, <4>0, <4>2
      <4>3. CASE m # l
        <5>1. m \notin commit[c].left
          BY <1>1, <3>1, <4>3
        <5>2. commit[c].stage \in {"lists", "answered"} => listRows[<<commit[c].agent, m, k>>] = 1
          BY <1>3, <3>1, <4>0, <5>1 DEF CommitOK
        <5>3. commit[c].stage # "dead"
          BY <1>1, <1>3 DEF CommitOK
        <5> QED BY <1>3, <1>4, <1>7, <4>1, <5>2, <5>3 DEF CommitState, CommitStages
      <4> QED BY <4>2, <4>3
    <3>2. Committed(c)' /\ prompt'[c].agent = commit'[c].agent /\ ~InTransaction(c)'
      BY <1>1, <1>2, <1>3, <1>4 DEF Committed, CommitOK, InTransaction
    <3>3. commit'[c].failed \/ commit'[c].stage # "answered"
      BY <1>1, <1>4
    <3> QED BY <1>1, <1>3, <1>4, <2>1, <3>1, <3>2, <3>3 DEF CommitOK
  <2>2. CASE d # c
    BY <1>1, <1>2, <1>7, <2>2, CommitStays DEF BuilderInv, Others
  <2> QED BY <2>1, <2>2
<1> QED BY <1>8, <1>9, <1>10, <1>11 DEF BuilderInv

LEMMA Answer_Inv ==
  ASSUME BuilderInv, NEW c \in Commits, Answer(c)
  PROVE  BuilderInv'
<1>1. /\ commit' \in [Commits -> CommitState] /\ Others(c)
      /\ commit[c].stage = "lists" /\ (commit[c].left = {} \/ commit[c].failed)
      /\ commit'[c].stage = "answered" /\ commit'[c].failed = commit[c].failed
      /\ commit'[c].left = commit[c].left
      /\ commit'[c].config = commit[c].config /\ commit'[c].tab = commit[c].tab
      /\ commit'[c].agent = commit[c].agent
  BY AnswerFacts DEF BuilderInv
<1>2. UNCHANGED <<prompt, overlap, listRows>>
  BY DEF Answer
<1>3. CommitOK(c) /\ BuilderTypeOK
  BY DEF BuilderInv
<1>4. /\ draft' \in Page /\ shown' \in [Tabs -> SUBSET Configs]
      /\ \A u \in Tabs : shown[u] \subseteq shown'[u]
  <2>1. CASE UNCHANGED pageVars
    BY <1>3, <2>1 DEF pageVars, BuilderTypeOK
  <2>2. CASE ~UNCHANGED pageVars
    <3>1. commit[c].tab \in Tabs /\ Respond(commit[c].tab, PageOf(commit[c].config))
      BY <2>2 DEF Answer
    <3>2. commit[c].config \in Configs
      BY <1>1, <1>3 DEF CommitOK
    <3>3. PICK page : page = PageOf(commit[c].config)
      OBVIOUS
    <3>4. page \in Page /\ Respond(commit[c].tab, page)
      BY <3>1, <3>2, <3>3, PageTypes
    <3> QED BY <1>3, <3>1, <3>4, RespondFacts
  <2> QED BY <2>1, <2>2
<1>5. BuilderTypeOK'
  BY <1>1, <1>2, <1>3, <1>4 DEF BuilderTypeOK, ListTypeOK
<1>6. ASSUME NEW d \in Commits PROVE CommitOK(d)'
  <2>1. CASE d = c
    <3>1. (Committed(c)' <=> Committed(c)) /\ ~InTransaction(c)'
      BY <1>1, <1>2 DEF Committed, InTransaction
    <3> QED BY <1>1, <1>2, <1>3, <2>1, <3>1 DEF CommitOK
  <2>2. CASE d # c
    BY <1>1, <1>2, <2>2, CommitStays DEF BuilderInv, Others
  <2> QED BY <2>1, <2>2
<1>7. VersionsInv'
  BY <1>1, <1>2, VersionsKept DEF BuilderInv, Others, InTransaction
<1>8. ReviewedInv'
  BY <1>1, <1>4, ReviewedKept DEF BuilderInv, Others
<1> QED BY <1>5, <1>6, <1>7, <1>8 DEF BuilderInv

LEMMA Die_Inv ==
  ASSUME BuilderInv, NEW c \in Commits, Die(c)
  PROVE  BuilderInv'
<1>1. /\ commit' \in [Commits -> CommitState] /\ Others(c)
      /\ InFlight(c)
      /\ commit'[c].stage = "dead" /\ commit'[c].failed = FALSE /\ commit'[c].left = {}
      /\ commit'[c].config = commit[c].config /\ commit'[c].tab = commit[c].tab
      /\ commit'[c].agent = commit[c].agent
  BY DieFacts DEF BuilderInv
<1>2. UNCHANGED <<pageVars, prompt, overlap, listRows>>
  BY DEF Die
<1>3. CommitOK(c)
  BY DEF BuilderInv
<1>4. BuilderTypeOK'
  BY <1>1, <1>2 DEF BuilderInv, BuilderTypeOK, ListTypeOK, pageVars
<1>5. VersionsInv'
  BY <1>1, <1>2, VersionsKept DEF BuilderInv, Others, InTransaction
<1>6. ASSUME NEW d \in Commits PROVE CommitOK(d)'
  <2>1. CASE d = c
    <3>1. (Committed(c)' <=> Committed(c)) /\ ~InTransaction(c)'
      BY <1>1, <1>2 DEF Committed, InTransaction
    <3>2. commit[c].stage # "none"
      BY <1>1 DEF InFlight
    <3> QED BY <1>1, <1>2, <1>3, <2>1, <3>1, <3>2 DEF CommitOK
  <2>2. CASE d # c
    BY <1>1, <1>2, <2>2, CommitStays DEF BuilderInv, Others
  <2> QED BY <2>1, <2>2
<1>7. ReviewedInv'
  BY <1>1, <1>2, Background
<1> QED BY <1>4, <1>5, <1>6, <1>7 DEF BuilderInv

LEMMA Template_Inv ==
  ASSUME BuilderInv, NEW o \in {NoAgent, OldAgent}, NEW l \in TemplateTables,
         InstantiateTemplate(o, l), UNCHANGED <<pageVars, commit, prompt, overlap>>
  PROVE  BuilderInv'
<1>1. o \in Owners /\ l \in Tables /\ Template[l] \in SUBSET Keys
      /\ listRows' = Inserted(o, l, Template[l])
  BY OldAgentAssumption, TemplateAssumption DEF Owners, Tables, TemplateTables, InstantiateTemplate
<1>2. /\ ListTypeOK'
      /\ \A b \in Agents, m \in Tables, k \in Keys :
           listRows[<<b, m, k>>] = 1 => listRows'[<<b, m, k>>] = 1
  BY <1>1, InsertedRows DEF BuilderInv, BuilderTypeOK
<1>3. BuilderTypeOK'
  BY <1>2 DEF BuilderInv, BuilderTypeOK, pageVars
<1>5. \A d \in Commits : CommitOK(d)'
  BY <1>2, CommitStays DEF BuilderInv
<1>6. VersionsInv'
  BY VersionsKept DEF BuilderInv
<1>7. ReviewedInv'
  BY ReviewedKept DEF BuilderInv, pageVars
<1> QED BY <1>3, <1>5, <1>6, <1>7 DEF BuilderInv

LEMMA BuilderStep_Inv == BuilderInv /\ [BuilderNext]_builderVars => BuilderInv'
<1> SUFFICES ASSUME BuilderInv, [BuilderNext]_builderVars PROVE BuilderInv'
  OBVIOUS
<1>1. ASSUME NEW t \in Tabs, Open(t) \/ ResetDraft(t) \/ GatewayFails(t) \/ GatewayReturns(t)
      PROVE  BuilderInv'
  BY <1>1, TabStep_Inv
<1>2. ASSUME NEW t \in Tabs, NEW c \in Commits, Confirm(t, c)
      PROVE  BuilderInv'
  <2>1. PICK g \in shown[t] : Begin(c, g, t, NoAgent)
    BY <1>2 DEF Confirm, Confirmable
  <2>2. g \in Configs
    BY <2>1 DEF BuilderInv, BuilderTypeOK
  <2> QED BY <2>1, <2>2, Begin_Inv
<1>3. ASSUME NEW c \in Commits, NEW g \in Configs, NEW a \in Owners, PostCommit(c, g, a)
      PROVE  BuilderInv'
  BY <1>3, TabsAssumption, Begin_Inv DEF PostCommit
<1>4. ASSUME NEW c \in Commits, CommitStep(c) \/ Refuse(c) \/ Die(c)
      PROVE  BuilderInv'
  BY <1>4, ReadVersion_Inv, Deactivate_Inv, CommitPrompt_Inv, Answer_Inv, List_Inv, Refuse_Inv, Die_Inv
     DEF CommitStep
<1>5. ASSUME NEW c \in Commits, NEW l \in Tables, ListFails(c, l)
      PROVE  BuilderInv'
  BY <1>5, List_Inv
<1>6. ASSUME NEW o \in {NoAgent, OldAgent}, NEW l \in TemplateTables,
             InstantiateTemplate(o, l), UNCHANGED <<pageVars, commit, prompt, overlap>>
      PROVE  BuilderInv'
  BY <1>6, Template_Inv
<1>7. CASE UNCHANGED builderVars
  <2>1. UNCHANGED <<pageVars, commit, prompt, overlap, listRows>>
    BY <1>7 DEF builderVars, pageVars
  <2>2. draft' \in Page /\ shown' = shown /\ shown \in [Tabs -> SUBSET Configs]
        /\ UNCHANGED databaseVars
    BY <2>1 DEF BuilderInv, BuilderTypeOK, pageVars, databaseVars
  <2> QED BY <2>2, Pages_Inv
<1> QED BY <1>1, <1>2, <1>3, <1>4, <1>5, <1>6, <1>7, ExpireDraft_Inv DEF BuilderNext

------------------------------------------------------------------------------
(* The theorems.                                                           *)

\* The inductive invariant of the agent builder: how far each commit request has
\* got and which rows it has left, which prompts a transaction has seen, and that
\* what a tab has sent it has shown before.
THEOREM BuilderInvariantHolds == BuilderSpec => []BuilderInv
<1>1. BuilderInit => BuilderInv
  BY BuilderInit_Inv
<1>2. BuilderInv /\ [BuilderNext]_builderVars => BuilderInv'
  BY BuilderStep_Inv
<1> QED BY <1>1, <1>2, PTL DEF BuilderSpec

\* The builder's variables keep their types: cookie, forms shown, requests, prompts,
\* rows.
THEOREM BuilderTypesHold == BuilderSpec => []BuilderTypeOK
<1>1. BuilderInv => BuilderTypeOK
  BY DEF BuilderInv
<1> QED BY <1>1, BuilderInvariantHolds, PTL

\* commitGeneratedConfig leaves two active prompts of one agent, or two with one
\* version number, only when their transactions overlapped.
THEOREM BranchesNeedOverlap == BuilderSpec => []VersionsBranchOnlyByOverlap
<1>1. BuilderInv => VersionsBranchOnlyByOverlap
  BY DEF BuilderInv, VersionsInv, Branches, Committed, VersionsBranchOnlyByOverlap
<1> QED BY <1>1, BuilderInvariantHolds, PTL

\* An answered request that did not fail has its prompt and every key of its
\* three lists, once.
THEOREM SuccessIsComplete == BuilderSpec => []SuccessMeansConfigured
<1>1. BuilderInv => SuccessMeansConfigured
  BY DEF BuilderInv, CommitOK, Committed, SuccessMeansConfigured
<1> QED BY <1>1, BuilderInvariantHolds, PTL

\* The page makes live only what the confirming tab has shown for review, and no
\* commit what still needs review: however often a form is sent, and whatever
\* other tabs and late answers leave in the cookie.
THEOREM NothingUnreviewedGoesLive == BuilderSpec => []NothingLiveUnreviewed
<1>1. BuilderInv => NothingLiveUnreviewed
  BY DEF BuilderInv, CommitOK, Committed, ReviewedInv, NothingLiveUnreviewed
<1> QED BY <1>1, BuilderInvariantHolds, PTL
================================================================================
