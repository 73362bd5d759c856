----------------------------- MODULE AgentBuilder ------------------------------
(***************************************************************************)
(* The prompt-to-agent builder: the page /dashboard/agents/new with its    *)
(* draft cookie and server actions (app/dashboard/agents/new), the routes  *)
(* api/agents/generate-from-prompt and .../commit, and                     *)
(* commitGeneratedConfig (lib/agent-builder/commit.ts), which writes the   *)
(* prompt in one transaction and the CRM lists in three more at once.      *)
(*                                                                         *)
(* One organization, one user with several tabs that share the cookie.     *)
(* The forms are plain: nothing stops a second submission before the first *)
(* is answered, or a return to a form shown before.  So every form a tab   *)
(* has shown stays open to it, and the one on show needs no variable; the  *)
(* first form is always a "Start over" away.                               *)
(***************************************************************************)
EXTENDS CrmLists, FiniteSets

CONSTANTS Tabs, Commits,  \* browser tabs, calls of commitGeneratedConfig
          Configs,        \* what the language model may return
          Verdict,        \* [Configs -> {"complete", "clarify", "review"}]
          Suggested,      \* [Configs -> [Tables -> SUBSET Keys]]
          OldAgent,       \* an agent that exists from the start
          NoConfig

ASSUME VerdictAssumption == Verdict \in [Configs -> {"complete", "clarify", "review"}]
ASSUME SuggestedAssumption == Suggested \in [Configs -> [Tables -> SUBSET Keys]]
ASSUME OldAgentAssumption == OldAgent \in Agents
ASSUME NoConfigAssumption == NoConfig \notin Configs
\* Tab "api": the commit route's other users.
ASSUME TabsAssumption == "api" \notin Tabs
\* There is an id for every new agent.
ASSUME FreshAssumption ==
  IsFiniteSet(Commits) /\ IsFiniteSet(Agents) /\ Cardinality(Commits) < Cardinality(Agents)

VARIABLES draft,     \* the agent_builder_draft cookie: a Page
          shown,     \* the configurations each tab has shown for review
          commit,    \* each commit request: a CommitState
          prompt,    \* the agent_prompts row a commit inserted: a Prompt
          overlap    \* history: pairs of commits whose transactions overlapped

builderVars == <<draft, shown, commit, prompt, overlap, listRows>>

------------------------------------------------------------------------------
Page == [form : {"describe", "clarify", "review"}, config : Configs \union {NoConfig}]

\* none; new: submitted; begun: in its transaction, MAX(version) read; reset:
\* the old prompt deactivated; lists: committed, lists to insert; answered; dead.
CommitStages == {"none", "new", "begun", "reset", "lists", "answered", "dead"}

CommitState == [stage : CommitStages, agent : Owners, config : Configs \union {NoConfig},
                version : Nat, old : SUBSET Commits, left : SUBSET Tables,
                failed : BOOLEAN, tab : Tabs \union {"api"}]

Prompt == [agent : Owners, version : Nat, active : BOOLEAN]

BuilderTypeOK ==
  /\ ListTypeOK
  /\ draft \in Page
  /\ shown \in [Tabs -> SUBSET Configs]
  /\ commit \in [Commits -> CommitState]
  /\ prompt \in [Commits -> Prompt]
  /\ overlap \subseteq Commits \X Commits

NoDraft == [form |-> "describe", config |-> NoConfig]
NoPrompt == [agent |-> NoAgent, version |-> 0, active |-> FALSE]

BuilderInit ==
  /\ ListInit
  /\ draft = NoDraft
  /\ shown = [t \in Tabs |-> {}]
  /\ commit = [c \in Commits |->
       [stage |-> "none", agent |-> NoAgent, config |-> NoConfig, version |-> 0,
        old |-> {}, left |-> {}, failed |-> FALSE, tab |-> "api"]]
  /\ prompt = [c \in Commits |-> NoPrompt]
  /\ overlap = {}

------------------------------------------------------------------------------
(* The page and its draft.                                                 *)

databaseVars == <<commit, prompt, overlap, listRows>>

\* The form NewAgentPage offers for a generated configuration.
PageOf(config) ==
  [form |-> IF Verdict[config] = "clarify" THEN "clarify" ELSE "review", config |-> config]

\* A tab shows a page.
Show(t, page) ==
  shown' = [shown EXCEPT ![t] = @ \union {g \in Configs : page = PageOf(g) /\ page.form = "review"}]

\* An action ends with writeDraft() and a redirect to the page: the browser keeps
\* the new cookie, or the old one (the new is too large, or the response is lost),
\* and shows the page that the response holds, the cookie's, or none of them.
Respond(t, page) ==
  /\ draft' \in {draft, page}
  /\ \E p \in {page, draft', NoDraft} : Show(t, p)

Open(t) ==
  /\ Show(t, draft)
  /\ UNCHANGED <<draft, databaseVars>>

\* resetAction(): store.delete() names the path "/", the cookie is kept under the
\* page's own path and stays.  The response shows no draft, a fresh request does.
ResetDraft(t) ==
  /\ \E p \in {NoDraft, draft} : Show(t, p)
  /\ UNCHANGED <<draft, databaseVars>>

\* The cookie's half hour is over.
ExpireDraft ==
  /\ draft' = NoDraft
  /\ UNCHANGED <<shown, databaseVars>>

\* generateAction(), clarifyAction(), of a form this tab sent at some time before:
\* generateAgentConfig throws, and the draft is an error over the first form,
GatewayFails(t) ==
  /\ Respond(t, NoDraft)
  /\ UNCHANGED databaseVars

\* ... or it returns a configuration.
GatewayReturns(t) ==
  /\ \E g \in Configs : Respond(t, PageOf(g))
  /\ UNCHANGED databaseVars

------------------------------------------------------------------------------
(* commitGeneratedConfig().                                                *)

pageVars == <<draft, shown>>

Begin(c, config, origin, agent) ==
  /\ commit[c].stage = "none"
  /\ commit' = [commit EXCEPT ![c].stage = "new", ![c].config = config,
                              ![c].tab = origin, ![c].agent = agent]
  /\ UNCHANGED <<pageVars, prompt, overlap, listRows>>

\* The review form, whose button is disabled while needs_review.
Confirmable(t) == {g \in shown[t] : Verdict[g] # "review"}

\* Mutant: commitAction() reads the configuration from the cookie.
ConfirmDraft(t, c) ==
  /\ Confirmable(t) # {}
  /\ draft.config # NoConfig
  /\ Begin(c, draft.config, t, NoAgent)

\* commitAction(): a review form of this tab posts the configuration it shows; a
\* new agent is always asked for.
Confirm(t, c) == \E g \in Confirmable(t) : Begin(c, g, t, NoAgent)

\* configSchema: both flags are false, whatever else was edited.
Valid(config) == Verdict[config] = "complete"

\* The commit route, for a new agent or an existing one.
PostCommit(c, config, agent) ==
  /\ agent \in {NoAgent, OldAgent}
  /\ Valid(config)
  /\ Begin(c, config, "api", agent)

\* What makes the action answer with an error: a transaction of the request
\* failed, or it was refused (requireRole, CommitValidationError).
Failure(c) == commit[c].failed

Success(c) == commit[c].stage = "lists" /\ commit[c].left = {} /\ ~commit[c].failed

\* The request is refused, or its first transaction fails and is rolled back.
Refuse(c) ==
  /\ commit[c].stage \in {"new", "begun", "reset"}
  /\ commit' = [commit EXCEPT ![c].stage = "lists", ![c].failed = TRUE,
                              ![c].version = 0, ![c].old = {}]
  /\ UNCHANGED <<pageVars, prompt, overlap, listRows>>

InTransaction(c) == commit[c].stage \in {"begun", "reset"}

\* Prompts of an agent that are committed.
PromptsOf(agent) == {c \in Commits : prompt[c].version > 0 /\ prompt[c].agent = agent}

NextVersion(agent) == 1 + CHOOSE n \in 0..Cardinality(Commits) :
  /\ \A c \in PromptsOf(agent) : prompt[c].version <= n
  /\ n = 0 \/ \E c \in PromptsOf(agent) : prompt[c].version = n

\* A new agent is one that no other request has inserted.
FreshAgents == (Agents \ {OldAgent}) \ {commit[c].agent : c \in Commits}

\* BEGIN; the agent's INSERT when none was given; SELECT MAX(version) + 1.
ReadVersion(c) ==
  /\ commit[c].stage = "new"
  /\ Verdict[commit[c].config] = "complete"
  /\ LET a == IF commit[c].agent = NoAgent THEN CHOOSE x \in FreshAgents : TRUE
                                           ELSE commit[c].agent IN
       commit' = [commit EXCEPT ![c].stage = "begun", ![c].agent = a,
                                ![c].version = NextVersion(a)]
  /\ overlap' = overlap \union UNION {{<<c, d>>, <<d, c>>} : d \in {d \in Commits : InTransaction(d)}}
  /\ UNCHANGED <<pageVars, prompt, listRows>>

\* Mutant: the UPDATE is left out.
DeactivateNothing(c) ==
  /\ commit[c].stage = "begun"
  /\ commit' = [commit EXCEPT ![c].stage = "reset", ![c].old = {}]
  /\ UNCHANGED <<pageVars, prompt, overlap, listRows>>

\* UPDATE ... SET is_active = false: the rows that are active when the statement
\* starts.  Waiting for a concurrent UPDATE's locks does not bring in the row
\* that the other transaction is about to insert.
Deactivate(c) ==
  /\ commit[c].stage = "begun"
  /\ commit' = [commit EXCEPT ![c].stage = "reset",
       ![c].old = {d \in PromptsOf(commit[c].agent) : prompt[d].active}]
  /\ UNCHANGED <<pageVars, prompt, overlap, listRows>>

\* The prompt's INSERT and COMMIT; lists without suggestions are not inserted.
CommitPrompt(c) == LET me == commit[c] IN
  /\ me.stage = "reset"
  /\ prompt' = [d \in Commits |->
       IF d = c THEN [agent |-> me.agent, version |-> me.version, active |-> TRUE]
       ELSE IF d \in me.old THEN [prompt[d] EXCEPT !.active = FALSE]
       ELSE prompt[d]]
  /\ commit' = [commit EXCEPT ![c].stage = "lists",
       ![c].left = {l \in Tables : Suggested[me.config][l] # {}},
       ![c].version = 0, ![c].old = {}]
  /\ UNCHANGED <<pageVars, overlap, listRows>>

\* One of the three transactions under Promise.all commits; the others' failure,
\* and the answer already given because of it, do not stop it.
InsertList(c, table) ==
  /\ table \in commit[c].left
  /\ commit' = [commit EXCEPT ![c].left = @ \ {table}]
  /\ InsertSuggestions(commit[c].agent, table, Suggested[commit[c].config][table])
  /\ UNCHANGED <<pageVars, prompt, overlap>>

\* Mutant: Promise.allSettled(), its results not looked at.
ListFailsSilently(c, table) ==
  /\ table \in commit[c].left
  /\ commit' = [commit EXCEPT ![c].left = @ \ {table}]
  /\ UNCHANGED <<pageVars, prompt, overlap, listRows>>

ListFails(c, table) ==
  /\ table \in commit[c].left
  /\ commit' = [commit EXCEPT ![c].left = @ \ {table}, ![c].failed = TRUE]
  /\ UNCHANGED <<pageVars, prompt, overlap, listRows>>

\* The answer: success leaves for the list of agents, and the draft stays where
\* it is, as with resetAction(); an error puts the request's own configuration
\* back into it, to be tried again.
Answer(c) == LET t == commit[c].tab IN
  /\ commit[c].stage = "lists"
  /\ commit' = [commit EXCEPT ![c].stage = "answered"]
  /\ \/ t \in Tabs /\ Failure(c) /\ Respond(t, PageOf(commit[c].config))
     \/ t = "api" /\ Failure(c) /\ UNCHANGED pageVars
     \/ Success(c) /\ UNCHANGED pageVars
  /\ UNCHANGED <<prompt, overlap, listRows>>

\* The process dies, and with it the request.
Die(c) ==
  /\ commit[c].stage \in {"new", "begun", "reset", "lists"}
  /\ commit' = [commit EXCEPT ![c].stage = "dead", ![c].left = {}, ![c].failed = FALSE,
                              ![c].version = 0, ![c].old = {}]
  /\ UNCHANGED <<pageVars, prompt, overlap, listRows>>

------------------------------------------------------------------------------
CommitStep(c) ==
  \/ ReadVersion(c) \/ Deactivate(c) \/ CommitPrompt(c) \/ Answer(c)
  \/ \E l \in Tables : InsertList(c, l)

BuilderNext ==
  \/ \E t \in Tabs : Open(t) \/ ResetDraft(t) \/ GatewayFails(t) \/ GatewayReturns(t)
  \/ ExpireDraft
  \/ \E t \in Tabs, c \in Commits : Confirm(t, c)
  \/ \E c \in Commits, g \in Configs, a \in Owners : PostCommit(c, g, a)
  \/ \E c \in Commits : CommitStep(c) \/ Refuse(c) \/ Die(c)
  \/ \E c \in Commits, l \in Tables : ListFails(c, l)
  \/ \E o \in {NoAgent, OldAgent}, l \in TemplateTables :
       /\ InstantiateTemplate(o, l)
       /\ UNCHANGED <<pageVars, commit, prompt, overlap>>

BuilderSpec == BuilderInit /\ [][BuilderNext]_builderVars
------------------------------------------------------------------------------
(* Properties.                                                             *)

\* commit.ts: "Only one active config per agent at a time".  Two active prompts
\* of one agent, or two with the same version, come only from transactions that
\* overlapped; one after the other, each commit supersedes all before it.
VersionsBranchOnlyByOverlap == \A c, d \in Commits :
  /\ c # d
  /\ prompt[c].version > 0 /\ prompt[d].version > 0 /\ prompt[c].agent = prompt[d].agent
  /\ prompt[c].version = prompt[d].version \/ (prompt[c].active /\ prompt[d].active)
  => <<c, d>> \in overlap

\* Nobody is told that an agent was created while part of its lists is missing;
\* and however commits and templates overlap, its lists hold each key once.  (The
\* organization's default lists do not: pipeline.ts:45 calls an instantiation
\* idempotent, but a NULL agent_id never conflicts.)
SuccessMeansConfigured ==
  \A c \in Commits : commit[c].stage = "answered" /\ ~commit[c].failed =>
    /\ prompt[c].version > 0
    /\ \A l \in Tables : \A k \in Suggested[commit[c].config][l] :
         listRows[<<commit[c].agent, l, k>>] = 1

\* docs/PROMPT_TO_AGENT_BUILDER.md: a configuration is "always presented for
\* tenant review before going live", and actions.ts: nothing is written until the
\* tenant confirms.  A prompt that the page made live is one that the confirming
\* tab itself has shown, whatever the other tabs, late answers and the surviving
\* draft have made of the cookie since; and no prompt was ever one that still
\* needed review or clarification.
NothingLiveUnreviewed == \A c \in Commits : prompt[c].version > 0 =>
  /\ Verdict[commit[c].config] = "complete"
  /\ commit[c].tab \in Tabs => commit[c].config \in shown[commit[c].tab]
==============================================================================
