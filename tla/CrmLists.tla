------------------------------- MODULE CrmLists --------------------------------
(***************************************************************************)
(* The lists a tenant's CRM is made of: pipeline_stages, dispositions and  *)
(* lead_scoring_criteria, as lib/crm/pipeline.ts, dispositions.ts and      *)
(* scoring.ts insert them, from a platform template or from the agent      *)
(* builder's suggestions.  Each call is one transaction of its own.        *)
(***************************************************************************)
EXTENDS Naturals

CONSTANTS Agents,   \* agent ids
          NoAgent,  \* agent_id IS NULL: the organization's default list
          Keys,     \* stage, disposition and criterion keys
          Template, \* [TemplateTables -> SUBSET Keys]: the platform's templates
          MaxCopies \* bound on the copies of a row in the default lists

Tables == {"stages", "dispositions", "criteria"}
TemplateTables == {"stages", "dispositions"}
Owners == Agents \union {NoAgent}
ListEntries == Owners \X Tables \X Keys

ASSUME NoAgentAssumption == NoAgent \notin Agents
ASSUME TemplateAssumption == Template \in [TemplateTables -> SUBSET Keys]

VARIABLE listRows  \* rows of the three tables, by owner, table and key

ListTypeOK == listRows \in [ListEntries -> Nat]

ListInit == listRows = [x \in ListEntries |-> 0]

\* insertStages() and its two siblings: ON CONFLICT (org_id, agent_id, key) DO
\* NOTHING.  A NULL agent_id never conflicts: NULLs are distinct in an index.
Inserted(owner, table, keys) == [x \in ListEntries |->
  IF x[1] = owner /\ x[2] = table /\ x[3] \in keys
    THEN IF owner = NoAgent THEN listRows[x] + 1 ELSE 1
    ELSE listRows[x]]

\* instantiatePipelineTemplate(), instantiateDispositionTemplate(): a template
\* without keys is one that does not exist.
InstantiateTemplate(owner, table) ==
  /\ Template[table] # {}
  /\ \A k \in Template[table] : listRows[<<owner, table, k>>] < MaxCopies
  /\ listRows' = Inserted(owner, table, Template[table])

\* instantiateStagesFromSuggestions() and its two siblings, for one agent.
InsertSuggestions(agent, table, keys) == listRows' = Inserted(agent, table, keys)
==============================================================================
