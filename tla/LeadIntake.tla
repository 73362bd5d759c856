------------------------------ MODULE LeadIntake -------------------------------
(***************************************************************************)
(* How leads come in and are called at once: sitesnsign.com's deliveries,  *)
(* website forms and CRM events through n8n, and the call button           *)
(* (api/webhooks/sitesnsign/lead-intake, api/webhooks/n8n/lead-intake,     *)
(* api/webhooks/n8n/crm-lead-call, api/calls), with the authentication of  *)
(* the webhooks (lib/webhooks) in front.                                   *)
(*                                                                         *)
(* One organization and one telephone number: leads differ in the request  *)
(* that created them.  A delivery may be repeated while it is processed.   *)
(* The dial itself, between gate and provider, is CampaignDialer's.        *)
(***************************************************************************)
EXTENDS RateLimiter

CONSTANTS Senders,   \* the callers that send to these routes
          Refs,      \* sitesnsign.com's externalLeadId
          PriorLead, \* a lead that was imported before
          NoLead, MaxRotations

ASSUME IntakeBucketsAssumption == {"sitesnsign", "n8n"} \subseteq Buckets
ASSUME RefsAssumption == Refs # {}
ASSUME PriorLeadAssumption == Senders \subseteq Callers /\ PriorLead \notin Senders /\ NoLead \notin Senders \union {PriorLead}

VARIABLES request,  \* each request
          leads,    \* leads that exist: named by the request that created them
          optedOut, \* those whose lead_compliance row says opted_out
          dials,    \* calls the provider placed, by lead
          token     \* the organization's n8n token, a new one at each rotation

intakeVars == <<request, leads, optedOut, dials, token, hits, counting>>

------------------------------------------------------------------------------
Kinds == {"sitesnsign", "form", "crm", "user"}
LeadIds == Senders \union {PriorLead}
Outcomes == {"none", "unauthorized", "invalid", "existing", "created", "placed",
             "blocked", "noBalance", "noProvider", "failed"}
IntakeStages == {"none", "new", "counted", "looking", "creating", "inserting",
                 "calling", "dialed", "answered", "dead"}

Request == [stage : IntakeStages, kind : Kinds, ref : Refs, token : Nat, call : BOOLEAN,
            lead : LeadIds \union {NoLead}, revoked : BOOLEAN, outcome : Outcomes,
            leadsThen : SUBSET LeadIds, optedThen : BOOLEAN]

IntakeTypeOK ==
  /\ LimiterTypeOK
  /\ request \in [Senders -> Request]
  /\ leads \subseteq LeadIds
  /\ optedOut \subseteq leads
  /\ dials \in [LeadIds -> Nat]
  /\ token \in Nat

IntakeInit ==
  /\ LimiterInit
  /\ request \in [Senders -> [stage : {"none"}, kind : {"form"}, ref : {CHOOSE x \in Refs : TRUE},
       token : {0}, call : {FALSE}, lead : {NoLead}, revoked : {FALSE}, outcome : {"none"},
       leadsThen : {{}}, optedThen : {FALSE}]]
  /\ leads = {PriorLead}
  /\ optedOut = {}
  /\ dials = [l \in LeadIds |-> 0]
  /\ token = 0

------------------------------------------------------------------------------
dataVars == <<leads, optedOut, dials, token>>
limiterVars == <<hits, counting>>

Step(r, from, to) == request[r].stage = from /\ request' = [request EXCEPT ![r].stage = to]

Answers(r, from, outcome) ==
  /\ request[r].stage = from
  /\ request' = [request EXCEPT ![r].stage = "answered", ![r].outcome = outcome]

\* A request arrives, with the token its sender holds now; calls of an existing
\* lead name it.
Receive(r, kind, ref, call, lead) ==
  /\ request[r].stage = "none"
  /\ lead \in IF kind \in {"crm", "user"} THEN leads ELSE {NoLead}
  /\ kind \in {"crm", "user"} => call
  /\ request' = [request EXCEPT ![r] = [stage |-> "new", kind |-> kind, ref |-> ref,
       token |-> token, call |-> call, lead |-> lead, revoked |-> FALSE, outcome |-> "none",
       leadsThen |-> leads, optedThen |-> optedOut # {}]]
  /\ UNCHANGED <<dataVars, limiterVars>>

\* POST /api/calls: a session, no bucket.
EnterBySession(r) ==
  /\ request[r].kind = "user"
  /\ Step(r, "new", "calling")
  /\ UNCHANGED <<dataVars, limiterVars>>

Bucket(r) == IF request[r].kind = "sitesnsign" THEN "sitesnsign" ELSE "n8n"

\* resolve_org_by_n8n_token(): the row holds the hash of the last token alone.
TokenKnown(r) == request[r].kind = "sitesnsign" \/ request[r].token = token

\* Every failure is a 401, the limiter's as well; so is a missing session.
Unauthorized(r) ==
  /\ request[r].kind = "user" \/ ~TokenKnown(r) \/ OverLimit(Bucket(r))
  /\ Answers(r, "new", "unauthorized")
  /\ UNCHANGED <<dataVars, limiterVars>>

Authenticate(r) ==
  /\ request[r].kind # "user"
  /\ TokenKnown(r)
  /\ CountHits(r, Bucket(r))
  /\ Step(r, "new", "counted")
  /\ UNCHANGED dataVars

Admit(r) ==
  /\ RecordHit(r)
  /\ Step(r, "counted", CASE request[r].kind = "sitesnsign" -> "looking"
                          [] request[r].kind = "form" -> "inserting"
                          [] request[r].kind = "crm" -> "calling")
  /\ UNCHANGED dataVars

\* A body that does not parse: it has counted as a hit.
Invalid(r) ==
  /\ \/ request[r].kind = "user" /\ Answers(r, "new", "invalid") /\ UNCHANGED limiterVars
     \/ RecordHit(r) /\ Answers(r, "counted", "invalid")
  /\ UNCHANGED dataVars

\* rotateN8nWebhookToken().
Rotate ==
  /\ token < MaxRotations
  /\ token' = token + 1
  /\ UNCHANGED <<request, leads, optedOut, dials, limiterVars>>

------------------------------------------------------------------------------
(* The sitesnsign transaction reads twice and inserts twice, without locks. *)

LeadsOf(ref) == {l \in leads \ {PriorLead} : request[l].kind = "sitesnsign" /\ request[l].ref = ref}

\* Mutant: the lookup compares the leads' telephone numbers with nothing.
FindNothing(r) ==
  /\ Step(r, "looking", "creating")
  /\ UNCHANGED <<dataVars, limiterVars>>

FindLead(r) ==
  /\ IF LeadsOf(request[r].ref) # {} THEN Answers(r, "looking", "existing")
                                     ELSE Step(r, "looking", "creating")
  /\ UNCHANGED <<dataVars, limiterVars>>

\* SELECT bool_or(opted_out) over the leads with this number.
ReadOptOut(r) ==
  /\ request[r].stage = "creating"
  /\ request' = [request EXCEPT ![r].stage = "inserting", ![r].revoked = optedOut # {}]
  /\ UNCHANGED <<dataVars, limiterVars>>

\* Both INSERTs and COMMIT: a form's lead always has consent 'granted'.
CommitLead(r) ==
  /\ request[r].stage = "inserting"
  /\ leads' = leads \union {r}
  /\ optedOut' = IF request[r].revoked THEN optedOut \union {r} ELSE optedOut
  /\ request' = [request EXCEPT ![r].lead = r,
       ![r].stage = IF request[r].call THEN "calling" ELSE "answered",
       ![r].outcome = IF request[r].call THEN "none" ELSE "created"]
  /\ UNCHANGED <<dials, token, limiterVars>>

\* A classified conversation, or the tenant, records an opt-out.
OptOut(l) ==
  /\ l \in leads
  /\ optedOut' = optedOut \union {l}
  /\ UNCHANGED <<request, leads, dials, token, limiterVars>>

------------------------------------------------------------------------------
(* createOutboundCall() as the routes see it.                              *)

\* Mutant: any error of the call is reported as a created lead.
OutcomeSwallowed(outcome) == IF outcome \in {"noBalance", "failed"} THEN "created" ELSE outcome

\* What a route answers: see Status.
OutcomeOf(outcome) == outcome

\* The gates: ComplianceBlockedError (an opt-out, or the hour, the list, an
\* expired consent), ZeroBalanceBlockedError; then ProviderNotConfiguredError,
\* or any other error.
Refused(r) ==
  /\ \E o \in {"blocked", "noBalance", "noProvider", "failed"} :
       /\ request[r].lead \in optedOut => o = "blocked"
       /\ Answers(r, "calling", OutcomeOf(o))
  /\ UNCHANGED <<dataVars, limiterVars>>

Dial(r) ==
  /\ request[r].lead \notin optedOut
  /\ Step(r, "calling", "dialed")
  /\ dials' = [dials EXCEPT ![request[r].lead] = @ + 1]
  /\ UNCHANGED <<leads, optedOut, token, limiterVars>>

\* The INSERT of the call, which may fail after the dial.
RecordCall(r) ==
  /\ \E o \in {"placed", "failed"} : Answers(r, "dialed", OutcomeOf(o))
  /\ UNCHANGED <<dataVars, limiterVars>>

IntakeDies(r) ==
  /\ request[r].stage \notin {"none", "answered", "dead"}
  /\ Step(r, request[r].stage, "dead")
  /\ AbandonHit(r)
  /\ UNCHANGED dataVars

\* The HTTP status.  Of the callers only POST /api/calls knows every refusal;
\* the intakes report two as a lead that was created but not called.
Status(r) == LET o == request[r].outcome  k == request[r].kind IN
  CASE o = "unauthorized" -> 401
    [] o = "invalid" -> 400
    [] o = "existing" -> 200
    [] o \in {"created", "placed"} -> 201
    [] o = "blocked" -> IF k \in {"sitesnsign", "form"} THEN 201 ELSE 403
    [] o = "noProvider" -> IF k \in {"sitesnsign", "form"} THEN 201 ELSE 422
    [] o = "noBalance" -> IF k = "user" THEN 402 ELSE 500
    [] o = "failed" -> IF k = "user" THEN 502 ELSE 500
    [] o = "none" -> 0

IntakeStep(r) ==
  \/ EnterBySession(r) \/ Unauthorized(r) \/ Authenticate(r) \/ Admit(r) \/ Invalid(r)
  \/ FindLead(r) \/ ReadOptOut(r) \/ CommitLead(r)
  \/ Refused(r) \/ Dial(r) \/ RecordCall(r)

IntakeNext ==
  \/ \E r \in Senders, k \in Kinds, x \in Refs, call \in BOOLEAN, l \in leads \union {NoLead} :
       Receive(r, k, x, call, l)
  \/ \E r \in Senders : IntakeStep(r) \/ IntakeDies(r)
  \/ \E l \in LeadIds : OptOut(l)
  \/ \E b \in Buckets : HitExpires(b) /\ UNCHANGED <<request, dataVars>>
  \/ Rotate

IntakeSpec == IntakeInit /\ [][IntakeNext]_intakeVars
------------------------------------------------------------------------------
(* Properties.                                                             *)

\* sitesnsign lead-intake: "a retried delivery of the same sitesnsign.com lead
\* must not create a second leads row or place a second call".  It creates one
\* only while the first is still being processed, and each row is dialed once by
\* its own request.  An opt-out recorded before a delivery arrives is never
\* overridden by it, whichever lead of that number it is recorded on (a form's
\* lead has no such protection).
RetriesAndOptOutsHonoured ==
  /\ \A x \in Refs : \A l, m \in LeadsOf(x) : l # m => l \notin request[m].leadsThen
  /\ \A l \in leads \ {PriorLead} :
       /\ dials[l] <= Cardinality({r \in Senders : request[r].lead = l /\ request[r].call})
       /\ request[l].kind = "sitesnsign" /\ request[l].optedThen => dials[l] = 0

\* A sender of a lead to be called that is told 2xx, and so never repeats it, has
\* had it called, or some request for it was told that it is blocked, or failed
\* after the lead was stored: the retry finds the row and calls nobody.
UncalledLeadHasCause == \A r \in Senders :
  LET x == request[r].ref
      same == {q \in Senders : request[q].kind = "sitesnsign" /\ request[q].ref = x} IN
  /\ request[r].kind = "sitesnsign" /\ request[r].call /\ Status(r) \in {200, 201}
  /\ \A l \in LeadsOf(x) : dials[l] = 0
  => \E q \in same : \/ request[q].outcome \in {"blocked", "noProvider"}
                     \/ Status(q) = 500
                     \/ request[q].stage \in {"calling", "dead"}
                     \/ request[q].stage = "answered" /\ ~request[q].call
==============================================================================
