-------------------------------- MODULE Accounts --------------------------------
(***************************************************************************)
(* Accounts, sessions and the reseller's settings: signup, login and       *)
(* logout (app/(auth)/actions.ts over lib/auth.ts and                      *)
(* db/migrations/006_auth_functions.sql), behind the rate limiter, and the *)
(* actions of app/dashboard/reseller/actions.ts behind the session's role. *)
(*                                                                         *)
(* A browser is a caller with its cookie.  An email has at most one user,  *)
(* the owner of an organization of its own; later the platform may promote *)
(* the organization and an administrator change the member's role.         *)
(***************************************************************************)
EXTENDS RateLimiter

CONSTANTS Emails, NoEmail

\* The buckets of an email, and of the browsers' one address.
ASSUME EmailsAssumption ==
  /\ Emails \union {"signupIp", "loginIp"} \subseteq Buckets
  /\ NoEmail \notin Emails

VARIABLES visit,    \* what each browser is doing
          cookie,   \* its session cookie
          member,   \* users with their organization's org_role, by email
          orgs,     \* organizations created for an email
          saved     \* the reseller's settings that are configured

accountVars == <<visit, cookie, member, orgs, saved, hits, counting>>

------------------------------------------------------------------------------
\* ROLE_RANK.  The branding is a setting like the rate.
Ranks == 0 .. 3
AgentManager == 1
Admin == 2
Owner == 3

Settings == {"rate", "share"}
VisitKinds == {"signup", "login", "logout"} \union Settings

\* over: nothing was asked, or it was answered in whatever way but one; saved: a
\* setting was changed.
VisitAnswers == {"over", "saved"}

\* entitled is history: at some time of the visit its session allowed the change.
Visit == [at : {"idle", "new", "counted", "half", "countedIp", "admitted", "known", "allowed"},
          kind : VisitKinds, email : Emails \union {NoEmail},
          entitled : BOOLEAN, answer : VisitAnswers]

AccountsTypeOK ==
  /\ visit \in [Callers -> Visit]
  \* NoEmail: no session; rank is history, the member's when the session was
  \* issued (the row holds ids alone)
  /\ cookie \in [Callers -> [email : Emails \union {NoEmail}, rank : Ranks]]
  /\ member \in [Emails -> [exists : BOOLEAN, rank : Ranks, reseller : BOOLEAN]]
  /\ orgs \in [Emails -> Nat]
  /\ saved \subseteq Settings

Idle == [at |-> "idle", kind |-> "login", email |-> NoEmail,
         entitled |-> FALSE, answer |-> "over"]
NoCookie == [email |-> NoEmail, rank |-> 0]

AccountsInit ==
  /\ LimiterInit
  /\ visit = [b \in Callers |-> Idle]
  /\ cookie = [b \in Callers |-> NoCookie]
  /\ member = [e \in Emails |-> [exists |-> FALSE, rank |-> Owner, reseller |-> FALSE]]
  /\ orgs = [e \in Emails |-> 0]
  /\ saved = {}

------------------------------------------------------------------------------
tables == <<member, orgs, saved>>

Live(b) == cookie[b].email # NoEmail

MinRank(kind) == IF kind = "share" THEN AgentManager ELSE Admin

\* What resolve_session() would allow now.
May(b, kind) ==
  /\ Live(b)
  /\ member[cookie[b].email].reseller
  /\ member[cookie[b].email].rank >= MinRank(kind)

Advance(b, from, to) == visit[b].at = from /\ visit' = [visit EXCEPT ![b].at = to]

\* The action returns, or redirects.
Ended(b, answer) ==
  [Idle EXCEPT !.answer = answer, !.entitled = answer = "saved" /\ visit[b].entitled]

Ends(b, from, answer) ==
  visit[b].at = from /\ visit' = [visit EXCEPT ![b] = Ended(b, answer)]

Start(b, kind, email) ==
  /\ visit[b].at = "idle"
  /\ kind \in {"signup", "login"} <=> email # NoEmail
  /\ visit' = [visit EXCEPT ![b] = [at |-> "new", kind |-> kind, email |-> email,
       entitled |-> kind \in Settings /\ May(b, kind), answer |-> "over"]]
  /\ UNCHANGED <<cookie, tables, hits, counting>>

FirstBucket(b) == IF visit[b].kind = "signup" THEN "signupIp" ELSE visit[b].email

\* A login is counted for its email and then for its address: the first hit
\* stays when the second is refused.
Throttle(b) ==
  /\ visit[b].kind \in {"signup", "login"}
  /\ \/ Advance(b, "new", "counted") /\ CountHits(b, FirstBucket(b))
     \/ Advance(b, "half", "countedIp") /\ CountHits(b, "loginIp")
  /\ UNCHANGED <<cookie, tables>>

TooMany(b) ==
  /\ visit[b].kind \in {"signup", "login"}
  /\ \/ Ends(b, "new", "over") /\ OverLimit(FirstBucket(b))
     \/ Ends(b, "half", "over") /\ OverLimit("loginIp")
  /\ UNCHANGED <<cookie, tables, hits, counting>>

Throttled(b) ==
  /\ RecordHit(b)
  /\ \/ Advance(b, "counted", IF visit[b].kind = "signup" THEN "admitted" ELSE "half")
     \/ Advance(b, "countedIp", "admitted")
  /\ UNCHANGED <<cookie, tables>>

\* Mutant: signup_organization() keeps the organization when the user's INSERT fails.
SignupInTwo(b) == LET e == visit[b].email IN
  /\ visit[b].kind = "signup"
  /\ \/ Ends(b, "admitted", "over") /\ UNCHANGED member
     \/ /\ ~member[e].exists
        /\ visit[b].at = "admitted"
        /\ visit' = [visit EXCEPT ![b].at = "known"]
        /\ member' = [member EXCEPT ![e].exists = TRUE]
  /\ orgs' = [orgs EXCEPT ![e] = @ + 1]
  /\ UNCHANGED <<cookie, saved, hits, counting>>

\* signup_organization(): both rows, or a duplicate key and none.  A slug that is
\* taken is a duplicate key as well.
Signup(b) == LET e == visit[b].email IN
  /\ visit[b].kind = "signup"
  /\ \/ Ends(b, "admitted", "over") /\ UNCHANGED <<member, orgs>>
     \/ /\ ~member[e].exists
        /\ visit[b].at = "admitted"
        /\ visit' = [visit EXCEPT ![b].at = "known"]
        /\ member' = [member EXCEPT ![e].exists = TRUE]
        /\ orgs' = [orgs EXCEPT ![e] = @ + 1]
  /\ UNCHANGED <<cookie, saved, hits, counting>>

\* The password matches, or not.
Login(b) ==
  /\ visit[b].kind = "login" /\ visit[b].at = "admitted"
  /\ \/ member[visit[b].email].exists /\ Advance(b, "admitted", "known")
     \/ Ends(b, "admitted", "over")
  /\ UNCHANGED <<cookie, tables, hits, counting>>

\* createSessionCookie(); the audit row that follows may be missing.
CreateSession(b) ==
  /\ Ends(b, "known", "over")
  /\ cookie' = [cookie EXCEPT ![b] = [email |-> visit[b].email,
                                      rank |-> member[visit[b].email].rank]]
  /\ UNCHANGED <<tables, hits, counting>>

\* Any statement before that fails: "Signup failed.", or the action throws.
AuthFails(b) ==
  /\ visit[b].at \in {"new", "half", "counted", "countedIp", "admitted", "known"}
  /\ visit[b].kind \in {"signup", "login"}
  /\ Ends(b, visit[b].at, "over")
  /\ AbandonHit(b)
  /\ UNCHANGED <<cookie, tables>>

\* logoutAction(); when the DELETE fails, the cookie stays.
Logout(b) ==
  /\ visit[b].kind = "logout"
  /\ Ends(b, "new", "over")
  /\ cookie' = [cookie EXCEPT ![b] = NoCookie] \/ UNCHANGED cookie
  /\ UNCHANGED <<tables, hits, counting>>

------------------------------------------------------------------------------
(* The reseller's settings.                                                *)

\* Mutant: the role is the one of the login.
ResolveSessionCached(b, kind) ==
  /\ Live(b)
  /\ member[cookie[b].email].reseller
  /\ cookie[b].rank >= MinRank(kind)

\* getSession() and requireRole(): resolve_session() joins the users row.
ResolveSession(b, kind) == May(b, kind)

\* A refusal is an error or, without a session, a redirect.
ReadSession(b) ==
  /\ visit[b].kind \in Settings
  /\ IF ResolveSession(b, visit[b].kind) THEN Advance(b, "new", "allowed")
     ELSE Ends(b, "new", "over")
  /\ UNCHANGED <<cookie, tables, hits, counting>>

\* A share needs the rates.  The others' audit rows commit with them.
SaveSetting(b) == LET k == visit[b].kind IN
  /\ k = "share" => "rate" \in saved
  /\ Ends(b, "allowed", "saved")
  /\ saved' = saved \union {k}
  /\ UNCHANGED <<cookie, member, orgs, hits, counting>>

\* missing_rates, a subdomain that is taken, any error: rolled back.
SettingFails(b) ==
  /\ Ends(b, "allowed", "over")
  /\ UNCHANGED <<cookie, tables, hits, counting>>

------------------------------------------------------------------------------
Remember(mem) == [b \in Callers |-> [visit[b] EXCEPT !.entitled = @ \/
  /\ visit[b].at # "idle" /\ visit[b].kind \in Settings
  /\ Live(b) /\ mem[cookie[b].email].reseller
  /\ mem[cookie[b].email].rank >= MinRank(visit[b].kind)]]

\* promote_org_role(), or another role for the member.
ChangeMember(e) ==
  /\ member[e].exists
  /\ \E n \in {AgentManager, Owner}, x \in BOOLEAN :
       LET mem == [member EXCEPT ![e].rank = n, ![e].reseller = x] IN
       member' = mem /\ visit' = Remember(mem)
  /\ UNCHANGED <<cookie, orgs, saved, hits, counting>>

\* Thirty days are over, or the session ended elsewhere.
SessionEnds(b) ==
  /\ Live(b)
  /\ cookie' = [cookie EXCEPT ![b] = NoCookie]
  /\ UNCHANGED <<visit, tables, hits, counting>>

AccountsStep(b) ==
  \/ Throttle(b) \/ TooMany(b) \/ Throttled(b) \/ Signup(b) \/ Login(b) \/ CreateSession(b)
  \/ AuthFails(b) \/ Logout(b) \/ ReadSession(b) \/ SaveSetting(b) \/ SettingFails(b)
  \/ SessionEnds(b)

AccountsNext ==
  \/ \E b \in Callers, k \in VisitKinds, e \in Emails \union {NoEmail} : Start(b, k, e)
  \/ \E b \in Callers : AccountsStep(b)
  \/ \E e \in Emails : ChangeMember(e)
  \/ \E b \in Buckets : HitExpires(b) /\ UNCHANGED <<visit, cookie, tables>>

AccountsSpec == AccountsInit /\ [][AccountsNext]_accountVars
------------------------------------------------------------------------------
(* Properties.                                                             *)

\* 006_auth_functions.sql: "atomically creates an org + its first (owner) user".
\* However signups of one email race and fail, it has one organization if it has
\* a user and none otherwise; and every session belongs to a user.
SignupsAreWhole ==
  /\ \A e \in Emails : orgs[e] = IF member[e].exists THEN 1 ELSE 0
  /\ \A b \in Callers :
       /\ visit[b].at = "known" => member[visit[b].email].exists
       /\ Live(b) => member[cookie[b].email].exists

\* auth.ts: "every subsequent request re-derives it fresh from the DB".  A setting
\* is changed only by a member who was entitled to it at some time of that very
\* request, whatever the role was when the session was issued.
RolesAreRead == \A b \in Callers : visit[b].answer = "saved" => visit[b].entitled
==============================================================================
