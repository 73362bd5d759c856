------------------------------ MODULE AccessProofs -----------------------------
(****************************************************************************)
(* Theorems about the rate limiter and its two users, Accounts and         *)
(* LeadIntake, for every set of callers, emails and requests and every limit.*)
(****************************************************************************)
EXTENDS LeadIntake, Accounts, FiniteSetTheorems, TLAPS

------------------------------------------------------------------------------
(* The rate limiter.                                                       *)

LimiterInv == LimiterTypeOK /\ RateOvershoot

\* The rate limiter's operations keep its types and its bound.
LEMMA LimiterKeeps ==
  ASSUME LimiterInv, NEW b \in Callers, NEW k \in Buckets,
         CountHits(b, k) \/ RecordHit(b) \/ AbandonHit(b) \/ HitExpires(k)
  PROVE  LimiterInv'
<1> USE CallersAssumption, NoBucketAssumption, LimitAssumption
<1>1. LimiterTypeOK'
  <2>1. CASE CountHits(b, k)
    BY <2>1 DEF CountHits, LimiterInv, LimiterTypeOK
  <2>2. CASE RecordHit(b)
    BY <2>2 DEF RecordHit, LimiterInv, LimiterTypeOK
  <2>3. CASE AbandonHit(b)
    BY <2>3 DEF AbandonHit, LimiterInv, LimiterTypeOK
  <2>4. CASE HitExpires(k)
    BY <2>4 DEF HitExpires, LimiterInv, LimiterTypeOK
  <2> QED BY <2>1, <2>2, <2>3, <2>4
<1>2. SUFFICES ASSUME NEW x \in Buckets
               PROVE  (hits[x] + Cardinality(Undecided(x)) <= Limit[x] + Cardinality(Callers) - 1)'
  BY <1>1 DEF LimiterInv, RateOvershoot
<1> DEFINE U == Undecided(x)
<1>3. /\ U \subseteq Callers /\ U' \subseteq Callers
      /\ IsFiniteSet(U) /\ Cardinality(U) \in Nat /\ Cardinality(U) <= Cardinality(Callers)
      /\ IsFiniteSet(U') /\ Cardinality(U') \in Nat /\ Cardinality(U') <= Cardinality(Callers)
      /\ Cardinality(Callers) \in Nat
  BY FS_Subset, FS_CardinalityType DEF Undecided
<1>4. /\ hits[x] \in Nat /\ hits'[x] \in Nat /\ Limit[x] \in Nat \ {0}
      /\ hits[x] + Cardinality(U) <= Limit[x] + Cardinality(Callers) - 1
  BY <1>1 DEF LimiterInv, LimiterTypeOK, RateOvershoot
<1>5. U' \subseteq U => Cardinality(U') <= Cardinality(U)
  BY <1>3, FS_Subset
<1>6. CASE CountHits(b, k)
  <2>1. CASE x = k
    BY <1>3, <1>4, <1>6, <2>1 DEF CountHits, OverLimit, LimiterInv, LimiterTypeOK
  <2>2. CASE x # k
    <3>1. U' \subseteq U
      BY <1>6, <2>2 DEF CountHits, Undecided, LimiterInv, LimiterTypeOK
    <3> QED BY <1>3, <1>4, <1>5, <1>6, <3>1 DEF CountHits
  <2> QED BY <2>1, <2>2
<1>7. CASE RecordHit(b)
  <2>1. U' \subseteq U
    BY <1>7 DEF RecordHit, Undecided, LimiterInv, LimiterTypeOK
  <2>2. CASE counting[b] = x
    <3>1. b \in U /\ U' = U \ {b} /\ hits'[x] = hits[x] + 1
      BY <1>7, <2>2 DEF RecordHit, Undecided, LimiterInv, LimiterTypeOK
    <3>2. Cardinality(U') = Cardinality(U) - 1
      BY <1>3, <3>1, FS_RemoveElement
    <3> QED BY <1>3, <1>4, <3>1, <3>2
  <2>3. CASE counting[b] # x
    <3>1. hits'[x] = hits[x]
      BY <1>7, <2>3 DEF RecordHit, LimiterInv, LimiterTypeOK
    <3> QED BY <1>3, <1>4, <1>5, <2>1, <3>1
  <2> QED BY <2>2, <2>3
<1>8. CASE AbandonHit(b)
  <2>1. U' \subseteq U
    BY <1>8 DEF AbandonHit, Undecided, LimiterInv, LimiterTypeOK
  <2> QED BY <1>3, <1>4, <1>5, <1>8, <2>1 DEF AbandonHit
<1>9. CASE HitExpires(k)
  <2>1. U' = U /\ hits'[x] <= hits[x]
    BY <1>9 DEF HitExpires, Undecided, LimiterInv, LimiterTypeOK
  <2> QED BY <1>3, <1>4, <2>1
<1> QED BY <1>6, <1>7, <1>8, <1>9

LEMMA LimiterStays ==
  ASSUME LimiterInv, UNCHANGED <<hits, counting>>
  PROVE  LimiterInv'
BY DEF LimiterInv, LimiterTypeOK, RateOvershoot, Undecided

LEMMA LimiterInitial == LimiterInit => LimiterInv
<1> SUFFICES ASSUME LimiterInit PROVE LimiterInv
  OBVIOUS
<1> USE CallersAssumption, NoBucketAssumption, LimitAssumption
<1>1. LimiterTypeOK
  BY DEF LimiterInit, LimiterTypeOK
<1>2. \A b \in Buckets : Undecided(b) = {}
  BY DEF LimiterInit, Undecided
<1>3. Cardinality(Callers) \in Nat \ {0}
  BY FS_CardinalityType, FS_EmptySet
<1>4. Cardinality({}) = 0
  BY FS_EmptySet
<1>5. RateOvershoot
  <2> SUFFICES ASSUME NEW b \in Buckets
               PROVE  hits[b] + Cardinality(Undecided(b)) <= Limit[b] + Cardinality(Callers) - 1
    BY DEF RateOvershoot
  <2>1. hits[b] = 0 /\ Cardinality(Undecided(b)) = 0 /\ Limit[b] \in Nat \ {0}
    BY <1>2, <1>4 DEF LimiterInit
  <2> QED BY <1>3, <2>1
<1> QED BY <1>1, <1>5 DEF LimiterInv

------------------------------------------------------------------------------
(* Sign-up, login, sessions and roles.                                     *)

AccountTypes == LimiterInv /\ AccountsTypeOK

\* Only a visit for an email can be past the password or the sign-up.
KnownInv == \A b \in Callers :
  visit[b].at = "known" => visit[b].email \in Emails /\ member[visit[b].email].exists

\* The kinds of visit that stop for the email, and those for a setting.
KindInv == \A b \in Callers :
  /\ visit[b].at # "idle" /\ visit[b].kind \in {"signup", "login"} => visit[b].email \in Emails
  /\ visit[b].at = "allowed" => visit[b].kind \in Settings

\* What the session allows now, it has allowed in this visit.
EntitledInv == \A b \in Callers :
  /\ visit[b].at # "idle" /\ visit[b].kind \in Settings /\ May(b, visit[b].kind)
       => visit[b].entitled
  /\ visit[b].at = "allowed" => visit[b].entitled

AccountsInv == AccountTypes /\ KindInv /\ KnownInv /\ EntitledInv /\ SignupsAreWhole /\ RolesAreRead

LEMMA EndedVisit ==
  ASSUME AccountsTypeOK, NEW b \in Callers, NEW answer \in VisitAnswers
  PROVE  /\ Ended(b, answer) \in Visit
         /\ Ended(b, answer).at = "idle" /\ Ended(b, answer).answer = answer
         /\ answer = "saved" /\ visit[b].entitled => Ended(b, answer).entitled
BY DEF Ended, Idle, Visit, VisitKinds, AccountsTypeOK

\* A visit that ends, whatever it did to the browser's own cookie.
LEMMA EndKeeps ==
  ASSUME AccountsInv, NEW b \in Callers, NEW answer \in VisitAnswers,
         answer = "saved" => visit[b].entitled,
         visit' = [visit EXCEPT ![b] = Ended(b, answer)],
         member' = member, orgs' = orgs,
         \A c \in Callers \ {b} : cookie'[c] = cookie[c],
         cookie'[b].email # NoEmail => member[cookie'[b].email].exists,
         AccountsTypeOK', LimiterInv'
  PROVE  AccountsInv'
<1>1. visit'[b] = Ended(b, answer) /\ \A c \in Callers \ {b} : visit'[c] = visit[c]
  BY DEF AccountsInv, AccountTypes, AccountsTypeOK
<1>2. /\ visit'[b].at = "idle" /\ visit'[b].answer = answer
      /\ answer = "saved" => visit'[b].entitled
  BY <1>1, EndedVisit DEF AccountsInv, AccountTypes
<1>3. KindInv' /\ KnownInv'
  BY <1>1, <1>2 DEF AccountsInv, KindInv, KnownInv
<1>4. EntitledInv'
  BY <1>1, <1>2 DEF AccountsInv, EntitledInv, May, Live
<1>5. SignupsAreWhole'
  BY <1>1, <1>2 DEF AccountsInv, SignupsAreWhole, Live
<1>6. RolesAreRead'
  BY <1>1, <1>2 DEF AccountsInv, RolesAreRead
<1> QED BY <1>3, <1>4, <1>5, <1>6 DEF AccountsInv, AccountTypes

\* A visit that goes on to another spot, with what it needs there.
LEMMA AdvanceKeeps ==
  ASSUME AccountsInv, NEW b \in Callers, NEW from, NEW to \in {"counted", "half", "countedIp", "admitted", "known", "allowed"},
         Advance(b, from, to), visit[b].at # "idle",
         to = "known" => member[visit[b].email].exists /\ visit[b].kind \in {"signup", "login"},
         to = "allowed" => visit[b].kind \in Settings /\ May(b, visit[b].kind),
         member' = member, orgs' = orgs, cookie' = cookie, saved' = saved, LimiterInv'
  PROVE  AccountsInv'
<1>1. /\ visit'[b] = [visit[b] EXCEPT !.at = to]
      /\ \A c \in Callers \ {b} : visit'[c] = visit[c]
  BY DEF Advance, AccountsInv, AccountTypes, AccountsTypeOK
<1>2. /\ visit'[b].at = to /\ visit'[b].kind = visit[b].kind /\ visit'[b].email = visit[b].email
      /\ visit'[b].entitled = visit[b].entitled /\ visit'[b].answer = visit[b].answer
  BY <1>1 DEF AccountsInv, AccountTypes, AccountsTypeOK, Visit
<1>3. AccountsTypeOK'
  BY DEF Advance, AccountsInv, AccountTypes, AccountsTypeOK, Visit
<1>4. KindInv' /\ KnownInv'
  BY <1>1, <1>2 DEF AccountsInv, KindInv, KnownInv
<1>5. EntitledInv'
  BY <1>1, <1>2 DEF AccountsInv, EntitledInv, May, Live
<1>6. SignupsAreWhole'
  <2>1. \A c \in Callers : visit'[c].at = "known" => member[visit'[c].email].exists
    BY <1>1, <1>2 DEF AccountsInv, SignupsAreWhole
  <2> QED BY <2>1 DEF AccountsInv, SignupsAreWhole, Live
<1>7. RolesAreRead'
  BY <1>1, <1>2 DEF AccountsInv, RolesAreRead
<1> QED BY <1>3, <1>4, <1>5, <1>6, <1>7 DEF AccountsInv, AccountTypes

------------------------------------------------------------------------------
LEMMA AccountsInit_Inv == AccountsInit => AccountsInv
<1> SUFFICES ASSUME AccountsInit PROVE AccountsInv
  OBVIOUS
<1>1. \A b \in Callers : visit[b] = Idle /\ cookie[b] = NoCookie
  BY DEF AccountsInit
<1>2. Idle \in Visit /\ NoCookie \in [email : Emails \union {NoEmail}, rank : Ranks]
  BY DEF Idle, NoCookie, Visit, VisitKinds, VisitAnswers, Ranks
<1>3. AccountTypes
  BY <1>2, LimiterInitial DEF AccountsInit, AccountTypes, AccountsTypeOK, Ranks, Owner, Settings
<1>4. Idle.at = "idle" /\ Idle.answer = "over" /\ NoCookie.email = NoEmail
  BY DEF Idle, NoCookie
<1>5. KindInv /\ KnownInv /\ EntitledInv /\ RolesAreRead
  BY <1>1, <1>4 DEF KindInv, KnownInv, EntitledInv, RolesAreRead
<1>6. SignupsAreWhole
  BY <1>1, <1>4 DEF AccountsInit, SignupsAreWhole, Live
<1> QED BY <1>3, <1>5, <1>6 DEF AccountsInv

LEMMA Start_Inv ==
  ASSUME AccountsInv, NEW b \in Callers, NEW k \in VisitKinds, NEW e \in Emails \union {NoEmail},
         Start(b, k, e)
  PROVE  AccountsInv'
<1> DEFINE v == [at |-> "new", kind |-> k, email |-> e,
                 entitled |-> k \in Settings /\ May(b, k), answer |-> "over"]
<1>1. v \in Visit
  BY DEF Visit, VisitAnswers
<1>2. v.at = "new" /\ v.kind = k /\ v.email = e /\ v.entitled = (k \in Settings /\ May(b, k))
      /\ v.answer = "over"
  OBVIOUS
<1>3. visit' = [visit EXCEPT ![b] = v]
  BY DEF Start
<1> HIDE DEF v
<1>4. visit'[b] = v /\ \A c \in Callers \ {b} : visit'[c] = visit[c]
  BY <1>3 DEF AccountsInv, AccountTypes, AccountsTypeOK
<1>5. UNCHANGED <<cookie, member, orgs, saved, hits, counting>>
  BY DEF Start, tables
<1>6. AccountTypes'
  BY <1>1, <1>3, <1>5, LimiterStays DEF AccountsInv, AccountTypes, AccountsTypeOK
<1>7. KindInv' /\ KnownInv'
  BY <1>2, <1>4, <1>5 DEF Start, AccountsInv, KindInv, KnownInv
<1>8. EntitledInv'
  BY <1>2, <1>4, <1>5 DEF AccountsInv, EntitledInv, May, Live
<1>9. SignupsAreWhole'
  BY <1>2, <1>4, <1>5 DEF AccountsInv, SignupsAreWhole, Live
<1>10. RolesAreRead'
  BY <1>2, <1>4 DEF AccountsInv, RolesAreRead
<1> QED BY <1>6, <1>7, <1>8, <1>9, <1>10 DEF AccountsInv

------------------------------------------------------------------------------
LEMMA Limiter_Inv ==
  ASSUME AccountsInv, NEW b \in Callers, Throttle(b) \/ TooMany(b) \/ Throttled(b)
  PROVE  AccountsInv'
<1> USE EmailsAssumption
<1>1. /\ visit[b] \in Visit /\ LimiterInv /\ AccountsTypeOK
      /\ UNCHANGED <<cookie, member, orgs, saved>>
  BY DEF AccountsInv, AccountTypes, AccountsTypeOK, Throttle, TooMany, Throttled, tables
<1>2. FirstBucket(b) \in Buckets \/ visit[b].at = "idle" \/ visit[b].kind \notin {"signup", "login"}
  BY DEF FirstBucket, AccountsInv, KindInv
<1>3. CASE Throttle(b)
  <2>1. LimiterInv'
    BY <1>1, <1>2, <1>3, LimiterKeeps DEF Throttle, Advance
  <2>2. \E from, to \in {"new", "counted", "half", "countedIp"} :
          from # "idle" /\ to # "new" /\ Advance(b, from, to)
    BY <1>3 DEF Throttle
  <2> QED BY <1>1, <2>1, <2>2, AdvanceKeeps DEF Advance
<1>4. CASE TooMany(b)
  <2>1. /\ visit' = [visit EXCEPT ![b] = Ended(b, "over")]
        /\ UNCHANGED <<hits, counting>>
    BY <1>4 DEF TooMany, Ends, Ended
  <2>2. AccountsTypeOK'
    BY <1>1, <2>1, EndedVisit DEF AccountsTypeOK, VisitAnswers
  <2> QED BY <1>1, <2>1, <2>2, EndKeeps, LimiterStays DEF VisitAnswers, AccountsInv, SignupsAreWhole, Live
<1>5. CASE Throttled(b)
  <2>1. LimiterInv'
    BY <1>1, <1>5, LimiterKeeps, EmailsAssumption DEF Throttled
  <2>2. \E from \in {"counted", "countedIp"}, to \in {"admitted", "half"} : Advance(b, from, to)
    BY <1>5 DEF Throttled
  <2> QED BY <1>1, <2>1, <2>2, AdvanceKeeps DEF Advance
<1> QED BY <1>3, <1>4, <1>5

LEMMA Signup_Inv ==
  ASSUME AccountsInv, NEW b \in Callers, Signup(b)
  PROVE  AccountsInv'
<1> DEFINE e == visit[b].email
<1>1. /\ visit[b] \in Visit /\ LimiterInv /\ AccountsTypeOK
      /\ UNCHANGED <<cookie, saved, hits, counting>>
      /\ visit[b].kind = "signup" /\ visit[b].at = "admitted" /\ e \in Emails
  BY DEF AccountsInv, AccountTypes, AccountsTypeOK, Signup, Ends, KindInv
<1>2. LimiterInv'
  BY <1>1, LimiterStays
<1>3. CASE Ends(b, "admitted", "over") /\ UNCHANGED <<member, orgs>>
  <2>1. visit' = [visit EXCEPT ![b] = Ended(b, "over")]
    BY <1>3 DEF Ends, Ended
  <2>2. AccountsTypeOK'
    BY <1>1, <1>3, <2>1, EndedVisit DEF AccountsTypeOK, VisitAnswers
  <2> QED BY <1>1, <1>2, <1>3, <2>1, <2>2, EndKeeps DEF VisitAnswers, AccountsInv, SignupsAreWhole, Live
<1>4. CASE ~(Ends(b, "admitted", "over") /\ UNCHANGED <<member, orgs>>)
  <2>1. /\ ~member[e].exists
        /\ visit' = [visit EXCEPT ![b].at = "known"]
        /\ member' = [member EXCEPT ![e].exists = TRUE]
        /\ orgs' = [orgs EXCEPT ![e] = @ + 1]
    BY <1>4 DEF Signup
  <2>2. /\ visit'[b].at = "known" /\ visit'[b].kind = "signup" /\ visit'[b].email = e
        /\ visit'[b].entitled = visit[b].entitled /\ visit'[b].answer = visit[b].answer
        /\ \A c \in Callers \ {b} : visit'[c] = visit[c]
    BY <1>1, <2>1 DEF AccountsTypeOK, Visit
  <2>3. /\ member'[e].exists /\ orgs'[e] = orgs[e] + 1 /\ orgs[e] \in Nat
        /\ \A x \in Emails : member'[x].rank = member[x].rank /\ member'[x].reseller = member[x].reseller
        /\ \A x \in Emails \ {e} : member'[x].exists = member[x].exists /\ orgs'[x] = orgs[x]
    BY <1>1, <2>1 DEF AccountsTypeOK
  <2>4. AccountsTypeOK'
    <3>1. [visit[b] EXCEPT !.at = "known"] \in Visit
      BY <1>1 DEF Visit
    <3>2. visit' \in [Callers -> Visit]
      BY <1>1, <2>1, <3>1 DEF AccountsTypeOK
    <3>3. member' \in [Emails -> [exists : BOOLEAN, rank : Ranks, reseller : BOOLEAN]]
      BY <1>1, <2>1 DEF AccountsTypeOK
    <3>4. orgs' \in [Emails -> Nat]
      BY <1>1, <2>1 DEF AccountsTypeOK
    <3> QED BY <1>1, <3>2, <3>3, <3>4 DEF AccountsTypeOK
  <2>5. KindInv' /\ KnownInv'
    <3>1. \A c \in Callers : visit'[c].at = "known" => visit'[c].email \in Emails
      BY <1>1, <2>2 DEF AccountsInv, KnownInv
    <3> QED BY <1>1, <2>2, <2>3, <3>1 DEF AccountsInv, KindInv, KnownInv
  <2>6. EntitledInv'
    <3>1. \A c \in Callers, k \in VisitKinds : May(c, k)' => May(c, k)
      BY <1>1, <2>3, EmailsAssumption DEF May, Live, AccountsTypeOK
    <3>2. \A c \in Callers : visit[c].kind \in VisitKinds
      BY <1>1 DEF AccountsTypeOK, Visit
    <3>3. "signup" \notin Settings
      BY DEF Settings
    <3> QED BY <1>1, <2>2, <3>1, <3>2, <3>3 DEF AccountsInv, EntitledInv
  <2>7. SignupsAreWhole'
    <3>1. \A x \in Emails : orgs'[x] = IF member'[x].exists THEN 1 ELSE 0
      BY <1>1, <2>1, <2>3 DEF AccountsInv, SignupsAreWhole
    <3>2. \A c \in Callers : visit'[c].at = "known" => member'[visit'[c].email].exists
      BY <2>5 DEF KnownInv
    <3>3. \A c \in Callers : Live(c)' => member'[cookie'[c].email].exists
      BY <1>1, <2>3 DEF AccountsInv, SignupsAreWhole, Live, AccountsTypeOK
    <3> QED BY <3>1, <3>2, <3>3 DEF SignupsAreWhole
  <2>8. RolesAreRead'
    BY <2>2 DEF AccountsInv, RolesAreRead
  <2> QED BY <1>2, <2>4, <2>5, <2>6, <2>7, <2>8 DEF AccountsInv, AccountTypes
<1> QED BY <1>3, <1>4

LEMMA Session_Inv ==
  ASSUME AccountsInv, NEW b \in Callers,
         Login(b) \/ CreateSession(b) \/ AuthFails(b) \/ Logout(b) \/ SessionEnds(b)
  PROVE  AccountsInv'
<1>1. visit[b] \in Visit /\ LimiterInv /\ AccountsTypeOK
  BY DEF AccountsInv, AccountTypes, AccountsTypeOK
<1>2. \A answer \in VisitAnswers : Ends(b, visit[b].at, answer)
        => visit' = [visit EXCEPT ![b] = Ended(b, answer)] /\ Ended(b, answer) \in Visit
  BY <1>1, EndedVisit DEF Ends, Ended
<1>3. "over" \in VisitAnswers
  BY DEF VisitAnswers
<1>4. NoCookie \in [email : Emails \union {NoEmail}, rank : Ranks] /\ NoCookie.email = NoEmail
  BY DEF NoCookie, Ranks
<1>5. CASE Login(b)
  <2>1. /\ UNCHANGED <<cookie, member, orgs, saved, hits, counting>> /\ LimiterInv'
        /\ visit[b].kind = "login" /\ visit[b].at = "admitted"
    BY <1>1, <1>5, LimiterStays DEF Login, tables
  <2>2. CASE member[visit[b].email].exists /\ Advance(b, "admitted", "known")
    BY <2>1, <2>2, AdvanceKeeps
  <2>3. CASE Ends(b, "admitted", "over")
    <3>1. visit' = [visit EXCEPT ![b] = Ended(b, "over")] /\ AccountsTypeOK'
      BY <1>1, <1>2, <1>3, <2>1, <2>3 DEF AccountsTypeOK
    <3> QED BY <1>3, <2>1, <3>1, EndKeeps DEF AccountsInv, SignupsAreWhole, Live
  <2> QED BY <1>5, <2>2, <2>3 DEF Login
<1>6. CASE CreateSession(b)
  <2> DEFINE s == [email |-> visit[b].email, rank |-> member[visit[b].email].rank]
  <2>1. /\ UNCHANGED <<member, orgs, saved, hits, counting>> /\ LimiterInv'
        /\ visit[b].at = "known" /\ Ends(b, "known", "over")
        /\ cookie' = [cookie EXCEPT ![b] = s]
    BY <1>1, <1>6, LimiterStays DEF CreateSession, Ends, tables
  <2>2. visit[b].email \in Emails /\ member[visit[b].email].exists
    BY <2>1 DEF AccountsInv, KnownInv
  <2>3. s \in [email : Emails \union {NoEmail}, rank : Ranks] /\ s.email = visit[b].email
    BY <1>1, <2>2 DEF AccountsTypeOK
  <2> HIDE DEF s
  <2>4. visit' = [visit EXCEPT ![b] = Ended(b, "over")] /\ AccountsTypeOK'
    BY <1>1, <1>2, <1>3, <2>1, <2>3 DEF AccountsTypeOK
  <2>5. cookie'[b] = s /\ \A c \in Callers \ {b} : cookie'[c] = cookie[c]
    BY <1>1, <2>1 DEF AccountsTypeOK
  <2> QED BY <1>3, <2>1, <2>2, <2>3, <2>4, <2>5, EndKeeps
<1>7. CASE AuthFails(b)
  <2>1. UNCHANGED <<cookie, member, orgs, saved>> /\ LimiterInv'
        /\ Ends(b, visit[b].at, "over")
    BY <1>1, <1>7, LimiterKeeps, EmailsAssumption DEF AuthFails, tables
  <2>2. visit' = [visit EXCEPT ![b] = Ended(b, "over")] /\ AccountsTypeOK'
    BY <1>1, <1>2, <1>3, <2>1 DEF AccountsTypeOK
  <2> QED BY <1>3, <2>1, <2>2, EndKeeps DEF AccountsInv, SignupsAreWhole, Live
<1>8. CASE Logout(b)
  <2>1. /\ UNCHANGED <<member, orgs, saved, hits, counting>> /\ LimiterInv'
        /\ visit[b].at = "new"
        /\ cookie' = cookie \/ cookie' = [cookie EXCEPT ![b] = NoCookie]
    BY <1>1, <1>8, LimiterStays DEF Logout, Ends, tables
  <2>2. Ends(b, "new", "over")
    BY <1>8 DEF Logout
  <2>3. visit' = [visit EXCEPT ![b] = Ended(b, "over")] /\ AccountsTypeOK'
    BY <1>1, <1>2, <1>3, <1>4, <2>1, <2>2 DEF AccountsTypeOK
  <2>4. /\ \A c \in Callers \ {b} : cookie'[c] = cookie[c]
        /\ cookie'[b].email # NoEmail => member[cookie'[b].email].exists
    BY <1>1, <1>4, <2>1 DEF AccountsTypeOK, AccountsInv, SignupsAreWhole, Live
  <2> QED BY <1>3, <2>1, <2>3, <2>4, EndKeeps
<1>9. CASE SessionEnds(b)
  <2>1. /\ UNCHANGED <<visit, member, orgs, saved, hits, counting>> /\ LimiterInv'
        /\ cookie' = [cookie EXCEPT ![b] = NoCookie]
    BY <1>1, <1>9, LimiterStays DEF SessionEnds, tables
  <2>2. AccountsTypeOK' /\ \A c \in Callers : cookie'[c] = cookie[c] \/ cookie'[c].email = NoEmail
    BY <1>1, <1>4, <2>1 DEF AccountsTypeOK
  <2>3. KindInv' /\ KnownInv' /\ RolesAreRead'
    BY <2>1 DEF AccountsInv, KindInv, KnownInv, RolesAreRead
  <2>4. EntitledInv'
    BY <2>1, <2>2 DEF AccountsInv, EntitledInv, May, Live
  <2>5. SignupsAreWhole'
    BY <2>1, <2>2 DEF AccountsInv, SignupsAreWhole, Live
  <2> QED BY <2>1, <2>2, <2>3, <2>4, <2>5 DEF AccountsInv, AccountTypes
<1> QED BY <1>5, <1>6, <1>7, <1>8, <1>9

LEMMA Setting_Inv ==
  ASSUME AccountsInv, NEW b \in Callers, ReadSession(b) \/ SaveSetting(b) \/ SettingFails(b)
  PROVE  AccountsInv'
<1>1. visit[b] \in Visit /\ LimiterInv /\ AccountsTypeOK
  BY DEF AccountsInv, AccountTypes, AccountsTypeOK
<1>2. \A answer \in VisitAnswers : Ends(b, visit[b].at, answer)
        => visit' = [visit EXCEPT ![b] = Ended(b, answer)] /\ Ended(b, answer) \in Visit
  BY <1>1, EndedVisit DEF Ends, Ended
<1>3. "over" \in VisitAnswers /\ "saved" \in VisitAnswers
  BY DEF VisitAnswers
<1>4. UNCHANGED <<cookie, member, orgs, hits, counting>> /\ LimiterInv'
  BY <1>1, LimiterStays DEF ReadSession, SaveSetting, SettingFails, tables
<1>5. CASE ReadSession(b)
  <2>1. saved' = saved /\ visit[b].kind \in Settings /\ visit[b].at = "new"
    BY <1>5 DEF ReadSession, tables, Advance, Ends
  <2>2. CASE ResolveSession(b, visit[b].kind)
    <3>1. Advance(b, "new", "allowed") /\ May(b, visit[b].kind)
      BY <1>5, <2>2 DEF ReadSession, ResolveSession
    <3> QED BY <1>4, <2>1, <3>1, AdvanceKeeps
  <2>3. CASE ~ResolveSession(b, visit[b].kind)
    <3>1. Ends(b, "new", "over")
      BY <1>5, <2>3 DEF ReadSession
    <3>2. visit' = [visit EXCEPT ![b] = Ended(b, "over")] /\ AccountsTypeOK'
      BY <1>1, <1>2, <1>3, <1>4, <2>1, <3>1 DEF AccountsTypeOK
    <3> QED BY <1>3, <1>4, <3>2, EndKeeps DEF AccountsInv, SignupsAreWhole, Live
  <2> QED BY <2>2, <2>3
<1>6. CASE SaveSetting(b)
  <2>1. visit[b].at = "allowed" /\ Ends(b, "allowed", "saved") /\ saved' = saved \union {visit[b].kind}
    BY <1>6 DEF SaveSetting, Ends
  <2>2. visit[b].kind \in Settings /\ visit[b].entitled
    BY <2>1 DEF AccountsInv, KindInv, EntitledInv
  <2>3. visit' = [visit EXCEPT ![b] = Ended(b, "saved")] /\ AccountsTypeOK'
    BY <1>1, <1>2, <1>3, <1>4, <2>1, <2>2 DEF AccountsTypeOK
  <2> QED BY <1>3, <1>4, <2>2, <2>3, EndKeeps DEF AccountsInv, SignupsAreWhole, Live
<1>7. CASE SettingFails(b)
  <2>1. visit[b].at = "allowed" /\ Ends(b, "allowed", "over") /\ saved' = saved
    BY <1>7 DEF SettingFails, Ends, tables
  <2>2. visit' = [visit EXCEPT ![b] = Ended(b, "over")] /\ AccountsTypeOK'
    BY <1>1, <1>2, <1>3, <1>4, <2>1 DEF AccountsTypeOK
  <2> QED BY <1>3, <1>4, <2>2, EndKeeps DEF AccountsInv, SignupsAreWhole, Live
<1> QED BY <1>5, <1>6, <1>7

\* A member's role changes under every visit that is going on.
LEMMA ChangeMember_Inv ==
  ASSUME AccountsInv, NEW e \in Emails, ChangeMember(e)
  PROVE  AccountsInv'
<1>1. LimiterInv /\ LimiterInv' /\ AccountsTypeOK /\ UNCHANGED <<cookie, orgs, saved>>
  BY LimiterStays DEF AccountsInv, AccountTypes, ChangeMember
<1>2. PICK n \in {AgentManager, Owner}, x \in BOOLEAN :
        /\ member' = [member EXCEPT ![e].rank = n, ![e].reseller = x]
        /\ visit' = Remember(member')
  BY DEF ChangeMember
<1>3. n \in Ranks
  BY <1>2 DEF AgentManager, Owner, Ranks
<1>4. \A y \in Emails : member'[y].exists = member[y].exists
  BY <1>1, <1>2 DEF AccountsTypeOK
<1> DEFINE Now(b) == /\ visit[b].at # "idle" /\ visit[b].kind \in Settings
                     /\ Live(b) /\ member'[cookie[b].email].reseller
                     /\ member'[cookie[b].email].rank >= MinRank(visit[b].kind)
<1>5. \A b \in Callers : visit'[b] = [visit[b] EXCEPT !.entitled = @ \/ Now(b)]
  BY <1>2 DEF Remember
<1>6. \A b \in Callers :
        /\ visit'[b].at = visit[b].at /\ visit'[b].kind = visit[b].kind
        /\ visit'[b].email = visit[b].email /\ visit'[b].answer = visit[b].answer
        /\ visit'[b].entitled = (visit[b].entitled \/ Now(b))
  <2> HIDE DEF Now
  <2> SUFFICES ASSUME NEW b \in Callers
               PROVE /\ visit'[b].at = visit[b].at /\ visit'[b].kind = visit[b].kind
                     /\ visit'[b].email = visit[b].email /\ visit'[b].answer = visit[b].answer
                     /\ visit'[b].entitled = (visit[b].entitled \/ Now(b))
    OBVIOUS
  <2>1. visit[b] \in Visit
    BY <1>1 DEF AccountsTypeOK
  <2> QED BY <1>5, <2>1 DEF Visit
<1>7. AccountsTypeOK'
  <2>1. visit' \in [Callers -> Visit]
    <3> HIDE DEF Now
    <3>1. visit' = [b \in Callers |-> [visit[b] EXCEPT !.entitled = @ \/ Now(b)]]
      BY <1>2 DEF Remember, Now
    <3>2. \A b \in Callers : [visit[b] EXCEPT !.entitled = @ \/ Now(b)] \in Visit
      BY <1>1 DEF AccountsTypeOK, Visit
    <3> QED BY <3>1, <3>2
  <2>2. member' \in [Emails -> [exists : BOOLEAN, rank : Ranks, reseller : BOOLEAN]]
    BY <1>1, <1>2, <1>3 DEF AccountsTypeOK
  <2> QED BY <1>1, <2>1, <2>2 DEF AccountsTypeOK
<1>8. KindInv' /\ KnownInv' /\ RolesAreRead'
  <2>1. KindInv'
    BY <1>6 DEF AccountsInv, KindInv
  <2>2. KnownInv'
    BY <1>4, <1>6 DEF AccountsInv, KnownInv
  <2>3. RolesAreRead'
    BY <1>6 DEF AccountsInv, RolesAreRead
  <2> QED BY <2>1, <2>2, <2>3
<1>9. EntitledInv'
  <2> SUFFICES ASSUME NEW b \in Callers
               PROVE /\ visit'[b].at # "idle" /\ visit'[b].kind \in Settings /\ May(b, visit[b].kind)'
                           => visit'[b].entitled
                     /\ visit'[b].at = "allowed" => visit'[b].entitled
    BY <1>6 DEF EntitledInv, May, Live
  <2>1. visit[b].at # "idle" /\ visit[b].kind \in Settings /\ May(b, visit[b].kind)' => Now(b)
    <3>1. cookie'[b] = cookie[b] /\ visit'[b].kind = visit[b].kind
      BY <1>1, <1>6
    <3> QED BY <3>1 DEF May, Live
  <2> QED BY <1>1, <1>6, <2>1 DEF AccountsInv, EntitledInv, May, Live
<1>10. SignupsAreWhole'
  <2>1. \A y \in Emails : orgs'[y] = IF member'[y].exists THEN 1 ELSE 0
    BY <1>1, <1>4 DEF AccountsInv, SignupsAreWhole
  <2>2. \A b \in Callers : Live(b)' => member'[cookie'[b].email].exists
    BY <1>1, <1>4 DEF AccountsInv, SignupsAreWhole, Live, AccountsTypeOK
  <2> QED BY <1>8, <2>1, <2>2 DEF SignupsAreWhole, KnownInv
<1> QED BY <1>1, <1>7, <1>8, <1>9, <1>10 DEF AccountsInv, AccountTypes

LEMMA AccountsStep_Inv == AccountsInv /\ [AccountsNext]_accountVars => AccountsInv'
<1> SUFFICES ASSUME AccountsInv, [AccountsNext]_accountVars PROVE AccountsInv'
  OBVIOUS
<1>1. ASSUME NEW b \in Callers, AccountsStep(b) PROVE AccountsInv'
  BY <1>1, Limiter_Inv, Signup_Inv, Session_Inv, Setting_Inv DEF AccountsStep
<1>2. ASSUME NEW k \in Buckets, HitExpires(k), UNCHANGED <<visit, cookie, tables>> PROVE AccountsInv'
  <2>1. LimiterInv'
    <3>1. PICK b \in Callers : TRUE
      BY CallersAssumption
    <3> QED BY <1>2, <3>1, LimiterKeeps DEF AccountsInv, AccountTypes
  <2> QED BY <1>2, <2>1 DEF tables, AccountsInv, AccountTypes, AccountsTypeOK, KindInv, KnownInv, EntitledInv,
             May, Live, SignupsAreWhole, RolesAreRead
<1>3. CASE UNCHANGED accountVars
  <2>1. LimiterInv'
    BY <1>3, LimiterStays DEF accountVars, AccountsInv, AccountTypes
  <2> QED BY <1>3, <2>1 DEF accountVars, AccountsInv, AccountTypes, AccountsTypeOK, KindInv, KnownInv, EntitledInv,
             May, Live, SignupsAreWhole, RolesAreRead
<1> QED BY <1>1, <1>2, <1>3, Start_Inv, ChangeMember_Inv DEF AccountsNext

------------------------------------------------------------------------------
\* The inductive invariant: who is known has an account, and whatever a session
\* allows a visit now was noted as allowed in that visit.
THEOREM AccountsInvariantHolds == AccountsSpec => []AccountsInv
BY AccountsInit_Inv, AccountsStep_Inv, PTL DEF AccountsSpec

\* However sign-ups race and fail, an email has a user exactly when it has its one
\* organization, and no session is without a user.
THEOREM SignupIsAtomic == AccountsSpec => []SignupsAreWhole
<1>1. AccountsInv => SignupsAreWhole
  BY DEF AccountsInv
<1> QED BY <1>1, AccountsInvariantHolds, PTL

\* No setting is changed by a member who was not entitled to it during the request,
\* whatever roles were changed and sessions ended meanwhile.
THEOREM RolesAreNeverStale == AccountsSpec => []RolesAreRead
<1>1. AccountsInv => RolesAreRead
  BY DEF AccountsInv
<1> QED BY <1>1, AccountsInvariantHolds, PTL

\* Concurrent sign-ups and logins exceed a bucket's limit by no more than the
\* others that were being checked.
THEOREM LoginsAreLimited == AccountsSpec => []RateOvershoot
<1>1. AccountsInv => RateOvershoot
  BY DEF AccountsInv, AccountTypes, LimiterInv
<1> QED BY <1>1, AccountsInvariantHolds, PTL

------------------------------------------------------------------------------
(* The inbound webhooks.                                                   *)

\* The requests for a call of lead l that have dialed, or may have.
Dialers(l) == {r \in Senders : /\ request[r].lead = l /\ request[r].call
                               /\ request[r].stage \in {"dialed", "answered", "dead"}}

\* sitesnsign.com knows the lead that l created by the number of r's.
SameLead(l, r) == request[l].kind = "sitesnsign" /\ request[l].ref = request[r].ref

\* Where a request stands, and what it has stored.
StandsOK(r) ==
  /\ request[r].kind \in {"crm", "user"} => request[r].call /\ request[r].lead \in leads
  /\ request[r].stage \in {"looking", "creating"} => request[r].kind = "sitesnsign"
  /\ request[r].stage = "counted" => request[r].kind # "user"
  /\ request[r].stage = "inserting" => request[r].kind \in {"sitesnsign", "form"}
  /\ request[r].stage \in {"calling", "dialed"} => request[r].call /\ request[r].lead \in leads
  /\ request[r].outcome # "none" => request[r].stage = "answered"
  /\ r \in leads => /\ request[r].stage \in {"calling", "dialed", "answered", "dead"}
                    /\ request[r].lead = r
                    /\ request[r].kind \in {"sitesnsign", "form"}
  /\ r \notin leads => /\ dials[r] = 0
                       /\ request[r].stage \in {"calling", "dialed"}
                            => request[r].kind \in {"crm", "user"}

\* What a request has seen of the leads and of the opt-outs.
SeesOK(r) ==
  /\ request[r].leadsThen \subseteq leads
  /\ request[r].optedThen => optedOut # {}
  /\ request[r].kind = "sitesnsign" =>
       /\ request[r].stage \in {"creating", "inserting"} \/ r \in leads
            => \A l \in request[r].leadsThen \intersect Senders : ~SameLead(l, r)
       /\ request[r].stage = "inserting" /\ request[r].optedThen => request[r].revoked
       /\ r \in leads /\ request[r].optedThen => r \in optedOut /\ dials[r] = 0

\* What a request for a call was told.
ToldOK(r) ==
  /\ request[r].outcome = "existing" => \E l \in leads \intersect Senders : SameLead(l, r)
  /\ request[r].outcome = "created" => ~request[r].call
  /\ request[r].kind = "sitesnsign" /\ request[r].outcome = "placed" => r \in leads
  /\ r \in leads =>
       /\ request[r].stage = "dialed" \/ request[r].outcome = "placed" => dials[r] > 0
       /\ request[r].stage = "answered" /\ request[r].call
            => request[r].outcome \in {"blocked", "noBalance", "noProvider", "failed", "placed"}

RequestOK(r) == StandsOK(r) /\ SeesOK(r) /\ ToldOK(r)

IntakeInv ==
  /\ LimiterInv
  /\ IntakeTypeOK
  /\ \A r \in Senders : RequestOK(r)
  /\ \A l \in LeadIds : dials[l] <= Cardinality(Dialers(l))

LEMMA StepFacts ==
  ASSUME IntakeTypeOK, NEW r \in Senders, NEW from, NEW to \in IntakeStages, Step(r, from, to)
  PROVE  /\ request' \in [Senders -> Request]
         /\ request[r].stage = from /\ request'[r] = [request[r] EXCEPT !.stage = to]
         /\ request'[r].stage = to
         /\ \A x \in Senders \ {r} : request'[x] = request[x]
<1> USE DEF IntakeTypeOK, Step
<1>1. request[r] \in Request
  OBVIOUS
<1>2. request'[r] = [request[r] EXCEPT !.stage = to]
  OBVIOUS
<1>3. request'[r] \in Request /\ request'[r].stage = to
  BY <1>1, <1>2 DEF Request
<1>4. request' = [request EXCEPT ![r] = request'[r]]
  BY <1>2
<1> QED BY <1>2, <1>3, <1>4

LEMMA AnswersFacts ==
  ASSUME IntakeTypeOK, NEW r \in Senders, NEW from, NEW o \in Outcomes, Answers(r, from, o)
  PROVE  /\ request' \in [Senders -> Request]
         /\ request[r].stage = from
         /\ request'[r] = [request[r] EXCEPT !.stage = "answered", !.outcome = o]
         /\ request'[r].stage = "answered" /\ request'[r].outcome = o
         /\ \A x \in Senders \ {r} : request'[x] = request[x]
<1> USE DEF IntakeTypeOK, Answers
<1>1. request[r] \in Request
  OBVIOUS
<1>2. request'[r] = [request[r] EXCEPT !.stage = "answered", !.outcome = o]
  OBVIOUS
<1>3. request'[r] \in Request /\ request'[r].stage = "answered" /\ request'[r].outcome = o
  BY <1>1, <1>2 DEF Request, IntakeStages
<1>4. request' = [request EXCEPT ![r] = request'[r]]
  BY <1>2
<1> QED BY <1>2, <1>3, <1>4

\* Only a request's own steps change what it has seen and done.
LEMMA OtherRequestsKeep ==
  ASSUME IntakeInv, NEW r \in Senders, NEW x \in Senders \ {r},
         request'[x] = request[x],
         leads \subseteq leads', leads' \subseteq leads \union {r}, optedOut \subseteq optedOut',
         \A l \in LeadIds : dials'[l] = dials[l] \/ (l \in leads \ optedOut /\ dials'[l] = dials[l] + 1),
         \A y \in Senders \ {r} : request'[y] = request[y],
         r \in leads => request'[r].kind = request[r].kind /\ request'[r].ref = request[r].ref
  PROVE  RequestOK(x)'
<1>1. x \in LeadIds /\ dials[x] \in Nat /\ RequestOK(x)
  BY DEF LeadIds, IntakeInv, IntakeTypeOK
<1>2. StandsOK(x)'
  BY <1>1 DEF RequestOK, StandsOK
<1>3. \A l \in leads \intersect Senders : SameLead(l, x)' <=> SameLead(l, x)
  BY DEF SameLead
<1>4. SeesOK(x)'
  BY <1>1, <1>3 DEF RequestOK, SeesOK
<1>5. ToldOK(x)'
  BY <1>1, <1>3 DEF RequestOK, ToldOK
<1> QED BY <1>2, <1>4, <1>5 DEF RequestOK

LEMMA DialersGrow ==
  ASSUME NEW l, Dialers(l) \subseteq Dialers(l)'
  PROVE  /\ IsFiniteSet(Dialers(l)) /\ IsFiniteSet(Dialers(l)')
         /\ Cardinality(Dialers(l)) \in Nat /\ Cardinality(Dialers(l)') \in Nat
         /\ Cardinality(Dialers(l)) <= Cardinality(Dialers(l)')
<1>1. IsFiniteSet(Senders)
  BY CallersAssumption, PriorLeadAssumption, FS_Subset
<1>2. Dialers(l) \subseteq Senders /\ Dialers(l)' \subseteq Senders
  BY DEF Dialers
<1>3. IsFiniteSet(Dialers(l)) /\ IsFiniteSet(Dialers(l)')
  BY <1>1, <1>2, FS_Subset
<1> QED BY <1>3, FS_Subset, FS_CardinalityType

\* A step of request r that dials nobody, stores no lead and keeps what is known of r.
LEMMA QuietStep ==
  ASSUME IntakeInv, NEW r \in Senders, LimiterInv', IntakeTypeOK', UNCHANGED dataVars,
         \A x \in Senders \ {r} : request'[x] = request[x],
         r \in leads => request'[r].kind = request[r].kind /\ request'[r].ref = request[r].ref,
         \A l \in LeadIds : r \in Dialers(l) => r \in Dialers(l)',
         RequestOK(r)'
  PROVE  IntakeInv'
<1>1. \A x \in Senders \ {r} : RequestOK(x)'
  BY OtherRequestsKeep DEF dataVars
<1>2. \A l \in LeadIds : dials'[l] <= Cardinality(Dialers(l)')
  <2> TAKE l \in LeadIds
  <2>1. Dialers(l) \subseteq Dialers(l)'
    BY DEF Dialers
  <2>2. dials[l] \in Nat /\ dials[l] <= Cardinality(Dialers(l))
    BY DEF IntakeInv, IntakeTypeOK
  <2> QED BY <2>1, <2>2, DialersGrow DEF dataVars
<1> QED BY <1>1, <1>2 DEF IntakeInv

\* The same of a request that goes on to another stage, before it dials.
LEMMA GoesOn ==
  ASSUME IntakeInv, NEW r \in Senders, NEW from, NEW to \in IntakeStages, Step(r, from, to),
         from \in {"new", "counted", "looking", "creating"}, UNCHANGED dataVars, LimiterInv',
         RequestOK(r)'
  PROVE  IntakeInv'
<1>1. /\ request' \in [Senders -> Request]
      /\ request[r].stage = from /\ request'[r] = [request[r] EXCEPT !.stage = to]
      /\ \A x \in Senders \ {r} : request'[x] = request[x]
  BY StepFacts DEF IntakeInv
<1>2. IntakeTypeOK'
  BY <1>1 DEF IntakeInv, IntakeTypeOK, dataVars, LimiterInv
<1>3. r \notin leads
  BY <1>1 DEF IntakeInv, RequestOK, StandsOK
<1>4. \A l \in LeadIds : r \notin Dialers(l)
  BY <1>1 DEF Dialers
<1> QED BY <1>1, <1>2, <1>3, <1>4, QuietStep

\* The same of a request that is answered.
LEMMA IsAnswered ==
  ASSUME IntakeInv, NEW r \in Senders, NEW from, NEW o \in Outcomes, Answers(r, from, o),
         from \in {"new", "counted", "looking", "calling", "dialed"},
         UNCHANGED dataVars, LimiterInv', ToldOK(r)'
  PROVE  IntakeInv'
<1>1. /\ request' \in [Senders -> Request]
      /\ request[r].stage = from
      /\ request'[r] = [request[r] EXCEPT !.stage = "answered", !.outcome = o]
      /\ request'[r].stage = "answered" /\ request'[r].outcome = o
      /\ \A x \in Senders \ {r} : request'[x] = request[x]
  BY AnswersFacts DEF IntakeInv
<1>2. IntakeTypeOK'
  BY <1>1 DEF IntakeInv, IntakeTypeOK, dataVars, LimiterInv
<1>3. request[r] \in Request
  BY DEF IntakeInv, IntakeTypeOK
<1>4. /\ request'[r].kind = request[r].kind /\ request'[r].ref = request[r].ref
      /\ request'[r].call = request[r].call /\ request'[r].lead = request[r].lead
      /\ request'[r].leadsThen = request[r].leadsThen /\ request'[r].optedThen = request[r].optedThen
  BY <1>1, <1>3 DEF Request
<1>5. RequestOK(r)
  BY DEF IntakeInv
<1>6. StandsOK(r)'
  BY <1>1, <1>4, <1>5 DEF RequestOK, StandsOK, dataVars
<1>7. \A l \in leads \intersect Senders : SameLead(l, r)' <=> SameLead(l, r)
  BY <1>1, <1>4 DEF SameLead
<1>8. SeesOK(r)'
  BY <1>1, <1>4, <1>5, <1>7 DEF RequestOK, SeesOK, dataVars
<1>9. \A l \in LeadIds : r \in Dialers(l) => r \in Dialers(l)'
  BY <1>1, <1>4 DEF Dialers
<1> QED BY <1>1, <1>2, <1>4, <1>6, <1>8, <1>9, QuietStep DEF RequestOK

\* A step of nobody's request: at most an opt-out more.
LEMMA Surroundings ==
  ASSUME IntakeInv, UNCHANGED <<request, leads, dials>>, optedOut \subseteq optedOut',
         LimiterInv', IntakeTypeOK'
  PROVE  IntakeInv'
<1>1. \A r \in Senders : RequestOK(r)'
  BY DEF IntakeInv, RequestOK, StandsOK, SeesOK, ToldOK, SameLead
<1>2. \A l \in LeadIds : Dialers(l)' = Dialers(l)
  BY DEF Dialers
<1> QED BY <1>1, <1>2 DEF IntakeInv

LEMMA IntakeInit_Inv == IntakeInit => IntakeInv
<1> SUFFICES ASSUME IntakeInit PROVE IntakeInv
  OBVIOUS
<1> USE DEF IntakeInit
<1>1. LimiterInv
  BY LimiterInitial
<1>2. \A r \in Senders : /\ request[r].stage = "none" /\ request[r].kind = "form"
                         /\ request[r].outcome = "none" /\ request[r].leadsThen = {}
                         /\ request[r].optedThen = FALSE /\ request[r] \in Request
  <2>1. PICK x : x = CHOOSE y \in Refs : TRUE
    OBVIOUS
  <2>2. x \in Refs
    BY <2>1, RefsAssumption
  <2>3. {CHOOSE y \in Refs : TRUE} = {x}
    BY <2>1
  <2>4. request \in [Senders -> [stage : {"none"}, kind : {"form"}, ref : {x},
          token : {0}, call : {FALSE}, lead : {NoLead}, revoked : {FALSE}, outcome : {"none"},
          leadsThen : {{}}, optedThen : {FALSE}]]
    BY <2>1
  <2>5. {"none"} \subseteq IntakeStages /\ {"form"} \subseteq Kinds /\ {"none"} \subseteq Outcomes
        /\ {{}} \subseteq SUBSET LeadIds /\ {NoLead} \subseteq LeadIds \union {NoLead}
        /\ {0} \subseteq Nat /\ {FALSE} \subseteq BOOLEAN /\ {x} \subseteq Refs
    BY <2>2 DEF IntakeStages, Kinds, Outcomes
  <2>6. \A r \in Senders : request[r] \in Request
    BY <2>4, <2>5 DEF Request
  <2>7. \A r \in Senders : /\ request[r].stage = "none" /\ request[r].kind = "form"
                           /\ request[r].outcome = "none" /\ request[r].leadsThen = {}
                           /\ request[r].optedThen = FALSE
    BY <2>4
  <2> QED BY <2>6, <2>7
<1>3. request \in [Senders -> Request]
  BY <1>2
<1>4. IntakeTypeOK
  BY <1>1, <1>3 DEF IntakeTypeOK, LimiterInv, LeadIds
<1>5. \A r \in Senders : r \notin leads /\ r \in LeadIds
  BY PriorLeadAssumption DEF LeadIds
<1>6. \A r \in Senders : RequestOK(r)
  BY <1>2, <1>5 DEF RequestOK, StandsOK, SeesOK, ToldOK
<1>7. \A l \in LeadIds : dials[l] <= Cardinality(Dialers(l))
  <2> TAKE l \in LeadIds
  <2>1. Dialers(l) = {}
    BY <1>2 DEF Dialers
  <2> QED BY <2>1, FS_EmptySet
<1> QED BY <1>1, <1>4, <1>6, <1>7 DEF IntakeInv

LEMMA Receive_Inv ==
  ASSUME IntakeInv, NEW r \in Senders, NEW k \in Kinds, NEW x \in Refs, NEW call \in BOOLEAN,
         NEW l \in leads \union {NoLead}, Receive(r, k, x, call, l)
  PROVE  IntakeInv'
<1> USE DEF Receive
<1>1. RequestOK(r) /\ leads \subseteq LeadIds /\ optedOut \subseteq leads /\ token \in Nat
      /\ request \in [Senders -> Request]
  BY DEF IntakeInv, IntakeTypeOK
<1>2. r \notin leads
  BY <1>1 DEF RequestOK, StandsOK
<1>3. request'[r] = [stage |-> "new", kind |-> k, ref |-> x,
        token |-> token, call |-> call, lead |-> l, revoked |-> FALSE, outcome |-> "none",
        leadsThen |-> leads, optedThen |-> optedOut # {}]
  BY <1>1
<1>4. request'[r] \in Request
  BY <1>1, <1>3 DEF Request, IntakeStages, Outcomes
<1>5. request' = [request EXCEPT ![r] = request'[r]]
  BY <1>1
<1>6. LimiterInv'
  BY LimiterStays DEF IntakeInv, limiterVars
<1>7. IntakeTypeOK'
  BY <1>1, <1>4, <1>5, <1>6 DEF IntakeInv, IntakeTypeOK, dataVars, LimiterInv
<1>8. RequestOK(r)'
  BY <1>1, <1>2, <1>3 DEF RequestOK, StandsOK, SeesOK, ToldOK, dataVars
<1>9. \A m \in LeadIds : r \notin Dialers(m)
  BY DEF Dialers
<1>10. \A y \in Senders \ {r} : request'[y] = request[y]
  BY <1>1
<1> QED BY <1>2, <1>6, <1>7, <1>8, <1>9, <1>10, QuietStep

\* The steps to the next stage that ask nothing of the database's rows.
LEMMA Onwards_Inv ==
  ASSUME IntakeInv, NEW r \in Senders,
         EnterBySession(r) \/ Authenticate(r) \/ Admit(r)
           \/ (FindLead(r) /\ Step(r, "looking", "creating"))
  PROVE  IntakeInv'
<1> DEFINE to == request'[r].stage
<1>1. RequestOK(r) /\ IntakeTypeOK /\ LimiterInv /\ request[r] \in Request
  BY DEF IntakeInv, IntakeTypeOK
<1>2. LimiterInv' /\ UNCHANGED dataVars
  <2>1. CASE EnterBySession(r)
    BY <2>1, <1>1, LimiterStays DEF EnterBySession, limiterVars
  <2>2. CASE Authenticate(r)
    <3>1. Bucket(r) \in Buckets /\ r \in Callers
      BY IntakeBucketsAssumption, PriorLeadAssumption DEF Bucket
    <3> QED BY <2>2, <3>1, <1>1, LimiterKeeps DEF Authenticate
  <2>3. CASE Admit(r)
    <3>1. PICK b : b \in Buckets
      BY IntakeBucketsAssumption
    <3> QED BY <2>3, <3>1, <1>1, LimiterKeeps, PriorLeadAssumption DEF Admit
  <2>4. CASE FindLead(r)
    BY <2>4, <1>1, LimiterStays DEF FindLead, limiterVars
  <2> QED BY <2>1, <2>2, <2>3, <2>4
<1>3. PICK from \in {"new", "counted", "looking"}, s \in {"calling", "counted", "looking", "inserting", "creating"} :
        /\ Step(r, from, s)
        /\ s = "calling" => request[r].kind \in {"crm", "user"}
        /\ s = "counted" => request[r].kind # "user"
        /\ s = "looking" => request[r].kind = "sitesnsign"
        /\ s = "inserting" => request[r].kind = "form"
        /\ s = "creating" => request[r].stage = "looking" /\ LeadsOf(request[r].ref) = {}
  <2>1. CASE EnterBySession(r)
    BY <2>1 DEF EnterBySession
  <2>2. CASE Authenticate(r)
    BY <2>2 DEF Authenticate
  <2>3. CASE Admit(r)
    <3>1. request[r].kind \in {"sitesnsign", "form", "crm"}
      BY <2>3, <1>1 DEF Admit, Step, Request, Kinds, RequestOK, StandsOK
    <3> QED BY <2>3, <3>1 DEF Admit
  <2>4. CASE FindLead(r) /\ Step(r, "looking", "creating")
    <3>1. request'[r].stage = "creating" /\ request[r].stage = "looking"
      BY <2>4, <1>1, StepFacts DEF IntakeStages
    <3>2. ~Answers(r, "looking", "existing")
      BY <3>1, <1>1, AnswersFacts DEF Outcomes
    <3> QED BY <2>4, <3>1, <3>2 DEF FindLead
  <2> QED BY <2>1, <2>2, <2>3, <2>4
<1>4. /\ request[r].stage = from /\ request'[r] = [request[r] EXCEPT !.stage = s]
      /\ \A x \in Senders \ {r} : request'[x] = request[x]
  <2>1. s \in IntakeStages
    BY DEF IntakeStages
  <2> QED BY <1>1, <1>3, <2>1, StepFacts
<1>5. /\ request'[r].kind = request[r].kind /\ request'[r].ref = request[r].ref
      /\ request'[r].call = request[r].call /\ request'[r].lead = request[r].lead
      /\ request'[r].leadsThen = request[r].leadsThen /\ request'[r].optedThen = request[r].optedThen
      /\ request'[r].outcome = request[r].outcome /\ request'[r].stage = s
  BY <1>1, <1>4 DEF Request
<1>6. r \notin leads
  BY <1>1, <1>4 DEF RequestOK, StandsOK
<1>7. StandsOK(r)'
  BY <1>1, <1>2, <1>3, <1>4, <1>5, <1>6 DEF RequestOK, StandsOK, dataVars
<1>8. s = "creating" => \A l \in request[r].leadsThen \intersect Senders : ~SameLead(l, r)'
  <2> SUFFICES ASSUME s = "creating", NEW l \in request[r].leadsThen \intersect Senders
               PROVE  ~SameLead(l, r)'
    OBVIOUS
  <2>1. l \in leads \ {PriorLead} /\ l # r
    BY <1>1, <1>6, PriorLeadAssumption DEF RequestOK, SeesOK
  <2> QED BY <1>3, <1>4, <1>5, <2>1 DEF LeadsOf, SameLead
<1>9. SeesOK(r)'
  BY <1>1, <1>2, <1>3, <1>5, <1>6, <1>8 DEF RequestOK, SeesOK, dataVars
<1>10. ToldOK(r)'
  BY <1>1, <1>2, <1>4, <1>5, <1>6 DEF RequestOK, StandsOK, ToldOK, dataVars
<1>11. s \in IntakeStages
  BY DEF IntakeStages
<1> QED BY <1>2, <1>3, <1>7, <1>9, <1>10, <1>11, GoesOn DEF RequestOK

LEMMA Unauthorized_Inv ==
  ASSUME IntakeInv, NEW r \in Senders, Unauthorized(r)
  PROVE  IntakeInv'
<1>1. Answers(r, "new", "unauthorized") /\ UNCHANGED <<dataVars, limiterVars>> /\ "unauthorized" \in Outcomes
  BY DEF Unauthorized, Outcomes
<1>2. LimiterInv'
  BY <1>1, LimiterStays DEF IntakeInv, limiterVars
<1>3. request'[r].outcome = "unauthorized" /\ request[r].stage = "new"
  BY <1>1, AnswersFacts DEF IntakeInv
<1>4. r \notin leads'
  BY <1>1, <1>3 DEF IntakeInv, RequestOK, StandsOK, dataVars
<1> QED BY <1>1, <1>2, <1>3, <1>4, IsAnswered DEF ToldOK

LEMMA Invalid_Inv ==
  ASSUME IntakeInv, NEW r \in Senders, Invalid(r)
  PROVE  IntakeInv'
<1>1. PICK from \in {"new", "counted"} : Answers(r, from, "invalid")
  BY DEF Invalid
<1>2. LimiterInv'
  <2>1. CASE UNCHANGED limiterVars
    BY <2>1, LimiterStays DEF IntakeInv, limiterVars
  <2>2. CASE RecordHit(r)
    <3>1. PICK b : b \in Buckets
      BY IntakeBucketsAssumption
    <3> QED BY <2>2, <3>1, LimiterKeeps, PriorLeadAssumption DEF IntakeInv
  <2> QED BY <2>1, <2>2 DEF Invalid
<1>3. request'[r].outcome = "invalid" /\ request[r].stage = from /\ "invalid" \in Outcomes
  BY <1>1, AnswersFacts DEF IntakeInv, Outcomes
<1>4. UNCHANGED dataVars
  BY DEF Invalid
<1>5. r \notin leads'
  BY <1>3, <1>4 DEF IntakeInv, RequestOK, StandsOK, dataVars
<1> QED BY <1>1, <1>2, <1>3, <1>4, <1>5, IsAnswered DEF ToldOK

LEMMA Existing_Inv ==
  ASSUME IntakeInv, NEW r \in Senders, FindLead(r), Answers(r, "looking", "existing")
  PROVE  IntakeInv'
<1>0. "existing" \in Outcomes /\ "creating" \in IntakeStages
  BY DEF Outcomes, IntakeStages
<1>1. LimiterInv' /\ UNCHANGED dataVars
  BY LimiterStays DEF IntakeInv, FindLead, limiterVars
<1>2. /\ request'[r] = [request[r] EXCEPT !.stage = "answered", !.outcome = "existing"]
      /\ request'[r].stage = "answered" /\ request'[r].outcome = "existing"
      /\ request[r].stage = "looking" /\ \A x \in Senders \ {r} : request'[x] = request[x]
  BY <1>0, AnswersFacts DEF IntakeInv
<1>3. ~Step(r, "looking", "creating")
  BY <1>0, <1>2, StepFacts DEF IntakeInv
<1>4. PICK l \in LeadsOf(request[r].ref) : TRUE
  BY <1>3 DEF FindLead
<1>5. l \in leads /\ l \in Senders /\ SameLead(l, r)
  BY <1>4 DEF LeadsOf, SameLead, IntakeInv, IntakeTypeOK, LeadIds
<1>6. request[r] \in Request /\ r \notin leads
  BY <1>2 DEF IntakeInv, IntakeTypeOK, RequestOK, StandsOK
<1>7. request'[r].ref = request[r].ref /\ request'[l] = request[l]
  BY <1>2, <1>5, <1>6 DEF Request
<1>8. SameLead(l, r)'
  BY <1>5, <1>7 DEF SameLead
<1>9. ToldOK(r)'
  BY <1>1, <1>2, <1>5, <1>6, <1>8 DEF ToldOK, dataVars
<1> QED BY <1>0, <1>1, <1>9, IsAnswered

LEMMA ReadOptOut_Inv ==
  ASSUME IntakeInv, NEW r \in Senders, ReadOptOut(r)
  PROVE  IntakeInv'
<1> USE DEF ReadOptOut
<1>1. RequestOK(r) /\ request[r] \in Request /\ request \in [Senders -> Request]
  BY DEF IntakeInv, IntakeTypeOK
<1>2. /\ request'[r] = [request[r] EXCEPT !.stage = "inserting", !.revoked = (optedOut # {})]
      /\ \A x \in Senders \ {r} : request'[x] = request[x]
      /\ request' = [request EXCEPT ![r] = request'[r]]
  BY <1>1
<1>3. /\ request'[r].kind = request[r].kind /\ request'[r].ref = request[r].ref
      /\ request'[r].call = request[r].call /\ request'[r].lead = request[r].lead
      /\ request'[r].leadsThen = request[r].leadsThen /\ request'[r].optedThen = request[r].optedThen
      /\ request'[r].outcome = request[r].outcome /\ request'[r].stage = "inserting"
      /\ request'[r].revoked = (optedOut # {}) /\ request'[r] \in Request
  BY <1>1, <1>2 DEF Request, IntakeStages
<1>4. LimiterInv' /\ UNCHANGED dataVars
  BY LimiterStays DEF IntakeInv, limiterVars
<1>5. IntakeTypeOK'
  BY <1>1, <1>2, <1>3, <1>4 DEF IntakeInv, IntakeTypeOK, LimiterInv, dataVars
<1>6. r \notin leads /\ request[r].kind = "sitesnsign" /\ request[r].outcome = "none"
  BY <1>1 DEF RequestOK, StandsOK
<1>7. StandsOK(r)'
  BY <1>1, <1>3, <1>4, <1>6 DEF RequestOK, StandsOK, dataVars
<1>8. \A l \in leads \intersect Senders : SameLead(l, r)' <=> SameLead(l, r)
  BY <1>2, <1>3, <1>6 DEF SameLead
<1>9. SeesOK(r)'
  BY <1>1, <1>3, <1>4, <1>6, <1>8 DEF RequestOK, SeesOK, dataVars
<1>10. ToldOK(r)'
  BY <1>3, <1>4, <1>6 DEF ToldOK, dataVars
<1>11. \A l \in LeadIds : r \notin Dialers(l)
  BY DEF Dialers
<1> QED BY <1>2, <1>3, <1>4, <1>5, <1>7, <1>9, <1>10, <1>11, QuietStep DEF RequestOK

LEMMA CommitLead_Inv ==
  ASSUME IntakeInv, NEW r \in Senders, CommitLead(r)
  PROVE  IntakeInv'
<1> USE DEF CommitLead
<1> DEFINE to == IF request[r].call THEN "calling" ELSE "answered"
           told == IF request[r].call THEN "none" ELSE "created"
<1>1. RequestOK(r) /\ request[r] \in Request /\ request \in [Senders -> Request] /\ r \in LeadIds
  BY DEF IntakeInv, IntakeTypeOK, LeadIds
<1>2. /\ request'[r] = [request[r] EXCEPT !.lead = r, !.stage = to, !.outcome = told]
      /\ \A x \in Senders \ {r} : request'[x] = request[x]
      /\ request' = [request EXCEPT ![r] = request'[r]]
  BY <1>1
<1>3. to \in IntakeStages /\ told \in Outcomes
  BY DEF IntakeStages, Outcomes
<1>4. /\ request'[r].kind = request[r].kind /\ request'[r].ref = request[r].ref
      /\ request'[r].call = request[r].call /\ request'[r].lead = r
      /\ request'[r].leadsThen = request[r].leadsThen /\ request'[r].optedThen = request[r].optedThen
      /\ request'[r].outcome = told /\ request'[r].stage = to /\ request'[r] \in Request
  BY <1>1, <1>2, <1>3 DEF Request
<1>5. LimiterInv' /\ leads' = leads \union {r} /\ optedOut \subseteq optedOut'
      /\ dials' = dials /\ token' = token
  BY LimiterStays DEF IntakeInv, limiterVars
<1>6. IntakeTypeOK'
  <2>1. request' \in [Senders -> Request]
    BY <1>1, <1>2, <1>4
  <2>2. leads' \subseteq LeadIds /\ optedOut' \subseteq leads'
    BY <1>1, <1>5 DEF IntakeInv, IntakeTypeOK
  <2> QED BY <1>5, <2>1, <2>2 DEF IntakeInv, IntakeTypeOK, LimiterInv
<1>7. r \notin leads /\ request[r].kind \in {"sitesnsign", "form"} /\ dials[r] = 0
  BY <1>1 DEF RequestOK, StandsOK
<1>8. StandsOK(r)'
  BY <1>1, <1>4, <1>5, <1>7 DEF StandsOK
<1>9. r \notin request[r].leadsThen
  BY <1>1, <1>7 DEF RequestOK, SeesOK
<1>10. \A l \in leads \intersect Senders : SameLead(l, r)' <=> SameLead(l, r)
  BY <1>2, <1>4, <1>7 DEF SameLead
<1>11. SeesOK(r)'
  <2>1. request[r].leadsThen \subseteq leads /\ (request[r].optedThen => optedOut # {})
    BY <1>1 DEF RequestOK, SeesOK
  <2>2. request[r].kind = "sitesnsign" =>
          /\ \A l \in request[r].leadsThen \intersect Senders : ~SameLead(l, r)'
          /\ request[r].optedThen => r \in optedOut'
    BY <1>1, <1>5, <1>10, <2>1 DEF RequestOK, SeesOK
  <2>3. dials'[r] = 0 /\ request'[r].stage # "inserting"
    BY <1>4, <1>5, <1>7
  <2>4. request'[r].leadsThen \subseteq leads' /\ (request'[r].optedThen => optedOut' # {})
    BY <1>4, <1>5, <2>1
  <2> QED BY <1>4, <2>2, <2>3, <2>4 DEF SeesOK
<1>12. ToldOK(r)'
  BY <1>4, <1>5 DEF ToldOK
<1>13. \A x \in Senders \ {r} : RequestOK(x)'
  BY <1>2, <1>5, <1>7, OtherRequestsKeep
<1>14. \A l \in LeadIds : dials'[l] <= Cardinality(Dialers(l)')
  <2> TAKE l \in LeadIds
  <2>1. Dialers(l) \subseteq Dialers(l)'
    BY <1>2 DEF Dialers
  <2>2. dials[l] \in Nat /\ dials[l] <= Cardinality(Dialers(l))
    BY DEF IntakeInv, IntakeTypeOK
  <2> QED BY <1>5, <2>1, <2>2, DialersGrow
<1> QED BY <1>5, <1>6, <1>8, <1>11, <1>12, <1>13, <1>14 DEF IntakeInv, RequestOK

LEMMA Refused_Inv ==
  ASSUME IntakeInv, NEW r \in Senders, Refused(r)
  PROVE  IntakeInv'
<1>1. PICK o \in {"blocked", "noBalance", "noProvider", "failed"} : Answers(r, "calling", o)
  BY DEF Refused, OutcomeOf
<1>2. LimiterInv' /\ UNCHANGED dataVars /\ o \in Outcomes
  BY LimiterStays DEF IntakeInv, Refused, limiterVars, Outcomes
<1>3. request'[r].outcome = o /\ request'[r].stage = "answered"
  BY <1>1, <1>2, AnswersFacts DEF IntakeInv
<1>4. ToldOK(r)'
  BY <1>2, <1>3 DEF ToldOK
<1> QED BY <1>1, <1>2, <1>4, IsAnswered

LEMMA RecordCall_Inv ==
  ASSUME IntakeInv, NEW r \in Senders, RecordCall(r)
  PROVE  IntakeInv'
<1>1. PICK o \in {"placed", "failed"} : Answers(r, "dialed", o)
  BY DEF RecordCall, OutcomeOf
<1>2. LimiterInv' /\ UNCHANGED dataVars /\ o \in Outcomes
  BY LimiterStays DEF IntakeInv, RecordCall, limiterVars, Outcomes
<1>3. request'[r].outcome = o /\ request'[r].stage = "answered" /\ request[r].stage = "dialed"
      /\ request'[r] = [request[r] EXCEPT !.stage = "answered", !.outcome = o]
  BY <1>1, <1>2, AnswersFacts DEF IntakeInv
<1>4. request[r] \in Request /\ RequestOK(r)
  BY DEF IntakeInv, IntakeTypeOK
<1>5. request'[r].kind = request[r].kind
  BY <1>3, <1>4 DEF Request
<1>6. ToldOK(r)'
  BY <1>2, <1>3, <1>4, <1>5 DEF ToldOK, RequestOK, StandsOK, dataVars
<1> QED BY <1>1, <1>2, <1>6, IsAnswered

LEMMA Dial_Inv ==
  ASSUME IntakeInv, NEW r \in Senders, Dial(r)
  PROVE  IntakeInv'
<1> USE DEF Dial
<1>0. PICK m : m = request[r].lead
  OBVIOUS
<1>1. RequestOK(r) /\ request[r] \in Request /\ dials \in [LeadIds -> Nat] /\ "dialed" \in IntakeStages
  BY DEF IntakeInv, IntakeTypeOK, IntakeStages
<1>2. /\ request' \in [Senders -> Request] /\ request[r].stage = "calling"
      /\ request'[r] = [request[r] EXCEPT !.stage = "dialed"]
      /\ request'[r].stage = "dialed"
      /\ \A x \in Senders \ {r} : request'[x] = request[x]
  BY <1>1, StepFacts DEF IntakeInv
<1>3. /\ request'[r].kind = request[r].kind /\ request'[r].ref = request[r].ref
      /\ request'[r].call = request[r].call /\ request'[r].lead = m
      /\ request'[r].leadsThen = request[r].leadsThen /\ request'[r].optedThen = request[r].optedThen
      /\ request'[r].outcome = request[r].outcome
  BY <1>0, <1>1, <1>2 DEF Request
<1>4. m \in leads \ optedOut /\ m \in LeadIds /\ request[r].call
  BY <1>0, <1>1, <1>2 DEF IntakeInv, IntakeTypeOK, RequestOK, StandsOK
<1>5. /\ dials' \in [LeadIds -> Nat]
      /\ dials'[m] = dials[m] + 1 /\ \A l \in LeadIds \ {m} : dials'[l] = dials[l]
  BY <1>0, <1>1, <1>4
<1>6. LimiterInv' /\ leads' = leads /\ optedOut' = optedOut /\ token' = token
  BY LimiterStays DEF IntakeInv, limiterVars
<1>7. IntakeTypeOK'
  BY <1>2, <1>5, <1>6 DEF IntakeInv, IntakeTypeOK, LimiterInv
<1>8. r \in LeadIds /\ (r \in leads => m = r)
  BY <1>0, <1>1 DEF LeadIds, RequestOK, StandsOK
<1>9. StandsOK(r)'
  BY <1>1, <1>2, <1>3, <1>4, <1>5, <1>6, <1>8 DEF RequestOK, StandsOK
<1>10. \A l \in leads \intersect Senders : SameLead(l, r)' <=> SameLead(l, r)
  BY <1>2, <1>3 DEF SameLead
<1>11. SeesOK(r)'
  <2>1. request[r].kind = "sitesnsign" => ~(r \in leads /\ request[r].optedThen)
    BY <1>1, <1>4, <1>8 DEF RequestOK, SeesOK
  <2> QED BY <1>1, <1>2, <1>3, <1>6, <1>10, <2>1 DEF RequestOK, SeesOK
<1>12. ToldOK(r)'
  <2>1. request[r].outcome = "none"
    BY <1>1, <1>2 DEF RequestOK, StandsOK
  <2>2. r \in leads => dials'[r] > 0
    BY <1>1, <1>5, <1>8
  <2> QED BY <1>2, <1>3, <1>6, <2>1, <2>2 DEF ToldOK
<1>13. \A x \in Senders \ {r} : RequestOK(x)'
  BY <1>2, <1>3, <1>4, <1>5, <1>6, OtherRequestsKeep
<1>14. \A l \in LeadIds : dials'[l] <= Cardinality(Dialers(l)')
  <2> TAKE l \in LeadIds
  <2>1. Dialers(l) \subseteq Dialers(l)'
    BY <1>2 DEF Dialers
  <2>2. dials[l] \in Nat /\ dials[l] <= Cardinality(Dialers(l))
    BY DEF IntakeInv, IntakeTypeOK
  <2>3. CASE l # m
    BY <1>5, <2>1, <2>2, <2>3, DialersGrow
  <2>4. CASE l = m
    <3>1. Dialers(l)' = Dialers(l) \union {r} /\ r \notin Dialers(l)
      <4>1. r \notin Dialers(l)
        BY <1>2 DEF Dialers
      <4>2. r \in Dialers(l)'
        BY <1>2, <1>3, <1>4, <2>4 DEF Dialers
      <4>3. \A x \in Senders \ {r} : x \in Dialers(l)' <=> x \in Dialers(l)
        BY <1>2 DEF Dialers
      <4>4. Dialers(l) \subseteq Senders /\ Dialers(l)' \subseteq Senders
        BY DEF Dialers
      <4> QED BY <4>1, <4>2, <4>3, <4>4
    <3>2. Cardinality(Dialers(l)') = Cardinality(Dialers(l)) + 1
      BY <2>1, <3>1, DialersGrow, FS_AddElement
    <3>3. Cardinality(Dialers(l)) \in Nat
      BY <2>1, DialersGrow
    <3> QED BY <1>5, <2>2, <2>4, <3>2, <3>3
  <2> QED BY <2>3, <2>4
<1> QED BY <1>6, <1>7, <1>9, <1>11, <1>12, <1>13, <1>14 DEF IntakeInv, RequestOK

LEMMA IntakeDies_Inv ==
  ASSUME IntakeInv, NEW r \in Senders, IntakeDies(r)
  PROVE  IntakeInv'
<1>0. PICK from : from = request[r].stage
  OBVIOUS
<1>1. RequestOK(r) /\ request[r] \in Request /\ Step(r, from, "dead") /\ "dead" \in IntakeStages
      /\ from \notin {"none", "answered", "dead"}
  BY <1>0 DEF IntakeInv, IntakeTypeOK, IntakeStages, IntakeDies
<1>2. /\ request' \in [Senders -> Request]
      /\ request'[r] = [request[r] EXCEPT !.stage = "dead"]
      /\ request'[r].stage = "dead"
      /\ \A x \in Senders \ {r} : request'[x] = request[x]
  BY <1>1, StepFacts DEF IntakeInv
<1>3. /\ request'[r].kind = request[r].kind /\ request'[r].ref = request[r].ref
      /\ request'[r].call = request[r].call /\ request'[r].lead = request[r].lead
      /\ request'[r].leadsThen = request[r].leadsThen /\ request'[r].optedThen = request[r].optedThen
      /\ request'[r].outcome = request[r].outcome
  BY <1>1, <1>2 DEF Request
<1>4. UNCHANGED dataVars
  BY DEF IntakeDies
<1>5. LimiterInv'
  <2>1. PICK b : b \in Buckets
    BY IntakeBucketsAssumption
  <2> QED BY <2>1, LimiterKeeps, PriorLeadAssumption DEF IntakeInv, IntakeDies
<1>6. IntakeTypeOK'
  BY <1>2, <1>4, <1>5 DEF IntakeInv, IntakeTypeOK, LimiterInv, dataVars
<1>7. request[r].outcome = "none"
  BY <1>0, <1>1 DEF RequestOK, StandsOK
<1>8. StandsOK(r)'
  BY <1>1, <1>2, <1>3, <1>4, <1>7 DEF RequestOK, StandsOK, dataVars
<1>9. \A l \in leads \intersect Senders : SameLead(l, r)' <=> SameLead(l, r)
  BY <1>2, <1>3 DEF SameLead
<1>10. SeesOK(r)'
  BY <1>1, <1>2, <1>3, <1>4, <1>9 DEF RequestOK, SeesOK, dataVars
<1>11. ToldOK(r)'
  BY <1>2, <1>3, <1>4, <1>7 DEF ToldOK, dataVars
<1>12. \A l \in LeadIds : r \in Dialers(l) => r \in Dialers(l)'
  BY <1>2, <1>3 DEF Dialers
<1> QED BY <1>2, <1>3, <1>4, <1>5, <1>6, <1>8, <1>10, <1>11, <1>12, QuietStep DEF RequestOK

LEMMA Around_Inv ==
  ASSUME IntakeInv,
         \/ \E l \in LeadIds : OptOut(l)
         \/ \E b \in Buckets : HitExpires(b) /\ UNCHANGED <<request, dataVars>>
         \/ Rotate
         \/ UNCHANGED intakeVars
  PROVE  IntakeInv'
<1>1. LimiterInv'
  <2>1. CASE UNCHANGED <<hits, counting>>
    BY <2>1, LimiterStays DEF IntakeInv
  <2>2. CASE \E b \in Buckets : HitExpires(b)
    <3>1. PICK c : c \in Callers
      BY CallersAssumption
    <3> QED BY <2>2, <3>1, LimiterKeeps DEF IntakeInv
  <2> QED BY <2>1, <2>2 DEF OptOut, Rotate, limiterVars, intakeVars
<1>2. UNCHANGED <<request, leads, dials>> /\ optedOut \subseteq optedOut'
  BY DEF OptOut, Rotate, dataVars, intakeVars
<1>3. optedOut' \subseteq leads /\ token' \in Nat
  BY DEF OptOut, Rotate, dataVars, intakeVars, IntakeInv, IntakeTypeOK
<1>4. IntakeTypeOK'
  BY <1>1, <1>2, <1>3 DEF IntakeInv, IntakeTypeOK, LimiterInv
<1> QED BY <1>1, <1>2, <1>4, Surroundings

LEMMA IntakeStep_Inv == IntakeInv /\ [IntakeNext]_intakeVars => IntakeInv'
<1> SUFFICES ASSUME IntakeInv, [IntakeNext]_intakeVars PROVE IntakeInv'
  OBVIOUS
<1>1. CASE UNCHANGED intakeVars
  BY <1>1, Around_Inv
<1>2. CASE \E r \in Senders, k \in Kinds, x \in Refs, call \in BOOLEAN, l \in leads \union {NoLead} :
             Receive(r, k, x, call, l)
  BY <1>2, Receive_Inv
<1>3. ASSUME NEW r \in Senders, IntakeStep(r) PROVE IntakeInv'
  <2>1. CASE FindLead(r)
    BY <2>1, Existing_Inv, Onwards_Inv DEF FindLead
  <2> QED BY <1>3, <2>1, Onwards_Inv, Unauthorized_Inv, Invalid_Inv, ReadOptOut_Inv, CommitLead_Inv,
             Refused_Inv, Dial_Inv, RecordCall_Inv DEF IntakeStep
<1>4. CASE \E r \in Senders : IntakeDies(r)
  BY <1>4, IntakeDies_Inv
<1>5. CASE \/ \E l \in LeadIds : OptOut(l)
           \/ \E b \in Buckets : HitExpires(b) /\ UNCHANGED <<request, dataVars>>
           \/ Rotate
  BY <1>5, Around_Inv
<1> QED BY <1>1, <1>2, <1>3, <1>4, <1>5 DEF IntakeNext

\* The inductive invariant of the webhooks' requests: where each stands, which
\* lead it created, found or called, and what it was told.
THEOREM IntakeInvariantHolds == IntakeSpec => []IntakeInv
BY IntakeInit_Inv, IntakeStep_Inv, PTL DEF IntakeSpec

LEMMA RetriesHonoured == IntakeInv => RetriesAndOptOutsHonoured
<1> SUFFICES ASSUME IntakeInv PROVE RetriesAndOptOutsHonoured
  OBVIOUS
<1>1. leads \subseteq Senders \union {PriorLead}
  BY DEF IntakeInv, IntakeTypeOK, LeadIds
<1>2. ASSUME NEW x \in Refs, NEW l \in LeadsOf(x), NEW m \in LeadsOf(x), l # m
      PROVE  l \notin request[m].leadsThen
  <2>1. l \in Senders /\ m \in Senders /\ m \in leads /\ SameLead(l, m) /\ request[m].kind = "sitesnsign"
    BY <1>1 DEF LeadsOf, SameLead
  <2> QED BY <2>1 DEF IntakeInv, RequestOK, SeesOK
<1>3. ASSUME NEW l \in leads \ {PriorLead}
      PROVE  dials[l] <= Cardinality({r \in Senders : request[r].lead = l /\ request[r].call})
  <2> DEFINE Meant == {r \in Senders : request[r].lead = l /\ request[r].call}
  <2>1. IsFiniteSet(Senders) /\ Meant \subseteq Senders /\ Dialers(l) \subseteq Meant
    BY CallersAssumption, PriorLeadAssumption, FS_Subset DEF Dialers
  <2>2. IsFiniteSet(Meant) /\ IsFiniteSet(Dialers(l)) /\ Cardinality(Dialers(l)) <= Cardinality(Meant)
    BY <2>1, FS_Subset
  <2>3. Cardinality(Meant) \in Nat /\ Cardinality(Dialers(l)) \in Nat
    BY <2>2, FS_CardinalityType
  <2>4. dials[l] \in Nat /\ dials[l] <= Cardinality(Dialers(l))
    BY <1>1 DEF IntakeInv, IntakeTypeOK, LeadIds
  <2> QED BY <2>2, <2>3, <2>4
<1>4. ASSUME NEW l \in leads \ {PriorLead}, request[l].kind = "sitesnsign", request[l].optedThen
      PROVE  dials[l] = 0
  BY <1>1, <1>4 DEF IntakeInv, RequestOK, SeesOK
<1> QED BY <1>2, <1>3, <1>4 DEF RetriesAndOptOutsHonoured

\* A repeated delivery of a sitesnsign.com lead creates a second row only while
\* the first is still being processed; a lead is dialed no more often than
\* requests asked for it, and not at all when its number had opted out before.
THEOREM RetriesAndOptOutsAreHonoured == IntakeSpec => []RetriesAndOptOutsHonoured
BY IntakeInvariantHolds, RetriesHonoured, PTL

LEMMA UncalledCause == IntakeInv => UncalledLeadHasCause
<1> SUFFICES ASSUME IntakeInv, NEW r \in Senders,
                    request[r].kind = "sitesnsign", request[r].call, Status(r) \in {200, 201},
                    \A l \in LeadsOf(request[r].ref) : dials[l] = 0
             PROVE  \E q \in Senders :
                      /\ request[q].kind = "sitesnsign" /\ request[q].ref = request[r].ref
                      /\ \/ request[q].outcome \in {"blocked", "noProvider"}
                         \/ Status(q) = 500
                         \/ request[q].stage \in {"calling", "dead"}
                         \/ request[q].stage = "answered" /\ ~request[q].call
  BY DEF UncalledLeadHasCause
<1>1. request[r].outcome \in Outcomes /\ RequestOK(r)
  BY DEF IntakeInv, IntakeTypeOK, Request
<1>2. request[r].outcome \in {"existing", "placed", "blocked", "noProvider"}
  BY <1>1 DEF Status, Outcomes, RequestOK, ToldOK
<1>3. ASSUME NEW l \in leads \intersect Senders, SameLead(l, r)
      PROVE  l \in LeadsOf(request[r].ref) /\ dials[l] = 0
  BY <1>3, PriorLeadAssumption DEF LeadsOf, SameLead
<1>4. CASE request[r].outcome \in {"blocked", "noProvider"}
  BY <1>4
<1>5. CASE request[r].outcome = "placed"
  BY <1>1, <1>3, <1>5 DEF RequestOK, ToldOK, SameLead
<1>6. CASE request[r].outcome = "existing"
  <2>1. PICK l \in leads \intersect Senders : SameLead(l, r)
    BY <1>1, <1>6 DEF RequestOK, ToldOK
  <2>2. dials[l] = 0 /\ RequestOK(l) /\ request[l].kind = "sitesnsign"
    BY <1>3, <2>1 DEF IntakeInv, SameLead
  <2>3. \/ request[l].stage \in {"calling", "dead"}
        \/ request[l].stage = "answered" /\ ~request[l].call
        \/ request[l].outcome \in {"blocked", "noBalance", "noProvider", "failed"}
    BY <2>2 DEF RequestOK, StandsOK, ToldOK
  <2>4. request[l].outcome \in {"noBalance", "failed"} => Status(l) = 500
    BY <2>2 DEF Status
  <2> QED BY <2>1, <2>3, <2>4 DEF SameLead
<1> QED BY <1>2, <1>4, <1>5, <1>6

\* A sender that is told 2xx of a lead to be called has had it called, unless a
\* request for that number was told that it is blocked, or did not get to the
\* call after it had stored the lead.
THEOREM UncalledLeadsHaveCause == IntakeSpec => []UncalledLeadHasCause
BY IntakeInvariantHolds, UncalledCause, PTL

\* The webhooks' rate limit: concurrent requests exceed it by one less than the
\* callers at most.
THEOREM WebhooksAreLimited == IntakeSpec => []RateOvershoot
<1>1. IntakeInv => RateOvershoot
  BY DEF IntakeInv, LimiterInv
<1> QED BY <1>1, IntakeInvariantHolds, PTL
================================================================================
