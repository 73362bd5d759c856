---------------------------- MODULE ConnectionPool -----------------------------
(***************************************************************************)
(* The process's one pg.Pool (lib/db/pool.ts) under the requests that use  *)
(* it.  A transaction (withTenant, lib/db/tenant.ts) holds a connection    *)
(* until it ends; some wait inside it: for the wallet's row, or for a      *)
(* second connection.  connect() has no timeout, and Postgres sees no      *)
(* cycle, since half of it is in the process.                              *)
(***************************************************************************)
EXTENDS Naturals, Sequences, FiniteSets

CONSTANTS Requests,
          MaxConnections,  \* max of the pool, 10 by default
          NoRequest

ASSUME MaxConnectionsAssumption == MaxConnections \in Nat \ {0}
ASSUME NoRequestAssumption == NoRequest \notin Requests

VARIABLES user,     \* what each request is and where it stands
          waiting,  \* pg.Pool's queue of connect() calls
          walletRow \* who holds the wallet's row, SELECT ... FOR UPDATE

poolVars == <<user, waiting, walletRow>>

\* call: createOutboundCall; topup: createWalletTopupOrder; charge, adjustment: a
\* debit of applyWalletTransaction for a call, or for anything else; credit: of
\* either kind; short: any other transaction.
Uses == {"call", "topup", "charge", "adjustment", "credit", "short"}
Spots == {"new", "connecting", "begun", "locking", "locked", "nesting", "nested", "returned", "over"}

PoolTypeOK ==
  /\ user \in [Requests -> [use : Uses, at : Spots]]
  /\ waiting \in Seq(Requests)
  /\ walletRow \in Requests \union {NoRequest}

PoolInit ==
  /\ user \in [Requests -> [use : Uses, at : {"new"}]]
  /\ waiting = <<>>
  /\ walletRow = NoRequest

------------------------------------------------------------------------------
Holding(r) == user[r].at \notin {"new", "connecting", "over"}
Connections == Cardinality({r \in Requests : Holding(r)}) + Cardinality({r \in Requests : user[r].at = "nested"})

Goes(r, from, to) == user[r].at = from /\ user' = [user EXCEPT ![r].at = to]

\* pool.connect(), of a transaction or inside one.
Connect(r, from, to) == Goes(r, from, to) /\ waiting' = Append(waiting, r)

OpenTransaction(r) ==
  /\ Connect(r, "new", "connecting")
  /\ UNCHANGED walletRow

\* The pool hands out a new or a released connection, first come, first served.
Grant ==
  /\ waiting # <<>>
  /\ Connections < MaxConnections
  /\ LET r == Head(waiting) IN
       user' = [user EXCEPT ![r].at = IF @ = "connecting" THEN "begun" ELSE "nested"]
  /\ waiting' = Tail(waiting)
  /\ UNCHANGED walletRow

\* Mutant: createOutboundCall as it was, without the client in opts.
NestsProviderAlways(use) == use \in {"call", "topup"}

\* getProvider() opens a transaction of its own unless it is given the client:
\* createOutboundCall gives it, createWalletTopupOrder does not.
NestsProvider(use) == use = "topup"

NeedsRow(use) == use \in {"charge", "adjustment", "credit"}

\* getProvider() inside the transaction.
ResolveProvider(r) ==
  /\ NestsProvider(user[r].use)
  /\ Connect(r, "begun", "nesting")
  /\ UNCHANGED walletRow

WaitForRow(r) ==
  /\ NeedsRow(user[r].use)
  /\ Goes(r, "begun", "locking")
  /\ UNCHANGED <<waiting, walletRow>>

LockRow(r) ==
  /\ walletRow = NoRequest
  /\ Goes(r, "locking", "locked")
  /\ walletRow' = r
  /\ UNCHANGED waiting

\* logAuditEvent(), before the error that rolls back: no audit for a call's charge.
RefuseDebit(r) ==
  /\ user[r].use = "adjustment"
  /\ Connect(r, "locked", "nesting")
  /\ UNCHANGED walletRow

\* The inner transaction ends and gives its connection back.
Return(r) ==
  /\ Goes(r, "nested", "returned")
  /\ UNCHANGED <<waiting, walletRow>>

\* COMMIT, or any error and ROLLBACK; release().  A call has by then dialed.
Finish(r) ==
  /\ \/ user[r].at = "begun" /\ user[r].use \in {"call", "short"}
     \/ user[r].at \in {"locked", "returned"}
  /\ user' = [user EXCEPT ![r].at = "over"]
  /\ walletRow' = IF walletRow = r THEN NoRequest ELSE walletRow
  /\ UNCHANGED waiting

\* An error before that: every statement may fail (logAuditEvent() hides its own).
Fail(r) ==
  /\ \/ user[r].at = "begun"
     \/ user[r].at = "nested" /\ user[r].use = "topup"
  /\ user' = [user EXCEPT ![r].at = "over"]
  /\ UNCHANGED <<waiting, walletRow>>

PoolNext ==
  \/ Grant
  \/ \E r \in Requests :
       OpenTransaction(r) \/ ResolveProvider(r) \/ WaitForRow(r) \/ LockRow(r)
       \/ RefuseDebit(r) \/ Return(r) \/ Finish(r) \/ Fail(r)

PoolSpec == PoolInit /\ [][PoolNext]_poolVars
------------------------------------------------------------------------------
(* Properties.                                                             *)

\* A request that only another's step can let go on.
Waits(r) ==
  \/ user[r].at = "nesting"
  \/ user[r].at = "locking" /\ walletRow # NoRequest

Jammed == Connections = MaxConnections /\ \A r \in Requests : Holding(r) => Waits(r)

\* docs/LOAD_TESTING.md and registry.ts ("the fix"): a transaction that reuses its
\* connection leaves the pool able to go on.  The pool never jams.
PoolNeverJams == ~Jammed

\* It jams in two ways only.  Either each connection is held by a top-up that
\* resolves its provider; or an adjustment that is refused holds the wallet's row,
\* and each of the others waits for that row or is such a top-up.  No outbound call
\* and no short transaction is ever part of it, and neither are charges and credits
\* alone.
JamNeedsNesting == Jammed => \A r \in Requests : Holding(r) =>
  \/ user[r].use = "topup" /\ user[r].at = "nesting"
  \/ NeedsRow(user[r].use) /\ walletRow # NoRequest
       /\ user[walletRow].use = "adjustment" /\ user[walletRow].at = "nesting"
==============================================================================
