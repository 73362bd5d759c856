------------------------------- MODULE Wallet --------------------------------
(***************************************************************************)
(* The prepaid wallet of one organization: applyWalletTransaction          *)
(* (apps/web/lib/billing/wallet.ts), called by concurrent requests, and    *)
(* credit_wallet_from_payment (db/migrations/012_phase7_billing.sql),      *)
(* called by the payment webhook for the orders of paymentOrders.ts.       *)
(*                                                                         *)
(* A request of applyWalletTransaction is one transaction of several       *)
(* statements; what it has written is private until it commits, so its     *)
(* writes appear in the step that commits.  credit_wallet_from_payment is  *)
(* one statement.  Each holds a connection of the process's pool until it  *)
(* ends, and an audited refusal waits for a second one.  Amounts are whole *)
(* units.                                                                  *)
(***************************************************************************)
EXTENDS Integers, Sequences, FiniteSets

CONSTANTS Clients,    \* requests inside applyWalletTransaction
          NoClient,   \* nobody locks the wallet row
          AppKeys,    \* idempotency keys chosen by callers
          NoKey,      \* a call without idempotency key
          NoCall,     \* a request that has nothing to do
          Orders,     \* payment orders
          Captures,   \* captured events the gateway may send for one order
          Amounts,    \* amounts moved by one call
          MaxConnections, \* connections of the pool
          MaxEntries  \* no request starts once the ledger has this many entries

ASSUME NoClientAssumption == NoClient \notin Clients
ASSUME AmountsAssumption == Amounts \subseteq Nat \ {0}
\* Callers' keys are not the gateway's.
ASSUME KeysAssumption == /\ AppKeys \cap (Orders \X Captures) = {}
                         /\ NoKey \notin AppKeys \union (Orders \X Captures)
ASSUME NoCallAssumption ==
  NoCall \notin [type : {"credit", "debit", "charge"}, amount : Amounts,
                 key : AppKeys \union {NoKey}]
ASSUME MaxConnectionsAssumption == MaxConnections \in Nat \ {0}
ASSUME MaxEntriesAssumption == MaxEntries \in Nat

VARIABLES wallet,    \* the committed wallets row
          lock,      \* whose transaction locks that row (or is inserting it)
          ledger,    \* the committed wallet_transactions, in commit order
          client,    \* the requests
          order,     \* the payment_orders table
          recorded,  \* the payment_webhook_events table
          delivering \* the events whose delivery is inside its statement

vars == <<wallet, lock, ledger, client, order, recorded, delivering>>

------------------------------------------------------------------------------
\* A captured event is one of an order's; its idempotency key is its own.
Events == Orders \X Captures

EntryKeys == AppKeys \union Events

\* A charge is a debit whose reason is call_charge.
Call == [type : {"credit", "debit", "charge"}, amount : Amounts, key : AppKeys \union {NoKey}]

\* Where a request stands:
\*   idle     not started, or answered
\*   connect  withTenant() waits for a connection
\*   select   BEGIN; SELECT ... FOR UPDATE is next
\*   insert   the SELECT found no row; INSERT INTO wallets is next
\*   apply    the row is locked and its balance seen
\*   audit    refused, logAuditEvent() waits for a connection of its own
\*   logging  ... and has it
Stages == {"idle", "connect", "select", "insert", "apply", "audit", "logging"}

\* The stages past the row's lock.
Locked == {"apply", "audit", "logging"}

Request == [stage : Stages, call : Call \union {NoCall}, seen : Int]

IdleRequest == [stage |-> "idle", call |-> NoCall, seen |-> 0]

TypeOK ==
  /\ wallet \in [exists : BOOLEAN, balance : Int]
  /\ lock \in Clients \union {NoClient}
  /\ ledger \in Seq([delta : Int, after : Int, key : EntryKeys \union {NoKey}])
  /\ client \in [Clients -> Request]
  /\ order \in [Orders -> [status : {"none", "created", "paid"}, amount : Amounts]]
  /\ recorded \subseteq Events
  /\ delivering \subseteq Events

Init ==
  /\ wallet = [exists |-> FALSE, balance |-> 0]
  /\ lock = NoClient
  /\ ledger = <<>>
  /\ client = [c \in Clients |-> IdleRequest]
  /\ order \in [Orders -> [status : {"none"}, amount : Amounts]]
  /\ recorded = {}
  /\ delivering = {}

------------------------------------------------------------------------------
(* The pool, as far as it serves this wallet.                              *)

Holds(c) == client[c].stage \notin {"idle", "connect"}

Connections ==
  Cardinality({c \in Clients : Holds(c)})
    + Cardinality({c \in Clients : client[c].stage = "logging"})
    + Cardinality(delivering)

Free == Connections < MaxConnections

------------------------------------------------------------------------------
(* applyWalletTransaction().                                               *)

Delta(call) == IF call.type = "credit" THEN call.amount ELSE -call.amount

\* A ledger row with the call's idempotency key exists.
Posted(key) == \E i \in DOMAIN ledger : ledger[i].key = key

Begin(c, call) ==
  /\ client[c].stage = "idle"
  /\ Len(ledger) < MaxEntries
  /\ client' = [client EXCEPT ![c] = [stage |-> "connect", call |-> call, seen |-> 0]]
  /\ UNCHANGED <<wallet, lock, ledger, order, recorded, delivering>>

\* pool.connect(), without a timeout; BEGIN.
Connect(c) ==
  /\ client[c].stage = "connect"
  /\ Free
  /\ client' = [client EXCEPT ![c].stage = "select"]
  /\ UNCHANGED <<wallet, lock, ledger, order, recorded, delivering>>

\* Mutant: the SELECT without FOR UPDATE.
LockWalletUnlocked(c) ==
  /\ client[c].stage = "select"
  /\ wallet.exists
  /\ client' = [client EXCEPT ![c].stage = "apply", ![c].seen = wallet.balance]
  /\ UNCHANGED <<wallet, lock, ledger, order, recorded, delivering>>

\* getOrCreateWallet(): SELECT ... FOR UPDATE, which waits for the row's lock.
LockWallet(c) ==
  /\ client[c].stage = "select"
  /\ wallet.exists
  /\ lock = NoClient
  /\ lock' = c
  /\ client' = [client EXCEPT ![c].stage = "apply", ![c].seen = wallet.balance]
  /\ UNCHANGED <<wallet, ledger, order, recorded, delivering>>

\* ... which sees no row, not even one another transaction is inserting.
FindNoWallet(c) ==
  /\ client[c].stage = "select"
  /\ ~wallet.exists
  /\ client' = [client EXCEPT ![c].stage = "insert"]
  /\ UNCHANGED <<wallet, lock, ledger, order, recorded, delivering>>

\* getOrCreateWallet(): INSERT INTO wallets, waiting for a concurrent insert.
InsertWallet(c) ==
  /\ client[c].stage = "insert"
  /\ lock = NoClient
  /\ ~wallet.exists
  /\ lock' = c
  /\ client' = [client EXCEPT ![c].stage = "apply", ![c].seen = 0]
  /\ UNCHANGED <<wallet, ledger, order, recorded, delivering>>

\* COMMIT or ROLLBACK: the row is unlocked and the caller answered.
Answer(c) ==
  /\ client' = [client EXCEPT ![c] = IdleRequest]
  /\ lock' = IF lock = c THEN NoClient ELSE lock

\* ... and refused by the unique index once that one is committed.
InsertConflicts(c) ==
  /\ client[c].stage = "insert"
  /\ wallet.exists
  /\ Answer(c)
  /\ UNCHANGED <<wallet, ledger, order, recorded, delivering>>

\* Mutant: the balance tested is the one before the debit.
OverdrawsBefore(c) == client[c].call.type # "credit" /\ client[c].seen < 0

\* The overdraft test, made before the idempotency test.
Overdraws(c) ==
  /\ client[c].call.type # "credit"
  /\ client[c].seen + Delta(client[c].call) < 0

\* Of an overdraft only a charge is refused without an audit row.
Refused(c) ==
  \/ client[c].stage = "apply" /\ Overdraws(c) /\ client[c].call.type = "charge"
  \/ client[c].stage = "logging"

\* Mutant: the thrown error skips the ROLLBACK.
RefuseOpen(c) ==
  /\ Refused(c)
  /\ client' = [client EXCEPT ![c] = IdleRequest]
  /\ UNCHANGED <<wallet, lock, ledger, order, recorded, delivering>>

\* InsufficientBalanceError; a row inserted by this transaction disappears.
Refuse(c) ==
  /\ Refused(c)
  /\ Answer(c)
  /\ UNCHANGED <<wallet, ledger, order, recorded, delivering>>

\* logAuditEvent() asks the pool, the row still locked.
BeginAudit(c) ==
  /\ client[c].stage = "apply"
  /\ Overdraws(c)
  /\ client[c].call.type = "debit"
  /\ client' = [client EXCEPT ![c].stage = "audit"]
  /\ UNCHANGED <<wallet, lock, ledger, order, recorded, delivering>>

\* ... and gets its second connection.
Audit(c) ==
  /\ client[c].stage = "audit"
  /\ Free
  /\ client' = [client EXCEPT ![c].stage = "logging"]
  /\ UNCHANGED <<wallet, lock, ledger, order, recorded, delivering>>

\* A retried call: nothing is applied.
Duplicate(c) ==
  /\ client[c].stage = "apply"
  /\ ~Overdraws(c)
  /\ client[c].call.key # NoKey /\ Posted(client[c].call.key)
  /\ Answer(c)
  /\ UNCHANGED <<wallet, ledger, order, recorded, delivering>>

\* The new balance is the one seen plus the call's amount; one ledger row.
Write(c) ==
  /\ wallet' = [exists |-> TRUE, balance |-> client[c].seen + Delta(client[c].call)]
  /\ ledger' = Append(ledger, [delta |-> Delta(client[c].call),
                               after |-> wallet'.balance,
                               key |-> client[c].call.key])

\* Mutant: no idempotency test, and no unique index to catch it.
ApplyUnkeyed(c) ==
  /\ client[c].stage = "apply"
  /\ ~Overdraws(c)
  /\ Write(c)
  /\ Answer(c)
  /\ UNCHANGED <<order, recorded, delivering>>

\* UPDATE wallets, INSERT INTO wallet_transactions, COMMIT.
Apply(c) ==
  /\ client[c].stage = "apply"
  /\ ~Overdraws(c)
  /\ client[c].call.key = NoKey \/ ~Posted(client[c].call.key)
  /\ Write(c)
  /\ Answer(c)
  /\ UNCHANGED <<order, recorded, delivering>>

\* A statement fails or the connection breaks.  The transaction is rolled back and the caller told;
\* logAuditEvent() hides its own errors, and then the caller is refused.
Fail(c) ==
  /\ client[c].stage # "idle"
  /\ Answer(c)
  /\ UNCHANGED <<wallet, ledger, order, recorded, delivering>>

------------------------------------------------------------------------------
(* Payments.                                                               *)

\* createWalletTopupOrder(): the link exists and its order is committed.
CreateOrder(o) ==
  /\ order[o].status = "none"
  /\ order' = [order EXCEPT ![o].status = "created"]
  /\ UNCHANGED <<wallet, lock, ledger, client, recorded, delivering>>

\* A delivery of a captured event has a connection; the function runs.
Deliver(e) ==
  /\ e \notin delivering
  /\ Free
  /\ delivering' = delivering \union {e}
  /\ UNCHANGED <<wallet, lock, ledger, client, order, recorded>>

Delivered(e) == e \in delivering /\ delivering' = delivering \ {e}

\* Mutants: a redelivery is not told from a new event, ...
CreditEveryDelivery(e) ==
  /\ Delivered(e)
  /\ order[e[1]].status # "none"
  /\ lock = NoClient
  /\ Len(ledger) < MaxEntries
  /\ recorded' = recorded \union {e}
  /\ order' = [order EXCEPT ![e[1]].status = "paid"]
  /\ wallet' = [exists |-> TRUE, balance |-> wallet.balance + order[e[1]].amount]
  /\ ledger' = Append(ledger, [delta |-> order[e[1]].amount,
                               after |-> wallet'.balance, key |-> e])
  /\ UNCHANGED <<lock, client>>

\* ... and the order takes the gateway's own word for its status.
CreditCaptured(e) ==
  /\ Delivered(e)
  /\ order[e[1]].status # "none"
  /\ e \notin recorded
  /\ lock = NoClient
  /\ recorded' = recorded \union {e}
  /\ order' = [order EXCEPT ![e[1]].status = "captured"]
  /\ UNCHANGED <<wallet, lock, ledger, client>>

\* credit_wallet_from_payment() for a new event; its UPDATE of wallets waits
\* for the row's lock.  The order's status is not looked at.
Credit(e) ==
  /\ Delivered(e)
  /\ order[e[1]].status # "none"
  /\ e \notin recorded /\ ~Posted(e)
  /\ lock = NoClient
  /\ recorded' = recorded \union {e}
  /\ order' = [order EXCEPT ![e[1]].status = "paid"]
  /\ wallet' = [exists |-> TRUE, balance |-> wallet.balance + order[e[1]].amount]
  /\ ledger' = Append(ledger, [delta |-> order[e[1]].amount,
                               after |-> wallet'.balance, key |-> e])
  /\ UNCHANGED <<lock, client>>

\* A retried delivery, or one for an order nobody knows: no change.
Redeliver(e) ==
  /\ Delivered(e)
  /\ e \in recorded \/ order[e[1]].status = "none"
  /\ UNCHANGED <<wallet, lock, ledger, client, order, recorded>>

\* The statement or its connection fails; the gateway may deliver again.
DeliveryFails(e) ==
  /\ Delivered(e)
  /\ UNCHANGED <<wallet, lock, ledger, client, order, recorded>>

------------------------------------------------------------------------------
Step(c) ==
  \/ Connect(c) \/ LockWallet(c) \/ FindNoWallet(c) \/ InsertWallet(c)
  \/ InsertConflicts(c) \/ BeginAudit(c) \/ Audit(c) \/ Refuse(c) \/ Duplicate(c) \/ Apply(c)

Next ==
  \/ \E c \in Clients : Step(c) \/ Fail(c) \/ \E call \in Call : Begin(c, call)
  \/ \E o \in Orders : CreateOrder(o)
  \/ \E e \in Events : Deliver(e) \/ Credit(e) \/ Redeliver(e) \/ DeliveryFails(e)

Spec == Init /\ [][Next]_vars

\* Postgres queues the waiters for a row lock and pg.Pool its callers, first
\* come, first served, hence strong fairness: a transaction that can go on, now
\* and then while it waits, does.
FairSpec ==
  /\ Spec
  /\ \A c \in Clients : SF_vars(Step(c))
  /\ \A e \in Events : SF_vars(Credit(e) \/ Redeliver(e))

------------------------------------------------------------------------------
(* Properties.                                                             *)

\* wallet.ts promises that "the ledger and the balance can never drift apart":
\* every entry starts from the balance the one before it left, and the row
\* holds what the last one left, however requests and webhooks overlap.
LedgerMatchesBalance ==
  /\ \A i \in DOMAIN ledger :
       ledger[i].after = ledger[i].delta + IF i = 1 THEN 0 ELSE ledger[i - 1].after
  /\ wallet.balance = IF ledger = <<>> THEN 0 ELSE ledger[Len(ledger)].after

\* No overlap of debits takes the wallet below zero, not even for a moment.
NeverOverdrawn == \A i \in DOMAIN ledger : ledger[i].after >= 0

\* paymentOrders.ts: "a retried delivery credits at most once".  Per event, not
\* per order: the order is paid exactly when one of its events was credited.
EventCreditedOnce ==
  /\ \A e \in Events : e \in recorded <=> Posted(e)
  /\ \A i, k \in DOMAIN ledger : ledger[i].key \in Events /\ ledger[i].key = ledger[k].key
       => i = k
  /\ \A o \in Orders : order[o].status = "paid" <=> \E e \in recorded : e[1] = o

\* What a transaction waits for is the lock of the wallet's row.
WaitsForRow(c) ==
  \/ client[c].stage = "select" /\ wallet.exists
  \/ client[c].stage = "insert" /\ ~wallet.exists

\* A refused debit holds the row and waits for a connection, and everybody who
\* has one waits for the row.
Starved == \E d \in Clients :
  /\ client[d].stage = "audit" /\ ~Free
  /\ \A c \in Clients : Holds(c) => c = d \/ WaitsForRow(c)
  /\ \A e \in delivering : order[e[1]].status # "none" /\ e \notin recorded

\* wallet.ts puts the audit of a refusal on a connection of its own "because this
\* transaction is about to throw and roll back".  Every request gets its answer,
\* whatever way it leaves the transaction and whoever it waits for, unless that
\* connection is one the pool can no longer give.
EveryRequestAnswered == \A c \in Clients :
  client[c].stage # "idle" ~> client[c].stage = "idle" \/ Starved

Account == INSTANCE AccountLedger WITH
  balance <- wallet.balance,
  entries <- [i \in DOMAIN ledger |-> [delta |-> ledger[i].delta, key |-> ledger[i].key]]

\* With connections and locks hidden the wallet is an account ledger: the
\* balance moves only with an entry, never below zero, and no key is used twice.
IsAccountLedger == Account!LSpec
==============================================================================
