---------------------------- MODULE WalletProofs -----------------------------
(***************************************************************************)
(* Theorems about Wallet, for every set of requests, keys, orders, events  *)
(* and amounts, and for ledgers of any length.                             *)
(***************************************************************************)
EXTENDS Wallet, SequenceTheorems, TLAPS

Entry == [delta : Int, after : Int, key : EntryKeys \union {NoKey}]

\* A request holds the row lock exactly while it has the balance in hand, an
\* audit of its refusal included, and what it has in hand is the balance.
LockInv == \A c \in Clients :
  /\ client[c].stage \in Locked <=> lock = c
  /\ client[c].stage # "idle" => client[c].call \in Call
  /\ client[c].stage \in Locked => client[c].seen = wallet.balance

\* Before the wallet exists nothing was posted.
NoWalletInv == ~wallet.exists => wallet.balance = 0 /\ ledger = <<>>

IInv ==
  /\ TypeOK
  /\ LockInv
  /\ NoWalletInv
  /\ LedgerMatchesBalance
  /\ NeverOverdrawn
  /\ EventCreditedOnce

------------------------------------------------------------------------------
\* The balance is never negative: it is the last entry's.
LEMMA BalanceNat == IInv => wallet.balance \in Nat
<1> SUFFICES ASSUME IInv PROVE wallet.balance \in Nat
  OBVIOUS
<1>1. ledger \in Seq(Entry) /\ wallet.balance \in Int
  BY DEF IInv, TypeOK, Entry
<1>2. CASE ledger = <<>>
  BY <1>2 DEF IInv, LedgerMatchesBalance
<1>3. CASE ledger # <<>>
  <2>1. Len(ledger) \in DOMAIN ledger
    BY <1>1, <1>3
  <2>2. wallet.balance = ledger[Len(ledger)].after
    BY <1>3 DEF IInv, LedgerMatchesBalance
  <2>3. ledger[Len(ledger)].after >= 0
    BY <2>1 DEF IInv, NeverOverdrawn
  <2> QED BY <1>1, <2>2, <2>3
<1> QED BY <1>2, <1>3

\* What appending does to a ledger.
LEMMA Appended ==
  ASSUME NEW s \in Seq(Entry), NEW x \in Entry
  PROVE  /\ Append(s, x) \in Seq(Entry)
         /\ Append(s, x) # <<>>
         /\ Len(s) \in Nat
         /\ Len(Append(s, x)) = Len(s) + 1
         /\ DOMAIN Append(s, x) = 1 .. Len(s) + 1
         /\ DOMAIN s = 1 .. Len(s)
         /\ \A i \in 1 .. Len(s) : Append(s, x)[i] = s[i]
         /\ Append(s, x)[Len(s) + 1] = x
         /\ s = <<>> <=> Len(s) = 0
  OBVIOUS

\* Posting one entry that starts from the current balance keeps the ledger's
\* chain, keeps it above zero, and makes exactly its key a used one.
LEMMA Posting ==
  ASSUME IInv, NEW delta \in Int, NEW key \in EntryKeys \union {NoKey},
         wallet.balance + delta >= 0,
         wallet' = [exists |-> TRUE, balance |-> wallet.balance + delta],
         ledger' = Append(ledger, [delta |-> delta, after |-> wallet'.balance, key |-> key])
  PROVE  /\ wallet' \in [exists : BOOLEAN, balance : Int]
         /\ ledger' \in Seq(Entry)
         /\ LedgerMatchesBalance'
         /\ NeverOverdrawn'
         /\ NoWalletInv'
         /\ \A k : Posted(k)' <=> Posted(k) \/ k = key
         /\ ledger'[Len(ledger) + 1].key = key
         /\ \A i \in DOMAIN ledger : ledger'[i].key = ledger[i].key
         /\ DOMAIN ledger' = DOMAIN ledger \union {Len(ledger) + 1}
         /\ Len(ledger) + 1 \notin DOMAIN ledger
<1> DEFINE after == wallet.balance + delta
           x == [delta |-> delta, after |-> after, key |-> key]
           n == Len(ledger) + 1
<1>1. ledger \in Seq(Entry) /\ wallet.balance \in Int /\ after \in Int
  BY DEF IInv, TypeOK, Entry
<1>2. x \in Entry /\ x.after = after /\ x.delta = delta /\ x.key = key
  BY <1>1 DEF Entry
<1>3. ledger' = Append(ledger, x) /\ wallet'.balance = after /\ wallet'.exists
  OBVIOUS
<1>4. wallet' \in [exists : BOOLEAN, balance : Int]
  BY <1>1
<1> HIDE DEF x
<1>5. /\ ledger' \in Seq(Entry) /\ ledger' # <<>> /\ Len(ledger) \in Nat
      /\ Len(ledger') = n
      /\ DOMAIN ledger' = 1 .. n /\ DOMAIN ledger = 1 .. Len(ledger)
      /\ \A i \in 1 .. Len(ledger) : ledger'[i] = ledger[i]
      /\ ledger'[n] = x
      /\ ledger = <<>> <=> Len(ledger) = 0
  BY <1>1, <1>2, <1>3, Appended
<1> HIDE DEF after
<1>6. LedgerMatchesBalance'
  <2>1. wallet'.balance = ledger'[Len(ledger')].after
    BY <1>2, <1>3, <1>5
  <2>2. ASSUME NEW i \in 1 .. Len(ledger)
        PROVE  ledger'[i].after
                 = ledger'[i].delta + IF i = 1 THEN 0 ELSE ledger'[i - 1].after
    <3>1. ledger[i].after = ledger[i].delta + IF i = 1 THEN 0 ELSE ledger[i - 1].after
      BY <1>5 DEF IInv, LedgerMatchesBalance
    <3>2. i # 1 => i - 1 \in 1 .. Len(ledger)
      BY <1>5
    <3> QED BY <1>5, <3>1, <3>2
  <2>3. ledger'[n].after = ledger'[n].delta + IF n = 1 THEN 0 ELSE ledger'[n - 1].after
    <3>1. CASE ledger = <<>>
      <4>1. wallet.balance = 0 /\ n = 1
        BY <1>5, <3>1 DEF IInv, LedgerMatchesBalance
      <4> QED BY <1>1, <1>2, <1>5, <4>1 DEF after
    <3>2. CASE ledger # <<>>
      <4>1. /\ wallet.balance = ledger[Len(ledger)].after
            /\ n # 1 /\ n - 1 = Len(ledger) /\ Len(ledger) \in 1 .. Len(ledger)
        BY <1>5, <3>2 DEF IInv, LedgerMatchesBalance
      <4>2. ledger'[n - 1].after = wallet.balance
        BY <1>5, <4>1
      <4>3. ledger'[n].after = delta + wallet.balance /\ ledger'[n].delta = delta
        BY <1>1, <1>2, <1>5 DEF after
      <4> QED BY <4>1, <4>2, <4>3
    <3> QED BY <3>1, <3>2
  <2>4. ASSUME NEW i \in DOMAIN ledger'
        PROVE  ledger'[i].after
                 = ledger'[i].delta + IF i = 1 THEN 0 ELSE ledger'[i - 1].after
    <3>1. i \in 1 .. Len(ledger) \/ i = n
      BY <1>5
    <3> QED BY <2>2, <2>3, <3>1
  <2> QED BY <1>5, <2>1, <2>4 DEF LedgerMatchesBalance
<1>7. NeverOverdrawn'
  <2>1. \A i \in 1 .. Len(ledger) : ledger'[i].after >= 0
    BY <1>5 DEF IInv, NeverOverdrawn
  <2>2. ledger'[n].after >= 0
    BY <1>2, <1>5 DEF after
  <2> QED BY <1>5, <2>1, <2>2 DEF NeverOverdrawn
<1>8. NoWalletInv'
  BY <1>3 DEF NoWalletInv
<1>9. /\ DOMAIN ledger' = DOMAIN ledger \union {n}
      /\ n \notin DOMAIN ledger
      /\ ledger'[n].key = key
      /\ \A i \in DOMAIN ledger : ledger'[i].key = ledger[i].key
  BY <1>2, <1>5
<1>10. \A k : Posted(k)' <=> Posted(k) \/ k = key
  BY <1>9 DEF Posted
<1> QED BY <1>4, <1>5, <1>6, <1>7, <1>8, <1>9, <1>10

------------------------------------------------------------------------------
(* The invariant is inductive.                                             *)

LEMMA InitInv == Init => IInv
<1> SUFFICES ASSUME Init PROVE IInv
  OBVIOUS
<1>1. TypeOK
  BY DEF Init, TypeOK, Request, IdleRequest, Stages
<1>2. LockInv /\ NoWalletInv
  BY NoClientAssumption DEF Init, LockInv, NoWalletInv, IdleRequest, Locked
<1>3. LedgerMatchesBalance /\ NeverOverdrawn /\ EventCreditedOnce
  BY DEF Init, LedgerMatchesBalance, NeverOverdrawn, EventCreditedOnce, Posted
<1> QED BY <1>1, <1>2, <1>3 DEF IInv

\* A step that posts nothing disturbs only the requests and the lock.
LEMMA QuietStep ==
  ASSUME IInv, UNCHANGED <<wallet, ledger, order, recorded>>, TypeOK', LockInv'
  PROVE  IInv'
<1>1. NoWalletInv' /\ LedgerMatchesBalance' /\ NeverOverdrawn' /\ EventCreditedOnce'
  BY DEF IInv, NoWalletInv, LedgerMatchesBalance, NeverOverdrawn, EventCreditedOnce, Posted
<1> QED BY <1>1 DEF IInv

\* The lock and the requests after an answer, whatever happens to the wallet
\* of a request that held it.
LEMMA Answered ==
  ASSUME IInv, NEW c \in Clients, Answer(c),
         client[c].stage \in Locked \/ UNCHANGED wallet
  PROVE  /\ lock' \in Clients \union {NoClient}
         /\ client' \in [Clients -> Request]
         /\ LockInv'
<1>1. /\ lock' \in Clients \union {NoClient}
      /\ client' \in [Clients -> Request]
  BY DEF IInv, TypeOK, Answer, Request, IdleRequest, Stages
<1>2. ASSUME NEW d \in Clients
      PROVE  /\ client'[d].stage \in Locked <=> lock' = d
             /\ client'[d].stage # "idle" => client'[d].call \in Call
             /\ client'[d].stage \in Locked => client'[d].seen = wallet'.balance
  <2>1. CASE d = c
    BY <2>1, NoClientAssumption DEF IInv, TypeOK, Answer, IdleRequest, Locked
  <2>2. CASE d # c
    BY <2>2, NoClientAssumption DEF IInv, TypeOK, LockInv, Answer, Locked
  <2> QED BY <2>1, <2>2
<1> QED BY <1>1, <1>2 DEF LockInv

LEMMA BeginInv ==
  ASSUME IInv, NEW c \in Clients, NEW call \in Call, Begin(c, call)
  PROVE  IInv'
<1>1. TypeOK'
  BY DEF IInv, TypeOK, Begin, Request, Stages
<1>2. LockInv'
  BY NoClientAssumption DEF IInv, TypeOK, LockInv, Begin, Locked
<1> QED BY <1>1, <1>2, QuietStep DEF Begin

\* The steps that look for the row and lock it.
LEMMA LockInvStep ==
  ASSUME IInv, NEW c \in Clients, LockWallet(c) \/ FindNoWallet(c) \/ InsertWallet(c)
  PROVE  IInv'
<1>1. CASE LockWallet(c)
  <2>1. TypeOK'
    BY <1>1 DEF IInv, TypeOK, LockWallet, Request, Stages
  <2>2. LockInv'
    BY <1>1, NoClientAssumption DEF IInv, TypeOK, LockInv, LockWallet, Request, Locked
  <2> QED BY <1>1, <2>1, <2>2, QuietStep DEF LockWallet
<1>2. CASE FindNoWallet(c)
  <2>1. TypeOK'
    BY <1>2 DEF IInv, TypeOK, FindNoWallet, Request, Stages
  <2>2. LockInv'
    BY <1>2, NoClientAssumption DEF IInv, TypeOK, LockInv, FindNoWallet, Request, Locked
  <2> QED BY <1>2, <2>1, <2>2, QuietStep DEF FindNoWallet
<1>3. CASE InsertWallet(c)
  <2>1. TypeOK'
    <3>1. /\ wallet.balance = 0
          /\ client' = [client EXCEPT ![c].stage = "apply", ![c].seen = wallet.balance]
      BY <1>3 DEF IInv, NoWalletInv, InsertWallet
    <3>2. wallet.balance \in Int /\ client[c] \in Request
      BY DEF IInv, TypeOK
    <3>3. [client[c] EXCEPT !.stage = "apply", !.seen = wallet.balance] \in Request
      BY <3>2 DEF Request, Stages
    <3>4. client' \in [Clients -> Request]
      BY <3>1, <3>3 DEF IInv, TypeOK
    <3> QED BY <1>3, <3>4 DEF IInv, TypeOK, InsertWallet
  <2>2. LockInv'
    BY <1>3, NoClientAssumption
       DEF IInv, TypeOK, LockInv, NoWalletInv, InsertWallet, Request, Locked
  <2> QED BY <1>3, <2>1, <2>2, QuietStep DEF InsertWallet
<1> QED BY <1>1, <1>2, <1>3

\* The waits for a connection, before the lock and past it.
LEMMA PoolInv ==
  ASSUME IInv, NEW c \in Clients, Connect(c) \/ BeginAudit(c) \/ Audit(c)
  PROVE  IInv'
<1>1. PICK stage \in {"select", "audit", "logging"} :
        /\ client' = [client EXCEPT ![c].stage = stage]
        /\ client[c].stage \in Locked <=> stage \in Locked
        /\ client[c].stage # "idle"
  BY DEF Connect, BeginAudit, Audit, Locked
<1>2. UNCHANGED <<wallet, lock, ledger, order, recorded, delivering>>
  BY DEF Connect, BeginAudit, Audit
<1>3. client' \in [Clients -> Request]
  BY <1>1 DEF IInv, TypeOK, Request, Stages
<1>4. TypeOK'
  BY <1>2, <1>3 DEF IInv, TypeOK
<1>5. LockInv'
  BY <1>1, <1>2 DEF IInv, TypeOK, LockInv, Request
<1> QED BY <1>2, <1>4, <1>5, QuietStep

\* Every way out of a transaction that posts nothing.
LEMMA AnswerInv ==
  ASSUME IInv, NEW c \in Clients,
         Refuse(c) \/ Duplicate(c) \/ InsertConflicts(c) \/ Fail(c)
  PROVE  IInv'
<1>1. Answer(c) /\ UNCHANGED <<wallet, ledger, order, recorded, delivering>>
  BY DEF Refuse, Duplicate, InsertConflicts, Fail
<1>2. /\ lock' \in Clients \union {NoClient}
      /\ client' \in [Clients -> Request]
      /\ LockInv'
  BY <1>1, Answered
<1>3. TypeOK'
  BY <1>1, <1>2 DEF IInv, TypeOK
<1> QED BY <1>1, <1>2, <1>3, QuietStep

\* A debit that passes the overdraft test, or a credit, leaves no less than 0.
LEMMA ApplyInv ==
  ASSUME IInv, NEW c \in Clients, Apply(c)
  PROVE  IInv'
<1> DEFINE call == client[c].call
           delta == Delta(call)
<1>1. /\ client[c].stage = "apply" /\ client[c].seen = wallet.balance
      /\ call \in Call /\ ~Overdraws(c) /\ Write(c) /\ Answer(c)
      /\ call.key = NoKey \/ ~Posted(call.key)
      /\ UNCHANGED <<order, recorded, delivering>>
  BY DEF IInv, LockInv, Apply, Locked
<1>2. /\ call.type \in {"credit", "debit", "charge"} /\ call.amount \in Nat
      /\ call.key \in AppKeys \union {NoKey}
  BY <1>1, AmountsAssumption DEF Call
<1>3. delta \in Int /\ wallet.balance \in Nat /\ wallet.balance + delta >= 0
  <2>1. wallet.balance \in Nat
    BY BalanceNat
  <2>2. CASE call.type = "credit"
    BY <1>2, <2>1, <2>2 DEF Delta
  <2>3. CASE call.type # "credit"
    BY <1>1, <1>2, <2>1, <2>3 DEF Delta, Overdraws
  <2> QED BY <1>2, <2>2, <2>3, <2>1
<1>4. /\ wallet' = [exists |-> TRUE, balance |-> wallet.balance + delta]
      /\ ledger' = Append(ledger, [delta |-> delta, after |-> wallet'.balance,
                                   key |-> call.key])
  BY <1>1 DEF Write
<1>5. call.key \in EntryKeys \union {NoKey}
  BY <1>2 DEF EntryKeys
<1> HIDE DEF delta
<1>6. /\ wallet' \in [exists : BOOLEAN, balance : Int]
      /\ ledger' \in Seq(Entry)
      /\ LedgerMatchesBalance' /\ NeverOverdrawn' /\ NoWalletInv'
      /\ \A k : Posted(k)' <=> Posted(k) \/ k = call.key
      /\ ledger'[Len(ledger) + 1].key = call.key
      /\ \A i \in DOMAIN ledger : ledger'[i].key = ledger[i].key
      /\ DOMAIN ledger' = DOMAIN ledger \union {Len(ledger) + 1}
  BY <1>3, <1>4, <1>5, Posting
<1>7. /\ lock' \in Clients \union {NoClient}
      /\ client' \in [Clients -> Request]
      /\ LockInv'
  BY <1>1, Answered DEF Locked
<1>8. TypeOK'
  BY <1>1, <1>6, <1>7 DEF IInv, TypeOK, Entry
<1>9. EventCreditedOnce'
  <2>1. call.key \notin Events
    BY <1>2, KeysAssumption DEF Events
  <2>2. \A e \in Events : e \in recorded' <=> Posted(e)'
    BY <1>1, <1>6, <2>1 DEF IInv, EventCreditedOnce
  <2>3. \A i, k \in DOMAIN ledger' :
          ledger'[i].key \in Events /\ ledger'[i].key = ledger'[k].key => i = k
    BY <1>6, <2>1 DEF IInv, EventCreditedOnce
  <2>4. \A o \in Orders : order'[o].status = "paid" <=> \E e \in recorded' : e[1] = o
    BY <1>1 DEF IInv, EventCreditedOnce
  <2> QED BY <2>2, <2>3, <2>4 DEF EventCreditedOnce, Events
<1> QED BY <1>6, <1>7, <1>8, <1>9 DEF IInv

LEMMA CreateOrderInv ==
  ASSUME IInv, NEW o \in Orders, CreateOrder(o)
  PROVE  IInv'
<1>1. TypeOK'
  BY DEF IInv, TypeOK, CreateOrder
<1>2. LockInv' /\ NoWalletInv' /\ LedgerMatchesBalance' /\ NeverOverdrawn'
  BY DEF IInv, CreateOrder, LockInv, NoWalletInv, LedgerMatchesBalance, NeverOverdrawn
<1>3. \A p \in Orders : order'[p].status = "paid" <=> order[p].status = "paid"
  BY DEF IInv, TypeOK, CreateOrder
<1>4. EventCreditedOnce'
  BY <1>3 DEF IInv, CreateOrder, EventCreditedOnce, Posted
<1> QED BY <1>1, <1>2, <1>4 DEF IInv

LEMMA CreditInv ==
  ASSUME IInv, NEW e \in Events, Credit(e)
  PROVE  IInv'
<1> DEFINE o == e[1]
           amount == order[o].amount
<1>1. o \in Orders /\ amount \in Nat /\ amount \in Amounts
  BY AmountsAssumption DEF Events, IInv, TypeOK
<1>2. wallet.balance \in Nat /\ wallet.balance + amount >= 0
  BY <1>1, BalanceNat
<1>3. /\ e \in EntryKeys \union {NoKey} /\ amount \in Int
  BY <1>1 DEF EntryKeys
<1>4. /\ wallet' = [exists |-> TRUE, balance |-> wallet.balance + amount]
      /\ ledger' = Append(ledger, [delta |-> amount, after |-> wallet'.balance, key |-> e])
      /\ recorded' = recorded \union {e}
      /\ order' = [order EXCEPT ![o].status = "paid"]
      /\ lock = NoClient /\ lock' = lock /\ client' = client
      /\ ~Posted(e) /\ delivering' = delivering \ {e}
  BY DEF Credit, Delivered
<1> HIDE DEF amount
<1>5. /\ wallet' \in [exists : BOOLEAN, balance : Int]
      /\ ledger' \in Seq(Entry)
      /\ LedgerMatchesBalance' /\ NeverOverdrawn' /\ NoWalletInv'
      /\ \A k : Posted(k)' <=> Posted(k) \/ k = e
      /\ ledger'[Len(ledger) + 1].key = e
      /\ \A i \in DOMAIN ledger : ledger'[i].key = ledger[i].key
      /\ DOMAIN ledger' = DOMAIN ledger \union {Len(ledger) + 1}
  BY <1>2, <1>3, <1>4, Posting
<1>6. order' \in [Orders -> [status : {"none", "created", "paid"}, amount : Amounts]]
  BY <1>1, <1>4 DEF IInv, TypeOK
<1>7. TypeOK'
  BY <1>4, <1>5, <1>6 DEF IInv, TypeOK, Entry
<1>8. LockInv'
  BY <1>4, NoClientAssumption DEF IInv, LockInv
<1>9. EventCreditedOnce'
  <2>1. \A f \in Events : f \in recorded' <=> Posted(f)'
    BY <1>4, <1>5 DEF IInv, EventCreditedOnce
  <2>2. \A i, k \in DOMAIN ledger' :
          ledger'[i].key \in Events /\ ledger'[i].key = ledger'[k].key => i = k
    <3>1. \A i \in DOMAIN ledger : ledger[i].key # e
      BY <1>4 DEF Posted
    <3> QED BY <1>5, <3>1 DEF IInv, EventCreditedOnce
  <2>3. \A p \in Orders : order'[p].status = "paid" <=> \E f \in recorded' : f[1] = p
    <3> SUFFICES ASSUME NEW p \in Orders
                 PROVE  order'[p].status = "paid" <=> \E f \in recorded' : f[1] = p
      OBVIOUS
    <3>1. order[p].status = "paid" <=> \E f \in recorded : f[1] = p
      BY DEF IInv, EventCreditedOnce
    <3>2. CASE p = o
      <4>1. order'[p].status = "paid"
        BY <1>1, <1>4, <3>2 DEF IInv, TypeOK
      <4> QED BY <1>4, <3>2, <4>1
    <3>3. CASE p # o
      <4>1. order'[p] = order[p]
        BY <1>1, <1>4, <3>3 DEF IInv, TypeOK
      <4> QED BY <1>4, <3>1, <3>3, <4>1
    <3> QED BY <3>2, <3>3
  <2> QED BY <2>1, <2>2, <2>3 DEF EventCreditedOnce, Events
<1> QED BY <1>5, <1>7, <1>8, <1>9 DEF IInv

\* A delivery that begins, or ends without a credit.
LEMMA DeliveryInv ==
  ASSUME IInv, NEW e \in Events, Deliver(e) \/ Redeliver(e) \/ DeliveryFails(e)
  PROVE  IInv'
<1>1. /\ UNCHANGED <<wallet, lock, ledger, client, order, recorded>>
      /\ delivering' \subseteq delivering \union {e}
  BY DEF Deliver, Redeliver, DeliveryFails, Delivered
<1>2. TypeOK'
  BY <1>1 DEF IInv, TypeOK
<1>3. LockInv'
  BY <1>1 DEF IInv, LockInv
<1> QED BY <1>1, <1>2, <1>3, QuietStep

LEMMA NextInv == IInv /\ [Next]_vars => IInv'
<1> SUFFICES ASSUME IInv, [Next]_vars PROVE IInv'
  OBVIOUS
<1>1. CASE UNCHANGED vars
  <2>1. TypeOK' /\ LockInv'
    BY <1>1 DEF IInv, TypeOK, LockInv, vars
  <2> QED BY <1>1, <2>1, QuietStep DEF vars
<1>2. ASSUME NEW c \in Clients, Step(c) \/ Fail(c) PROVE IInv'
  BY <1>2, LockInvStep, PoolInv, AnswerInv, ApplyInv DEF Step
<1>3. ASSUME NEW c \in Clients, NEW call \in Call, Begin(c, call) PROVE IInv'
  BY <1>3, BeginInv
<1>4. ASSUME NEW o \in Orders, CreateOrder(o) PROVE IInv'
  BY <1>4, CreateOrderInv
<1>5. ASSUME NEW e \in Events, Credit(e) PROVE IInv'
  BY <1>5, CreditInv
<1>6. ASSUME NEW e \in Events, Deliver(e) \/ Redeliver(e) \/ DeliveryFails(e) PROVE IInv'
  BY <1>6, DeliveryInv
<1> QED BY <1>1, <1>2, <1>3, <1>4, <1>5, <1>6 DEF Next

\* The strengthening every theorem below rests on holds in every reachable state.
THEOREM InvariantHolds == Spec => []IInv
  BY InitInv, NextInv, PTL DEF Spec

\* Every variable keeps its type, for a ledger of any length.
THEOREM TypeCorrect == Spec => []TypeOK
<1>1. IInv => TypeOK
  BY DEF IInv
<1> QED BY <1>1, InvariantHolds, PTL

\* The ledger and the balance never drift apart, however many requests and
\* payment events overlap.
THEOREM LedgerIsTheBalance == Spec => []LedgerMatchesBalance
<1>1. IInv => LedgerMatchesBalance
  BY DEF IInv
<1> QED BY <1>1, InvariantHolds, PTL

\* No debit takes the wallet below zero.
THEOREM NoOverdraft == Spec => []NeverOverdrawn
<1>1. IInv => NeverOverdrawn
  BY DEF IInv
<1> QED BY <1>1, InvariantHolds, PTL

\* A captured event is credited once and pays its order.
THEOREM OneCreditPerEvent == Spec => []EventCreditedOnce
<1>1. IInv => EventCreditedOnce
  BY DEF IInv
<1> QED BY <1>1, InvariantHolds, PTL

------------------------------------------------------------------------------
(* The refinement.                                                         *)

\* The account's view of the ledger.
Plain(s) == [i \in DOMAIN s |-> [delta |-> s[i].delta, key |-> s[i].key]]

LEMMA PlainAppend ==
  ASSUME NEW s \in Seq(Entry), NEW x \in Entry
  PROVE  Plain(Append(s, x)) = Append(Plain(s), [delta |-> x.delta, key |-> x.key])
<1> DEFINE P == [delta : Int, key : EntryKeys \union {NoKey}]
           y == [delta |-> x.delta, key |-> x.key]
           n == Len(s)
<1>1. n \in Nat /\ DOMAIN s = 1 .. n /\ \A i \in 1 .. n : s[i] \in Entry
  OBVIOUS
<1>2. y \in P /\ \A i \in 1 .. n : [delta |-> s[i].delta, key |-> s[i].key] \in P
  BY <1>1 DEF Entry
<1>3. Plain(s) \in Seq(P) /\ Len(Plain(s)) = n
  BY <1>1, <1>2 DEF Plain
<1> HIDE DEF P, y
<1>4. /\ Append(Plain(s), y) \in Seq(P)
      /\ DOMAIN Append(Plain(s), y) = 1 .. n + 1
      /\ Append(Plain(s), y)[n + 1] = y
      /\ \A i \in 1 .. n : Append(Plain(s), y)[i] = Plain(s)[i]
  BY <1>1, <1>2, <1>3
<1>5. /\ DOMAIN Append(s, x) = 1 .. n + 1
      /\ Append(s, x)[n + 1] = x
      /\ \A i \in 1 .. n : Append(s, x)[i] = s[i]
  BY Appended
<1>6. \A i \in 1 .. n + 1 : Plain(Append(s, x))[i] = Append(Plain(s), y)[i]
  BY <1>1, <1>4, <1>5 DEF Plain, y
<1>7. /\ Plain(Append(s, x)) = [i \in 1 .. n + 1 |-> Append(Plain(s), y)[i]]
      /\ \A i \in 1 .. n + 1 : Append(Plain(s), y)[i] \in P
  BY <1>1, <1>2, <1>4, <1>5, <1>6 DEF Plain
<1>8. Plain(Append(s, x)) \in Seq(P) /\ Len(Plain(Append(s, x))) = n + 1
  <2> DEFINE m == n + 1
             t == Append(Plain(s), y)
  <2>1. m \in Nat
    BY <1>1
  <2>2. Plain(Append(s, x)) = [i \in 1 .. m |-> t[i]] /\ \A i \in 1 .. m : t[i] \in P
    BY <1>7
  <2> HIDE DEF m, t
  <2>3. [i \in 1 .. m |-> t[i]] \in Seq(P) /\ Len([i \in 1 .. m |-> t[i]]) = m
    BY <2>1, <2>2
  <2> QED BY <2>2, <2>3 DEF m
<1>9. Len(Append(Plain(s), y)) = n + 1
  BY <1>2, <1>3
<1>10. Plain(Append(s, x)) = Append(Plain(s), y)
  BY <1>4, <1>6, <1>8, <1>9, SeqEqual
<1> QED BY <1>10 DEF y

\* Posting an entry whose key is new is a step of the account.
LEMMA PostingStep ==
  ASSUME IInv, NEW delta \in Int, NEW key \in EntryKeys \union {NoKey},
         wallet.balance + delta >= 0, key = NoKey \/ ~Posted(key),
         wallet' = [exists |-> TRUE, balance |-> wallet.balance + delta],
         ledger' = Append(ledger, [delta |-> delta, after |-> wallet'.balance, key |-> key])
  PROVE  Account!LNext
<1> DEFINE x == [delta |-> delta, after |-> wallet.balance + delta, key |-> key]
<1>1. wallet.balance \in Int /\ ledger \in Seq(Entry) /\ x \in Entry
  BY DEF IInv, TypeOK, Entry
<1>2. wallet'.balance = wallet.balance + delta /\ wallet'.balance - wallet.balance = delta
  BY <1>1
<1>3. Plain(ledger') = Append(Plain(ledger), [delta |-> delta, key |-> key])
  BY <1>1, <1>2, PlainAppend
<1>4. \A i \in DOMAIN Plain(ledger) : key = NoKey \/ Plain(ledger)[i].key # key
  BY DEF Plain, Posted
<1>5. Account!Post(delta, key)
  BY <1>2, <1>3, <1>4 DEF Account!Post, Plain
<1> QED BY <1>2, <1>5 DEF Account!LNext

LEMMA StepKeepsAccount ==
  ASSUME IInv, [Next]_vars
  PROVE  [Account!LNext]_(Account!lvars)
<1>1. CASE UNCHANGED <<wallet, ledger>>
  BY <1>1 DEF Account!lvars
<1>2. ASSUME NEW c \in Clients, Apply(c) PROVE Account!LNext
  <2> DEFINE call == client[c].call
             delta == Delta(call)
  <2>1. /\ client[c].seen = wallet.balance /\ call \in Call
        /\ ~Overdraws(c) /\ Write(c)
        /\ call.key = NoKey \/ ~Posted(call.key)
    BY <1>2 DEF IInv, LockInv, Apply, Locked
  <2>2. /\ call.type \in {"credit", "debit", "charge"} /\ call.amount \in Nat
        /\ call.key \in EntryKeys \union {NoKey}
    BY <2>1, AmountsAssumption DEF Call, EntryKeys
  <2>3. wallet.balance \in Nat
    BY BalanceNat
  <2>4. delta \in Int /\ wallet.balance + delta >= 0
    <3>1. CASE call.type = "credit"
      BY <2>2, <2>3, <3>1 DEF Delta
    <3>2. CASE call.type # "credit"
      BY <2>1, <2>2, <2>3, <3>2 DEF Delta, Overdraws
    <3> QED BY <2>2, <3>1, <3>2
  <2>5. /\ wallet' = [exists |-> TRUE, balance |-> wallet.balance + delta]
        /\ ledger' = Append(ledger, [delta |-> delta, after |-> wallet'.balance,
                                     key |-> call.key])
    BY <2>1 DEF Write
  <2> HIDE DEF delta, call
  <2> QED BY <2>1, <2>2, <2>4, <2>5, PostingStep
<1>3. ASSUME NEW e \in Events, Credit(e) PROVE Account!LNext
  <2> DEFINE amount == order[e[1]].amount
  <2>1. amount \in Nat
    BY AmountsAssumption DEF Events, IInv, TypeOK
  <2>2. /\ amount \in Int /\ wallet.balance + amount >= 0
        /\ e \in EntryKeys \union {NoKey}
    BY <2>1, BalanceNat DEF EntryKeys
  <2>3. /\ wallet' = [exists |-> TRUE, balance |-> wallet.balance + amount]
        /\ ledger' = Append(ledger, [delta |-> amount, after |-> wallet'.balance, key |-> e])
        /\ ~Posted(e)
    BY <1>3 DEF Credit
  <2> HIDE DEF amount
  <2> QED BY <2>2, <2>3, PostingStep
<1>4. CASE Next
  <2>1. CASE \E c \in Clients : Apply(c)
    BY <1>2, <2>1
  <2>2. CASE \E e \in Events : Credit(e)
    BY <1>3, <2>2
  <2>3. CASE ~(\E c \in Clients : Apply(c)) /\ ~(\E e \in Events : Credit(e))
    <3>1. UNCHANGED <<wallet, ledger>>
      BY <1>4, <2>3
         DEF Next, Step, Connect, LockWallet, FindNoWallet, InsertWallet, InsertConflicts,
             BeginAudit, Audit, Refuse, Duplicate, Fail, Begin, CreateOrder, Deliver,
             Redeliver, DeliveryFails
    <3> QED BY <1>1, <3>1
  <2> QED BY <2>1, <2>2, <2>3
<1> QED BY <1>1, <1>4 DEF vars

\* The wallet implements the account ledger.
THEOREM WalletKeepsAccount == Spec => IsAccountLedger
<1>1. Init => Account!LInit
  BY DEF Init, Account!LInit
<1>2. IInv /\ [Next]_vars => [Account!LNext]_(Account!lvars)
  BY StepKeepsAccount
<1> QED BY <1>1, <1>2, InvariantHolds, PTL DEF Spec, IsAccountLedger, Account!LSpec
=============================================================================
