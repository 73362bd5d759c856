---------------------------- MODULE AccountLedger ----------------------------
(***************************************************************************)
(* What the wallet promises (lib/billing/wallet.ts), without connections,  *)
(* locks or transactions: money moves only by appending an entry, the      *)
(* balance moves with it, never below zero, and a keyed entry is posted    *)
(* once.                                                                   *)
(***************************************************************************)
EXTENDS Integers, Sequences

CONSTANTS EntryKeys,  \* idempotency keys
          NoKey       \* an entry posted without one

VARIABLES balance, entries

lvars == <<balance, entries>>

LInit == balance = 0 /\ entries = <<>>

Post(delta, key) ==
  /\ balance + delta >= 0
  /\ \A i \in DOMAIN entries : key = NoKey \/ entries[i].key # key
  /\ balance' = balance + delta
  /\ entries' = Append(entries, [delta |-> delta, key |-> key])

\* The amount of a step is what it does to the balance.
LNext == \E key \in EntryKeys \union {NoKey} : Post(balance' - balance, key)

LSpec == LInit /\ [][LNext]_lvars
==============================================================================
