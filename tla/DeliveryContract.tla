--------------------------- MODULE DeliveryContract ---------------------------
(***************************************************************************)
(* What outbound webhook delivery promises a subscriber, without workers,  *)
(* batches or faults: a delivery is tried at most `limit` times, and not   *)
(* by two senders at once; it is given up only after exactly that many     *)
(* tries, and called delivered only when the target has accepted it.       *)
(***************************************************************************)
EXTENDS Naturals

CONSTANTS Parcels, Limit

VARIABLES phase,  \* [Parcels -> {"absent", "waiting", "taken", "delivered", "exhausted"}]
          sent,   \* [Parcels -> Nat]: requests made
          got     \* [Parcels -> Nat]: requests the target accepted

dcvars == <<phase, sent, got>>

DCInit ==
  /\ phase = [p \in Parcels |-> "absent"]
  /\ sent = [p \in Parcels |-> 0]
  /\ got = [p \in Parcels |-> 0]

\* One event is posted to all its subscribers, one batch is taken, in one step.
Move(P, from, to) ==
  /\ \A p \in P : phase[p] = from
  /\ phase' = [p \in Parcels |-> IF p \in P THEN to ELSE phase[p]]
  /\ UNCHANGED <<sent, got>>

Try(p) ==
  /\ phase[p] = "taken"
  /\ sent[p] < Limit
  /\ sent' = [sent EXCEPT ![p] = @ + 1]
  /\ got' \in {got, [got EXCEPT ![p] = @ + 1]}
  /\ UNCHANGED phase

\* A sender that does not know whether its 'delivered' was recorded overrules
\* it: a delivered parcel may be put back, or given up.
Conclude(p) ==
  /\ phase[p] \in {"taken", "delivered"}
  /\ \/ got[p] > 0 /\ phase' = [phase EXCEPT ![p] = "delivered"]
     \/ sent[p] < Limit /\ phase' = [phase EXCEPT ![p] = "waiting"]
     \/ sent[p] = Limit /\ phase' = [phase EXCEPT ![p] = "exhausted"]
  /\ UNCHANGED <<sent, got>>

DCNext ==
  \/ \E P \in SUBSET Parcels :
       Move(P, "absent", "waiting") \/ Move(P, "waiting", "taken")
  \/ \E p \in Parcels : Try(p) \/ Conclude(p)

DCSpec == DCInit /\ [][DCNext]_dcvars
==============================================================================
