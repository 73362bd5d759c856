-------------------------------- MODULE MCOffice --------------------------------
(***************************************************************************)
(* The smaller components of the web application and of the voice gateway  *)
(* for TLC.  LeadIntake, LeadStages, Reminders, Accounts, ProviderFailover,*)
(* ConnectionPool, VoiceSession and CostWriter share no state (but the     *)
(* rate limiter's rows, which both intake and accounts use), so that a     *)
(* behaviour follows one of them: "desk", chosen in the initial state.     *)
(***************************************************************************)
EXTENDS LeadIntake, LeadStages, Reminders, Accounts, ProviderFailover, ConnectionPool,
        VoiceSession, CostWriter, TLC

VARIABLE desk

LimitOf == [b \in Buckets |-> 1]

CallerSymmetry == Permutations(Callers)

intakeOnly == <<request, leads, optedOut, dials, token>>
accountOnly == <<visit, cookie, member, orgs, saved>>
gatewayVars == <<voiceVars, costVars>>
officeOnly == <<intakeVars, stagesVars, remindersVars, accountOnly, failoverVars, poolVars>>

\* Every other desk stays in its initial state, of which one is enough.
OfficeInit ==
  /\ desk \in {"intake", "stages", "reminders", "accounts", "failover", "pool", "voice", "costs"}
  /\ IntakeInit /\ StagesInit /\ RemindersInit /\ AccountsInit /\ FailoverInit /\ PoolInit
  /\ VoiceInit /\ CostInit
  /\ desk # "failover" => configured = <<>> /\ broken = {}
  /\ desk # "pool" => user = [r \in Requests |-> [use |-> "short", at |-> "new"]]
  /\ desk # "costs" => reports = <<>>

OfficeNext ==
  \/ /\ desk = "intake" /\ IntakeNext
     /\ UNCHANGED <<desk, stagesVars, remindersVars, accountOnly, failoverVars, poolVars, gatewayVars>>
  \/ /\ desk = "stages" /\ StagesNext
     /\ UNCHANGED <<desk, intakeVars, remindersVars, accountOnly, failoverVars, poolVars, gatewayVars>>
  \/ /\ desk = "reminders" /\ RemindersNext
     /\ UNCHANGED <<desk, intakeVars, stagesVars, accountOnly, failoverVars, poolVars, gatewayVars>>
  \/ /\ desk = "accounts" /\ AccountsNext
     /\ UNCHANGED <<desk, intakeOnly, stagesVars, remindersVars, failoverVars, poolVars, gatewayVars>>
  \/ /\ desk = "failover" /\ FailoverNext
     /\ UNCHANGED <<desk, intakeVars, stagesVars, remindersVars, accountOnly, poolVars, gatewayVars>>
  \/ /\ desk = "pool" /\ PoolNext
     /\ UNCHANGED <<desk, intakeVars, stagesVars, remindersVars, accountOnly, failoverVars, gatewayVars>>
  \/ desk = "voice" /\ VoiceNext /\ UNCHANGED <<desk, officeOnly, costVars>>
  \/ desk = "costs" /\ CostNext /\ UNCHANGED <<desk, officeOnly, voiceVars>>

officeVars == <<desk, officeOnly, gatewayVars>>

OfficeSpec == OfficeInit /\ [][OfficeNext]_officeVars

\* The type invariants of the eight modules.
OfficeTypeOK ==
  /\ IntakeTypeOK /\ StagesTypeOK /\ RemindersTypeOK /\ AccountsTypeOK /\ FailoverTypeOK /\ PoolTypeOK
  /\ VoiceTypeOK /\ CostTypeOK
==============================================================================
