------------------------------- MODULE CostWriter -------------------------------
(***************************************************************************)
(* write_call_usage() and write_usage_and_cost() of the voice gateway      *)
(* (billing/cost_writer.py): one transaction per report of a call, in the  *)
(* order of the list.  An exception leaves the loop, whatever its          *)
(* docstring says of the reports that follow.                              *)
(***************************************************************************)
EXTENDS Naturals, Sequences, SequencesExt

CONSTANT MaxReports \* bound on the reports of a call

ASSUME MaxReportsAssumption == MaxReports \in Nat

VARIABLES reports, \* the call's reports: is there a rate card, and one in a known unit
          writer,  \* where the loop is
          usage,   \* usage_records, by report
          costs    \* cost_records, by report

costVars == <<reports, writer, usage, costs>>

CostTypeOK ==
  /\ reports \in Seq({"rated", "unrated", "oddUnit"})
  /\ writer \in [at : {"rate", "usage", "cost", "commit", "over", "raised"},
                 i : 1 .. MaxReports + 1, faulty : BOOLEAN]
  /\ usage \subseteq 1 .. MaxReports
  /\ costs \subseteq 1 .. MaxReports

CostInit ==
  /\ reports \in SeqOf({"rated", "unrated", "oddUnit"}, MaxReports)
  /\ writer = [at |-> "rate", i |-> 1, faulty |-> FALSE]
  /\ usage = {}
  /\ costs = {}

WriterAt(at) == writer.at = at /\ writer.i <= Len(reports)

\* internal_lookup_rate_card() and compute_cost_usd().
FindRate ==
  /\ WriterAt("rate")
  /\ reports[writer.i] = "rated"
  /\ writer' = [writer EXCEPT !.at = "usage"]
  /\ UNCHANGED <<reports, usage, costs>>

\* RateCardNotFoundError, UnsupportedUnitCombinationError.
NoRate ==
  /\ WriterAt("rate")
  /\ reports[writer.i] # "rated"
  /\ writer' = [writer EXCEPT !.at = "raised"]
  /\ UNCHANGED <<reports, usage, costs>>

\* Mutant: the usage row is committed by itself.
InsertUsageAlone ==
  /\ WriterAt("usage")
  /\ writer' = [writer EXCEPT !.at = "cost"]
  /\ usage' = usage \union {writer.i}
  /\ UNCHANGED <<reports, costs>>

\* Nothing is visible before COMMIT.
InsertUsage ==
  /\ WriterAt("usage")
  /\ writer' = [writer EXCEPT !.at = "cost"]
  /\ UNCHANGED <<reports, usage, costs>>

InsertCost ==
  /\ WriterAt("cost")
  /\ writer' = [writer EXCEPT !.at = "commit"]
  /\ UNCHANGED <<reports, usage, costs>>

\* Both rows of the report.
Committed == usage' = usage \union {writer.i} /\ costs' = costs \union {writer.i}

CommitReport ==
  /\ WriterAt("commit")
  /\ Committed
  /\ writer' = [writer EXCEPT !.at = "rate", !.i = @ + 1]
  /\ UNCHANGED reports

\* A statement fails, or the process dies; the transaction was rolled back, or,
\* when only COMMIT's answer was lost, it was not.
WriteError ==
  /\ writer.at \in {"usage", "cost", "commit"}
  /\ writer' = [writer EXCEPT !.at = "raised", !.faulty = TRUE]
  /\ (writer.at = "commit" /\ Committed) \/ UNCHANGED <<usage, costs>>
  /\ UNCHANGED reports

ReturnResults ==
  /\ writer.at = "rate"
  /\ writer.i > Len(reports)
  /\ writer' = [writer EXCEPT !.at = "over"]
  /\ UNCHANGED <<reports, usage, costs>>

CostNext == FindRate \/ NoRate \/ InsertUsage \/ InsertCost \/ CommitReport \/ WriteError
            \/ ReturnResults

CostSpec == CostInit /\ [][CostNext]_costVars
------------------------------------------------------------------------------
(* Properties.                                                             *)

\* A report is billed with both of its rows or with none; one that has a rate is
\* left out in the end only by a failed statement, or behind one that has none.
UnbilledHasCause ==
  /\ usage = costs
  /\ writer.at \in {"over", "raised"} => \A i \in DOMAIN reports :
       i \notin costs => writer.faulty \/ \E j \in 1 .. i : reports[j] # "rated"
==============================================================================
