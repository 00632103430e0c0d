---------------------------- MODULE TargetScores ----------------------------
(***************************************************************************)
(* How a target of a benchmark run is judged (executeTarget): the results  *)
(* of its cases come in, its scores are compared with a baseline and a     *)
(* verdict is given, with the thresholds core.Config sets by default.      *)
(***************************************************************************)
EXTENDS BenchmarkScoring, Sequences

CONSTANTS
  CaseOrder,   \* the cases of the suite, as a sequence
  Baselines    \* the scores a baseline may have for the model, << >> when none is selected

VARIABLES results, baseline

scoreVars == <<results, baseline>>

ScoreAssumption ==
  /\ CaseOrder \in Seq(SuiteCases) /\ {CaseOrder[i] : i \in DOMAIN CaseOrder} = SuiteCases
  /\ \A i, j \in DOMAIN CaseOrder : CaseOrder[i] = CaseOrder[j] => i = j
  /\ << >> \in Baselines /\ \A b \in Baselines : \A d \in DOMAIN b : b[d] \in Int

Result == [completed : BOOLEAN, score : 0..100]
ScoreTypeOK == results \in Seq(Result) /\ Len(results) <= Len(CaseOrder) /\ baseline \in Baselines

(* normalizeBenchmarking *)
Thresholds == [normal |-> 8, suspect |-> 20, failures |-> 2]

(* Answers: none, a poor one, a good one. *)
Reply(has, judge) == [rpc |-> TRUE, error |-> FALSE, has |-> has, judge |-> judge]
Replies ==
  {[Reply({}, 0) EXCEPT !.rpc = FALSE], Reply({"text"}, -1),
   Reply({"text", "object", "animal", "data"}, 60),
   Reply({"text", "object", "animal", "count", "expected", "tool", "city", "data", "done"}, 95),
   Reply({"text", "object", "animal", "count", "expected", "tool", "city", "data", "done", "usage"}, 120)}

ScoreInit == results = << >> /\ baseline \in Baselines

ScoreNext ==
  /\ Len(results) < Len(CaseOrder)
  /\ \E reply \in Replies : results' = Append(results, executeCase(CaseOrder[Len(results) + 1], reply))
  /\ UNCHANGED baseline

-----------------------------------------------------------------------------
ByCase(rs) == [c \in SuiteCases |-> rs[CHOOSE i \in DOMAIN CaseOrder : CaseOrder[i] = c]]

Judged(rs, base) ==
  LET of == ByCase(rs)
      gap == Gap([d \in Dimensions |-> Mean(1, of, d)], base)
      failures == Failures(of, CriticalCases)
      total == Cardinality(SuiteCases)
  IN  [verdict |-> verdictForTarget(Completed(of), total, failures, gap, -1, base # << >>, Thresholds),
       suspicion |-> Suspicion2(Completed(of), total, failures, gap),
       gap |-> gap, failures |-> failures]

Rank(verdict) == CASE verdict = "normal" -> 0 [] verdict = "suspect" -> 1 [] verdict = "highly_suspect" -> 2
                   [] verdict = "incomplete" -> 3

(* A target is called normal only when no critical case fell short and it  *)
(* is near its baseline; then its suspicion is below that of any highly    *)
(* suspect one; and, without a baseline, an answer that gets worse never   *)
(* gives a better verdict.                                                 *)
VerdictSound ==
  Len(results) = Len(CaseOrder) =>
    LET j == Judged(results, baseline)
        Worse(i) == Judged([results EXCEPT ![i].score = 0], baseline)
    IN  /\ j.verdict = "normal" =>
             /\ \A i \in DOMAIN CaseOrder : Suite[CaseOrder[i]].critical => results[i].score = 100
             /\ j.gap <= Thresholds.normal /\ j.suspicion < 40
        /\ j.verdict = "highly_suspect" => j.suspicion >= 40
        /\ baseline = << >> => \A i \in DOMAIN results : Rank(Worse(i).verdict) >= Rank(j.verdict)
=============================================================================
