-------------------------- MODULE BenchmarkScoring --------------------------
(***************************************************************************)
(* How a benchmark run is scored (control/benchmarking: suite.go and the   *)
(* pure part of service.go): the suite and its cases, what each scorer     *)
(* gives for an answer, the scores of a target, the gap to a baseline and  *)
(* the verdict.  Percentages are whole numbers; a dimension's score is the *)
(* sum of its cases', so that no average is rounded.                       *)
(***************************************************************************)
EXTENDS Integers, FiniteSets, FiniteSetsExt, Functions

(* generalProtocolSuite                                                       *)
Suite ==
  [reasoning_exact   |-> [dimension |-> "reasoning",       kind |-> "exact",  critical |-> FALSE],
   reasoning_judge   |-> [dimension |-> "reasoning",       kind |-> "judge",  critical |-> FALSE],
   coding_proxy      |-> [dimension |-> "coding_proxy",    kind |-> "judge",  critical |-> FALSE],
   instruction_exact |-> [dimension |-> "instruction",     kind |-> "exact",  critical |-> FALSE],
   json_schema       |-> [dimension |-> "tool_json",       kind |-> "json",   critical |-> TRUE],
   tool_call         |-> [dimension |-> "tool_json",       kind |-> "tool",   critical |-> TRUE],
   stream_protocol   |-> [dimension |-> "stream_protocol", kind |-> "stream", critical |-> TRUE]]

Weights == [reasoning |-> 35, coding_proxy |-> 25, instruction |-> 15, tool_json |-> 15,
            stream_protocol |-> 10]

SuiteCases == DOMAIN Suite
Dimensions == DOMAIN Weights
CasesOf(d) == {c \in SuiteCases : Suite[c].dimension = d}

Clamp(score) == IF score < 0 THEN 0 ELSE IF score > 100 THEN 100 ELSE score

(* The body of a request can be built for two protocols; the tool request has *)
(* the form of each.                                                          *)
Buildable(protocol) == protocol \in {"", "openai_chat_completions", "anthropic_messages"}

------------------------------------------------------------------------------
(* What came back for a case.  rpc: the call of the gateway returned.  error: *)
(* the gateway reports one.  has: the parts of the answer its scorer looks    *)
(* for.  judge: the judge's score, or -1 when asking it failed.               *)
NotCompleted == [completed |-> FALSE, score |-> 0]
Scored(score) == [completed |-> TRUE, score |-> score]

exactTextScorer(reply) == Scored(IF "expected" \in reply.has THEN 100 ELSE 0)

judgeScorer(reply) ==
  IF "text" \notin reply.has THEN Scored(0)
  ELSE IF reply.judge < 0 THEN NotCompleted ELSE Scored(Clamp(reply.judge))

jsonScorer(reply) ==
  Scored(IF "object" \notin reply.has THEN 0
         ELSE (IF "animal" \in reply.has THEN 50 ELSE 0) + (IF "count" \in reply.has THEN 50 ELSE 0))

toolCallScorer(reply) == Scored(IF {"tool", "city"} \subseteq reply.has THEN 100 ELSE 0)

streamScorer(reply) ==
  Scored((IF "data" \in reply.has THEN 50 ELSE 0) + (IF "done" \in reply.has THEN 25 ELSE 0)
         + (IF "usage" \in reply.has THEN 25 ELSE 0))

(* An answer with an HTTP error but no error of the gateway is completed, and *)
(* scored by its body.                                                        *)
executeCase(case, reply) ==
  IF ~reply.rpc \/ reply.error THEN NotCompleted
  ELSE CASE Suite[case].kind = "exact"  -> exactTextScorer(reply)
         [] Suite[case].kind = "judge"  -> judgeScorer(reply)
         [] Suite[case].kind = "json"   -> jsonScorer(reply)
         [] Suite[case].kind = "tool"   -> toolCallScorer(reply)
         [] Suite[case].kind = "stream" -> streamScorer(reply)

------------------------------------------------------------------------------
(* The fold of executeTarget over the results, in any order.                  *)
Completed(results) == Cardinality({c \in DOMAIN results : results[c].completed})
Failures(results, critical) == Cardinality({c \in critical : results[c].score < 100})
CriticalCases == {c \in SuiteCases : Suite[c].critical}

(* The score of a dimension, the average of its cases, times a factor; and    *)
(* the sum of some dimensions' values by their weights.                       *)
Mean(factor, of, d) ==
  (factor * SumFunctionOnSet([c \in CasesOf(d) |-> of[c].score], CasesOf(d))) \div Cardinality(CasesOf(d))
Weighted(value, ds) == SumFunctionOnSet([d \in ds |-> Weights[d] * value[d]], ds)

(* weightedAverage of the averages of the dimensions, in half points.         *)
OverallScore2(results) == Weighted([d \in Dimensions |-> Mean(2, results, d)], Dimensions) \div 100

(* compareAgainstBaseline: the distance to the baseline's overall score, or   *)
(* else to its dimensions, weighted; -1 when it has neither.                  *)
Distance(a, b) == IF a < b THEN b - a ELSE a - b

Gap(scores, baseline) ==
  LET shared == DOMAIN baseline \cap Dimensions
      overall == Weighted(scores, Dimensions) \div 100
  IN IF "overall" \in DOMAIN baseline THEN Distance(overall, baseline["overall"])
     ELSE IF shared = {} THEN -1
     ELSE Weighted([d \in shared |-> Distance(scores[d], baseline[d])], shared)
            \div SumFunctionOnSet(Weights, shared)

(* Mutant: one critical failure more is let pass.                             *)
BugVerdict(completed, total, failures, publicGap, vendorGap, selected, thresholds) ==
  LET gap == IF publicGap > vendorGap THEN publicGap ELSE vendorGap
  IN IF completed * 100 < 80 * total THEN "incomplete"
     ELSE IF selected /\ gap < 0 THEN "incomplete"
     ELSE IF failures > thresholds.failures \/ gap > thresholds.suspect THEN "highly_suspect"
     ELSE IF failures = 1 \/ gap > thresholds.normal THEN "suspect"
     ELSE "normal"

(* verdictForTarget.  A gap of -1 is a baseline without rows for the model.   *)
verdictForTarget(completed, total, failures, publicGap, vendorGap, selected, thresholds) ==
  LET gap == IF publicGap > vendorGap THEN publicGap ELSE vendorGap
  IN IF completed * 100 < 80 * total THEN "incomplete"
     ELSE IF selected /\ gap < 0 THEN "incomplete"
     ELSE IF failures >= thresholds.failures \/ gap > thresholds.suspect THEN "highly_suspect"
     ELSE IF failures = 1 \/ gap > thresholds.normal THEN "suspect"
     ELSE "normal"

(* The suspicion shown beside it, in half points.                             *)
Suspicion2(completed, total, failures, gap) ==
  LET missing2 == 100 - (completed * 100) \div total
      raw == 2 * (IF gap < 0 THEN 0 ELSE gap) + missing2 + 40 * failures
  IN IF raw > 200 THEN 200 ELSE raw

------------------------------------------------------------------------------
(* The model whose baseline rows count (resolveCanonicalModelID): the first   *)
(* alias that names the effective or the public model, else the first of the  *)
(* two with rows in a selected baseline, else the first of the two.           *)
resolveCanonicalModelID(effective, public, provider, aliases, hasRows) ==
  LET candidates == IF effective = "" THEN <<public>> ELSE <<effective, public>>
      applies(a) == aliases[a].provider \in {"", provider}
                    /\ \E i \in DOMAIN candidates : candidates[i] \in aliases[a].models
      matching == {a \in DOMAIN aliases : applies(a)}
      known == {i \in DOMAIN candidates : candidates[i] \in hasRows}
  IN IF matching # {} THEN aliases[Min(matching)].canonical
     ELSE candidates[IF known # {} THEN Min(known) ELSE 1]

(* resolveJudgeProvider: the configured one if it serves the judge's model,   *)
(* else the first other provider that does; "" is an error.  A configured     *)
(* judge may be the target's provider, but not for the target's model.        *)
resolveJudgeProvider(providers, preferred, model, target) ==
  LET serves(i) == providers[i].enabled /\ model \in providers[i].models
      others == {i \in DOMAIN providers : serves(i) /\ providers[i].name # target}
      named == {i \in DOMAIN providers : providers[i].enabled /\ providers[i].name = preferred}
  IN IF preferred # "" THEN IF named # {} /\ serves(Min(named)) THEN preferred ELSE ""
     ELSE IF others # {} THEN providers[Min(others)].name ELSE ""

JudgeFor(providers, preferred, model, target, targetModel) ==
  LET judge == resolveJudgeProvider(providers, preferred, model, target)
  IN IF judge = target /\ model = targetModel THEN "" ELSE judge

(* expandTargets: every enabled provider with each model it lists, once; or   *)
(* the one pair that was asked for, if an enabled provider lists it.          *)
expandTargets(providers, all, provider, model) ==
  {t \in {p.name : p \in providers} \X UNION {p.models : p \in providers} :
     /\ \E p \in providers : p.enabled /\ p.name = t[1] /\ t[2] \in p.models
     /\ all \/ t = <<provider, model>>}
=============================================================================
