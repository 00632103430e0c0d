----------------------------- MODULE Benchmarks -----------------------------
(***************************************************************************)
(* The benchmark service of controld (control/benchmarking): StartRun      *)
(* takes a slot, writes the run and its targets and starts a goroutine     *)
(* that executes the targets one after another, the cases of each at the   *)
(* same time, and writes what came out.  Every write of the database may   *)
(* fail; when controld dies the rows stay as they are.                     *)
(***************************************************************************)
EXTENDS BenchmarkScoring

CONSTANTS
  Runs,              \* requests to start a run
  TargetCount,       \* how many targets each has
  Cases,
  MaxParallelRuns,
  MaxParallelCases,
  MaxDeaths          \* bound: how often controld dies

ASSUME BenchmarkAssumption ==
  /\ TargetCount \in [Runs -> Nat \ {0}] /\ IsFiniteSet(Cases) /\ Cases # {}
  /\ MaxParallelRuns \in Nat \ {0} /\ MaxParallelCases \in Nat \ {0} /\ MaxDeaths \in Nat

VARIABLES
  activeRuns,
  exec,     \* the goroutine of each run
  stored,   \* the rows of each run and of its targets
  unsaved,  \* runs whose last write failed, or that controld's death cut short
  deaths

benchVars == <<activeRuns, exec, stored, unsaved, deaths>>

Numbers(r) == 1..TargetCount[r]
AnyNumber == UNION {Numbers(r) : r \in Runs}
CaseState == {"waiting", "asked", "answered", "failed"}
None == [at |-> "none", target |-> 1, status |-> "completed", cases |-> [c \in Cases |-> "waiting"]]
NotStored(r) == [status |-> "none", targets |-> [t \in Numbers(r) |-> "queued"], completed |-> 0]

BenchTypeOK ==
  /\ activeRuns \in 0..MaxParallelRuns
  /\ exec \in [Runs -> [at : {"none", "create", "target", "cases", "record", "finish", "done"},
                        target : AnyNumber, status : {"completed", "incomplete", "failed"},
                        cases : [Cases -> CaseState]]]
  /\ \A r \in Runs :
       stored[r] \in [status : {"none", "running", "completed", "incomplete", "failed"},
                     targets : [Numbers(r) -> {"queued", "completed", "incomplete"}],
                     completed : 0..TargetCount[r]]
  /\ unsaved \subseteq Runs /\ deaths \in 0..MaxDeaths

BenchInit ==
  /\ activeRuns = 0 /\ exec = [r \in Runs |-> None] /\ stored = [r \in Runs |-> NotStored(r)]
  /\ unsaved = {} /\ deaths = 0

Executing == {r \in Runs : exec[r].at \notin {"none", "done"}}
To(r, where) == exec' = [exec EXCEPT ![r].at = where]
Done == [None EXCEPT !.at = "done"]

------------------------------------------------------------------------------
(* Mutant: the slots are counted and never compared with the limit.           *)
BugStartRun(r) ==
  /\ exec[r].at = "none" /\ stored[r].status = "none"
  /\ activeRuns' = activeRuns + 1 /\ To(r, "create")
  /\ UNCHANGED <<stored, unsaved, deaths>>

(* StartRun, up to the slot.  What it refuses before (no gateway, benchmarks  *)
(* disabled, a baseline of the wrong kind, no suite, no target) changes       *)
(* nothing.                                                                   *)
StartRun(r) ==
  /\ exec[r].at = "none" /\ stored[r].status = "none" /\ activeRuns < MaxParallelRuns
  /\ activeRuns' = activeRuns + 1 /\ To(r, "create")
  /\ UNCHANGED <<stored, unsaved, deaths>>

CreateRun(r) ==
  /\ exec[r].at = "create"
  /\ To(r, "target")
  /\ stored' = [stored EXCEPT ![r].status = "running"]
  /\ UNCHANGED <<activeRuns, unsaved, deaths>>

CreateFails(r) ==
  /\ exec[r].at = "create"
  /\ activeRuns' = activeRuns - 1 /\ To(r, "done")
  /\ UNCHANGED <<stored, unsaved, deaths>>

(* executeTarget: without a judge it asks nothing, and the target is          *)
(* incomplete; else its cases wait for the semaphore.                         *)
BeginTarget(r) ==
  /\ exec[r].at = "target"
  /\ \E judge \in BOOLEAN :
       exec' = [exec EXCEPT ![r].at = IF judge THEN "cases" ELSE "record",
                            ![r].cases = [c \in Cases |-> IF judge THEN "waiting" ELSE "failed"]]
  /\ UNCHANGED <<activeRuns, stored, unsaved, deaths>>

Asked(r) == {c \in Cases : exec[r].cases[c] = "asked"}

Ask(r, c) ==
  /\ exec[r].at = "cases" /\ exec[r].cases[c] = "waiting"
  /\ Cardinality(Asked(r)) < MaxParallelCases
  /\ exec' = [exec EXCEPT ![r].cases[c] = "asked"]
  /\ UNCHANGED <<activeRuns, stored, unsaved, deaths>>

(* The gateway answers, with an answer or an error, or the call fails.        *)
Answer(r, c) ==
  /\ exec[r].cases[c] = "asked"
  /\ \E outcome \in {"answered", "failed"} : exec' = [exec EXCEPT ![r].cases[c] = outcome]
  /\ UNCHANGED <<activeRuns, stored, unsaved, deaths>>

AllAnswered(r) ==
  /\ exec[r].at = "cases" /\ \A c \in Cases : exec[r].cases[c] \notin {"waiting", "asked"}
  /\ To(r, "record")
  /\ UNCHANGED <<activeRuns, stored, unsaved, deaths>>

(* What the fold over the results makes of the target: completed with any     *)
(* verdict but one.  A selected baseline may have no rows for the model.      *)
TargetStatus(r, selected, found) ==
  LET completed == Cardinality({c \in Cases : exec[r].cases[c] = "answered"})
      verdict == verdictForTarget(completed, Cardinality(Cases), 0, IF found THEN 0 ELSE -1, -1,
                                  selected, [normal |-> 8, suspect |-> 20, failures |-> 2])
  IN IF verdict = "incomplete" THEN "incomplete" ELSE "completed"

NextTarget(r, status) ==
  exec' = [exec EXCEPT ![r].target = IF @ < TargetCount[r] THEN @ + 1 ELSE @,
                       ![r].at = IF exec[r].target < TargetCount[r] THEN "target" ELSE "finish",
                       ![r].status = status, ![r].cases = None.cases]

Worse(status, target) == IF target = "incomplete" /\ status = "completed" THEN "incomplete" ELSE status

(* UpdateTarget writes the target and counts the finished ones in one         *)
(* transaction.                                                               *)
RecordTarget(r) ==
  /\ exec[r].at = "record"
  /\ \E selected, found \in BOOLEAN :
       LET status == TargetStatus(r, selected, found)
           targets == [stored[r].targets EXCEPT ![exec[r].target] = status]
       IN /\ stored' = [stored EXCEPT ![r].targets = targets,
                          ![r].completed = Cardinality({t \in Numbers(r) : targets[t] # "queued"})]
          /\ NextTarget(r, Worse(exec[r].status, status))
  /\ UNCHANGED <<activeRuns, unsaved, deaths>>

RecordFails(r) ==
  /\ exec[r].at = "record"
  /\ NextTarget(r, "failed")
  /\ UNCHANGED <<activeRuns, stored, unsaved, deaths>>

(* UpdateRunStatus; an error is logged, and the slot is returned either way.  *)
Finish(r) ==
  /\ exec[r].at = "finish"
  /\ \/ /\ stored' = [stored EXCEPT ![r].status = exec[r].status,
                        ![r].completed = Cardinality({t \in Numbers(r) : stored[r].targets[t] # "queued"})]
        /\ UNCHANGED unsaved
     \/ unsaved' = unsaved \cup {r} /\ UNCHANGED stored
  /\ exec' = [exec EXCEPT ![r] = Done] /\ activeRuns' = activeRuns - 1
  /\ UNCHANGED deaths

(* controld dies: its goroutines end, and nothing takes their runs up when it *)
(* starts again.                                                              *)
ControldDies ==
  /\ deaths < MaxDeaths /\ Executing # {} /\ deaths' = deaths + 1
  /\ exec' = [r \in Runs |-> IF r \in Executing THEN Done ELSE exec[r]]
  /\ unsaved' = unsaved \cup {r \in Executing : stored[r].status = "running"}
  /\ activeRuns' = 0
  /\ UNCHANGED stored

Execute(r) ==
  \/ CreateRun(r) \/ CreateFails(r) \/ BeginTarget(r)
  \/ (\E c \in Cases : Ask(r, c) \/ Answer(r, c))
  \/ AllAnswered(r) \/ RecordTarget(r) \/ RecordFails(r) \/ Finish(r)

BenchNext == (\E r \in Runs : StartRun(r) \/ Execute(r)) \/ ControldDies

(* The goroutines run; the gateway answers each case within its timeout.  As  *)
(* a run has finitely many steps, fairness to all is fairness to each.        *)
BenchFairness == WF_benchVars(\E r \in Runs : Execute(r))

------------------------------------------------------------------------------
(* What the rows tell is true.  Every slot belongs to a run that executes; a  *)
(* run that says it is running executes, or its last write is lost; one that  *)
(* says it completed has every target completed; and the count of finished    *)
(* targets is the number of rows that are.                                    *)
RunsAccounted ==
  /\ activeRuns = Cardinality(Executing)
  /\ \A r \in Runs :
       LET finished == {t \in Numbers(r) : stored[r].targets[t] # "queued"}
       IN /\ stored[r].status = "running" => r \in Executing \cup unsaved
          /\ stored[r].status = "completed" =>
               \A t \in Numbers(r) : stored[r].targets[t] = "completed"
          /\ stored[r].completed = Cardinality(finished)

(* A service whose slots are all taken gets one back.                         *)
SlotsReturn == (activeRuns = MaxParallelRuns) ~> (activeRuns < MaxParallelRuns)
=============================================================================
