---------------------------- MODULE OperationsProofs ----------------------------
(***************************************************************************)
(* Proofs about the benchmark service and its verdicts, aigw's supervisor, *)
(* the live price list, the updater, prices and cost reports, for any      *)
(* number of runs, targets, daemons, callers, files, models and requests,  *)
(* and any sources, configurations, baselines and price lists.             *)
(***************************************************************************)
EXTENDS MCOperations, Pricing, FiniteSetTheorems, SequenceTheorems, TLAPS

(***************************************************************************)
(* The benchmark service.                                                  *)
(***************************************************************************)

AtTarget == {"target", "cases", "record"}
AtWork == AtTarget \cup {"finish"}
Place == {"none", "create", "done"} \cup AtWork
Status == {"completed", "incomplete", "failed"}
Row(r) == [status : {"none", "running"} \cup Status,
           targets : [Numbers(r) -> {"queued", "completed", "incomplete"}],
           completed : 0..TargetCount[r]]

Recorded(r) == {t \in Numbers(r) : stored[r].targets[t] # "queued"}
AllCompleted(r, last) == \A t \in 1..last : stored[r].targets[t] = "completed"

(* A run's row follows its goroutine, and what the goroutine believes of    *)
(* the targets it is done with is what their rows say.                      *)
RowFollows(r) ==
  /\ exec[r].target \in Numbers(r)
  /\ exec[r].at \in {"none", "create"} => exec[r].target = 1
  /\ exec[r].at # "cases" => \A c \in Cases : exec[r].cases[c] # "asked"
  /\ exec[r].at = "create" => stored[r].status = "none"
  /\ exec[r].at \in AtWork => stored[r].status = "running"
  /\ exec[r].at \in AtTarget /\ exec[r].status = "completed" => AllCompleted(r, exec[r].target - 1)
  /\ exec[r].at = "finish" /\ exec[r].status = "completed" => AllCompleted(r, TargetCount[r])

RowTrue(r) ==
  /\ stored[r].status = "running" => r \in Executing \cup unsaved
  /\ stored[r].status = "completed" => AllCompleted(r, TargetCount[r])
  /\ stored[r].completed = Cardinality(Recorded(r))

SlotsRight ==
  IsFiniteSet(Executing) /\ activeRuns = Cardinality(Executing) /\ activeRuns <= MaxParallelRuns

Goroutine == [at : Place, target : AnyNumber, status : Status, cases : [Cases -> CaseState]]
BenchTypes ==
  /\ exec \in [Runs -> Goroutine]
  /\ DOMAIN stored = Runs /\ \A r \in Runs : stored[r] \in Row(r)
  /\ unsaved \subseteq Runs /\ deaths \in 0..MaxDeaths

BenchInv == BenchTypes /\ SlotsRight /\ \A r \in Runs : RowFollows(r) /\ RowTrue(r)

LEMMA TargetNumbers ==
  ASSUME NEW r \in Runs
  PROVE  /\ TargetCount[r] \in Nat \ {0} /\ Numbers(r) = 1..TargetCount[r]
         /\ 1 \in Numbers(r) /\ Numbers(r) \subseteq AnyNumber
<1>1. TargetCount[r] \in Nat \ {0}
  BY BenchmarkAssumption
<1>2. QED
  BY <1>1 DEF Numbers, AnyNumber

(* Some of the targets are no more than all of them.                        *)
LEMMA CountTargets ==
  ASSUME NEW r \in Runs, NEW S, S \subseteq Numbers(r)
  PROVE  IsFiniteSet(S) /\ Cardinality(S) \in 0..TargetCount[r]
<1>1. TargetCount[r] \in Nat /\ 1 \in Int /\ Numbers(r) = 1..TargetCount[r]
  BY TargetNumbers
<1>2. IsFiniteSet(1..TargetCount[r]) /\ Cardinality(1..TargetCount[r]) = TargetCount[r]
  <2>1. Cardinality(1..TargetCount[r]) = IF 1 > TargetCount[r] THEN 0 ELSE TargetCount[r] - 1 + 1
    BY <1>1, FS_Interval
  <2>2. QED
    BY <1>1, <2>1, FS_Interval
<1>3. IsFiniteSet(S) /\ Cardinality(S) <= Cardinality(1..TargetCount[r])
  BY <1>1, <1>2, FS_Subset
<1>4. QED
  BY <1>1, <1>2, <1>3, FS_CardinalityType

LEMMA BenchInvSound == BenchInv => BenchTypeOK /\ RunsAccounted
<1> SUFFICES ASSUME BenchInv PROVE BenchTypeOK /\ RunsAccounted
  OBVIOUS
<1>1. BenchTypes /\ SlotsRight /\ \A r \in Runs : RowFollows(r) /\ RowTrue(r)
  BY DEF BenchInv
<1>2. activeRuns \in 0..MaxParallelRuns
  BY <1>1, BenchmarkAssumption, FS_CardinalityType DEF SlotsRight
<1>3. BenchTypeOK
  BY <1>1, <1>2 DEF BenchTypeOK, BenchTypes, Goroutine, Row, Place, AtWork, AtTarget, Status
<1>4. RunsAccounted
  <2>1. ASSUME NEW r \in Runs
        PROVE  /\ stored[r].status = "running" => r \in Executing \cup unsaved
               /\ stored[r].status = "completed" => \A t \in Numbers(r) : stored[r].targets[t] = "completed"
               /\ stored[r].completed = Cardinality({t \in Numbers(r) : stored[r].targets[t] # "queued"})
    BY <1>1 DEF RowTrue, AllCompleted, Recorded, Numbers
  <2>2. QED
    BY <1>1, <2>1 DEF RunsAccounted, SlotsRight
<1>5. QED
  BY <1>3, <1>4

LEMMA BenchInitially == BenchInit => BenchInv
<1> SUFFICES ASSUME BenchInit PROVE BenchInv
  OBVIOUS
<1>1. /\ activeRuns = 0 /\ exec = [r \in Runs |-> None] /\ stored = [r \in Runs |-> NotStored(r)]
      /\ unsaved = {} /\ deaths = 0
  BY DEF BenchInit
<1>2. \A r \in Runs : /\ exec[r].at = "none" /\ exec[r].target = 1 /\ stored[r].status = "none"
                      /\ stored[r].completed = 0 /\ \A t \in Numbers(r) : stored[r].targets[t] = "queued"
  BY <1>1 DEF None, NotStored
<1>3. BenchTypes
  <2>1. deaths \in 0..MaxDeaths
    BY <1>1, BenchmarkAssumption
  <2>2. \A r \in Runs : exec[r] \in Goroutine
    <3> SUFFICES ASSUME NEW r \in Runs PROVE None \in Goroutine
      BY <1>1
    <3>1. 1 \in AnyNumber
      BY TargetNumbers
    <3>2. QED
      BY <3>1 DEF None, Goroutine, Place, Status, CaseState
  <2>3. \A r \in Runs : stored[r] \in Row(r)
    BY <1>1, TargetNumbers DEF NotStored, Row
  <2>4. QED
    BY <1>1, <2>1, <2>2, <2>3 DEF BenchTypes
<1>4. SlotsRight
  <2>1. Executing = {}
    BY <1>2 DEF Executing
  <2>2. QED
    BY <1>1, <2>1, FS_EmptySet, BenchmarkAssumption DEF SlotsRight
<1>5. ASSUME NEW r \in Runs
      PROVE  RowFollows(r) /\ RowTrue(r)
  <2>1. RowFollows(r)
    <3>1. \A c \in Cases : exec[r].cases[c] # "asked"
      BY <1>1 DEF None
    <3>2. QED
      BY <1>2, <3>1, TargetNumbers DEF RowFollows, AtWork, AtTarget
  <2>2. Recorded(r) = {}
    BY <1>2 DEF Recorded
  <2>3. RowTrue(r)
    BY <1>2, <2>2, FS_EmptySet DEF RowTrue
  <2>4. QED
    BY <2>1, <2>3
<1>6. QED
  BY <1>3, <1>4, <1>5 DEF BenchInv

(* One goroutine moves, and with it its run's row.                          *)
Moves(r, g, row) ==
  /\ exec' = [exec EXCEPT ![r] = g]
  /\ DOMAIN stored' = Runs /\ stored'[r] = row /\ \A q \in Runs \ {r} : stored'[q] = stored[q]

(* What the other goroutines and their rows are to each other stays.        *)
LEMMA OthersFollow ==
  ASSUME BenchInv, NEW q \in Runs, exec'[q] = exec[q], stored'[q] = stored[q], unsaved \subseteq unsaved'
  PROVE  RowFollows(q)' /\ RowTrue(q)'
<1>1. RowFollows(q) /\ RowTrue(q)
  BY DEF BenchInv
<1>2. RowFollows(q)'
  BY <1>1 DEF RowFollows, AllCompleted, Numbers
<1>3. Recorded(q)' = Recorded(q) /\ (q \in Executing => q \in Executing')
  BY DEF Recorded, Executing, Numbers
<1>4. RowTrue(q)'
  BY <1>1, <1>3 DEF RowTrue, AllCompleted
<1>5. QED
  BY <1>2, <1>4

LEMMA MoveTypes ==
  ASSUME BenchInv, NEW r \in Runs, NEW g \in Goroutine, NEW row \in Row(r), Moves(r, g, row),
         unsaved' \subseteq Runs, deaths' \in 0..MaxDeaths
  PROVE  BenchTypes' /\ exec'[r] = g /\ \A q \in Runs \ {r} : exec'[q] = exec[q]
<1>1. BenchTypes
  BY DEF BenchInv
<1>2. exec' \in [Runs -> Goroutine] /\ exec'[r] = g /\ \A q \in Runs \ {r} : exec'[q] = exec[q]
  BY <1>1 DEF BenchTypes, Moves
<1>3. \A q \in Runs : stored'[q] \in Row(q)
  BY <1>1 DEF BenchTypes, Moves
<1>4. QED
  BY <1>2, <1>3 DEF BenchTypes, Moves, Goroutine, Row, Numbers, AnyNumber

(* A run that goes on executing keeps its slot.                             *)
LEMMA WorkKept ==
  ASSUME BenchInv, NEW r \in Executing, NEW g \in Goroutine, NEW row \in Row(r), Moves(r, g, row),
         g.at \notin {"none", "done"}, UNCHANGED <<activeRuns, unsaved, deaths>>,
         RowFollows(r)', RowTrue(r)'
  PROVE  BenchInv'
<1>1. BenchTypes /\ SlotsRight /\ r \in Runs
  BY DEF BenchInv, Executing
<1>2. BenchTypes' /\ exec'[r] = g /\ \A q \in Runs \ {r} : exec'[q] = exec[q]
  BY <1>1, MoveTypes DEF BenchTypes
<1>3. Executing' = Executing
  BY <1>1, <1>2 DEF Executing
<1>4. SlotsRight'
  BY <1>1, <1>3 DEF SlotsRight
<1>5. \A q \in Runs : RowFollows(q)' /\ RowTrue(q)'
  <2> SUFFICES ASSUME NEW q \in Runs \ {r} PROVE RowFollows(q)' /\ RowTrue(q)'
    OBVIOUS
  <2>1. exec'[q] = exec[q] /\ stored'[q] = stored[q] /\ unsaved \subseteq unsaved'
    BY <1>2 DEF Moves
  <2>2. QED
    BY <2>1, OthersFollow
<1>6. QED
  BY <1>2, <1>4, <1>5 DEF BenchInv

(* A run that starts takes a slot; one that ends returns it.                *)
LEMMA SlotsMove ==
  ASSUME SlotsRight, NEW r
  PROVE  /\ (r \notin Executing /\ activeRuns < MaxParallelRuns /\ activeRuns' = activeRuns + 1
             /\ Executing' = Executing \cup {r}) => SlotsRight'
         /\ (r \in Executing /\ activeRuns' = activeRuns - 1
             /\ Executing' = Executing \ {r}) => SlotsRight'
<1>1. /\ IsFiniteSet(Executing) /\ activeRuns = Cardinality(Executing) /\ activeRuns <= MaxParallelRuns
      /\ activeRuns \in Nat /\ MaxParallelRuns \in Nat
  BY BenchmarkAssumption, FS_CardinalityType DEF SlotsRight
<1>2. ASSUME r \notin Executing, activeRuns < MaxParallelRuns, activeRuns' = activeRuns + 1,
             Executing' = Executing \cup {r}
      PROVE  SlotsRight'
  <2>1. IsFiniteSet(Executing') /\ Cardinality(Executing') = activeRuns + 1
    BY <1>1, <1>2, FS_AddElement
  <2>2. activeRuns + 1 <= MaxParallelRuns
    BY <1>1, <1>2
  <2>3. QED
    BY <1>2, <2>1, <2>2 DEF SlotsRight
<1>3. ASSUME r \in Executing, activeRuns' = activeRuns - 1, Executing' = Executing \ {r}
      PROVE  SlotsRight'
  <2>1. IsFiniteSet(Executing') /\ Cardinality(Executing') = activeRuns - 1
    BY <1>1, <1>3, FS_RemoveElement
  <2>2. activeRuns - 1 <= MaxParallelRuns
    BY <1>1
  <2>3. QED
    BY <1>3, <2>1, <2>2 DEF SlotsRight
<1>4. QED
  BY <1>2, <1>3

(* A run that is not executing, or no longer: its goroutine moved and its   *)
(* row is as true as it has to be.                                          *)
LEMMA EndsKept ==
  ASSUME BenchInv, NEW r \in Runs, NEW g \in Goroutine, NEW row \in Row(r), Moves(r, g, row),
         unsaved \subseteq unsaved', unsaved' \subseteq Runs, UNCHANGED deaths, SlotsRight',
         RowFollows(r)', RowTrue(r)'
  PROVE  BenchInv'
<1>1. BenchTypes
  BY DEF BenchInv
<1>2. BenchTypes' /\ exec'[r] = g /\ \A q \in Runs \ {r} : exec'[q] = exec[q]
  BY <1>1, MoveTypes DEF BenchTypes
<1>3. \A q \in Runs : RowFollows(q)' /\ RowTrue(q)'
  <2> SUFFICES ASSUME NEW q \in Runs \ {r} PROVE RowFollows(q)' /\ RowTrue(q)'
    OBVIOUS
  <2>1. exec'[q] = exec[q] /\ stored'[q] = stored[q]
    BY <1>2 DEF Moves
  <2>2. QED
    BY <2>1, OthersFollow
<1>4. QED
  BY <1>2, <1>3 DEF BenchInv

(* What a move makes of the rows that were or were not finished.            *)
LEMMA RowStays ==
  ASSUME BenchInv, NEW r \in Runs, stored'[r] = stored[r],
         stored[r].status = "running" => r \in Executing' \cup unsaved'
  PROVE  RowTrue(r)'
<1>1. RowTrue(r) /\ Recorded(r)' = Recorded(r)
  BY DEF BenchInv, Recorded, Numbers
<1>2. QED
  BY <1>1 DEF RowTrue, AllCompleted

LEMMA StartKept ==
  ASSUME BenchInv, NEW r \in Runs, StartRun(r)
  PROVE  BenchInv'
<1> DEFINE g == [exec[r] EXCEPT !.at = "create"]
<1>1. BenchTypes /\ SlotsRight /\ RowFollows(r) /\ exec[r] \in Goroutine /\ stored[r] \in Row(r)
  BY DEF BenchInv, BenchTypes
<1>2. /\ exec[r].at = "none" /\ stored[r].status = "none" /\ activeRuns < MaxParallelRuns
      /\ activeRuns' = activeRuns + 1 /\ UNCHANGED <<stored, unsaved, deaths>>
      /\ exec' = [exec EXCEPT ![r] = g]
  BY <1>1 DEF StartRun, To, BenchTypes
<1>3. /\ g \in Goroutine /\ g.at = "create" /\ g.target = exec[r].target /\ g.status = exec[r].status
      /\ g.cases = exec[r].cases
  BY <1>1 DEF Goroutine, Place
<1>4. Moves(r, g, stored[r])
  BY <1>1, <1>2 DEF Moves, BenchTypes
<1>5. exec'[r] = g
  BY <1>1, <1>2 DEF BenchTypes
<1> HIDE DEF g
<1>6. Executing' = Executing \cup {r} /\ r \notin Executing
  <2>1. r \notin Executing
    BY <1>2 DEF Executing
  <2>2. \A q \in Runs \ {r} : exec'[q] = exec[q]
    BY <1>1, <1>2 DEF BenchTypes
  <2>3. QED
    BY <1>3, <1>5, <2>1, <2>2 DEF Executing
<1>7. SlotsRight'
  BY <1>1, <1>2, <1>6, SlotsMove
<1>8. RowFollows(r)'
  BY <1>1, <1>2, <1>3, <1>5 DEF RowFollows, AtWork, AtTarget, Numbers
<1>9. RowTrue(r)'
  BY <1>2, RowStays
<1>10. unsaved \subseteq unsaved' /\ unsaved' \subseteq Runs /\ UNCHANGED deaths
  BY <1>1, <1>2 DEF BenchTypes
<1>11. QED
  BY <1>1, <1>3, <1>4, <1>7, <1>8, <1>9, <1>10, EndsKept

LEMMA CreateKept ==
  ASSUME BenchInv, NEW r \in Runs, CreateRun(r)
  PROVE  BenchInv'
<1> DEFINE g == [exec[r] EXCEPT !.at = "target"]
           row == [stored[r] EXCEPT !.status = "running"]
<1>1. BenchTypes /\ RowFollows(r) /\ RowTrue(r) /\ exec[r] \in Goroutine /\ stored[r] \in Row(r)
  BY DEF BenchInv, BenchTypes
<1>2. /\ exec[r].at = "create" /\ UNCHANGED <<activeRuns, unsaved, deaths>>
      /\ exec' = [exec EXCEPT ![r] = g] /\ stored' = [stored EXCEPT ![r] = row]
  BY <1>1 DEF CreateRun, To, BenchTypes
<1>3. /\ g \in Goroutine /\ g.at = "target" /\ g.target = exec[r].target /\ g.status = exec[r].status
      /\ g.cases = exec[r].cases
  BY <1>1 DEF Goroutine, Place, AtWork, AtTarget
<1>4. /\ row \in Row(r) /\ row.status = "running" /\ row.targets = stored[r].targets
      /\ row.completed = stored[r].completed
  BY <1>1 DEF Row
<1>5. exec'[r] = g /\ stored'[r] = row
  BY <1>1, <1>2 DEF BenchTypes
<1>6. Moves(r, g, row)
  BY <1>1, <1>2 DEF Moves, BenchTypes
<1> HIDE DEF g, row
<1>7. r \in Executing /\ r \in Executing'
  BY <1>2, <1>3, <1>5 DEF Executing
<1>8. RowFollows(r)'
  <2>1. exec[r].target = 1 /\ 1 \in Numbers(r) /\ \A c \in Cases : exec[r].cases[c] # "asked"
    BY <1>1, <1>2, TargetNumbers DEF RowFollows
  <2>2. AllCompleted(r, 1 - 1)'
    BY DEF AllCompleted
  <2>3. QED
    BY <1>3, <1>4, <1>5, <2>1, <2>2 DEF RowFollows, AtWork, AtTarget, Numbers
<1>9. RowTrue(r)'
  <2>1. Recorded(r)' = Recorded(r)
    BY <1>4, <1>5 DEF Recorded, Numbers
  <2>2. QED
    BY <1>1, <1>4, <1>5, <1>7, <2>1 DEF RowTrue
<1>10. g.at \notin {"none", "done"}
  BY <1>3
<1>11. QED
  BY <1>2, <1>3, <1>4, <1>6, <1>7, <1>8, <1>9, <1>10, WorkKept

LEMMA CreateFailsKept ==
  ASSUME BenchInv, NEW r \in Runs, CreateFails(r)
  PROVE  BenchInv'
<1> DEFINE g == [exec[r] EXCEPT !.at = "done"]
<1>1. BenchTypes /\ SlotsRight /\ RowFollows(r) /\ exec[r] \in Goroutine /\ stored[r] \in Row(r)
  BY DEF BenchInv, BenchTypes
<1>2. /\ exec[r].at = "create" /\ activeRuns' = activeRuns - 1
      /\ UNCHANGED <<stored, unsaved, deaths>> /\ exec' = [exec EXCEPT ![r] = g]
  BY <1>1 DEF CreateFails, To, BenchTypes
<1>3. /\ g \in Goroutine /\ g.at = "done" /\ g.target = exec[r].target /\ g.status = exec[r].status
      /\ g.cases = exec[r].cases
  BY <1>1 DEF Goroutine, Place
<1>4. Moves(r, g, stored[r])
  BY <1>1, <1>2 DEF Moves, BenchTypes
<1>5. exec'[r] = g
  BY <1>1, <1>2 DEF BenchTypes
<1> HIDE DEF g
<1>6. Executing' = Executing \ {r} /\ r \in Executing
  <2>1. r \in Executing
    BY <1>2 DEF Executing
  <2>2. \A q \in Runs \ {r} : exec'[q] = exec[q]
    BY <1>1, <1>2 DEF BenchTypes
  <2>3. QED
    BY <1>3, <1>5, <2>1, <2>2 DEF Executing
<1>7. SlotsRight'
  BY <1>1, <1>2, <1>6, SlotsMove
<1>8. RowFollows(r)'
  BY <1>1, <1>2, <1>3, <1>5 DEF RowFollows, AtWork, AtTarget, Numbers
<1>9. RowTrue(r)'
  <2>1. stored[r].status = "none"
    BY <1>1, <1>2 DEF RowFollows
  <2>2. QED
    BY <1>2, <2>1, RowStays
<1>10. unsaved \subseteq unsaved' /\ unsaved' \subseteq Runs /\ UNCHANGED deaths
  BY <1>1, <1>2 DEF BenchTypes
<1>11. QED
  BY <1>1, <1>3, <1>4, <1>7, <1>8, <1>9, <1>10, EndsKept

(* A goroutine at work on a target goes on with it: its row stays.          *)
LEMMA StillAtWork ==
  ASSUME BenchInv, NEW r \in Runs, exec[r].at \in AtTarget, NEW g \in Goroutine, g.at \in AtTarget,
         g.target = exec[r].target, g.status = exec[r].status,
         g.at # "cases" => \A c \in Cases : g.cases[c] # "asked",
         exec' = [exec EXCEPT ![r] = g], UNCHANGED <<activeRuns, stored, unsaved, deaths>>
  PROVE  BenchInv'
<1>1. BenchTypes /\ RowFollows(r) /\ exec[r] \in Goroutine /\ stored[r] \in Row(r)
  BY DEF BenchInv, BenchTypes
<1>2. exec'[r] = g
  BY <1>1 DEF BenchTypes
<1>3. Moves(r, g, stored[r])
  BY <1>1 DEF Moves, BenchTypes
<1>4. r \in Executing /\ r \in Executing' /\ g.at \notin {"none", "done"}
  BY <1>2 DEF Executing, AtTarget
<1>5. RowFollows(r)'
  BY <1>1, <1>2 DEF RowFollows, AtWork, AtTarget, Numbers, AllCompleted
<1>6. RowTrue(r)'
  BY <1>4, RowStays
<1>7. QED
  BY <1>1, <1>3, <1>4, <1>5, <1>6, WorkKept

LEMMA BeginTargetKept ==
  ASSUME BenchInv, NEW r \in Runs, BeginTarget(r)
  PROVE  BenchInv'
<1>1. BenchTypes /\ exec[r] \in Goroutine
  BY DEF BenchInv, BenchTypes
<1>2. PICK judge \in BOOLEAN :
        exec' = [exec EXCEPT ![r].at = IF judge THEN "cases" ELSE "record",
                             ![r].cases = [c \in Cases |-> IF judge THEN "waiting" ELSE "failed"]]
  BY DEF BeginTarget
<1> DEFINE where == IF judge THEN "cases" ELSE "record"
           asked == [c \in Cases |-> IF judge THEN "waiting" ELSE "failed"]
           g == [exec[r] EXCEPT !.at = where, !.cases = asked]
<1>3. where \in AtTarget /\ asked \in [Cases -> CaseState]
  BY DEF AtTarget, CaseState
<1>4. exec' = [exec EXCEPT ![r].at = where, ![r].cases = asked]
  BY <1>2
<1> HIDE DEF where, asked
<1>5. exec' = [exec EXCEPT ![r] = g]
  BY <1>1, <1>4 DEF BenchTypes
<1>6. /\ g \in Goroutine /\ g.at \in AtTarget /\ g.target = exec[r].target /\ g.status = exec[r].status
      /\ g.at = where /\ g.cases = asked
  BY <1>1, <1>3 DEF Goroutine, Place, AtWork
<1> HIDE DEF g
<1>7. g.at # "cases" => \A c \in Cases : g.cases[c] # "asked"
  BY <1>6 DEF where, asked
<1>8. exec[r].at \in AtTarget /\ UNCHANGED <<activeRuns, stored, unsaved, deaths>>
  BY DEF BeginTarget, AtTarget
<1>9. QED
  BY <1>5, <1>6, <1>7, <1>8, StillAtWork

LEMMA CaseKept ==
  ASSUME BenchInv, NEW r \in Runs, NEW c \in Cases, NEW outcome \in CaseState, exec[r].at = "cases",
         exec' = [exec EXCEPT ![r].cases[c] = outcome], UNCHANGED <<activeRuns, stored, unsaved, deaths>>
  PROVE  BenchInv'
<1> DEFINE g == [exec[r] EXCEPT !.cases = [exec[r].cases EXCEPT ![c] = outcome]]
<1>1. BenchTypes /\ exec[r] \in Goroutine
  BY DEF BenchInv, BenchTypes
<1>2. exec' = [exec EXCEPT ![r] = g]
  BY <1>1 DEF BenchTypes
<1>3. /\ g \in Goroutine /\ g.at = exec[r].at /\ g.target = exec[r].target /\ g.status = exec[r].status
  BY <1>1 DEF Goroutine
<1> HIDE DEF g
<1>4. QED
  BY <1>2, <1>3, StillAtWork DEF AtTarget

LEMMA AskKept ==
  ASSUME BenchInv, NEW r \in Runs, NEW c \in Cases, Ask(r, c)
  PROVE  BenchInv'
BY CaseKept DEF Ask, CaseState

LEMMA AnswerKept ==
  ASSUME BenchInv, NEW r \in Runs, NEW c \in Cases, Answer(r, c)
  PROVE  BenchInv'
<1>1. exec[r].at = "cases"
  BY DEF BenchInv, RowFollows, Answer
<1>2. PICK outcome \in {"answered", "failed"} : exec' = [exec EXCEPT ![r].cases[c] = outcome]
  BY DEF Answer
<1>3. outcome \in CaseState /\ UNCHANGED <<activeRuns, stored, unsaved, deaths>>
  BY DEF Answer, CaseState
<1>4. QED
  BY <1>1, <1>2, <1>3, CaseKept

LEMMA AllAnsweredKept ==
  ASSUME BenchInv, NEW r \in Runs, AllAnswered(r)
  PROVE  BenchInv'
<1> DEFINE g == [exec[r] EXCEPT !.at = "record"]
<1>1. BenchTypes /\ exec[r] \in Goroutine
  BY DEF BenchInv, BenchTypes
<1>2. /\ exec[r].at \in AtTarget /\ exec' = [exec EXCEPT ![r] = g]
      /\ UNCHANGED <<activeRuns, stored, unsaved, deaths>>
      /\ \A c \in Cases : exec[r].cases[c] # "asked"
  BY <1>1 DEF AllAnswered, To, BenchTypes, AtTarget
<1>3. /\ g \in Goroutine /\ g.at \in AtTarget /\ g.target = exec[r].target /\ g.status = exec[r].status
      /\ g.cases = exec[r].cases
  BY <1>1 DEF Goroutine, Place, AtWork, AtTarget
<1> HIDE DEF g
<1>4. QED
  BY <1>2, <1>3, StillAtWork

(* The record of a target and what follows it, given what the row becomes.  *)
LEMMA RecordKept ==
  ASSUME BenchInv, NEW r \in Runs, exec[r].at = "record", NEW status \in Status, NextTarget(r, status),
         NEW row \in Row(r), row.status = "running",
         row.completed = Cardinality({t \in Numbers(r) : row.targets[t] # "queued"}),
         status = "completed" => \A t \in 1..exec[r].target : row.targets[t] = "completed",
         DOMAIN stored' = Runs, stored'[r] = row, \A q \in Runs \ {r} : stored'[q] = stored[q],
         UNCHANGED <<activeRuns, unsaved, deaths>>
  PROVE  BenchInv'
<1> DEFINE target == exec[r].target
           more == target < TargetCount[r]
           next == IF more THEN target + 1 ELSE target
           where == IF more THEN "target" ELSE "finish"
           g == [exec[r] EXCEPT !.target = next, !.at = where, !.status = status, !.cases = None.cases]
<1>1. BenchTypes /\ exec[r] \in Goroutine /\ target \in Numbers(r)
  BY DEF BenchInv, BenchTypes, RowFollows
<1>2. exec' = [exec EXCEPT ![r] = g]
  BY <1>1 DEF BenchTypes, NextTarget
<1>3. /\ TargetCount[r] \in Nat /\ target \in 1..TargetCount[r] /\ Numbers(r) = 1..TargetCount[r]
      /\ Numbers(r) \subseteq AnyNumber
  BY <1>1, TargetNumbers
<1>4. next \in Numbers(r) /\ (more => next - 1 = target) /\ (~more => target = TargetCount[r])
  BY <1>3
<1>5. None.cases \in [Cases -> CaseState] /\ \A c \in Cases : None.cases[c] # "asked"
  BY DEF None, CaseState
<1> HIDE DEF next
<1>6. /\ g \in Goroutine /\ g.target = next /\ g.at = where /\ g.status = status /\ g.cases = None.cases
  BY <1>1, <1>3, <1>4, <1>5 DEF Goroutine, Place, AtWork, AtTarget
<1> HIDE DEF g
<1>7. exec'[r] = g
  BY <1>1, <1>2 DEF BenchTypes
<1>8. Moves(r, g, row)
  BY <1>2 DEF Moves
<1>9. r \in Executing /\ r \in Executing' /\ g.at \notin {"none", "done"}
  BY <1>6, <1>7 DEF Executing
<1>10. RowFollows(r)'
  <2>1. ASSUME status = "completed", more PROVE \A t \in 1..(next - 1) : stored'[r].targets[t] = "completed"
    BY <1>4, <2>1
  <2>2. ASSUME status = "completed", ~more PROVE AllCompleted(r, TargetCount[r])'
    BY <1>4, <2>2 DEF AllCompleted
  <2> HIDE DEF target, more
  <2>3. g.at # "cases" /\ g.at \notin {"none", "create"}
    BY <1>6
  <2>4. CASE more
    <3>1. g.at = "target"
      BY <1>6, <2>4
    <3>2. exec'[r].target = next /\ exec'[r].status = status /\ exec'[r].at = "target"
          /\ \A c \in Cases : exec'[r].cases[c] # "asked"
      BY <1>5, <1>6, <1>7, <3>1
    <3>3. exec'[r].status = "completed" => AllCompleted(r, exec[r].target - 1)'
      BY <2>1, <2>4, <3>2 DEF AllCompleted
    <3>4. QED
      BY <1>4, <3>2, <3>3 DEF RowFollows, AtWork, AtTarget, Numbers
  <2>5. CASE ~more
    <3>1. g.at = "finish"
      BY <1>6, <2>5
    <3>2. QED
      BY <1>4, <1>5, <1>6, <1>7, <2>2, <2>3, <2>5, <3>1 DEF RowFollows, AtWork, AtTarget, Numbers
  <2>6. QED
    BY <2>4, <2>5
<1>11. RowTrue(r)'
  <2>1. stored'[r].completed = Cardinality(Recorded(r)')
    BY DEF Recorded, Numbers
  <2>2. QED
    BY <1>9, <2>1 DEF RowTrue
<1>12. QED
  BY <1>6, <1>8, <1>9, <1>10, <1>11, WorkKept

LEMMA RecordTargetKept ==
  ASSUME BenchInv, NEW r \in Runs, RecordTarget(r)
  PROVE  BenchInv'
<1>1. PICK selected \in BOOLEAN, found \in BOOLEAN :
        LET status == TargetStatus(r, selected, found)
            targets == [stored[r].targets EXCEPT ![exec[r].target] = status]
        IN /\ stored' = [stored EXCEPT ![r].targets = targets,
                           ![r].completed = Cardinality({t \in Numbers(r) : targets[t] # "queued"})]
           /\ NextTarget(r, Worse(exec[r].status, status))
  BY DEF RecordTarget
<1> DEFINE status == TargetStatus(r, selected, found)
           targets == [stored[r].targets EXCEPT ![exec[r].target] = status]
           completed == Cardinality({t \in Numbers(r) : targets[t] # "queued"})
           row == [stored[r] EXCEPT !.targets = targets, !.completed = completed]
           worse == Worse(exec[r].status, status)
<1>2. /\ BenchTypes /\ RowFollows(r) /\ exec[r] \in Goroutine /\ stored[r] \in Row(r)
      /\ exec[r].at = "record" /\ UNCHANGED <<activeRuns, unsaved, deaths>>
  BY DEF BenchInv, BenchTypes, RecordTarget
<1>3. status \in {"incomplete", "completed"}
  BY DEF TargetStatus
<1>4. /\ stored' = [stored EXCEPT ![r].targets = targets, ![r].completed = completed]
      /\ NextTarget(r, worse)
  BY <1>1
<1>5. exec[r].target \in Numbers(r) /\ stored[r].targets \in [Numbers(r) -> {"queued", "completed", "incomplete"}]
  BY <1>2 DEF RowFollows, Row
<1> HIDE DEF status
<1>6. /\ worse \in Status
      /\ worse = "completed" => status = "completed" /\ exec[r].status = "completed"
  BY <1>2, <1>3 DEF Worse, Status, Goroutine
<1>7. targets \in [Numbers(r) -> {"queued", "completed", "incomplete"}]
  BY <1>3, <1>5
<1>8. completed \in 0..TargetCount[r]
  <2> DEFINE S == {t \in Numbers(r) : targets[t] # "queued"}
  <2>1. S \subseteq Numbers(r)
    OBVIOUS
  <2> HIDE DEF S
  <2>2. Cardinality(S) \in 0..TargetCount[r]
    BY <2>1, CountTargets
  <2>3. QED
    BY <2>2 DEF S
<1>9. worse = "completed" => \A t \in 1..exec[r].target : targets[t] = "completed"
  <2> SUFFICES ASSUME worse = "completed", NEW t \in 1..exec[r].target PROVE targets[t] = "completed"
    OBVIOUS
  <2>1. exec[r].target \in 1..TargetCount[r] /\ TargetCount[r] \in Nat
    BY <1>5, TargetNumbers
  <2>2. t \in Numbers(r) /\ (t = exec[r].target \/ t \in 1..(exec[r].target - 1))
    BY <2>1, TargetNumbers
  <2>3. t # exec[r].target => stored[r].targets[t] = "completed"
    BY <1>2, <1>6, <2>2 DEF RowFollows, AtTarget, AllCompleted
  <2>4. QED
    BY <1>5, <1>6, <2>2, <2>3
<1>10. /\ stored'[r] = row /\ DOMAIN stored' = Runs /\ \A q \in Runs \ {r} : stored'[q] = stored[q]
  BY <1>2, <1>4 DEF BenchTypes
<1> HIDE DEF worse, targets
<1>11. row.targets = targets /\ row.completed = completed /\ row.status = "running" /\ row \in Row(r)
  <2>1. stored[r].status = "running"
    BY <1>2 DEF RowFollows, AtWork, AtTarget
  <2> HIDE DEF completed
  <2>2. QED
    BY <1>2, <1>7, <1>8, <2>1 DEF Row
<1>12. row.completed = Cardinality({t \in Numbers(r) : row.targets[t] # "queued"})
  BY <1>11
<1> HIDE DEF row, completed
<1>13. worse = "completed" => \A t \in 1..exec[r].target : row.targets[t] = "completed"
  BY <1>9, <1>11
<1>14. QED
  BY <1>2, <1>4, <1>6, <1>10, <1>11, <1>12, <1>13, RecordKept

LEMMA RecordFailsKept ==
  ASSUME BenchInv, NEW r \in Runs, RecordFails(r)
  PROVE  BenchInv'
<1>1. /\ BenchTypes /\ RowFollows(r) /\ RowTrue(r) /\ stored[r] \in Row(r)
      /\ exec[r].at = "record" /\ UNCHANGED <<activeRuns, stored, unsaved, deaths>>
      /\ NextTarget(r, "failed") /\ "failed" \in Status
  BY DEF BenchInv, BenchTypes, RecordFails, Status
<1>2. stored[r].status = "running" /\ stored'[r] = stored[r] /\ DOMAIN stored' = Runs
  BY <1>1 DEF RowFollows, AtWork, AtTarget, BenchTypes
<1>3. stored[r].completed = Cardinality({t \in Numbers(r) : stored[r].targets[t] # "queued"})
  BY <1>1 DEF RowTrue, Recorded
<1>4. \A q \in Runs \ {r} : stored'[q] = stored[q]
  BY <1>1
<1>5. QED
  BY <1>1, <1>2, <1>3, <1>4, RecordKept

LEMMA FinishKept ==
  ASSUME BenchInv, NEW r \in Runs, Finish(r)
  PROVE  BenchInv'
<1>1. /\ BenchTypes /\ SlotsRight /\ RowFollows(r) /\ RowTrue(r) /\ exec[r] \in Goroutine /\ stored[r] \in Row(r)
      /\ exec[r].at = "finish" /\ exec' = [exec EXCEPT ![r] = Done] /\ activeRuns' = activeRuns - 1
      /\ UNCHANGED deaths
  BY DEF BenchInv, BenchTypes, Finish
<1>2. /\ Done.at = "done" /\ Done.target = 1 /\ Done.cases = None.cases /\ Done.status = "completed"
      /\ Done \in Goroutine /\ \A c \in Cases : Done.cases[c] # "asked"
  <2>1. 1 \in AnyNumber
    BY TargetNumbers
  <2>2. QED
    BY <2>1 DEF Done, None, Goroutine, Place, Status, CaseState
<1>3. exec'[r] = Done
  BY <1>1 DEF BenchTypes
<1>4. Executing' = Executing \ {r} /\ r \in Executing
  <2>1. r \in Executing
    BY <1>1 DEF Executing
  <2>2. \A q \in Runs \ {r} : exec'[q] = exec[q]
    BY <1>1 DEF BenchTypes
  <2>3. QED
    BY <1>2, <1>3, <2>1, <2>2 DEF Executing
<1>5. SlotsRight'
  BY <1>1, <1>4, SlotsMove
<1>6. RowFollows(r)'
  BY <1>2, <1>3, TargetNumbers DEF RowFollows, AtWork, AtTarget, Numbers
<1>7. CASE stored' = [stored EXCEPT ![r].status = exec[r].status, ![r].completed = Cardinality(Recorded(r))]
           /\ UNCHANGED unsaved
  <2> DEFINE completed == Cardinality(Recorded(r))
             row == [stored[r] EXCEPT !.status = exec[r].status, !.completed = completed]
  <2>1. stored' = [stored EXCEPT ![r] = row]
    BY <1>1, <1>7 DEF BenchTypes
  <2>2. completed \in 0..TargetCount[r]
    BY CountTargets DEF Recorded
  <2>3. exec[r].status \in Status
    BY <1>1 DEF Goroutine
  <2> HIDE DEF completed
  <2>4. /\ row \in Row(r) /\ row.status = exec[r].status /\ row.targets = stored[r].targets
        /\ row.completed = completed
    BY <1>1, <2>2, <2>3 DEF Row
  <2>5. Moves(r, Done, row) /\ stored'[r] = row
    BY <1>1, <2>1 DEF Moves, BenchTypes
  <2> HIDE DEF row
  <2>6. RowTrue(r)'
    <3>1. Recorded(r)' = Recorded(r)
      BY <2>4, <2>5 DEF Recorded, Numbers
    <3>2. exec[r].status = "completed" => AllCompleted(r, TargetCount[r])
      BY <1>1 DEF RowFollows
    <3>3. row.status # "running"
      BY <2>3, <2>4 DEF Status
    <3>4. stored'[r].completed = Cardinality(Recorded(r)')
      BY <2>4, <2>5, <3>1 DEF completed
    <3>5. stored'[r].status = "completed" => AllCompleted(r, TargetCount[r])'
      BY <2>4, <2>5, <3>2 DEF AllCompleted
    <3>6. QED
      BY <2>5, <3>3, <3>4, <3>5 DEF RowTrue
  <2>7. unsaved \subseteq unsaved' /\ unsaved' \subseteq Runs
    BY <1>1, <1>7 DEF BenchTypes
  <2>8. QED
    BY <1>1, <1>2, <1>5, <1>6, <2>4, <2>5, <2>6, <2>7, EndsKept
<1>8. CASE unsaved' = unsaved \cup {r} /\ UNCHANGED stored
  <2>1. stored'[r] = stored[r] /\ Moves(r, Done, stored[r])
    BY <1>1, <1>8 DEF Moves, BenchTypes
  <2>2. RowTrue(r)'
    BY <1>8, <2>1, RowStays
  <2>3. unsaved \subseteq unsaved' /\ unsaved' \subseteq Runs
    BY <1>1, <1>8 DEF BenchTypes
  <2>4. QED
    BY <1>1, <1>2, <1>5, <1>6, <2>1, <2>2, <2>3, EndsKept
<1>9. QED
  BY <1>7, <1>8 DEF Finish, Recorded

LEMMA DeathKept ==
  ASSUME BenchInv, ControldDies
  PROVE  BenchInv'
<1>1. /\ BenchTypes /\ SlotsRight /\ \A r \in Runs : RowFollows(r) /\ RowTrue(r)
      /\ deaths < MaxDeaths /\ deaths' = deaths + 1
      /\ exec' = [r \in Runs |-> IF r \in Executing THEN Done ELSE exec[r]]
      /\ unsaved' = unsaved \cup {r \in Executing : stored[r].status = "running"}
      /\ activeRuns' = 0 /\ UNCHANGED stored
  BY DEF BenchInv, ControldDies
<1>2. /\ Done.at = "done" /\ Done.target = 1 /\ \A c \in Cases : Done.cases[c] # "asked"
  BY DEF Done, None
<1>3. Done \in Goroutine
  <2> SUFFICES ASSUME NEW r \in Runs PROVE Done \in Goroutine
    BY <1>1 DEF ControldDies, Executing
  <2>1. 1 \in AnyNumber
    BY TargetNumbers
  <2>2. QED
    BY <2>1 DEF Done, None, Goroutine, Place, Status, CaseState
<1>4. Executing' = {}
  BY <1>1, <1>2 DEF Executing
<1>5. SlotsRight'
  BY <1>1, <1>4, FS_EmptySet, BenchmarkAssumption DEF SlotsRight
<1>6. BenchTypes'
  <2>1. exec' \in [Runs -> Goroutine]
    BY <1>1, <1>3 DEF BenchTypes
  <2>2. deaths' \in 0..MaxDeaths
    BY <1>1, BenchmarkAssumption DEF BenchTypes
  <2>3. unsaved' \subseteq Runs
    BY <1>1 DEF BenchTypes, Executing
  <2>4. DOMAIN stored' = Runs /\ \A r \in Runs : stored'[r] \in Row(r)
    BY <1>1 DEF BenchTypes
  <2>5. QED
    BY <2>1, <2>2, <2>3, <2>4 DEF BenchTypes, Goroutine, Row, Numbers, AnyNumber
<1>7. ASSUME NEW r \in Runs
      PROVE  RowFollows(r)' /\ RowTrue(r)'
  <2>1. stored'[r] = stored[r]
    BY <1>1
  <2>2. RowFollows(r)'
    <3>1. CASE r \in Executing
      <4>1. exec'[r] = Done
        BY <1>1, <3>1
      <4>2. QED
        BY <1>2, <4>1, TargetNumbers DEF RowFollows, AtWork, AtTarget, Numbers
    <3>2. CASE r \notin Executing
      <4>1. exec'[r] = exec[r]
        BY <1>1, <3>2
      <4>2. QED
        BY <1>1, <2>1, <4>1 DEF RowFollows, AllCompleted, Numbers
    <3>3. QED
      BY <3>1, <3>2
  <2>3. stored[r].status = "running" => r \in unsaved'
    BY <1>1 DEF RowTrue
  <2>4. RowTrue(r)'
    BY <2>1, <2>3, RowStays
  <2>5. QED
    BY <2>2, <2>4
<1>8. QED
  BY <1>5, <1>6, <1>7 DEF BenchInv

LEMMA BenchInvKept ==
  ASSUME BenchInv, BenchNext \/ UNCHANGED benchVars
  PROVE  BenchInv'
<1>1. CASE UNCHANGED benchVars
  <2>1. UNCHANGED <<activeRuns, exec, stored, unsaved, deaths>>
    BY <1>1 DEF benchVars
  <2>2. \A q \in Runs : RowFollows(q)' /\ RowTrue(q)'
    BY <2>1, OthersFollow
  <2>3. BenchTypes' /\ SlotsRight'
    BY <2>1 DEF BenchInv, BenchTypes, SlotsRight, Executing, Numbers, AnyNumber, Goroutine, Row
  <2>4. QED
    BY <2>2, <2>3 DEF BenchInv
<1>2. ASSUME NEW r \in Runs, StartRun(r) \/ Execute(r)
      PROVE  BenchInv'
  BY <1>2, StartKept, CreateKept, CreateFailsKept, BeginTargetKept, AskKept, AnswerKept,
     AllAnsweredKept, RecordTargetKept, RecordFailsKept, FinishKept DEF Execute
<1>3. QED
  BY <1>1, <1>2, DeathKept DEF BenchNext

(***************************************************************************)
(* aigw's supervisor.                                                      *)
(***************************************************************************)

(* The daemons behind the place that is reaped now have exited, or will.    *)
Reaped == \A i \in DOMAIN Daemons : i > at => Daemons[i] \notin Aigw!Running \ sigkill

(* What a channel holds is how its daemon exited.                           *)
ResultsReal == \A d \in Aigw!Daemon : done[d] # "empty" => process[d] \in Aigw!Exit

(* Nobody is started before those in front of it.                           *)
Unstarted(i) == process[Daemons[i]] = "none"
InOrder ==
  \A i \in DOMAIN Daemons :
    \/ boss = "verify"
    \/ boss = "start" /\ i >= at
    \/ boss = "settle" /\ i > at
    => Unstarted(i)

SuperviseInv ==
  /\ Aigw!SuperviseTypeOK
  /\ boss \in {"start", "settle"} => at \in DOMAIN Daemons
  /\ boss = "verify" => at = 1
  /\ InOrder
  /\ boss = "reap" => at \in 0..Len(Daemons) /\ Reaped
  /\ Aigw!NoOrphans
  /\ ResultsReal

LEMMA DaemonsListed ==
  /\ Len(Daemons) \in Nat \ {0} /\ DOMAIN Daemons = 1..Len(Daemons) /\ 1 \in DOMAIN Daemons
  /\ \A i \in DOMAIN Daemons : Daemons[i] \in Aigw!Daemon
  /\ \A d \in Aigw!Daemon : \E i \in DOMAIN Daemons : d = Daemons[i]
BY DaemonsAssumption DEF Aigw!SuperviseAssumption, Aigw!Daemon

LEMMA SuperviseInitially == Aigw!SuperviseInit \/ AigwAtRest => SuperviseInv
<1> SUFFICES ASSUME Aigw!SuperviseInit \/ AigwAtRest PROVE SuperviseInv
  OBVIOUS
<1>1. /\ boss \in {"verify", "gone"} /\ at = 1 /\ signalled = FALSE
      /\ process = [d \in Aigw!Daemon |-> "none"] /\ sigterm = {} /\ sigkill = {}
      /\ done = [d \in Aigw!Daemon |-> "empty"] /\ watcher = {} /\ childExited = FALSE
  BY DEF Aigw!SuperviseInit, AigwAtRest
<1>2. Aigw!SuperviseTypeOK
  <2>1. 1 \in 0..Len(Daemons) + 1
    BY DaemonsListed
  <2>2. QED
    BY <1>1, <2>1 DEF Aigw!SuperviseTypeOK
<1>3. Aigw!Running = {}
  BY <1>1 DEF Aigw!Running
<1>4. Aigw!NoOrphans /\ ResultsReal /\ InOrder
  BY <1>1, <1>3, DaemonsListed DEF Aigw!NoOrphans, ResultsReal, InOrder, Unstarted
<1>5. QED
  BY <1>1, <1>2, <1>3, <1>4 DEF SuperviseInv

(* A step after which a daemon runs only if it ran before, and which takes  *)
(* no signal back, keeps what is said of those that run.                    *)
LEMMA FewerRun ==
  ASSUME SuperviseInv, Aigw!SuperviseTypeOK', Aigw!Running' \subseteq Aigw!Running, sigkill \subseteq sigkill',
         ResultsReal', \A d \in Aigw!Daemon : process[d] = "none" => process'[d] = "none",
         boss' = boss, at' = at
  PROVE  SuperviseInv'
<1>1. Aigw!NoOrphans'
  BY DEF SuperviseInv, Aigw!NoOrphans
<1>2. boss' = "reap" => at' \in 0..Len(Daemons) /\ Reaped'
  BY DEF SuperviseInv, Reaped
<1>3. InOrder'
  BY DaemonsListed DEF SuperviseInv, InOrder, Unstarted
<1>4. QED
  BY <1>1, <1>2, <1>3 DEF SuperviseInv

LEMMA SuperviseInvKept ==
  ASSUME SuperviseInv, Aigw!SuperviseNext \/ UNCHANGED atAigw
  PROVE  SuperviseInv'
<1> USE DEF Aigw!Exit
<1>1. /\ Aigw!SuperviseTypeOK /\ ResultsReal /\ Aigw!NoOrphans
      /\ boss \in {"start", "settle"} => at \in DOMAIN Daemons
      /\ boss = "verify" => at = 1
      /\ InOrder
      /\ boss = "reap" => at \in 0..Len(Daemons) /\ Reaped
  BY DEF SuperviseInv
<1>2. CASE UNCHANGED atAigw
  <2>1. UNCHANGED <<boss, at, signalled, process, sigterm, sigkill, done, watcher, childExited>>
    BY <1>2 DEF atAigw
  <2>2. Aigw!SuperviseTypeOK'
    BY <1>1, <2>1 DEF Aigw!SuperviseTypeOK
  <2>3. ResultsReal' /\ Aigw!Running' = Aigw!Running
    BY <1>1, <2>1 DEF ResultsReal, Aigw!Running
  <2>4. QED
    BY <2>1, <2>2, <2>3, FewerRun
<1>3. CASE Aigw!Verify
  <2>1. boss = "verify" /\ boss' \in {"start", "gone"}
        /\ UNCHANGED <<at, signalled, process, sigterm, sigkill, done, watcher, childExited>>
    BY <1>3 DEF Aigw!Verify
  <2>2. Aigw!SuperviseTypeOK'
    BY <1>1, <2>1 DEF Aigw!SuperviseTypeOK
  <2>3. ResultsReal' /\ InOrder'
    BY <1>1, <2>1 DEF ResultsReal, InOrder, Unstarted
  <2>4. Aigw!NoOrphans'
    BY <1>1, <2>1, DaemonsListed DEF Aigw!NoOrphans, Aigw!Running, InOrder, Unstarted
  <2>5. QED
    BY <1>1, <2>1, <2>2, <2>3, <2>4, DaemonsListed DEF SuperviseInv
<1>4. CASE Aigw!StartFails
  <2>1. boss' = "term" /\ at' = 0
        /\ UNCHANGED <<signalled, process, sigterm, sigkill, done, watcher, childExited>>
    BY <1>4 DEF Aigw!StartFails, Aigw!StopAll
  <2>2. Aigw!SuperviseTypeOK'
    BY <1>1, <2>1, DaemonsListed DEF Aigw!SuperviseTypeOK
  <2>3. ResultsReal' /\ Aigw!NoOrphans' /\ InOrder'
    BY <1>1, <2>1 DEF ResultsReal, Aigw!NoOrphans, InOrder
  <2>4. QED
    BY <2>1, <2>2, <2>3 DEF SuperviseInv
<1>5. CASE Aigw!Start
  <2>1. /\ boss = "start" /\ boss' = "settle" /\ at' = at
        /\ process' = [process EXCEPT ![Daemons[at]] = "running"]
        /\ watcher' = watcher \cup {Daemons[at]}
        /\ UNCHANGED <<signalled, sigterm, sigkill, done, childExited>>
    BY <1>5 DEF Aigw!Start
  <2>2. at \in DOMAIN Daemons /\ Daemons[at] \in Aigw!Daemon
    BY <1>1, <2>1, DaemonsListed
  <2>3. Aigw!SuperviseTypeOK'
    BY <1>1, <2>1, <2>2 DEF Aigw!SuperviseTypeOK
  <2>4. Aigw!NoOrphans'
    BY <2>1 DEF Aigw!NoOrphans
  <2>5. ResultsReal'
    <3>1. process[Daemons[at]] = "none"
      BY <1>1, <2>1, <2>2, DaemonsListed DEF InOrder, Unstarted
    <3>2. done[Daemons[at]] = "empty"
      BY <1>1, <2>2, <3>1 DEF ResultsReal
    <3>3. QED
      BY <1>1, <2>1, <3>2 DEF ResultsReal, Aigw!SuperviseTypeOK
  <2>6. InOrder'
    <3>1. SUFFICES ASSUME NEW i \in DOMAIN Daemons, i > at PROVE process'[Daemons[i]] = "none"
      BY <2>1 DEF InOrder, Unstarted
    <3>2. Daemons[i] # Daemons[at] /\ Daemons[i] \in Aigw!Daemon /\ process[Daemons[i]] = "none"
      BY <1>1, <2>1, <2>2, <3>1, DaemonsListed, DaemonsAssumption DEF InOrder, Unstarted, Aigw!SuperviseAssumption
    <3>3. QED
      BY <1>1, <2>1, <3>2 DEF Aigw!SuperviseTypeOK
  <2>7. QED
    BY <2>1, <2>2, <2>3, <2>4, <2>5, <2>6 DEF SuperviseInv
<1>6. CASE Aigw!Settle
  <2>1. /\ boss = "settle" /\ boss' \in {"term", "start", "health"}
        /\ UNCHANGED <<signalled, process, sigterm, sigkill, watcher, childExited>>
        /\ done' = done \/ done' = [done EXCEPT ![Daemons[at]] = "empty"]
        /\ at' = 0 \/ at' = at \/ (at < Len(Daemons) /\ at' = at + 1)
        /\ boss' = "start" => at' \in 1..Len(Daemons) /\ at' = at + 1
    BY <1>1, <1>6, DaemonsListed DEF Aigw!Settle, Aigw!StopAll
  <2>2. at \in DOMAIN Daemons /\ Daemons[at] \in Aigw!Daemon
    BY <1>1, <2>1, DaemonsListed
  <2>3. at' \in 0..Len(Daemons) + 1
    BY <2>1, <2>2, DaemonsListed
  <2>4. Aigw!SuperviseTypeOK'
    BY <1>1, <2>1, <2>2, <2>3 DEF Aigw!SuperviseTypeOK
  <2>5. ResultsReal'
    BY <1>1, <2>1, <2>2 DEF ResultsReal, Aigw!SuperviseTypeOK
  <2>6. Aigw!NoOrphans'
    BY <2>1 DEF Aigw!NoOrphans
  <2>7. InOrder'
    <3>1. SUFFICES ASSUME NEW i \in DOMAIN Daemons, i >= at', boss' = "start" PROVE Unstarted(i)
      BY <2>1 DEF InOrder, Unstarted
    <3>2. i > at
      BY <2>1, <2>2, <3>1, DaemonsListed
    <3>3. QED
      BY <1>1, <2>1, <3>2 DEF InOrder
  <2>8. QED
    BY <2>1, <2>4, <2>5, <2>6, <2>7, DaemonsListed DEF SuperviseInv
<1>7. CASE Aigw!Health
  <2>1. boss' = "wait"
        /\ UNCHANGED <<at, signalled, process, sigterm, sigkill, done, watcher, childExited>>
    BY <1>7 DEF Aigw!Health
  <2>2. Aigw!SuperviseTypeOK'
    BY <1>1, <2>1 DEF Aigw!SuperviseTypeOK
  <2>3. ResultsReal' /\ Aigw!NoOrphans' /\ InOrder'
    BY <1>1, <2>1 DEF ResultsReal, Aigw!NoOrphans, InOrder
  <2>4. QED
    BY <2>1, <2>2, <2>3 DEF SuperviseInv
<1>8. CASE Aigw!Wait
  <2>1. boss' = "term" /\ at' = 0 /\ signalled' \in BOOLEAN /\ childExited' \in BOOLEAN
        /\ UNCHANGED <<process, sigterm, sigkill, done, watcher>>
    BY <1>1, <1>8 DEF Aigw!Wait, Aigw!StopAll, Aigw!SuperviseTypeOK
  <2>2. Aigw!SuperviseTypeOK'
    BY <1>1, <2>1, DaemonsListed DEF Aigw!SuperviseTypeOK
  <2>3. ResultsReal' /\ Aigw!NoOrphans' /\ InOrder'
    BY <1>1, <2>1 DEF ResultsReal, Aigw!NoOrphans, InOrder
  <2>4. QED
    BY <2>1, <2>2, <2>3 DEF SuperviseInv
<1>9. CASE Aigw!Terminate
  <2>1. boss' = "reap" /\ at' = Len(Daemons) /\ sigterm' = Aigw!Running
        /\ UNCHANGED <<signalled, process, sigkill, done, watcher, childExited>>
    BY <1>9 DEF Aigw!Terminate
  <2>2. Aigw!Running \subseteq Aigw!Daemon
    BY DEF Aigw!Running
  <2>3. Aigw!SuperviseTypeOK'
    BY <1>1, <2>1, <2>2, DaemonsListed DEF Aigw!SuperviseTypeOK
  <2>4. ResultsReal' /\ Aigw!NoOrphans' /\ InOrder'
    BY <1>1, <2>1 DEF ResultsReal, Aigw!NoOrphans, InOrder
  <2>5. Reaped' /\ at' \in 0..Len(Daemons)
    BY <2>1, DaemonsListed DEF Reaped
  <2>6. QED
    BY <2>1, <2>3, <2>4, <2>5 DEF SuperviseInv
<1>10. CASE Aigw!Reap
  <2>1. boss = "reap" /\ UNCHANGED <<signalled, process, sigterm, watcher, childExited>>
        /\ at \in 0..Len(Daemons) /\ Reaped
    BY <1>1, <1>10 DEF Aigw!Reap
  <2>2. CASE at = 0 /\ boss' = "gone" /\ UNCHANGED <<at, sigkill, done>>
    <3>1. Aigw!NoOrphans'
      <4>1. \A d \in Aigw!Running : d \in sigkill
        BY <2>1, <2>2, DaemonsListed DEF Reaped, Aigw!Running
      <4>2. QED
        BY <2>1, <2>2, <4>1 DEF Aigw!NoOrphans, Aigw!Running
    <3>2. Aigw!SuperviseTypeOK' /\ ResultsReal' /\ InOrder'
      BY <1>1, <2>1, <2>2 DEF Aigw!SuperviseTypeOK, ResultsReal, InOrder
    <3>3. QED
      BY <2>2, <3>1, <3>2 DEF SuperviseInv
  <2>3. CASE at > 0 /\ at' = at - 1 /\ boss' = boss
    <3> DEFINE e == Daemons[at]
    <3>1. at \in DOMAIN Daemons /\ e \in Aigw!Daemon
      BY <2>1, <2>3, DaemonsListed
    <3>2. \/ e \notin Aigw!Started /\ UNCHANGED <<sigkill, done>>
          \/ e \in Aigw!Started /\ done[e] # "empty" /\ done' = [done EXCEPT ![e] = "empty"] /\ UNCHANGED sigkill
          \/ e \in Aigw!Started /\ sigkill' = sigkill \cup {e} /\ UNCHANGED done
      BY <1>10, <2>3 DEF Aigw!Reap
    <3>3. Aigw!Running' = Aigw!Running /\ sigkill \subseteq sigkill'
      BY <2>1, <3>2 DEF Aigw!Running
    <3>4. e \notin Aigw!Running' \ sigkill'
      <4>1. CASE e \notin Aigw!Started
        BY <3>3, <4>1 DEF Aigw!Started, Aigw!Running
      <4>2. CASE done[e] # "empty"
        BY <1>1, <3>1, <3>3, <4>2 DEF ResultsReal, Aigw!Running
      <4>3. CASE sigkill' = sigkill \cup {e}
        BY <4>3
      <4>4. QED
        BY <3>2, <4>1, <4>2, <4>3
    <3>5. Reaped'
      <4>1. SUFFICES ASSUME NEW i \in DOMAIN Daemons, i > at - 1
                     PROVE  Daemons[i] \notin Aigw!Running' \ sigkill'
        BY <2>3 DEF Reaped
      <4>2. i = at \/ i > at
        BY <2>1, <4>1, DaemonsListed
      <4>3. QED
        BY <2>1, <3>3, <3>4, <4>2 DEF Reaped
    <3>6. ResultsReal' /\ done' \in [Aigw!Daemon -> {"empty"} \cup Aigw!Exit]
      BY <1>1, <2>1, <3>1, <3>2 DEF ResultsReal, Aigw!SuperviseTypeOK
    <3>7. at' \in 0..Len(Daemons) /\ at' \in 0..Len(Daemons) + 1
      BY <2>1, <2>3, DaemonsListed
    <3>8. sigkill' \subseteq Aigw!Daemon
      BY <1>1, <3>1, <3>2 DEF Aigw!SuperviseTypeOK
    <3>9. Aigw!SuperviseTypeOK'
      BY <1>1, <2>1, <2>3, <3>6, <3>7, <3>8 DEF Aigw!SuperviseTypeOK
    <3>10. Aigw!NoOrphans' /\ InOrder'
      BY <2>1, <2>3 DEF Aigw!NoOrphans, InOrder
    <3>11. QED
      BY <2>1, <2>3, <3>5, <3>6, <3>7, <3>9, <3>10 DEF SuperviseInv
  <2>4. QED
    BY <1>10, <2>2, <2>3 DEF Aigw!Reap
<1>11. CASE Aigw!Signal
  <2>1. signalled' = TRUE /\ UNCHANGED <<boss, at, process, sigterm, sigkill, done, watcher, childExited>>
    BY <1>11 DEF Aigw!Signal
  <2>2. Aigw!SuperviseTypeOK'
    BY <1>1, <2>1 DEF Aigw!SuperviseTypeOK
  <2>3. ResultsReal' /\ Aigw!Running' = Aigw!Running
    BY <1>1, <2>1 DEF ResultsReal, Aigw!Running
  <2>4. QED
    BY <2>1, <2>2, <2>3, FewerRun
<1>12. ASSUME NEW d \in Aigw!Daemon, Aigw!ContextKills(d)
       PROVE  SuperviseInv'
  <2>1. sigkill' = sigkill \cup {d} /\ UNCHANGED <<boss, at, signalled, process, sigterm, done, watcher, childExited>>
    BY <1>12 DEF Aigw!ContextKills
  <2>2. Aigw!SuperviseTypeOK'
    BY <1>1, <2>1 DEF Aigw!SuperviseTypeOK
  <2>3. ResultsReal' /\ Aigw!Running' = Aigw!Running
    BY <1>1, <2>1 DEF ResultsReal, Aigw!Running
  <2>4. QED
    BY <2>1, <2>2, <2>3, FewerRun
<1>13. ASSUME NEW d \in Aigw!Daemon, Aigw!Exits(d)
       PROVE  SuperviseInv'
  <2>1. PICK code \in Aigw!Exit :
          /\ process' = [process EXCEPT ![d] = code]
          /\ done' = IF boss = "gone" THEN done ELSE [done EXCEPT ![d] = code]
    BY <1>13 DEF Aigw!Exits
  <2>2. UNCHANGED <<boss, at, signalled, sigterm, sigkill, watcher, childExited>>
    BY <1>13 DEF Aigw!Exits
  <2>3. Aigw!SuperviseTypeOK'
    BY <1>1, <2>1, <2>2 DEF Aigw!SuperviseTypeOK
  <2>4. Aigw!Running' \subseteq Aigw!Running
    BY <1>1, <2>1 DEF Aigw!Running, Aigw!SuperviseTypeOK
  <2>5. ResultsReal'
    BY <1>1, <2>1 DEF ResultsReal, Aigw!SuperviseTypeOK
  <2>6. d \in Aigw!Running
    BY <1>13 DEF Aigw!Exits
  <2>7. \A e \in Aigw!Daemon : process[e] = "none" => process'[e] = "none"
    BY <1>1, <2>1, <2>6 DEF Aigw!Running, Aigw!SuperviseTypeOK
  <2>8. QED
    BY <2>2, <2>3, <2>4, <2>5, <2>7, FewerRun
<1>14. ASSUME NEW d \in Aigw!Daemon, Aigw!Watch(d)
       PROVE  SuperviseInv'
  <2>1. /\ watcher' = watcher \ {d} /\ done' = [done EXCEPT ![d] = "empty"]
        /\ childExited' \in BOOLEAN
        /\ UNCHANGED <<boss, at, signalled, process, sigterm, sigkill>>
    BY <1>1, <1>14 DEF Aigw!Watch, Aigw!SuperviseTypeOK
  <2>2. Aigw!SuperviseTypeOK'
    BY <1>1, <2>1 DEF Aigw!SuperviseTypeOK
  <2>3. ResultsReal' /\ Aigw!Running' = Aigw!Running
    BY <1>1, <2>1 DEF ResultsReal, Aigw!Running, Aigw!SuperviseTypeOK
  <2>4. QED
    BY <2>1, <2>2, <2>3, FewerRun
<1>15. QED
  BY <1>2, <1>3, <1>4, <1>5, <1>6, <1>7, <1>8, <1>9, <1>10, <1>11, <1>12, <1>13, <1>14
  DEF Aigw!SuperviseNext, Aigw!Boss

(* A set of numbers has a least one.                                        *)
LEMMA LeastNumber ==
  ASSUME NEW S, S \subseteq Nat, S # {}
  PROVE  \E n \in S : \A m \in S : n <= m
<1> DEFINE N == Nat
           R == OpToRel(<, Nat)
<1>0. \A m, n \in Nat : <<m, n>> \in R <=> m < n
  BY Zenon DEF OpToRel
<1>1. S \subseteq N /\ IsWellFoundedOn(R, N)
  BY NatLessThanWellFounded, Zenon
<1> HIDE DEF N, R
<1>2. \E n \in S : \A m \in S : ~ (<<m, n>> \in R)
  BY ONLY <1>1, S # {}, WFMin, SMT
<1>3. PICK n \in S : \A m \in S : ~ (<<m, n>> \in R)
  BY <1>2, Zenon
<1>4. n \in Nat
  BY Zenon
<1>5. ASSUME NEW m \in S
      PROVE  n <= m
  <2>1. m \in Nat /\ ~(m < n)
    BY <1>0, <1>3, <1>4, Zenon
  <2>2. QED
    BY ONLY <1>4, <2>1, SMT
<1>6. QED
  BY <1>5, Zenon

(* Induction up to a bound, for a set of numbers: the first one missing     *)
(* would have one before it that is not.                                    *)
LEMMA Induction ==
  ASSUME NEW N \in Nat, NEW T, 0 \in T, \A n \in 1..N : n - 1 \in T => n \in T
  PROVE  \A n \in 0..N : n \in T
<1> DEFINE S == {n \in 0..N : n \notin T}
<1>1. SUFFICES ASSUME S # {} PROVE FALSE
  OBVIOUS
<1>2. S \subseteq Nat
  OBVIOUS
<1> HIDE DEF S
<1>3. PICK n \in S : \A m \in S : n <= m
  BY <1>1, <1>2, LeastNumber
<1> USE DEF S
<1>4. n \in 1..N /\ n - 1 \in 0..N /\ ~(n <= n - 1)
  OBVIOUS
<1>5. n - 1 \notin S
  BY <1>3, <1>4
<1>6. QED
  BY <1>4, <1>5

(* A set of numbers with a bound has a largest one.                         *)
LEMMA LargestNumber ==
  ASSUME NEW S, S # {}, NEW N \in Nat, S \subseteq 0..N
  PROVE  \E n \in S : \A m \in S : n >= m
<1> DEFINE U == {u \in Nat : \A m \in S : m <= u}
<1>1. U \subseteq Nat /\ U # {}
  <2>1. N \in U
    OBVIOUS
  <2>2. QED
    BY <2>1
<1> HIDE DEF U
<1>2. PICK u \in U : \A v \in U : u <= v
  BY <1>1, LeastNumber
<1> USE DEF U
<1>3. u \in S
  <2>1. SUFFICES ASSUME u \notin S PROVE FALSE
    OBVIOUS
  <2>2. PICK m \in S : TRUE
    OBVIOUS
  <2>3. u \in Nat /\ u - 1 \in Nat /\ \A l \in S : l <= u - 1
    BY <2>1, <2>2
  <2>4. u - 1 \in U
    BY <2>3
  <2>5. QED
    BY <1>2, <2>3, <2>4
<1>4. QED
  BY <1>3

(***************************************************************************)
(* The live price list.                                                    *)
(***************************************************************************)

CatalogEntry == [from : {"nobody", "bootstrap"} \cup Live!Sources \cup Live!Config,
                 of : 0..MaxEdition, usd : BOOLEAN]
Exchange == [on : BOOLEAN, rates : BOOLEAN]

(* What a snapshot is made of.                                             *)
LEMMA SnapshotParts ==
  /\ Live!Snapshots = [live : [Live!Sources -> 0..MaxEdition], fx : Exchange,
                       catalog : [MCKeys -> CatalogEntry]]
  /\ MaxEdition \in Nat \ {0} /\ 0 \in 0..MaxEdition
  /\ \A from, of, usd : Live!Price(from, of, usd) = [from |-> from, of |-> of, usd |-> usd]
  /\ Live!Unpriced \in CatalogEntry /\ Live!BootPrice \in CatalogEntry
<1>1. MaxEdition \in Nat \ {0}
  BY PricesAssumption DEF Live!CatalogAssumption
<1>2. QED
  BY <1>1 DEF Live!Snapshots, CatalogEntry, Exchange, Live!Price, Live!Unpriced, Live!BootPrice

LEMMA BootIsSnapshot == Live!BootSnapshot \in Live!Snapshots
BY SnapshotParts DEF Live!BootSnapshot, Live!NoFX, Exchange

(* What a configuration names.                                             *)
LEMMA ConfigParts ==
  ASSUME NEW c \in Live!Config
  PROVE  /\ MCConfigs[c].sources \in Seq([id : Live!Sources, on : BOOLEAN])
         /\ MCConfigs[c].manual \subseteq MCKeys /\ MCConfigs[c].fx \in BOOLEAN
BY PricesAssumption DEF Live!CatalogAssumption

(* The last of some places of a configuration's sources names a source.    *)
LEMMA LastNamesSource ==
  ASSUME NEW c \in Live!Config, NEW S, S # {}, S \subseteq DOMAIN MCConfigs[c].sources
  PROVE  MCConfigs[c].sources[CHOOSE i \in S : \A j \in S : j <= i].id \in Live!Sources
<1> DEFINE from == MCConfigs[c].sources
           N == Len(from)
           Source == [id : Live!Sources, on : BOOLEAN]
<1>1. from \in Seq(Source)
  BY ConfigParts
<1> HIDE DEF from, Source
<1>2. N \in Nat /\ DOMAIN from = 1..N /\ \A i \in DOMAIN from : from[i] \in Source
  BY <1>1
<1> HIDE DEF N
<1>3. S \subseteq 0..N
  BY <1>2 DEF from
<1>4. PICK n \in S : \A m \in S : n >= m
  BY <1>2, <1>3, LargestNumber
<1>5. \A m \in S : m <= n
  BY <1>2, <1>3, <1>4
<1>6. (CHOOSE i \in S : \A j \in S : j <= i) \in S
  BY <1>5
<1>7. from[CHOOSE i \in S : \A j \in S : j <= i] \in Source
  BY <1>2, <1>6 DEF from
<1>8. QED
  BY <1>7 DEF from, Source

(* A configuration applied to a snapshot gives a snapshot.                 *)
LEMMA AppliedIsSnapshot ==
  ASSUME NEW snap \in Live!Snapshots, NEW c \in Live!Config
  PROVE  Live!applyPricingConfigToSnapshot(snap, c) \in Live!Snapshots
<1> DEFINE lives == [s \in Live!Sources |-> IF s \in Live!Configured(c) THEN snap.live[s] ELSE 0]
           usd == snap.fx.on /\ snap.fx.rates
           from == MCConfigs[c].sources
           Of(k) == {i \in Live!Enabled(c) : lives[from[i].id] # 0 /\ k \in MCPrices[from[i].id]}
           Latest(S) == CHOOSE i \in S : \A j \in S : j <= i
           Entry(k) == IF k \in MCConfigs[c].manual THEN Live!Price(c, 0, usd)
                       ELSE IF Of(k) # {} THEN Live!Price(from[Latest(Of(k))].id, lives[from[Latest(Of(k))].id], usd)
                       ELSE Live!BootSnapshot.catalog[k]
<1>1. snap.live \in [Live!Sources -> 0..MaxEdition] /\ snap.fx \in Exchange
  BY SnapshotParts
<1>2. lives \in [Live!Sources -> 0..MaxEdition]
  BY <1>1, SnapshotParts
<1>3. usd \in BOOLEAN
  BY <1>1 DEF Exchange
<1>4. Live!applyPricingConfigToSnapshot(snap, c) =
        [live |-> lives, fx |-> snap.fx, catalog |-> [k \in MCKeys |-> Entry(k)]]
  BY Zenon DEF Live!applyPricingConfigToSnapshot
<1> HIDE DEF lives, usd
<1>5. ASSUME NEW k \in MCKeys
      PROVE  Entry(k) \in CatalogEntry
  <2>1. CASE k \in MCConfigs[c].manual
    BY <1>3, <2>1, SnapshotParts DEF CatalogEntry
  <2>2. CASE k \notin MCConfigs[c].manual /\ Of(k) # {}
    <3> DEFINE s == from[Latest(Of(k))].id
    <3>1. Of(k) \subseteq DOMAIN MCConfigs[c].sources
      BY DEF Live!Enabled
    <3> HIDE DEF Of
    <3>2. s \in Live!Sources
      BY <2>2, <3>1, LastNamesSource
    <3>3. Entry(k) = Live!Price(s, lives[s], usd)
      BY <2>2
    <3> HIDE DEF s, Entry
    <3>4. QED
      BY <1>2, <1>3, <3>2, <3>3, SnapshotParts DEF CatalogEntry
  <2>3. CASE k \notin MCConfigs[c].manual /\ Of(k) = {}
    <3>1. Entry(k) = Live!BootSnapshot.catalog[k]
      BY <2>3
    <3>2. Live!BootSnapshot.catalog[k] \in CatalogEntry
      BY BootIsSnapshot, SnapshotParts
    <3>3. QED
      BY <3>1, <3>2
  <2>4. QED
    BY <2>1, <2>2, <2>3
<1> HIDE DEF Entry
<1>6. QED
  BY <1>1, <1>2, <1>4, <1>5, SnapshotParts

LEMMA MergedIsSnapshot ==
  ASSUME NEW base \in Live!Snapshots, NEW overlay \in Live!Snapshots
  PROVE  Live!mergePricingSnapshots(base, overlay) \in Live!Snapshots
<1> DEFINE lives == [s \in Live!Sources |-> IF overlay.live[s] # 0 THEN overlay.live[s] ELSE base.live[s]]
           fx == IF overlay.fx.on \/ overlay.fx.rates THEN overlay.fx ELSE base.fx
<1>1. lives \in [Live!Sources -> 0..MaxEdition] /\ fx \in Exchange
  BY SnapshotParts
<1>2. Live!mergePricingSnapshots(base, overlay) = [base EXCEPT !.live = lives, !.fx = fx]
  BY SnapshotParts DEF Live!mergePricingSnapshots
<1> HIDE DEF lives, fx
<1>3. QED
  BY <1>1, <1>2, SnapshotParts

LEMMA CachedIsSnapshot ==
  ASSUME NEW file \in Live!Snapshots
  PROVE  Live!Cached(file) \in Live!Snapshots
BY BootIsSnapshot, MergedIsSnapshot DEF Live!Cached

LEMMA StrippedIsSnapshot ==
  ASSUME NEW snap \in Live!Snapshots, NEW c \in Live!Config
  PROVE  Live!stripPricingManualOverrides(snap, c) \in Live!Snapshots
<1> DEFINE rest == [k \in MCKeys |-> IF k \in MCConfigs[c].manual THEN Live!Unpriced ELSE snap.catalog[k]]
<1>1. rest \in [MCKeys -> CatalogEntry]
  BY SnapshotParts
<1>2. Live!stripPricingManualOverrides(snap, c) = [snap EXCEPT !.catalog = rest]
  BY SnapshotParts DEF Live!stripPricingManualOverrides
<1> HIDE DEF rest
<1>3. QED
  BY <1>1, <1>2, SnapshotParts

LEMMA UpdatedIsSnapshot ==
  ASSUME NEW current \in Live!Snapshots, NEW held \in Live!Snapshots, NEW c \in Live!Config
  PROVE  Live!pricingSnapshotForUpdate(current, held, c) \in Live!Snapshots
<1> DEFINE updated == Live!applyPricingConfigToSnapshot(Live!mergePricingSnapshots(held, current), c)
           noneLive == \A s \in Live!Sources : updated.live[s] = 0
           kept == [k \in MCKeys |-> IF updated.catalog[k] = Live!Unpriced
                                     THEN current.catalog[k] ELSE updated.catalog[k]]
<1>1. updated \in Live!Snapshots
  BY MergedIsSnapshot, AppliedIsSnapshot
<1>2. Live!pricingSnapshotForUpdate(current, held, c) = IF noneLive THEN [updated EXCEPT !.catalog = kept] ELSE updated
  <2>1. updated = [live |-> updated.live, fx |-> updated.fx, catalog |-> updated.catalog]
    BY <1>1, SnapshotParts
  <2>2. QED
    BY <2>1 DEF Live!pricingSnapshotForUpdate
<1> HIDE DEF updated, noneLive
<1>3. kept \in [MCKeys -> CatalogEntry]
  BY <1>1, SnapshotParts
<1> HIDE DEF kept
<1>4. [updated EXCEPT !.catalog = kept] \in Live!Snapshots
  BY <1>1, <1>3, SnapshotParts
<1>5. QED
  BY <1>1, <1>2, <1>4

LEMMA RefreshedIsSnapshot ==
  ASSUME NEW current \in Live!Snapshots, NEW c \in Live!Config, NEW answered,
         NEW rates \in BOOLEAN, edition \in 1..MaxEdition
  PROVE  Live!refreshPricingSnapshot(current, c, answered, rates) \in Live!Snapshots
<1> DEFINE lives == [s \in Live!Sources |-> IF s \in answered THEN edition ELSE current.live[s]]
           fx == [on |-> MCConfigs[c].fx, rates |-> current.fx.rates \/ rates]
           fresh == [current EXCEPT !.live = lives, !.fx = fx]
<1>1. edition \in 0..MaxEdition
  BY SnapshotParts
<1>2. current.live \in [Live!Sources -> 0..MaxEdition] /\ current.fx \in Exchange
  BY SnapshotParts
<1>3. lives \in [Live!Sources -> 0..MaxEdition]
  BY <1>1, <1>2
<1>4. fx \in Exchange
  BY <1>2, ConfigParts DEF Exchange
<1>5. Live!refreshPricingSnapshot(current, c, answered, rates) = Live!applyPricingConfigToSnapshot(fresh, c)
  BY SnapshotParts DEF Live!refreshPricingSnapshot
<1> HIDE DEF lives, fx
<1>6. fresh \in Live!Snapshots
  BY <1>3, <1>4, SnapshotParts
<1>7. QED
  BY <1>5, <1>6, AppliedIsSnapshot

(* The type invariant of the price list is inductive.                      *)
LEMMA IdleTyped == ASSUME NEW c \in Live!Config PROVE Live!Idle \in [cfg : Live!Config, snap : Live!Snapshots]
<1>1. (CHOOSE d \in Live!Config : TRUE) \in Live!Config
  OBVIOUS
<1>2. QED
  BY <1>1, BootIsSnapshot DEF Live!Idle

LEMMA PricesInitially == Live!CatalogInit \/ PricesAtRest => Live!CatalogTypeOK
<1> SUFFICES ASSUME Live!CatalogInit \/ PricesAtRest PROVE Live!CatalogTypeOK
  OBVIOUS
<1>1. /\ edition = 1 /\ cfg \in Live!Config /\ cache = Live!BootSnapshot /\ updates = 0
      /\ step = [w \in Live!Writers |-> "idle"] /\ mine = [w \in Live!Writers |-> Live!Idle]
  <2>1. full \in Live!Config
    BY DEF Live!Config, MCConfigs
  <2>2. QED
    BY <2>1 DEF Live!CatalogInit, PricesAtRest
<1>2. state \in Live!Snapshots
  BY <1>1, BootIsSnapshot, CachedIsSnapshot, AppliedIsSnapshot
     DEF Live!CatalogInit, PricesAtRest, Live!pricingSnapshotFromConfig
<1>3. MaxEdition \in Nat \ {0} /\ MaxUpdates \in Nat
  BY PricesAssumption DEF Live!CatalogAssumption
<1>4. Live!Idle \in [cfg : Live!Config, snap : Live!Snapshots]
  BY <1>1, IdleTyped
<1>5. QED
  BY <1>1, <1>2, <1>3, <1>4, BootIsSnapshot DEF Live!CatalogTypeOK

Places == {"idle", "config", "fetch", "store", "save", "again", "configure", "compute", "publish"}
Work == [cfg : Live!Config, snap : Live!Snapshots]

LEMMA GoesTyped ==
  ASSUME step \in [Live!Writers -> Places], NEW w, NEW from, NEW to \in Places, Live!Goes(w, from, to)
  PROVE  step' \in [Live!Writers -> Places]
BY DEF Live!Goes

(* A writer's part stays typed when either of its parts changes.           *)
LEMMA WorkTyped ==
  ASSUME mine \in [Live!Writers -> Work], NEW w \in Live!Writers,
         NEW c \in Live!Config, NEW snap \in Live!Snapshots
  PROVE  /\ [mine EXCEPT ![w].cfg = c] \in [Live!Writers -> Work]
         /\ [mine EXCEPT ![w].snap = snap] \in [Live!Writers -> Work]
         /\ [mine EXCEPT ![w] = [cfg |-> c, snap |-> snap]] \in [Live!Writers -> Work]
BY DEF Work

LEMMA RefreshTyped ==
  ASSUME Live!CatalogTypeOK, NEW w \in Live!Writers, Live!Refresh(w)
  PROVE  Live!CatalogTypeOK'
<1>1. /\ edition \in 1..MaxEdition /\ cfg \in Live!Config /\ updates \in 0..MaxUpdates
      /\ state \in Live!Snapshots /\ cache \in Live!Snapshots
      /\ step \in [Live!Writers -> Places] /\ mine \in [Live!Writers -> Work]
      /\ UNCHANGED <<edition, cfg, updates>>
  BY DEF Live!CatalogTypeOK, Places, Work, Live!Refresh, Live!ReadConfig, Live!ReadSnapshot, Live!Fetch,
         Live!Store, Live!Save, Live!SaveFails, Live!StoreAgain
<1>2. mine[w].cfg \in Live!Config /\ mine[w].snap \in Live!Snapshots
  BY <1>1 DEF Work
<1>3. step' \in [Live!Writers -> Places]
  BY <1>1, GoesTyped DEF Places, Live!Refresh, Live!ReadConfig, Live!ReadSnapshot, Live!Fetch,
         Live!Store, Live!Save, Live!SaveFails, Live!StoreAgain
<1>4. mine' \in [Live!Writers -> Work]
  <2>1. CASE Live!ReadConfig(w)
    BY <1>1, <2>1, WorkTyped, BootIsSnapshot DEF Live!ReadConfig
  <2>2. CASE Live!ReadSnapshot(w)
    BY <1>1, <2>2, WorkTyped DEF Live!ReadSnapshot
  <2>3. CASE Live!Fetch(w)
    <3> DEFINE on == {MCConfigs[mine[w].cfg].sources[i].id : i \in Live!Enabled(mine[w].cfg)}
    <3>1. PICK answered \in SUBSET on, rates \in {FALSE, MCConfigs[mine[w].cfg].fx} :
            mine' = [mine EXCEPT ![w].snap = Live!refreshPricingSnapshot(@, mine[w].cfg, answered, rates)]
      BY <2>3 DEF Live!Fetch
    <3>2. rates \in BOOLEAN
      BY <1>2, ConfigParts
    <3> DEFINE snap == Live!refreshPricingSnapshot(mine[w].snap, mine[w].cfg, answered, rates)
    <3>3. snap \in Live!Snapshots
      BY <1>1, <1>2, <3>2, RefreshedIsSnapshot
    <3>4. mine' = [mine EXCEPT ![w].snap = snap]
      BY <1>1, <3>1
    <3> HIDE DEF snap
    <3>5. QED
      BY <1>1, <1>2, <3>3, <3>4, WorkTyped
  <2>4. CASE Live!Store(w)
    BY <1>1, <2>4 DEF Live!Store
  <2>5. CASE Live!Save(w)
    <3>1. Live!Idle \in Work
      BY <1>1, IdleTyped DEF Work
    <3>2. QED
      BY <1>1, <2>5, <3>1 DEF Live!Save
  <2>6. CASE Live!SaveFails(w)
    BY <1>1, <2>6 DEF Live!SaveFails
  <2>7. CASE Live!StoreAgain(w)
    <3>1. Live!Idle \in Work
      BY <1>1, IdleTyped DEF Work
    <3>2. QED
      BY <1>1, <2>7, <3>1 DEF Live!StoreAgain
  <2>8. QED
    BY <2>1, <2>2, <2>3, <2>4, <2>5, <2>6, <2>7 DEF Live!Refresh
<1>5. state' \in Live!Snapshots /\ cache' \in Live!Snapshots
  BY <1>1, <1>2, BootIsSnapshot DEF Live!Refresh, Live!ReadConfig, Live!ReadSnapshot, Live!Fetch, Live!Store,
     Live!Save, Live!SaveFails, Live!StoreAgain
<1>6. QED
  BY <1>1, <1>3, <1>4, <1>5 DEF Live!CatalogTypeOK, Places, Work, Live!Writers, Live!Snapshots,
     Live!Config, Live!Sources

LEMMA PricesTypedKept ==
  ASSUME Live!CatalogTypeOK, Live!CatalogNext \/ UNCHANGED atPrices
  PROVE  Live!CatalogTypeOK'
<1>1. /\ edition \in 1..MaxEdition /\ cfg \in Live!Config /\ updates \in 0..MaxUpdates
      /\ state \in Live!Snapshots /\ cache \in Live!Snapshots
      /\ step \in [Live!Writers -> Places] /\ mine \in [Live!Writers -> Work]
  BY DEF Live!CatalogTypeOK, Places, Work
<1>2. MaxEdition \in Nat \ {0} /\ MaxUpdates \in Nat
  BY PricesAssumption DEF Live!CatalogAssumption
<1>3. "daemon" \in Live!Writers /\ \A w \in Live!Writers : mine[w].cfg \in Live!Config /\ mine[w].snap \in Live!Snapshots
  BY <1>1 DEF Live!Writers, Work
<1>4. Live!Idle \in Work
  BY <1>1, IdleTyped DEF Work
<1>5. CASE UNCHANGED atPrices
  <2>1. UNCHANGED <<edition, cfg, state, cache, step, mine, updates>>
    BY <1>5 DEF atPrices
  <2>2. QED
    BY <1>1, <2>1 DEF Live!CatalogTypeOK, Places, Work
<1>6. CASE Live!PagesChange
  <2>1. edition' \in 1..MaxEdition /\ UNCHANGED <<cfg, state, cache, step, mine, updates>>
    BY <1>1, <1>2, <1>6 DEF Live!PagesChange
  <2>2. QED
    BY <1>1, <2>1 DEF Live!CatalogTypeOK, Places, Work
<1>7. CASE Live!UpdateStrips
  <2>1. PICK c \in Live!Config :
          mine' = [mine EXCEPT !["daemon"] = [cfg |-> c, snap |-> Live!stripPricingManualOverrides(state, cfg)]]
    BY <1>7 DEF Live!UpdateStrips
  <2>2. mine' \in [Live!Writers -> Work]
    BY <1>1, <1>3, <2>1, WorkTyped, StrippedIsSnapshot
  <2>3. updates' \in 0..MaxUpdates
    BY <1>1, <1>2, <1>7 DEF Live!UpdateStrips
  <2>4. step' \in [Live!Writers -> Places]
    BY <1>1, <1>7, GoesTyped DEF Live!UpdateStrips, Places
  <2>5. QED
    BY <1>1, <1>7, <2>2, <2>3, <2>4 DEF Live!UpdateStrips, Live!CatalogTypeOK, Places, Work
<1>8. CASE Live!UpdateConfigures
  <2>1. step' \in [Live!Writers -> Places]
    BY <1>1, <1>8, GoesTyped DEF Live!UpdateConfigures, Places
  <2>2. cfg' \in Live!Config
    BY <1>3, <1>8 DEF Live!UpdateConfigures
  <2>3. QED
    BY <1>1, <1>8, <2>1, <2>2 DEF Live!UpdateConfigures, Live!CatalogTypeOK, Places, Work
<1>9. CASE Live!UpdateComputes
  <2> DEFINE snap == Live!pricingSnapshotForUpdate(mine["daemon"].snap, Live!Cached(cache), mine["daemon"].cfg)
  <2>1. step' \in [Live!Writers -> Places]
    BY <1>1, <1>9, GoesTyped DEF Live!UpdateComputes, Places
  <2>2. snap \in Live!Snapshots
    BY <1>1, <1>3, CachedIsSnapshot, UpdatedIsSnapshot
  <2>3. mine' = [mine EXCEPT !["daemon"].snap = snap]
    BY <1>1, <1>3, <1>9 DEF Live!UpdateComputes
  <2> HIDE DEF snap
  <2>4. mine' \in [Live!Writers -> Work]
    BY <1>1, <1>3, <2>2, <2>3, WorkTyped
  <2>5. QED
    BY <1>1, <1>9, <2>1, <2>4 DEF Live!UpdateComputes, Live!CatalogTypeOK, Places, Work
<1>10. CASE Live!UpdateStores
  <2>1. step' \in [Live!Writers -> Places]
    BY <1>1, <1>10, GoesTyped DEF Live!UpdateStores, Places
  <2>2. mine' \in [Live!Writers -> Work] /\ state' \in Live!Snapshots
    BY <1>1, <1>3, <1>4, <1>10 DEF Live!UpdateStores
  <2>3. QED
    BY <1>1, <1>10, <2>1, <2>2 DEF Live!UpdateStores, Live!CatalogTypeOK, Places, Work
<1>11. CASE Live!Restarts
  <2>1. cache' \in Live!Snapshots
    BY <1>1, <1>11, BootIsSnapshot DEF Live!Restarts
  <2>2. state' \in Live!Snapshots
    BY <1>1, <1>11, <2>1, CachedIsSnapshot, AppliedIsSnapshot DEF Live!Restarts, Live!pricingSnapshotFromConfig
  <2>3. step' \in [Live!Writers -> Places] /\ mine' \in [Live!Writers -> Work]
    BY <1>4, <1>11 DEF Live!Restarts, Places
  <2>4. updates' \in 0..MaxUpdates
    BY <1>1, <1>2, <1>11 DEF Live!Restarts
  <2>5. QED
    BY <1>1, <1>11, <2>1, <2>2, <2>3, <2>4 DEF Live!Restarts, Live!CatalogTypeOK, Places, Work
<1>12. QED
  BY <1>5, <1>6, <1>7, <1>8, <1>9, <1>10, <1>11, RefreshTyped DEF Live!CatalogNext, Live!Update

(***************************************************************************)
(* The updater.                                                            *)
(***************************************************************************)

(* The files a call has done with, and those of them whose backup is what   *)
(* the installation was.                                                    *)
Treated(c) == {Files[i] : i \in 1..(call[c].next - 1)}
BackedUp(c, fs) == \A f \in fs \cap Update!Had(c) : backups[call[c].stamp][f] = call[c].before[f]

(* What the result of a call, told to its caller next, promises.            *)
ResultTrue(c) ==
  /\ call[c].result = "applied" => \A f \in Update!Payload : install[f] = New
  /\ call[c].result = "restored" => \A f \in Update!Had(c) : install[f] = call[c].before[f]
  /\ call[c].result = "rolledback" =>
       \A f \in Update!Payload : backups[call[c].stamp][f] \in {Absent, install[f]}

(* How far a call that has had the directories to itself has come.          *)
OnItsWay(c) ==
  /\ call[c].at = "backup" => install = call[c].before /\ Update!Verified /\ BackedUp(c, Treated(c))
  /\ call[c].at = "copy" => Update!Verified /\ \A f \in Treated(c) : install[f] = New
  /\ call[c].at \in {"copy", "restore"} => BackedUp(c, Update!Payload)
  /\ call[c].at = "restore" => \A f \in Treated(c) \cap Update!Had(c) : install[f] = call[c].before[f]
  /\ call[c].at = "rollback" => \A f \in Treated(c) : backups[call[c].stamp][f] \in {Absent, install[f]}
  /\ call[c].at = "save" => ResultTrue(c)

Unjudged(c) == call[c].at # "save" => call[c].result = "none"
Undisturbed(c) == call[c].at # "none" /\ \A d \in Update!Callers \ {c} : call[d].at = "none"

(* A backup that is being made is not yet one of what was replaced.         *)
NotYet(c) == call[c].at = "backup" => replaced[call[c].stamp] = Update!Empty
BackupsKept == \A t \in Update!Time, f \in Update!Payload : replaced[t][f] \in {Absent, backups[t][f]}

CallInv(c) == Unjudged(c) /\ NotYet(c) /\ (call[c].alone => Undisturbed(c) /\ OnItsWay(c))
UpdaterInv == Update!UpdaterTypeOK /\ BackupsKept /\ \A c \in Update!Callers : CallInv(c)

LEMMA UpdaterConstants ==
  /\ Files \in Seq(Update!Payload) /\ Len(Files) \in Nat /\ DOMAIN Files = 1..Len(Files)
  /\ Update!Payload = {Files[i] : i \in 1..Len(Files)}
  /\ \A i, j \in 1..Len(Files) : Files[i] = Files[j] => i = j
  /\ New # Absent /\ Torn # Absent
  /\ MaxTime \in Nat /\ MaxCalls \in Nat /\ 0 \in Update!Time
  /\ \A f \in Update!Payload : Update!Empty[f] = Absent
<1>1. Files \in Seq(Update!Payload) /\ MaxTime \in Nat
  BY UpdatesAssumption DEF Update!UpdaterAssumption
<1>2. Len(Files) \in Nat /\ DOMAIN Files = 1..Len(Files)
  BY <1>1
<1>3. 0 \in Update!Time
  BY <1>1 DEF Update!Time
<1>4. QED
  BY <1>1, <1>2, <1>3, UpdatesAssumption DEF Update!UpdaterAssumption, Update!Payload, Update!Empty

(* The record of a call, field by field.                                    *)
LEMMA CallFields ==
  ASSUME NEW k \in Update!Call
  PROVE  /\ k.at \in {"none", "extract", "backup", "copy", "restore", "rollback", "save"}
         /\ k.next \in 1..Len(Files) + 1 /\ k.next \in Nat /\ k.stamp \in Update!Time /\ k.before \in Update!Tree
         /\ k.cached \in BOOLEAN /\ k.applies \in BOOLEAN /\ k.truncated \in BOOLEAN /\ k.alone \in BOOLEAN
         /\ k.result \in {"none", "fetched", "applied", "restored", "unrestored", "rolledback", "failed"}
BY UpdaterConstants DEF Update!Call

(* A call goes on: to another place, another file, with or without a result.*)
Goes(c, where, n, res) ==
  /\ call' \in [Update!Callers -> Update!Call]
  /\ \A d \in Update!Callers \ {c} : call'[d] = call[d]
  /\ call'[c].at = where /\ call'[c].next = n /\ call'[c].result = res
  /\ call'[c].stamp = call[c].stamp /\ call'[c].before = call[c].before /\ call'[c].alone = call[c].alone

LEMMA NextGoes ==
  ASSUME Update!UpdaterTypeOK, NEW c \in Update!Callers, Update!More(c), call' = Update!NextFile(c)
  PROVE  Goes(c, call[c].at, call[c].next + 1, call[c].result)
<1> DEFINE k == [call[c] EXCEPT !.next = @ + 1, !.truncated = FALSE]
<1>1. call \in [Update!Callers -> Update!Call] /\ call[c] \in Update!Call
  BY DEF Update!UpdaterTypeOK
<1>2. call' = [call EXCEPT ![c] = k]
  BY <1>1 DEF Update!NextFile
<1>3. call[c].next + 1 \in 1..Len(Files) + 1
  BY <1>1, CallFields, UpdaterConstants DEF Update!More
<1>4. k \in Update!Call
  BY <1>1, <1>3 DEF Update!Call
<1>5. /\ k.at = call[c].at /\ k.next = call[c].next + 1 /\ k.result = call[c].result
      /\ k.stamp = call[c].stamp /\ k.before = call[c].before /\ k.alone = call[c].alone
  BY <1>1 DEF Update!Call
<1> HIDE DEF k
<1>6. QED
  BY <1>1, <1>2, <1>4, <1>5 DEF Goes

LEMMA ToGoes ==
  ASSUME Update!UpdaterTypeOK, NEW c \in Update!Callers, NEW where \in {"copy", "restore"}, call' = Update!To(c, where)
  PROVE  Goes(c, where, 1, call[c].result)
<1> DEFINE k == [call[c] EXCEPT !.at = where, !.next = 1, !.truncated = FALSE]
<1>1. call \in [Update!Callers -> Update!Call] /\ call[c] \in Update!Call
  BY DEF Update!UpdaterTypeOK
<1>2. call' = [call EXCEPT ![c] = k]
  BY <1>1 DEF Update!To
<1>3. k \in Update!Call
  <2>1. 1 \in 1..Len(Files) + 1
    BY UpdaterConstants
  <2>2. QED
    BY <1>1, <2>1 DEF Update!Call
<1>4. /\ k.at = where /\ k.next = 1 /\ k.result = call[c].result
      /\ k.stamp = call[c].stamp /\ k.before = call[c].before /\ k.alone = call[c].alone
  BY <1>1 DEF Update!Call
<1> HIDE DEF k
<1>5. QED
  BY <1>1, <1>2, <1>3, <1>4 DEF Goes

LEMMA EndGoes ==
  ASSUME Update!UpdaterTypeOK, NEW c \in Update!Callers,
         NEW res \in {"fetched", "applied", "restored", "unrestored", "rolledback", "failed"},
         \/ call' = Update!End(c, res)
         \/ call' = [Update!End(c, res) EXCEPT ![c].cached = TRUE]
  PROVE  Goes(c, "save", 1, res)
<1> DEFINE k == [call[c] EXCEPT !.at = "save", !.next = 1, !.applies = FALSE, !.truncated = FALSE, !.result = res]
           q == [k EXCEPT !.cached = TRUE]
<1>1. call \in [Update!Callers -> Update!Call] /\ call[c] \in Update!Call
  BY DEF Update!UpdaterTypeOK
<1>2. k \in Update!Call
  <2>1. 1 \in 1..Len(Files) + 1
    BY UpdaterConstants
  <2>2. QED
    BY <1>1, <2>1 DEF Update!Call
<1>3. /\ k.at = "save" /\ k.next = 1 /\ k.result = res
      /\ k.stamp = call[c].stamp /\ k.before = call[c].before /\ k.alone = call[c].alone
  BY <1>1 DEF Update!Call
<1>4. Update!End(c, res) = [call EXCEPT ![c] = k]
  BY <1>1 DEF Update!End
<1> HIDE DEF k
<1>5. q \in Update!Call
  BY <1>2 DEF Update!Call
<1>6. /\ q.at = "save" /\ q.next = 1 /\ q.result = res
      /\ q.stamp = call[c].stamp /\ q.before = call[c].before /\ q.alone = call[c].alone
  BY <1>2, <1>3 DEF Update!Call
<1>7. [Update!End(c, res) EXCEPT ![c].cached = TRUE] = [call EXCEPT ![c] = q]
  BY <1>1, <1>4
<1> HIDE DEF q
<1>8. QED
  BY <1>1, <1>2, <1>3, <1>4, <1>5, <1>6, <1>7 DEF Goes

LEMMA CutGoes ==
  ASSUME Update!UpdaterTypeOK, NEW c \in Update!Callers, call' = [call EXCEPT ![c].truncated = TRUE]
  PROVE  Goes(c, call[c].at, call[c].next, call[c].result)
<1> DEFINE k == [call[c] EXCEPT !.truncated = TRUE]
<1>1. call \in [Update!Callers -> Update!Call] /\ call[c] \in Update!Call
  BY DEF Update!UpdaterTypeOK
<1>2. call' = [call EXCEPT ![c] = k]
  BY <1>1
<1>3. k \in Update!Call
  BY <1>1 DEF Update!Call
<1>4. /\ k.at = call[c].at /\ k.next = call[c].next /\ k.result = call[c].result
      /\ k.stamp = call[c].stamp /\ k.before = call[c].before /\ k.alone = call[c].alone
  BY <1>1 DEF Update!Call
<1> HIDE DEF k
<1>5. QED
  BY <1>1, <1>2, <1>3, <1>4 DEF Goes

(* The file a call is at is one of the payload it has not treated yet.      *)
LEMMA FileIsNext ==
  ASSUME Update!UpdaterTypeOK, NEW c \in Update!Callers, Update!More(c)
  PROVE  /\ Update!File(c) \in Update!Payload /\ Update!File(c) \notin Treated(c)
         /\ Treated(c) \cup {Update!File(c)} = {Files[i] : i \in 1..call[c].next}
<1> DEFINE n == call[c].next
<1>1. n \in 1..Len(Files) /\ n - 1 \in 0..Len(Files) /\ n \in Nat /\ n # 0
  BY CallFields, UpdaterConstants DEF Update!UpdaterTypeOK, Update!More
<1> HIDE DEF n
<1>2. Update!File(c) = Files[n] /\ Treated(c) = {Files[i] : i \in 1..(n - 1)}
  BY DEF Update!File, Treated, n
<1>3. \A i \in 1..(n - 1) : i \in 1..Len(Files) /\ i # n
  BY <1>1, UpdaterConstants
<1>4. \A i \in 1..(n - 1) : Files[i] # Files[n]
  BY <1>1, <1>3, UpdaterConstants
<1>5. \A i : i \in 1..n <=> i \in 1..(n - 1) \/ i = n
  BY <1>1
<1>6. QED
  BY <1>1, <1>2, <1>4, <1>5, UpdaterConstants DEF n

LEMMA TreatedGrows ==
  ASSUME Update!UpdaterTypeOK, NEW c \in Update!Callers, Update!More(c), NEW where, NEW res,
         Goes(c, where, call[c].next + 1, res)
  PROVE  Treated(c)' = Treated(c) \cup {Update!File(c)}
<1>1. call'[c].next - 1 = call[c].next
  BY CallFields DEF Update!UpdaterTypeOK, Goes
<1>2. QED
  BY <1>1, FileIsNext DEF Treated

LEMMA AllTreated ==
  ASSUME Update!UpdaterTypeOK, NEW c \in Update!Callers
  PROVE  /\ ~Update!More(c) => Treated(c) = Update!Payload
         /\ call[c].next = 1 => Treated(c) = {}
         /\ Treated(c) \subseteq Update!Payload
<1> DEFINE n == call[c].next
           N == Len(Files)
<1>1. n \in 1..N + 1 /\ N \in Nat
  BY CallFields, UpdaterConstants DEF Update!UpdaterTypeOK
<1>2. Treated(c) = {Files[i] : i \in 1..(n - 1)} /\ Update!Payload = {Files[i] : i \in 1..N}
  BY UpdaterConstants DEF Treated
<1>3. ~Update!More(c) => ~(n <= N)
  BY DEF Update!More
<1> HIDE DEF n, N
<1>4. ~(n <= N) => n - 1 = N
  BY <1>1
<1>5. n = 1 => 1..(n - 1) = {}
  BY <1>1
<1>6. 1..(n - 1) \subseteq 1..N
  BY <1>1
<1>7. QED
  BY <1>2, <1>3, <1>4, <1>5, <1>6 DEF n

(* A step that leaves the backups alone keeps them.                         *)
LEMMA BackupsStay ==
  ASSUME UpdaterInv, NEW c \in Update!Callers, NEW where, NEW n, NEW res, Goes(c, where, n, res),
         where = "backup" => call[c].at = "backup", UNCHANGED <<backups, replaced>>
  PROVE  BackupsKept' /\ \A d \in Update!Callers : NotYet(d)'
<1>1. BackupsKept'
  BY DEF UpdaterInv, BackupsKept
<1>2. ASSUME NEW d \in Update!Callers PROVE NotYet(d)'
  <2>1. NotYet(d)
    BY DEF UpdaterInv, CallInv
  <2>2. call'[d].at = "backup" => call[d].at = "backup" /\ call'[d].stamp = call[d].stamp
    BY DEF Goes
  <2>3. QED
    BY <2>1, <2>2 DEF NotYet
<1>3. QED
  BY <1>1, <1>2

(* A step of a call keeps what is known of the others: if one of them had   *)
(* been alone, this one would not run.                                      *)
LEMMA GoesKeeps ==
  ASSUME UpdaterInv, NEW c \in Update!Callers, call[c].at # "none",
         NEW where, NEW n, NEW res, Goes(c, where, n, res), where # "none",
         where # "save" => res = "none",
         install' \in Update!Tree, bundle' \in Update!Tree, backups' \in [Update!Time -> Update!Tree],
         replaced' \in [Update!Time -> Update!Tree], UNCHANGED <<cached, now, calls>>,
         BackupsKept', \A d \in Update!Callers : NotYet(d)',
         call[c].alone => OnItsWay(c)'
  PROVE  UpdaterInv'
<1>1. Update!UpdaterTypeOK'
  BY DEF UpdaterInv, Update!UpdaterTypeOK, Goes
<1>2. CallInv(c)'
  <2>1. Unjudged(c)'
    BY DEF Goes, Unjudged
  <2>2. call'[c].alone => OnItsWay(c)' /\ Undisturbed(c)
    BY DEF Goes, UpdaterInv, CallInv
  <2>3. Undisturbed(c) => Undisturbed(c)'
    BY DEF Goes, Undisturbed
  <2>4. QED
    BY <2>1, <2>2, <2>3 DEF CallInv
<1>3. ASSUME NEW d \in Update!Callers \ {c}
      PROVE  CallInv(d)'
  <2>1. call'[d] = call[d]
    BY DEF Goes
  <2>2. ~call[d].alone
    BY DEF UpdaterInv, CallInv, Undisturbed
  <2>3. Unjudged(d)' /\ NotYet(d)'
    BY <2>1 DEF UpdaterInv, CallInv, Unjudged
  <2>4. QED
    BY <2>1, <2>2, <2>3 DEF CallInv
<1>4. QED
  BY <1>1, <1>2, <1>3 DEF UpdaterInv

(* What is the same for a call after its step.                              *)
LEMMA SameCall ==
  ASSUME NEW c \in Update!Callers, NEW where, NEW n, NEW res, Goes(c, where, n, res)
  PROVE  /\ call'[c].at = where /\ call'[c].result = res /\ Update!Had(c)' = Update!Had(c)
         /\ call'[c].stamp = call[c].stamp /\ call'[c].before = call[c].before
BY DEF Goes, Update!Had

LEMMA ExtractKeeps ==
  ASSUME UpdaterInv, NEW c \in Update!Callers, Update!Extract(c)
  PROVE  UpdaterInv'
<1>1. Update!UpdaterTypeOK /\ call[c].at = "extract" /\ Update!More(c) /\ call[c].result = "none"
      /\ UNCHANGED <<install, backups, replaced, cached, now, calls>>
  BY DEF UpdaterInv, CallInv, Unjudged, Update!Extract
<1>2. install' \in Update!Tree /\ backups' \in [Update!Time -> Update!Tree] /\ replaced' \in [Update!Time -> Update!Tree]
  BY <1>1 DEF Update!UpdaterTypeOK
<1>3. CASE call' = Update!NextFile(c) /\ \E content \in {New, Torn} : bundle' = [bundle EXCEPT ![Update!File(c)] = content]
  <2>1. Goes(c, "extract", call[c].next + 1, "none")
    BY <1>1, <1>3, NextGoes
  <2>2. bundle' \in Update!Tree
    BY <1>1, <1>3 DEF Update!UpdaterTypeOK, Update!Tree, Update!Content
  <2>3. OnItsWay(c)'
    BY <2>1, SameCall DEF OnItsWay
  <2>4. BackupsKept' /\ \A d \in Update!Callers : NotYet(d)'
    BY <1>1, <2>1, BackupsStay
  <2>5. QED
    BY <1>1, <1>2, <2>1, <2>2, <2>3, <2>4, GoesKeeps
<1>4. CASE call' = Update!End(c, "failed") /\ UNCHANGED bundle
  <2>1. Goes(c, "save", 1, "failed")
    BY <1>1, <1>4, EndGoes
  <2>2. bundle' \in Update!Tree
    BY <1>1, <1>4 DEF Update!UpdaterTypeOK
  <2>3. OnItsWay(c)'
    BY <2>1, SameCall DEF OnItsWay, ResultTrue
  <2>4. BackupsKept' /\ \A d \in Update!Callers : NotYet(d)'
    BY <1>1, <2>1, BackupsStay
  <2>5. QED
    BY <1>1, <1>2, <2>1, <2>2, <2>3, <2>4, GoesKeeps
<1>5. QED
  BY <1>3, <1>4 DEF Update!Extract

LEMMA FetchEndsKeeps ==
  ASSUME UpdaterInv, NEW c \in Update!Callers, Update!FetchEnds(c)
  PROVE  UpdaterInv'
<1>1. Update!UpdaterTypeOK /\ call[c].at = "extract"
      /\ UNCHANGED <<install, bundle, backups, replaced, cached, now, calls>>
  BY DEF UpdaterInv, Update!FetchEnds
<1>2. PICK res \in {"fetched", "failed"} :
        call' = Update!End(c, res) \/ call' = [Update!End(c, res) EXCEPT ![c].cached = TRUE]
  BY DEF Update!FetchEnds
<1>3. Goes(c, "save", 1, res)
  BY <1>1, <1>2, EndGoes
<1>4. /\ install' \in Update!Tree /\ bundle' \in Update!Tree /\ backups' \in [Update!Time -> Update!Tree]
      /\ replaced' \in [Update!Time -> Update!Tree]
  BY <1>1 DEF Update!UpdaterTypeOK
<1>5. OnItsWay(c)'
  BY <1>2, <1>3, SameCall DEF OnItsWay, ResultTrue
<1>6. BackupsKept' /\ \A d \in Update!Callers : NotYet(d)'
  BY <1>1, <1>3, BackupsStay
<1>7. QED
  BY <1>1, <1>3, <1>4, <1>5, <1>6, GoesKeeps

(* No call.                                                                 *)
LEMMA NoCallTyped ==
  /\ Update!NoCall \in Update!Call
  /\ Update!NoCall.at = "none" /\ Update!NoCall.result = "none" /\ Update!NoCall.alone = FALSE
<1>1. Update!Empty \in Update!Tree /\ 1 \in 1..Len(Files) + 1 /\ 0 \in Update!Time
  BY UpdaterConstants DEF Update!Empty, Update!Tree, Update!Content
<1>2. QED
  BY <1>1 DEF Update!NoCall, Update!Call

(* The backup of a second is forgotten where another is made in its place.  *)
LEMMA ReusesKeeps ==
  ASSUME UpdaterInv, NEW t \in Update!Time, UNCHANGED backups, Update!Reuses(t)
  PROVE  /\ replaced' \in [Update!Time -> Update!Tree] /\ BackupsKept' /\ replaced'[t] = Update!Empty
         /\ \A q \in Update!Time : replaced[q] = Update!Empty => replaced'[q] = Update!Empty
<1>1. replaced \in [Update!Time -> Update!Tree] /\ replaced' = [replaced EXCEPT ![t] = Update!Empty]
  BY DEF UpdaterInv, Update!UpdaterTypeOK, Update!Reuses
<1>2. Update!Empty \in Update!Tree
  BY DEF Update!Empty, Update!Tree, Update!Content
<1>3. BackupsKept'
  <2>1. ASSUME NEW q \in Update!Time, NEW f \in Update!Payload PROVE replaced'[q][f] \in {Absent, backups[q][f]}
    <3>1. CASE q = t
      BY <1>1, <3>1, UpdaterConstants
    <3>2. CASE q # t
      BY <1>1, <3>2 DEF UpdaterInv, BackupsKept
    <3>3. QED
      BY <3>1, <3>2
  <2>2. QED
    BY <2>1 DEF BackupsKept
<1>4. QED
  BY <1>1, <1>2, <1>3

LEMMA ApplyFetchedKeeps ==
  ASSUME UpdaterInv, NEW c \in Update!Callers, Update!ApplyFetched(c)
  PROVE  UpdaterInv'
<1> DEFINE first == backups[now] = Update!Empty
           b == call[c].alone /\ first
           k == [Update!NoCall EXCEPT !.at = "backup", !.stamp = now, !.before = install, !.cached = TRUE, !.alone = b]
<1>1. /\ Update!UpdaterTypeOK /\ call[c].at = "extract" /\ call[c].result = "none" /\ Update!Verified
      /\ UNCHANGED <<install, bundle, backups, cached, now, calls>> /\ Update!Reuses(now)
  BY DEF UpdaterInv, CallInv, Unjudged, Update!ApplyFetched
<1>2. now \in Update!Time /\ install \in Update!Tree /\ call \in [Update!Callers -> Update!Call] /\ call[c] \in Update!Call
  BY <1>1 DEF Update!UpdaterTypeOK
<1>3. call' = [call EXCEPT ![c] = k]
  BY <1>2 DEF Update!ApplyFetched
<1>4. b \in BOOLEAN /\ (b => call[c].alone)
  <2>1. first \in BOOLEAN
    BY Zenon
  <2>2. call[c].alone \in BOOLEAN
    BY <1>2, CallFields
  <2> HIDE DEF first
  <2>3. QED
    BY <2>1, <2>2
<1> HIDE DEF b
<1>5. k \in Update!Call
  BY <1>2, <1>4, NoCallTyped DEF Update!Call
<1>6. /\ k.at = "backup" /\ k.next = 1 /\ k.result = "none" /\ k.before = install /\ k.stamp = now /\ k.alone = b
  BY DEF Update!NoCall
<1> HIDE DEF k
<1>7. call' \in [Update!Callers -> Update!Call] /\ call'[c] = k /\ \A d \in Update!Callers \ {c} : call'[d] = call[d]
  BY <1>2, <1>3, <1>5
<1>8. /\ replaced' \in [Update!Time -> Update!Tree] /\ BackupsKept' /\ replaced'[now] = Update!Empty
      /\ \A q \in Update!Time : replaced[q] = Update!Empty => replaced'[q] = Update!Empty
  BY <1>1, <1>2, ReusesKeeps
<1>9. Update!UpdaterTypeOK'
  BY <1>1, <1>7, <1>8 DEF Update!UpdaterTypeOK
<1>10. CallInv(c)'
  <2>1. Unjudged(c)' /\ NotYet(c)'
    BY <1>6, <1>7, <1>8 DEF Unjudged, NotYet
  <2>2. ASSUME b PROVE Undisturbed(c)'
    <3>1. Undisturbed(c)
      BY <1>4, <2>2 DEF UpdaterInv, CallInv
    <3>2. QED
      BY <1>6, <1>7, <3>1 DEF Undisturbed
  <2>3. Treated(c)' = {}
    BY <1>6, <1>7 DEF Treated
  <2>4. OnItsWay(c)'
    BY <1>1, <1>6, <1>7, <2>3 DEF OnItsWay, Update!Verified, BackedUp
  <2>5. QED
    BY <1>6, <1>7, <2>1, <2>2, <2>4 DEF CallInv
<1>11. ASSUME NEW d \in Update!Callers \ {c} PROVE CallInv(d)'
  <2>1. call'[d] = call[d]
    BY <1>7
  <2>2. ~call[d].alone
    BY <1>1 DEF UpdaterInv, CallInv, Undisturbed
  <2>3. Unjudged(d)'
    BY <2>1 DEF UpdaterInv, CallInv, Unjudged
  <2>4. call[d].stamp \in Update!Time /\ NotYet(d)
    BY <1>2, CallFields DEF UpdaterInv, CallInv
  <2>5. NotYet(d)'
    BY <1>8, <2>1, <2>4 DEF NotYet
  <2>6. QED
    BY <2>1, <2>2, <2>3, <2>5 DEF CallInv
<1>12. QED
  BY <1>8, <1>9, <1>10, <1>11 DEF UpdaterInv

(* One file of a backup or of the installation is written.                  *)
LEMMA WriteIs ==
  ASSUME UpdaterInv, NEW c \in Update!Callers, Update!More(c), NEW content \in Update!Content,
         Update!Write(c, content), UNCHANGED replaced
  PROVE  /\ install' \in Update!Tree /\ backups' \in [Update!Time -> Update!Tree] /\ BackupsKept'
         /\ call[c].at = "backup" =>
              /\ install' = install /\ backups'[call[c].stamp][Update!File(c)] = content
              /\ \A g \in Update!Payload : g # Update!File(c) => backups'[call[c].stamp][g] = backups[call[c].stamp][g]
         /\ call[c].at # "backup" =>
              /\ backups' = backups /\ install'[Update!File(c)] = content
              /\ \A g \in Update!Payload : g # Update!File(c) => install'[g] = install[g]
<1> DEFINE f == Update!File(c)
           t == call[c].stamp
<1>1. Update!UpdaterTypeOK /\ install \in Update!Tree /\ backups \in [Update!Time -> Update!Tree] /\ t \in Update!Time
  BY CallFields DEF UpdaterInv, Update!UpdaterTypeOK
<1>2. f \in Update!Payload
  BY <1>1, FileIsNext
<1>3. CASE call[c].at = "backup"
  <2>1. backups' = [backups EXCEPT ![t][f] = content] /\ install' = install
    BY <1>3 DEF Update!Write
  <2>2. replaced[t] = Update!Empty
    BY <1>3 DEF UpdaterInv, CallInv, NotYet
  <2> HIDE DEF f, t
  <2>3. /\ backups' \in [Update!Time -> Update!Tree] /\ backups'[t][f] = content
        /\ \A g \in Update!Payload : g # f => backups'[t][g] = backups[t][g]
        /\ \A q \in Update!Time : q # t => backups'[q] = backups[q]
    BY <1>1, <1>2, <2>1 DEF Update!Tree
  <2>4. ASSUME NEW q \in Update!Time, NEW g \in Update!Payload PROVE replaced'[q][g] \in {Absent, backups'[q][g]}
    <3>1. CASE q = t
      BY <2>2, <3>1, UpdaterConstants
    <3>2. CASE q # t
      BY <2>3, <3>2 DEF UpdaterInv, BackupsKept
    <3>3. QED
      BY <3>1, <3>2
  <2>5. BackupsKept'
    BY <2>4 DEF BackupsKept
  <2>6. QED
    BY <1>1, <1>3, <2>1, <2>3, <2>5 DEF f, t
<1>4. CASE call[c].at # "backup"
  <2>1. install' = [install EXCEPT ![f] = content] /\ backups' = backups
    BY <1>4 DEF Update!Write
  <2> HIDE DEF f, t
  <2>2. install' \in Update!Tree /\ install'[f] = content /\ \A g \in Update!Payload : g # f => install'[g] = install[g]
    BY <1>1, <1>2, <2>1 DEF Update!Tree
  <2>3. BackupsKept'
    BY <2>1 DEF UpdaterInv, BackupsKept
  <2>4. QED
    BY <1>1, <1>4, <2>1, <2>2, <2>3 DEF f
<1>5. QED
  BY <1>3, <1>4

(* A copying call that is alone stays on its way when it has treated no     *)
(* more files, or its file was copied or is not there.                      *)
LEMMA StaysOnItsWay ==
  ASSUME UpdaterInv, NEW c \in Update!Callers, call[c].alone, call[c].at \in Update!Copying, Update!More(c),
         NEW n, Goes(c, call[c].at, n, "none"), UNCHANGED bundle,
         NEW fs, Treated(c)' = fs, Treated(c) \subseteq fs, fs \subseteq Treated(c) \cup {Update!File(c)},
         call[c].at = "backup" =>
           /\ install' = install
           /\ \A g \in Treated(c) : backups'[call[c].stamp][g] = backups[call[c].stamp][g]
           /\ Update!File(c) \in fs =>
                install[Update!File(c)] \in {Absent, backups'[call[c].stamp][Update!File(c)]},
         call[c].at # "backup" => backups' = backups /\ \A g \in Treated(c) : install'[g] = install[g],
         call[c].at = "copy" /\ Update!File(c) \in fs => install'[Update!File(c)] = bundle[Update!File(c)],
         call[c].at \in {"restore", "rollback"} /\ Update!File(c) \in fs =>
           backups[call[c].stamp][Update!File(c)] \in {Absent, install'[Update!File(c)]}
  PROVE  OnItsWay(c)'
<1> DEFINE f == Update!File(c)
           t == call[c].stamp
<1>1. Update!UpdaterTypeOK /\ OnItsWay(c)
  BY DEF UpdaterInv, CallInv
<1>2. f \in Update!Payload /\ f \notin Treated(c) /\ Treated(c) \subseteq Update!Payload
  BY <1>1, FileIsNext, AllTreated
<1>3. /\ call'[c].at = call[c].at /\ call'[c].stamp = t /\ call'[c].before = call[c].before
      /\ Update!Had(c)' = Update!Had(c)
  BY SameCall
<1>4. Update!Verified' <=> Update!Verified
  BY DEF Update!Verified
<1>5. CASE call[c].at = "backup"
  <2>1. install = call[c].before /\ Update!Verified /\ BackedUp(c, Treated(c))
    BY <1>1, <1>5 DEF OnItsWay
  <2>2. ASSUME NEW g \in fs, g \in Update!Had(c) PROVE backups'[t][g] = call[c].before[g]
    <3>1. CASE g = f
      BY <1>5, <2>1, <2>2, <3>1 DEF Update!Had
    <3>2. CASE g # f
      BY <1>5, <2>1, <2>2, <3>2 DEF BackedUp
    <3>3. QED
      BY <3>1, <3>2
  <2>3. BackedUp(c, fs)'
    BY <1>3, <2>2 DEF BackedUp
  <2>4. QED
    BY <1>3, <1>4, <1>5, <2>1, <2>3 DEF OnItsWay, BackedUp
<1>6. CASE call[c].at = "copy"
  <2>1. Update!Verified /\ (\A g \in Treated(c) : install[g] = New) /\ BackedUp(c, Update!Payload)
    BY <1>1, <1>6 DEF OnItsWay
  <2>2. f \in fs => install'[f] = New
    BY <1>2, <1>6, <2>1 DEF Update!Verified
  <2>3. \A g \in fs : install'[g] = New
    BY <1>2, <1>6, <2>1, <2>2
  <2>4. BackedUp(c, Update!Payload)'
    BY <1>3, <1>6, <2>1 DEF BackedUp
  <2>5. QED
    BY <1>3, <1>4, <1>6, <2>1, <2>3, <2>4 DEF OnItsWay
<1>7. CASE call[c].at = "restore"
  <2>1. BackedUp(c, Update!Payload) /\ \A g \in Treated(c) \cap Update!Had(c) : install[g] = call[c].before[g]
    BY <1>1, <1>7 DEF OnItsWay
  <2>2. f \in fs /\ f \in Update!Had(c) => install'[f] = call[c].before[f]
    BY <1>2, <1>7, <2>1 DEF BackedUp, Update!Had
  <2>3. \A g \in fs \cap Update!Had(c) : install'[g] = call[c].before[g]
    BY <1>2, <1>7, <2>1, <2>2
  <2>4. BackedUp(c, Update!Payload)'
    BY <1>3, <1>7, <2>1 DEF BackedUp
  <2>5. QED
    BY <1>3, <1>7, <2>3, <2>4 DEF OnItsWay
<1>8. CASE call[c].at = "rollback"
  <2>1. \A g \in Treated(c) : backups[t][g] \in {Absent, install[g]}
    BY <1>1, <1>8 DEF OnItsWay
  <2>2. \A g \in fs : backups'[t][g] \in {Absent, install'[g]}
    BY <1>2, <1>8, <2>1
  <2>3. QED
    BY <1>3, <1>8, <2>2 DEF OnItsWay
<1>9. QED
  BY <1>5, <1>6, <1>7, <1>8 DEF Update!Copying

(* A call that copies or skips a file goes on in its place.                 *)
LEMMA CopyingKeeps ==
  ASSUME UpdaterInv, NEW c \in Update!Callers, call[c].at \in Update!Copying,
         NEW n, Goes(c, call[c].at, n, "none"), UNCHANGED <<bundle, replaced, cached, now, calls>>,
         install' \in Update!Tree, backups' \in [Update!Time -> Update!Tree], BackupsKept',
         call[c].alone => OnItsWay(c)'
  PROVE  UpdaterInv'
<1>1. /\ bundle' \in Update!Tree /\ replaced' \in [Update!Time -> Update!Tree]
      /\ call[c].at # "none" /\ call[c].at # "save"
  BY DEF UpdaterInv, Update!UpdaterTypeOK, Update!Copying
<1>2. ASSUME NEW d \in Update!Callers PROVE NotYet(d)'
  <2>1. NotYet(d)
    BY DEF UpdaterInv, CallInv
  <2>2. call'[d].at = call[d].at /\ call'[d].stamp = call[d].stamp
    BY DEF Goes
  <2>3. QED
    BY <2>1, <2>2 DEF NotYet
<1>3. QED
  BY <1>1, <1>2, GoesKeeps

LEMMA SourceTyped ==
  ASSUME UpdaterInv, NEW c \in Update!Callers, Update!More(c)
  PROVE  Update!Source(c)[Update!File(c)] \in Update!Content
<1>1. Update!UpdaterTypeOK /\ call[c].stamp \in Update!Time
  BY CallFields DEF UpdaterInv, Update!UpdaterTypeOK
<1>2. Update!File(c) \in Update!Payload
  BY <1>1, FileIsNext
<1>3. QED
  BY <1>1, <1>2 DEF Update!Source, Update!UpdaterTypeOK, Update!Tree

LEMMA TruncateKeeps ==
  ASSUME UpdaterInv, NEW c \in Update!Callers, Update!Truncate(c)
  PROVE  UpdaterInv'
<1>1. /\ Update!UpdaterTypeOK /\ call[c].at \in Update!Copying /\ call[c].result = "none" /\ Update!More(c)
      /\ UNCHANGED <<bundle, replaced, cached, now, calls>> /\ Update!Write(c, Torn)
  BY DEF UpdaterInv, CallInv, Unjudged, Update!Truncate, Update!Copying
<1>2. Goes(c, call[c].at, call[c].next, "none")
  BY <1>1, CutGoes DEF Update!Truncate
<1>3. Update!File(c) \notin Treated(c) /\ Treated(c) \subseteq Update!Payload
  BY <1>1, FileIsNext, AllTreated
<1>4. Torn \in Update!Content
  BY DEF Update!Content
<1>5. /\ install' \in Update!Tree /\ backups' \in [Update!Time -> Update!Tree] /\ BackupsKept'
      /\ call[c].at = "backup" =>
           /\ install' = install
           /\ \A g \in Treated(c) : backups'[call[c].stamp][g] = backups[call[c].stamp][g]
      /\ call[c].at # "backup" => backups' = backups /\ \A g \in Treated(c) : install'[g] = install[g]
  BY <1>1, <1>3, <1>4, WriteIs
<1>6. Treated(c)' = Treated(c)
  BY <1>2 DEF Goes, Treated
<1>7. call[c].alone => OnItsWay(c)'
  BY <1>1, <1>2, <1>3, <1>5, <1>6, StaysOnItsWay
<1>8. QED
  BY <1>1, <1>2, <1>5, <1>7, CopyingKeeps

LEMMA CopyKeeps ==
  ASSUME UpdaterInv, NEW c \in Update!Callers, Update!Copy(c)
  PROVE  UpdaterInv'
<1> DEFINE f == Update!File(c)
           s == Update!Source(c)[f]
           content == IF s = Absent THEN Torn ELSE s
<1>1. /\ Update!UpdaterTypeOK /\ call[c].at \in Update!Copying /\ call[c].result = "none" /\ Update!More(c)
      /\ UNCHANGED <<bundle, replaced, cached, now, calls>> /\ call' = Update!NextFile(c)
      /\ Update!Write(c, content)
  BY DEF UpdaterInv, CallInv, Unjudged, Update!Copy, Update!Copying
<1>2. Goes(c, call[c].at, call[c].next + 1, "none")
  BY <1>1, NextGoes
<1>3. f \in Update!Payload /\ f \notin Treated(c) /\ Treated(c)' = Treated(c) \cup {f} /\ Treated(c) \subseteq Update!Payload
  BY <1>1, <1>2, FileIsNext, TreatedGrows, AllTreated
<1>4. content \in Update!Content
  BY <1>1, SourceTyped DEF Update!Content
<1>5. s \in {Absent, content}
  OBVIOUS
<1>6. /\ call[c].at = "backup" => s = install[f]
      /\ call[c].at = "copy" => s = bundle[f]
      /\ call[c].at \in {"restore", "rollback"} => s = backups[call[c].stamp][f]
  BY DEF Update!Source
<1>7. call[c].alone /\ call[c].at = "copy" => content = bundle[f]
  <2>1. ASSUME call[c].alone, call[c].at = "copy" PROVE bundle[f] = New
    BY <1>3, <2>1 DEF UpdaterInv, CallInv, OnItsWay, Update!Verified
  <2>2. QED
    BY <1>6, <2>1, UpdaterConstants
<1> HIDE DEF s, content
<1>8. /\ install' \in Update!Tree /\ backups' \in [Update!Time -> Update!Tree] /\ BackupsKept'
      /\ call[c].at = "backup" =>
           /\ install' = install /\ backups'[call[c].stamp][f] = content
           /\ \A g \in Update!Payload : g # f => backups'[call[c].stamp][g] = backups[call[c].stamp][g]
      /\ call[c].at # "backup" =>
           /\ backups' = backups /\ install'[f] = content
           /\ \A g \in Update!Payload : g # f => install'[g] = install[g]
  BY <1>1, <1>4, WriteIs
<1>9. /\ call[c].at = "backup" =>
           /\ install' = install
           /\ \A g \in Treated(c) : backups'[call[c].stamp][g] = backups[call[c].stamp][g]
           /\ install[f] \in {Absent, backups'[call[c].stamp][f]}
      /\ call[c].at # "backup" => backups' = backups /\ \A g \in Treated(c) : install'[g] = install[g]
      /\ call[c].at \in {"restore", "rollback"} => backups[call[c].stamp][f] \in {Absent, install'[f]}
  BY <1>3, <1>5, <1>6, <1>8
<1>10. call[c].alone /\ call[c].at = "copy" => install'[f] = bundle[f]
  BY <1>7, <1>8
<1>11. ASSUME call[c].alone PROVE OnItsWay(c)'
  BY <1>1, <1>2, <1>3, <1>9, <1>10, <1>11, StaysOnItsWay
<1>12. QED
  BY <1>1, <1>2, <1>8, <1>11, CopyingKeeps

LEMMA SkipKeeps ==
  ASSUME UpdaterInv, NEW c \in Update!Callers, Update!Skip(c)
  PROVE  UpdaterInv'
<1> DEFINE f == Update!File(c)
<1>1. /\ Update!UpdaterTypeOK /\ call[c].at \in Update!Copying /\ call[c].at # "copy" /\ call[c].result = "none"
      /\ Update!More(c) /\ UNCHANGED <<install, bundle, backups, replaced, cached, now, calls>>
      /\ call' = Update!NextFile(c) /\ Update!Source(c)[f] = Absent
  BY DEF UpdaterInv, CallInv, Unjudged, Update!Skip, Update!Copying
<1>2. Goes(c, call[c].at, call[c].next + 1, "none")
  BY <1>1, NextGoes
<1>3. Treated(c)' = Treated(c) \cup {f}
  BY <1>1, <1>2, TreatedGrows
<1>4. /\ install' \in Update!Tree /\ backups' \in [Update!Time -> Update!Tree] /\ BackupsKept'
  BY <1>1 DEF UpdaterInv, Update!UpdaterTypeOK, BackupsKept
<1>5. /\ call[c].at = "backup" => install[f] = Absent
      /\ call[c].at \in {"restore", "rollback"} => backups[call[c].stamp][f] = Absent
  BY <1>1 DEF Update!Source
<1>6. ASSUME call[c].alone PROVE OnItsWay(c)'
  BY <1>1, <1>2, <1>3, <1>5, <1>6, StaysOnItsWay
<1>7. QED
  BY <1>1, <1>2, <1>4, <1>6, CopyingKeeps

LEMMA CopyFailsKeeps ==
  ASSUME UpdaterInv, NEW c \in Update!Callers, Update!CopyFails(c)
  PROVE  UpdaterInv'
<1>1. /\ Update!UpdaterTypeOK /\ call[c].at \in Update!Copying /\ call[c].result = "none"
      /\ UNCHANGED <<install, bundle, backups, replaced, cached, now, calls>>
  BY DEF UpdaterInv, CallInv, Unjudged, Update!CopyFails, Update!Copying
<1>2. /\ install' \in Update!Tree /\ bundle' \in Update!Tree /\ backups' \in [Update!Time -> Update!Tree]
      /\ replaced' \in [Update!Time -> Update!Tree] /\ call[c].at # "none"
  BY <1>1 DEF Update!UpdaterTypeOK, Update!Copying
<1>3. CASE call[c].at = "copy"
  <2>1. Goes(c, "restore", 1, "none")
    BY <1>1, <1>3, ToGoes DEF Update!CopyFails
  <2>2. ASSUME call[c].alone PROVE OnItsWay(c)'
    <3>1. BackedUp(c, Update!Payload)
      BY <1>3, <2>2 DEF UpdaterInv, CallInv, OnItsWay
    <3>2. Treated(c)' = {}
      BY <2>1 DEF Goes, Treated
    <3>3. BackedUp(c, Update!Payload)'
      BY <1>1, <2>1, <3>1, SameCall DEF BackedUp
    <3>4. QED
      BY <2>1, <3>2, <3>3, SameCall DEF OnItsWay
  <2>3. BackupsKept' /\ \A d \in Update!Callers : NotYet(d)'
    BY <1>1, <2>1, BackupsStay
  <2>4. QED
    BY <1>1, <1>2, <2>1, <2>2, <2>3, GoesKeeps
<1>4. CASE call[c].at # "copy"
  <2>1. PICK res \in {"failed", "unrestored"} : call' = Update!End(c, res)
    BY <1>4 DEF Update!CopyFails
  <2>2. Goes(c, "save", 1, res)
    BY <1>1, <2>1, EndGoes
  <2>3. OnItsWay(c)'
    BY <2>1, <2>2, SameCall DEF OnItsWay, ResultTrue
  <2>4. BackupsKept' /\ \A d \in Update!Callers : NotYet(d)'
    BY <1>1, <2>2, BackupsStay
  <2>5. QED
    BY <1>1, <1>2, <2>2, <2>3, <2>4, GoesKeeps
<1>5. QED
  BY <1>3, <1>4

LEMMA BackupEndsKeeps ==
  ASSUME UpdaterInv, NEW c \in Update!Callers, Update!BackupEnds(c)
  PROVE  UpdaterInv'
<1> DEFINE t == call[c].stamp
<1>1. /\ Update!UpdaterTypeOK /\ call[c].at = "backup" /\ call[c].result = "none" /\ ~Update!More(c)
      /\ UNCHANGED <<install, bundle, backups, cached, now, calls>> /\ call' = Update!To(c, "copy")
      /\ replaced' = IF call[c].alone THEN [replaced EXCEPT ![t] = call[c].before] ELSE replaced
  BY DEF UpdaterInv, CallInv, Unjudged, Update!BackupEnds
<1>2. Goes(c, "copy", 1, "none")
  BY <1>1, ToGoes
<1>3. /\ install' \in Update!Tree /\ bundle' \in Update!Tree /\ backups' \in [Update!Time -> Update!Tree]
      /\ replaced \in [Update!Time -> Update!Tree] /\ t \in Update!Time /\ call[c].before \in Update!Tree
  BY <1>1, CallFields DEF Update!UpdaterTypeOK
<1>4. CASE ~call[c].alone
  <2>1. UNCHANGED <<backups, replaced>>
    BY <1>1, <1>4
  <2>2. BackupsKept' /\ \A d \in Update!Callers : NotYet(d)'
    BY <1>2, <2>1, BackupsStay
  <2>3. QED
    BY <1>1, <1>2, <1>3, <1>4, <2>1, <2>2, GoesKeeps
<1>5. CASE call[c].alone
  <2>1. Update!Verified /\ BackedUp(c, Treated(c)) /\ Undisturbed(c)
    BY <1>1, <1>5 DEF UpdaterInv, CallInv, OnItsWay
  <2>2. BackedUp(c, Update!Payload)
    BY <1>1, <2>1, AllTreated
  <2>3. replaced' = [replaced EXCEPT ![t] = call[c].before]
    BY <1>1, <1>5
  <2>4. \A g \in Update!Payload : call[c].before[g] \in {Absent, backups[t][g]}
    BY <2>2 DEF BackedUp, Update!Had
  <2> HIDE DEF t
  <2>5. replaced' \in [Update!Time -> Update!Tree]
    BY <1>3, <2>3
  <2>6. ASSUME NEW q \in Update!Time, NEW g \in Update!Payload PROVE replaced'[q][g] \in {Absent, backups'[q][g]}
    <3>1. CASE q = t
      BY <1>1, <1>3, <2>3, <2>4, <3>1
    <3>2. CASE q # t
      BY <1>1, <1>3, <2>3, <3>2 DEF UpdaterInv, BackupsKept
    <3>3. QED
      BY <3>1, <3>2
  <2>7. BackupsKept'
    BY <2>6 DEF BackupsKept
  <2>8. \A d \in Update!Callers : call'[d].at # "backup"
    BY <1>2, <2>1 DEF Goes, Undisturbed
  <2>9. OnItsWay(c)'
    <3>1. Treated(c)' = {}
      BY <1>2 DEF Goes, Treated
    <3>2. BackedUp(c, Update!Payload)'
      BY <1>1, <1>2, <2>2, SameCall DEF BackedUp
    <3>3. Update!Verified'
      BY <1>1, <2>1 DEF Update!Verified
    <3>4. QED
      BY <1>2, <3>1, <3>2, <3>3, SameCall DEF OnItsWay
  <2>10. \A d \in Update!Callers : NotYet(d)'
    BY <2>8 DEF NotYet
  <2>11. QED
    BY <1>1, <1>2, <1>3, <2>5, <2>7, <2>9, <2>10, GoesKeeps
<1>6. QED
  BY <1>4, <1>5

LEMMA ApplyEndsKeeps ==
  ASSUME UpdaterInv, NEW c \in Update!Callers, Update!ApplyEnds(c)
  PROVE  UpdaterInv'
<1>1. Update!UpdaterTypeOK /\ call[c].at = "copy" /\ ~Update!More(c)
      /\ UNCHANGED <<install, bundle, backups, replaced, cached, now, calls>>
      /\ call' = [Update!End(c, "applied") EXCEPT ![c].cached = TRUE]
  BY DEF UpdaterInv, Update!ApplyEnds
<1>2. Goes(c, "save", 1, "applied")
  BY <1>1, EndGoes
<1>3. /\ install' \in Update!Tree /\ bundle' \in Update!Tree /\ backups' \in [Update!Time -> Update!Tree]
      /\ replaced' \in [Update!Time -> Update!Tree]
  BY <1>1 DEF Update!UpdaterTypeOK
<1>4. call[c].alone => OnItsWay(c)'
  <2>1. SUFFICES ASSUME call[c].alone PROVE OnItsWay(c)'
    OBVIOUS
  <2>2. \A g \in Update!Payload : install'[g] = New
    BY <1>1, <2>1, AllTreated DEF UpdaterInv, CallInv, OnItsWay
  <2>3. QED
    BY <1>2, <2>2, SameCall DEF OnItsWay, ResultTrue
<1>5. BackupsKept' /\ \A d \in Update!Callers : NotYet(d)'
  BY <1>1, <1>2, BackupsStay
<1>6. QED
  BY <1>1, <1>2, <1>3, <1>4, <1>5, GoesKeeps

LEMMA RestoreEndsKeeps ==
  ASSUME UpdaterInv, NEW c \in Update!Callers, Update!RestoreEnds(c)
  PROVE  UpdaterInv'
<1>1. Update!UpdaterTypeOK /\ call[c].at \in {"restore", "rollback"} /\ ~Update!More(c)
      /\ UNCHANGED <<install, bundle, backups, replaced, cached, now, calls>>
  BY DEF UpdaterInv, Update!RestoreEnds
<1>2. /\ install' \in Update!Tree /\ bundle' \in Update!Tree /\ backups' \in [Update!Time -> Update!Tree]
      /\ replaced' \in [Update!Time -> Update!Tree]
  BY <1>1 DEF Update!UpdaterTypeOK
<1>3. Treated(c) = Update!Payload
  BY <1>1, AllTreated
<1>4. PICK res \in {"rolledback", "restored"} :
        call' = Update!End(c, res) /\ (res = "rolledback" <=> call[c].at = "rollback")
  BY DEF Update!RestoreEnds
<1>5. Goes(c, "save", 1, res)
  BY <1>1, <1>4, EndGoes
<1>6. ASSUME call[c].alone PROVE OnItsWay(c)'
  <2>1. res = "rolledback" => \A g \in Update!Payload : backups[call[c].stamp][g] \in {Absent, install[g]}
    BY <1>3, <1>4, <1>6 DEF UpdaterInv, CallInv, OnItsWay
  <2>2. res = "restored" => \A g \in Update!Had(c) : install[g] = call[c].before[g]
    BY <1>1, <1>3, <1>4, <1>6 DEF UpdaterInv, CallInv, OnItsWay, Update!Had
  <2>3. QED
    BY <1>1, <1>4, <1>5, <2>1, <2>2, SameCall DEF OnItsWay, ResultTrue
<1>7. BackupsKept' /\ \A d \in Update!Callers : NotYet(d)'
  BY <1>1, <1>5, BackupsStay
<1>8. QED
  BY <1>1, <1>2, <1>4, <1>5, <1>6, <1>7, GoesKeeps

LEMMA SaveKeeps ==
  ASSUME UpdaterInv, NEW c \in Update!Callers, Update!Save(c)
  PROVE  UpdaterInv'
<1>1. Update!UpdaterTypeOK /\ call[c].at = "save" /\ UNCHANGED <<install, bundle, backups, replaced, now, calls>>
      /\ cached' = call[c].cached /\ call' = [call EXCEPT ![c] = Update!NoCall]
  BY DEF UpdaterInv, Update!Save
<1>2. call' \in [Update!Callers -> Update!Call] /\ cached' \in BOOLEAN
  BY <1>1, NoCallTyped, CallFields DEF Update!UpdaterTypeOK
<1>3. Update!UpdaterTypeOK'
  BY <1>1, <1>2 DEF Update!UpdaterTypeOK
<1>4. ASSUME NEW d \in Update!Callers PROVE CallInv(d)'
  <2>1. CASE d = c
    <3>1. call'[d] = Update!NoCall
      BY <1>1, <2>1 DEF Update!UpdaterTypeOK
    <3>2. QED
      BY <3>1, NoCallTyped DEF CallInv, Unjudged, NotYet
  <2>2. CASE d # c
    <3>1. call'[d] = call[d] /\ ~call[d].alone
      BY <1>1, <2>2 DEF UpdaterInv, CallInv, Undisturbed, Update!UpdaterTypeOK
    <3>2. QED
      BY <1>1, <3>1 DEF UpdaterInv, CallInv, Unjudged, NotYet
  <2>3. QED
    BY <2>1, <2>2
<1>5. BackupsKept'
  BY <1>1 DEF UpdaterInv, BackupsKept
<1>6. QED
  BY <1>3, <1>4, <1>5 DEF UpdaterInv

LEMMA DiesKeeps ==
  ASSUME UpdaterInv, Update!Dies
  PROVE  UpdaterInv'
<1>1. Update!UpdaterTypeOK /\ UNCHANGED <<install, bundle, backups, replaced, cached, now, calls>>
      /\ call' = [d \in Update!Callers |-> Update!NoCall]
  BY DEF UpdaterInv, Update!Dies
<1>2. Update!UpdaterTypeOK'
  BY <1>1, NoCallTyped DEF Update!UpdaterTypeOK
<1>3. \A d \in Update!Callers : CallInv(d)'
  BY <1>1, NoCallTyped DEF CallInv, Unjudged, NotYet
<1>4. BackupsKept'
  BY <1>1 DEF UpdaterInv, BackupsKept
<1>5. QED
  BY <1>2, <1>3, <1>4 DEF UpdaterInv

(* A call begins, alone or not; whoever was running is not alone any more.  *)
LEMMA BeginKeeps ==
  ASSUME UpdaterInv, NEW c \in Update!Callers, NEW r \in Update!Call, Update!Begin(c, r),
         r.at \in {"extract", "backup", "rollback", "save"}, r.next = 1,
         r.result = IF r.at = "save" THEN "failed" ELSE "none",
         r.at = "backup" => r.before = install /\ Update!Verified /\ UNCHANGED bundle /\ Update!Reuses(r.stamp),
         r.at # "backup" => UNCHANGED replaced,
         UNCHANGED <<install, backups, cached, now>>, bundle' \in Update!Tree
  PROVE  UpdaterInv'
<1> DEFINE others == {d \in Update!Callers : call[d].at # "none"}
           b == others = {} /\ (r.at = "backup" => backups[r.stamp] = Update!Empty)
           k == [r EXCEPT !.alone = b]
           Left(d) == [call[d] EXCEPT !.alone = FALSE]
<1>1. Update!UpdaterTypeOK /\ c = calls + 1 /\ calls' = c
      /\ call' = [d \in Update!Callers |-> IF d = c THEN k ELSE Left(d)]
  BY DEF UpdaterInv, Update!Begin
<1>2. b \in BOOLEAN
  BY Zenon
<1>3. b => others = {}
  BY Zenon
<1> HIDE DEF b
<1>4. k \in Update!Call /\ k.at = r.at /\ k.next = 1 /\ k.result = r.result /\ k.before = r.before /\ k.stamp = r.stamp
  BY <1>2 DEF Update!Call
<1>5. k.alone = b
  BY DEF Update!Call
<1>6. ASSUME NEW d \in Update!Callers
      PROVE  Left(d) \in Update!Call /\ Left(d).at = call[d].at /\ Left(d).result = call[d].result
             /\ Left(d).alone = FALSE /\ Left(d).stamp = call[d].stamp
  <2>1. call[d] \in Update!Call
    BY <1>1 DEF Update!UpdaterTypeOK
  <2>2. QED
    BY <2>1 DEF Update!Call
<1> HIDE DEF k, Left
<1>7. calls' \in 0..MaxCalls
  BY <1>1, UpdaterConstants DEF Update!Callers
<1>8. call' \in [Update!Callers -> Update!Call] /\ call'[c] = k /\ \A d \in Update!Callers \ {c} : call'[d] = Left(d)
  BY <1>1, <1>4, <1>6
<1>9. /\ replaced' \in [Update!Time -> Update!Tree] /\ BackupsKept'
      /\ r.at = "backup" => replaced'[r.stamp] = Update!Empty
      /\ \A q \in Update!Time : replaced[q] = Update!Empty => replaced'[q] = Update!Empty
  <2>1. CASE r.at = "backup"
    <3>1. r.stamp \in Update!Time
      BY CallFields
    <3>2. QED
      BY <2>1, <3>1, ReusesKeeps
  <2>2. CASE r.at # "backup"
    BY <1>1, <2>2 DEF UpdaterInv, Update!UpdaterTypeOK, BackupsKept
  <2>3. QED
    BY <2>1, <2>2
<1>10. Update!UpdaterTypeOK'
  BY <1>1, <1>7, <1>8, <1>9 DEF Update!UpdaterTypeOK
<1>11. CallInv(c)'
  <2>1. Unjudged(c)' /\ NotYet(c)'
    BY <1>4, <1>8, <1>9 DEF Unjudged, NotYet
  <2>2. ASSUME b PROVE Undisturbed(c)'
    BY <1>3, <1>4, <1>6, <1>8, <2>2 DEF Undisturbed
  <2>3. Treated(c)' = {}
    BY <1>4, <1>8 DEF Treated
  <2>4. OnItsWay(c)'
    <3>1. call'[c].at = "save" => ResultTrue(c)'
      BY <1>4, <1>8 DEF ResultTrue
    <3>2. call'[c].at = "backup" => install' = call'[c].before /\ Update!Verified' /\ BackedUp(c, Treated(c))'
      BY <1>4, <1>8, <2>3 DEF Update!Verified, BackedUp
    <3>3. QED
      BY <1>4, <1>8, <2>3, <3>1, <3>2 DEF OnItsWay
  <2>5. call'[c].alone => b
    BY <1>5, <1>8
  <2>6. QED
    BY <2>1, <2>2, <2>4, <2>5 DEF CallInv
<1>12. ASSUME NEW d \in Update!Callers \ {c} PROVE CallInv(d)'
  <2>1. call'[d] = Left(d)
    BY <1>8
  <2>2. call[d].stamp \in Update!Time /\ NotYet(d)
    BY <1>1, CallFields DEF UpdaterInv, CallInv, Update!UpdaterTypeOK
  <2>3. NotYet(d)'
    BY <1>6, <1>9, <2>1, <2>2 DEF NotYet
  <2>4. Unjudged(d)' /\ ~call'[d].alone
    BY <1>6, <2>1 DEF UpdaterInv, CallInv, Unjudged
  <2>5. QED
    BY <2>3, <2>4 DEF CallInv
<1>13. QED
  BY <1>9, <1>10, <1>11, <1>12 DEF UpdaterInv

LEMMA FetchKeeps ==
  ASSUME UpdaterInv, NEW c \in Update!Callers, Update!Fetch(c)
  PROVE  UpdaterInv'
<1>1. cached \in BOOLEAN /\ bundle \in Update!Tree
  BY DEF UpdaterInv, Update!UpdaterTypeOK
<1>2. UNCHANGED <<install, backups, replaced, cached, now>>
  BY DEF Update!Fetch
<1>3. Update!Empty \in Update!Tree
  BY DEF Update!Empty, Update!Tree, Update!Content
<1> DEFINE e(b) == [Update!NoCall EXCEPT !.at = "extract", !.cached = cached, !.applies = b]
           x == [Update!NoCall EXCEPT !.at = "save", !.cached = cached, !.result = "failed"]
<1>4. ASSUME NEW b \in BOOLEAN, Update!Begin(c, e(b)), bundle' = Update!Empty PROVE UpdaterInv'
  <2> DEFINE r == e(b)
  <2>1. r \in Update!Call /\ r.at = "extract" /\ r.next = 1 /\ r.result = "none"
    BY <1>1, NoCallTyped DEF Update!Call, Update!NoCall
  <2>2. Update!Begin(c, r)
    BY <1>4
  <2> HIDE DEF r
  <2>3. QED
    BY <1>2, <1>3, <1>4, <2>1, <2>2, BeginKeeps
<1>5. ASSUME Update!Begin(c, x), UNCHANGED bundle PROVE UpdaterInv'
  <2>1. x \in Update!Call /\ x.at = "save" /\ x.next = 1 /\ x.result = "failed"
    BY <1>1, NoCallTyped DEF Update!Call, Update!NoCall
  <2> HIDE DEF x
  <2>2. QED
    BY <1>1, <1>2, <1>5, <2>1, BeginKeeps
<1>6. QED
  BY <1>4, <1>5 DEF Update!Fetch

LEMMA ApplyBeginKeeps ==
  ASSUME UpdaterInv, NEW c \in Update!Callers, Update!Apply(c)
  PROVE  UpdaterInv'
<1> DEFINE may == Update!MayApply
           where == IF may THEN "backup" ELSE "save"
           res == IF may THEN "none" ELSE "failed"
           r == [Update!NoCall EXCEPT !.at = where, !.stamp = now, !.before = install, !.cached = cached, !.result = res]
<1>1. now \in Update!Time /\ cached \in BOOLEAN /\ install \in Update!Tree /\ bundle \in Update!Tree
  BY DEF UpdaterInv, Update!UpdaterTypeOK
<1>2. Update!Begin(c, r) /\ UNCHANGED <<install, bundle, backups, cached, now>>
  BY DEF Update!Apply
<1>3. /\ where \in {"backup", "save"} /\ res = IF where = "save" THEN "failed" ELSE "none"
      /\ where = "backup" => Update!Verified /\ Update!Reuses(now)
      /\ where # "backup" => UNCHANGED replaced
  BY DEF Update!MayApply, Update!Apply
<1> HIDE DEF where, res
<1>4. r \in Update!Call
  BY <1>1, <1>3, NoCallTyped DEF Update!Call
<1>5. r.at = where /\ r.next = 1 /\ r.result = res /\ r.before = install /\ r.stamp = now
  BY DEF Update!NoCall
<1> HIDE DEF r
<1>6. QED
  BY <1>1, <1>2, <1>3, <1>4, <1>5, BeginKeeps

LEMMA RollbackKeeps ==
  ASSUME UpdaterInv, NEW c \in Update!Callers, Update!Rollback(c)
  PROVE  UpdaterInv'
<1> DEFINE last == CHOOSE t \in Update!Kept : \A q \in Update!Kept : q <= t
           r == [Update!NoCall EXCEPT !.at = "rollback", !.stamp = last, !.before = install, !.cached = cached]
<1>1. now \in Update!Time /\ cached \in BOOLEAN /\ install \in Update!Tree /\ bundle \in Update!Tree
  BY DEF UpdaterInv, Update!UpdaterTypeOK
<1>2. Update!Begin(c, r) /\ UNCHANGED <<install, bundle, backups, replaced, cached, now>>
  BY DEF Update!Rollback
<1>3. last \in Update!Time
  <2>1. Update!Kept # {} /\ Update!Kept \subseteq 0..MaxTime /\ MaxTime \in Nat
    BY UpdaterConstants DEF Update!Rollback, Update!Kept, Update!Time
  <2>2. \E t \in Update!Kept : \A q \in Update!Kept : t >= q
    BY <2>1, LargestNumber
  <2>3. \E t \in Update!Kept : \A q \in Update!Kept : q <= t
    BY <2>1, <2>2
  <2>4. last \in Update!Kept
    BY ONLY <2>3, Zenon DEF last
  <2>5. QED
    BY <2>4 DEF Update!Kept
<1> HIDE DEF last
<1>4. r \in Update!Call
  BY <1>1, <1>3, NoCallTyped DEF Update!Call
<1>5. r.at = "rollback" /\ r.next = 1 /\ r.result = "none"
  BY DEF Update!NoCall
<1> HIDE DEF r
<1>6. QED
  BY <1>1, <1>2, <1>4, <1>5, BeginKeeps

LEMMA UpdaterInitially == Update!UpdaterInit \/ UpdaterAtRest => UpdaterInv
<1> SUFFICES ASSUME Update!UpdaterInit \/ UpdaterAtRest PROVE UpdaterInv
  OBVIOUS
<1>1. /\ install \in Update!Tree /\ bundle \in Update!Tree /\ cached \in BOOLEAN
      /\ backups = [t \in Update!Time |-> Update!Empty] /\ replaced = backups
      /\ call = [c \in Update!Callers |-> Update!NoCall] /\ now = 0 /\ calls = 0
  BY DEF Update!UpdaterInit, UpdaterAtRest, Update!Tree, Update!Content
<1>2. Update!Empty \in Update!Tree /\ 0 \in 0..MaxCalls /\ 0 \in Update!Time
  BY UpdaterConstants DEF Update!Empty, Update!Tree, Update!Content
<1>3. Update!UpdaterTypeOK
  BY <1>1, <1>2, NoCallTyped DEF Update!UpdaterTypeOK
<1>4. \A c \in Update!Callers : CallInv(c)
  BY <1>1, NoCallTyped DEF CallInv, Unjudged, NotYet
<1>5. BackupsKept
  BY <1>1, UpdaterConstants DEF BackupsKept
<1>6. QED
  BY <1>3, <1>4, <1>5 DEF UpdaterInv

LEMMA UpdaterInvKept ==
  ASSUME UpdaterInv, Update!UpdaterNext \/ UNCHANGED atUpdater
  PROVE  UpdaterInv'
<1>1. CASE UNCHANGED <<install, bundle, backups, replaced, cached, call, calls>> /\ now' \in Update!Time
  <2>1. Update!UpdaterTypeOK'
    BY <1>1 DEF UpdaterInv, Update!UpdaterTypeOK
  <2>2. ASSUME NEW c \in Update!Callers PROVE CallInv(c)'
    BY <1>1 DEF UpdaterInv, CallInv, Unjudged, NotYet, Undisturbed, OnItsWay, ResultTrue, BackedUp, Treated,
                Update!Had, Update!Verified
  <2>3. BackupsKept'
    BY <1>1 DEF UpdaterInv, BackupsKept
  <2>4. QED
    BY <2>1, <2>2, <2>3 DEF UpdaterInv
<1>2. ASSUME Update!Tick PROVE now' \in Update!Time
  BY <1>2, UpdaterConstants DEF Update!Tick, Update!Time, UpdaterInv, Update!UpdaterTypeOK
<1>3. CASE UNCHANGED atUpdater
  <2>1. now' \in Update!Time
    BY <1>3 DEF atUpdater, UpdaterInv, Update!UpdaterTypeOK
  <2>2. QED
    BY <1>1, <1>3, <2>1 DEF atUpdater
<1>4. CASE Update!UpdaterNext
  BY <1>1, <1>2, <1>4, FetchKeeps, ExtractKeeps, FetchEndsKeeps, ApplyFetchedKeeps, ApplyBeginKeeps,
     TruncateKeeps, CopyKeeps, SkipKeeps, CopyFailsKeeps, BackupEndsKeeps, ApplyEndsKeeps, RestoreEndsKeeps, RollbackKeeps, SaveKeeps, DiesKeeps
     DEF Update!UpdaterNext, Update!Tick
<1>5. QED
  BY <1>3, <1>4

LEMMA UpdaterInvSound == UpdaterInv => Update!UpdaterTypeOK /\ Update!UpdateSafe
<1> SUFFICES ASSUME UpdaterInv PROVE Update!UpdaterTypeOK /\ Update!UpdateSafe
  OBVIOUS
<1>1. ASSUME NEW c \in Update!Callers, call[c].alone
      PROVE  /\ ResultTrue(c)
             /\ call[c].at \in {"copy", "restore"} => BackedUp(c, Update!Payload)
  BY <1>1 DEF UpdaterInv, CallInv, Unjudged, OnItsWay, ResultTrue
<1>2. \A c \in Update!Callers : Update!Had(c) \subseteq Update!Payload
  BY DEF Update!Had
<1>3. \A t \in Update!Time, f \in Update!Payload : replaced[t][f] \in {Absent, backups[t][f]}
  BY DEF UpdaterInv, BackupsKept
<1>4. ASSUME NEW c \in Update!Callers, call[c].alone, call[c].result = "rolledback", NEW f \in Update!Payload
      PROVE  replaced[call[c].stamp][f] \in {Absent, install[f]}
  <2>1. call[c].stamp \in Update!Time
    BY CallFields DEF UpdaterInv, Update!UpdaterTypeOK
  <2>2. backups[call[c].stamp][f] \in {Absent, install[f]}
    BY <1>1, <1>4 DEF ResultTrue
  <2>3. QED
    BY <1>3, <2>1, <2>2
<1>5. QED
  BY <1>1, <1>2, <1>3, <1>4 DEF UpdaterInv, Update!UpdateSafe, ResultTrue, BackedUp

(***************************************************************************)
(* How a target is judged.                                                 *)
(***************************************************************************)

(* A sum over a set takes its members one by one, in an order of its own;   *)
(* Partial is the function it is the last value of.                         *)
Chosen(s) == CHOOSE x \in s : TRUE
Grown(g, v, s) == IF s = {} THEN 0 ELSE v[Chosen(s)] + g[s \ {Chosen(s)}]
IsPartial(g, v, S) == g = [s \in SUBSET S |-> Grown(g, v, s)]
Partial(v, S) == CHOOSE g : IsPartial(g, v, S)

LEMMA SumIsLast ==
  ASSUME NEW v, NEW S
  PROVE  Scores!SumFunctionOnSet(v, S) = Partial(v, S)[S]
BY DEF Scores!SumFunctionOnSet, Scores!FoldFunctionOnSet, Scores!MapThenFoldSet, Partial, IsPartial, Grown, Chosen

LEMMA OneLess ==
  ASSUME NEW s, IsFiniteSet(s), s # {}
  PROVE  /\ Chosen(s) \in s /\ IsFiniteSet(s \ {Chosen(s)})
         /\ Cardinality(s) \in Nat /\ Cardinality(s \ {Chosen(s)}) = Cardinality(s) - 1
<1>1. Chosen(s) \in s
  BY Zenon DEF Chosen
<1>2. QED
  BY <1>1, FS_RemoveElement, FS_CardinalityType

(* The recursion has a solution, on the sets of no member, of one, ...      *)
LEMMA PartialSolves ==
  ASSUME NEW v, NEW S, IsFiniteSet(S)
  PROVE  IsPartial(Partial(v, S), v, S)
<1> DEFINE N == Cardinality(S)
           Small(n) == {s \in SUBSET S : Cardinality(s) <= n}
           Solves(g, n) == g = [s \in Small(n) |-> Grown(g, v, s)]
           T == {n \in 0..N : \E g : Solves(g, n)}
<1>1. N \in Nat /\ \A s \in SUBSET S : IsFiniteSet(s) /\ Cardinality(s) \in 0..N
  BY FS_CardinalityType, FS_Subset
<1>2. 0 \in T
  <2> DEFINE g == [s \in Small(0) |-> 0]
  <2>1. ASSUME NEW s \in Small(0) PROVE s = {}
    BY <1>1, FS_EmptySet
  <2>2. \A s \in Small(0) : Grown(g, v, s) = 0
    BY <2>1 DEF Grown
  <2>3. Solves(g, 0)
    BY <2>2
  <2> HIDE DEF g, Solves
  <2>4. 0 \in 0..N /\ \E f : Solves(f, 0)
    BY <1>1, <2>3
  <2> HIDE DEF N
  <2>5. QED
    BY <2>4
<1>3. ASSUME NEW n \in 1..N, n - 1 \in T
      PROVE  n \in T
  <2>1. PICK g : Solves(g, n - 1)
    BY <1>3
  <2> DEFINE h == [s \in Small(n) |-> Grown(g, v, s)]
  <2>2. ASSUME NEW s \in Small(n)
        PROVE  Grown(h, v, s) = Grown(g, v, s)
    <3>1. CASE s = {}
      BY <3>1 DEF Grown
    <3>2. CASE s # {}
      <4> DEFINE t == s \ {Chosen(s)}
      <4>1. IsFiniteSet(s) /\ Cardinality(s) <= n
        BY <1>1
      <4>2. Cardinality(t) <= n - 1 /\ Cardinality(t) <= n
        BY <1>1, <3>2, <4>1, OneLess
      <4>3. t \in Small(n - 1) /\ t \in Small(n)
        BY <4>2
      <4> HIDE DEF t, Small
      <4>4. h[t] = Grown(g, v, t) /\ g[t] = Grown(g, v, t)
        BY <2>1, <4>3
      <4> HIDE DEF h
      <4>5. QED
        BY <3>2, <4>4 DEF Grown, t
    <3>3. QED
      BY <3>1, <3>2
  <2>3. Solves(h, n)
    BY <2>2
  <2> HIDE DEF Solves
  <2>4. QED
    BY <2>3
<1> HIDE DEF T
<1>4. \A n \in 0..N : n \in T
  BY ONLY <1>1, <1>2, <1>3, Induction, Zenon
<1>5. N \in T
  BY <1>1, <1>4
<1>6. PICK g : Solves(g, N)
  BY <1>5 DEF T
<1>7. Small(N) = SUBSET S
  BY <1>1
<1>8. IsPartial(g, v, S)
  BY <1>6, <1>7 DEF IsPartial
<1>9. QED
  BY ONLY <1>8, Zenon DEF Partial

(* What is closed under addition and holds every value holds the sum.       *)
LEMMA SumIsIn ==
  ASSUME NEW S, IsFiniteSet(S), S # {}, NEW v, NEW T \in SUBSET Int,
         \A x \in S : v[x] \in T, \A a, b \in T : a + b \in T
  PROVE  Scores!SumFunctionOnSet(v, S) \in T
<1> DEFINE g == Partial(v, S)
           N == Cardinality(S)
           U == {n \in Nat : \A s \in SUBSET S : s # {} /\ Cardinality(s) = n => g[s] \in T}
<1>1. N \in Nat /\ \A s \in SUBSET S : IsFiniteSet(s) /\ Cardinality(s) \in 0..N
  BY FS_CardinalityType, FS_Subset
<1>2. IsPartial(g, v, S)
  BY ONLY IsFiniteSet(S), PartialSolves, Zenon
<1> HIDE DEF g
<1>3. \A s \in SUBSET S : g[s] = Grown(g, v, s)
  BY <1>2 DEF IsPartial
<1>4. 0 \in U
  BY <1>1, FS_EmptySet
<1>5. ASSUME NEW n \in 1..N, n - 1 \in U
      PROVE  n \in U
  <2>1. ASSUME NEW s \in SUBSET S, s # {}, Cardinality(s) = n
        PROVE  g[s] \in T
    <3> DEFINE t == s \ {Chosen(s)}
    <3>1. Chosen(s) \in S /\ Cardinality(t) = n - 1 /\ t \in SUBSET S
      BY <1>1, <2>1, OneLess
    <3>2. g[s] = v[Chosen(s)] + g[t]
      BY <1>3, <2>1 DEF Grown
    <3>3. CASE t = {}
      <4>1. g[t] = 0
        BY <1>3, <3>1, <3>3 DEF Grown
      <4>2. v[Chosen(s)] \in T /\ v[Chosen(s)] \in Int
        BY <3>1
      <4>3. QED
        BY <3>2, <4>1, <4>2
    <3>4. CASE t # {}
      <4>1. g[t] \in T
        BY <1>5, <3>1, <3>4
      <4>2. v[Chosen(s)] \in T
        BY <3>1
      <4>3. QED
        BY <3>2, <4>1, <4>2
    <3>5. QED
      BY <3>3, <3>4
  <2>2. QED
    BY <2>1
<1> HIDE DEF U
<1>6. \A n \in 0..N : n \in U
  BY ONLY <1>1, <1>4, <1>5, Induction, Zenon
<1>7. N \in U
  BY <1>1, <1>6
<1>8. g[S] \in T
  BY <1>7 DEF U
<1>9. QED
  BY <1>8, SumIsLast DEF g

LEMMA SuiteIs ==
  /\ Scores!SuiteCases = {"reasoning_exact", "reasoning_judge", "coding_proxy", "instruction_exact",
                          "json_schema", "tool_call", "stream_protocol"}
  /\ Scores!Dimensions = {"reasoning", "coding_proxy", "instruction", "tool_json", "stream_protocol"}
  /\ \A d \in Scores!Dimensions : Scores!Weights[d] \in Nat \ {0}
  /\ \A d \in Scores!Dimensions : Scores!CasesOf(d) # {}
<1>1. /\ Scores!SuiteCases = {"reasoning_exact", "reasoning_judge", "coding_proxy", "instruction_exact",
                              "json_schema", "tool_call", "stream_protocol"}
      /\ Scores!Dimensions = {"reasoning", "coding_proxy", "instruction", "tool_json", "stream_protocol"}
  BY DEF Scores!SuiteCases, Scores!Suite, Scores!Dimensions, Scores!Weights
<1>2. \A d \in Scores!Dimensions : Scores!Weights[d] \in Nat \ {0}
  BY <1>1 DEF Scores!Weights
<1>3. /\ Scores!Suite["reasoning_exact"].dimension = "reasoning"
      /\ Scores!Suite["coding_proxy"].dimension = "coding_proxy"
      /\ Scores!Suite["instruction_exact"].dimension = "instruction"
      /\ Scores!Suite["tool_call"].dimension = "tool_json"
      /\ Scores!Suite["stream_protocol"].dimension = "stream_protocol"
  BY DEF Scores!Suite
<1>4. \A d \in Scores!Dimensions : Scores!CasesOf(d) # {}
  BY <1>1, <1>3 DEF Scores!CasesOf
<1>5. QED
  BY <1>1, <1>2, <1>4

LEMMA SuiteFinite ==
  /\ IsFiniteSet(Scores!SuiteCases) /\ Cardinality(Scores!SuiteCases) = 7
  /\ IsFiniteSet(Scores!Dimensions)
  /\ \A S : Scores!Cardinality(S) = Cardinality(S)
<1>1. \A S : Scores!Cardinality(S) = Cardinality(S)
  BY Zenon DEF Scores!Cardinality, Cardinality
<1> DEFINE S1 == {"reasoning_exact"}
           S2 == S1 \cup {"reasoning_judge"}
           S3 == S2 \cup {"coding_proxy"}
           S4 == S3 \cup {"instruction_exact"}
           S5 == S4 \cup {"json_schema"}
           S6 == S5 \cup {"tool_call"}
           S7 == S6 \cup {"stream_protocol"}
<1>2. /\ "reasoning_judge" \notin S1 /\ "coding_proxy" \notin S2 /\ "instruction_exact" \notin S3
      /\ "json_schema" \notin S4 /\ "tool_call" \notin S5 /\ "stream_protocol" \notin S6
  OBVIOUS
<1>3. Scores!SuiteCases = S7
  BY SuiteIs
<1>4. IsFiniteSet(S1) /\ Cardinality(S1) = 1
  BY FS_Singleton
<1>5. \A S, x : IsFiniteSet(S) /\ x \notin S =>
        IsFiniteSet(S \cup {x}) /\ Cardinality(S \cup {x}) = Cardinality(S) + 1
  BY FS_AddElement
<1> HIDE DEF S1
<1>6. IsFiniteSet(S2) /\ Cardinality(S2) = 2
  BY <1>2, <1>4, <1>5
<1> HIDE DEF S2
<1>7. IsFiniteSet(S3) /\ Cardinality(S3) = 3
  BY <1>2, <1>6, <1>5
<1> HIDE DEF S3
<1>8. IsFiniteSet(S4) /\ Cardinality(S4) = 4
  BY <1>2, <1>7, <1>5
<1> HIDE DEF S4
<1>9. IsFiniteSet(S5) /\ Cardinality(S5) = 5
  BY <1>2, <1>8, <1>5
<1> HIDE DEF S5
<1>10. IsFiniteSet(S6) /\ Cardinality(S6) = 6
  BY <1>2, <1>9, <1>5
<1> HIDE DEF S6
<1>11. IsFiniteSet(S7) /\ Cardinality(S7) = 7
  BY <1>2, <1>10, <1>5
<1> HIDE DEF S7
<1>12. IsFiniteSet(Scores!Dimensions)
  <2> DEFINE D1 == {"reasoning"}
             D2 == D1 \cup {"coding_proxy"}
             D3 == D2 \cup {"instruction"}
             D4 == D3 \cup {"tool_json"}
             D5 == D4 \cup {"stream_protocol"}
  <2>1. Scores!Dimensions = D5
    BY SuiteIs
  <2>2. IsFiniteSet(D1)
    BY FS_Singleton
  <2> HIDE DEF D1
  <2>3. \A S, x : IsFiniteSet(S) => IsFiniteSet(S \cup {x})
    BY FS_AddElement
  <2>4. IsFiniteSet(D5)
    BY <2>2, <2>3
  <2> HIDE DEF D5
  <2>5. QED
    BY <2>1, <2>4
<1>13. QED
  BY <1>1, <1>3, <1>11, <1>12

(* The gap to a baseline is a number, and -1 when none is selected.         *)
LEMMA WeightedIsNumber ==
  ASSUME NEW D \in SUBSET Scores!Dimensions, D # {}, NEW value, \A d \in D : value[d] \in Int
  PROVE  Scores!Weighted(value, D) \in Int /\ Scores!SumFunctionOnSet(Scores!Weights, D) \in Nat \ {0}
<1> DEFINE v == [d \in D |-> Scores!Weights[d] * value[d]]
           I == Int
           P == Nat \ {0}
<1>1. IsFiniteSet(D)
  BY SuiteFinite, FS_Subset
<1>2. \A d \in D : Scores!Weights[d] \in P
  BY SuiteIs
<1>3. \A d \in D : v[d] \in I
  <2>1. ASSUME NEW d \in D
        PROVE  v[d] \in I
    <3>1. Scores!Weights[d] \in Int /\ value[d] \in Int
      BY <1>2
    <3>2. QED
      BY <3>1
  <2>2. QED
    BY <2>1
<1>4. /\ I \in SUBSET Int /\ P \in SUBSET Int
      /\ \A a, b \in I : a + b \in I
      /\ \A a, b \in P : a + b \in P
  OBVIOUS
<1>5. Scores!Weighted(value, D) = Scores!SumFunctionOnSet(v, D)
  BY DEF Scores!Weighted
<1> HIDE DEF v, I, P
<1>6. Scores!SumFunctionOnSet(v, D) \in I
  BY ONLY <1>1, <1>3, <1>4, D # {}, SumIsIn
<1>7. Scores!SumFunctionOnSet(Scores!Weights, D) \in P
  BY ONLY <1>1, <1>2, <1>4, D # {}, SumIsIn
<1>8. QED
  BY <1>5, <1>6, <1>7 DEF I, P

LEMMA MeanIsNumber ==
  ASSUME NEW of, \A c \in Scores!SuiteCases : of[c].score \in Int, NEW d \in Scores!Dimensions
  PROVE  Scores!Mean(1, of, d) \in Int
<1> DEFINE C == Scores!CasesOf(d)
           v == [c \in C |-> of[c].score]
           I == Int
<1>1. C \in SUBSET Scores!SuiteCases /\ C # {}
  BY SuiteIs DEF Scores!CasesOf
<1>2. IsFiniteSet(C) /\ Cardinality(C) \in Nat \ {0} /\ Scores!Cardinality(C) = Cardinality(C)
  BY <1>1, SuiteFinite, FS_Subset, FS_EmptySet, FS_CardinalityType
<1>3. \A c \in C : v[c] \in I
  BY <1>1
<1>4. I \in SUBSET Int /\ \A a, b \in I : a + b \in I
  OBVIOUS
<1>5. Scores!Mean(1, of, d) = (1 * Scores!SumFunctionOnSet(v, C)) \div Scores!Cardinality(C)
  BY DEF Scores!Mean
<1> HIDE DEF C, v, I
<1>6. Scores!SumFunctionOnSet(v, C) \in I
  BY ONLY <1>1, <1>2, <1>3, <1>4, SumIsIn
<1>7. QED
  BY <1>2, <1>5, <1>6 DEF I

LEMMA GapIsNumber ==
  ASSUME NEW scores, \A d \in Scores!Dimensions : scores[d] \in Int,
         NEW base, \A d \in DOMAIN base : base[d] \in Int
  PROVE  Scores!Gap(scores, base) \in Int
<1> DEFINE shared == DOMAIN base \cap Scores!Dimensions
           overall == Scores!Weighted(scores, Scores!Dimensions) \div 100
           far == [d \in shared |-> Scores!Distance(scores[d], base[d])]
<1>1. overall \in Int
  <2>1. Scores!Weighted(scores, Scores!Dimensions) \in Int
    BY SuiteIs, WeightedIsNumber
  <2>2. QED
    BY <2>1
<1>2. \A a, b \in Int : Scores!Distance(a, b) \in Int
  BY DEF Scores!Distance
<1>3. \A d \in shared : far[d] \in Int
  BY <1>2
<1>4. CASE "overall" \in DOMAIN base
  BY <1>1, <1>2, <1>4 DEF Scores!Gap
<1>5. CASE "overall" \notin DOMAIN base /\ shared = {}
  BY <1>5 DEF Scores!Gap
<1>6. CASE "overall" \notin DOMAIN base /\ shared # {}
  <2>1. Scores!Weighted(far, shared) \in Int /\ Scores!SumFunctionOnSet(Scores!Weights, shared) \in Nat \ {0}
    BY <1>3, <1>6, WeightedIsNumber
  <2>2. Scores!Gap(scores, base) = Scores!Weighted(far, shared) \div Scores!SumFunctionOnSet(Scores!Weights, shared)
    BY <1>6 DEF Scores!Gap
  <2> HIDE DEF far, shared
  <2>3. QED
    BY <2>1, <2>2
<1>7. QED
  BY <1>4, <1>5, <1>6

LEMMA NoBaselineNoGap ==
  ASSUME NEW scores
  PROVE  Scores!Gap(scores, << >>) = -1
BY DEF Scores!Gap

(* A verdict, from the numbers it is made of.                               *)
Verdict(completed, failures, gap, selected) ==
  Scores!verdictForTarget(completed, 7, failures, gap, -1, selected, Scores!Thresholds)
Suspicion(completed, failures, gap) == Scores!Suspicion2(completed, 7, failures, gap)

Fits(completed, failures, gap, selected) ==
  /\ Verdict(completed, failures, gap, selected) = "normal" =>
       failures = 0 /\ gap <= Scores!Thresholds.normal /\ Suspicion(completed, failures, gap) < 40
  /\ Verdict(completed, failures, gap, selected) = "highly_suspect" =>
       Suspicion(completed, failures, gap) >= 40

LEMMA VerdictFits ==
  ASSUME NEW completed \in 0..7, NEW failures \in Nat, NEW gap \in Int, NEW selected \in BOOLEAN
  PROVE  Fits(completed, failures, gap, selected)
<1> DEFINE worst == IF gap > -1 THEN gap ELSE -1
           missing == 100 - (completed * 100) \div 7
           raw == 2 * (IF gap < 0 THEN 0 ELSE gap) + missing + 40 * failures
<1>1. missing \in 0..100 /\ (completed * 100 >= 80 * 7 => missing <= 20)
  OBVIOUS
<1>2. /\ Scores!Thresholds.normal = 8 /\ Scores!Thresholds.suspect = 20 /\ Scores!Thresholds.failures = 2
  BY DEF Scores!Thresholds
<1>3. Verdict(completed, failures, gap, selected) =
        IF completed * 100 < 80 * 7 THEN "incomplete"
        ELSE IF selected /\ worst < 0 THEN "incomplete"
        ELSE IF failures >= 2 \/ worst > 20 THEN "highly_suspect"
        ELSE IF failures = 1 \/ worst > 8 THEN "suspect"
        ELSE "normal"
  BY <1>2 DEF Verdict, Scores!verdictForTarget
<1>4. Suspicion(completed, failures, gap) = IF raw > 200 THEN 200 ELSE raw
  BY DEF Suspicion, Scores!Suspicion2
<1> HIDE DEF missing
<1>5. ASSUME Verdict(completed, failures, gap, selected) = "normal"
      PROVE  failures = 0 /\ gap <= 8 /\ Suspicion(completed, failures, gap) < 40
  <2>1. ~(completed * 100 < 80 * 7) /\ ~(failures >= 2 \/ worst > 20) /\ ~(failures = 1 \/ worst > 8)
    BY <1>3, <1>5
  <2>2. failures = 0 /\ gap <= 8 /\ missing <= 20
    BY <1>1, <2>1
  <2>3. QED
    BY <1>1, <1>4, <2>2
<1>6. ASSUME Verdict(completed, failures, gap, selected) = "highly_suspect"
      PROVE  Suspicion(completed, failures, gap) >= 40
  <2>1. failures >= 2 \/ worst > 20
    BY <1>3, <1>6
  <2>2. QED
    BY <1>1, <1>4, <2>1
<1>7. QED
  BY <1>2, <1>5, <1>6 DEF Fits

(* Without a baseline more failures never give a better verdict.            *)
NoBetter(completed, few, many) ==
  Scores!Rank(Verdict(completed, many, -1, FALSE)) >= Scores!Rank(Verdict(completed, few, -1, FALSE))

LEMMA VerdictWorsens ==
  ASSUME NEW completed \in 0..7, NEW few \in Nat, NEW many \in Nat, few <= many
  PROVE  NoBetter(completed, few, many)
<1>1. Scores!Thresholds.failures = 2 /\ Scores!Thresholds.normal = 8 /\ Scores!Thresholds.suspect = 20
  BY DEF Scores!Thresholds
<1>2. \A n \in Nat : Verdict(completed, n, -1, FALSE) =
        IF completed * 100 < 80 * 7 THEN "incomplete"
        ELSE IF n >= 2 THEN "highly_suspect" ELSE IF n = 1 THEN "suspect" ELSE "normal"
  BY <1>1 DEF Verdict, Scores!verdictForTarget
<1>3. /\ Scores!Rank("normal") = 0 /\ Scores!Rank("suspect") = 1 /\ Scores!Rank("highly_suspect") = 2
      /\ Scores!Rank("incomplete") = 3
  BY DEF Scores!Rank
<1> DEFINE v == Verdict(completed, few, -1, FALSE)
           w == Verdict(completed, many, -1, FALSE)
<1>4. /\ v = IF completed * 100 < 80 * 7 THEN "incomplete"
               ELSE IF few >= 2 THEN "highly_suspect" ELSE IF few = 1 THEN "suspect" ELSE "normal"
      /\ w = IF completed * 100 < 80 * 7 THEN "incomplete"
               ELSE IF many >= 2 THEN "highly_suspect" ELSE IF many = 1 THEN "suspect" ELSE "normal"
  BY <1>2
<1> HIDE DEF v, w
<1>5. \/ v = w
      \/ v = "normal" /\ w \in {"suspect", "highly_suspect"}
      \/ v = "suspect" /\ w = "highly_suspect"
  BY <1>4
<1>6. Scores!Rank(w) >= Scores!Rank(v)
  <2>1. v \in {"normal", "suspect", "highly_suspect", "incomplete"}
    BY <1>4
  <2>2. Scores!Rank(v) \in Nat
    BY <1>3, <2>1
  <2>3. CASE v = w
    <3>1. Scores!Rank(w) = Scores!Rank(v)
      BY <2>3
    <3>2. QED
      BY <2>2, <3>1
  <2>4. CASE v = "normal" /\ w \in {"suspect", "highly_suspect"}
    BY <1>3, <2>4
  <2>5. CASE v = "suspect" /\ w = "highly_suspect"
    BY <1>3, <2>5
  <2>6. QED
    BY <1>5, <2>3, <2>4, <2>5
<1>7. QED
  BY <1>6 DEF v, w, NoBetter

(* The results of a whole suite, by case.                                   *)
Whole(rs) == rs \in Seq(Scores!Result) /\ Len(rs) = Len(CaseOrder)

LEMMA OrderIs ==
  /\ DOMAIN CaseOrder = 1..Len(CaseOrder) /\ Len(CaseOrder) \in Nat
  /\ Scores!SuiteCases = {CaseOrder[i] : i \in DOMAIN CaseOrder}
  /\ \A i, j \in DOMAIN CaseOrder : CaseOrder[i] = CaseOrder[j] => i = j
BY ScoresAssumption DEF Scores!ScoreAssumption

LEMMA ByCaseIs ==
  ASSUME NEW rs, Whole(rs)
  PROVE  /\ \A i \in DOMAIN CaseOrder : Scores!ByCase(rs)[CaseOrder[i]] = rs[i]
         /\ Scores!ByCase(rs) \in [Scores!SuiteCases -> Scores!Result]
<1> DEFINE At(c) == CHOOSE i \in DOMAIN CaseOrder : CaseOrder[i] = c
<1>1. ASSUME NEW c \in Scores!SuiteCases
      PROVE  At(c) \in DOMAIN CaseOrder /\ CaseOrder[At(c)] = c
  <2>1. \E i \in DOMAIN CaseOrder : CaseOrder[i] = c
    BY OrderIs
  <2>2. QED
    BY <2>1, Zenon
<1>2. Scores!ByCase(rs) = [c \in Scores!SuiteCases |-> rs[At(c)]]
  BY DEF Scores!ByCase
<1> HIDE DEF At
<1>3. ASSUME NEW i \in DOMAIN CaseOrder
      PROVE  Scores!ByCase(rs)[CaseOrder[i]] = rs[i]
  <2>1. CaseOrder[i] \in Scores!SuiteCases
    BY OrderIs
  <2>2. At(CaseOrder[i]) = i
    BY <1>1, <2>1, OrderIs
  <2>3. QED
    BY <1>2, <2>1, <2>2
<1>4. ASSUME NEW c \in Scores!SuiteCases
      PROVE  rs[At(c)] \in Scores!Result
  BY <1>1, <1>4, OrderIs DEF Whole
<1>5. QED
  BY <1>2, <1>3, <1>4

(* The counts a verdict is made of.                                         *)
LEMMA CountsAre ==
  ASSUME NEW of \in [Scores!SuiteCases -> Scores!Result]
  PROVE  /\ Scores!Completed(of) \in 0..7
         /\ Scores!Failures(of, Scores!CriticalCases) \in Nat
         /\ Scores!Failures(of, Scores!CriticalCases) = 0 =>
              \A c \in Scores!CriticalCases : of[c].score = 100
<1> DEFINE C == {c \in DOMAIN of : of[c].completed}
           F == {c \in Scores!CriticalCases : of[c].score < 100}
<1>1. C \subseteq Scores!SuiteCases /\ F \subseteq Scores!SuiteCases
  BY DEF Scores!CriticalCases
<1>2. Scores!Completed(of) = Cardinality(C) /\ Scores!Failures(of, Scores!CriticalCases) = Cardinality(F)
  BY SuiteFinite DEF Scores!Completed, Scores!Failures
<1> HIDE DEF C, F
<1>3. IsFiniteSet(C) /\ Cardinality(C) <= 7 /\ IsFiniteSet(F) /\ Cardinality(C) \in Nat /\ Cardinality(F) \in Nat
  BY <1>1, SuiteFinite, FS_Subset, FS_CardinalityType
<1>4. ASSUME Cardinality(F) = 0, NEW c \in Scores!CriticalCases
      PROVE  of[c].score = 100
  <2>1. F = {}
    BY <1>3, <1>4, FS_EmptySet
  <2>2. c \in Scores!SuiteCases
    BY DEF Scores!CriticalCases
  <2>3. of[c].score \in 0..100
    BY <2>2 DEF Scores!Result
  <2>4. ~(of[c].score < 100)
    BY <2>1 DEF F
  <2>5. QED
    BY <2>3, <2>4
<1>5. QED
  BY <1>2, <1>3, <1>4

LEMMA JudgedIs ==
  ASSUME NEW rs, Whole(rs), NEW base \in Baselines
  PROVE  LET of == Scores!ByCase(rs)
             completed == Scores!Completed(of)
             failures == Scores!Failures(of, Scores!CriticalCases)
             j == Scores!Judged(rs, base)
         IN  /\ j.gap \in Int /\ (base = << >> => j.gap = -1)
             /\ j.verdict = Verdict(completed, failures, j.gap, base # << >>)
             /\ j.suspicion = Suspicion(completed, failures, j.gap)
<1> DEFINE of == Scores!ByCase(rs)
           mean == [d \in Scores!Dimensions |-> Scores!Mean(1, of, d)]
           gap == Scores!Gap(mean, base)
           total == Scores!Cardinality(Scores!SuiteCases)
           completed == Scores!Completed(of)
           failures == Scores!Failures(of, Scores!CriticalCases)
           j == Scores!Judged(rs, base)
<1>1. total = 7
  BY SuiteFinite
<1>2. of \in [Scores!SuiteCases -> Scores!Result]
  BY ByCaseIs
<1>3. \A c \in Scores!SuiteCases : of[c].score \in Int
  BY <1>2 DEF Scores!Result
<1> HIDE DEF of
<1>4. \A d \in Scores!Dimensions : mean[d] \in Int
  BY <1>3, MeanIsNumber
<1>5. \A d \in DOMAIN base : base[d] \in Int
  BY ScoresAssumption DEF Scores!ScoreAssumption
<1>6. j = [verdict |-> Scores!verdictForTarget(completed, total, failures, gap, -1, base # << >>, Scores!Thresholds),
           suspicion |-> Scores!Suspicion2(completed, total, failures, gap),
           gap |-> gap, failures |-> failures]
  BY DEF Scores!Judged, of
<1> HIDE DEF mean
<1>7. gap \in Int
  BY <1>4, <1>5, GapIsNumber
<1>8. base = << >> => gap = -1
  BY NoBaselineNoGap
<1> HIDE DEF gap, total, completed, failures, j
<1>9. /\ j.gap = gap
      /\ j.verdict = Scores!verdictForTarget(completed, 7, failures, gap, -1, base # << >>, Scores!Thresholds)
      /\ j.suspicion = Scores!Suspicion2(completed, 7, failures, gap)
  BY <1>1, <1>6
<1>10. /\ j.gap \in Int /\ (base = << >> => j.gap = -1)
       /\ j.verdict = Verdict(completed, failures, j.gap, base # << >>)
       /\ j.suspicion = Suspicion(completed, failures, j.gap)
  BY <1>7, <1>8, <1>9 DEF Verdict, Suspicion
<1>11. QED
  BY <1>10 DEF of, completed, failures, j

(* An answer that is worth nothing instead: as many completed cases, and no *)
(* fewer failures.                                                          *)
LEMMA WorseCounts ==
  ASSUME NEW rs, Whole(rs), NEW i \in DOMAIN rs
  PROVE  LET of == Scores!ByCase(rs)
             worse == Scores!ByCase([rs EXCEPT ![i].score = 0])
         IN  /\ Whole([rs EXCEPT ![i].score = 0])
             /\ Scores!Completed(worse) = Scores!Completed(of)
             /\ Scores!Failures(of, Scores!CriticalCases) <= Scores!Failures(worse, Scores!CriticalCases)
<1> DEFINE qs == [rs EXCEPT ![i].score = 0]
           of == Scores!ByCase(rs)
           worse == Scores!ByCase(qs)
<1>1. /\ rs \in Seq(Scores!Result) /\ Len(rs) = Len(CaseOrder) /\ DOMAIN rs = DOMAIN CaseOrder
      /\ \A k \in DOMAIN rs : rs[k] \in Scores!Result
  BY OrderIs DEF Whole
<1>2. [rs[i] EXCEPT !.score = 0] \in Scores!Result
  <2>1. rs[i] \in Scores!Result /\ 0 \in 0..100
    BY <1>1
  <2>2. QED
    BY <2>1 DEF Scores!Result
<1>3. qs \in Seq(Scores!Result) /\ Len(qs) = Len(rs)
  <2> DEFINE x == [rs[i] EXCEPT !.score = 0]
  <2>1. qs = [rs EXCEPT ![i] = x]
    OBVIOUS
  <2>2. x \in Scores!Result
    BY <1>2
  <2> HIDE DEF x
  <2>3. QED
    BY <1>1, <2>1, <2>2
<1>4. Whole(qs)
  BY <1>1, <1>3 DEF Whole
<1>5. ASSUME NEW k \in DOMAIN rs
      PROVE  qs[k].completed = rs[k].completed /\ qs[k].score \in {0, rs[k].score}
  <2>1. rs[k] \in Scores!Result
    BY <1>1
  <2>2. CASE k = i
    <3>1. qs[k] = [rs[k] EXCEPT !.score = 0]
      BY <2>2
    <3>2. QED
      BY <2>1, <3>1 DEF Scores!Result
  <2>3. CASE k # i
    BY <2>3
  <2>4. QED
    BY <2>2, <2>3
<1> HIDE DEF qs
<1>6. of \in [Scores!SuiteCases -> Scores!Result] /\ worse \in [Scores!SuiteCases -> Scores!Result]
  BY <1>4, ByCaseIs
<1>7. ASSUME NEW c \in Scores!SuiteCases
      PROVE  worse[c].completed = of[c].completed /\ worse[c].score \in {0, of[c].score}
  <2>1. PICK k \in DOMAIN CaseOrder : CaseOrder[k] = c
    BY OrderIs
  <2>2. of[c] = rs[k] /\ worse[c] = qs[k]
    BY <1>4, <2>1, ByCaseIs
  <2> HIDE DEF of, worse
  <2>3. QED
    BY <1>1, <1>5, <2>1, <2>2
<1> HIDE DEF of, worse
<1>8. Scores!Completed(worse) = Scores!Completed(of)
  <2>1. {c \in DOMAIN worse : worse[c].completed} = {c \in DOMAIN of : of[c].completed}
    BY <1>6, <1>7
  <2>2. QED
    BY <2>1 DEF Scores!Completed
<1>9. Scores!Failures(of, Scores!CriticalCases) <= Scores!Failures(worse, Scores!CriticalCases)
  <2> DEFINE F == {c \in Scores!CriticalCases : of[c].score < 100}
             G == {c \in Scores!CriticalCases : worse[c].score < 100}
  <2>1. F \subseteq G
    <3>1. ASSUME NEW c \in F PROVE c \in G
      <4>1. c \in Scores!CriticalCases /\ c \in Scores!SuiteCases /\ of[c].score < 100
        BY DEF Scores!CriticalCases
      <4>2. worse[c].score = 0 \/ worse[c].score = of[c].score
        BY <1>7, <4>1
      <4>3. QED
        BY <4>1, <4>2
    <3>2. QED
      BY <3>1
  <2>2. G \subseteq Scores!SuiteCases
    BY DEF Scores!CriticalCases
  <2>3. /\ Scores!Failures(of, Scores!CriticalCases) = Cardinality(F)
        /\ Scores!Failures(worse, Scores!CriticalCases) = Cardinality(G)
    BY SuiteFinite DEF Scores!Failures
  <2> HIDE DEF F, G
  <2>4. QED
    BY <2>1, <2>2, <2>3, SuiteFinite, FS_Subset
<1>10. QED
  BY <1>4, <1>8, <1>9 DEF of, worse, qs

LEMMA ScoresSound == Scores!ScoreTypeOK => Scores!VerdictSound
<1> SUFFICES ASSUME Scores!ScoreTypeOK, Len(results) = Len(CaseOrder)
             PROVE  Scores!VerdictSound
  BY DEF Scores!VerdictSound
<1> DEFINE of == Scores!ByCase(results)
           completed == Scores!Completed(of)
           failures == Scores!Failures(of, Scores!CriticalCases)
           j == Scores!Judged(results, baseline)
           w(i) == Scores!Judged([results EXCEPT ![i].score = 0], baseline)
<1>1. Whole(results) /\ baseline \in Baselines /\ DOMAIN results = DOMAIN CaseOrder
  BY OrderIs DEF Scores!ScoreTypeOK, Whole
<1>2. completed \in 0..7 /\ failures \in Nat
      /\ (failures = 0 => \A c \in Scores!CriticalCases : of[c].score = 100)
  BY <1>1, ByCaseIs, CountsAre
<1>3. /\ j.gap \in Int /\ (baseline = << >> => j.gap = -1)
      /\ j.verdict = Verdict(completed, failures, j.gap, baseline # << >>)
      /\ j.suspicion = Suspicion(completed, failures, j.gap)
  BY <1>1, JudgedIs
<1>4. ASSUME failures = 0, NEW i \in DOMAIN CaseOrder, Scores!Suite[CaseOrder[i]].critical
      PROVE  results[i].score = 100
  <2>1. CaseOrder[i] \in Scores!CriticalCases
    BY <1>4, OrderIs DEF Scores!CriticalCases
  <2>2. of[CaseOrder[i]] = results[i]
    BY <1>1, ByCaseIs
  <2> HIDE DEF of, failures
  <2>3. QED
    BY <1>2, <1>4, <2>1, <2>2
<1>5. ASSUME baseline = << >>, NEW i \in DOMAIN results
      PROVE  Scores!Rank(w(i).verdict) >= Scores!Rank(j.verdict)
  <2> DEFINE qs == [results EXCEPT ![i].score = 0]
             worse == Scores!ByCase(qs)
             more == Scores!Failures(worse, Scores!CriticalCases)
  <2>1. Whole(qs) /\ Scores!Completed(worse) = completed /\ failures <= more
    BY <1>1, WorseCounts
  <2>2. more \in Nat
    <3>1. worse \in [Scores!SuiteCases -> Scores!Result]
      BY <2>1, ByCaseIs
    <3> HIDE DEF worse
    <3>2. QED
      BY <3>1, CountsAre
  <2>3. w(i).gap = -1 /\ w(i).verdict = Verdict(completed, more, w(i).gap, FALSE)
    <3> HIDE DEF qs
    <3>1. /\ Scores!Judged(qs, baseline).gap = -1
          /\ Scores!Judged(qs, baseline).verdict =
               Verdict(Scores!Completed(worse), more, Scores!Judged(qs, baseline).gap, baseline # << >>)
      BY <1>1, <1>5, <2>1, JudgedIs
    <3>2. Scores!Judged(qs, baseline) = w(i)
      BY DEF qs
    <3>3. (baseline # << >>) = FALSE
      BY <1>5
    <3> HIDE DEF w, worse, more, completed
    <3>4. QED
      BY <2>1, <3>1, <3>2, <3>3
  <2>4. j.verdict = Verdict(completed, failures, -1, FALSE)
    <3>1. (baseline # << >>) = FALSE
      BY <1>5
    <3> HIDE DEF j, completed, failures
    <3>2. QED
      BY <1>3, <1>5, <3>1
  <2>5. w(i).verdict = Verdict(completed, more, -1, FALSE)
    <3> HIDE DEF w, completed, more
    <3>1. QED
      BY <2>3
  <2> HIDE DEF w, j, completed, failures, more
  <2>6. completed \in 0..7 /\ failures \in Nat /\ failures <= more
    BY <1>2, <2>1
  <2>7. NoBetter(completed, failures, more)
    BY ONLY <2>2, <2>6, VerdictWorsens, Zenon
  <2>8. QED
    BY <2>4, <2>5, <2>7, Zenon DEF NoBetter
<1> DEFINE selected == baseline # << >>
<1>6. selected \in BOOLEAN
  OBVIOUS
<1>7. j.verdict = Verdict(completed, failures, j.gap, selected)
  BY <1>3, Zenon
<1> HIDE DEF completed, failures, selected, j
<1>8. Fits(completed, failures, j.gap, selected)
  <2>1. completed \in 0..7 /\ failures \in Nat /\ j.gap \in Int
    BY <1>2, <1>3
  <2>2. QED
    BY ONLY <1>6, <2>1, VerdictFits, Zenon
<1>9. /\ j.verdict = "normal" =>
           failures = 0 /\ j.gap <= Scores!Thresholds.normal /\ j.suspicion < 40
      /\ j.verdict = "highly_suspect" => j.suspicion >= 40
  BY <1>3, <1>7, <1>8, Zenon DEF Fits
<1> USE DEF j
<1>10. QED
  BY <1>1, <1>4, <1>5, <1>9 DEF Scores!VerdictSound

LEMMA ScoresInitially == Scores!ScoreInit \/ ScoresAtRest => Scores!ScoreTypeOK
<1>1. << >> \in Baselines
  BY ScoresAssumption DEF Scores!ScoreAssumption
<1>2. << >> \in Seq(Scores!Result) /\ Len(<< >>) <= Len(CaseOrder)
  BY OrderIs
<1>3. QED
  BY <1>1, <1>2 DEF Scores!ScoreInit, ScoresAtRest, Scores!ScoreTypeOK

(* What a scorer gives for an answer is a result.                           *)
LEMMA ScoresAreResults ==
  ASSUME NEW c \in Scores!SuiteCases, NEW reply \in Scores!Replies
  PROVE  Scores!executeCase(c, reply) \in Scores!Result
<1>1. Scores!NotCompleted \in Scores!Result /\ \A n \in 0..100 : Scores!Scored(n) \in Scores!Result
  BY DEF Scores!NotCompleted, Scores!Scored, Scores!Result
<1>2. Scores!exactTextScorer(reply) \in Scores!Result
  BY <1>1 DEF Scores!exactTextScorer
<1>3. Scores!judgeScorer(reply) \in Scores!Result
  <2>1. reply.judge \in {-1, 0, 60, 95, 120}
    BY DEF Scores!Replies, Scores!Reply
  <2>2. Scores!Clamp(reply.judge) \in 0..100
    BY <2>1 DEF Scores!Clamp
  <2>3. QED
    BY <1>1, <2>2 DEF Scores!judgeScorer
<1>4. Scores!jsonScorer(reply) \in Scores!Result
  BY <1>1 DEF Scores!jsonScorer
<1>5. Scores!toolCallScorer(reply) \in Scores!Result
  BY <1>1 DEF Scores!toolCallScorer
<1>6. Scores!streamScorer(reply) \in Scores!Result
  BY <1>1 DEF Scores!streamScorer
<1>7. Scores!Suite[c].kind \in {"exact", "judge", "json", "tool", "stream"}
  BY SuiteIs DEF Scores!Suite
<1>8. QED
  BY <1>1, <1>2, <1>3, <1>4, <1>5, <1>6, <1>7 DEF Scores!executeCase

LEMMA ScoresTypedKept ==
  ASSUME Scores!ScoreTypeOK, Scores!ScoreNext \/ UNCHANGED atScores
  PROVE  Scores!ScoreTypeOK'
<1>1. CASE UNCHANGED atScores
  BY <1>1 DEF atScores, Scores!ScoreTypeOK
<1>2. CASE Scores!ScoreNext
  <2>1. PICK reply \in Scores!Replies :
          results' = Append(results, Scores!executeCase(CaseOrder[Len(results) + 1], reply))
    BY <1>2 DEF Scores!ScoreNext
  <2> DEFINE x == Scores!executeCase(CaseOrder[Len(results) + 1], reply)
  <2>2. Len(results) + 1 \in DOMAIN CaseOrder /\ results \in Seq(Scores!Result)
    BY <1>2, OrderIs DEF Scores!ScoreNext, Scores!ScoreTypeOK
  <2>3. x \in Scores!Result
    BY <2>2, OrderIs, ScoresAreResults
  <2>4. results' = Append(results, x) /\ Len(results) < Len(CaseOrder) /\ baseline' = baseline
    BY <1>2, <2>1 DEF Scores!ScoreNext
  <2> HIDE DEF x
  <2>5. QED
    BY <2>2, <2>3, <2>4, OrderIs DEF Scores!ScoreTypeOK
<1>3. QED
  BY <1>1, <1>2

(***************************************************************************)
(* All of them side by side.                                               *)
(***************************************************************************)

OperationsInv == BenchInv /\ SuperviseInv /\ Live!CatalogTypeOK /\ UpdaterInv /\ Scores!ScoreTypeOK

LEMMA OperationsInitially == MCInit => OperationsInv
BY BenchInitially, SuperviseInitially, PricesInitially, UpdaterInitially, ScoresInitially DEF MCInit, OperationsInv

LEMMA OperationsInvKept ==
  ASSUME OperationsInv, MCNext \/ UNCHANGED <<part, benchVars, atAigw, atPrices, atUpdater, atScores>>
  PROVE  OperationsInv'
<1>1. BenchInv /\ SuperviseInv /\ Live!CatalogTypeOK /\ UpdaterInv /\ Scores!ScoreTypeOK
  BY DEF OperationsInv
<1>2. BenchNext \/ UNCHANGED benchVars
  BY DEF MCNext
<1>3. Aigw!SuperviseNext \/ UNCHANGED atAigw
  BY DEF MCNext
<1>4. Live!CatalogNext \/ UNCHANGED atPrices
  BY DEF MCNext
<1>5. BenchInv'
  BY <1>1, <1>2, BenchInvKept
<1>6. SuperviseInv'
  BY <1>1, <1>3, SuperviseInvKept
<1>7. Live!CatalogTypeOK'
  BY <1>1, <1>4, PricesTypedKept
<1>8. Update!UpdaterNext \/ UNCHANGED atUpdater
  BY DEF MCNext
<1>9. UpdaterInv'
  BY <1>1, <1>8, UpdaterInvKept
<1>10. Scores!ScoreNext \/ UNCHANGED atScores
  BY DEF MCNext
<1>11. Scores!ScoreTypeOK'
  BY <1>1, <1>10, ScoresTypedKept
<1>12. QED
  BY <1>5, <1>6, <1>7, <1>9, <1>11 DEF OperationsInv

LEMMA OperationsAlways == MCSpec => []OperationsInv
<1>1. MCInit => OperationsInv
  BY OperationsInitially
<1>2. OperationsInv /\ [MCNext]_<<part, benchVars, atAigw, atPrices, atUpdater, atScores>> => OperationsInv'
  BY OperationsInvKept
<1>3. QED
  BY <1>1, <1>2, PTL DEF MCSpec

(* The benchmark service never has more runs than slots, the supervisor is  *)
(* in one of its states with a daemon to each channel, the price list and   *)
(* its cache file hold a price, a source's or the built-in one, or none for *)
(* every model, whoever refreshed, updated or died between two writes, and  *)
(* every file of an installation and of its backups is the old one, the new *)
(* one, a torn one or none, each call of the updater at one of its files;   *)
(* a case's score is a percentage.                                          *)
THEOREM OperationsTypes == MCSpec => []TypesOK
<1>1. OperationsInv => TypesOK
  BY BenchInvSound, UpdaterInvSound DEF OperationsInv, SuperviseInv, TypesOK
<1>2. QED
  BY <1>1, OperationsAlways, PTL

(* Every slot belongs to a run that executes; a run stored as running       *)
(* executes or its last write was lost, one stored as completed has every   *)
(* target completed, and the count of its finished targets is right; and    *)
(* when aigw returns, every daemon it started has exited or has been sent a *)
(* SIGKILL.                                                                 *)
THEOREM OperationsAccounted == MCSpec => []Accounted
<1>1. OperationsInv => Accounted
  BY BenchInvSound DEF OperationsInv, SuperviseInv, Accounted
<1>2. QED
  BY <1>1, OperationsAlways, PTL

(* A call of ApplyBundle or Rollback that no other call ran beside: one     *)
(* that says it applied the bundle has made every file the new one, one     *)
(* that says it restored the old files has put back each that there was,    *)
(* and one that says it rolled back leaves each file as its backup has it.  *)
(* From before an apply overwrites the first file the backup under its own  *)
(* stamp holds all that was installed, so that a process that dies there    *)
(* leaves what a rollback needs.                                            *)
THEOREM UpdatesAreSafe == MCSpec => []UpdateSafe
<1>1. OperationsInv => UpdateSafe
  BY UpdaterInvSound DEF OperationsInv, UpdateSafe
<1>2. QED
  BY <1>1, OperationsAlways, PTL

(* Whatever a target answered and whatever baseline it is held against, it  *)
(* is called normal only if no critical case fell short and it is near the  *)
(* baseline, and its suspicion is then lower than that of any target which  *)
(* is called highly suspect; and without a baseline an answer that is worth *)
(* nothing instead never gives a better verdict (executeTarget,             *)
(* compareAgainstBaseline, verdictForTarget).                               *)
THEOREM VerdictsAreSound == MCSpec => []VerdictSound
<1>1. OperationsInv => VerdictSound
  BY ScoresSound DEF OperationsInv, VerdictSound
<1>2. QED
  BY <1>1, OperationsAlways, PTL

(* A recursion over 1..N with its values in S is one some function solves.  *)
Solvable(S, N, base, next) ==
  \E f \in [0..N -> S] : f[0] = base /\ \A n \in 1..N : f[n] = next[<<f[n - 1], n>>]

LEMMA Recursion ==
  ASSUME NEW S, NEW N \in Nat, NEW base \in S, NEW next \in [S \X (1..N) -> S]
  PROVE  Solvable(S, N, base, next)
<1> DEFINE Solves(f, m) == f[0] = base /\ \A n \in 1..m : f[n] = next[<<f[n - 1], n>>]
           T == {m \in 0..N : \E f \in [0..m -> S] : Solves(f, m)}
<1>1. 0 \in T
  <2> DEFINE f == [n \in 0..0 |-> base]
  <2>1. f \in [0..0 -> S] /\ Solves(f, 0)
    OBVIOUS
  <2> HIDE DEF f
  <2>2. QED
    BY <2>1
<1>2. ASSUME NEW n \in 1..N, n - 1 \in T
      PROVE  n \in T
  <2>1. PICK f \in [0..(n - 1) -> S] : Solves(f, n - 1)
    BY <1>2
  <2> DEFINE last == next[<<f[n - 1], n>>]
             g == [m \in 0..n |-> IF m = n THEN last ELSE f[m]]
  <2>2. last \in S
    <3>1. f[n - 1] \in S
      OBVIOUS
    <3>2. QED
      BY <3>1
  <2> HIDE DEF last
  <2>3. g \in [0..n -> S]
    BY <2>2
  <2>4. g[0] = base
    BY <2>1
  <2>5. ASSUME NEW m \in 1..n
        PROVE  g[m] = next[<<g[m - 1], m>>]
    <3>1. CASE m = n
      <4>1. g[m] = last /\ g[m - 1] = f[n - 1]
        BY <3>1
      <4>2. QED
        BY <3>1, <4>1 DEF last
    <3>2. CASE m # n
      <4>1. m \in 1..(n - 1) /\ g[m] = f[m] /\ g[m - 1] = f[m - 1]
        BY <3>2
      <4>2. QED
        BY <2>1, <4>1
    <3>3. QED
      BY <3>1, <3>2
  <2> HIDE DEF g
  <2>6. QED
    BY <2>3, <2>4, <2>5
<1> HIDE DEF T
<1>3. \A n \in 0..N : n \in T
  BY ONLY N \in Nat, <1>1, <1>2, Induction, Zenon
<1>4. N \in T
  BY <1>3
<1>5. QED
  BY <1>4 DEF T, Solvable

(***************************************************************************)
(* FlattenSeq, of the community modules, is the last value of a recursion. *)
(***************************************************************************)

LEMMA ConcatEmpty ==
  ASSUME NEW S, NEW a \in Seq(S)
  PROVE  <<>> \o a = a /\ a \o <<>> = a
OBVIOUS

LEMMA ConcatIs ==
  ASSUME NEW S, NEW a \in Seq(S), NEW b \in Seq(S)
  PROVE  a \o b = [i \in 1..Len(a) + Len(b) |-> IF i <= Len(a) THEN a[i] ELSE b[i - Len(a)]]
<1> DEFINE l == a \o b
           m == Len(a)
           n == Len(b)
           r == [i \in 1..m + n |-> IF i <= m THEN a[i] ELSE b[i - m]]
<1>1. m \in Nat /\ n \in Nat /\ l \in Seq(S) /\ Len(l) = m + n
  OBVIOUS
<1>2. ASSUME NEW i \in 1..m + n
      PROVE  l[i] = IF i <= m THEN a[i] ELSE b[i - m]
  <2>1. CASE i <= m
    BY <2>1
  <2>2. CASE ~(i <= m)
    BY <2>2
  <2>3. QED
    BY <2>1, <2>2
<1> HIDE DEF l, m, n
<1>3. l = [i \in 1..m + n |-> l[i]]
  <2>1. l \in [1..m + n -> S]
    BY <1>1
  <2>2. QED
    BY <2>1
<1>4. l = r
  BY <1>2, <1>3
<1>5. QED
  BY <1>4 DEF l, m, n

Associates(a, b, c) == (a \o b) \o c = a \o (b \o c)
LEMMA ConcatThree ==
  ASSUME NEW S, NEW a \in Seq(S), NEW b \in Seq(S), NEW c \in Seq(S)
  PROVE  Associates(a, b, c)
<1> DEFINE l == (a \o b) \o c
           r == a \o (b \o c)
<1>1. Len(l) = Len(a) + Len(b) + Len(c) /\ Len(r) = Len(a) + Len(b) + Len(c) /\ l \in Seq(S) /\ r \in Seq(S)
  OBVIOUS
<1>2. ASSUME NEW i \in 1..Len(a) + Len(b) + Len(c)
      PROVE  l[i] = r[i]
  <2>1. CASE i <= Len(a)
    BY <2>1
  <2>2. CASE i > Len(a) /\ i <= Len(a) + Len(b)
    BY <2>2
  <2>3. CASE i > Len(a) + Len(b)
    BY <2>3
  <2>4. QED
    BY <2>1, <2>2, <2>3
<1> HIDE DEF l, r
<1>3. l = r
  BY <1>1, <1>2
<1>4. QED
  BY <1>3 DEF l, r, Associates

FlatSteps(p, f, N) == \A n \in 1..N : f[n] = f[n - 1] \o p[n]
FlatRun(p, f) == f[0] = <<>> /\ FlatSteps(p, f, Len(p))

(* Two runs that make the same steps are the same.                          *)
LEMMA FlatRunsAgree ==
  ASSUME NEW N \in Nat, NEW f, NEW g, NEW p, f[0] = g[0], FlatSteps(p, f, N), FlatSteps(p, g, N)
  PROVE  f[N] = g[N]
<1> DEFINE T == {n \in 0..N : f[n] = g[n]}
<1>1. 0 \in T
  OBVIOUS
<1>2. ASSUME NEW n \in 1..N, n - 1 \in T
      PROVE  n \in T
  <2>1. f[n - 1] = g[n - 1] /\ n \in 0..N
    BY <1>2
  <2>2. f[n] = f[n - 1] \o p[n] /\ g[n] = g[n - 1] \o p[n]
    BY DEF FlatSteps
  <2>3. QED
    BY <2>1, <2>2
<1> HIDE DEF T
<1>3. \A n \in 0..N : n \in T
  BY ONLY N \in Nat, <1>1, <1>2, Induction, Zenon
<1>4. N \in T
  BY <1>3
<1>5. QED
  BY <1>4 DEF T

LEMMA FlattenRuns ==
  ASSUME NEW S, NEW p \in Seq(Seq(S))
  PROVE  \E f \in [0..Len(p) -> Seq(S)] : FlatRun(p, f) /\ FlattenSeq(p) = f[Len(p)]
<1> DEFINE N == Len(p)
           Q == Seq(S)
           next == [a \in Q \X (1..N) |-> a[1] \o p[a[2]]]
<1>1. N \in Nat /\ <<>> \in Q /\ \A n \in 1..N : p[n] \in Q
  OBVIOUS
<1>2. \A a, b \in Q : a \o b \in Q
  OBVIOUS
<1> HIDE DEF Q, N
<1>3. next \in [Q \X (1..N) -> Q] /\ \A a \in Q, n \in 1..N : next[<<a, n>>] = a \o p[n]
  BY <1>1, <1>2
<1> HIDE DEF next
<1>4. PICK f \in [0..N -> Q] : f[0] = <<>> /\ \A n \in 1..N : f[n] = next[<<f[n - 1], n>>]
  <2> DEFINE base == <<>>
  <2>1. base \in Q
    BY <1>1
  <2> HIDE DEF base
  <2>2. Solvable(Q, N, base, next)
    BY ONLY <1>1, <1>3, <2>1, Recursion
  <2>3. QED
    BY ONLY <2>2, Zenon DEF base, Solvable
<1>5. ASSUME NEW n \in 1..N
      PROVE  n - 1 \in 0..N /\ f[n - 1] \in Q /\ f[n] = f[n - 1] \o p[n] /\ p[n] \in Q
  <2>1. n - 1 \in 0..N
    BY <1>1
  <2>2. QED
    BY <1>1, <1>3, <1>4, <2>1
<1>6. FlatRun(p, f)
  BY <1>4, <1>5 DEF FlatRun, FlatSteps, N
<1>7. CASE N = 0
  <2>1. FlattenSeq(p) = <<>>
    BY <1>7 DEF FlattenSeq, N
  <2>2. QED
    BY <1>4, <1>6, <1>7, <2>1 DEF N, Q
<1>8. CASE N # 0
  <2> DEFINE Solves(h) == h = [i \in 1..N |-> IF i = 1 THEN p[i] ELSE h[i - 1] \o p[i]]
             flat == CHOOSE h : Solves(h)
             g == [i \in 1..N |-> f[i]]
  <2>1. FlattenSeq(p) = flat[N]
    BY <1>8 DEF FlattenSeq, N
  <2>2. Solves(g)
    <3>1. ASSUME NEW i \in 1..N
          PROVE  g[i] = IF i = 1 THEN p[i] ELSE g[i - 1] \o p[i]
      <4>1. CASE i = 1
        <5>0. 1 - 1 = 0 /\ 1 \in 1..N
          BY <4>1
        <5>1. f[1] = f[0] \o p[1] /\ f[0] = <<>> /\ p[1] \in Q
          BY <1>4, <1>5, <5>0
        <5>2. f[1] = p[1]
          BY <5>1, ConcatEmpty DEF Q
        <5>3. QED
          BY <4>1, <5>2
      <4>2. CASE i # 1
        <5>1. i - 1 \in 1..N
          BY <1>1, <4>2
        <5>2. QED
          BY <1>5, <4>2, <5>1
      <4>3. QED
        BY <4>1, <4>2
    <3>2. QED
      BY <3>1
  <2> HIDE DEF Solves, g
  <2>3. Solves(flat)
    BY <2>2
  <2> HIDE DEF flat
  <2> DEFINE h == [i \in 0..N |-> IF i = 0 THEN <<>> ELSE flat[i]]
  <2>4. h[0] = f[0]
    BY <1>1, <1>4
  <2>5. ASSUME NEW n \in 1..N
        PROVE  h[n] = h[n - 1] \o p[n] /\ f[n] = f[n - 1] \o p[n]
    <3>1. flat[n] = IF n = 1 THEN p[n] ELSE flat[n - 1] \o p[n]
      BY <2>3 DEF Solves
    <3>2. h[n] = flat[n]
      BY <1>1
    <3>3. CASE n = 1
      <4>1. h[n - 1] = <<>> /\ p[n] \in Seq(S)
        BY <1>5, <1>1, <3>3 DEF Q
      <4>2. <<>> \o p[n] = p[n]
        BY <4>1, ConcatEmpty
      <4>3. QED
        BY <1>5, <3>1, <3>2, <3>3, <4>1, <4>2
    <3>4. CASE n # 1
      <4>1. n - 1 \in 1..N /\ n - 1 # 0 /\ n - 1 \in 0..N
        BY <1>1, <3>4
      <4>2. h[n - 1] = flat[n - 1]
        BY <4>1
      <4>3. QED
        BY <1>5, <3>1, <3>2, <3>4, <4>2
    <3>5. QED
      BY <3>3, <3>4
  <2> HIDE DEF h
  <2>6. h[N] = f[N]
    <3>1. FlatSteps(p, h, N) /\ FlatSteps(p, f, N)
      BY <2>5 DEF FlatSteps
    <3>2. QED
      BY ONLY <1>1, <2>4, <3>1, FlatRunsAgree, Zenon
  <2>7. h[N] = flat[N]
    BY <1>1, <1>8 DEF h
  <2>8. QED
    BY <1>6, <2>1, <2>6, <2>7 DEF N, Q
<1>9. QED
  BY <1>7, <1>8

LEMMA FlattenType ==
  ASSUME NEW S, NEW p \in Seq(Seq(S))
  PROVE  FlattenSeq(p) \in Seq(S)
<1>1. PICK f \in [0..Len(p) -> Seq(S)] : FlattenSeq(p) = f[Len(p)]
  BY FlattenRuns, Zenon
<1>2. Len(p) \in 0..Len(p)
  OBVIOUS
<1>3. QED
  BY <1>1, <1>2

LEMMA FlattenConcat ==
  ASSUME NEW S, NEW p \in Seq(Seq(S)), NEW q \in Seq(Seq(S))
  PROVE  FlattenSeq(p \o q) = FlattenSeq(p) \o FlattenSeq(q)
<1> DEFINE N == Len(p)
           M == Len(q)
           r == p \o q
<1>1. /\ N \in Nat /\ M \in Nat /\ r \in Seq(Seq(S)) /\ Len(r) = N + M
      /\ \A n \in 1..N : r[n] = p[n]
      /\ \A n \in 1..M : r[N + n] = q[n] /\ q[n] \in Seq(S)
  OBVIOUS
<1>2. PICK f \in [0..N -> Seq(S)] : FlatRun(p, f) /\ FlattenSeq(p) = f[N]
  BY FlattenRuns, Zenon
<1>3. PICK g \in [0..M -> Seq(S)] : FlatRun(q, g) /\ FlattenSeq(q) = g[M]
  BY FlattenRuns, Zenon
<1>4. PICK h \in [0..Len(r) -> Seq(S)] : FlatRun(r, h) /\ FlattenSeq(r) = h[Len(r)]
  BY <1>1, FlattenRuns, Zenon
<1> HIDE DEF r
<1>5. h[N] = f[N]
  <2>1. h[0] = f[0]
    BY <1>2, <1>4 DEF FlatRun
  <2>2. ASSUME NEW n \in 1..N
        PROVE  h[n] = h[n - 1] \o p[n] /\ f[n] = f[n - 1] \o p[n]
    <3>1. n \in 1..Len(r)
      BY <1>1
    <3>2. QED
      BY <1>1, <1>2, <1>4, <3>1 DEF FlatRun, FlatSteps
  <2>3. N \in Nat /\ FlatSteps(p, h, N) /\ FlatSteps(p, f, N)
    BY <1>1, <2>2 DEF FlatSteps
  <2> HIDE DEF N
  <2>4. QED
    BY ONLY <2>1, <2>3, FlatRunsAgree, Zenon
<1> DEFINE T == {n \in 0..M : h[N + n] = h[N] \o g[n]}
<1>6. 0 \in T
  <2>1. g[0] = <<>> /\ h[N] \in Seq(S) /\ N + 0 = N
    BY <1>1, <1>3, <1>4 DEF FlatRun
  <2>2. h[N] \o g[0] = h[N]
    BY <2>1
  <2>3. QED
    BY <1>1, <2>1, <2>2
<1>7. ASSUME NEW n \in 1..M, n - 1 \in T
      PROVE  n \in T
  <2>1. N + n \in 1..Len(r) /\ (N + n) - 1 = N + (n - 1) /\ n - 1 \in 0..M /\ N \in 0..Len(r)
    BY <1>1
  <2>2. h[N + n] = h[N + (n - 1)] \o r[N + n]
    BY <1>4, <2>1 DEF FlatRun, FlatSteps
  <2>3. g[n] = g[n - 1] \o q[n]
    BY <1>3 DEF FlatRun, FlatSteps
  <2>4. h[N] \in Seq(S) /\ g[n - 1] \in Seq(S) /\ q[n] \in Seq(S)
    BY <1>1, <1>3, <1>4, <2>1
  <2>5. (h[N] \o g[n - 1]) \o q[n] = h[N] \o (g[n - 1] \o q[n])
    <3> DEFINE a == h[N]
               b == g[n - 1]
               c == q[n]
    <3>1. a \in Seq(S) /\ b \in Seq(S) /\ c \in Seq(S)
      BY <2>4
    <3> HIDE DEF a, b, c
    <3>2. Associates(a, b, c)
      BY ONLY <3>1, ConcatThree, Zenon
    <3>3. QED
      BY <3>2 DEF a, b, c, Associates
  <2>6. h[N + (n - 1)] = h[N] \o g[n - 1]
    BY <1>7
  <2>7. r[N + n] = q[n] /\ n \in 0..M
    <3> HIDE DEF N, M, r
    <3>1. r[N + n] = q[n]
      BY ONLY <1>1, n \in 1..M, Zenon
    <3>2. n \in 0..M
      BY ONLY <1>1, n \in 1..M, SMT
    <3>3. QED
      BY <3>1, <3>2
  <2>8. QED
    BY <2>2, <2>3, <2>5, <2>6, <2>7
<1> HIDE DEF T
<1>8. \A n \in 0..M : n \in T
  BY ONLY <1>1, <1>6, <1>7, Induction, Zenon
<1>9. M \in T
  BY <1>1, <1>8
<1>10. QED
  BY <1>1, <1>2, <1>3, <1>4, <1>5, <1>9 DEF T, r

(* Of parts of which one at most is not empty, that one is left.            *)
LEMMA FlattenOne ==
  ASSUME NEW S, NEW p \in Seq(Seq(S)), NEW k \in 1..Len(p), \A n \in 1..Len(p) : n # k => p[n] = <<>>
  PROVE  FlattenSeq(p) = p[k]
<1> DEFINE N == Len(p)
<1>1. N \in Nat /\ p[k] \in Seq(S)
  OBVIOUS
<1>2. PICK f \in [0..N -> Seq(S)] : FlatRun(p, f) /\ FlattenSeq(p) = f[N]
  BY FlattenRuns, Zenon
<1> HIDE DEF N
<1> DEFINE T == {n \in 0..N : f[n] = IF n < k THEN <<>> ELSE p[k]}
<1>3. 0 \in T
  BY <1>1, <1>2 DEF FlatRun, N
<1>4. ASSUME NEW n \in 1..N, n - 1 \in T
      PROVE  n \in T
  <2>1. f[n] = f[n - 1] \o p[n] /\ n - 1 \in 0..N /\ n \in 0..N
    <3>1. n - 1 \in 0..N /\ n \in 0..N
      BY <1>1
    <3>2. QED
      BY <1>2, <3>1 DEF FlatRun, FlatSteps, N
  <2>2. f[n - 1] = IF n - 1 < k THEN <<>> ELSE p[k]
    BY <1>4
  <2>3. CASE n < k
    <3>1. p[n] = <<>> /\ n - 1 < k
      BY <2>3 DEF N
    <3>2. f[n] = <<>> \o <<>>
      BY <2>1, <2>2, <3>1
    <3>3. QED
      BY <2>1, <2>3, <3>2
  <2>4. CASE n = k
    <3>1. n - 1 < k /\ ~(n < k)
      BY <2>4
    <3>2. f[n] = <<>> \o p[k]
      BY <2>1, <2>2, <2>4, <3>1
    <3>3. QED
      BY <1>1, <2>1, <3>1, <3>2
  <2>5. CASE n > k
    <3>1. p[n] = <<>> /\ ~(n - 1 < k) /\ ~(n < k)
      BY <2>5 DEF N
    <3>2. f[n] = p[k] \o <<>>
      BY <2>1, <2>2, <3>1
    <3>3. QED
      BY <1>1, <2>1, <3>1, <3>2
  <2>6. QED
    BY <2>3, <2>4, <2>5 DEF N
<1> HIDE DEF T
<1>5. \A n \in 0..N : n \in T
  BY ONLY <1>1, <1>3, <1>4, Induction, Zenon
<1>6. N \in T
  BY <1>1, <1>5
<1>7. ~(N < k)
  BY <1>1 DEF N
<1>8. QED
  BY <1>2, <1>6, <1>7 DEF T

LEMMA FlattenNone ==
  ASSUME NEW S, NEW p \in Seq(Seq(S)), \A n \in 1..Len(p) : p[n] = <<>>
  PROVE  FlattenSeq(p) = <<>>
<1>1. CASE Len(p) = 0
  BY <1>1 DEF FlattenSeq
<1>2. CASE Len(p) # 0
  <2>1. 1 \in 1..Len(p)
    BY <1>2
  <2>2. QED
    BY <2>1, FlattenOne
<1>3. QED
  BY <1>1, <1>2

(***************************************************************************)
(* Sums over sets.                                                         *)
(***************************************************************************)
SumOf(S, v) == SumFunctionOnSet(v, S)
Solved(g, v, S) == \A s \in SUBSET S : g[s] = Grown(g, v, s)

LEMMA SumOfIsLast ==
  ASSUME NEW v, NEW S, IsFiniteSet(S)
  PROVE  SumOf(S, v) = Partial(v, S)[S] /\ Solved(Partial(v, S), v, S)
<1>1. SumOf(S, v) = Partial(v, S)[S]
  BY DEF SumOf, SumFunctionOnSet, FoldFunctionOnSet, MapThenFoldSet, Partial, IsPartial, Grown, Chosen
<1>2. IsPartial(Partial(v, S), v, S)
  BY PartialSolves, Zenon
<1> DEFINE g == Partial(v, S)
<1>3. g = [s \in SUBSET S |-> Grown(g, v, s)]
  BY <1>2 DEF IsPartial
<1> HIDE DEF g
<1>4. \A s \in SUBSET S : g[s] = Grown(g, v, s)
  BY <1>3
<1>5. QED
  BY <1>1, <1>4 DEF Solved, g

(* Induction over a finite set: what is to be proved of each is a set of sets. *)
LEMMA SetInduction ==
  ASSUME NEW S, IsFiniteSet(S), NEW K, {} \in K,
         \A A \in SUBSET S : \A x \in S \ A : A \in K => A \cup {x} \in K
  PROVE  S \in K
<1> DEFINE N == Cardinality(S)
           T == {n \in 0..N : \A A \in SUBSET S : Cardinality(A) = n => A \in K}
<1>1. N \in Nat /\ \A A \in SUBSET S : IsFiniteSet(A) /\ Cardinality(A) \in 0..N
  BY FS_CardinalityType, FS_Subset
<1>2. \A A \in SUBSET S : Cardinality(A) = 0 => A = {}
  BY <1>1, FS_EmptySet
<1>3. 0 \in T
  <2>1. \A A \in SUBSET S : Cardinality(A) = 0 => A \in K
    BY ONLY <1>2, {} \in K, Zenon
  <2>2. 0 \in 0..N
    BY ONLY <1>1, SMT
  <2>3. QED
    BY ONLY <2>1, <2>2, Zenon DEF T
<1>4. ASSUME NEW n \in 1..N, n - 1 \in T
      PROVE  n \in T
  <2>1. ASSUME NEW A \in SUBSET S, Cardinality(A) = n
        PROVE  A \in K
    <3>1. A # {}
      BY <2>1, FS_EmptySet
    <3>2. PICK x \in A : TRUE
      BY <3>1
    <3> DEFINE B == A \ {x}
    <3>3. B \in SUBSET S /\ x \in S \ B /\ A = B \cup {x}
      BY <3>2
    <3>4. Cardinality(B) = n - 1
      BY <1>1, <2>1, <3>2, FS_RemoveElement
    <3>5. B \in K
      BY <1>4, <3>3, <3>4
    <3> HIDE DEF B
    <3>6. QED
      BY <3>3, <3>5
  <2>2. QED
    BY <2>1
<1> HIDE DEF T
<1>5. \A n \in 0..N : n \in T
  BY ONLY <1>1, <1>3, <1>4, Induction, Zenon
<1>6. N \in T
  BY <1>1, <1>5
<1>7. QED
  BY <1>6 DEF T

(* Two such recursions over values that agree agree.                        *)
LEMMA SolvedAgree ==
  ASSUME NEW S, IsFiniteSet(S), NEW g, NEW h, NEW v, NEW w, Solved(g, v, S), Solved(h, w, S),
         \A x \in S : v[x] = w[x]
  PROVE  g[S] = h[S]
<1> DEFINE N == Cardinality(S)
           T == {n \in 0..N : \A s \in SUBSET S : Cardinality(s) = n => g[s] = h[s]}
<1>1. N \in Nat /\ \A s \in SUBSET S : IsFiniteSet(s) /\ Cardinality(s) \in 0..N
  BY FS_CardinalityType, FS_Subset
<1>2. 0 \in T
  <2>1. \A s \in SUBSET S : Cardinality(s) = 0 => s = {}
    BY <1>1, FS_EmptySet
  <2>2. g[{}] = 0 /\ h[{}] = 0
    BY DEF Solved, Grown
  <2>3. QED
    BY <1>1, <2>1, <2>2
<1>3. ASSUME NEW n \in 1..N, n - 1 \in T
      PROVE  n \in T
  <2>1. ASSUME NEW s \in SUBSET S, Cardinality(s) = n
        PROVE  g[s] = h[s]
    <3> DEFINE c == Chosen(s)
               t == s \ {c}
    <3>1. s # {} /\ IsFiniteSet(s)
      BY <1>1, <2>1, FS_EmptySet
    <3>2. c \in s /\ Cardinality(t) = n - 1 /\ t \in SUBSET S
      BY <2>1, <3>1, OneLess
    <3>3. g[s] = v[c] + g[t] /\ h[s] = w[c] + h[t]
      BY <3>1 DEF Solved, Grown
    <3>4. g[t] = h[t]
      BY <1>3, <3>2
    <3>5. v[c] = w[c]
      BY <3>2
    <3> HIDE DEF c, t
    <3>6. QED
      BY <3>3, <3>4, <3>5
  <2>2. QED
    BY <2>1
<1> HIDE DEF T
<1>4. \A n \in 0..N : n \in T
  BY ONLY <1>1, <1>2, <1>3, Induction, Zenon
<1>5. N \in T
  BY <1>1, <1>4
<1>6. QED
  BY <1>5 DEF T

LEMMA SumAgrees ==
  ASSUME NEW S, IsFiniteSet(S), NEW v, NEW w, \A x \in S : v[x] = w[x]
  PROVE  SumOf(S, v) = SumOf(S, w)
<1>1. /\ SumOf(S, v) = Partial(v, S)[S] /\ Solved(Partial(v, S), v, S)
      /\ SumOf(S, w) = Partial(w, S)[S] /\ Solved(Partial(w, S), w, S)
  BY SumOfIsLast
<1> DEFINE g == Partial(v, S)
           h == Partial(w, S)
<1>a. Solved(g, v, S) /\ Solved(h, w, S)
  BY <1>1
<1> HIDE DEF g, h
<1>b. g[S] = h[S]
  BY <1>a, SolvedAgree
<1>2. Partial(v, S)[S] = Partial(w, S)[S]
  BY <1>b DEF g, h
<1>3. QED
  BY <1>1, <1>2

LEMMA SumNone ==
  ASSUME NEW v
  PROVE  SumOf({}, v) = 0
<1>1. SumOf({}, v) = Partial(v, {})[{}] /\ Solved(Partial(v, {}), v, {})
  BY SumOfIsLast, FS_EmptySet
<1>2. QED
  BY <1>1 DEF Solved, Grown

LEMMA SumOfChosen ==
  ASSUME NEW S, IsFiniteSet(S), S # {}, NEW v
  PROVE  SumOf(S, v) = v[Chosen(S)] + SumOf(S \ {Chosen(S)}, v)
<1> DEFINE t == S \ {Chosen(S)}
<1>1. IsFiniteSet(t) /\ t \in SUBSET S
  BY OneLess
<1>2. SumOf(S, v) = Partial(v, S)[S] /\ Solved(Partial(v, S), v, S)
  BY SumOfIsLast
<1>3. SumOf(t, v) = Partial(v, t)[t] /\ Solved(Partial(v, t), v, t)
  BY <1>1, SumOfIsLast
<1>4. Solved(Partial(v, S), v, t)
  BY <1>1, <1>2 DEF Solved
<1>5. Partial(v, S)[S] = v[Chosen(S)] + Partial(v, S)[t]
  BY <1>2 DEF Solved, Grown
<1> HIDE DEF t
<1>6. Partial(v, S)[t] = Partial(v, t)[t]
  BY ONLY <1>1, <1>3, <1>4, SolvedAgree
<1>7. QED
  BY <1>2, <1>3, <1>5, <1>6 DEF t

WholeOn(S, v) == \A x \in S : v[x] \in Int

(* What is closed under addition and holds 0 and every value holds the sum.  *)
LEMMA SumStaysIn ==
  ASSUME NEW S, IsFiniteSet(S), NEW v, NEW I \in SUBSET Int, 0 \in I,
         \A x \in S : v[x] \in I, \A a, b \in I : a + b \in I
  PROVE  SumOf(S, v) \in I
<1> DEFINE N == Cardinality(S)
           T == {n \in 0..N : \A A \in SUBSET S : Cardinality(A) = n => SumOf(A, v) \in I}
<1>1. N \in Nat /\ \A A \in SUBSET S : IsFiniteSet(A) /\ Cardinality(A) \in 0..N
  BY FS_CardinalityType, FS_Subset
<1>2. 0 \in T
  <2>1. \A A \in SUBSET S : Cardinality(A) = 0 => A = {}
    BY <1>1, FS_EmptySet
  <2>2. QED
    BY <1>1, <2>1, SumNone
<1>3. ASSUME NEW n \in 1..N, n - 1 \in T
      PROVE  n \in T
  <2>1. ASSUME NEW A \in SUBSET S, Cardinality(A) = n
        PROVE  SumOf(A, v) \in I
    <3> DEFINE c == Chosen(A)
               B == A \ {c}
    <3>1. A # {} /\ IsFiniteSet(A)
      BY <1>1, <2>1, FS_EmptySet
    <3>2. c \in A /\ Cardinality(B) = n - 1 /\ B \in SUBSET S
      BY <2>1, <3>1, OneLess
    <3>3. SumOf(B, v) \in I
      BY <1>3, <3>2
    <3>4. SumOf(A, v) = v[c] + SumOf(B, v)
      BY <3>1, SumOfChosen
    <3>5. v[c] \in I
      BY <3>2
    <3> HIDE DEF c, B
    <3>6. QED
      BY <3>3, <3>4, <3>5
  <2>2. QED
    BY <2>1
<1> HIDE DEF T
<1>4. \A n \in 0..N : n \in T
  BY ONLY <1>1, <1>2, <1>3, Induction, Zenon
<1>5. N \in T
  BY <1>1, <1>4
<1>6. QED
  BY <1>1, <1>5 DEF T

LEMMA SumWhole ==
  ASSUME NEW S, IsFiniteSet(S), NEW v, WholeOn(S, v)
  PROVE  SumOf(S, v) \in Int
<1> DEFINE I == Int
<1>1. /\ I \in SUBSET Int /\ 0 \in I /\ (\A x \in S : v[x] \in I)
      /\ (\A a, b \in I : a + b \in I)
  BY DEF WholeOn
<1> HIDE DEF I
<1>2. SumOf(S, v) \in I
  BY <1>1, SumStaysIn
<1>3. QED
  BY <1>2 DEF I

LEMMA SumNatural ==
  ASSUME NEW S, IsFiniteSet(S), NEW v, \A x \in S : v[x] \in Nat
  PROVE  SumOf(S, v) \in Nat
<1> DEFINE I == Nat
<1>1. /\ I \in SUBSET Int /\ 0 \in I /\ (\A x \in S : v[x] \in I)
      /\ (\A a, b \in I : a + b \in I)
  OBVIOUS
<1> HIDE DEF I
<1>2. SumOf(S, v) \in I
  BY <1>1, SumStaysIn
<1>3. QED
  BY <1>2 DEF I

LEMMA SumZero ==
  ASSUME NEW S, IsFiniteSet(S), NEW v, \A x \in S : v[x] = 0
  PROVE  SumOf(S, v) = 0
<1> DEFINE I == {0}
<1>1. /\ I \in SUBSET Int /\ 0 \in I /\ (\A x \in S : v[x] \in I)
      /\ (\A a, b \in I : a + b \in I)
  OBVIOUS
<1> HIDE DEF I
<1>2. SumOf(S, v) \in I
  BY <1>1, SumStaysIn
<1>3. QED
  BY <1>2 DEF I

(* Any member may be taken first.                                           *)
Takes(A, v) == \A x \in A : SumOf(A, v) = v[x] + SumOf(A \ {x}, v)
LEMMA SumTakes ==
  ASSUME NEW S, IsFiniteSet(S), NEW v, WholeOn(S, v)
  PROVE  Takes(S, v)
<1> DEFINE N == Cardinality(S)
           T == {n \in 0..N : \A A \in SUBSET S : Cardinality(A) = n => Takes(A, v)}
<1>1. N \in Nat /\ \A A \in SUBSET S : IsFiniteSet(A) /\ Cardinality(A) \in 0..N
  BY FS_CardinalityType, FS_Subset
<1>2. 0 \in T
  <2>1. \A A \in SUBSET S : Cardinality(A) = 0 => A = {}
    BY <1>1, FS_EmptySet
  <2>2. Takes({}, v)
    BY DEF Takes
  <2>3. QED
    BY <1>1, <2>1, <2>2
<1>3. \A A \in SUBSET S : SumOf(A, v) \in Int
  BY <1>1, SumWhole DEF WholeOn
<1>4. ASSUME NEW n \in 1..N, n - 1 \in T
      PROVE  n \in T
  <2>1. ASSUME NEW A \in SUBSET S, Cardinality(A) = n, NEW x \in A
        PROVE  SumOf(A, v) = v[x] + SumOf(A \ {x}, v)
    <3> DEFINE c == Chosen(A)
               B == A \ {c}
               C == A \ {x}
               D == A \ {c, x}
    <3>1. A # {} /\ IsFiniteSet(A)
      BY <1>1
    <3>2. c \in A /\ Cardinality(B) = n - 1 /\ B \in SUBSET S
      BY <2>1, <3>1, OneLess
    <3>3. SumOf(A, v) = v[c] + SumOf(B, v)
      BY <3>1, SumOfChosen
    <3>4. CASE x = c
      BY <3>3, <3>4
    <3>5. CASE x # c
      <4>1. C \in SUBSET S /\ Cardinality(C) = n - 1
        BY <2>1, <3>1, FS_RemoveElement
      <4>2. Takes(B, v) /\ Takes(C, v)
        BY <1>4, <3>2, <4>1
      <4>3. x \in B /\ c \in C /\ B \ {x} = D /\ C \ {c} = D
        BY <3>2, <3>5
      <4>4. v[x] \in Int /\ v[c] \in Int /\ SumOf(D, v) \in Int
        BY <1>3, <3>2 DEF WholeOn
      <4> HIDE DEF c, B, C, D
      <4>5. SumOf(B, v) = v[x] + SumOf(D, v) /\ SumOf(C, v) = v[c] + SumOf(D, v)
        BY <4>2, <4>3 DEF Takes
      <4>6. SumOf(A, v) = v[x] + SumOf(C, v)
        BY <3>3, <4>4, <4>5
      <4>7. QED
        BY <4>6 DEF C
    <3>6. QED
      BY <3>4, <3>5
  <2>2. QED
    BY <2>1 DEF Takes
<1> HIDE DEF T
<1>5. \A n \in 0..N : n \in T
  BY ONLY <1>1, <1>2, <1>4, Induction, Zenon
<1>6. N \in T
  BY <1>1, <1>5
<1>7. QED
  BY <1>6 DEF T

LEMMA SumAdds ==
  ASSUME NEW S, IsFiniteSet(S), NEW v, WholeOn(S, v), NEW A \in SUBSET S, NEW x \in S \ A
  PROVE  /\ SumOf(A \cup {x}, v) = v[x] + SumOf(A, v)
         /\ SumOf(A, v) \in Int /\ v[x] \in Int /\ IsFiniteSet(A)
<1> DEFINE B == A \cup {x}
<1>1. IsFiniteSet(B) /\ IsFiniteSet(A) /\ WholeOn(B, v) /\ WholeOn(A, v) /\ B \ {x} = A /\ x \in B
  BY FS_Subset DEF WholeOn
<1>2. Takes(B, v) /\ SumOf(A, v) \in Int
  BY <1>1, SumTakes, SumWhole
<1> HIDE DEF B
<1>3. SumOf(B, v) = v[x] + SumOf(A, v)
  BY <1>1, <1>2 DEF Takes
<1>4. QED
  BY <1>1, <1>2, <1>3 DEF B, WholeOn

LEMMA SumPlus ==
  ASSUME NEW S, IsFiniteSet(S), NEW v, NEW w, NEW u, WholeOn(S, v), WholeOn(S, w),
         \A x \in S : u[x] = v[x] + w[x]
  PROVE  SumOf(S, u) = SumOf(S, v) + SumOf(S, w)
<1> DEFINE K == {A \in SUBSET S : SumOf(A, u) = SumOf(A, v) + SumOf(A, w)}
<1>1. {} \in K
  BY SumNone
<1>2. WholeOn(S, u)
  BY DEF WholeOn
<1>3. ASSUME NEW A \in SUBSET S, NEW x \in S \ A, A \in K
      PROVE  A \cup {x} \in K
  <2> DEFINE B == A \cup {x}
  <2>1. SumOf(B, u) = u[x] + SumOf(A, u) /\ SumOf(A, u) \in Int
    BY <1>2, SumAdds
  <2>2. SumOf(B, v) = v[x] + SumOf(A, v) /\ SumOf(A, v) \in Int /\ v[x] \in Int
    BY SumAdds
  <2>3. SumOf(B, w) = w[x] + SumOf(A, w) /\ SumOf(A, w) \in Int /\ w[x] \in Int
    BY SumAdds
  <2>4. SumOf(A, u) = SumOf(A, v) + SumOf(A, w) /\ u[x] = v[x] + w[x] /\ B \in SUBSET S
    BY <1>3
  <2> HIDE DEF B
  <2>5. SumOf(B, u) = SumOf(B, v) + SumOf(B, w)
    BY <2>1, <2>2, <2>3, <2>4
  <2>6. QED
    BY <2>4, <2>5 DEF B
<1> HIDE DEF K
<1>4. S \in K
  BY <1>1, <1>3, SetInduction
<1>5. QED
  BY <1>4 DEF K

LEMMA SumTimes ==
  ASSUME NEW S, IsFiniteSet(S), NEW v, NEW u, NEW a \in Int, WholeOn(S, v),
         \A x \in S : u[x] = v[x] * a
  PROVE  SumOf(S, u) = SumOf(S, v) * a
<1> DEFINE K == {A \in SUBSET S : SumOf(A, u) = SumOf(A, v) * a}
<1>1. {} \in K
  BY SumNone
<1>2. WholeOn(S, u)
  BY DEF WholeOn
<1>3. ASSUME NEW A \in SUBSET S, NEW x \in S \ A, A \in K
      PROVE  A \cup {x} \in K
  <2> DEFINE B == A \cup {x}
  <2>1. SumOf(B, u) = u[x] + SumOf(A, u)
    BY <1>2, SumAdds
  <2>2. SumOf(B, v) = v[x] + SumOf(A, v) /\ SumOf(A, v) \in Int /\ v[x] \in Int
    BY SumAdds
  <2>3. SumOf(A, u) = SumOf(A, v) * a /\ u[x] = v[x] * a /\ B \in SUBSET S
    BY <1>3
  <2>4. \A i, j \in Int : (i + j) * a = i * a + j * a
    OBVIOUS
  <2> HIDE DEF B
  <2>5. SumOf(B, u) = SumOf(B, v) * a
    BY <2>1, <2>2, <2>3, <2>4
  <2>6. QED
    BY <2>3, <2>5 DEF B
<1> HIDE DEF K
<1>4. S \in K
  BY <1>1, <1>3, SetInduction
<1>5. QED
  BY <1>4 DEF K

(* What is nothing outside a part may be summed over the part.              *)
LEMMA SumPart ==
  ASSUME NEW S, IsFiniteSet(S), NEW Q \in SUBSET S, NEW v, NEW u, WholeOn(Q, v),
         \A x \in S : u[x] = IF x \in Q THEN v[x] ELSE 0
  PROVE  SumOf(Q, v) = SumOf(S, u)
<1> DEFINE K == {A \in SUBSET S : SumOf(A \cap Q, u) = SumOf(A, u)}
<1>1. {} \in K
  OBVIOUS
<1>2. WholeOn(S, u)
  BY DEF WholeOn
<1>3. ASSUME NEW A \in SUBSET S, NEW x \in S \ A, A \in K
      PROVE  A \cup {x} \in K
  <2> DEFINE B == A \cup {x}
             C == A \cap Q
             D == B \cap Q
  <2>1. SumOf(B, u) = u[x] + SumOf(A, u) /\ SumOf(A, u) \in Int /\ B \in SUBSET S
    BY <1>2, SumAdds
  <2>2. SumOf(C, u) = SumOf(A, u)
    BY <1>3
  <2>3. SumOf(D, u) = SumOf(B, u)
    <3>1. CASE x \in Q
      <4>1. C \in SUBSET S /\ x \in S \ C /\ D = C \cup {x}
        BY <3>1
      <4> HIDE DEF B, C, D
      <4>2. SumOf(D, u) = u[x] + SumOf(C, u)
        BY <1>2, <4>1, SumAdds
      <4>3. QED
        BY <2>1, <2>2, <4>2
    <3>2. CASE x \notin Q
      <4>1. D = C /\ u[x] = 0
        BY <3>2
      <4> HIDE DEF B, C, D
      <4>2. QED
        BY <2>1, <2>2, <4>1
    <3>3. QED
      BY <3>1, <3>2
  <2>4. QED
    BY <2>1, <2>3
<1> HIDE DEF K
<1>4. S \in K
  BY <1>1, <1>3, SetInduction
<1>5. SumOf(S \cap Q, u) = SumOf(S, u) /\ S \cap Q = Q
  BY <1>4 DEF K
<1>6. IsFiniteSet(Q) /\ \A x \in Q : v[x] = u[x]
  BY FS_Subset
<1>7. SumOf(Q, v) = SumOf(Q, u)
  BY <1>6, SumAgrees
<1>8. QED
  BY <1>5, <1>7

LEMMA SumOne ==
  ASSUME NEW x, NEW v, v[x] \in Int
  PROVE  SumOf({x}, v) = v[x]
<1> DEFINE S == {x}
<1>1. IsFiniteSet(S) /\ WholeOn(S, v) /\ x \in S /\ S \ {x} = {}
  BY FS_Singleton DEF WholeOn
<1> HIDE DEF S
<1>2. Takes(S, v)
  BY <1>1, SumTakes
<1>3. SumOf(S, v) = v[x] + SumOf(S \ {x}, v)
  BY <1>1, <1>2 DEF Takes
<1>4. SumOf(S, v) = v[x] + 0
  BY <1>1, <1>3, SumNone
<1>5. QED
  BY <1>4 DEF S

(* A sum may be taken class by class.                                       *)
Fibre(A, k, t) == {x \in A : k[x] = t}
Fibred(A, v, k, T) == [t \in T |-> SumOf(Fibre(A, k, t), v)]

LEMMA SumFibres ==
  ASSUME NEW S, IsFiniteSet(S), NEW T, IsFiniteSet(T), NEW v, WholeOn(S, v), NEW k, \A x \in S : k[x] \in T
  PROVE  SumOf(T, Fibred(S, v, k, T)) = SumOf(S, v)
<1> DEFINE K == {A \in SUBSET S : SumOf(T, Fibred(A, v, k, T)) = SumOf(A, v)}
<1>1. {} \in K
  <2>1. \A t \in T : Fibred({}, v, k, T)[t] = 0
    BY SumNone DEF Fibred, Fibre
  <2>2. SumOf(T, Fibred({}, v, k, T)) = 0
    BY <2>1, SumZero
  <2>3. QED
    BY <2>2, SumNone
<1>2. \A A \in SUBSET S : WholeOn(T, Fibred(A, v, k, T))
  <2>1. ASSUME NEW A \in SUBSET S, NEW t \in T
        PROVE  SumOf(Fibre(A, k, t), v) \in Int
    <3>1. Fibre(A, k, t) \in SUBSET S /\ IsFiniteSet(Fibre(A, k, t)) /\ WholeOn(Fibre(A, k, t), v)
      BY FS_Subset DEF Fibre, WholeOn
    <3>2. QED
      BY <3>1, SumWhole
  <2>2. QED
    BY <2>1 DEF WholeOn, Fibred
<1>3. ASSUME NEW A \in SUBSET S, NEW x \in S \ A, A \in K
      PROVE  A \cup {x} \in K
  <2> DEFINE B == A \cup {x}
             f == Fibred(A, v, k, T)
             h == Fibred(B, v, k, T)
             q == k[x]
             U == T \ {q}
  <2>1. B \in SUBSET S /\ q \in T
    OBVIOUS
  <2>2. SumOf(B, v) = v[x] + SumOf(A, v) /\ SumOf(A, v) \in Int /\ v[x] \in Int
    BY SumAdds
  <2>3. \A t \in U : h[t] = f[t]
    <3>1. ASSUME NEW t \in U PROVE Fibre(B, k, t) = Fibre(A, k, t)
      BY DEF Fibre
    <3>2. QED
      BY <3>1 DEF Fibred
  <2>4. h[q] = v[x] + f[q]
    <3> DEFINE F == Fibre(A, k, q)
    <3>1. F \in SUBSET S /\ x \in S \ F /\ Fibre(B, k, q) = F \cup {x}
      BY DEF Fibre
    <3> HIDE DEF F
    <3>2. SumOf(F \cup {x}, v) = v[x] + SumOf(F, v)
      BY <3>1, SumAdds
    <3>3. QED
      BY <2>1, <3>1, <3>2 DEF Fibred, F
  <2>5. Takes(T, f) /\ Takes(T, h) /\ WholeOn(T, f)
    BY <1>2, <2>1, SumTakes
  <2>6. IsFiniteSet(U) /\ WholeOn(U, f)
    BY <2>5, FS_Subset DEF WholeOn
  <2>7. f[q] \in Int /\ SumOf(T, f) = SumOf(A, v)
    BY <1>3, <2>1, <2>5 DEF WholeOn
  <2> HIDE DEF B, f, h, q
  <2>8. SumOf(U, h) = SumOf(U, f) /\ SumOf(U, f) \in Int
    <3> HIDE DEF U
    <3>1. QED
      BY <2>3, <2>6, SumAgrees, SumWhole
  <2>9. SumOf(T, f) = f[q] + SumOf(U, f) /\ SumOf(T, h) = h[q] + SumOf(U, h)
    BY <2>1, <2>5 DEF Takes
  <2> HIDE DEF U
  <2>10. SumOf(T, h) = SumOf(B, v)
    BY <2>2, <2>4, <2>7, <2>8, <2>9
  <2>11. QED
    BY <2>1, <2>10 DEF B, h
<1> HIDE DEF K
<1>4. S \in K
  BY <1>1, <1>3, SetInduction
<1>5. QED
  BY <1>4 DEF K

(* What a function makes of a finite set is finite. *)
LEMMA FiniteImage ==
  ASSUME NEW G, IsFiniteSet(G), NEW r
  PROVE  IsFiniteSet({r[a] : a \in G})
<1> DEFINE Im(A) == {r[a] : a \in A}
           K == {A \in SUBSET G : IsFiniteSet(Im(A))}
<1>1. {} \in K
  <2>1. Im({}) = {}
    OBVIOUS
  <2>2. QED
    BY <2>1, FS_EmptySet
<1>2. ASSUME NEW A \in SUBSET G, NEW x \in G \ A, A \in K
      PROVE  A \cup {x} \in K
  <2>1. Im(A \cup {x}) = Im(A) \cup {r[x]}
    OBVIOUS
  <2>2. IsFiniteSet(Im(A))
    BY <1>2
  <2>3. IsFiniteSet(Im(A \cup {x}))
    <3> DEFINE M == Im(A)
               y == r[x]
    <3>1. IsFiniteSet(M)
      BY <2>2
    <3> HIDE DEF M, y
    <3>2. IsFiniteSet(M \cup {y})
      BY <3>1, FS_AddElement
    <3>3. QED
      BY <2>1, <3>2 DEF M, y
  <2>4. QED
    BY <2>3
<1> HIDE DEF K
<1>3. G \in K
  BY <1>1, <1>2, SetInduction
<1>4. QED
  BY <1>3 DEF K

(* The same for a sum over the images of an injection: only those in Q count. *)
Injects(r, G) == \A a, b \in G : r[a] = r[b] => a = b
LEMMA SumImage ==
  ASSUME NEW G, IsFiniteSet(G), NEW r, Injects(r, G), NEW Q, Q \subseteq {r[a] : a \in G},
         NEW val, WholeOn(Q, val), NEW u, \A a \in G : u[a] = IF r[a] \in Q THEN val[r[a]] ELSE 0
  PROVE  SumOf(Q, val) = SumOf(G, u)
<1> DEFINE H == {a \in G : r[a] \in Q}
           v == [a \in H |-> val[r[a]]]
<1>1. IsFiniteSet(H) /\ H \in SUBSET G
  BY FS_Subset
<1>2. IsFiniteSet(Q)
  <2> DEFINE M == {r[a] : a \in G}
  <2>1. IsFiniteSet(M)
    BY FiniteImage
  <2>2. Q \in SUBSET M
    OBVIOUS
  <2> HIDE DEF M
  <2>3. QED
    BY <2>1, <2>2, FS_Subset
<1>3. WholeOn(H, v) /\ \A a \in H : r[a] \in Q
  BY DEF WholeOn
<1>4. ASSUME NEW t \in Q
      PROVE  Fibred(H, v, r, Q)[t] = val[t]
  <2>1. PICK a \in G : r[a] = t
    OBVIOUS
  <2>2. a \in H /\ Fibre(H, r, t) = {a}
    BY <2>1 DEF Fibre, Injects
  <2>3. v[a] = val[t] /\ v[a] \in Int
    BY <1>3, <2>1, <2>2 DEF WholeOn
  <2> HIDE DEF H, v
  <2>4. SumOf({a}, v) = v[a]
    BY <2>3, SumOne
  <2>5. QED
    BY <2>2, <2>3, <2>4 DEF Fibred
<1>5. \A a \in G : u[a] = IF a \in H THEN v[a] ELSE 0
  OBVIOUS
<1> HIDE DEF H, v
<1>6. SumOf(Q, Fibred(H, v, r, Q)) = SumOf(H, v)
  BY <1>1, <1>2, <1>3, SumFibres
<1>7. SumOf(Q, Fibred(H, v, r, Q)) = SumOf(Q, val)
  BY <1>2, <1>4, SumAgrees
<1>8. SumOf(H, v) = SumOf(G, u)
  BY <1>1, <1>3, <1>5, SumPart
<1>9. QED
  BY <1>6, <1>7, <1>8

(* Sums over groups are sums over their members; of the rows that come of   *)
(* the groups, those in Q count.                                            *)
ClassOf(by) == [x \in DOMAIN by |-> {f \in DOMAIN by : by[f] = by[x]}]
LEMMA GroupsAre ==
  ASSUME NEW by, IsFiniteSet(DOMAIN by)
  PROVE  /\ IsFiniteSet(Groups(by))
         /\ \A x \in DOMAIN by : ClassOf(by)[x] \in Groups(by)
         /\ \A R \in Groups(by) :
              /\ R \in SUBSET DOMAIN by /\ R # {} /\ IsFiniteSet(R)
              /\ \A f, g \in R : by[f] = by[g]
              /\ Fibre(DOMAIN by, ClassOf(by), R) = R
<1> DEFINE S == DOMAIN by
<1>1. Groups(by) = {ClassOf(by)[x] : x \in S}
  BY DEF Groups, ClassOf
<1>2. IsFiniteSet(Groups(by))
  <2> DEFINE k == ClassOf(by)
  <2>1. IsFiniteSet({k[x] : x \in S})
    BY FiniteImage
  <2>2. QED
    BY <1>1, <2>1
<1>3. ASSUME NEW R \in Groups(by)
      PROVE  /\ R \in SUBSET DOMAIN by /\ R # {} /\ IsFiniteSet(R)
             /\ \A f, g \in R : by[f] = by[g]
             /\ Fibre(DOMAIN by, ClassOf(by), R) = R
  <2>1. PICK g \in S : R = {f \in S : by[f] = by[g]}
    BY DEF Groups
  <2>2. R \in SUBSET S /\ g \in R /\ \A f, h \in R : by[f] = by[h]
    BY <2>1
  <2>3. IsFiniteSet(R)
    BY <2>2, FS_Subset
  <2>4. \A x \in S : x \in R <=> ClassOf(by)[x] = R
    BY <2>1 DEF ClassOf
  <2>5. QED
    BY <2>2, <2>3, <2>4 DEF Fibre
<1>4. QED
  BY <1>1, <1>2, <1>3

LEMMA SumGroups ==
  ASSUME NEW by, IsFiniteSet(DOMAIN by), NEW w, WholeOn(DOMAIN by, w), NEW u,
         \A R \in Groups(by) : u[R] = SumOf(R, w)
  PROVE  SumOf(Groups(by), u) = SumOf(DOMAIN by, w)
<1> DEFINE S == DOMAIN by
           G == Groups(by)
           k == ClassOf(by)
<1>1. IsFiniteSet(G) /\ \A x \in S : k[x] \in G
  BY GroupsAre
<1>2. \A R \in G : Fibred(S, w, k, G)[R] = u[R]
  BY GroupsAre DEF Fibred
<1> HIDE DEF k, G, S
<1>3. SumOf(G, Fibred(S, w, k, G)) = SumOf(S, w)
  BY <1>1, SumFibres DEF S
<1>4. SumOf(G, Fibred(S, w, k, G)) = SumOf(G, u)
  BY <1>1, <1>2, SumAgrees
<1>5. QED
  BY <1>3, <1>4 DEF S, G

LEMMA SumRows ==
  ASSUME NEW by, IsFiniteSet(DOMAIN by), NEW w, WholeOn(DOMAIN by, w),
         NEW r, Injects(r, Groups(by)), NEW Q, Q \subseteq {r[R] : R \in Groups(by)}, NEW val,
         \A R \in Groups(by) : (IF r[R] \in Q THEN val[r[R]] ELSE 0) = SumOf(R, w)
  PROVE  SumOf(Q, val) = SumOf(DOMAIN by, w) /\ WholeOn(Q, val)
<1> DEFINE G == Groups(by)
           u == [R \in G |-> SumOf(R, w)]
<1>1. IsFiniteSet(G)
  BY GroupsAre
<1>2. \A R \in G : SumOf(R, w) \in Int
  BY GroupsAre, SumWhole DEF WholeOn
<1>3. WholeOn(Q, val)
  <2>1. ASSUME NEW t \in Q PROVE val[t] \in Int
    <3>1. PICK R \in G : r[R] = t
      OBVIOUS
    <3>2. QED
      BY <1>2, <3>1
  <2>2. QED
    BY <2>1 DEF WholeOn
<1>4. \A R \in G : u[R] = IF r[R] \in Q THEN val[r[R]] ELSE 0
  OBVIOUS
<1>5. \A R \in G : u[R] = SumOf(R, w)
  OBVIOUS
<1> HIDE DEF u
<1>6. SumOf(Q, val) = SumOf(G, u)
  <2> HIDE DEF G
  <2>1. QED
    BY <1>1, <1>3, <1>4, SumImage DEF G
<1>7. SumOf(G, u) = SumOf(DOMAIN by, w)
  BY <1>5, SumGroups
<1>8. QED
  BY <1>3, <1>6, <1>7

(***************************************************************************)
(* Prices are found under the names from which least was taken off.        *)
(***************************************************************************)
Ascends(s, m) == \A i, j \in 1..Len(s) : i <= j => m[s[i]] <= m[s[j]]
ComesOf(s, p, n) == \A i \in 1..Len(s) : \E k \in 1..n : \E j \in 1..Len(p[k]) : s[i] = p[k][j]

LEMMA FlattenAscends ==
  ASSUME NEW S, NEW p \in Seq(Seq(S)), NEW m \in [S -> Int],
         \A n \in 1..Len(p) : Ascends(p[n], m),
         \A n, k \in 1..Len(p) : n < k =>
           \A i \in 1..Len(p[n]) : \A j \in 1..Len(p[k]) : m[p[n][i]] <= m[p[k][j]]
  PROVE  Ascends(FlattenSeq(p), m) /\ ComesOf(FlattenSeq(p), p, Len(p))
<1>1. PICK f \in [0..Len(p) -> Seq(S)] : FlatRun(p, f) /\ FlattenSeq(p) = f[Len(p)]
  BY FlattenRuns, Zenon
<1> DEFINE N == Len(p)
           T == {n \in 0..N : Ascends(f[n], m) /\ ComesOf(f[n], p, n)}
<1>2. N \in Nat /\ f[0] = <<>> /\ \A n \in 1..N : f[n] = f[n - 1] \o p[n]
  <2>1. N \in Nat
    OBVIOUS
  <2>2. f[0] = <<>>
    BY ONLY <1>1 DEF FlatRun
  <2>3. \A n \in 1..N : f[n] = f[n - 1] \o p[n]
    BY ONLY <1>1, Zenon DEF FlatRun, FlatSteps
  <2>4. QED
    BY <2>1, <2>2, <2>3
<1>3. 0 \in T
  BY <1>2 DEF Ascends, ComesOf
<1>4. ASSUME NEW n \in 1..N, n - 1 \in T
      PROVE  n \in T
  <2> DEFINE a == f[n - 1]
             b == p[n]
             c == f[n]
  <2>1. a \in Seq(S) /\ b \in Seq(S) /\ c = a \o b
    <3>1. n - 1 \in 0..Len(p) /\ n \in 1..Len(p)
      BY <1>2
    <3>a. f[n - 1] \in Seq(S)
      BY ONLY <3>1, f \in [0..Len(p) -> Seq(S)]
    <3>b. p[n] \in Seq(S)
      BY ONLY <3>1, p \in Seq(Seq(S))
    <3>2. f[n - 1] \in Seq(S) /\ p[n] \in Seq(S)
      BY <3>a, <3>b
    <3>3. f[n] = f[n - 1] \o p[n]
      BY <1>2
    <3>4. QED
      BY <3>2, <3>3
  <2>2. /\ c \in Seq(S) /\ Len(a) \in Nat /\ Len(b) \in Nat /\ Len(c) = Len(a) + Len(b)
        /\ \A i \in 1..Len(a) : c[i] = a[i]
        /\ \A i \in 1..Len(c) : i > Len(a) => i - Len(a) \in 1..Len(b) /\ c[i] = b[i - Len(a)]
    <3> HIDE DEF a, b, c
    <3>1. Len(a) \in Nat /\ Len(b) \in Nat /\ c \in Seq(S) /\ Len(c) = Len(a) + Len(b)
      BY <2>1
    <3>2. c = [i \in 1..Len(a) + Len(b) |-> IF i <= Len(a) THEN a[i] ELSE b[i - Len(a)]]
      BY <2>1, ConcatIs
    <3>3. \A i \in 1..Len(a) : c[i] = a[i]
      BY <3>1, <3>2
    <3>4. \A i \in 1..Len(c) : i > Len(a) => i - Len(a) \in 1..Len(b) /\ c[i] = b[i - Len(a)]
      BY <3>1, <3>2
    <3>5. QED
      BY <3>1, <3>3, <3>4
  <2>3. Ascends(a, m) /\ ComesOf(a, p, n - 1) /\ Ascends(b, m)
    BY <1>4
  <2>4. ASSUME NEW i \in 1..Len(a), NEW j \in 1..Len(b)
        PROVE  m[a[i]] <= m[b[j]]
    <3>1. PICK k \in 1..n - 1 : \E l \in 1..Len(p[k]) : a[i] = p[k][l]
      BY <2>3 DEF ComesOf
    <3>2. k \in 1..N /\ k < n
      <4>1. N \in Nat
        BY <1>2
      <4>2. QED
        BY ONLY <4>1, k \in 1..n - 1, n \in 1..N
    <3> HIDE DEF a
    <3>3. QED
      BY <3>1, <3>2
  <2>5. \A i \in 1..Len(a) : m[a[i]] \in Int
    BY <2>1
  <2>6. \A i \in 1..Len(b) : m[b[i]] \in Int
    BY <2>1
  <2>7. ComesOf(c, p, n)
    <3>1. ASSUME NEW i \in 1..Len(c)
          PROVE  \E k \in 1..n : \E j \in 1..Len(p[k]) : c[i] = p[k][j]
      <4>1. CASE i <= Len(a)
        <5>1. i \in 1..Len(a) /\ c[i] = a[i]
          BY <2>2, <4>1
        <5>2. PICK k \in 1..n - 1 : \E j \in 1..Len(p[k]) : a[i] = p[k][j]
          BY <2>3, <5>1 DEF ComesOf
        <5>3. k \in 1..n
          OBVIOUS
        <5> HIDE DEF a, c
        <5>4. QED
          BY <5>1, <5>2, <5>3
      <4>2. CASE i > Len(a)
        <5>1. i - Len(a) \in 1..Len(b) /\ c[i] = b[i - Len(a)] /\ n \in 1..n
          <6>1. n \in 1..n
            BY <1>2
          <6> HIDE DEF a, b, c
          <6>2. QED
            BY <2>2, <4>2, <6>1
        <5> DEFINE l == i - Len(a)
        <5>2. l \in 1..Len(p[n]) /\ c[i] = p[n][l]
          BY <5>1
        <5> HIDE DEF a, c, l
        <5>3. QED
          BY <5>1, <5>2
      <4>3. QED
        BY <2>2, <4>1, <4>2
    <3> HIDE DEF c
    <3>2. QED
      BY <3>1 DEF ComesOf
  <2> HIDE DEF a, b, c
  <2>8. Ascends(c, m)
    <3>1. ASSUME NEW i \in 1..Len(c), NEW j \in 1..Len(c), i <= j
          PROVE  m[c[i]] <= m[c[j]]
      <4>1. CASE j <= Len(a)
        <5>1. i \in 1..Len(a) /\ j \in 1..Len(a) /\ c[i] = a[i] /\ c[j] = a[j]
          BY <2>2, <3>1, <4>1
        <5>2. m[a[i]] <= m[a[j]]
          BY <2>3, <3>1, <5>1 DEF Ascends
        <5>3. QED
          BY <5>1, <5>2
      <4>2. CASE i <= Len(a) /\ j > Len(a)
        <5>a. i \in 1..Len(a) /\ c[i] = a[i]
          <6>1. Len(a) \in Nat /\ Len(b) \in Nat /\ Len(c) = Len(a) + Len(b)
            BY <2>2
          <6>2. i \in 1..Len(a)
            BY ONLY <6>1, <4>2, i \in 1..Len(c)
          <6>3. QED
            BY <2>2, <6>2
        <5>b. j - Len(a) \in 1..Len(b) /\ c[j] = b[j - Len(a)]
          BY <2>2, <4>2
        <5>1. i \in 1..Len(a) /\ c[i] = a[i] /\ j - Len(a) \in 1..Len(b) /\ c[j] = b[j - Len(a)]
          BY <5>a, <5>b
        <5>2. m[a[i]] <= m[b[j - Len(a)]]
          BY <2>4, <5>1
        <5>3. QED
          BY <5>1, <5>2
      <4>3. CASE i > Len(a)
        <5>1. j > Len(a) /\ i - Len(a) <= j - Len(a)
          BY <2>2, <3>1, <4>3
        <5>2. /\ i - Len(a) \in 1..Len(b) /\ c[i] = b[i - Len(a)]
              /\ j - Len(a) \in 1..Len(b) /\ c[j] = b[j - Len(a)]
          BY <2>2, <4>3, <5>1
        <5>3. m[b[i - Len(a)]] <= m[b[j - Len(a)]]
          BY <2>3, <5>1, <5>2 DEF Ascends
        <5>4. QED
          BY <5>2, <5>3
      <4>4. Len(a) \in Nat /\ Len(c) \in Nat
        BY <2>2
      <4>5. j <= Len(a) \/ (i <= Len(a) /\ j > Len(a)) \/ i > Len(a)
        BY ONLY <4>4, i \in 1..Len(c), j \in 1..Len(c)
      <4>6. QED
        BY ONLY <4>1, <4>2, <4>3, <4>5, Zenon
    <3>2. QED
      BY <3>1 DEF Ascends
  <2>9. QED
    BY <2>7, <2>8 DEF c
<1> HIDE DEF T, N
<1>5. \A n \in 0..N : n \in T
  BY ONLY <1>2, <1>3, <1>4, Induction, Zenon
<1>6. N \in T
  BY <1>2, <1>5
<1>7. QED
  BY <1>1, <1>6 DEF T, N

(* How much was taken off a name.                                           *)
Taken(n) == [x \in Names |-> (IF n.path = x.path THEN 0 ELSE 1) + Len(n.tail) - Len(x.tail)]
AliasAt(n, d, x) == /\ x \in Names /\ x.base = n.base /\ (x.path => n.path)
                    /\ Len(x.tail) <= Len(n.tail) /\ Taken(n)[x] = d

LEMMA TwoOf ==
  ASSUME NEW S, NEW y \in S, NEW z \in S
  PROVE  LET c == <<y>> \o <<z>> IN c \in Seq(S) /\ Len(c) = 2 /\ c[1] = y /\ c[2] = z
<1> DEFINE a == <<y>>
           b == <<z>>
           c == a \o b
<1>1. a \in Seq(S) /\ b \in Seq(S) /\ Len(a) = 1 /\ Len(b) = 1 /\ a[1] = y /\ b[1] = z
  OBVIOUS
<1> HIDE DEF a, b
<1>2. c \in Seq(S) /\ Len(c) = 2
  <2>1. c \in Seq(S)
    BY <1>1
  <2>a. a \in Seq(S) /\ b \in Seq(S)
    BY <1>1
  <2>2. Len(c) = Len(a) + Len(b)
    BY ONLY <2>a
  <2> HIDE DEF c
  <2>3. QED
    BY <1>1, <2>1, <2>2
<1>3. c = [i \in 1..Len(a) + Len(b) |-> IF i <= Len(a) THEN a[i] ELSE b[i - Len(a)]]
  BY <1>1, ConcatIs
<1>4. c[1] = a[1] /\ c[2] = b[1]
  <2> HIDE DEF c
  <2>1. c = [i \in 1..2 |-> IF i <= 1 THEN a[i] ELSE b[i - 1]]
    BY <1>1, <1>3
  <2>2. QED
    BY <2>1
<1>5. QED
  BY <1>1, <1>2, <1>4 DEF a, b

LEMMA ShorterAt ==
  ASSUME NEW n \in Names, NEW d \in Nat, NEW x, AliasAt(n, d, x)
  PROVE  /\ Shorter(x) \in Seq(Names)
         /\ \A i \in 1..Len(Shorter(x)) : AliasAt(n, d + 1, Shorter(x)[i])
<1> DEFINE y == [x EXCEPT !.path = FALSE]
           z == [x EXCEPT !.tail = Front(@)]
           a == IF x.path THEN <<y>> ELSE <<>>
           b == IF Trimmable(x) THEN <<z>> ELSE <<>>
<1>1. x \in Names /\ Len(n.tail) \in Nat /\ Len(x.tail) \in Nat
  BY DEF AliasAt, Names
<1>2. y \in Names /\ y.base = x.base /\ y.tail = x.tail /\ y.path = FALSE
  BY <1>1 DEF Names
<1>3. x.path => AliasAt(n, d + 1, y)
  <2>1. CASE x.path
    <3>1. n.path = TRUE /\ x.path = TRUE
      BY <1>1, <2>1 DEF AliasAt, Names
    <3>2. Taken(n)[x] = 0 + Len(n.tail) - Len(x.tail) /\ Taken(n)[y] = 1 + Len(n.tail) - Len(y.tail)
      BY <1>1, <1>2, <3>1 DEF Taken
    <3>3. Taken(n)[y] = d + 1
      <4>1. Taken(n)[x] = d /\ y.tail = x.tail
        BY <1>2 DEF AliasAt
      <4>2. Len(y.tail) = Len(x.tail)
        BY <4>1
      <4> DEFINE T == Taken(n)
                 k == Len(n.tail)
                 l == Len(x.tail)
      <4>3. T[x] = d /\ T[x] = 0 + k - l /\ T[y] = 1 + k - l /\ k \in Nat /\ l \in Nat
        BY <1>1, <3>2, <4>1, <4>2
      <4> HIDE DEF T, k, l, y
      <4>4. T[y] = d + 1
        BY <4>3
      <4>5. QED
        BY <4>4 DEF T
    <3> HIDE DEF y
    <3>4. QED
      BY <1>2, <3>1, <3>3 DEF AliasAt
  <2>2. QED
    BY <2>1
<1>4. CASE ~Trimmable(x)
  <2>1. Shorter(x) = a \o <<>>
    BY <1>4 DEF Shorter
  <2> HIDE DEF y
  <2>2. CASE x.path
    <3>1. Shorter(x) = <<y>>
      BY <2>1, <2>2
    <3>2. QED
      BY <1>2, <1>3, <2>2, <3>1
  <2>3. CASE ~x.path
    <3>1. Shorter(x) = <<>>
      BY <2>1, <2>3
    <3>2. QED
      BY <3>1
  <2>4. QED
    BY <2>2, <2>3
<1>5. CASE Trimmable(x)
  <2>1. x.tail # <<>> /\ x.tail \in Seq(STRING)
    BY <1>1, <1>5 DEF Trimmable, Names
  <2>2. Front(x.tail) \in Seq(STRING) /\ Len(Front(x.tail)) = Len(x.tail) - 1
    BY <2>1 DEF Front
  <2>3. z \in Names /\ z.base = x.base /\ z.tail = Front(x.tail) /\ z.path = x.path
    BY <1>1, <2>2 DEF Names
  <2>4. Taken(n)[z] = Taken(n)[x] + 1
    <3> DEFINE k == Len(n.tail)
               l == Len(x.tail)
               t == IF n.path = x.path THEN 0 ELSE 1
    <3>1. /\ Taken(n)[x] = t + k - l /\ Taken(n)[z] = (IF n.path = z.path THEN 0 ELSE 1) + k - Len(z.tail)
      BY <1>1, <2>3 DEF Taken
    <3>2. z.path = x.path /\ Len(z.tail) = l - 1 /\ k \in Nat /\ l \in Nat /\ t \in Nat
      BY <1>1, <2>2, <2>3
    <3>3. Taken(n)[z] = t + k - (l - 1)
      BY <3>1, <3>2
    <3> DEFINE T == Taken(n)
    <3>4. T[x] = t + k - l /\ T[z] = t + k - (l - 1)
      BY <3>1, <3>3
    <3> HIDE DEF T, t, k, l, z
    <3>5. T[z] = T[x] + 1
      BY <3>2, <3>4
    <3>6. QED
      BY <3>5 DEF T
  <2>5. AliasAt(n, d + 1, z)
    <3> HIDE DEF z
    <3>1. QED
      BY <1>1, <2>2, <2>3, <2>4 DEF AliasAt
  <2>6. Shorter(x) = a \o <<z>>
    BY <1>5 DEF Shorter
  <2> HIDE DEF y, z
  <2>7. CASE x.path
    <3> DEFINE c == <<y>> \o <<z>>
    <3>1. Shorter(x) = c
      BY <2>6, <2>7
    <3>2. y \in Names /\ z \in Names
      BY <1>2, <2>3
    <3>3. c \in Seq(Names) /\ Len(c) = 2 /\ c[1] = y /\ c[2] = z
      BY <3>2, TwoOf
    <3> HIDE DEF c
    <3>4. \A i \in 1..2 : AliasAt(n, d + 1, c[i])
      <4>1. AliasAt(n, d + 1, c[1]) /\ AliasAt(n, d + 1, c[2])
        BY <1>3, <2>5, <2>7, <3>3
      <4>2. \A i \in 1..2 : i = 1 \/ i = 2
        OBVIOUS
      <4>3. QED
        BY <4>1, <4>2, Zenon
    <3>5. QED
      BY <3>1, <3>3, <3>4
  <2>8. CASE ~x.path
    <3>1. Shorter(x) = <<z>>
      BY <2>6, <2>8
    <3>2. QED
      BY <2>3, <2>5, <3>1
  <2>9. QED
    BY <2>7, <2>8
<1>6. QED
  BY <1>4, <1>5

(* The levels are what the recursion says.                                  *)
NextLevel(l) == FlattenSeq([i \in DOMAIN l |-> Shorter(l[i])])
LevelOf(n, L) == /\ L[0] = <<Lower(n)>>
                 /\ \A d \in 1..Len(n.tail) + 1 : L[d] = NextLevel(L[d - 1])

LEMMA ShorterTyped ==
  ASSUME NEW x \in Names
  PROVE  Shorter(x) \in Seq(Names)
<1>1. AliasAt(x, 0, x)
  <2>1. Len(x.tail) \in Nat
    BY DEF Names
  <2>2. QED
    BY <2>1 DEF AliasAt, Taken
<1>2. QED
  BY <1>1, ShorterAt

LEMMA NextLevelTyped ==
  ASSUME NEW l \in Seq(Names)
  PROVE  NextLevel(l) \in Seq(Names)
<1> DEFINE p == [i \in DOMAIN l |-> Shorter(l[i])]
<1>1. \A i \in DOMAIN l : l[i] \in Names
  OBVIOUS
<1>2. \A i \in DOMAIN l : Shorter(l[i]) \in Seq(Names)
  BY <1>1, ShorterTyped
<1>3. p \in Seq(Seq(Names))
  BY <1>2
<1> HIDE DEF p
<1>4. FlattenSeq(p) \in Seq(Names)
  BY <1>3, FlattenType
<1>5. QED
  BY <1>4 DEF NextLevel, p

LEMMA LevelsAre ==
  ASSUME NEW n \in Names
  PROVE  /\ LevelOf(n, Levels(n)) /\ Levels(n) \in [0..Len(n.tail) + 1 -> Seq(Names)]
<1> DEFINE S == Seq(Names)
           N == Len(n.tail) + 1
           base == <<Lower(n)>>
           next == [a \in S \X (1..N) |-> NextLevel(a[1])]
           Solves(L) == L = [d \in 0..N |-> IF d = 0 THEN <<Lower(n)>>
                               ELSE FlattenSeq([i \in DOMAIN L[d - 1] |-> Shorter(L[d - 1][i])])]
<1>1. N \in Nat
  BY DEF Names
<1>2. base \in S
  <2>1. Lower(n) \in Names
    BY DEF Lower, Names
  <2>2. QED
    BY <2>1
<1>3. next \in [S \X (1..N) -> S]
  BY NextLevelTyped
<1>4. PICK f \in [0..N -> S] : f[0] = base /\ \A d \in 1..N : f[d] = next[<<f[d - 1], d>>]
  <2> HIDE DEF S, N, base, next
  <2>1. Solvable(S, N, base, next)
    BY <1>1, <1>2, <1>3, Recursion
  <2>2. QED
    BY <2>1 DEF Solvable
<1>5. \A d \in 1..N : f[d] = NextLevel(f[d - 1])
  <2>1. ASSUME NEW d \in 1..N PROVE f[d] = NextLevel(f[d - 1])
    <3>1. f[d - 1] \in S
      BY <1>1
    <3>2. <<f[d - 1], d>> \in S \X (1..N) /\ f[d] = next[<<f[d - 1], d>>]
      BY <1>4, <3>1
    <3>3. QED
      BY <3>2
  <2>2. QED
    BY <2>1
<1>6. Solves(f)
  <2>1. \A d \in 0..N : f[d] = IF d = 0 THEN <<Lower(n)>> ELSE NextLevel(f[d - 1])
    BY <1>1, <1>4, <1>5
  <2>2. f = [d \in 0..N |-> IF d = 0 THEN <<Lower(n)>> ELSE NextLevel(f[d - 1])]
    BY <2>1
  <2>3. QED
    BY <2>2, Zenon DEF NextLevel
<1> DEFINE L == CHOOSE l : Solves(l)
<1>7. Solves(L)
  <2> HIDE DEF Solves
  <2>1. QED
    BY <1>6, Zenon
<1>8. Levels(n) = L
  BY Zenon DEF Levels
<1>9. L = [d \in 0..N |-> IF d = 0 THEN <<Lower(n)>> ELSE NextLevel(L[d - 1])]
  <2> HIDE DEF L
  <2>1. QED
    BY <1>7, Zenon DEF NextLevel
<1> HIDE DEF L
<1>10. L[0] = <<Lower(n)>> /\ \A d \in 1..N : L[d] = NextLevel(L[d - 1])
  <2> DEFINE e(d) == IF d = 0 THEN <<Lower(n)>> ELSE NextLevel(L[d - 1])
  <2>1. L = [d \in 0..N |-> e(d)]
    BY <1>9
  <2>2. \A d \in 0..N : L[d] = e(d)
    <3> HIDE DEF e
    <3>1. QED
      BY <2>1
  <2>3. 0 \in 0..N /\ \A d \in 1..N : d \in 0..N /\ d # 0
    BY <1>1
  <2>4. L[0] = <<Lower(n)>>
    BY <2>2, <2>3
  <2>5. \A d \in 1..N : L[d] = NextLevel(L[d - 1])
    <3> HIDE DEF N
    <3>1. QED
      BY <2>2, <2>3
  <2>6. QED
    BY <2>4, <2>5
<1>11. L \in [0..N -> S]
  <2> DEFINE T == {d \in 0..N : L[d] \in S}
  <2>1. 0 \in T
    <3>1. 0 \in 0..N
      BY <1>1
    <3>2. L[0] \in S
      BY <1>2, <1>10
    <3>3. QED
      BY <3>1, <3>2
  <2>2. ASSUME NEW d \in 1..N, d - 1 \in T PROVE d \in T
    BY <1>10, <2>2, NextLevelTyped
  <2> HIDE DEF T
  <2>3. \A d \in 0..N : d \in T
    BY ONLY <1>1, <2>1, <2>2, Induction, Zenon
  <2>4. \A d \in 0..N : L[d] \in S
    BY <2>3 DEF T
  <2>5. DOMAIN L = 0..N /\ L = [d \in 0..N |-> L[d]]
    BY <1>9
  <2> HIDE DEF S, N
  <2>6. QED
    BY <2>4, <2>5
<1>12. QED
  BY <1>8, <1>10, <1>11 DEF LevelOf

LEMMA FlattenMembers ==
  ASSUME NEW S, NEW p \in Seq(Seq(S))
  PROVE  ComesOf(FlattenSeq(p), p, Len(p))
<1> DEFINE m == [x \in S |-> 0]
<1>1. m \in [S -> Int]
  OBVIOUS
<1>2. \A n \in 1..Len(p) : p[n] \in Seq(S)
  OBVIOUS
<1>3. ASSUME NEW n \in 1..Len(p), NEW i \in 1..Len(p[n])
      PROVE  m[p[n][i]] = 0
  <2>1. p[n][i] \in S
    BY <1>2
  <2>2. QED
    BY <2>1
<1> HIDE DEF m
<1>4. \A n \in 1..Len(p) : Ascends(p[n], m)
  BY <1>3 DEF Ascends
<1>5. \A n, k \in 1..Len(p) : n < k =>
           \A i \in 1..Len(p[n]) : \A j \in 1..Len(p[k]) : m[p[n][i]] <= m[p[k][j]]
  BY <1>3
<1>6. QED
  BY <1>1, <1>4, <1>5, FlattenAscends

LEMMA LevelAt ==
  ASSUME NEW n \in Names, NEW d \in 0..Len(n.tail) + 1, NEW i \in 1..Len(Levels(n)[d])
  PROVE  AliasAt(n, d, Levels(n)[d][i])
<1> DEFINE L == Levels(n)
           N == Len(n.tail) + 1
           At(c) == \A j \in 1..Len(L[c]) : AliasAt(n, c, L[c][j])
           T == {c \in 0..N : At(c)}
<1>1. N \in Nat
  BY DEF Names
<1>2. L \in [0..N -> Seq(Names)] /\ L[0] = <<Lower(n)>> /\ \A c \in 1..N : L[c] = NextLevel(L[c - 1])
  BY LevelsAre DEF LevelOf
<1> HIDE DEF L
<1>3. 0 \in T
  <2> DEFINE x == Lower(n)
  <2>1. x \in Names /\ x.base = n.base /\ x.path = n.path /\ x.tail = n.tail /\ Len(n.tail) \in Nat
    <3>1. x \in Names
      BY ONLY n \in Names DEF Lower, Names
    <3>2. x.base = n.base /\ x.path = n.path /\ x.tail = n.tail
      BY ONLY n \in Names DEF Lower, Names
    <3>3. Len(n.tail) \in Nat
      BY ONLY n \in Names DEF Names
    <3>4. QED
      BY <3>1, <3>2, <3>3
  <2>2. AliasAt(n, 0, x)
    <3> HIDE DEF x
    <3>1. Taken(n)[x] = (IF n.path = x.path THEN 0 ELSE 1) + Len(n.tail) - Len(x.tail)
      BY ONLY <2>1 DEF Taken
    <3>2. Taken(n)[x] = 0
      BY ONLY <2>1, <3>1
    <3>3. QED
      BY ONLY <2>1, <3>2 DEF AliasAt
  <2>3. QED
    BY <1>1, <1>2, <2>2
<1>4. ASSUME NEW c \in 1..N, c - 1 \in T
      PROVE  c \in T
  <2> DEFINE l == L[c - 1]
             p == [j \in DOMAIN l |-> Shorter(l[j])]
  <2>a. c - 1 \in 0..N /\ c - 1 \in Nat /\ c = (c - 1) + 1
    BY <1>1
  <2>b. l \in Seq(Names)
    BY ONLY <1>2, <2>a
  <2>1. l \in Seq(Names) /\ c - 1 \in Nat /\ c = (c - 1) + 1
    BY <2>a, <2>b
  <2>2. \A j \in 1..Len(l) : AliasAt(n, c - 1, l[j])
    BY <1>4
  <2>3. \A j \in 1..Len(l) : /\ Shorter(l[j]) \in Seq(Names)
                             /\ \A k \in 1..Len(Shorter(l[j])) : AliasAt(n, c, Shorter(l[j])[k])
    BY <2>1, <2>2, ShorterAt
  <2> HIDE DEF l
  <2>4. p \in Seq(Seq(Names)) /\ Len(p) = Len(l) /\ \A j \in 1..Len(l) : p[j] = Shorter(l[j])
    <3> DEFINE Q == Seq(Names)
    <3>1. l \in Seq(Names) /\ DOMAIN l = 1..Len(l) /\ Len(l) \in Nat
      BY ONLY <2>1
    <3>2. \A j \in 1..Len(l) : Shorter(l[j]) \in Q
      BY ONLY <2>3
    <3> HIDE DEF Q
    <3>3. p = [j \in 1..Len(l) |-> Shorter(l[j])]
      BY ONLY <3>1
    <3>4. p \in Seq(Q) /\ Len(p) = Len(l) /\ \A j \in 1..Len(l) : p[j] = Shorter(l[j])
      BY ONLY <3>1, <3>2, <3>3
    <3>5. QED
      BY <3>4 DEF Q
  <2>5. L[c] = FlattenSeq(p)
    BY <1>2 DEF NextLevel, l
  <2> HIDE DEF p
  <2>6. ComesOf(L[c], p, Len(p))
    BY <2>4, <2>5, FlattenMembers
  <2>7. ASSUME NEW j \in 1..Len(L[c])
        PROVE  AliasAt(n, c, L[c][j])
    <3>1. PICK k \in 1..Len(p) : \E h \in 1..Len(p[k]) : L[c][j] = p[k][h]
      BY <2>6 DEF ComesOf
    <3>2. QED
      BY <2>3, <2>4, <3>1
  <2>8. QED
    BY <2>7
<1> HIDE DEF T
<1>5. \A c \in 0..N : c \in T
  BY ONLY <1>1, <1>3, <1>4, Induction, Zenon
<1>6. d \in T
  BY <1>5
<1>7. QED
  BY <1>6 DEF T, L

LEMMA AliasesAscend ==
  ASSUME NEW n \in Names
  PROVE  /\ canonicalPricingAliases(n) \in Seq(Names)
         /\ \A i \in 1..Len(canonicalPricingAliases(n)) : canonicalPricingAliases(n)[i].base = n.base
         /\ Ascends(canonicalPricingAliases(n), Taken(n))
<1> DEFINE L == Levels(n)
           N == Len(n.tail) + 1
           p == [d \in 1..Len(n.tail) + 2 |-> L[d - 1]]
           m == Taken(n)
<1>1. N \in Nat /\ Len(n.tail) \in Nat /\ Len(n.tail) + 2 = N + 1
  BY DEF Names
<1>2. CASE n = Blank
  <2>1. canonicalPricingAliases(n) = <<>>
    BY <1>2 DEF canonicalPricingAliases
  <2>2. QED
    BY <2>1 DEF Ascends
<1>3. CASE n # Blank
  <2>1. canonicalPricingAliases(n) = FlattenSeq(p)
    BY <1>3 DEF canonicalPricingAliases
  <2>2. L \in [0..N -> Seq(Names)]
    BY LevelsAre
  <2>3. \A d \in 0..N : \A i \in 1..Len(L[d]) : AliasAt(n, d, L[d][i])
    BY LevelAt
  <2> HIDE DEF L
  <2>4. p \in Seq(Seq(Names)) /\ Len(p) = N + 1 /\ \A d \in 1..N + 1 : p[d] = L[d - 1]
    BY <1>1, <2>2
  <2>5. m \in [Names -> Int]
    <3>1. \A x \in Names : Len(x.tail) \in Nat
      BY DEF Names
    <3>2. QED
      BY <1>1, <3>1 DEF Taken
  <2>6. ASSUME NEW d \in 1..Len(p), NEW i \in 1..Len(p[d])
        PROVE  m[p[d][i]] = d - 1 /\ p[d][i].base = n.base
    <3>1. d - 1 \in 0..N /\ p[d] = L[d - 1]
      BY <1>1, <2>4
    <3>2. AliasAt(n, d - 1, p[d][i])
      BY <2>3, <3>1
    <3>3. QED
      BY <3>2 DEF AliasAt
  <2> HIDE DEF p, m, N
  <2>7. \A d \in 1..Len(p) : Ascends(p[d], m)
    BY <2>6 DEF Ascends
  <2>8. \A d, k \in 1..Len(p) : d < k =>
           \A i \in 1..Len(p[d]) : \A j \in 1..Len(p[k]) : m[p[d][i]] <= m[p[k][j]]
    BY <2>6
  <2>9. Ascends(FlattenSeq(p), m) /\ ComesOf(FlattenSeq(p), p, Len(p)) /\ FlattenSeq(p) \in Seq(Names)
    BY <2>4, <2>5, <2>7, <2>8, FlattenAscends, FlattenType
  <2>10. ASSUME NEW i \in 1..Len(FlattenSeq(p))
         PROVE  FlattenSeq(p)[i].base = n.base
    <3>1. PICK k \in 1..Len(p) : \E j \in 1..Len(p[k]) : FlattenSeq(p)[i] = p[k][j]
      BY <2>9 DEF ComesOf
    <3>2. QED
      BY <2>6, <3>1
  <2>11. QED
    BY <2>1, <2>9, <2>10 DEF m
<1>4. QED
  BY <1>2, <1>3

KeysOf(q) == {q} \X Names
OfName(m, q) == [k \in KeysOf(q) |-> m[k[2]]]

LEMMA FoundIs ==
  ASSUME NEW catalog, NEW q, NEW x \in Names
  PROVE  /\ Found(catalog, q, x) \in Seq(KeysOf(q)) /\ Len(Found(catalog, q, x)) \in {0, 1}
         /\ \A i \in 1..Len(Found(catalog, q, x)) :
              /\ i = 1 /\ Found(catalog, q, x)[i] = Key(q, x) /\ Key(q, x) \in DOMAIN catalog
<1>1. Key(q, x) \in KeysOf(q)
  BY DEF KeysOf, Key
<1> DEFINE k == Key(q, x)
<1> HIDE DEF k
<1>2. CASE k \in DOMAIN catalog
  <2>1. Found(catalog, q, x) = <<k>>
    BY <1>2 DEF Found, k
  <2>2. QED
    BY <1>1, <1>2, <2>1 DEF k
<1>3. CASE k \notin DOMAIN catalog
  <2>1. Found(catalog, q, x) = <<>>
    BY <1>3 DEF Found, k
  <2>2. QED
    BY <2>1
<1>4. QED
  BY <1>2, <1>3

LEMMA KeysFoundAre ==
  ASSUME NEW catalog, NEW q, NEW s \in Seq(Names)
  PROVE  /\ KeysFound(catalog, q, s) \in Seq(KeysOf(q))
         /\ \A i \in 1..Len(KeysFound(catalog, q, s)) :
              /\ KeysFound(catalog, q, s)[i] \in DOMAIN catalog
              /\ \E j \in 1..Len(s) : KeysFound(catalog, q, s)[i] = Key(q, s[j])
         /\ \A m \in [Names -> Int] : Ascends(s, m) => Ascends(KeysFound(catalog, q, s), OfName(m, q))
<1> DEFINE p == [i \in DOMAIN s |-> Found(catalog, q, s[i])]
           t == FlattenSeq(p)
<1>1. \A i \in DOMAIN s : s[i] \in Names
  OBVIOUS
<1>2. \A i \in DOMAIN s : Found(catalog, q, s[i]) \in Seq(KeysOf(q))
  BY <1>1, FoundIs
<1>3. p \in Seq(Seq(KeysOf(q))) /\ Len(p) = Len(s) /\ \A i \in 1..Len(s) : p[i] = Found(catalog, q, s[i])
  BY <1>2
<1>4. KeysFound(catalog, q, s) = t
  BY DEF KeysFound
<1>5. \A k \in 1..Len(p) : \A i \in 1..Len(p[k]) :
        i = 1 /\ p[k][i] = Key(q, s[k]) /\ Key(q, s[k]) \in DOMAIN catalog
  BY <1>1, <1>3, FoundIs
<1> HIDE DEF p
<1>6. t \in Seq(KeysOf(q)) /\ ComesOf(t, p, Len(p))
  BY <1>3, FlattenType, FlattenMembers
<1>7. ASSUME NEW i \in 1..Len(t)
      PROVE  t[i] \in DOMAIN catalog /\ \E j \in 1..Len(s) : t[i] = Key(q, s[j])
  <2>1. PICK k \in 1..Len(p) : \E j \in 1..Len(p[k]) : t[i] = p[k][j]
    BY <1>6 DEF ComesOf
  <2>2. t[i] = Key(q, s[k]) /\ Key(q, s[k]) \in DOMAIN catalog
    BY <1>5, <2>1
  <2>3. QED
    BY <1>3, <2>2
<1>8. ASSUME NEW m \in [Names -> Int], Ascends(s, m)
      PROVE  Ascends(t, OfName(m, q))
  <2> DEFINE h == OfName(m, q)
  <2>1. h \in [KeysOf(q) -> Int]
    BY DEF OfName, KeysOf
  <2>2. \A j \in 1..Len(s) : h[Key(q, s[j])] = m[s[j]]
    BY <1>1 DEF OfName, KeysOf, Key
  <2> HIDE DEF h
  <2>3. \A k \in 1..Len(p) : \A i \in 1..Len(p[k]) : h[p[k][i]] = m[s[k]] /\ m[s[k]] \in Int
    BY <1>1, <1>3, <1>5, <2>2
  <2>4. \A k \in 1..Len(p) : Ascends(p[k], h)
    BY <2>3 DEF Ascends
  <2>5. \A n, k \in 1..Len(p) : n < k =>
           \A i \in 1..Len(p[n]) : \A j \in 1..Len(p[k]) : h[p[n][i]] <= h[p[k][j]]
    <3>1. ASSUME NEW n \in 1..Len(p), NEW k \in 1..Len(p), n < k,
                 NEW i \in 1..Len(p[n]), NEW j \in 1..Len(p[k])
          PROVE  h[p[n][i]] <= h[p[k][j]]
      <4>1. h[p[n][i]] = m[s[n]] /\ h[p[k][j]] = m[s[k]]
        BY <2>3
      <4>2. n \in 1..Len(s) /\ k \in 1..Len(s)
        BY <1>3, Zenon
      <4>3. n <= k
        <5>1. Len(s) \in Nat
          OBVIOUS
        <5>2. QED
          BY ONLY <3>1, <4>2, <5>1
      <4>4. m[s[n]] <= m[s[k]]
        BY ONLY <1>8, <4>2, <4>3 DEF Ascends
      <4>5. QED
        BY ONLY <4>1, <4>4
    <3>2. QED
      BY <3>1, Zenon
  <2>6. QED
    BY <1>3, <2>1, <2>4, <2>5, FlattenAscends DEF h
<1>9. QED
  BY <1>4, <1>6, <1>7, <1>8

LEMMA CandidatesAre ==
  ASSUME NEW r, r = Blank \/ r \in Names, NEW e \in Names
  PROVE  pricingLookupCandidates(r, e) \in Seq(Names)
<1>1. canonicalPricingAliases(e) \in Seq(Names)
  BY AliasesAscend
<1>2. canonicalPricingAliases(r) \in Seq(Names)
  <2>1. CASE r = Blank
    <3>1. canonicalPricingAliases(r) = <<>>
      BY <2>1 DEF canonicalPricingAliases
    <3>2. QED
      BY <3>1
  <2>2. QED
    BY <2>1, AliasesAscend
<1>3. QED
  BY <1>1, <1>2 DEF pricingLookupCandidates

LEMMA NoRequested ==
  ASSUME NEW e \in Names
  PROVE  pricingLookupCandidates(Blank, e) = canonicalPricingAliases(e)
<1>1. canonicalPricingAliases(Blank) = <<>>
  BY DEF canonicalPricingAliases
<1>2. canonicalPricingAliases(e) \in Seq(Names)
  BY AliasesAscend
<1>3. QED
  BY <1>1, <1>2, ConcatEmpty DEF pricingLookupCandidates

Listed(s) == \E S : s \in Seq(S)
Scoped(catalog, r, e, p) ==
  IF p = NoProvider THEN <<>> ELSE KeysFound(catalog, p, pricingLookupCandidates(r, e))
General(catalog, r, e) == KeysFound(catalog, NoProvider, pricingLookupCandidates(r, e))

LEMMA PriceKeysAre ==
  ASSUME NEW catalog, NEW r, NEW e, NEW p
  PROVE  PriceKeys(catalog, r, e, p) = Scoped(catalog, r, e, p) \o General(catalog, r, e)
BY DEF PriceKeys, Scoped, General

(* What PricesFit says of one catalog and one model.                        *)
KeysFit(keys, e) ==
  \A i \in 1..Len(keys) :
    /\ keys[i][2].base = e.base
    /\ keys[1][1] = keys[i][1] => TakenOff(e, keys[1]) <= TakenOff(e, keys[i])
    /\ keys[i][1] # NoProvider => keys[1][1] = keys[i][1]

LEMMA KeysOfOne ==
  ASSUME NEW catalog, NEW e \in Names, NEW q
  PROVE  /\ KeysFound(catalog, q, canonicalPricingAliases(e)) \in Seq(KeysOf(q))
         /\ \A i, j \in 1..Len(KeysFound(catalog, q, canonicalPricingAliases(e))) :
              LET t == KeysFound(catalog, q, canonicalPricingAliases(e))
              IN  /\ t[i][1] = q /\ t[i][2].base = e.base
                  /\ i <= j => TakenOff(e, t[i]) <= TakenOff(e, t[j])
<1> DEFINE s == canonicalPricingAliases(e)
           t == KeysFound(catalog, q, s)
           m == Taken(e)
<1>1. s \in Seq(Names) /\ (\A i \in 1..Len(s) : s[i].base = e.base) /\ Ascends(s, m)
  BY AliasesAscend
<1>2. m \in [Names -> Int]
  <2>1. Len(e.tail) \in Nat /\ \A x \in Names : Len(x.tail) \in Nat
    BY DEF Names
  <2>2. QED
    BY <2>1 DEF Taken
<1>3. \A x \in Names : m[x] = TakenOff(e, Key(q, x))
  BY DEF Taken, TakenOff, Key
<1> HIDE DEF s, m
<1>4. /\ t \in Seq(KeysOf(q)) /\ Ascends(t, OfName(m, q))
      /\ \A i \in 1..Len(t) : \E j \in 1..Len(s) : t[i] = Key(q, s[j])
  BY <1>1, <1>2, KeysFoundAre
<1> HIDE DEF t
<1>5. ASSUME NEW i \in 1..Len(t)
      PROVE  t[i][1] = q /\ t[i][2].base = e.base /\ OfName(m, q)[t[i]] = TakenOff(e, t[i])
  <2>1. PICK j \in 1..Len(s) : t[i] = Key(q, s[j])
    BY <1>4
  <2>2. s[j] \in Names /\ Key(q, s[j])[1] = q /\ Key(q, s[j])[2] = s[j] /\ s[j].base = e.base
    BY <1>1 DEF Key
  <2>3. Key(q, s[j]) \in KeysOf(q)
    BY <2>2 DEF KeysOf, Key
  <2>4. OfName(m, q)[Key(q, s[j])] = m[s[j]]
    BY <2>2, <2>3 DEF OfName
  <2>5. QED
    BY <1>3, <2>1, <2>2, <2>4
<1>6. \A i, j \in 1..Len(t) : i <= j => TakenOff(e, t[i]) <= TakenOff(e, t[j])
  BY <1>4, <1>5 DEF Ascends
<1>7. QED
  BY <1>4, <1>5, <1>6 DEF t, s

LEMMA KeysFitAlways ==
  ASSUME NEW catalog, NEW e \in Names, NEW p
  PROVE  KeysFit(PriceKeys(catalog, Blank, e, p), e) /\ Listed(PriceKeys(catalog, Blank, e, p))
<1> DEFINE s == canonicalPricingAliases(e)
           a == Scoped(catalog, Blank, e, p)
           b == General(catalog, Blank, e)
           c == a \o b
           K == KeysOf(p) \cup KeysOf(NoProvider)
<1>1. pricingLookupCandidates(Blank, e) = s
  BY NoRequested
<1>2. /\ b \in Seq(KeysOf(NoProvider))
      /\ \A i, j \in 1..Len(b) : /\ b[i][1] = NoProvider /\ b[i][2].base = e.base
                                 /\ i <= j => TakenOff(e, b[i]) <= TakenOff(e, b[j])
  BY <1>1, KeysOfOne DEF General
<1>3. /\ a \in Seq(KeysOf(p))
      /\ \A i, j \in 1..Len(a) : /\ a[i][1] = p /\ a[i][2].base = e.base /\ p # NoProvider
                                 /\ i <= j => TakenOff(e, a[i]) <= TakenOff(e, a[j])
  <2>1. CASE p = NoProvider
    <3>1. a = <<>>
      BY <2>1 DEF Scoped
    <3> HIDE DEF a
    <3>2. QED
      BY <3>1
  <2>2. CASE p # NoProvider
    <3>1. a = KeysFound(catalog, p, s)
      BY <1>1, <2>2 DEF Scoped
    <3> HIDE DEF a
    <3>2. QED
      BY <2>2, <3>1, KeysOfOne
  <2>3. QED
    BY <2>1, <2>2
<1>4. PriceKeys(catalog, Blank, e, p) = c
  BY PriceKeysAre
<1> HIDE DEF a, b
<1>5. a \in Seq(K) /\ b \in Seq(K)
  <2>1. KeysOf(p) \subseteq K /\ KeysOf(NoProvider) \subseteq K
    OBVIOUS
  <2> HIDE DEF K
  <2>2. \A i \in 1..Len(a) : a[i] \in K
    BY <1>3, <2>1
  <2>3. \A i \in 1..Len(b) : b[i] \in K
    BY <1>2, <2>1
  <2>4. QED
    BY <1>2, <1>3, <2>2, <2>3
<1> HIDE DEF K
<1>6. /\ c \in Seq(K) /\ Len(a) \in Nat /\ Len(b) \in Nat /\ Len(c) = Len(a) + Len(b)
      /\ \A i \in 1..Len(a) : c[i] = a[i]
      /\ \A i \in 1..Len(c) : i > Len(a) => i - Len(a) \in 1..Len(b) /\ c[i] = b[i - Len(a)]
  BY <1>5
<1> HIDE DEF c
<1>7. ASSUME NEW i \in 1..Len(c)
      PROVE  /\ c[i][2].base = e.base
             /\ c[1][1] = c[i][1] => TakenOff(e, c[1]) <= TakenOff(e, c[i])
             /\ c[i][1] # NoProvider => c[1][1] = c[i][1]
  <2>1. CASE i <= Len(a)
    <3>1. i \in 1..Len(a) /\ 1 \in 1..Len(a) /\ 1 <= i /\ c[i] = a[i] /\ c[1] = a[1]
      BY <1>6, <2>1
    <3>2. QED
      BY <1>3, <3>1
  <2>2. CASE i > Len(a) /\ Len(a) = 0
    <3>1. i \in 1..Len(b) /\ 1 \in 1..Len(b) /\ 1 <= i /\ c[i] = b[i] /\ c[1] = b[1]
      BY <1>6, <2>2
    <3>2. QED
      BY <1>2, <3>1
  <2>3. CASE i > Len(a) /\ Len(a) # 0
    <3>1. i - Len(a) \in 1..Len(b) /\ 1 \in 1..Len(a) /\ c[i] = b[i - Len(a)] /\ c[1] = a[1]
      BY <1>6, <2>3
    <3>2. c[i][1] = NoProvider /\ c[i][2].base = e.base
      BY <1>2, <3>1
    <3>3. c[1][1] # NoProvider
      BY <1>3, <3>1
    <3>4. QED
      BY <3>2, <3>3
  <2>4. QED
    BY <1>6, <2>1, <2>2, <2>3
<1>8. QED
  BY <1>4, <1>6, <1>7 DEF KeysFit, Listed

PricesFitOf(f) ==
  \A cat \in Catalogs :
    LET found == ToSet(PriceKeys(cat, Blank, f.effective, f.provider))
        best == Head(PriceKeys(cat, Blank, f.effective, f.provider))
    IN  \A k \in found :
          /\ k[2].base = f.effective.base
          /\ best[1] = k[1] => TakenOff(f.effective, best) <= TakenOff(f.effective, k)
          /\ k[1] # NoProvider => best[1] = k[1]

LEMMA PricesFitOne ==
  ASSUME NEW f, f.effective \in Names
  PROVE  PricesFitOf(f)
<1>1. ASSUME NEW cat \in Catalogs,
             NEW k \in ToSet(PriceKeys(cat, Blank, f.effective, f.provider))
      PROVE  LET best == Head(PriceKeys(cat, Blank, f.effective, f.provider))
             IN  /\ k[2].base = f.effective.base
                 /\ best[1] = k[1] => TakenOff(f.effective, best) <= TakenOff(f.effective, k)
                 /\ k[1] # NoProvider => best[1] = k[1]
  <2> DEFINE e == f.effective
             c == PriceKeys(cat, Blank, e, f.provider)
  <2>1. KeysFit(c, e) /\ Listed(c)
    BY KeysFitAlways
  <2>2. k \in ToSet(c)
    OBVIOUS
  <2> HIDE DEF c, e
  <2>3. Len(c) \in Nat /\ DOMAIN c = 1..Len(c) /\ c \in Seq({c[i] : i \in 1..Len(c)})
    BY <2>1 DEF Listed
  <2>4. PICK i \in 1..Len(c) : k = c[i]
    BY <2>2, <2>3 DEF ToSet
  <2>5. Head(c) = c[1]
    BY <2>3
  <2>6. QED
    BY <2>1, <2>4, <2>5 DEF KeysFit, c, e
<1>2. QED
  BY <1>1 DEF PricesFitOf

(***************************************************************************)
(* What every reported request's fact is like.                             *)
(***************************************************************************)
PriceOK(p) == p.input \in Nat /\ p.cached \in Nat /\ p.output \in Nat /\ p.rate \in Nat
Known(n) == n = Blank \/ n \in Names

LEMMA PriceKeysTyped ==
  ASSUME NEW catalog, NEW r, Known(r), NEW e \in Names, NEW p
  PROVE  PriceKeys(catalog, r, e, p) \in Seq(DOMAIN catalog)
<1> DEFINE s == pricingLookupCandidates(r, e)
           D == DOMAIN catalog
<1>1. s \in Seq(Names)
  BY CandidatesAre DEF Known
<1> HIDE DEF s
<1>2. ASSUME NEW q
      PROVE  KeysFound(catalog, q, s) \in Seq(D)
  <2> DEFINE t == KeysFound(catalog, q, s)
  <2>1. t \in Seq(KeysOf(q)) /\ \A i \in 1..Len(t) : t[i] \in D
    BY <1>1, KeysFoundAre
  <2> HIDE DEF t, D
  <2>2. t \in Seq(D)
    BY <2>1
  <2>3. QED
    BY <2>2 DEF t
<1> DEFINE a == Scoped(catalog, r, e, p)
           b == General(catalog, r, e)
<1>3. b \in Seq(D)
  BY <1>2 DEF General, s
<1>4. a \in Seq(D)
  <2>1. CASE p = NoProvider
    <3>1. a = <<>>
      BY <2>1 DEF Scoped
    <3>2. QED
      BY <3>1
  <2>2. CASE p # NoProvider
    BY <1>2, <2>2 DEF Scoped, s
  <2>3. QED
    BY <2>1, <2>2
<1>5. PriceKeys(catalog, r, e, p) = a \o b
  BY PriceKeysAre
<1> HIDE DEF a, b, D
<1>6. a \o b \in Seq(D)
  BY <1>3, <1>4
<1>7. QED
  BY <1>5, <1>6 DEF D

LEMMA PricesAreNumbers ==
  ASSUME NEW c \in Catalogs, NEW r, Known(r), NEW e \in Names, NEW p
  PROVE  PriceOK(ResolvePricing(c, r, e, p))
<1> DEFINE found == PriceKeys(c, r, e, p)
<1>1. found \in Seq(DOMAIN c)
  BY PriceKeysTyped
<1>2. ResolvePricing(c, r, e, p) = IF found = <<>> THEN Unpriced ELSE c[Head(found)]
  BY DEF ResolvePricing
<1> HIDE DEF found
<1>3. PriceOK(Unpriced)
  BY DEF PriceOK, Unpriced
<1>4. CASE found # <<>>
  <2>1. Head(found) \in DOMAIN c
    BY <1>1, <1>4
  <2>2. \A k \in DOMAIN c : {c[k].input, c[k].cached, c[k].output, c[k].rate} \subseteq Nat
    BY PricingAssumption
  <2>3. PriceOK(c[Head(found)])
    BY <2>1, <2>2 DEF PriceOK
  <2>4. QED
    BY <1>2, <1>4, <2>3
<1>5. QED
  BY <1>2, <1>3, <1>4

(* The price of a token from the cache. *)
CachedPrice(p) == IF p.cached > 0 THEN p.cached ELSE p.input

LEMMA CostIs ==
  ASSUME NEW u, u.prompt \in Nat, u.cached \in Nat, u.completion \in Nat, u.cached <= u.prompt,
         NEW p, PriceOK(p)
  PROVE  /\ NativeCost(u, p) = (u.prompt - u.cached) * p.input + u.cached * CachedPrice(p) + u.completion * p.output
         /\ NativeCost(u, p) \in Nat /\ UsdCost(u, p) \in Nat /\ CachedPrice(p) \in Nat
<1>1. Least(u.cached, u.prompt) = u.cached
  BY DEF Least
<1>2. NativeCost(u, p) = (u.prompt - u.cached) * p.input + u.cached * CachedPrice(p) + u.completion * p.output
  BY <1>1 DEF NativeCost, normalizeCachedPromptTokens, CachedPrice
<1>3. p.input \in Nat /\ CachedPrice(p) \in Nat /\ p.output \in Nat /\ p.rate \in Nat /\ u.prompt - u.cached \in Nat
  BY DEF PriceOK, CachedPrice
<1> DEFINE a == u.prompt - u.cached
           k == CachedPrice(p)
<1>4. \A m, n \in Nat : m * n \in Nat
  OBVIOUS
<1>5. a * p.input \in Nat /\ u.cached * k \in Nat /\ u.completion * p.output \in Nat
  BY <1>3, <1>4
<1>6. NativeCost(u, p) \in Nat
  BY <1>2, <1>5
<1>7. UsdCost(u, p) \in Nat
  BY <1>3, <1>4, <1>6 DEF UsdCost
<1>8. QED
  BY <1>2, <1>3, <1>6, <1>7

FactOK(f) ==
  /\ f.requested \in Names /\ f.effective \in Names
  /\ f.usage \in UsageType /\ f.usage.cached <= f.usage.prompt
  /\ f.cost \in Nat /\ f.usd \in Nat
  /\ f.status = "fixed" \/ f.status = "unpriced" \/ f.status = ""
  /\ f.status # "fixed" => f.cost = 0 /\ f.usd = 0

PricingInv ==
  /\ live \in Catalogs /\ IsFiniteSet(Facts)
  /\ \A f \in Facts : facts[f] \in Nat /\ FactOK(f)

LEMMA NamesAreKnown ==
  ASSUME NEW n \in Names
  PROVE  Known(n)
BY DEF Known

LEMMA UsageIs ==
  ASSUME NEW u \in UsageType
  PROVE  u.prompt \in Nat /\ u.cached \in Nat /\ u.completion \in Nat
BY DEF UsageType

(* Nothing costs anything at no price. *)
LEMMA UnpricedIsFree ==
  ASSUME NEW u \in UsageType, u.cached <= u.prompt, NEW cur
  PROVE  LET p == [Unpriced EXCEPT !.cur = cur]
         IN  /\ PriceOK(p) /\ PriceOK(Unpriced)
             /\ NativeCost(u, p) = 0 /\ UsdCost(u, p) = 0 /\ NativeCost(u, Unpriced) = 0 /\ UsdCost(u, Unpriced) = 0
<1>1. ASSUME NEW p, p.input = 0, p.cached = 0, p.output = 0, p.rate = 0
      PROVE  PriceOK(p) /\ NativeCost(u, p) = 0 /\ UsdCost(u, p) = 0
  <2>1. PriceOK(p) /\ CachedPrice(p) = 0
    BY <1>1 DEF PriceOK, CachedPrice
  <2>2. u.prompt \in Nat /\ u.cached \in Nat /\ u.completion \in Nat
    BY UsageIs
  <2>3. NativeCost(u, p) = (u.prompt - u.cached) * p.input + u.cached * CachedPrice(p) + u.completion * p.output
    BY <2>1, <2>2, CostIs
  <2>4. NativeCost(u, p) = 0
    BY <1>1, <2>1, <2>2, <2>3
  <2>5. UsdCost(u, p) = 0
    BY <1>1, <2>4 DEF UsdCost
  <2>6. QED
    BY <2>1, <2>4, <2>5
<1> DEFINE q == [Unpriced EXCEPT !.cur = cur]
<1>2. q.input = 0 /\ q.cached = 0 /\ q.output = 0 /\ q.rate = 0
  BY DEF Unpriced
<1>3. Unpriced.input = 0 /\ Unpriced.cached = 0 /\ Unpriced.output = 0 /\ Unpriced.rate = 0
  BY DEF Unpriced
<1> HIDE DEF q
<1>4. PriceOK(q) /\ NativeCost(u, q) = 0 /\ UsdCost(u, q) = 0
  BY <1>1, <1>2
<1>5. PriceOK(Unpriced) /\ NativeCost(u, Unpriced) = 0 /\ UsdCost(u, Unpriced) = 0
  BY <1>1, <1>3
<1>6. QED
  BY <1>4, <1>5 DEF q

LEMMA FactFits ==
  ASSUME NEW r \in Requests, NEW st, NEW p, PriceOK(p),
         st = "fixed" \/ st = "unpriced" \/ st = "",
         st # "fixed" => NativeCost(r.usage, p) = 0 /\ UsdCost(r.usage, p) = 0
  PROVE  FactOK(Fact(r, st, p))
<1> DEFINE f == Fact(r, st, p)
<1>1. /\ f.requested = r.requested /\ f.effective = r.effective /\ f.usage = r.usage /\ f.status = st
      /\ f.cost = NativeCost(r.usage, p) /\ f.usd = UsdCost(r.usage, p)
  BY DEF Fact
<1>2. r.requested \in Names /\ r.effective \in Names /\ r.usage \in UsageType /\ r.usage.cached <= r.usage.prompt
  BY PricingAssumption
<1>3. NativeCost(r.usage, p) \in Nat /\ UsdCost(r.usage, p) \in Nat
  BY <1>2, UsageIs, CostIs
<1> HIDE DEF f
<1>4. FactOK(f)
  BY <1>1, <1>2, <1>3 DEF FactOK
<1>5. QED
  BY <1>4 DEF f

LEMMA ResolvedFits ==
  ASSUME NEW r \in Requests, live \in Catalogs
  PROVE  FactOK(resolveFixedPricing(r)) /\ FactOK(Fact(r, "", Unpriced))
<1> DEFINE p == ResolvePricing(live, r.requested, r.effective, r.provider)
           q == [Unpriced EXCEPT !.cur = "USD"]
<1>1. r.requested \in Names /\ r.effective \in Names /\ r.usage \in UsageType /\ r.usage.cached <= r.usage.prompt
  BY PricingAssumption
<1>2. PriceOK(p)
  BY <1>1, NamesAreKnown, PricesAreNumbers
<1>3. /\ PriceOK(q) /\ PriceOK(Unpriced) /\ NativeCost(r.usage, q) = 0 /\ UsdCost(r.usage, q) = 0
      /\ NativeCost(r.usage, Unpriced) = 0 /\ UsdCost(r.usage, Unpriced) = 0
  BY <1>1, UnpricedIsFree
<1>4. \/ resolveFixedPricing(r) = Fact(r, "fixed", q)
      \/ resolveFixedPricing(r) = Fact(r, "unpriced", Unpriced)
      \/ resolveFixedPricing(r) = Fact(r, "fixed", p)
  BY DEF resolveFixedPricing
<1> HIDE DEF p, q
<1>5. FactOK(Fact(r, "fixed", q)) /\ FactOK(Fact(r, "fixed", p))
  BY <1>2, <1>3, FactFits
<1>6. FactOK(Fact(r, "unpriced", Unpriced)) /\ FactOK(Fact(r, "", Unpriced))
  BY <1>3, FactFits
<1>7. QED
  BY <1>4, <1>5, <1>6

LEMMA CountedFits ==
  ASSUME PricingInv, NEW x, FactOK(x), facts' = facts (+) SetToBag({x}), live' \in Catalogs
  PROVE  PricingInv'
<1>1. IsFiniteSet(DOMAIN facts) /\ \A f \in DOMAIN facts : facts[f] \in Nat /\ FactOK(f)
  BY DEF PricingInv, Facts, BagToSet
<1> DEFINE D == (DOMAIN facts) \cup {x}
           s == SetToBag({x})
<1>2. DOMAIN s = {x} /\ s[x] = 1
  BY DEF SetToBag
<1>3. facts' = [e \in (DOMAIN facts) \cup (DOMAIN s) |->
                  (IF e \in DOMAIN facts THEN facts[e] ELSE 0) + (IF e \in DOMAIN s THEN s[e] ELSE 0)]
  BY DEF (+)
<1> HIDE DEF s
<1>4. DOMAIN facts' = D
  BY <1>2, <1>3
<1>5. \A e \in D : facts'[e] \in Nat
  <2>1. ASSUME NEW e \in D PROVE facts'[e] \in Nat
    <3>1. facts'[e] = (IF e \in DOMAIN facts THEN facts[e] ELSE 0) + (IF e \in DOMAIN s THEN s[e] ELSE 0)
      BY <1>2, <1>3
    <3>2. (IF e \in DOMAIN facts THEN facts[e] ELSE 0) \in Nat /\ (IF e \in DOMAIN s THEN s[e] ELSE 0) \in Nat
      BY <1>1, <1>2
    <3>3. QED
      BY <3>1, <3>2
  <2>2. QED
    BY <2>1
<1>6. IsFiniteSet(D)
  BY <1>1, FS_AddElement
<1>7. \A e \in D : FactOK(e)
  BY <1>1
<1> HIDE DEF D
<1>8. QED
  BY <1>4, <1>5, <1>6, <1>7 DEF PricingInv, Facts, BagToSet

(* Facts are added by requests and by imports.                              *)
LEMMA PricingInvInvariant == PricingSpec => []PricingInv
<1>1. ASSUME PricingInit
      PROVE  PricingInv
  <2>1. live \in Catalogs /\ facts = EmptyBag
    BY <1>1 DEF PricingInit
  <2>2. DOMAIN facts = {}
    BY <2>1 DEF EmptyBag, SetToBag
  <2>3. QED
    BY <2>1, <2>2, FS_EmptySet DEF PricingInv, Facts, BagToSet
<1>2. ASSUME PricingInv, [PricingNext]_pricingVars
      PROVE  PricingInv'
  <2>1. live \in Catalogs
    BY <1>2 DEF PricingInv
  <2>2. CASE PricesChange
    <3>1. live' \in Catalogs /\ facts' = facts
      BY <2>2 DEF PricesChange
    <3>2. QED
      BY <1>2, <3>1 DEF PricingInv, Facts, BagToSet
  <2>3. CASE UNCHANGED pricingVars
    <3>1. live' = live /\ facts' = facts
      BY <2>3 DEF pricingVars
    <3>2. QED
      BY <1>2, <3>1 DEF PricingInv, Facts, BagToSet
  <2>4. ASSUME NEW r \in Requests, Reported(r)
        PROVE  PricingInv'
    <3> DEFINE x == resolveFixedPricing(r)
    <3>1. facts' = facts (+) SetToBag({x}) /\ live' \in Catalogs
      BY <2>1, <2>4 DEF Reported
    <3>2. FactOK(x)
      BY <2>1, ResolvedFits
    <3> HIDE DEF x
    <3>3. QED
      BY <1>2, <3>1, <3>2, CountedFits
  <2>5. ASSUME NEW r \in Requests, Imported(r)
        PROVE  PricingInv'
    <3> DEFINE x == Fact(r, "", Unpriced)
    <3>1. facts' = facts (+) SetToBag({x}) /\ live' \in Catalogs
      BY <2>1, <2>5 DEF Imported
    <3>2. FactOK(x)
      BY <2>1, ResolvedFits
    <3> HIDE DEF x
    <3>3. QED
      BY <1>2, <3>1, <3>2, CountedFits
  <2>6. QED
    BY <1>2, <2>2, <2>3, <2>4, <2>5 DEF PricingNext
<1>3. QED
  BY <1>1, <1>2, PTL DEF PricingSpec

(***************************************************************************)
(* A price of the tokens of many requests is the sum of theirs.            *)
(***************************************************************************)
LEMMA TotalIs ==
  ASSUME NEW v, IsFiniteSet(DOMAIN v), NEW w, \A f \in DOMAIN v : w[f] = facts[f] * v[f]
  PROVE  Total(v) = SumOf(DOMAIN v, w)
<1> DEFINE S == DOMAIN v
           z == [f \in S |-> facts[f] * v[f]]
<1>1. Total(v) = SumFunctionOnSet(z, DOMAIN z)
  BY DEF Total, SumFunction
<1>2. DOMAIN z = S /\ \A f \in S : z[f] = w[f]
  OBVIOUS
<1>3. Total(v) = SumOf(S, z)
  BY <1>1, <1>2 DEF SumOf
<1> HIDE DEF z, S
<1>4. IsFiniteSet(S)
  BY DEF S
<1>5. SumOf(S, z) = SumOf(S, w)
  BY <1>2, <1>4, SumAgrees
<1>6. QED
  BY <1>3, <1>5 DEF S

LEMMA Products ==
  ASSUME NEW n \in Nat, NEW m \in Nat
  PROVE  n * m \in Nat
OBVIOUS

LEMMA Spread ==
  ASSUME NEW n \in Nat, NEW a \in Nat, NEW b \in Nat, NEW c \in Nat,
         NEW i \in Nat, NEW j \in Nat, NEW k \in Nat
  PROVE  n * (a * i + b * j + c * k) = (n * a) * i + (n * b) * j + (n * c) * k
<1>1. n * (a * i + b * j + c * k) = n * (a * i) + n * (b * j) + n * (c * k)
  <2> DEFINE x == a * i
             y == b * j
             z == c * k
  <2>1. x \in Nat /\ y \in Nat /\ z \in Nat
    BY Products
  <2> HIDE DEF x, y, z
  <2>2. n * (x + y + z) = n * x + n * y + n * z
    BY <2>1
  <2>3. QED
    BY <2>2 DEF x, y, z
<1>2. n * (a * i) = (n * a) * i
  OBVIOUS
<1>3. n * (b * j) = (n * b) * j
  OBVIOUS
<1>4. n * (c * k) = (n * c) * k
  OBVIOUS
<1>5. QED
  BY <1>1, <1>2, <1>3, <1>4

Costs(R, p) == [f \in R |-> facts[f] * NativeCost(f.usage, p)]
UsdCosts(R, p) == [f \in R |-> facts[f] * UsdCost(f.usage, p)]

(* The tokens of R, as sums over its members. *)
TokenSums(R) ==
  [prompt |-> SumOf(R, [f \in R |-> facts[f] * f.usage.prompt]),
   cached |-> SumOf(R, [f \in R |-> facts[f] * f.usage.cached]),
   completion |-> SumOf(R, [f \in R |-> facts[f] * f.usage.completion])]

LEMMA TokensAre ==
  ASSUME PricingInv, NEW R \in SUBSET Facts
  PROVE  IsFiniteSet(R) /\ Tokens(R) = TokenSums(R)
<1>1. IsFiniteSet(R)
  BY FS_Subset DEF PricingInv
<1> DEFINE a == [f \in R |-> f.usage.prompt]
           b == [f \in R |-> f.usage.cached]
           c == [f \in R |-> f.usage.completion]
<1>2. Total(a) = SumOf(R, [f \in R |-> facts[f] * f.usage.prompt])
  BY <1>1, TotalIs
<1>3. Total(b) = SumOf(R, [f \in R |-> facts[f] * f.usage.cached])
  BY <1>1, TotalIs
<1>4. Total(c) = SumOf(R, [f \in R |-> facts[f] * f.usage.completion])
  BY <1>1, TotalIs
<1>5. QED
  BY <1>1, <1>2, <1>3, <1>4 DEF Tokens, TokenSums

LEMMA TokensLinear ==
  ASSUME PricingInv, NEW R \in SUBSET Facts, NEW p, PriceOK(p)
  PROVE  /\ Tokens(R).prompt \in Nat /\ Tokens(R).cached \in Nat /\ Tokens(R).completion \in Nat
         /\ Tokens(R).cached <= Tokens(R).prompt
         /\ NativeCost(Tokens(R), p) = SumOf(R, Costs(R, p)) /\ UsdCost(Tokens(R), p) = SumOf(R, UsdCosts(R, p))
<1> DEFINE u == Tokens(R)
           P == [f \in R |-> facts[f] * f.usage.prompt]
           C == [f \in R |-> facts[f] * f.usage.cached]
           O == [f \in R |-> facts[f] * f.usage.completion]
           D == [f \in R |-> facts[f] * (f.usage.prompt - f.usage.cached)]
           i == p.input
           j == CachedPrice(p)
           k == p.output
<1>1. /\ IsFiniteSet(R)
      /\ u.prompt = SumOf(R, P) /\ u.cached = SumOf(R, C) /\ u.completion = SumOf(R, O)
  <2>1. IsFiniteSet(R) /\ u = TokenSums(R)
    BY TokensAre
  <2>2. TokenSums(R).prompt = SumOf(R, P)
    BY ONLY TRUE DEF TokenSums
  <2>3. TokenSums(R).cached = SumOf(R, C)
    BY ONLY TRUE DEF TokenSums
  <2>4. TokenSums(R).completion = SumOf(R, O)
    BY ONLY TRUE DEF TokenSums
  <2> HIDE DEF u, P, C, O
  <2>5. QED
    BY <2>1, <2>2, <2>3, <2>4
<1>2. ASSUME NEW f \in R
      PROVE  /\ facts[f] \in Nat /\ f.usage \in UsageType /\ f.usage.cached <= f.usage.prompt
             /\ f.usage.prompt \in Nat /\ f.usage.cached \in Nat /\ f.usage.completion \in Nat
             /\ f.usage.prompt - f.usage.cached \in Nat
  <2>1. facts[f] \in Nat /\ FactOK(f)
    BY DEF PricingInv
  <2>2. f.usage \in UsageType /\ f.usage.cached <= f.usage.prompt
    BY <2>1 DEF FactOK
  <2>3. f.usage.prompt \in Nat /\ f.usage.cached \in Nat /\ f.usage.completion \in Nat
    BY <2>2, UsageIs
  <2>4. QED
    BY <2>1, <2>2, <2>3
<1>3. i \in Nat /\ j \in Nat /\ k \in Nat /\ p.rate \in Nat
  BY DEF PriceOK, CachedPrice
<1>4. \A f \in R : P[f] \in Nat /\ C[f] \in Nat /\ O[f] \in Nat /\ D[f] \in Nat
  BY <1>2, Products
<1>5. \A f \in R : P[f] = D[f] + C[f]
  <2>1. ASSUME NEW f \in R PROVE P[f] = D[f] + C[f]
    <3> DEFINE n == facts[f]
               a == f.usage.prompt
               b == f.usage.cached
    <3>1. P[f] = n * a /\ D[f] = n * (a - b) /\ C[f] = n * b /\ n \in Nat /\ a \in Nat /\ b \in Nat
      BY <1>2
    <3> HIDE DEF n, a, b
    <3>2. n * a = n * (a - b) + n * b
      BY <3>1
    <3> HIDE DEF P, D, C
    <3>3. QED
      BY <3>1, <3>2
  <2>2. QED
    BY <2>1
<1>6. \A f \in R : Costs(R, p)[f] = D[f] * i + C[f] * j + O[f] * k
  <2>1. ASSUME NEW f \in R PROVE Costs(R, p)[f] = D[f] * i + C[f] * j + O[f] * k
    <3> DEFINE n == facts[f]
               a == f.usage.prompt - f.usage.cached
               b == f.usage.cached
               c == f.usage.completion
    <3>1. NativeCost(f.usage, p) = a * i + b * j + c * k
      BY <1>2, CostIs
    <3>2. D[f] = n * a /\ C[f] = n * b /\ O[f] = n * c /\ Costs(R, p)[f] = n * NativeCost(f.usage, p)
      BY DEF Costs
    <3>3. n \in Nat /\ a \in Nat /\ b \in Nat /\ c \in Nat
      BY <1>2
    <3> HIDE DEF n, a, b, c, i, j, k, P, D, C, O
    <3>4. n * (a * i + b * j + c * k) = (n * a) * i + (n * b) * j + (n * c) * k
      BY <1>3, <3>3, Spread
    <3>5. QED
      BY <3>1, <3>2, <3>4
  <2>2. QED
    BY <2>1
<1>7. \A f \in R : UsdCosts(R, p)[f] = Costs(R, p)[f] * p.rate /\ Costs(R, p)[f] \in Nat
  <2>1. ASSUME NEW f \in R PROVE UsdCosts(R, p)[f] = Costs(R, p)[f] * p.rate /\ Costs(R, p)[f] \in Nat
    <3> DEFINE n == facts[f]
               x == NativeCost(f.usage, p)
               y == p.rate
    <3>1. n \in Nat /\ x \in Nat /\ y \in Nat
      BY <1>2, <1>3, CostIs
    <3>2. UsdCosts(R, p)[f] = n * (x * y) /\ Costs(R, p)[f] = n * x
      BY DEF UsdCosts, Costs, UsdCost
    <3> HIDE DEF n, x, y
    <3>3. n * (x * y) = (n * x) * y /\ n * x \in Nat
      BY <3>1
    <3>4. QED
      BY <3>2, <3>3 DEF y
  <2>2. QED
    BY <2>1
<1> DEFINE Di == [f \in R |-> D[f] * i]
           Cj == [f \in R |-> C[f] * j]
           Ok == [f \in R |-> O[f] * k]
           DC == [f \in R |-> Di[f] + Cj[f]]
           K == Costs(R, p)
           N == UsdCosts(R, p)
<1>8. /\ \A f \in R : Di[f] = D[f] * i /\ Cj[f] = C[f] * j /\ Ok[f] = O[f] * k /\ DC[f] = Di[f] + Cj[f]
      /\ \A f \in R : Di[f] \in Nat /\ Cj[f] \in Nat /\ Ok[f] \in Nat
  <2>1. \A f \in R : Di[f] = D[f] * i /\ Cj[f] = C[f] * j /\ Ok[f] = O[f] * k /\ DC[f] = Di[f] + Cj[f]
    <3> HIDE DEF D, C, O, i, j, k
    <3>1. QED
      OBVIOUS
  <2>2. \A f \in R : Di[f] \in Nat /\ Cj[f] \in Nat /\ Ok[f] \in Nat
    <3> HIDE DEF D, C, O, i, j, k, Di, Cj, Ok, DC, P
    <3>1. QED
      BY <1>3, <1>4, <2>1, Products
  <2>3. QED
    BY <2>1, <2>2
<1> HIDE DEF P, C, O, D, Di, Cj, Ok, DC, K, N, u, i, j, k
<1>9. \A f \in R : DC[f] \in Nat
  BY <1>8
<1>10. WholeOn(R, P) /\ WholeOn(R, C) /\ WholeOn(R, O) /\ WholeOn(R, D)
  BY <1>4 DEF WholeOn
<1>11. WholeOn(R, Di) /\ WholeOn(R, Cj) /\ WholeOn(R, Ok) /\ WholeOn(R, DC)
  BY <1>8, <1>9 DEF WholeOn
<1>12. SumOf(R, P) \in Nat /\ SumOf(R, C) \in Nat /\ SumOf(R, O) \in Nat /\ SumOf(R, D) \in Nat
  BY <1>1, <1>4, SumNatural
<1>13. SumOf(R, P) = SumOf(R, D) + SumOf(R, C)
  BY <1>1, <1>5, <1>10, SumPlus
<1>14. SumOf(R, Di) = SumOf(R, D) * i /\ SumOf(R, Cj) = SumOf(R, C) * j /\ SumOf(R, Ok) = SumOf(R, O) * k
  <2>1. i \in Int /\ j \in Int /\ k \in Int
    BY <1>3
  <2>2. QED
    BY <1>1, <1>8, <1>10, <2>1, SumTimes
<1>15. SumOf(R, DC) = SumOf(R, Di) + SumOf(R, Cj)
  BY <1>1, <1>8, <1>11, SumPlus
<1>16. SumOf(R, K) = SumOf(R, DC) + SumOf(R, Ok)
  <2>1. \A f \in R : K[f] = DC[f] + Ok[f]
    BY <1>6, <1>8 DEF K
  <2>2. QED
    BY <1>1, <1>11, <2>1, SumPlus
<1>17. u.prompt \in Nat /\ u.cached \in Nat /\ u.completion \in Nat /\ u.cached <= u.prompt
  BY <1>1, <1>12, <1>13
<1>18. NativeCost(u, p) = (u.prompt - u.cached) * i + u.cached * j + u.completion * k
  BY <1>17, CostIs DEF i, j, k
<1>19. u.prompt - u.cached = SumOf(R, D)
  BY <1>1, <1>12, <1>13
<1>20. NativeCost(u, p) = SumOf(R, K)
  <2>1. NativeCost(u, p) = SumOf(R, D) * i + SumOf(R, C) * j + SumOf(R, O) * k
    BY <1>1, <1>18, <1>19
  <2>2. QED
    BY <1>14, <1>15, <1>16, <2>1
<1>21. SumOf(R, N) = SumOf(R, K) * p.rate
  <2>1. WholeOn(R, K) /\ p.rate \in Int /\ \A f \in R : N[f] = K[f] * p.rate
    BY <1>3, <1>7 DEF WholeOn, K, N
  <2>2. QED
    BY <1>1, <2>1, SumTimes
<1>22. UsdCost(u, p) = SumOf(R, N)
  BY <1>20, <1>21 DEF UsdCost
<1>23. QED
  BY <1>17, <1>20, <1>22 DEF u, K, N

(***************************************************************************)
(* The pricing report gives what was fixed.                                *)
(***************************************************************************)
RowKey == [f \in Facts |-> <<f.requested, f.effective, f.provider, f.status, f.cur>>]
RowOf == [R \in Groups(RowKey) |-> EconomicsRow(R)]
EstimateWith(f) == ResolvePricing(Bootstrap, f.requested, f.effective, f.provider)
RowsOf(s) == {r \in EconomicsRows : r.status = s}

LEMMA PartTotal ==
  ASSUME PricingInv, NEW v, DOMAIN v \subseteq Facts, \A f \in DOMAIN v : v[f] \in Nat,
         NEW w, \A f \in Facts : w[f] = IF f \in DOMAIN v THEN facts[f] * v[f] ELSE 0
  PROVE  Total(v) = SumOf(Facts, w) /\ WholeOn(Facts, w)
<1> DEFINE S == DOMAIN v
           z == [f \in S |-> facts[f] * v[f]]
<1>1. IsFiniteSet(Facts) /\ (\A f \in Facts : facts[f] \in Nat) /\ IsFiniteSet(S) /\ S \in SUBSET Facts
  BY FS_Subset DEF PricingInv
<1>2. \A f \in S : z[f] \in Nat /\ z[f] = facts[f] * v[f]
  <2>1. ASSUME NEW f \in S PROVE facts[f] * v[f] \in Nat
    BY <1>1, Products
  <2>2. QED
    BY <2>1
<1>3. Total(v) = SumOf(S, z)
  BY <1>1, <1>2, TotalIs
<1>4. WholeOn(S, z) /\ \A f \in Facts : w[f] = IF f \in S THEN z[f] ELSE 0
  BY <1>2 DEF WholeOn
<1> HIDE DEF z, S
<1>5. SumOf(S, z) = SumOf(Facts, w)
  BY <1>1, <1>4, SumPart
<1>6. WholeOn(Facts, w)
  BY <1>1, <1>4 DEF WholeOn
<1>7. QED
  BY <1>3, <1>5, <1>6

LEMMA SumFunctionIs ==
  ASSUME NEW v
  PROVE  SumFunction(v) = SumOf(DOMAIN v, v)
BY DEF SumFunction, SumOf

LEMMA RowRemembers ==
  ASSUME NEW R
  PROVE  EconomicsRow(R).of = R
BY ONLY TRUE DEF EconomicsRow

(* What a sum over rows of the report is the sum of. *)
LEMMA RowsAddUp ==
  ASSUME PricingInv, NEW w, WholeOn(Facts, w), NEW val, DOMAIN val \subseteq EconomicsRows,
         \A R \in Groups(RowKey) :
           (IF EconomicsRow(R) \in DOMAIN val THEN val[EconomicsRow(R)] ELSE 0) = SumOf(R, w)
  PROVE  SumFunction(val) = SumOf(Facts, w)
<1> DEFINE G == Groups(RowKey)
           r == RowOf
           Q == DOMAIN val
<1>1. DOMAIN RowKey = Facts /\ IsFiniteSet(DOMAIN RowKey)
  BY DEF RowKey, PricingInv
<1>2. \A R \in G : r[R] = EconomicsRow(R)
  BY DEF RowOf
<1>3. \A R \in G : r[R].of = R
  BY <1>2, RowRemembers
<1> HIDE DEF r
<1>4. Injects(r, G)
  BY <1>3 DEF Injects
<1>5. EconomicsRows = {r[R] : R \in G}
  BY <1>2 DEF EconomicsRows, RowKey
<1>6. \A R \in G : (IF r[R] \in Q THEN val[r[R]] ELSE 0) = SumOf(R, w)
  BY <1>2
<1>7. Q \subseteq {r[R] : R \in G} /\ WholeOn(DOMAIN RowKey, w)
  BY <1>1, <1>5
<1> HIDE DEF Q
<1>8. SumOf(Q, val) = SumOf(DOMAIN RowKey, w)
  BY <1>1, <1>4, <1>6, <1>7, SumRows
<1>9. QED
  BY <1>1, <1>8, SumFunctionIs DEF Q

LEMMA RowsAre ==
  ASSUME PricingInv, NEW R \in Groups(RowKey)
  PROVE  /\ R \in SUBSET Facts /\ IsFiniteSet(R) /\ One(R) \in R
         /\ \A g \in R : /\ g.requested = One(R).requested /\ g.effective = One(R).effective
                         /\ g.provider = One(R).provider /\ g.status = One(R).status /\ g.cur = One(R).cur
<1>1. DOMAIN RowKey = Facts /\ IsFiniteSet(DOMAIN RowKey)
  BY DEF RowKey, PricingInv
<1>2. R \in SUBSET Facts /\ R # {} /\ IsFiniteSet(R) /\ \A f, g \in R : RowKey[f] = RowKey[g]
  BY <1>1, GroupsAre
<1>3. One(R) \in R
  BY <1>2 DEF One
<1>4. ASSUME NEW g \in R
      PROVE  /\ g.requested = One(R).requested /\ g.effective = One(R).effective
             /\ g.provider = One(R).provider /\ g.status = One(R).status /\ g.cur = One(R).cur
  <2> DEFINE f == One(R)
  <2>1. f \in R /\ f \in Facts /\ g \in Facts /\ RowKey[f] = RowKey[g]
    BY <1>2, <1>3
  <2> HIDE DEF f
  <2>2. <<f.requested, f.effective, f.provider, f.status, f.cur>> = <<g.requested, g.effective, g.provider, g.status, g.cur>>
    BY <2>1 DEF RowKey
  <2>3. QED
    BY <2>2 DEF f
<1>5. QED
  BY <1>2, <1>3, <1>4

(* The row of facts of one status.                                          *)
LEMMA RowIs ==
  ASSUME PricingInv, NEW R \in Groups(RowKey)
  PROVE  LET f == One(R)
             row == EconomicsRow(R)
             u == Tokens(R)
         IN  /\ f.status = "fixed" =>
                  /\ row.status = "fixed" /\ row.cur = f.cur
                  /\ row.usd = Total([g \in R |-> g.usd]) /\ row.cost = Total([g \in R |-> g.cost])
             /\ f.status = "unpriced" => row.status = "unpriced"
             /\ f.status = "" /\ NoTokens(u) => row.status = "unpriced"
             /\ f.status = "" /\ ~NoTokens(u) =>
                  row.status = "estimated_legacy" /\ row.usd = UsdCost(u, EstimateWith(f))
<1> DEFINE f == One(R)
           u == Tokens(R)
           usd == Total([g \in R |-> g.usd])
           cost == Total([g \in R |-> g.cost])
           status == normalizePricingStatus(f.status, u)
           estimated == status = "estimated_legacy" /\ usd = 0
           row == EconomicsRow(R)
<1>1. /\ row.status = status
      /\ row.cost = IF estimated THEN NativeCost(u, EstimateWith(f)) ELSE cost
      /\ row.usd = IF estimated THEN UsdCost(u, EstimateWith(f)) ELSE usd
      /\ row.cur = IF estimated /\ NativeCost(u, EstimateWith(f)) > 0 THEN EstimateWith(f).cur ELSE f.cur
  BY DEF EconomicsRow, EstimateWith
<1>2. status = IF f.status # "" THEN f.status ELSE IF NoTokens(u) THEN "unpriced" ELSE "estimated_legacy"
  BY DEF normalizePricingStatus
<1>3. f.status = "" => usd = 0
  <2>1. ASSUME f.status = "" PROVE usd = 0
    <3>1. R \in SUBSET Facts /\ IsFiniteSet(R) /\ \A g \in R : g.status = f.status
      BY RowsAre
    <3>2. \A g \in R : facts[g] \in Nat /\ g.usd = 0
      BY <2>1, <3>1 DEF PricingInv, FactOK
    <3> DEFINE v == [g \in R |-> g.usd]
               z == [g \in R |-> 0]
    <3>3. \A g \in DOMAIN v : z[g] = facts[g] * v[g]
      BY <3>2
    <3>4. Total(v) = SumOf(R, z)
      BY <3>1, <3>3, TotalIs
    <3>5. SumOf(R, z) = 0
      BY <3>1, SumZero
    <3>6. QED
      BY <3>4, <3>5
  <2>2. QED
    BY <2>1
<1> HIDE DEF row, status, usd, cost, u, f
<1>4. f.status = "fixed" => status = "fixed" /\ ~estimated
  BY <1>2
<1>5. f.status = "unpriced" => status = "unpriced"
  BY <1>2
<1>6. f.status = "" /\ NoTokens(u) => status = "unpriced"
  BY <1>2
<1>7. f.status = "" /\ ~NoTokens(u) => status = "estimated_legacy" /\ estimated
  BY <1>2, <1>3
<1> HIDE DEF estimated
<1>8. QED
  BY <1>1, <1>4, <1>5, <1>6, <1>7 DEF row, u, f, usd, cost

FixedFacts == {f \in Facts : f.status = "fixed"}
OldFacts == {f \in Facts : f.status = ""}
EstimateUsd(f) == UsdCost(f.usage, EstimateWith(f))

LEMMA FactsAre ==
  ASSUME PricingInv, NEW f \in Facts
  PROVE  /\ facts[f] \in Nat /\ f.cost \in Nat /\ f.usd \in Nat /\ f.usage \in UsageType
         /\ f.usage.cached <= f.usage.prompt /\ PriceOK(EstimateWith(f)) /\ EstimateUsd(f) \in Nat
         /\ f.status = "fixed" \/ f.status = "unpriced" \/ f.status = ""
<1>1. facts[f] \in Nat /\ FactOK(f)
  BY DEF PricingInv
<1>2. PriceOK(EstimateWith(f))
  BY <1>1, PricingAssumption, NamesAreKnown, PricesAreNumbers DEF FactOK, EstimateWith
<1>3. f.usage \in UsageType /\ f.usage.cached <= f.usage.prompt
  BY <1>1 DEF FactOK
<1>4. EstimateUsd(f) \in Nat
  BY <1>2, <1>3, UsageIs, CostIs DEF EstimateUsd
<1>5. QED
  BY <1>1, <1>2, <1>3, <1>4 DEF FactOK

LEMMA ExactKept ==
  ASSUME PricingInv
  PROVE  SumFunction([r \in RowsOf("fixed") |-> r.usd]) = Total([f \in FixedFacts |-> f.usd])
<1> DEFINE v == [f \in FixedFacts |-> f.usd]
           w == [f \in Facts |-> IF f \in FixedFacts THEN facts[f] * v[f] ELSE 0]
           val == [r \in RowsOf("fixed") |-> r.usd]
<1>1. DOMAIN v = FixedFacts /\ FixedFacts \subseteq Facts /\ \A f \in FixedFacts : v[f] \in Nat /\ v[f] = f.usd
  BY FactsAre DEF FixedFacts
<1>2. \A f \in Facts : w[f] = IF f \in FixedFacts THEN facts[f] * v[f] ELSE 0
  OBVIOUS
<1> HIDE DEF v, w
<1>3. Total(v) = SumOf(Facts, w) /\ WholeOn(Facts, w)
  BY <1>1, <1>2, PartTotal
<1>4. DOMAIN val = RowsOf("fixed") /\ \A r \in RowsOf("fixed") : val[r] = r.usd
  OBVIOUS
<1> HIDE DEF val
<1>5. ASSUME NEW R \in Groups(RowKey)
      PROVE  (IF EconomicsRow(R) \in DOMAIN val THEN val[EconomicsRow(R)] ELSE 0) = SumOf(R, w)
  <2> DEFINE row == EconomicsRow(R)
             f == One(R)
  <2>1. /\ R \in SUBSET Facts /\ IsFiniteSet(R) /\ f \in R /\ \A g \in R : g.status = f.status
    BY RowsAre
  <2>2. row \in EconomicsRows
    BY DEF EconomicsRows, RowKey
  <2>3. CASE f.status = "fixed"
    <3>1. row.status = "fixed" /\ row.usd = Total([g \in R |-> g.usd])
      BY <2>3, RowIs
    <3>2. row \in DOMAIN val /\ val[row] = row.usd
      BY <1>4, <2>2, <3>1 DEF RowsOf
    <3>3. \A g \in R : w[g] = facts[g] * g.usd
      BY <1>1, <1>2, <2>1, <2>3 DEF FixedFacts
    <3> DEFINE z == [g \in R |-> g.usd]
    <3>4. \A g \in DOMAIN z : w[g] = facts[g] * z[g]
      BY <3>3
    <3>5. Total(z) = SumOf(R, w)
      BY <2>1, <3>4, TotalIs
    <3> HIDE DEF row
    <3>6. QED
      BY <3>1, <3>2, <3>5 DEF row
  <2>4. CASE f.status # "fixed"
    <3>1. row.status # "fixed"
      BY <2>1, <2>4, FactsAre, RowIs
    <3>2. row \notin DOMAIN val
      BY <1>4, <3>1 DEF RowsOf
    <3>3. \A g \in R : w[g] = 0
      BY <1>2, <2>1, <2>4 DEF FixedFacts
    <3>4. SumOf(R, w) = 0
      BY <2>1, <3>3, SumZero
    <3>5. QED
      BY <3>2, <3>4
  <2>5. QED
    BY <2>3, <2>4
<1>6. DOMAIN val \subseteq EconomicsRows
  BY <1>4 DEF RowsOf
<1>7. SumFunction(val) = SumOf(Facts, w)
  BY <1>3, <1>5, <1>6, RowsAddUp
<1>8. QED
  BY <1>3, <1>7 DEF val, v

LEMMA CurrencyKept ==
  ASSUME PricingInv, NEW c
  PROVE  SumFunction([r \in {q \in RowsOf("fixed") : q.cur = c} |-> r.cost])
           = Total([f \in {g \in FixedFacts : g.cur = c} |-> f.cost])
<1> DEFINE F == {g \in FixedFacts : g.cur = c}
           Q == {q \in RowsOf("fixed") : q.cur = c}
           v == [f \in F |-> f.cost]
           w == [f \in Facts |-> IF f \in F THEN facts[f] * v[f] ELSE 0]
           val == [r \in Q |-> r.cost]
<1>1. DOMAIN v = F /\ F \subseteq Facts /\ \A f \in F : v[f] \in Nat /\ v[f] = f.cost
  BY FactsAre DEF FixedFacts
<1>2. \A f \in Facts : w[f] = IF f \in F THEN facts[f] * v[f] ELSE 0
  OBVIOUS
<1> HIDE DEF v, w
<1>3. Total(v) = SumOf(Facts, w) /\ WholeOn(Facts, w)
  <2> HIDE DEF F
  <2>1. QED
    BY <1>1, <1>2, PartTotal
<1>4. DOMAIN val = Q /\ \A r \in Q : val[r] = r.cost
  OBVIOUS
<1> HIDE DEF val
<1>5. ASSUME NEW R \in Groups(RowKey)
      PROVE  (IF EconomicsRow(R) \in DOMAIN val THEN val[EconomicsRow(R)] ELSE 0) = SumOf(R, w)
  <2> DEFINE row == EconomicsRow(R)
             f == One(R)
  <2>1. /\ R \in SUBSET Facts /\ IsFiniteSet(R) /\ f \in R /\ \A g \in R : g.status = f.status /\ g.cur = f.cur
    BY RowsAre
  <2>2. row \in EconomicsRows
    BY DEF EconomicsRows, RowKey
  <2>3. CASE f.status = "fixed" /\ f.cur = c
    <3>1. row.status = "fixed" /\ row.cur = c /\ row.cost = Total([g \in R |-> g.cost])
      BY <2>3, RowIs
    <3>2. row \in DOMAIN val /\ val[row] = row.cost
      BY <1>4, <2>2, <3>1 DEF RowsOf
    <3>3. \A g \in R : w[g] = facts[g] * g.cost
      BY <1>1, <1>2, <2>1, <2>3 DEF FixedFacts
    <3> DEFINE z == [g \in R |-> g.cost]
    <3>4. \A g \in DOMAIN z : w[g] = facts[g] * z[g]
      BY <3>3
    <3>5. Total(z) = SumOf(R, w)
      BY <2>1, <3>4, TotalIs
    <3> HIDE DEF row
    <3>6. QED
      BY <3>1, <3>2, <3>5 DEF row
  <2>4. CASE ~(f.status = "fixed" /\ f.cur = c)
    <3>1. ~(row.status = "fixed" /\ row.cur = c)
      BY <2>1, <2>4, FactsAre, RowIs
    <3>2. row \notin DOMAIN val
      BY <1>4, <3>1 DEF RowsOf
    <3>3. \A g \in R : w[g] = 0
      BY <1>2, <2>1, <2>4 DEF FixedFacts
    <3>4. SumOf(R, w) = 0
      BY <2>1, <3>3, SumZero
    <3>5. QED
      BY <3>2, <3>4
  <2>5. QED
    BY <2>3, <2>4
<1>6. DOMAIN val \subseteq EconomicsRows
  BY <1>4 DEF RowsOf
<1>7. SumFunction(val) = SumOf(Facts, w)
  BY <1>3, <1>5, <1>6, RowsAddUp
<1>8. QED
  BY <1>3, <1>7 DEF val, v

LEMMA EstimatedKept ==
  ASSUME PricingInv
  PROVE  SumFunction([r \in RowsOf("estimated_legacy") |-> r.usd]) = Total([f \in OldFacts |-> EstimateUsd(f)])
<1> DEFINE v == [f \in OldFacts |-> EstimateUsd(f)]
           w == [f \in Facts |-> IF f \in OldFacts THEN facts[f] * v[f] ELSE 0]
           val == [r \in RowsOf("estimated_legacy") |-> r.usd]
<1>1. DOMAIN v = OldFacts /\ OldFacts \subseteq Facts /\ \A f \in OldFacts : v[f] \in Nat /\ v[f] = EstimateUsd(f)
  BY FactsAre DEF OldFacts
<1>2. \A f \in Facts : w[f] = IF f \in OldFacts THEN facts[f] * v[f] ELSE 0
  OBVIOUS
<1> HIDE DEF v, w
<1>3. Total(v) = SumOf(Facts, w) /\ WholeOn(Facts, w)
  BY <1>1, <1>2, PartTotal
<1>4. DOMAIN val = RowsOf("estimated_legacy") /\ \A r \in RowsOf("estimated_legacy") : val[r] = r.usd
  OBVIOUS
<1> HIDE DEF val
<1>5. ASSUME NEW R \in Groups(RowKey)
      PROVE  (IF EconomicsRow(R) \in DOMAIN val THEN val[EconomicsRow(R)] ELSE 0) = SumOf(R, w)
  <2> DEFINE row == EconomicsRow(R)
             f == One(R)
             u == Tokens(R)
             p == EstimateWith(f)
  <2>1. /\ R \in SUBSET Facts /\ IsFiniteSet(R) /\ f \in R
        /\ \A g \in R : g.status = f.status /\ EstimateWith(g) = p
    BY RowsAre DEF EstimateWith
  <2>2. row \in EconomicsRows
    BY DEF EconomicsRows, RowKey
  <2>3. CASE f.status = ""
    <3>1. PriceOK(p)
      BY <2>1, FactsAre
    <3>2. UsdCost(u, p) = SumOf(R, UsdCosts(R, p))
      BY <2>1, <3>1, TokensLinear
    <3>3. \A g \in R : w[g] = UsdCosts(R, p)[g]
      <4>1. ASSUME NEW g \in R PROVE w[g] = UsdCosts(R, p)[g]
        <5>1. g \in OldFacts
          BY <2>1, <2>3 DEF OldFacts
        <5>2. w[g] = facts[g] * EstimateUsd(g)
          BY <1>1, <1>2, <5>1
        <5>3. EstimateUsd(g) = UsdCost(g.usage, p)
          BY <2>1 DEF EstimateUsd
        <5>4. UsdCosts(R, p)[g] = facts[g] * UsdCost(g.usage, p)
          BY DEF UsdCosts
        <5>5. QED
          BY <5>2, <5>3, <5>4
      <4>2. QED
        BY <4>1
    <3>4. UsdCost(u, p) = SumOf(R, w)
      BY <2>1, <3>2, <3>3, SumAgrees
    <3>5. CASE NoTokens(u)
      <4>1. row.status # "estimated_legacy"
        BY <2>3, <3>5, RowIs
      <4>2. row \notin DOMAIN val
        BY <1>4, <4>1 DEF RowsOf
      <4>3. UsdCost(u, p) = 0
        <5>1. u.prompt = 0 /\ u.cached = 0 /\ u.completion = 0
          BY <3>5 DEF NoTokens
        <5> HIDE DEF u, p
        <5>2. NativeCost(u, p) = (0 - 0) * p.input + 0 * CachedPrice(p) + 0 * p.output
          BY <3>1, <5>1, CostIs
        <5>3. NativeCost(u, p) = 0
          BY <3>1, <5>2 DEF PriceOK, CachedPrice
        <5>4. QED
          BY <3>1, <5>3 DEF UsdCost, PriceOK
      <4>4. QED
        BY <3>4, <4>2, <4>3
    <3>6. CASE ~NoTokens(u)
      <4>1. row.status = "estimated_legacy" /\ row.usd = UsdCost(u, p)
        BY <2>3, <3>6, RowIs
      <4>2. row \in DOMAIN val /\ val[row] = row.usd
        BY <1>4, <2>2, <4>1 DEF RowsOf
      <4> HIDE DEF row
      <4>3. QED
        BY <3>4, <4>1, <4>2 DEF row
    <3>7. QED
      BY <3>5, <3>6
  <2>4. CASE f.status # ""
    <3>1. row.status # "estimated_legacy"
      BY <2>1, <2>4, FactsAre, RowIs
    <3>2. row \notin DOMAIN val
      BY <1>4, <3>1 DEF RowsOf
    <3>3. \A g \in R : w[g] = 0
      BY <1>2, <2>1, <2>4 DEF OldFacts
    <3>4. SumOf(R, w) = 0
      BY <2>1, <3>3, SumZero
    <3>5. QED
      BY <3>2, <3>4
  <2>5. QED
    BY <2>3, <2>4
<1>6. DOMAIN val \subseteq EconomicsRows
  BY <1>4 DEF RowsOf
<1>7. SumFunction(val) = SumOf(Facts, w)
  BY <1>3, <1>5, <1>6, RowsAddUp
<1>8. QED
  BY <1>3, <1>7 DEF val, v

LEMMA CurrenciesKept ==
  ASSUME PricingInv
  PROVE  {r.cur : r \in RowsOf("fixed")} = {f.cur : f \in FixedFacts}
<1>1. ASSUME NEW r \in RowsOf("fixed")
      PROVE  \E f \in FixedFacts : f.cur = r.cur
  <2>1. PICK R \in Groups(RowKey) : r = EconomicsRow(R)
    BY DEF RowsOf, EconomicsRows, RowKey
  <2>2. One(R) \in R /\ R \in SUBSET Facts /\ r.status = "fixed"
    BY RowsAre DEF RowsOf
  <2>3. One(R).status = "fixed"
    BY <2>1, <2>2, FactsAre, RowIs
  <2>4. r.cur = One(R).cur
    BY <2>1, <2>3, RowIs
  <2>5. QED
    BY <2>2, <2>3, <2>4 DEF FixedFacts
<1>2. ASSUME NEW f \in FixedFacts
      PROVE  \E r \in RowsOf("fixed") : r.cur = f.cur
  <2> DEFINE R == ClassOf(RowKey)[f]
  <2>1. DOMAIN RowKey = Facts /\ IsFiniteSet(DOMAIN RowKey) /\ f \in Facts
    BY DEF RowKey, PricingInv, FixedFacts
  <2>2. R \in Groups(RowKey) /\ f \in R
    BY <2>1, GroupsAre DEF ClassOf
  <2> HIDE DEF R
  <2>3. One(R).status = "fixed" /\ One(R).cur = f.cur
    BY <2>2, RowsAre DEF FixedFacts
  <2>4. EconomicsRow(R).status = "fixed" /\ EconomicsRow(R).cur = f.cur
    BY <2>2, <2>3, RowIs
  <2>5. EconomicsRow(R) \in EconomicsRows
    BY <2>2 DEF EconomicsRows, RowKey
  <2>6. QED
    BY <2>4, <2>5 DEF RowsOf
<1>3. QED
  BY <1>1, <1>2

LEMMA EconomicsAreKept ==
  ASSUME PricingInv
  PROVE  EconomicsKept
<1> DEFINE report == Economics
<1>1. report.exact = SumFunction([r \in RowsOf("fixed") |-> r.usd])
  BY DEF Economics, RowsOf
<1>2. report.estimated = SumFunction([r \in RowsOf("estimated_legacy") |-> r.usd])
  BY DEF Economics, RowsOf
<1>3. report.totals = [c \in {r.cur : r \in RowsOf("fixed")} |->
                         SumFunction([r \in {q \in RowsOf("fixed") : q.cur = c} |-> r.cost])]
  BY DEF Economics, RowsOf
<1> HIDE DEF report
<1>4. report.exact = Total([f \in FixedFacts |-> f.usd])
  BY <1>1, ExactKept
<1>5. report.estimated = Total([f \in OldFacts |-> EstimateUsd(f)])
  BY <1>2, EstimatedKept
<1>6. DOMAIN report.totals = {f.cur : f \in FixedFacts}
  BY <1>3, CurrenciesKept
<1>7. ASSUME NEW c \in DOMAIN report.totals
      PROVE  report.totals[c] = Total([f \in {g \in FixedFacts : g.cur = c} |-> f.cost])
  <2>1. report.totals[c] = SumFunction([r \in {q \in RowsOf("fixed") : q.cur = c} |-> r.cost])
    BY <1>3
  <2>2. QED
    BY <2>1, CurrencyKept
<1>8. QED
  BY <1>4, <1>5, <1>6, <1>7, Zenon DEF EconomicsKept, report, FixedFacts, OldFacts, EstimateUsd, EstimateWith

(***************************************************************************)
(* A built-in price depends on the lower-case name alone.                  *)
(***************************************************************************)
PriceOf(n) == ResolvePricing(Bootstrap, Blank, n, NoProvider)

LEMMA NoScopedPrice ==
  ASSUME NEW n \in Names, NEW p
  PROVE  ResolvePricing(Bootstrap, Blank, n, p) = PriceOf(n)
<1> DEFINE s == pricingLookupCandidates(Blank, n)
           g == General(Bootstrap, Blank, n)
<1>1. s \in Seq(Names)
  BY CandidatesAre
<1>2. ASSUME p # NoProvider
      PROVE  KeysFound(Bootstrap, p, s) = <<>>
  <2> DEFINE t == KeysFound(Bootstrap, p, s)
  <2> HIDE DEF s
  <2>1. t \in Seq(KeysOf(p)) /\ \A i \in 1..Len(t) : t[i] \in DOMAIN Bootstrap
    BY <1>1, KeysFoundAre
  <2> HIDE DEF t
  <2>2. \A i \in 1..Len(t) : t[i][1] = p
    BY <2>1 DEF KeysOf
  <2>3. \A i \in 1..Len(t) : FALSE
    BY <1>2, <2>1, <2>2, PricingAssumption
  <2>4. t = <<>>
    BY <2>1, <2>3
  <2>5. QED
    BY <2>4 DEF t
<1>3. Scoped(Bootstrap, Blank, n, p) = <<>> /\ Scoped(Bootstrap, Blank, n, NoProvider) = <<>>
  BY <1>2 DEF Scoped
<1>4. g \in Seq(KeysOf(NoProvider))
  <2> HIDE DEF s
  <2>1. QED
    BY <1>1, KeysFoundAre DEF General, s
<1>5. /\ PriceKeys(Bootstrap, Blank, n, p) = <<>> \o g
      /\ PriceKeys(Bootstrap, Blank, n, NoProvider) = <<>> \o g
  BY <1>3, PriceKeysAre
<1>6. PriceKeys(Bootstrap, Blank, n, p) = PriceKeys(Bootstrap, Blank, n, NoProvider)
  BY <1>5
<1>7. QED
  BY <1>6 DEF ResolvePricing, PriceOf

LevelsFrom(l, N) ==
  LET Level[d \in 0..N + 1] ==
        IF d = 0 THEN <<l>>
        ELSE FlattenSeq([i \in DOMAIN Level[d - 1] |-> Shorter(Level[d - 1][i])])
  IN  Level
AliasesFrom(l, N) == FlattenSeq([d \in 1..N + 2 |-> LevelsFrom(l, N)[d - 1]])

LEMMA AliasesOfLower ==
  ASSUME NEW n, n # Blank
  PROVE  canonicalPricingAliases(n) = AliasesFrom(Lower(n), Len(n.tail))
<1>1. Levels(n) = LevelsFrom(Lower(n), Len(n.tail))
  BY DEF Levels, LevelsFrom
<1>2. QED
  BY <1>1 DEF canonicalPricingAliases, AliasesFrom

LEMMA PriceOfLower ==
  ASSUME NEW n \in Names, NEW m \in Names, n # Blank, m # Blank, Lower(n) = Lower(m)
  PROVE  PriceOf(n) = PriceOf(m)
<1>1. n \in Names /\ m \in Names
  BY NamesAreKnown
<1>2. n.tail = m.tail
  <2>1. Lower(n).tail = n.tail /\ Lower(m).tail = m.tail
    BY <1>1 DEF Lower, Names
  <2>2. QED
    BY <2>1
<1>3. canonicalPricingAliases(n) = canonicalPricingAliases(m)
  BY <1>2, AliasesOfLower
<1>4. pricingLookupCandidates(Blank, n) = pricingLookupCandidates(Blank, m)
  BY <1>1, <1>3, NoRequested
<1>5. PriceKeys(Bootstrap, Blank, n, NoProvider) = PriceKeys(Bootstrap, Blank, m, NoProvider)
  BY <1>4 DEF PriceKeys
<1>6. QED
  BY <1>5 DEF PriceOf, ResolvePricing

LEMMA SameName ==
  ASSUME NEW n \in Names, NEW m \in Names, Lower(n) = Lower(m), n.caps = m.caps
  PROVE  n = m
<1>1. n \in Names /\ m \in Names
  BY NamesAreKnown
<1>2. /\ Lower(n).path = n.path /\ Lower(n).base = n.base /\ Lower(n).tail = n.tail
      /\ Lower(m).path = m.path /\ Lower(m).base = m.base /\ Lower(m).tail = m.tail
  BY <1>1 DEF Lower, Names
<1>3. n.path = m.path /\ n.base = m.base /\ n.tail = m.tail
  BY <1>2
<1>4. QED
  BY <1>1, <1>3 DEF Names

(***************************************************************************)
(* The cost reports: however they group requests, the sums are the same.   *)
(***************************************************************************)
CurOf(p) == IF p # Unpriced THEN p.cur ELSE "USD"

RowsGood(rows) ==
  /\ IsFiniteSet(rows)
  /\ \A q \in rows : /\ q.model \in Names /\ q.model # Blank /\ q.usage.prompt \in Nat
                     /\ NativeCost(q.usage, PriceOf(q.model)) \in Nat
  /\ \A q, r \in rows : q.model = r.model /\ q.provider = r.provider => q = r

FirstOf(rows, r) == r.model.caps \/ \A q \in SameSummary(rows, r) : ~q.model.caps
PricesOf(rows) == [r \in rows |-> ResolvePricing(Bootstrap, Blank, r.model, r.provider)]
EntryOf(rows, r) ==
  [row |-> r,
   cost |-> IF FirstOf(rows, r) THEN BuildPricingSnapshot(rows, PricesOf(rows))[r] ELSE 0,
   cur |-> IF FirstOf(rows, r) /\ PricesOf(rows)[r] # Unpriced THEN PricesOf(rows)[r].cur ELSE "USD"]

LEMMA EntriesAre ==
  ASSUME NEW rows
  PROVE  buildCostEntries(rows) = {EntryOf(rows, r) : r \in rows}
BY DEF buildCostEntries, EntryOf, FirstOf, PricesOf

(* What a row adds to what was spent in currency c. *)
RowCost(c, q) == IF CurOf(PriceOf(q.model)) = c THEN NativeCost(q.usage, PriceOf(q.model)) ELSE 0
SummaryCost(rows, c) == [q \in rows |-> RowCost(c, q)]
(* What its entry adds. *)
EntryCost(rows, c) == [r \in rows |-> IF EntryOf(rows, r).cur = c THEN EntryOf(rows, r).cost ELSE 0]

LEMMA SumOnly ==
  ASSUME NEW K, IsFiniteSet(K), NEW a \in K, NEW v, v[a] \in Int, \A q \in K : q # a => v[q] = 0
  PROVE  SumOf(K, v) = v[a]
<1>1. WholeOn(K, v)
  <2>1. ASSUME NEW q \in K PROVE v[q] \in Int
    <3>1. CASE q = a
      BY <3>1
    <3>2. CASE q # a
      BY <3>2
    <3>3. QED
      BY <3>1, <3>2
  <2>2. QED
    BY <2>1 DEF WholeOn
<1> DEFINE B == K \ {a}
<1>2. IsFiniteSet(B) /\ \A q \in B : v[q] = 0
  BY FS_Subset
<1>3. SumOf(K, v) = v[a] + SumOf(B, v)
  BY <1>1, SumTakes DEF Takes
<1> HIDE DEF B
<1>4. SumOf(B, v) = 0
  BY <1>2, SumZero
<1>5. QED
  BY <1>3, <1>4

SummaryKey(rows) == [r \in rows |-> <<Lower(r.model), r.provider>>]

LEMMA SummariesAre ==
  ASSUME NEW rows, RowsGood(rows), NEW K \in Groups(SummaryKey(rows))
  PROVE  /\ K \in SUBSET rows /\ K # {} /\ IsFiniteSet(K)
         /\ \A r \in K : SameSummary(rows, r) = K
         /\ \A q, r \in K : Lower(q.model) = Lower(r.model) /\ q.provider = r.provider
<1> DEFINE by == SummaryKey(rows)
<1>1. DOMAIN by = rows /\ IsFiniteSet(DOMAIN by) /\ \A r \in rows : by[r] = <<Lower(r.model), r.provider>>
  BY DEF SummaryKey, RowsGood
<1> HIDE DEF by
<1>2. \A q, r \in rows : by[q] = by[r] <=> Lower(q.model) = Lower(r.model) /\ q.provider = r.provider
  BY <1>1
<1>3. PICK a \in rows : K = {q \in rows : by[q] = by[a]}
  BY <1>1 DEF Groups, by
<1>4. K \in SUBSET rows /\ a \in K /\ \A q, r \in K : by[q] = by[r]
  BY <1>3
<1>5. IsFiniteSet(K)
  BY <1>1, <1>4, FS_Subset
<1>6. ASSUME NEW r \in K
      PROVE  SameSummary(rows, r) = K
  BY <1>2, <1>3 DEF SameSummary
<1>7. QED
  BY <1>2, <1>4, <1>5, <1>6

LEMMA ClassCost ==
  ASSUME NEW rows, RowsGood(rows), NEW K \in Groups(SummaryKey(rows)), NEW c
  PROVE  SumOf(K, EntryCost(rows, c)) = SumOf(K, SummaryCost(rows, c)) /\ SumOf(K, SummaryCost(rows, c)) \in Int
<1>1. /\ K \in SUBSET rows /\ K # {} /\ IsFiniteSet(K)
      /\ \A r \in K : SameSummary(rows, r) = K
      /\ \A q, r \in K : Lower(q.model) = Lower(r.model) /\ q.provider = r.provider
  BY SummariesAre
<1>2. ASSUME NEW q \in K
      PROVE  /\ q \in rows /\ q.model \in Names /\ q.model # Blank /\ PricesOf(rows)[q] = PriceOf(q.model)
             /\ NativeCost(q.usage, PriceOf(q.model)) \in Nat /\ q.model.caps \in BOOLEAN
  <2>1. q \in rows /\ q.model \in Names /\ q.model # Blank /\ NativeCost(q.usage, PriceOf(q.model)) \in Nat
    BY <1>1 DEF RowsGood
  <2>2. PricesOf(rows)[q] = PriceOf(q.model)
    BY <2>1, NamesAreKnown, NoScopedPrice DEF PricesOf
  <2>3. q.model.caps \in BOOLEAN
    BY <2>1 DEF Names
  <2>4. QED
    BY <2>1, <2>2, <2>3
<1>3. PICK a \in K : FirstOf(rows, a)
  <2>1. CASE \E a \in K : a.model.caps
    BY <2>1 DEF FirstOf
  <2>2. CASE \A a \in K : ~a.model.caps
    BY <1>1, <2>2 DEF FirstOf
  <2>3. QED
    BY <2>1, <2>2
<1>4. \A q \in K : q # a => ~FirstOf(rows, q)
  <2>1. ASSUME NEW q \in K, FirstOf(rows, q)
        PROVE  q = a
    <3>1. q.model.caps = a.model.caps
      BY <1>1, <1>2, <1>3, <2>1 DEF FirstOf
    <3>2. q.model = a.model
      BY <1>1, <1>2, <3>1, SameName
    <3>3. QED
      BY <1>1, <1>2, <3>2 DEF RowsGood
  <2>2. QED
    BY <2>1
<1> DEFINE p == PriceOf(a.model)
           x == EntryCost(rows, c)
           y == SummaryCost(rows, c)
           s == [q \in K |-> NativeCost(q.usage, PricesOf(rows)[q])]
<1>5. \A q \in K : PriceOf(q.model) = p
  BY <1>1, <1>2, PriceOfLower
<1>6. \A q \in K : y[q] = IF CurOf(p) = c THEN s[q] ELSE 0
  BY <1>2, <1>5 DEF SummaryCost, RowCost
<1>7. \A q \in K : s[q] \in Nat
  BY <1>2
<1>8. BuildPricingSnapshot(rows, PricesOf(rows))[a] = SumOf(K, s)
  <2>1. BuildPricingSnapshot(rows, PricesOf(rows))[a]
          = SumFunction([q \in SameSummary(rows, a) |-> NativeCost(q.usage, PricesOf(rows)[q])])
    BY <1>2 DEF BuildPricingSnapshot
  <2>2. BuildPricingSnapshot(rows, PricesOf(rows))[a] = SumFunction(s)
    BY <1>1, <2>1
  <2>3. DOMAIN s = K
    OBVIOUS
  <2> HIDE DEF s
  <2>4. QED
    BY <2>2, <2>3, SumFunctionIs
<1> HIDE DEF s
<1>9. SumOf(K, s) \in Nat /\ WholeOn(K, s)
  BY <1>1, <1>7, SumNatural DEF WholeOn
<1>10. x[a] = IF CurOf(p) = c THEN SumOf(K, s) ELSE 0
  <2>1. EntryOf(rows, a).cost = SumOf(K, s)
    BY <1>3, <1>8 DEF EntryOf
  <2>2. EntryOf(rows, a).cur = CurOf(p)
    BY <1>2, <1>3 DEF EntryOf, CurOf
  <2>3. x[a] = IF EntryOf(rows, a).cur = c THEN EntryOf(rows, a).cost ELSE 0
    BY <1>2 DEF EntryCost
  <2>4. QED
    BY <2>1, <2>2, <2>3
<1>11. \A q \in K : q # a => x[q] = 0
  <2>1. ASSUME NEW q \in K, q # a PROVE x[q] = 0
    <3>1. EntryOf(rows, q).cost = 0
      BY <1>4, <2>1 DEF EntryOf
    <3>2. QED
      BY <1>2, <3>1 DEF EntryCost
  <2>2. QED
    BY <2>1
<1> HIDE DEF x, y, p
<1>12. SumOf(K, x) = x[a]
  BY <1>1, <1>9, <1>10, <1>11, SumOnly
<1>13. CASE CurOf(p) = c
  <2>1. SumOf(K, y) = SumOf(K, s)
    BY <1>1, <1>6, <1>13, SumAgrees
  <2>2. QED
    BY <1>9, <1>10, <1>12, <1>13, <2>1 DEF x, y
<1>14. CASE CurOf(p) # c
  <2>1. SumOf(K, y) = 0
    BY <1>1, <1>6, <1>14, SumZero
  <2>2. QED
    BY <1>10, <1>12, <1>14, <2>1 DEF x, y
<1>15. QED
  BY <1>13, <1>14

LEMMA EntriesSpend ==
  ASSUME NEW rows, RowsGood(rows), NEW c
  PROVE  Spent(buildCostEntries(rows), c) = SumOf(rows, SummaryCost(rows, c))
<1> DEFINE by == SummaryKey(rows)
           x == EntryCost(rows, c)
           y == SummaryCost(rows, c)
           r == [q \in rows |-> EntryOf(rows, q)]
           E == buildCostEntries(rows)
           Q == {e \in E : e.cur = c}
           val == [e \in Q |-> e.cost]
<1>1. IsFiniteSet(rows) /\ DOMAIN by = rows
  BY DEF RowsGood, SummaryKey
<1>2. WholeOn(rows, y)
  <2>1. ASSUME NEW q \in rows PROVE y[q] \in Int
    <3>1. NativeCost(q.usage, PriceOf(q.model)) \in Nat
      BY DEF RowsGood
    <3>2. y[q] = NativeCost(q.usage, PriceOf(q.model)) \/ y[q] = 0
      BY DEF SummaryCost, RowCost
    <3>3. QED
      BY <3>1, <3>2
  <2>2. QED
    BY <2>1 DEF WholeOn
<1>3. WholeOn(rows, x)
  <2>1. ASSUME NEW q \in rows PROVE x[q] \in Int
    <3>1. CASE FirstOf(rows, q)
      <4> DEFINE s == [a \in SameSummary(rows, q) |-> NativeCost(a.usage, PricesOf(rows)[a])]
      <4>1. \A a \in SameSummary(rows, q) : s[a] \in Nat
        <5>1. ASSUME NEW a \in SameSummary(rows, q) PROVE NativeCost(a.usage, PricesOf(rows)[a]) \in Nat
          <6>1. a \in rows /\ a.model \in Names /\ NativeCost(a.usage, PriceOf(a.model)) \in Nat
            BY DEF SameSummary, RowsGood
          <6>2. PricesOf(rows)[a] = PriceOf(a.model)
            BY <6>1, NamesAreKnown, NoScopedPrice DEF PricesOf
          <6>3. QED
            BY <6>1, <6>2
        <5>2. QED
          BY <5>1
      <4>2. SameSummary(rows, q) \in SUBSET rows
        BY DEF SameSummary
      <4>3. IsFiniteSet(SameSummary(rows, q)) /\ DOMAIN s = SameSummary(rows, q)
        BY <1>1, <4>2, FS_Subset
      <4>4. BuildPricingSnapshot(rows, PricesOf(rows))[q] = SumFunction(s)
        BY DEF BuildPricingSnapshot
      <4> HIDE DEF s
      <4>5. SumFunction(s) \in Nat
        BY <4>1, <4>3, SumFunctionIs, SumNatural
      <4>6. EntryOf(rows, q).cost \in Nat
        BY <3>1, <4>4, <4>5 DEF EntryOf
      <4>7. QED
        BY <4>6 DEF EntryCost
    <3>2. CASE ~FirstOf(rows, q)
      <4>1. EntryOf(rows, q).cost = 0
        BY <3>2 DEF EntryOf
      <4>2. QED
        BY <4>1 DEF EntryCost
    <3>3. QED
      BY <3>1, <3>2
  <2>2. QED
    BY <2>1 DEF WholeOn
<1>4. SumOf(rows, x) = SumOf(rows, y)
  <2> DEFINE u == [K \in Groups(by) |-> SumOf(K, y)]
  <2>1. \A K \in Groups(by) : u[K] = SumOf(K, y) /\ u[K] = SumOf(K, x)
    BY ClassCost
  <2> HIDE DEF u, x, y, by
  <2>2. SumOf(Groups(by), u) = SumOf(rows, x)
    BY <1>1, <1>3, <2>1, SumGroups
  <2>3. SumOf(Groups(by), u) = SumOf(rows, y)
    BY <1>1, <1>2, <2>1, SumGroups
  <2>4. QED
    BY <2>2, <2>3
<1>5. \A q \in rows : r[q].row = q /\ r[q] = EntryOf(rows, q)
  BY DEF EntryOf
<1>6. Injects(r, rows)
  <2> HIDE DEF r
  <2>1. QED
    BY <1>5 DEF Injects
<1>7. E = {r[q] : q \in rows}
  BY <1>5, EntriesAre
<1>8. DOMAIN val = Q /\ \A e \in Q : val[e] = e.cost
  OBVIOUS
<1>9. \A q \in rows : x[q] = IF r[q] \in Q THEN val[r[q]] ELSE 0
  <2> HIDE DEF val
  <2>1. ASSUME NEW q \in rows
        PROVE  x[q] = IF r[q] \in Q THEN val[r[q]] ELSE 0
    <3>1. x[q] = IF r[q].cur = c THEN r[q].cost ELSE 0
      BY <1>5 DEF EntryCost
    <3>2. r[q] \in E
      BY <1>7
    <3> HIDE DEF r, E, x
    <3>3. r[q] \in Q <=> r[q].cur = c
      BY <3>2
    <3>4. QED
      BY <1>8, <3>1, <3>3
  <2>2. QED
    BY <2>1
<1> HIDE DEF val, r, x, y, E
<1>10. Q \subseteq {r[q] : q \in rows}
  BY <1>7
<1>11. WholeOn(Q, val)
  <2> HIDE DEF Q
  <2>1. ASSUME NEW e \in Q PROVE val[e] \in Int
    <3>1. PICK q \in rows : e = r[q]
      BY <1>10
    <3>2. QED
      BY <1>3, <1>9, <3>1 DEF WholeOn
  <2>2. QED
    BY <2>1 DEF WholeOn
<1>12. SumOf(Q, val) = SumOf(rows, x)
  <2> HIDE DEF Q
  <2>1. QED
    BY <1>1, <1>6, <1>9, <1>10, <1>11, SumImage
<1>13. Spent(E, c) = SumFunction(val)
  BY DEF Spent, val
<1>14. QED
  BY <1>4, <1>8, <1>12, <1>13, SumFunctionIs DEF E, y

LEMMA EntriesPrompt ==
  ASSUME NEW rows, RowsGood(rows)
  PROVE  Prompts(buildCostEntries(rows)) = SumOf(rows, [q \in rows |-> q.usage.prompt])
<1> DEFINE x == [q \in rows |-> q.usage.prompt]
           r == [q \in rows |-> EntryOf(rows, q)]
           E == buildCostEntries(rows)
           val == [e \in E |-> e.row.usage.prompt]
<1>1. IsFiniteSet(rows) /\ \A q \in rows : x[q] \in Int
  BY DEF RowsGood
<1>2. \A q \in rows : r[q].row = q /\ r[q] = EntryOf(rows, q)
  BY DEF EntryOf
<1>3. Injects(r, rows)
  <2> HIDE DEF r
  <2>1. QED
    BY <1>2 DEF Injects
<1>4. E = {r[q] : q \in rows}
  BY <1>2, EntriesAre
<1>5. DOMAIN val = E /\ \A e \in E : val[e] = e.row.usage.prompt
  OBVIOUS
<1>6. \A q \in rows : x[q] = q.usage.prompt
  OBVIOUS
<1> HIDE DEF val, r, x, E
<1>7. \A q \in rows : x[q] = IF r[q] \in E THEN val[r[q]] ELSE 0
  BY <1>2, <1>4, <1>5, <1>6
<1>8. WholeOn(E, val)
  <2>1. ASSUME NEW e \in E PROVE val[e] \in Int
    <3>1. PICK q \in rows : e = r[q]
      BY <1>4
    <3>2. QED
      BY <1>1, <1>7, <3>1
  <2>2. QED
    BY <2>1 DEF WholeOn
<1>9. E \subseteq {r[q] : q \in rows}
  BY <1>4
<1>10. SumOf(E, val) = SumOf(rows, x)
  BY <1>1, <1>3, <1>7, <1>8, <1>9, SumImage
<1>11. Prompts(E) = SumFunction(val)
  BY DEF Prompts, val
<1>12. QED
  BY <1>5, <1>10, <1>11, SumFunctionIs DEF E, x

(* The rows of a query. *)
PricedIn(S) == {f \in S : PricedAs(f) # Blank}
ProviderAs(f, b) == IF b THEN f.provider ELSE NoProvider
CostKey(S, b) == [f \in PricedIn(S) |-> <<PricedAs(f), ProviderAs(f, b)>>]
CostRowOf(R, b) == [model |-> PricedAs(One(R)), provider |-> ProviderAs(One(R), b), usage |-> Tokens(R)]

LEMMA CostRowsAre ==
  ASSUME NEW S, NEW b
  PROVE  CostRows(S, b) = {CostRowOf(R, b) : R \in Groups(CostKey(S, b))}
BY DEF CostRows, CostRowOf, CostKey, PricedIn, ProviderAs

LEMMA CostGroups ==
  ASSUME PricingInv, NEW S \in SUBSET Facts, NEW b, NEW R \in Groups(CostKey(S, b))
  PROVE  /\ R \in SUBSET Facts /\ R \in SUBSET PricedIn(S) /\ IsFiniteSet(R) /\ One(R) \in R
         /\ PricedAs(One(R)) \in Names /\ PricedAs(One(R)) # Blank
         /\ \A g \in R : PricedAs(g) = PricedAs(One(R)) /\ ProviderAs(g, b) = ProviderAs(One(R), b)
         /\ R = {g \in PricedIn(S) : PricedAs(g) = PricedAs(One(R)) /\ ProviderAs(g, b) = ProviderAs(One(R), b)}
<1> DEFINE by == CostKey(S, b)
           D == PricedIn(S)
<1>1. D \in SUBSET S /\ DOMAIN by = D /\ IsFiniteSet(D)
  BY FS_Subset DEF CostKey, PricedIn, PricingInv
<1>2. \A f \in D : by[f] = <<PricedAs(f), ProviderAs(f, b)>>
  BY DEF CostKey
<1>3. PICK a \in D : R = {f \in D : by[f] = by[a]}
  BY <1>1 DEF Groups
<1> HIDE DEF by, D
<1>4. \A f, g \in D : by[f] = by[g] <=> PricedAs(f) = PricedAs(g) /\ ProviderAs(f, b) = ProviderAs(g, b)
  BY <1>2
<1>5. R \in SUBSET D /\ a \in R
  BY <1>3
<1>6. One(R) \in R
  BY <1>5 DEF One
<1>7. R = {f \in D : by[f] = by[One(R)]}
  BY <1>3, <1>6
<1>8. One(R) \in D /\ One(R) \in Facts /\ R \in SUBSET Facts
  BY <1>1, <1>5, <1>6
<1>9. PricedAs(One(R)) \in Names
  BY <1>8 DEF PricingInv, FactOK, PricedAs
<1>10. PricedAs(One(R)) # Blank
  BY <1>8 DEF D, PricedIn
<1>11. IsFiniteSet(R)
  BY <1>1, <1>5, FS_Subset
<1>12. R = {g \in D : PricedAs(g) = PricedAs(One(R)) /\ ProviderAs(g, b) = ProviderAs(One(R), b)}
  BY <1>4, <1>7, <1>8
<1>13. QED
  BY <1>5, <1>6, <1>8, <1>9, <1>10, <1>11, <1>12 DEF D

LEMMA CostRowsAreGood ==
  ASSUME PricingInv, NEW S \in SUBSET Facts, NEW b
  PROVE  RowsGood(CostRows(S, b))
<1> DEFINE G == Groups(CostKey(S, b))
           r == [R \in G |-> CostRowOf(R, b)]
           rows == CostRows(S, b)
<1>1. rows = {r[R] : R \in G}
  BY CostRowsAre
<1>2. IsFiniteSet(rows)
  <2>1. IsFiniteSet(DOMAIN CostKey(S, b))
    BY FS_Subset DEF CostKey, PricedIn, PricingInv
  <2>2. IsFiniteSet(G)
    BY <2>1, GroupsAre
  <2> HIDE DEF r, G
  <2>3. IsFiniteSet({r[R] : R \in G})
    BY <2>2, FiniteImage
  <2>4. QED
    BY <1>1, <2>3
<1>3. \A R \in G : /\ r[R].model = PricedAs(One(R)) /\ r[R].provider = ProviderAs(One(R), b)
                   /\ r[R].usage = Tokens(R) /\ r[R] = CostRowOf(R, b)
  BY DEF CostRowOf
<1> HIDE DEF r, rows
<1>4. ASSUME NEW q \in rows
      PROVE  /\ q.model \in Names /\ q.model # Blank /\ q.usage.prompt \in Nat
             /\ NativeCost(q.usage, PriceOf(q.model)) \in Nat
  <2>1. PICK R \in G : q = r[R]
    BY <1>1
  <2>2. q.model = PricedAs(One(R)) /\ q.usage = Tokens(R)
    BY <1>3, <2>1
  <2>3. R \in SUBSET Facts /\ q.model \in Names /\ q.model # Blank
    BY <2>2, CostGroups
  <2>4. PriceOK(PriceOf(q.model))
    BY <2>3, NamesAreKnown, PricingAssumption, PricesAreNumbers DEF Known, PriceOf
  <2> DEFINE u == Tokens(R)
  <2>5. u.prompt \in Nat /\ u.cached \in Nat /\ u.completion \in Nat /\ u.cached <= u.prompt
    BY <2>3, <2>4, TokensLinear
  <2> HIDE DEF u
  <2>6. NativeCost(u, PriceOf(q.model)) \in Nat
    BY <2>4, <2>5, CostIs
  <2>7. QED
    BY <2>2, <2>3, <2>5, <2>6 DEF u
<1>5. ASSUME NEW p \in rows, NEW q \in rows, p.model = q.model, p.provider = q.provider
      PROVE  p = q
  <2>1. PICK R \in G : p = r[R]
    BY <1>1
  <2>2. PICK T \in G : q = r[T]
    BY <1>1
  <2>3. PricedAs(One(R)) = PricedAs(One(T)) /\ ProviderAs(One(R), b) = ProviderAs(One(T), b)
    BY <1>3, <1>5, <2>1, <2>2
  <2>4. R = {g \in PricedIn(S) : PricedAs(g) = PricedAs(One(R)) /\ ProviderAs(g, b) = ProviderAs(One(R), b)}
    BY CostGroups
  <2>5. T = {g \in PricedIn(S) : PricedAs(g) = PricedAs(One(T)) /\ ProviderAs(g, b) = ProviderAs(One(T), b)}
    BY CostGroups
  <2>6. R = T
    BY <2>3, <2>4, <2>5
  <2>7. QED
    BY <2>1, <2>2, <2>6
<1>6. QED
  BY <1>2, <1>4, <1>5 DEF RowsGood, rows

(* A sum over the rows is one over the facts that have a model's name.      *)
LEMMA CostRowsSum ==
  ASSUME PricingInv, NEW S \in SUBSET Facts, NEW b, NEW w, WholeOn(PricedIn(S), w), NEW val,
         \A R \in Groups(CostKey(S, b)) : val[CostRowOf(R, b)] = SumOf(R, w)
  PROVE  SumOf(CostRows(S, b), val) = SumOf(PricedIn(S), w)
<1> DEFINE by == CostKey(S, b)
           G == Groups(by)
           r == [R \in G |-> CostRowOf(R, b)]
           Q == CostRows(S, b)
<1>1. DOMAIN by = PricedIn(S) /\ IsFiniteSet(DOMAIN by)
  BY FS_Subset DEF CostKey, PricedIn, PricingInv
<1>2. Q = {r[R] : R \in G}
  BY CostRowsAre
<1>3. \A R \in G : /\ r[R].model = PricedAs(One(R)) /\ r[R].provider = ProviderAs(One(R), b)
                   /\ r[R] = CostRowOf(R, b)
  BY DEF CostRowOf
<1> HIDE DEF r, Q
<1>4. ASSUME NEW R \in G, NEW T \in G, r[R] = r[T]
      PROVE  R = T
  <2>1. PricedAs(One(R)) = PricedAs(One(T)) /\ ProviderAs(One(R), b) = ProviderAs(One(T), b)
    BY <1>3, <1>4
  <2>2. R = {g \in PricedIn(S) : PricedAs(g) = PricedAs(One(R)) /\ ProviderAs(g, b) = ProviderAs(One(R), b)}
    BY CostGroups
  <2>3. T = {g \in PricedIn(S) : PricedAs(g) = PricedAs(One(T)) /\ ProviderAs(g, b) = ProviderAs(One(T), b)}
    BY CostGroups
  <2>4. QED
    BY <2>1, <2>2, <2>3
<1>5. Injects(r, G)
  BY <1>4 DEF Injects
<1>6. \A R \in G : (IF r[R] \in Q THEN val[r[R]] ELSE 0) = SumOf(R, w)
  BY <1>2, <1>3
<1>7. Q \subseteq {r[R] : R \in G} /\ WholeOn(DOMAIN by, w)
  BY <1>1, <1>2
<1> HIDE DEF by
<1>8. SumOf(Q, val) = SumOf(DOMAIN by, w)
  <2>1. IsFiniteSet(DOMAIN by) /\ WholeOn(DOMAIN by, w) /\ Injects(r, Groups(by)) /\ Q \subseteq {r[R] : R \in Groups(by)}
    BY <1>1, <1>5, <1>7
  <2>2. \A R \in Groups(by) : (IF r[R] \in Q THEN val[r[R]] ELSE 0) = SumOf(R, w)
    BY <1>6
  <2> HIDE DEF G
  <2>3. QED
    BY ONLY <2>1, <2>2, SumRows
<1>9. QED
  BY <1>1, <1>8 DEF Q, by

(* What a fact adds to the amounts spent, and to the tokens.                *)
FactCost(c) == [f \in Facts |->
  IF CurOf(PriceOf(PricedAs(f))) = c THEN facts[f] * NativeCost(f.usage, PriceOf(PricedAs(f))) ELSE 0]
FactPrompt == [f \in Facts |-> facts[f] * f.usage.prompt]

LEMMA FactSums ==
  ASSUME PricingInv, NEW f \in Facts, PricedAs(f) # Blank, NEW c
  PROVE  FactCost(c)[f] \in Nat /\ FactPrompt[f] \in Nat
<1>1. facts[f] \in Nat /\ f.usage \in UsageType /\ f.usage.cached <= f.usage.prompt
  BY FactsAre
<1>2. PricedAs(f) \in Names
  BY DEF PricingInv, FactOK, PricedAs
<1>3. PriceOK(PriceOf(PricedAs(f)))
  BY <1>2, NamesAreKnown, PricingAssumption, PricesAreNumbers DEF Known, PriceOf
<1>4. NativeCost(f.usage, PriceOf(PricedAs(f))) \in Nat /\ f.usage.prompt \in Nat
  BY <1>1, <1>3, UsageIs, CostIs
<1>5. facts[f] * NativeCost(f.usage, PriceOf(PricedAs(f))) \in Nat /\ facts[f] * f.usage.prompt \in Nat
  BY <1>1, <1>4, Products
<1>6. QED
  BY <1>5 DEF FactCost, FactPrompt

LEMMA ViewSpends ==
  ASSUME PricingInv, NEW S \in SUBSET Facts, NEW b, NEW c
  PROVE  Spent(buildCostEntries(CostRows(S, b)), c) = SumOf(PricedIn(S), FactCost(c))
<1> DEFINE rows == CostRows(S, b)
           val == SummaryCost(rows, c)
           w == FactCost(c)
<1>1. RowsGood(rows)
  BY CostRowsAreGood
<1>2. WholeOn(PricedIn(S), w)
  BY FactSums DEF PricedIn, WholeOn
<1>3. ASSUME NEW R \in Groups(CostKey(S, b))
      PROVE  val[CostRowOf(R, b)] = SumOf(R, w)
  <2> DEFINE q == CostRowOf(R, b)
             p == PriceOf(PricedAs(One(R)))
             u == Tokens(R)
  <2>1. q \in rows /\ q.model = PricedAs(One(R)) /\ q.usage = u
    BY CostRowsAre DEF CostRowOf
  <2>2. /\ R \in SUBSET Facts /\ IsFiniteSet(R) /\ PricedAs(One(R)) \in Names
        /\ \A g \in R : PricedAs(g) = PricedAs(One(R))
    BY CostGroups
  <2>3. PriceOK(p)
    BY <2>2, NamesAreKnown, PricingAssumption, PricesAreNumbers DEF Known, PriceOf
  <2> HIDE DEF q
  <2>4. val[q] = IF CurOf(p) = c THEN NativeCost(u, p) ELSE 0
    BY <2>1 DEF SummaryCost, RowCost
  <2>5. NativeCost(u, p) = SumOf(R, Costs(R, p))
    BY <2>2, <2>3, TokensLinear
  <2>6. CASE CurOf(p) = c
    <3>1. \A g \in R : w[g] = Costs(R, p)[g]
      BY <2>2, <2>6 DEF FactCost, Costs
    <3>2. SumOf(R, w) = SumOf(R, Costs(R, p))
      BY <2>2, <3>1, SumAgrees
    <3>3. QED
      BY <2>4, <2>5, <2>6, <3>2 DEF q
  <2>7. CASE CurOf(p) # c
    <3>1. \A g \in R : w[g] = 0
      BY <2>2, <2>7 DEF FactCost
    <3>2. SumOf(R, w) = 0
      BY <2>2, <3>1, SumZero
    <3>3. QED
      BY <2>4, <2>7, <3>2 DEF q
  <2>8. QED
    BY <2>6, <2>7
<1> HIDE DEF val, w
<1>4. SumOf(rows, val) = SumOf(PricedIn(S), w)
  BY <1>2, <1>3, CostRowsSum
<1>5. Spent(buildCostEntries(rows), c) = SumOf(rows, val)
  BY <1>1, EntriesSpend DEF val
<1>6. QED
  BY <1>4, <1>5 DEF w

LEMMA ViewPrompts ==
  ASSUME PricingInv, NEW S \in SUBSET Facts, NEW b
  PROVE  Prompts(buildCostEntries(CostRows(S, b))) = SumOf(PricedIn(S), FactPrompt)
<1> DEFINE rows == CostRows(S, b)
           val == [q \in rows |-> q.usage.prompt]
           w == FactPrompt
<1>1. RowsGood(rows)
  BY CostRowsAreGood
<1>2. WholeOn(PricedIn(S), w)
  BY FactSums DEF PricedIn, WholeOn
<1>3. ASSUME NEW R \in Groups(CostKey(S, b))
      PROVE  val[CostRowOf(R, b)] = SumOf(R, w)
  <2> DEFINE q == CostRowOf(R, b)
             z == [f \in R |-> facts[f] * f.usage.prompt]
  <2>1. q \in rows /\ q.usage = Tokens(R)
    BY CostRowsAre DEF CostRowOf
  <2>2. R \in SUBSET Facts
    BY CostGroups
  <2>3. IsFiniteSet(R) /\ Tokens(R) = TokenSums(R)
    BY <2>2, TokensAre
  <2>4. TokenSums(R).prompt = SumOf(R, z)
    BY ONLY TRUE DEF TokenSums
  <2>5. val[q] = SumOf(R, z)
    <3> HIDE DEF q, z
    <3>1. QED
      BY <2>1, <2>3, <2>4
  <2>6. \A f \in R : z[f] = w[f]
    BY <2>2 DEF FactPrompt
  <2> HIDE DEF z, w, val, q
  <2>7. SumOf(R, z) = SumOf(R, w)
    BY <2>3, <2>6, SumAgrees
  <2>8. QED
    BY <2>5, <2>7 DEF q
<1> HIDE DEF val, w
<1>4. SumOf(rows, val) = SumOf(PricedIn(S), w)
  BY <1>2, <1>3, CostRowsSum
<1>5. Prompts(buildCostEntries(rows)) = SumOf(rows, val)
  BY <1>1, EntriesPrompt DEF val
<1>6. QED
  BY <1>4, <1>5 DEF w

(* The buckets of time divide the facts. *)
Buckets == {f.bucket : f \in Facts}
LEMMA BucketsSum ==
  ASSUME PricingInv, NEW w, WholeOn(PricedIn(Facts), w), NEW u,
         DOMAIN u = Buckets, \A t \in Buckets : u[t] = SumOf(PricedIn(Bucket(t)), w)
  PROVE  SumFunction(u) = SumOf(PricedIn(Facts), w)
<1> DEFINE S == PricedIn(Facts)
           k == [f \in Facts |-> f.bucket]
           T == Buckets
<1>1. IsFiniteSet(S) /\ S \in SUBSET Facts
  BY FS_Subset DEF PricedIn, PricingInv
<1>2. \A f \in Facts : k[f] = f.bucket
  OBVIOUS
<1>3. IsFiniteSet(T) /\ \A x \in S : k[x] \in T
  <2>1. T = {k[f] : f \in Facts}
    BY DEF Buckets
  <2>2. IsFiniteSet(Facts)
    BY DEF PricingInv
  <2> HIDE DEF k, T
  <2>3. IsFiniteSet({k[f] : f \in Facts})
    BY <2>2, FiniteImage
  <2>4. QED
    BY <1>1, <2>1, <2>3
<1>4. \A t \in T : Fibred(S, w, k, T)[t] = u[t]
  <2>1. ASSUME NEW t \in T PROVE Fibre(S, k, t) = PricedIn(Bucket(t))
    BY <1>2 DEF Fibre, PricedIn, Bucket
  <2>2. QED
    BY <2>1 DEF Fibred
<1> HIDE DEF S, k, T
<1>5. SumOf(T, Fibred(S, w, k, T)) = SumOf(S, w)
  BY <1>1, <1>3, SumFibres DEF S
<1>6. SumOf(T, Fibred(S, w, k, T)) = SumOf(T, u)
  BY <1>3, <1>4, SumAgrees
<1>7. QED
  BY <1>5, <1>6, SumFunctionIs DEF S, T

LEMMA ViewsDoAgree ==
  ASSUME PricingInv
  PROVE  ViewsAgree
<1> DEFINE buckets == ByTimeRange
<1>1. Facts \in SUBSET Facts /\ \A t \in Buckets : Bucket(t) \in SUBSET Facts
  BY DEF Bucket
<1>2. DOMAIN buckets = Buckets /\ \A t \in Buckets : buckets[t] = buildCostEntries(CostRows(Bucket(t), TRUE))
  BY DEF ByTimeRange, Buckets
<1>3. ByModel = buildCostEntries(CostRows(Facts, FALSE)) /\ ByProvider = buildCostEntries(CostRows(Facts, TRUE))
  BY DEF ByModel, ByProvider
<1> HIDE DEF buckets
<1>4. ASSUME NEW c
      PROVE  /\ Spent(ByModel, c) = Spent(ByProvider, c)
             /\ Spent(ByModel, c) = SumFunction([t \in DOMAIN buckets |-> Spent(buckets[t], c)])
  <2> DEFINE w == FactCost(c)
             u == [t \in DOMAIN buckets |-> Spent(buckets[t], c)]
  <2>1. Spent(ByModel, c) = SumOf(PricedIn(Facts), w) /\ Spent(ByProvider, c) = SumOf(PricedIn(Facts), w)
    BY <1>1, <1>3, ViewSpends
  <2>2. WholeOn(PricedIn(Facts), w)
    BY FactSums DEF PricedIn, WholeOn
  <2>3. DOMAIN u = Buckets /\ \A t \in Buckets : u[t] = SumOf(PricedIn(Bucket(t)), w)
    BY <1>1, <1>2, ViewSpends
  <2> HIDE DEF w, u
  <2>4. SumFunction(u) = SumOf(PricedIn(Facts), w)
    BY <2>2, <2>3, BucketsSum
  <2>5. QED
    BY <2>1, <2>4 DEF u
<1>5. /\ Prompts(ByModel) = Prompts(ByProvider)
      /\ Prompts(ByModel) = SumFunction([t \in DOMAIN buckets |-> Prompts(buckets[t])])
  <2> DEFINE w == FactPrompt
             u == [t \in DOMAIN buckets |-> Prompts(buckets[t])]
  <2>1. Prompts(ByModel) = SumOf(PricedIn(Facts), w) /\ Prompts(ByProvider) = SumOf(PricedIn(Facts), w)
    BY <1>1, <1>3, ViewPrompts
  <2>2. WholeOn(PricedIn(Facts), w)
    BY FactSums DEF PricedIn, WholeOn
  <2>3. DOMAIN u = Buckets /\ \A t \in Buckets : u[t] = SumOf(PricedIn(Bucket(t)), w)
    BY <1>1, <1>2, ViewPrompts
  <2> HIDE DEF w, u
  <2>4. SumFunction(u) = SumOf(PricedIn(Facts), w)
    BY <2>2, <2>3, BucketsSum
  <2>5. QED
    BY <2>1, <2>4 DEF u
<1>6. QED
  BY <1>4, <1>5 DEF ViewsAgree, buckets

(* A price is found under the best name there is, the pricing report keeps  *)
(* the costs fixed when requests were served, and the cost reports agree.   *)
THEOREM CostsAreSound == PricingSpec => []CostsSound
<1>1. ASSUME PricingInv
      PROVE  CostsSound
  <2>1. PricesFit
    <3>1. ASSUME NEW f \in Facts
          PROVE  PricesFitOf(f)
      <4>1. f.effective \in Names
        BY <1>1, NamesAreKnown DEF PricingInv, FactOK
      <4>2. QED
        BY <4>1, PricesFitOne
    <3>2. QED
      BY <3>1 DEF PricesFit, PricesFitOf
  <2>2. EconomicsKept /\ ViewsAgree
    BY <1>1, EconomicsAreKept, ViewsDoAgree
  <2>3. QED
    BY <2>1, <2>2 DEF CostsSound
<1>2. PricingSpec => []PricingInv
  BY PricingInvInvariant
<1>3. QED
  BY <1>1, <1>2, PTL
==============================================================================
