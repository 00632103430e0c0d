---------------------------- MODULE MCOperations ----------------------------
(***************************************************************************)
(* Parts of the system's operation that share no state: the benchmark      *)
(* service and how it judges a target, aigw's supervisor, the live price   *)
(* list and the updater.  The initial state chooses which of them runs;    *)
(* the others stay at rest.                                                *)
(***************************************************************************)
EXTENDS Benchmarks, Sequences, TLC

CONSTANTS
  r1, r2, r3, Daemons,
  m1, m2, source, full, bare, MaxEdition, MaxUpdates,
  Files, Old, New, Torn, Absent, MaxTime, MaxCalls,
  CaseOrder, Baselines

VARIABLES
  part,
  boss, at, signalled, process, sigterm, sigkill, done, watcher, childExited,
  edition, cfg, state, cache, step, mine, updates,
  install, bundle, backups, replaced, cached, call, now, calls,
  results, baseline

(* The source prices both models, the built-in list one.  One              *)
(* configuration asks it and converts currencies, the other has no source  *)
(* and a manual price.                                                     *)
MCKeys == {m1, m2}
MCBootstrap == {m1}
MCPrices == source :> MCKeys
MCConfigs ==
  [c \in {full, bare} |->
     IF c = full THEN [sources |-> <<[id |-> source, on |-> TRUE]>>, manual |-> {}, fx |-> TRUE]
     ELSE [sources |-> << >>, manual |-> {m2}, fx |-> FALSE]]

Aigw == INSTANCE Supervisor
Live == INSTANCE PricingCatalog
          WITH Keys <- MCKeys, Bootstrap <- MCBootstrap, Prices <- MCPrices, Configs <- MCConfigs

Update == INSTANCE Updater
Scores == INSTANCE TargetScores

ASSUME DaemonsAssumption == Aigw!SuperviseAssumption
ASSUME PricesAssumption == Live!CatalogAssumption
ASSUME UpdatesAssumption == Update!UpdaterAssumption
ASSUME ScoresAssumption == Scores!ScoreAssumption

MCTargets == r1 :> 2 @@ r2 :> 1 @@ r3 :> 1
MCDaemons == <<"telemetryd", "gatewayd", "controld">>
MCFiles == <<"manifest", "binary">>
MCCases == <<"reasoning_exact", "reasoning_judge", "coding_proxy", "instruction_exact",
             "json_schema", "tool_call", "stream_protocol">>
MCBaselines == {<< >>, [overall |-> 85], [reasoning |-> 90, tool_json |-> 100], [other |-> 3]}

atPrices == <<edition, cfg, state, cache, step, mine, updates>>
atAigw == <<boss, at, signalled, process, sigterm, sigkill, done, watcher, childExited>>
atUpdater == <<install, bundle, backups, replaced, cached, call, now, calls>>
atScores == <<results, baseline>>

AigwAtRest ==
  /\ boss = "gone" /\ at = 1 /\ signalled = FALSE
  /\ process = [d \in Aigw!Daemon |-> "none"] /\ sigterm = {} /\ sigkill = {}
  /\ done = [d \in Aigw!Daemon |-> "empty"] /\ watcher = {} /\ childExited = FALSE

PricesAtRest ==
  /\ edition = 1 /\ cfg = full /\ cache = Live!BootSnapshot /\ state = cache /\ updates = 0
  /\ step = [w \in Live!Writers |-> "idle"] /\ mine = [w \in Live!Writers |-> Live!Idle]

UpdaterAtRest ==
  /\ install = [f \in Update!Payload |-> Old] /\ bundle = [f \in Update!Payload |-> Absent]
  /\ backups = [t \in Update!Time |-> Update!Empty] /\ replaced = backups /\ cached = FALSE
  /\ call = [c \in Update!Callers |-> Update!NoCall] /\ now = 0 /\ calls = 0

(* Bound: the installed release lacks at most the last file.               *)
MCLacks == \A i \in DOMAIN Files : i < Len(Files) => install[Files[i]] = Old

ScoresAtRest == results = << >> /\ baseline = << >>

MCInit ==
  /\ BenchInit
  /\ \/ part = "benchmarks" /\ AigwAtRest /\ PricesAtRest /\ UpdaterAtRest
     \/ part = "aigw" /\ Aigw!SuperviseInit /\ PricesAtRest /\ UpdaterAtRest
     \/ part = "prices" /\ AigwAtRest /\ Live!CatalogInit /\ UpdaterAtRest
     \/ part = "updater" /\ AigwAtRest /\ PricesAtRest /\ Update!UpdaterInit /\ MCLacks
     \/ part = "scores" /\ AigwAtRest /\ PricesAtRest /\ UpdaterAtRest
  /\ IF part = "scores" THEN Scores!ScoreInit ELSE ScoresAtRest

MCNext ==
  \/ part = "benchmarks" /\ BenchNext /\ UNCHANGED <<part, atAigw, atPrices, atUpdater, atScores>>
  \/ part = "aigw" /\ Aigw!SuperviseNext /\ UNCHANGED <<part, benchVars, atPrices, atUpdater, atScores>>
  \/ part = "prices" /\ Live!CatalogNext /\ UNCHANGED <<part, benchVars, atAigw, atUpdater, atScores>>
  \/ part = "updater" /\ Update!UpdaterNext /\ UNCHANGED <<part, benchVars, atAigw, atPrices, atScores>>
  \/ part = "scores" /\ Scores!ScoreNext /\ UNCHANGED <<part, benchVars, atAigw, atPrices, atUpdater>>

(* The ticker of a price list at rest never ticks.                         *)
PricesFairness ==
  /\ WF_atPrices(part = "prices" /\ Live!Refresh("ticker"))
  /\ WF_atPrices(part = "prices" /\ Live!DaemonGoesOn)

MCSpec ==
  /\ MCInit /\ [][MCNext]_<<part, benchVars, atAigw, atPrices, atUpdater, atScores>>
  /\ BenchFairness /\ Aigw!SuperviseFairness /\ PricesFairness

(* One type invariant for all. *)
TypesOK ==
  BenchTypeOK /\ Aigw!SuperviseTypeOK /\ Live!CatalogTypeOK /\ Update!UpdaterTypeOK /\ Scores!ScoreTypeOK

(* What was begun and what was lost are accounted for: every run of the    *)
(* benchmark service is in its table or was refused, every child of aigw   *)
(* has a parent or was left by one that was killed.                        *)
Accounted == RunsAccounted /\ Aigw!NoOrphans

(* An update leaves an installation that is whole, or can be made so.      *)
UpdateSafe == Update!UpdateSafe

(* A target is judged by the answers it gave.                              *)
VerdictSound == Scores!VerdictSound

(* What must happen in the end: the slots of benchmark runs return, prices *)
(* follow the configuration, and a child that ends with an error stops all.*)
EndsWell ==
  /\ part = "benchmarks" => SlotsReturn
  /\ part = "aigw" => Aigw!ErrorStopsAll
  /\ part = "prices" => Live!PricesFollowConfig
=============================================================================
