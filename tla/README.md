# Ai-Model-Gateway in TLA+

Specifications of the Ai-Model-Gateway, its model-checking configurations for
TLC, and proofs checked by TLAPS. Paths of the program are relative to the root
of its repository (`src/` here); `PROJECT.json` maps every definition that
models code to the lines it models.

## 1. The system

The gateway runs as four processes ("planes"), usually under one supervisor:

| process | role | state it keeps |
|---|---|---|
| `aigw` | starts and stops the other three (`cmd/aigw/supervisor.go`), updates the installation | child processes, exit channels; the install directory and its backups |
| `controld` | control plane: authoring configs, revisions, publishing, benchmarks (`cmd/controld`, `internal/control`) | the revision ledger, in memory and in SQLite; the connection to gatewayd; benchmark runs |
| `gatewayd` | data plane: serves model requests with the current snapshot (`cmd/gatewayd`, `internal/gateway`) | the snapshot, its copy on disk, health probes, runtime state of providers and keys, cache, queue, price list, telemetry buffer |
| `telemetryd` | event log, projection, queries (`cmd/telemetryd`, `internal/telemetry`) | raw events, projected facts, checkpoint |

They talk over net/rpc on local sockets: controld calls gatewayd
(`ApplySnapshot`, `GetStatus`, `Drain`) and telemetryd (queries), gatewayd
calls telemetryd (`AppendBatch`).

### Components

What each part keeps and does, what is hard about it, and what has to hold; the
hazards in `PROJECT.json` give the lines.

**Publisher** (`internal/control/publish`). State: the revisions, the index of
the active one, the publish history with its retention limit, and the stored
copy of all that. Operations: load or seed, upsert a revision (reload), publish,
roll back, update a config, each under one mutex that is held across the RPC to
gatewayd. Hard: every operation saves more than once, a save may fail and is
only logged, the process may end between any two; the record of a running
publish is reached through a pointer into a list that is trimmed. Correct when
the record that is completed is the one that was staged, only a publish that
gatewayd confirmed activates, the history keeps to the limit of the active
revision, a cached snapshot belongs to the config that is there now, and
whatever was stored can be restored.

**gatewayd snapshot lifecycle** (`cmd/gatewayd`). State: the snapshot in force,
two cache files, the probe loop and its cancel function. Operations:
`ApplySnapshot` by RPC, restore from the files, restart. Hard: the RPC server
answers before the restore has run, calls may overlap, the two files are renamed
one after the other, a crash leaves any prefix of that, and a file operation that
fails is only logged. Correct when only accepted snapshots are served or restored,
a call that came alone is in force when it is answered, and on the disk if its
files could be written, and one probe loop follows the snapshot.

**controld daemon** (`cmd/controld`) and **config watcher**
(`internal/infra/configloader`). State: the connection, the config file and the
hash the watcher has seen, five goroutines that publish. Operations: start,
connect, maintain, republish, reload, admin calls. Hard: each of the goroutines
chooses a revision under one lock and publishes it under another; answers get
lost with a process; the file is written by the operator and by controld.
Correct when gatewayd does not rest on anything but the active revision, ends up
with it when both stay up and it compiles, and edits reach the ledger. A call that
overlaps gatewayd's restore, or that of a controld which has ended, is excepted
from the first two.

**Gateway request execution** (`internal/gateway/api`). State: per request the
candidates, the attempts, what the client has been sent; the shared response
cache. Operations: one handler with a retry loop over providers, then fallback
models. Hard: three limits that end the loop in different places, a heartbeat
goroutine that writes to the response the handler writes to, seven paths out.
Correct when every request gets one answer and at most one telemetry event, the
calls stay below the caps, and diagnostic requests touch nobody else.

**Provider runtime state, key rotation, health probes**
(`internal/gateway/api/runtime_state.go`, `key_rotation.go`, `routing.go`,
`cmd/gatewayd/health_probe.go`). State: per provider a failure count and the
times of the last failure and of the last 429, per key its failures, per session
the provider it is bound to. Operations: order the candidates, report an
attempt or a probe, take and report a key, recover keys, replace all that by a
publish. Hard: results of calls that started under an earlier snapshot come in
late, probes are cancelled by a publish and then report failures, cooldowns run
out while requests choose. Correct when no candidate is lost, a provider and a
key come back when they work again, and a key is blamed only for its own calls.

**Admission** (`internal/gateway/queue`, `cache`, `ratelimit`, the upstream
limiter of `runtime_state.go`). A queue with a channel per priority and
schedulers that sleep on wake-up tokens; a cache bounded in entries and bytes;
token buckets. Hard: a scheduler falls asleep while a request comes in, callers
leave and the queue closes while requests wait, a request panics, requests of a
higher priority keep coming; accounts that are kept by hand; reservations ahead of
the clock. Correct when an accepted request runs unless the queue is closed or
higher ones never leave it a turn, the accounts are what they count, and the rates
hold over every stretch of time.
The queue and the limiter of clients are complete packages that nothing in the
daemons puts to use yet.

**Telemetry** (`internal/gateway/telemetry`, `cmd/telemetryd`,
`internal/telemetry/eventlog`, `project`, `query`, `cmd/migrate-telemetry`).
State: the client's bounded buffer, its connection and counters; the raw events,
the facts, aggregates and the projection's checkpoint; the migration's own
checkpoint file. Hard: goroutines that swap the buffer, send and dial at once;
batches sent again after a lost answer; two projectors on one store; rows whose
insert fails while the rest of their batch is committed; an import run again after
it died. Correct when every event is somewhere or counted as sent or dropped, the
query store says of the log what is in it, the migration passes no row that could
be inserted and is not in the log, and nothing waits for ever.

**Prices and costs** (`internal/telemetry/pricing*.go`, `query/cost.go`,
`query/queries.go`, `gateway/api/pricing.go`). State: the live price list, its
configuration and its cache file, written by a ticker and by publishes without a
lock. Computed: under which name a model has a price, what a request cost, what
the reports say. Correct when the list ends up being that of the configuration
in force, costs fixed when a request was served are reported unchanged, and the
reports agree with one another.

**Protocol bridges** (`internal/gateway/api/compat.go`). Computed per request: a
body converted for a provider of the other protocol and its answer converted
back, and three bridges that rewrite an event stream while it is read. Correct
when nothing that was said is lost, doubled or reordered, whoever answers which
turn, and a stream is well formed and closed exactly when it ended. A tool's result
that is JSON is an exception: it is said as a value, not as the text it was.

**Configuration and compiler** (`internal/core`, `configloader`,
`control/compiler`). Pure: defaults, checks, a snapshot. Correct when filling in
defaults again changes nothing, what was accepted compiles but for a few cases
that validation does not see, and a restart compiles the same.

**Benchmarking** (`internal/control/benchmarking`). State: slots, and rows for
runs and targets that are written one by one by a background goroutine. Hard: a
write fails, controld dies. Correct when slots return, the rows tell the truth,
and a target is never judged better for a worse answer.

**aigw supervisor** (`cmd/aigw/supervisor.go`). State: children and a one-place
exit channel each, which a watcher and whoever starts or stops the child both
read. Correct when no child is left behind and a child's failure stops all. The
supervisor does not start a dead daemon again.

**Updater** (`internal/updater`). State: download, install and backup
directories and a status file, all without a lock. Hard: every copied file is
truncated before it is written, in the backup too, and a copy may fail or the
process die at any point; calls may overlap. Correct when an update that nothing
overlapped installs the release or restores what was there, its backup is whole
before the first file is overwritten, and a rollback to such a backup brings all of
it back. A backup that was itself cut short promises nothing (section 4).

The rest (audit log, control API, HTTP, CLI, UI) is in `PROJECT.json` with the
reason why it is not modelled.

## 2. Modules

| module | models | built on |
|---|---|---|
| `Publisher` | the revision ledger and its store | |
| `GatewaySnapshot` | ApplySnapshot, the cache files, restore, probe loops | |
| `ConfigPipeline` | controld's goroutines, the connection, the watcher and the file | one instance of each of the two above |
| `RequestPromise` | abstract: what a request handler promises its client and telemetry | |
| `RequestExecution` | the handler with retries, fallback, keep-alive and cache | implements `RequestPromise` |
| `ProviderState` | the runtime state of providers and keys, with requests, probes and publishes around it | |
| `RequestQueue`, `ResponseCache`, `RateLimits` | the priority queue; the cache; two token buckets | |
| `EventLog` | what an append to telemetryd's log does, as an operator | |
| `TelemetryClient` | gatewayd's side of telemetry, with telemetryd as a server that stores, dies and returns | `EventLog` |
| `TelemetryLog` | event log, projectors, query store, migration | `EventLog` |
| `PricingCatalog` | the live price list and its three writers | |
| `Pricing` | names, prices, costs, the pricing and cost reports | |
| `CompatStreams`, `CompatBodies` | the stream bridges; conversations converted back and forth | |
| `ConfigRules` | defaults, validation, compilation, the way through the state file | |
| `BenchmarkScoring` | suite, scorers, scores and verdict, as operators | |
| `Benchmarks` | the life of a benchmark run | `BenchmarkScoring` |
| `TargetScores` | how a target is judged | `BenchmarkScoring` |
| `Supervisor` | `aigw supervise` | |
| `Updater` | fetch, apply, roll back | |
| `PublisherProofs`, `GatewaySnapshotProofs`, `ConfigPipelineProofs` | theorems | the module they are named for |
| `RequestExecutionProofs` | theorems about it and about stream bridges | `RequestExecution`, `CompatStreams` |
| `ProviderStateProofs` | theorems about it, the configuration and conversations | `ProviderState`, `ConfigRules`, `CompatBodies` |
| `AdmissionProofs`, `TelemetryProofs` | theorems about the modules that `MCAdmission` and `MCTelemetry` instantiate | those |
| `OperationsProofs` | theorems about the modules that `MCOperations` instantiates and about prices and costs | those, `Pricing` |
| `MCPublisher`, `MCConfigPipeline`, `MCGatewaySnapshot`, `MCRequestExecution`, `MCProviderState` | constants for TLC | the module they are named for |
| `MCTelemetry`, `MCAdmission`, `MCOperations`, `MCAlgorithms` | constants for TLC, several modules in one run | see below |

Definitions named `Bug...` are not part of any specification: each is a
definition of its module with a plausible mistake, and the property that
catches the mistake is named with it in `PROJECT.json` ("mutants").

The last four MC modules check several modules in one run: those modules share
no state, and the variable `part`, chosen by the initial state, says which of
them runs while the others rest. Nothing interleaves, so that the state space is
the sum of theirs, and every property is checked of its own part.

**Publisher.** `revisions`, `active`, `publishes`, `limit` are the fields of the
struct, `disk` and `legacy` what SQLite and the old JSON file hold. One action
is what happens under the mutex up to the next point another process can see:
`BeginPublish`/`BeginUpdate` go up to the RPC, `Observed`/`Failed` are what
follows its answer; `inflight` is the stack frame between them. Every save inside
an action either succeeds or, with `SavesMayFail`, does not. `Crash` forgets the
memory at any point. A revision identifier is a hash of the config without its
secrets (`HashId`, not injective) or fresh (`BeginUpdate`).

**GatewaySnapshot.** A call is a job with a program counter, so that calls can
overlap and a crash can come between any two file operations; the boot restore
is one more job. A snapshot stands for payload and metadata together, and a
file that mixes two of them is a record `[bytes, meta]`. A call whose own file
operation fails goes on to "unsaved", from where it answers Applied as the code
does. Probe loops are identified by `LoopIds`; `handle` is the stored cancel
function. `overlap` is history, which no action reads: whether a call has arrived
while another job was at work.

**ConfigPipeline.** The two components' actions are conjoined with what controld
does around them, so that `ImplementsPublisher` and `ImplementsGateway` are
properties that can fail. `thread` gives each goroutine's place between choosing
a revision and publishing it; `owner` is the holder of the publisher's mutex;
`conn` is what controld believes of its connection. A call of a controld that has
ended goes on in gatewayd, beside that of its successor if there is a second slot
in `Calls`.

**RequestExecution.** Requests are goroutines; `profile` holds what a handler
reads once, that is the routing policy of its snapshot and its own attributes.
Which candidates the runtime state lets through, and in which order, is left open
(`Orders`), and so is what upstream answers (`Outcomes`). `wire` and `events` are
what the outside has seen.

**ProviderState.** One mutex guards `RuntimeState`, so each of its operations is
one action. The retry loop is reduced to what it asks and reports: `Order`,
`Call` (take a key), `Return` (report key and provider), `Remember`; a request
keeps the snapshot it began with. `shared` says whether the key of a running
call belongs to the rotator that is there now, which in the code is the identity
of a pointer. Times are ages that `Tick` advances up to `Horizon`, beyond which
nothing is told apart. `ApplySnapshot` and `StartLoop` are the two halves of
`Daemon.ApplySnapshot`, with the wait for the old probe loop in between.

**RequestQueue.** A caller's place is its own (`caller`), apart from what the
queue does with its request (`work`), because a caller may leave while the
request waits or runs. A scheduler looks at one channel per step (`Scan(i)`),
sleeps on the channel of tokens (`notify`, a number up to its capacity), takes a
token and scans again. What happens between two channel operations is one step.
An execution either `Ends` and tells its caller, or `Panics` and does not. A
regular client sends `Again` as soon as it was answered, without a bound, so that
in an infinite behaviour requests of one level can keep coming for ever.

**ResponseCache.** `lru` is the list with the keys' entries, `bytes` the account
kept beside it, and `latest`, `answer`, `evicted` are what the properties compare
it with. **RateLimits.** The clock and the credit are counted in ticks, of which
a token costs `Cost`; `allowed` and `starts` record when calls passed.

**TelemetryClient.** A goroutine that sends is a `sender` with the batch it has
taken; a call is made on the connection the client had at that moment, stored by
the server and answered in three steps, any of which a death of telemetryd may
come between. `conns` lists the connections that were dialled and what became of
each, `sent` and `dropped` are the counters of `Stats`, `log` is what telemetryd
has stored. **TelemetryLog.** A transaction is an action; of an appended batch any
rows may fail to be inserted, which leaves the others in (`Appended`), and `lost`
records which rows of the old database had that happen. telemetryd's projector and
the one migrate-telemetry drains the log with (`proj`) each keep the last id
they have read; `import` is the migration between its steps, `saved` its
checkpoint file with the hash of the source it belongs to.

**PricingCatalog.** `cfg` and `state` are the two atomic values; each writer's
place between reading and storing them is in `step` and what it carries in
`mine`; a refresh whose cache file could not be written stores its snapshot a second
time (`StoreAgain`). `edition` stands for what the price pages say now. **Pricing.** A model's
name is a record, so that "the names it may go under" is a function of its parts;
`facts` is a bag, because two requests may be the same in everything that is
stored.

**CompatStreams.** One event at a time is `read`, the bridge's `state` is the
struct of the code, and `written` is what the client has got. **CompatBodies.**
`history` is the list of messages the client would send next, in its own
protocol; `said` is what was really said, by whom, in an order no conversion
touches, and the properties compare the two. A text is a number; one of `JsonTexts`
becomes its negative when it is decoded, which no text is.

**ConfigRules.** `config` goes through the stages of `stage`; the initial states
are all combinations of the fields that some rule relates to each other.

**Benchmarks.** `exec` is the goroutine of a run, `stored` its rows, `unsaved` the
runs whose last write failed or whose daemon died. **Supervisor.** `boss` is the
place of the main goroutine in its start-up or shut-down, `at` the daemon it is
at, `done` the one-place channels. **Updater.** Backing up, installing and putting
back are one pair of actions, `Truncate` and `Copy`, from different sources to
different directories, as they are one `copyFile`; `CopyFails` and `Dies` may come
before, between and after the two. An apply may fetch first (`applies`). `before` is
the installation when a call began to copy, `alone` says that no other call has
overlapped it, and `replaced`, which no action reads, keeps what the apply replaced
that finished a backup.

## 3. Runs

| run | asks | bounds | states, time |
|---|---|---|---|
| `publisher` | does the ledger stay consistent, across crashes, with a store that works? | 3 configs (two with one identifier, one with a shorter history), 1 fresh identifier, history of 1 and 2 | 12 s |
| `publisher_save_errors` | what if any save may fail, and no gateway is configured? | 3 configs, one does not compile; history of 1 | 8 s |
| `pipeline` | does gatewayd ever rest on the wrong snapshot? do the components keep their specifications? | any 2 outside events of all kinds; 3 configs, one does not compile, 1 revision of an update; 2 calls, none before the restore | 697 237, 78 s |
| `pipeline_live` | does it converge, and do edits arrive? | 2 events: edits, crashes; the same configs and calls | 129 827, 182 s |
| `gateway_snapshot` | is an answered call in force and durable, is one probe loop alive, does a restart become ready? | 2 accepted snapshots, 1 of another schema; 2 calls that may overlap each other and the restore; 2 probe loops; any file operation may fail | 560 121, 207 s |
| `request_execution` | one answer, one event, caps, isolation, termination | 2 requests, 2 providers, 2 served models, caps 2 and 1 | 88 s |
| `provider_state` | are candidates lost, do providers and keys come back, who is blamed? | 1 request at a time, 2 providers, 1 key, 1 session, 2 snapshots, 1 publish or diagnostic request, ages up to 2 | 60 s |
| `telemetry` | is every event accounted for, does the query store say what the log says, does anything wait for ever? | client: 2 events, buffer and batch of 1, 2 attempts, 2 dials, 1 outage; log: 2 events in 2 batches, 2 old rows, any insert may fail, 1 death | 219 853, 220 s |
| `telemetry_redial` | a counterexample, see Findings | the same | |
| `operations` | do slots, children and prices end where they should, can an installation be mended, is a target judged by its answers? | 3 runs with 2, 1 and 1 targets of 2 cases, 2 slots, 1 death; 3 daemons; 2 editions of a price page, 1 new configuration; 2 updater calls on 2 files, 2 seconds, the old release lacks at most the last file (`MCLacks`); 7 cases with 5 answers, 4 baselines | 620 965, 207 s |
| `admission` | is a request lost, do accounts and rates hold? | 3 requests of 2 priorities, one of a client that sends again without end (`Regulars`), one whose execution may panic (`Faulty`), 2 schedulers, channels of 1, 1 cancelled caller; 3 keys, 3 puts of 3 sizes; 2 clients, 1 bucket, 6 ticks, 4 grants | 170 s |
| `algorithms` | do the computing parts keep what they promise? | streams of 5 events over 2 tool calls, one custom; 6 texts, 2 of them JSON; 3 facts of 8 requests, 2 catalogs | 212 837, 51 s |

Why these bounds: the ledger's hazards need two revisions and a history that
overflows by one, and three configs give the collision of identifiers and the
change of the limit besides. In the pipeline two events are what the races need:
the second comes while the work of the first goes on (edit then crash, edit to one
config then to another, update then rollback); the code's own loops then go on
without limit. Three configs let the second edit bring one that the ledger does not
know yet, and one of the three does not compile, so that a reload activates a
revision every later publish fails on. A third request
would meet the others only in the cache, which the second does already. The caps
(20 and 10 in the code, `HardRetryCap` and `MaxFallbackAttempts` here) are
constants; the values 2 and 1 let each be reached before, at and after the
other limits, and the theorems hold for any value.

In `provider_state` the snapshots differ in all that matters: one has both
providers without probes and without passthrough, the other one provider with
both, and the publish may also be of the same snapshot again. One request is
enough because what requests share is the state that one leaves and the next
finds, and what a late one reports is interleaved with publishes and probes;
any number is in the theorems. Ages of 0, 1 and 2 give before, within and after for
each limit; thresholds are 1 and 2.

A telemetry client with one place in its buffer overflows, swaps and refills
with two events; one outage between two connections is what a lost answer and a
lost connection need. The queue's race between falling asleep and arriving needs
two schedulers, two priorities and a channel that is full; a token bucket's
worst case a burst before and after a bucket was dropped, which six ticks hold. One
client that sends at once when it is answered is enough to keep a level busy for
ever, and with it to hold the one behind it.
A stream of five events has a text and two tool calls in every order with a
piece each, or one call with several pieces, usage and an end; six texts are
three turns with parallel calls. An updater needs a second call to be overlapped
and a second file to be mixed.

Bounds that exclude behaviour of the program are `MaxEvents`, `MaxTexts` and the
other limits on how often something happens, and in the two pipeline runs also
`EarlyCalls = FALSE` and `FilesMayFail = FALSE`: with both, the pipeline has more
states than a run can visit. Early and overlapping calls and failing files are in
`gateway_snapshot`, and in the theorems of `GatewaySnapshotProofs` and
`ConfigPipelineProofs`, which bound none of them; failing saves with a gateway are in
those of `PublisherProofs`. `pipeline_live` has no admin calls: with an update
liveness is out of reach even at these bounds.

What an answered call promises depends on who else was at work. persist and
`restartHealthProbes` are under no common lock, and the restore from disk does not
look at what was applied before it: of two jobs that overlap, the older snapshot may
be the one that stays. `overlap` is "now" from the arrival of a call at a gatewayd
that is not idle until the next that arrives alone; `AppliedIsInForce`,
`ServedIsRecorded` and `Converges` promise nothing for that time. After it, a call is
again in memory and on disk when it is answered, but a probe loop whose handle an
overlap has lost runs until the process ends, so that probes are promised as long as
nothing has overlapped. controld sends one call at a time under the publisher's mutex, so that
an overlap takes a gatewayd that is still restoring or a controld that died in a call.

`RatesHold` needs a bucket to fill up in less time than it takes to become stale
(`Full <= StaleTTL`); with a longer time a client that waits for its bucket to
be dropped gets a full one early. The code has a fixed five minutes and no check.

`SSEAfterRetry` says that a stream which succeeds after a keep-alive session has
begun is answered with SSE. The code does not enforce it (`handler.go:421`): such a
stream that gets a plain 200 leaves the heartbeat goroutine running while the
body is written and after the handler has returned. `HeartbeatOwned` is checked
and proved for the other case only.

Deadlock is checked for the ledger and for gatewayd. The pipeline may rest (its
outside events are bounded) and requests, runs, streams and calls end, so the
other configurations say `CHECK_DEADLOCK FALSE`.

### Fairness

Nothing makes a process start or crash, or an operator act, with two exceptions:
telemetryd, once stopped, is started again by whoever runs the system
(`ServerStarts`, `DaemonStarts`), without which no event could be stored.
Goroutines and loops run on (weak fairness): the maintain loop every second by
default, the watcher every five. A goroutine that waits for the publisher's
mutex gets strong fairness (`Work(t)`), because the mutex is taken and given back
by others in between, and Go's mutexes go over to the waiter after a millisecond
(starvation mode). A step of a request is weakly fair because the calls it waits
for are cut off: `ResponseHeaderTimeout` is 60 s, `timeout_ms` of the provider
bounds a call, and a stream has an idle timeout. `ApplySnapshot` has no timeout
and the pipeline's liveness takes it that a gatewayd which is up answers; one
that hangs blocks the publisher (a hazard without a property). In
`ProviderState` time passes (`Tick`), probes have a timeout, and the loop's ticker
goes on; of a cancelled loop the `select` may take a due ticker first, but
chooses at random, hence strong fairness of `LoopEnds`, and of `LoopAsked` and
`LoopStops` of the telemetry client for the same reason. A projector's
transaction may fail any number of times but not for ever (strong fairness of
`Apply`). In the queue schedulers run and requests end; in `Benchmarks` the
gateway answers a case within its timeout; the supervisor's timers fire, and a
process that was sent SIGKILL ends, while one that was sent SIGTERM need not.

## 4. Findings

One run ends in a counterexample, of a property taken from a comment:

- `telemetry_redial`. "Supports automatic reconnection when the connection is
  lost" (`gateway/telemetry/client.go:21`). The client dials again only if
  `isConnectionError` (`client.go:360`) knows the error of the call. The errors
  net/rpc gives for a connection that was lost, `connection is shut down` and
  `unexpected EOF`, are not among them: the client keeps the dead connection, and
  every batch after a restart of telemetryd is dropped after its attempts.

Other disagreements met while modelling are part of the models, where the
properties are stated so that they hold in spite of them:

- A reload makes a revision active before it is compiled and sent
  (`controld/daemon.go:330`); if it does not compile, the republish loops fail
  from then on.
- A republish reads the active revision, waits for the mutex and publishes what
  it read (`daemon.go:260`); a reload in between is undone.
- The restore from disk may replace what was published to a gatewayd that was
  still starting, for the RPC server listens before it (`gatewayd/main.go:229`, 242);
  the call of a controld that has died may do the same to that of its successor.
  Both are in the models; see `overlap` in section 3.
- A call whose snapshot could not be written to disk answers Applied like any other
  (`gatewayd/snapshot_cache.go:96`): after a restart the one before it is served.
- A crash between the two renames of the cache pairs a new payload with old
  metadata, which the next start serves (`gatewayd/snapshot_cache.go:100`).
- The watcher takes the config that controld itself has written for an edit, and
  so undoes a rollback made meanwhile (`controld/adapters.go:73`).
- A failing probe renews the cooldown every interval, so neither its end nor
  the passthrough window is reached (`api/runtime_state.go:553`); any status from
  400 on is a failure of the probe, a missing `/v1/models` too.
- Requests are picked in strict order of their levels (`queue/queue.go:256`): while
  requests of a higher level keep coming a lower one is not executed. The comment of
  `NewQueue` (`queue.go:66`) speaks of a percentage of the scheduler's ticks for the
  high level and equal shares of the rest for the others; the parameter,
  `highPriorityPct`, is checked and then not used. `AcceptedRuns` names the starved
  requests as its exception (`Overtaken`); it holds because a level is passed over for
  no other reason.
- When the execution of a queued request panics its caller is not told
  (`queue.go:236`) and waits for its own context to end
  (`api/runtime_state.go:468`). So does the caller of a request that a scheduler
  holds, or that lies in a channel, when the queue is closed.
- The updater truncates every file it copies, also those of a backup
  (`updater.go:908`), and `Rollback` takes the newest backup whether it was finished
  or not (`updater.go:469`). A backup that an error or a death has cut short is put
  over an installation that was whole, and reported as rolled back. `UpdateSafe`
  promises a rollback for finished backups only, and nothing to calls that overlap,
  which no lock prevents.
- `EventLog.Append` counts any error of an insert as a dropped row and commits the
  others (`eventlog/log.go:125`); the migration puts that count into its report and
  saves its checkpoint past the rows (`migrate-telemetry/main.go:296`), so that no
  later migration reads them. `ImportKept` excepts exactly those (`lost`).
- When the price list's cache file cannot be written the refresh stores its snapshot
  a second time, perhaps over a newer one (`telemetry/pricing_catalog.go:102`).
- A tool's result that is JSON reaches an Anthropic provider as the parsed value
  (`compat.go:1905`, 2020): a number or an object instead of the text a client sent,
  a large integer rounded. `ConversationKept` says what the provider is told
  (`Told`).
- A `base_url` of nothing but blanks passes validation, which compares it with the
  empty text (`core/config.go:712`), and is refused by the compiler, which trims it
  (`control/compiler/compiler.go:394`); a name is treated alike. `CompileSound` lists
  what was accepted and does not compile.
- With `infinite_on_error` the whole hard cap is spent on the first provider
  (`api/handler.go:288`).
- The ids of imported rows depend on the hash of the source, so a migration run
  again after the source has grown imports its rows twice
  (`migrate-telemetry/main.go:309`).
- A benchmark's verdict asks for exactly one critical failure
  (`benchmarking/service.go:825`): if the threshold of "highly suspect" is
  configured above two, two failures are normal where one is suspect.
- An Anthropic client of an OpenAI stream is not told usage that comes after the
  finish reason, where OpenAI sends it (`compat.go:1305`); text that begins after
  a tool call shares its place in a Responses stream (`compat.go:3416`);
  `tool_choice: none` is dropped (`compat.go:2041`) and cached tokens are counted
  twice on the way back to OpenAI (`compat.go:796`). `StreamSound`, `StreamComplete`
  and `ConversationKept` name these exceptions.
- `sources: []` switches price sources off until the state file is read again
  (`core/config.go:186`): `RestartCompilesSame` names it.
- A model that has a built-in price for one provider only would be priced by two
  of the cost reports and not by the third (`query/cost.go`); no built-in price is
  of that kind.

## 5. Proofs

The theorems hold for every value of the constants under the named assumption of
each module (`ConfigAssumption`, `SnapshotAssumption`, `PipelineAssumption`,
`ExecutionAssumption`, `ProviderAssumption`, `NoneAssumption`, `QueueAssumption`,
`LimitAssumption`, `CacheAssumption`, `BenchmarkAssumption`, `SuperviseAssumption`,
`CatalogAssumption`, `UpdaterAssumption`, `ScoreAssumption`, `LogAssumption`, `ClientAssumption`,
`StreamAssumption`, `WordsAssumption`, `PricingAssumption`), which say what kind of
value a constant is: no bound on the number of configs, calls, requests, providers,
events or turns is assumed. `PricingAssumption` says more, and each part of it is
the code's: the built-in catalog prices no model for one provider only
(`telemetry/pricing.go`), prices are numbers, and what the gateway reports of a
request has no more cached tokens than tokens (`compat_body.go:89`). It takes
for granted that no provider reports a negative number of tokens, which the code
does not check.

Three of the proof modules are about the composed modules of section 2, whose
parts share no variable. Their invariants are the conjunction of one for each part
(`AdmissionInv`, `OperationsInv`, `TelemetryInv`), and a step of one part leaves
the variables of the others, and so their invariants, alone.

**Ledger.** `TypeOK`, the conjuncts of `LedgerSound` (`LedgerTail`,
`RetentionFollowsActive`, `SnapshotIsCurrent`) and `DiskRestorable` are not
inductive one by one: that the record completed is the staged one needs the limit
to be positive, which needs retention to follow the active revision; that the
stored state can be restored needs identifiers to be distinct in memory, which
no property says. `IInv` is their conjunction with distinct identifiers,
`LedgerInvariance` its invariance, and the properties follow (`LedgerIsSound`,
`StoredStateRestorable`). `ActiveInv` (a running publisher, and every stored
state, names an active revision) rests on `IInv`. `LedgerStepsHold` is the action
property: that a publish activates only what was accepted
(`ActivationNeedsGateway`), and that the history is append-only
(`HistoryIsAppendOnly`), which comes down to a trim being a suffix and a suffix of
a suffix being one. These proofs allow failing saves and no gateway client.
`HistoryStaysResolvable` assumes a client, for without one `UpdateConfig` takes its
revision back and leaves the record, and `StoreIsSound` a store that works
besides; what is in memory and what is stored, each has to be resolvable, the
latter so that a restart brings the former back.

**Snapshot lifecycle.** That only accepted snapshots are served needs to know
that what a job carries past validation was accepted (`AcceptedJobs`), and the
temporary files with it, because an overlapping call may rename them. `IInv` adds
types and the handle; `SnapshotIsSound` is the property the run checks.
`AnswerIsInForce` proves the other one, for any number of calls at any time, failing
files and crashes; it assumes only that the symbol for nil is not one of the records.
`InForceInv` has three parts. `Phases`, always: the restore runs in "boot" and only
then, and nothing when the process is down. When nothing overlaps: one job is at
work at most (`OneJob`), and what it has done so far is what the state shows of it
(`Kept`); a call that arrives alone makes this true again whatever was before
(`Alone`). When nothing has overlapped yet: the loop with the handle is the only one
not cancelled and the one the snapshot asks for, except while it is being replaced
(`OneLoop`, `Following`, together `Probing`).

**Pipeline.** `IInv` is the ledger's invariant together with `Links`: what each
goroutine carries is what its next step takes for granted. With it every step of
the pipeline is a step of the publisher and of gatewayd or leaves them alone
(`PipelineImplementsPublisher`, `PipelineImplementsGateway`), so the theorems of
the parts hold of the whole: `PipelineStaysRestorable`.
`ServesWhatIsRecorded` assumes nothing but the named assumption: the numbers of
configs, revisions, edits, requests, crashes and calls are not bounded, calls may be
early and overlap, and files may fail. The heart of `SInv` is `Supplied`: while the connection stands and no calls overlap, either gatewayd is at
rest with the active revision, or that does not compile, or some goroutine is
going to publish it, and such a goroutine also stands behind a publish whose RPC
is lost while the connection was made again. It needs that an answer belongs to
the publish that waits for it (`AnswersBelongToPublishes`), that the call a publish
sends is never refused (`CallsCarryConfigs`), and `InForceInv` of gatewayd.

**Requests.** `IInv` is a conjunction over the requests: `Told` (what has been
sent and reported at each place in the handler), `Bounded` (attempts against the
caps), `Pinned` (diagnostic requests) and, given `SSEAfterRetry`, `Heart`.
`PathsAreSound` follows, and `RequestsKeepPromise` shows that every step of the
handler is a step of `RequestPromise` or a stutter.

**Providers.** `TypeOK` is inductive as it stands, once it says two things that
are not about types: the providers of the snapshot in force have an entry, and
a call whose key is `shared` finds that key in the present rotator. It is proved in
parts (`ProvidersOK`, `RotatorsOK`, `RequestsOK`, `LoopOK`), one lemma per action.
`KeysBlamedFairly` shows that no other step than the end of such a call raises a
key's count. `NoCandidateLost` is about the list a request is given: it is two
parts joined, each an ordering of a set without repetitions (`OrdersOffer`), and no
step but `Order` gives a request a list (`OnlyOrdersOffer`).

**Admission.** Of the queue, the counters of waiting requests are right only if a
request is in one place (`OnePlace`: nowhere until it is sent, in one channel, of
its own level, or with one scheduler), because a counter stands for the channel
and for those that are picked up but not counted off yet (`Beside`,
`CountersRight`). That no wake-up is lost (`NoneForgotten`) is stated for each level:
some scheduler has not passed it in its scan or starts again, or there is a token,
or somebody is about to give one. A limiter's rate follows from what its credit
means: the calls since any time i cost no more than `Full` and what has been earned
since, less the credit there is (`Charged`). A client whose bucket was dropped is
charged against a full one, which is where `Full <= StaleTTL` is needed. Of the
cache the account equals a sum over the list, and the sum and the filter that
`Put` uses are folds, whose equations are derived first (`Sums`, `Kept`);
`CacheIsFresh` rests besides on how many entries are kept (`Fits`): one more would
not have had room (`Crowded`).

**Operations.** `RowFollows` says what a run's stored row may be at each place of its
goroutine, `RowTrue` what the row promises to whoever reads it, `SlotsRight` that
the number of active runs is that of the goroutines at work, across deaths of the
daemon between two writes. The supervisor's invariant has to say which daemons are
not started yet (`InOrder`) and which have been waited for (`Reaped`), and that a
result in a channel is one of an exit (`ResultsReal`), for otherwise the loop at the
end would skip a child that lives. Of the live price list (`PricingCatalog`) only the types are proved,
which say where a price in force or in the file can come from. Of the updater only
a call that is `alone` can promise anything, as nothing keeps two apart: `Undisturbed`
says that all others are at rest then, so that its own steps are the only ones, and
`OnItsWay` what it has done at each place: it copies nothing before the bundle is
verified and every file that was installed is in the backup under its own stamp
(`BackedUp`), and from the files it has treated (`Treated`) and the one it is at
follows what the last of them leaves behind. The files are treated in order, none
twice, which is what `UpdaterAssumption` asks of `Files`. What a finished backup is
worth later is `BackupsKept`: it has all that was replaced, as long as no other
backup is made in its second (`NotYet`). `UpdatesAreSafe` follows, for every copy that
may fail with its file cut short and every step the process may die at. A verdict
(`VerdictsAreSound`) follows from three numbers: the completed cases, the critical
failures and the gap (`VerdictFits`, `VerdictWorsens`); that the gap is one at all
needs the sums in it to be numbers and the sum of weights not to be 0 (`SumIsIn`, for
any set closed under addition). That a critical case which is no failure has the
full score needs the scores to be percentages, which is the invariant.

**Telemetry.** `ClientInv` gives every event to one holder: the batches of the
goroutines (`hands`), the buffer and the log are sequences without repetitions, the
first two have nothing in common with each other, and the buffer nothing with the
log, while a batch may be in the log already, when its answer was lost
(`AccountsOf`). Then what was emitted is the sum of the counters, the batches and
the buffer, and what was counted as sent is no more than what the log keeps and
nobody holds; the latter needs a bound on what a goroutine that waits for an answer
is going to add (`FitsIn`: no more than those of its batch that are in the log).
The four changes the accounts can see are lemmas of their own (`AccountsSwapped`,
`AccountsReleased`, `AccountsStored`, `AccountsEmitted`), and each action cites one.
`LoopQuiet` says that the last flush comes after `Cancel`. `LogInv`: what the
checkpoint and every projector have passed is a fact or none that counts
(`Passed`), every fact is in the log (`Logged`), a bucket's total is the number of
its facts, and a row that the migration has passed is in the log under an id of
its own unless its insert failed (`RowsKept`), between its read and its write as
well.

**Streams.** `StreamsAreSound` is of every stream an upstream may send, in any order
of events. `BridgeInv` has the parts of the property (`Sound`), which of them an
ended, started or not yet started bridge may have told (`Phases`), that every item
has a place of its own (`Placing`), that what was told of an item and what is still
held back are what was given (`Telling`), and the account of usage and of what was
closed (`Ledger`). An event tells the client a few marks at once; what they may be
so that the whole stays sound is `Follows`, and `Grows` says which kinds of marks
they add. Pieces of a text or of a call's arguments are compared as sequences, which
takes the laws of `FlattenSeq`.

**Conversations.** Every conversion is one pass over a sequence that puts a few items
in the place of each (`Flat`). Such passes distribute over concatenation and
compose, so that a conversation can be proved about turn by turn, and a converted
message by what counts of it: its texts, calls and results are the same before and
after. The invariant `Held`: the client's history says all that was said
(`SaysAll`), results and pending calls have ids that were given out (`Numbered`), and
as a chat provider would get it every turn is closed, or the last one waits for
its results (`TurnsOf`), with the exceptions the property makes for parallel calls of
Responses clients and for results that are JSON. `ConversationsAreKept` is of any
number of turns.

**Rules of the configuration.** `RulesInv` says of each stage what has been done:
what was loaded is normalised and valid, what was compiled compiles. The work is in
the lemmas: filling in defaults twice is the same as once, for each part of a
configuration, and what the state file loses is filled in again to the same.
`RulesAreSound` is of any texts and numbers in a file; a weight may be negative,
which nothing refuses, and the property asks only that it is not zero.

**Prices and costs.** Most of `CostsAreSound` does not depend on steps: it is about
what functions of the facts return, and of the facts `PricingInv` has only to say that
they are finitely many, each a request's, priced with whole numbers or, if unpriced,
free. That a price found is the best one (`PricesFitOne`) follows because the names
a model may go under are listed in the order of how much was taken off
(`AliasesAscend`), which joining and filtering lists keeps (`FlattenAscends`,
`KeysFoundAre`). The rest compares sums. A sum over a set is that over the sums of
its groups, however they are formed (`SumFibres`, `SumGroups`, `SumRows`), and what a
group's tokens cost together is what its requests cost one by one (`TokensLinear`),
as cost is linear in tokens as long as none is cached that is not there: so an
estimate of a row of the pricing report is the sum of its requests' estimates, and
of what was fixed nothing is priced anew (`ExactKept`, `CurrencyKept`,
`EstimatedKept`). A cost report gives the cost of all names that differ in capitals
to one entry and nothing to the others (`ClassCost`), so that entries add up to the
facts behind them (`ViewSpends`, `ViewPrompts`); those are the same facts in all
three reports (`BucketsSum`), and they cost the same whether their provider is
asked for or not, as no built-in price is for one provider only (`NoScopedPrice`).

Some of these need what a recursive definition computes (a sum of bytes, a count
over a set, a log after a batch), for which the library's induction theorems
cannot be used: they take an operator. The proof modules go without them, for
sets of numbers (`LeastNumber`: a set of numbers that is not empty has a least
member; `Induction`; `Recursion`, which proves that the function a definition
chooses exists), and state what is to be proved of each number as a set.

Only model-checked: all liveness (`Converges`, `EditsReachLedger`, `NobodyWaits`,
`EveryRequestEnds`, `FailuresEnd`, `NothingWaits`, `EndsWell`, `AcceptedRuns`),
because TLAPS has no proof rules for the `ENABLED` that liveness under fairness
needs. Every other property of a passing run is stated by a theorem. No module
uses a RECURSIVE operator.

## 6. Not modelled

- Writing or renaming a file is one step (except in the updater, which truncates
  first), and what was written survives a crash: processes end, the machine does
  not.
- Sockets are local: a connection breaks when a process ends and at no other time.
- Time, except in `ProviderState`, `RateLimits`, `ResponseCache` and `Updater`.
  Timeouts and throttles are steps that may happen.
- The weights of the rotation (any order may come out) and latencies.
- The contents of requests, responses, configs and snapshots, beyond what
  the properties tell apart; of bodies, images and sampling parameters.
- Floating point: amounts and scores are whole numbers, chosen so that nothing is
  rounded.
- The settling of a file that is being edited (`Watcher.check` reads it twice).
- Of telemetry the reports over the facts other than prices and costs, which are
  SQL, and `internal/telemetry/store.go`, the store of old releases.
- The parts `PROJECT.json` lists as not modelled, with the reason: request
  routing, one-shot commands, stateless middleware, the UI.

## 7. Plan

Every safety property of the runs is proved. That the price list follows the
configuration is liveness and stays with TLC. What could still be modelled: the reports of `query/queries.go` over the facts of
`TelemetryLog`, the Responses bodies that carry images, the export and comparison
of benchmark runs.
