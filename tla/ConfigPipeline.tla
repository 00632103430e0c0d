---------------------------- MODULE ConfigPipeline ----------------------------
(***************************************************************************)
(* How a config reaches the data plane: controld (cmd/controld) with its   *)
(* Publisher, the gatewayd it is connected to, and the config file the     *)
(* operator edits.                                                         *)
(*                                                                         *)
(* The modules Publisher and GatewaySnapshot are the two ends.  This one   *)
(* adds what lies between: the connection, which breaks when gatewayd ends *)
(* and which maintainGatewayConnection dials again; the watcher of the     *)
(* file; and the goroutines that publish, each of which chooses a revision *)
(* first and takes the publisher's mutex later.  Sockets are local: a      *)
(* connection breaks when a process ends and at no other time.             *)
(***************************************************************************)
EXTENDS Naturals, Sequences

CONSTANTS
  Configs, RevIds, HashId, Compilable, HistoryLimit, DefaultLimit,  \* as in Publisher
  Calls, EarlyCalls, FilesMayFail, Boot,             \* as in GatewaySnapshot
  FirstConfigs,  \* what config.yaml may contain before controld first starts
  Malformed,     \* content of the config file that does not load
  Disturbances,  \* what may happen from outside, see MaxEvents
  MaxEvents,     \* bound: how many edits, admin requests and crashes happen
  None

ASSUME PipelineAssumption ==
  /\ Compilable \subseteq Configs
  /\ FirstConfigs \subseteq Configs
  /\ HashId \in [Configs -> RevIds]
  /\ HistoryLimit \in [Configs -> Nat \ {0}]
  /\ DefaultLimit \in Nat \ {0}
  /\ EarlyCalls \in BOOLEAN
  /\ FilesMayFail \in BOOLEAN
  /\ MaxEvents \in Nat
  /\ None \notin Configs /\ None \notin RevIds /\ None \notin Calls
  /\ Boot \notin Calls
  /\ Malformed \notin Configs

VARIABLES
  up, revisions, active, limit, publishes, inflight, disk, legacy,
  phase, snapshot, job, handle, loops, payloadFile, metaFile, payloadTmp, metaTmp, overlap,
  file,     \* config.yaml: its content, and who wrote it, for the bytes differ
  watched,  \* what the watcher's lastHash is the hash of, None without a watcher
  conn,     \* Daemon.gatewayRPC: None, "up", or "broken" (its server has ended)
  thread,   \* the goroutines of controld that publish
  owner,    \* the one that holds the publisher's mutex across the RPC, or None
  call,     \* the job of gatewayd that will answer that RPC, None if lost
  events    \* the number of outside events so far

P == INSTANCE Publisher WITH
       LegacyConfigs <- {}, GatewayConfigured <- TRUE, SavesMayFail <- FALSE
G == INSTANCE GatewaySnapshot WITH
       Snapshots <- Configs, GoodBody <- Configs, GoodSchema <- Configs,
       Probed <- {}, LoopIds <- {}

pubVars == <<up, revisions, active, limit, publishes, inflight, disk, legacy>>
gwVars == <<phase, snapshot, job, handle, loops, payloadFile, metaFile, payloadTmp, metaTmp,
            overlap>>
vars == <<pubVars, gwVars, file, watched, conn, thread, owner, call, events>>

Threads == {"main", "watch", "maintain", "bootstrap", "admin"}
Republishers == {"main", "maintain", "bootstrap"}
Off == [pc |-> "off", arg |-> None]
Free == [pc |-> "idle", arg |-> None]

(* None is no goroutine, connection, publish, probe loop or snapshot either.  *)
ASSUME NoneAssumption ==
  None \notin Threads \cup {"up", "broken"} \cup P!Inflight \cup G!Loop \cup G!Labelled

(* Two files with the same config differ in their bytes when one of them was *)
(* written by persistAuthoringConfig.                                        *)
File == [content : Configs \cup {Malformed}, by : {"operator", "controld"}]

Event(kind) ==
  /\ kind \in Disturbances
  /\ events < MaxEvents
  /\ events' = events + 1

Set(t, pc, arg) == thread' = [thread EXCEPT ![t] = [pc |-> pc, arg |-> arg]]

(* gatewayd can be dialled and answers GetStatus; it is ready with a snapshot. *)
Listening == phase = "run" \/ (phase = "boot" /\ EarlyCalls)
Ready == snapshot # None

-----------------------------------------------------------------------------

Init ==
  /\ P!Init /\ G!Init
  /\ \E c \in FirstConfigs : file = [content |-> c, by |-> "operator"]
  /\ watched = None
  /\ conn = None
  /\ thread = [t \in Threads |-> Off]
  /\ owner = None
  /\ call = None
  /\ events = 0

(* Daemon.Start: connect, then restore the ledger or seed it from the file,   *)
(* then publish the active revision if there is a connection.                 *)
ControlStart ==
  /\ \/ P!LoadState
     \/ file.content \in Configs /\ P!SeedInitialRevision(file.content)
  /\ conn' = IF Listening THEN "up" ELSE None
  /\ IF Listening THEN Set("main", "picked", revisions'[active'].id)
     ELSE Set("main", "idle", None)
  /\ UNCHANGED <<gwVars, file, watched, owner, call, events>>

(* The rest of Start: the watcher, for which the file must load, the goroutines *)
(* and the HTTP server.                                                         *)
ControlRun ==
  /\ thread["main"].pc = "idle"
  /\ thread' = [t \in Threads |->
       IF t = "main" \/ (t = "watch" /\ file.content \notin Configs) THEN Off ELSE Free]
  /\ watched' = IF file.content \in Configs THEN file ELSE None
  /\ UNCHANGED <<pubVars, gwVars, file, conn, owner, call, events>>

-----------------------------------------------------------------------------
(* Publishing. *)

(* The RPC of a publish that t has staged.  On a connection that is broken or *)
(* absent it fails without reaching gatewayd.                                 *)
Send(t) ==
  /\ owner' = t
  /\ IF conn = "up" THEN \E j \in Calls : call' = j /\ G!Receive(j, inflight'.snap)
     ELSE call' = None /\ UNCHANGED gwVars
  /\ UNCHANGED <<file, watched, conn>>

(* Publisher.Publish(thread[t].arg), as far as the RPC. *)
Publish(t) ==
  /\ thread[t].pc = "picked"
  /\ P!BeginPublish(thread[t].arg, "publish")
  /\ Send(t)
  /\ Set(t, "calling", None)
  /\ UNCHANGED events

BugRefusedTriesAgain(t) ==
  /\ thread[t].pc = "picked"
  /\ inflight = None
  /\ LET rev == revisions[P!FindRevision(revisions, thread[t].arg)] IN
       rev.snap = None /\ rev.config \notin Compilable
  /\ Set(t, "picked", thread[t].arg)
  /\ UNCHANGED <<pubVars, gwVars, file, watched, conn, owner, call, events>>

(* Publish returns an error: the revision does not compile. *)
PublishRefused(t) ==
  /\ thread[t].pc = "picked"
  /\ inflight = None
  /\ LET rev == revisions[P!FindRevision(revisions, thread[t].arg)] IN
       rev.snap = None /\ rev.config \notin Compilable
  /\ Set(t, "idle", None)
  /\ UNCHANGED <<pubVars, gwVars, file, watched, conn, owner, call, events>>

AdminPublish(id, kind) ==
  /\ Event(kind)
  /\ thread["admin"].pc = "idle"
  /\ P!BeginPublish(id, kind)
  /\ Send("admin")
  /\ Set("admin", "calling", None)

(* configCommandsAdapter.UpdateConfig: the config is remembered, to be written *)
(* to the file when the publish has succeeded.                                 *)
AdminUpdate(c, id) ==
  /\ Event("update")
  /\ thread["admin"].pc = "idle"
  /\ P!BeginUpdate(c, id)
  /\ Send("admin")
  /\ Set("admin", "calling", c)

(* The publish of owner has returned. *)
AfterPublish(observed) ==
  IF observed /\ thread[owner].arg # None THEN Set(owner, "write", thread[owner].arg)
  ELSE Set(owner, "idle", None)

(* The answer reaches the publisher; a refusal is an answer too. *)
Answer ==
  /\ owner # None /\ call # None
  /\ G!Reply(call)
  /\ IF job[call].pc = "refused" THEN P!Failed ELSE P!Observed
  /\ AfterPublish(job[call].pc # "refused")
  /\ owner' = None /\ call' = None
  /\ UNCHANGED <<file, watched, conn, events>>

(* The RPC fails: it was not sent, or gatewayd ended before it answered. *)
NoAnswer ==
  /\ owner # None /\ call = None
  /\ P!Failed
  /\ AfterPublish(FALSE)
  /\ owner' = None
  /\ UNCHANGED <<gwVars, file, watched, conn, call, events>>

(* gatewayd finishes a call whose controld has ended. *)
AbandonedReply(j) ==
  /\ j # call
  /\ G!Reply(j)
  /\ UNCHANGED <<pubVars, file, watched, conn, thread, owner, call, events>>

(* persistAuthoringConfig, which may fail: the file is replaced by a rename. *)
WriteFile ==
  /\ thread["admin"].pc = "write"
  /\ file' \in {file, [content |-> thread["admin"].arg, by |-> "controld"]}
  /\ Set("admin", "idle", None)
  /\ UNCHANGED <<pubVars, gwVars, watched, conn, owner, call, events>>

-----------------------------------------------------------------------------
(* Keeping gatewayd supplied. *)

(* republishCurrentRevisionToGateway reads the active revision under the      *)
(* publisher's lock and lets the lock go before it publishes that revision.   *)
Pick(t) ==
  /\ thread[t].pc = "republish"
  /\ inflight = None
  /\ IF conn = None THEN Set(t, "idle", None)
     ELSE Set(t, "picked", revisions[active].id)
  /\ UNCHANGED <<pubVars, gwVars, file, watched, conn, owner, call, events>>

(* maintainGatewayConnection: a gatewayd that is not ready gets the revision *)
(* again; the throttle only spaces these out.                                *)
MaintainReadiness ==
  /\ thread["maintain"].pc = "idle"
  /\ conn = "up" /\ Listening /\ ~Ready
  /\ Set("maintain", "republish", None)
  /\ UNCHANGED <<pubVars, gwVars, file, watched, conn, owner, call, events>>

(* GetStatus fails on a broken connection, which is dropped. *)
Disconnect ==
  /\ thread["maintain"].pc = "idle"
  /\ conn = "broken"
  /\ conn' = None
  /\ Set("maintain", "dial", None)
  /\ UNCHANGED <<pubVars, gwVars, file, watched, owner, call, events>>

BugDialSilently ==
  /\ thread["maintain"].pc \in {"idle", "dial"}
  /\ conn = None
  /\ conn' = IF Listening THEN "up" ELSE None
  /\ Set("maintain", "idle", None)
  /\ UNCHANGED <<pubVars, gwVars, file, watched, owner, call, events>>

(* connectGatewayOnce, and a republish after every dial that succeeds. *)
Dial ==
  /\ thread["maintain"].pc \in {"idle", "dial"}
  /\ conn = None
  /\ conn' = IF Listening THEN "up" ELSE None
  /\ Set("maintain", IF Listening THEN "republish" ELSE "idle", None)
  /\ UNCHANGED <<pubVars, gwVars, file, watched, owner, call, events>>

(* pushSnapshotUntilGatewayReady: until gatewayd is ready, or for three minutes. *)
Bootstrap ==
  /\ thread["bootstrap"].pc = "idle"
  /\ \/ Set("bootstrap", "off", None)
     \/ /\ conn = "broken" \/ (conn = "up" /\ ~Ready)
        /\ Set("bootstrap", "republish", None)
  /\ UNCHANGED <<pubVars, gwVars, file, watched, conn, owner, call, events>>

-----------------------------------------------------------------------------
(* Reloading the config file. *)

(* Watcher.check: a settled file with another hash that loads is noted and *)
(* handed to reloadWatchedConfig; one that does not load is tried again.   *)
CheckFile ==
  /\ thread["watch"].pc = "idle"
  /\ file # watched
  /\ file.content \in Configs
  /\ watched' = file
  /\ Set("watch", "reload", None)
  /\ UNCHANGED <<pubVars, gwVars, file, conn, owner, call, events>>

AdminReload ==
  /\ Event("reload")
  /\ thread["admin"].pc = "idle"
  /\ Set("admin", "reload", None)
  /\ UNCHANGED <<pubVars, gwVars, file, watched, conn, owner, call>>

(* loadInitialRevision reads the file (again). *)
ReadFile(t) ==
  /\ thread[t].pc = "reload"
  /\ IF file.content \in Configs THEN Set(t, "upsert", file.content) ELSE Set(t, "idle", None)
  /\ UNCHANGED <<pubVars, gwVars, file, watched, conn, owner, call, events>>

BugReloadUnlocked(t) ==
  /\ thread[t].pc = "upsert"
  /\ revisions' = P!UpsertRevisions(revisions, thread[t].arg)
  /\ active' = P!FindRevision(revisions', HashId[thread[t].arg])
  /\ disk' = P!Image(revisions', active', publishes)
  /\ IF conn = None THEN Set(t, "idle", None) ELSE Set(t, "picked", HashId[thread[t].arg])
  /\ UNCHANGED <<up, limit, publishes, inflight, legacy,
                 gwVars, file, watched, conn, owner, call, events>>

BugReloadNotesFile(t) ==
  /\ thread[t].pc = "upsert"
  /\ P!UpsertRevision(thread[t].arg)
  /\ IF conn = None THEN Set(t, "idle", None) ELSE Set(t, "picked", HashId[thread[t].arg])
  /\ watched' = IF t = "watch" THEN file ELSE watched
  /\ UNCHANGED <<gwVars, file, conn, owner, call, events>>

(* applyWatchedRevision: the revision becomes active, and is published if there *)
(* is a connection.                                                             *)
Reload(t) ==
  /\ thread[t].pc = "upsert"
  /\ P!UpsertRevision(thread[t].arg)
  /\ IF conn = None THEN Set(t, "idle", None) ELSE Set(t, "picked", HashId[thread[t].arg])
  /\ UNCHANGED <<gwVars, file, watched, conn, owner, call, events>>

-----------------------------------------------------------------------------
(* The outside. *)

EditFile(content) ==
  /\ Event("edit")
  /\ file' = [content |-> content, by |-> "operator"]
  /\ file' # file
  /\ UNCHANGED <<pubVars, gwVars, watched, conn, thread, owner, call>>

BugControlCrashCancels ==
  /\ Event("control crash")
  /\ P!Crash
  /\ conn' = None
  /\ watched' = None
  /\ thread' = [t \in Threads |-> Off]
  /\ owner' = None /\ call' = None
  /\ job' = IF call = None THEN job ELSE [job EXCEPT ![call] = G!Idle]
  /\ UNCHANGED <<phase, snapshot, handle, loops, payloadFile, metaFile, payloadTmp, metaTmp,
                 overlap, file>>

ControlCrash ==
  /\ Event("control crash")
  /\ P!Crash
  /\ conn' = None
  /\ watched' = None
  /\ thread' = [t \in Threads |-> Off]
  /\ owner' = None /\ call' = None
  /\ UNCHANGED <<gwVars, file>>

BugGatewayCrashKeepsCall ==
  /\ Event("gateway crash")
  /\ G!Crash
  /\ conn' = IF conn = "up" THEN "broken" ELSE conn
  /\ UNCHANGED <<pubVars, file, watched, thread, owner, call>>

GatewayCrash ==
  /\ Event("gateway crash")
  /\ G!Crash
  /\ conn' = IF conn = "up" THEN "broken" ELSE conn
  /\ call' = None
  /\ UNCHANGED <<pubVars, file, watched, thread, owner>>

(* What gatewayd does on its own. *)
Own == UNCHANGED <<pubVars, file, watched, conn, thread, owner, call, events>>
GatewayStart == G!Start /\ Own
GatewayRestore == G!Restore /\ Own
GatewayStep(j) == G!Step(j) /\ Own
GatewaySave(j) == G!Save(j) /\ Own

Work(t) == Publish(t) \/ PublishRefused(t) \/ Pick(t) \/ ReadFile(t) \/ Reload(t)
Upkeep == MaintainReadiness \/ Disconnect \/ Dial

Next ==
  \/ ControlStart \/ ControlRun
  \/ \E t \in Threads : Work(t)
  \/ Answer \/ NoAnswer
  \/ WriteFile
  \/ Upkeep
  \/ Bootstrap
  \/ CheckFile
  \/ \E id \in RevIds, kind \in P!Kinds : AdminPublish(id, kind)
  \/ \E c \in Configs, id \in P!FreshIds : AdminUpdate(c, id)
  \/ AdminReload
  \/ \E content \in Configs \cup {Malformed} : EditFile(content)
  \/ ControlCrash
  \/ GatewayCrash
  \/ GatewayStart \/ GatewayRestore
  \/ \E j \in Calls \cup {Boot} : GatewayStep(j)
  \/ \E j \in Calls : GatewaySave(j) \/ AbandonedReply(j)

Spec == Init /\ [][Next]_vars

(* The goroutines of both daemons go on, and so do their loops; a goroutine    *)
(* that waits for the publisher's mutex gets it, because Go's mutexes hand     *)
(* over to who has waited for a millisecond.  Nothing makes a process start,   *)
(* an operator act or a process crash.                                         *)
Fairness ==
  /\ WF_vars(ControlRun)
  /\ \A t \in Threads : SF_vars(Work(t))
  /\ WF_vars(Answer \/ NoAnswer)
  /\ WF_vars(WriteFile)
  /\ WF_vars(Upkeep)
  /\ WF_vars(Bootstrap)
  /\ WF_vars(CheckFile)
  /\ WF_vars(GatewayRestore)
  /\ \A j \in Calls \cup {Boot} : WF_vars(GatewayStep(j))
  /\ \A j \in Calls : WF_vars(GatewaySave(j) \/ AbandonedReply(j))

FairSpec == Spec /\ Fairness
-----------------------------------------------------------------------------
(* Properties. *)

(* Types, and what ties the parts together: the mutex has an owner exactly     *)
(* while a publish is in progress, and the job that will answer it is one that *)
(* works on that publish, over a connection that stands.                       *)
TypeOK ==
  /\ file \in File
  /\ watched \in File \cup {None}
  /\ conn \in {None, "up", "broken"}
  /\ thread \in [Threads -> [pc : {"off", "idle", "picked", "calling", "republish", "dial",
                                   "reload", "upsert", "write"},
                             arg : Configs \cup RevIds \cup {None}]]
  /\ owner \in Threads \cup {None}
  /\ (owner # None) <=> (inflight # None)
  /\ owner # None => thread[owner].pc = "calling"
  /\ call \in Calls \cup {None}
  /\ call # None => /\ owner # None
                    /\ conn = "up"
                    /\ job[call].pc # "idle" /\ job[call].bytes = inflight.snap
  /\ events \in 0..MaxEvents

ActiveConfig == revisions[active].config

Quiet ==
  /\ up /\ phase = "run"
  /\ conn = "up"
  /\ \A j \in Calls \cup {Boot} : job[j].pc = "idle"
  /\ \A t \in Threads : thread[t].pc \in {"off", "idle"}

(* "controld remains the source of revision truth and republishes after       *)
(* reconnects" (docs/architecture.md): when both daemons run, are connected   *)
(* and have nothing left to do, gatewayd does not serve anything but the      *)
(* active revision, if that compiles.  Nobody would correct it: a ready       *)
(* gatewayd is left alone.                                                    *)
QuietServesActive ==
  (Quiet /\ Ready /\ overlap # "now" /\ ActiveConfig \in Compilable) =>
    snapshot.bytes = ActiveConfig

Serving == up /\ Ready /\ snapshot.bytes = ActiveConfig

(* A record is marked observed only when gatewayd serves that very snapshot   *)
(* (publishRevisionLocked marks it after the answer of ApplySnapshot).        *)
ObservedIsServed ==
  (/\ inflight # None /\ inflight' = None /\ up'
   /\ publishes'[Len(publishes')].status = "observed"
   /\ overlap # "now")
    => Ready /\ snapshot.bytes = inflight.snap

(* What gatewayd serves is what controld's ledger says, whenever it may be     *)
(* asked: at rest, and when a record is marked.  (At first nothing is served.)*)
(* The exception: a publish that reached gatewayd before its restore had       *)
(* ended, or while it was at work for a controld that has ended, may be undone *)
(* by the older snapshot, and nobody notices until the next publish.           *)
ServedIsRecorded == [][QuietServesActive' /\ ObservedIsServed]_vars

(* Whatever happened before, when both daemons stay up and the outside leaves *)
(* them alone, they end up connected and gatewayd with the active revision.   *)
(* Two exceptions: the one of ServedIsRecorded; and a reload activates a      *)
(* revision before it is compiled, so that one that does not compile fails in *)
(* every publish and gatewayd keeps what it has, but the connection is still  *)
(* restored (maintainGatewayConnection, pushSnapshotUntilGatewayReady,        *)
(* applyWatchedRevision).                                                     *)
Converges ==
  <>[](up /\ phase # "down" /\ overlap # "now") =>
    <>[](conn = "up" /\ (ActiveConfig \in Compilable => Serving))

(* An edit that the watcher has not seen yet reaches the ledger, unless it is *)
(* edited away first or controld ends; also one made while the reload of an   *)
(* earlier one is going on, and one that does not compile (Watcher.check,     *)
(* applyWatchedRevision).                                                     *)
EditsReachLedger ==
  \A c \in Configs :
    (up /\ watched # None /\ file # watched /\ file.content = c) ~>
      (\/ \E i \in 1..Len(revisions) : revisions[i].config = c
       \/ file.content # c
       \/ ~up)

(* The components keep their own specifications when they are put together.   *)
ImplementsPublisher == P!Spec
ImplementsGateway == G!Spec
=============================================================================
