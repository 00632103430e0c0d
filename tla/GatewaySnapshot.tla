--------------------------- MODULE GatewaySnapshot ---------------------------
(***************************************************************************)
(* The snapshot of gatewayd (cmd/gatewayd): how it is applied, kept on     *)
(* disk and restored, and the health probe loop that goes with it.         *)
(*                                                                         *)
(* net/rpc runs every ApplySnapshot call in a goroutine of its own and     *)
(* lets it finish when its connection is lost; the process restores the    *)
(* snapshot on disk after its RPC server has started to listen.  A call    *)
(* and the restore are "jobs" here, each taking the steps of the code      *)
(* between its locks and its file operations, in any interleaving.         *)
(*                                                                         *)
(* A snapshot is a member of Snapshots.  gatewayd keeps two things of it   *)
(* apart, the bytes and the metadata that came with them, and so do we.    *)
(* Writing a file and renaming one are single steps.                       *)
(***************************************************************************)
EXTENDS Naturals, FiniteSets

CONSTANTS
  Snapshots,     \* what controld may send
  GoodBody,      \* those with a listener and a provider (validateSnapshot)
  GoodSchema,    \* those with the schema version of this build
  Probed,        \* those with routing_policy.health.enabled
  Calls,         \* the ApplySnapshot calls that may run at the same time
  LoopIds,       \* the probe loops that may run at the same time (a bound)
  EarlyCalls,    \* controld may call before the restore has ended
  FilesMayFail,  \* a write or a rename may fail
  Boot,          \* the job that restores the snapshot
  None           \* stands for nil and for a missing file

ASSUME SnapshotAssumption ==
  /\ GoodBody \subseteq Snapshots
  /\ GoodSchema \subseteq Snapshots
  /\ Probed \subseteq Snapshots
  /\ EarlyCalls \in BOOLEAN
  /\ FilesMayFail \in BOOLEAN
  /\ Boot \notin Calls
  /\ None \notin Snapshots
  /\ None \notin LoopIds

VARIABLES
  phase,        \* "down", "boot" (the RPC server listens) or "run"
  snapshot,     \* Daemon.snapshot
  job,          \* the state of every job
  handle,       \* healthProbeCancel and healthProbeDone: the loop they belong to
  loops,        \* the running probe loops
  payloadFile,  \* last-applied-snapshot.payload
  metaFile,     \* last-applied-snapshot.meta.json
  payloadTmp,   \* last-applied-snapshot.payload.tmp
  metaTmp,      \* last-applied-snapshot.meta.json.tmp
  overlap       \* history: "now" when a call has arrived while another job was
                \* at work, "past" when one has come alone since, "none" when
                \* that has not happened in this process

files == <<payloadFile, metaFile, payloadTmp, metaTmp>>
probes == <<handle, loops>>
vars == <<phase, snapshot, job, handle, loops, payloadFile, metaFile, payloadTmp, metaTmp,
          overlap>>

Jobs == Calls \cup {Boot}
File == Snapshots \cup {None}
Labelled == [bytes : Snapshots, meta : Snapshots]
Steps == {"idle", "readPayload", "readMeta", "apply", "detach", "probe",
          "writePayload", "renamePayload", "writeMeta", "renameMeta",
          "applied", "unsaved", "refused"}
SaveSteps == {"writePayload", "renamePayload", "writeMeta", "renameMeta"}
Job == [pc : Steps, bytes : File, meta : File, old : LoopIds \cup {None}]
Idle == [pc |-> "idle", bytes |-> None, meta |-> None, old |-> None]
Loop == [snap : Snapshots, cancelled : BOOLEAN]

Goto(j, step) == job' = [job EXCEPT ![j].pc = step]

(* validateSnapshot: the schema version comes from the metadata. *)
Accepts(bytes, meta) == bytes \in GoodBody /\ meta \in GoodSchema

BugAfterProbe(j) == "writePayload"

(* What follows a restartHealthProbes: a call goes on to the files. *)
AfterProbe(j) == IF j = Boot THEN "applied" ELSE "writePayload"

-----------------------------------------------------------------------------

Init ==
  /\ phase = "down"
  /\ snapshot = None
  /\ job = [j \in Jobs |-> Idle]
  /\ handle = None
  /\ loops = [l \in LoopIds |-> None]
  /\ payloadFile = None /\ metaFile = None
  /\ payloadTmp = None /\ metaTmp = None
  /\ overlap = "none"

(* Start listens for controld and then restores the snapshot. *)
Start ==
  /\ phase = "down"
  /\ phase' = "boot"
  /\ job' = [job EXCEPT ![Boot].pc = "readPayload"]
  /\ UNCHANGED <<snapshot, probes, files, overlap>>

(* tryRestoreSnapshotFromDisk: without a payload there is nothing to do. *)
ReadPayload ==
  /\ job[Boot].pc = "readPayload"
  /\ job' = [job EXCEPT ![Boot].pc    = IF payloadFile = None THEN "applied" ELSE "readMeta",
                        ![Boot].bytes = payloadFile]
  /\ UNCHANGED <<phase, snapshot, probes, files, overlap>>

(* Without metadata the payload's own are taken. *)
ReadMeta ==
  /\ job[Boot].pc = "readMeta"
  /\ job' = [job EXCEPT ![Boot].pc   = "apply",
                        ![Boot].meta = IF metaFile = None THEN job[Boot].bytes ELSE metaFile]
  /\ UNCHANGED <<phase, snapshot, probes, files, overlap>>

(* The restore has ended, in whatever way: the HTTP server starts. *)
Serve ==
  /\ job[Boot].pc \in {"applied", "refused"}
  /\ phase' = "run"
  /\ job' = [job EXCEPT ![Boot] = Idle]
  /\ UNCHANGED <<snapshot, probes, files, overlap>>

FreeLoops == {l \in LoopIds : loops[l] = None /\ \A j \in Jobs : job[j].old # l}
Busy == {j \in Jobs : job[j] # Idle}

(* An ApplySnapshot call arrives, when LoopIds has a loop left for it. *)
Receive(j, s) ==
  /\ phase = "run" \/ (phase = "boot" /\ EarlyCalls)
  /\ job[j] = Idle
  /\ s \in Probed => Cardinality(FreeLoops) > Cardinality(Busy)
  /\ overlap' = IF Busy # {} THEN "now" ELSE IF overlap = "none" THEN "none" ELSE "past"
  /\ job' = [job EXCEPT ![j] = [pc |-> "apply", bytes |-> s, meta |-> s, old |-> None]]
  /\ UNCHANGED <<phase, snapshot, probes, files>>

BugApplyKeepsRefused(j) ==
  /\ job[j].pc = "apply"
  /\ Goto(j, IF Accepts(job[j].bytes, job[j].meta) THEN "detach" ELSE AfterProbe(j))
  /\ snapshot' = IF Accepts(job[j].bytes, job[j].meta)
                 THEN [bytes |-> job[j].bytes, meta |-> job[j].meta] ELSE snapshot
  /\ UNCHANGED <<phase, probes, files, overlap>>

(* Daemon.ApplySnapshot under snapshotMu: validate, swap the snapshot. *)
Apply(j) ==
  /\ job[j].pc = "apply"
  /\ IF Accepts(job[j].bytes, job[j].meta)
     THEN /\ snapshot' = [bytes |-> job[j].bytes, meta |-> job[j].meta]
          /\ Goto(j, "detach")
     ELSE /\ Goto(j, "refused")
          /\ UNCHANGED snapshot
  /\ UNCHANGED <<phase, probes, files, overlap>>

BugDetachUncancelled(j) ==
  /\ job[j].pc = "detach"
  /\ job' = [job EXCEPT ![j].pc = "probe", ![j].old = handle]
  /\ handle' = None
  /\ UNCHANGED <<phase, snapshot, loops, files, overlap>>

(* restartHealthProbes: take the handle of the running loop and cancel it. *)
Detach(j) ==
  /\ job[j].pc = "detach"
  /\ job' = [job EXCEPT ![j].pc = "probe", ![j].old = handle]
  /\ handle' = None
  /\ loops' = IF handle = None THEN loops ELSE [loops EXCEPT ![handle].cancelled = TRUE]
  /\ UNCHANGED <<phase, snapshot, files, overlap>>

(* When that loop has ended, start one for the new snapshot and keep its handle. *)
Probe(j) ==
  /\ job[j].pc = "probe"
  /\ job[j].old # None => loops[job[j].old] = None
  /\ job' = [job EXCEPT ![j].pc = AfterProbe(j), ![j].old = None]
  /\ IF job[j].bytes \in Probed
     THEN /\ FreeLoops # {}
          /\ handle' = CHOOSE l \in FreeLoops : TRUE
          /\ loops' = [loops EXCEPT ![handle'] = [snap |-> job[j].bytes, cancelled |-> FALSE]]
     ELSE UNCHANGED probes
  /\ UNCHANGED <<phase, snapshot, files, overlap>>

(* A cancelled loop returns once the probe it is in has ended. *)
LoopEnds(l) ==
  /\ loops[l] # None /\ loops[l].cancelled
  /\ loops' = [loops EXCEPT ![l] = None]
  /\ UNCHANGED <<phase, snapshot, job, handle, files, overlap>>

(* persistLastAppliedSnapshot: four file operations, under no lock; after an *)
(* error it returns, and the call answers Applied all the same ("unsaved").  *)
WritePayload(j) ==
  /\ job[j].pc = "writePayload"
  /\ \/ payloadTmp' = job[j].bytes /\ Goto(j, "renamePayload")
     \/ FilesMayFail /\ Goto(j, "unsaved") /\ UNCHANGED payloadTmp
  /\ UNCHANGED <<phase, snapshot, probes, payloadFile, metaFile, metaTmp, overlap>>

(* The rename fails when another call has renamed the same temporary file. *)
RenamePayload(j) ==
  /\ job[j].pc = "renamePayload"
  /\ \/ /\ payloadTmp # None
        /\ payloadFile' = payloadTmp
        /\ Goto(j, "writeMeta")
     \/ /\ payloadTmp = None \/ FilesMayFail
        /\ Goto(j, "unsaved")
        /\ UNCHANGED payloadFile
  /\ payloadTmp' = None
  /\ UNCHANGED <<phase, snapshot, probes, metaFile, metaTmp, overlap>>

WriteMeta(j) ==
  /\ job[j].pc = "writeMeta"
  /\ \/ metaTmp' = job[j].meta /\ Goto(j, "renameMeta")
     \/ FilesMayFail /\ Goto(j, "unsaved") /\ UNCHANGED metaTmp
  /\ UNCHANGED <<phase, snapshot, probes, payloadFile, metaFile, payloadTmp, overlap>>

BugRenameMetaKeepsOld(j) ==
  /\ job[j].pc = "renameMeta"
  /\ IF metaFile = None THEN metaFile' = metaTmp ELSE UNCHANGED metaFile
  /\ Goto(j, "applied")
  /\ metaTmp' = None
  /\ UNCHANGED <<phase, snapshot, probes, payloadFile, payloadTmp, overlap>>

RenameMeta(j) ==
  /\ job[j].pc = "renameMeta"
  /\ \/ metaTmp # None /\ metaFile' = metaTmp /\ Goto(j, "applied")
     \/ (metaTmp = None \/ FilesMayFail) /\ UNCHANGED metaFile /\ Goto(j, "unsaved")
  /\ metaTmp' = None
  /\ UNCHANGED <<phase, snapshot, probes, payloadFile, payloadTmp, overlap>>

(* The call answers: Applied, saved or not, or refused with an error. *)
Reply(j) ==
  /\ job[j].pc \in {"applied", "unsaved", "refused"}
  /\ job' = [job EXCEPT ![j] = Idle]
  /\ UNCHANGED <<phase, snapshot, probes, files, overlap>>

(* The process ends, by a signal or a crash; the files stay. *)
Crash ==
  /\ phase # "down"
  /\ phase' = "down"
  /\ snapshot' = None
  /\ job' = [j \in Jobs |-> Idle]
  /\ handle' = None
  /\ loops' = [l \in LoopIds |-> None]
  /\ overlap' = "none"
  /\ UNCHANGED files

Restore == ReadPayload \/ ReadMeta \/ Serve
Step(j) == Apply(j) \/ Detach(j) \/ Probe(j)
Save(j) == WritePayload(j) \/ RenamePayload(j) \/ WriteMeta(j) \/ RenameMeta(j)

Next ==
  \/ Start
  \/ Restore
  \/ \E j \in Calls, s \in Snapshots : Receive(j, s)
  \/ \E j \in Jobs : Step(j)
  \/ \E j \in Calls : Save(j) \/ Reply(j)
  \/ \E l \in LoopIds : LoopEnds(l)
  \/ Crash

Spec == Init /\ [][Next]_vars

(* Goroutines run on, cancelled loops return; nothing makes controld call,  *)
(* and nothing keeps the process from crashing.                             *)
Fairness ==
  /\ WF_vars(Restore)
  /\ \A j \in Jobs : WF_vars(Step(j))
  /\ \A j \in Calls : WF_vars(Save(j) \/ Reply(j))
  /\ \A l \in LoopIds : WF_vars(LoopEnds(l))

FairSpec == Spec /\ Fairness
-----------------------------------------------------------------------------
(* Properties. *)

(* Every variable has its type, and the restore never writes the cache files. *)
TypeOK ==
  /\ phase \in {"down", "boot", "run"}
  /\ snapshot \in Labelled \cup {None}
  /\ job \in [Jobs -> Job]
  /\ job[Boot].pc \notin SaveSteps
  /\ handle \in LoopIds \cup {None}
  /\ loops \in [LoopIds -> Loop \cup {None}]
  /\ {payloadFile, metaFile, payloadTmp, metaTmp} \subseteq File
  /\ overlap \in {"none", "now", "past"}

(* validateSnapshot guards everything: what gatewayd serves, and what it will *)
(* restore after a crash at any point, has passed it, also when the bytes of  *)
(* one call and the metadata of another have come together.                   *)
OnlyAccepted ==
  /\ snapshot # None => Accepts(snapshot.bytes, snapshot.meta)
  /\ payloadFile # None => payloadFile \in GoodBody
  /\ metaFile # None => metaFile \in GoodSchema

(* The inductive strengthening: a job past "apply" carries what was accepted, *)
(* and so do the temporary files.                                             *)
AcceptedJobs ==
  /\ \A j \in Jobs :
       job[j].pc \in {"detach", "probe", "writePayload", "renamePayload",
                      "writeMeta", "renameMeta"} => Accepts(job[j].bytes, job[j].meta)
  /\ payloadTmp # None => payloadTmp \in GoodBody
  /\ metaTmp # None => metaTmp \in GoodSchema

(* healthProbeCancel, when it is set, belongs to a loop that runs and that    *)
(* nobody has cancelled: also a part of the inductive invariant.              *)
HandleAlive == handle # None => loops[handle] \in Loop /\ ~loops[handle].cancelled

(* Nothing that was refused is served or kept, and the handle of the probes is *)
(* that of a running loop.                                                    *)
SnapshotSound == OnlyAccepted /\ HandleAlive

(* A call that is about to answer Applied has left its own snapshot in        *)
(* memory and, unless a file operation of its own failed, on disk, bytes and  *)
(* metadata: a restart finds what was answered.                               *)
AppliedIsDurable ==
  \A j \in Calls :
    /\ job[j].pc \in {"applied", "unsaved"} =>
         snapshot = [bytes |-> job[j].bytes, meta |-> job[j].meta]
    /\ job[j].pc = "applied" => payloadFile = job[j].bytes /\ metaFile = job[j].meta

Restarting == \E j \in Jobs : job[j].pc \in {"detach", "probe"}
Alive == {l \in LoopIds : loops[l] # None /\ ~loops[l].cancelled}

(* restartHealthProbes: between restarts one loop probes the providers of the *)
(* snapshot that is served, and none when its health checks are disabled.     *)
ProbesFollowSnapshot ==
  ~Restarting =>
    IF snapshot # None /\ snapshot.bytes \in Probed
    THEN handle \in LoopIds /\ Alive = {handle} /\ loops[handle].snap = snapshot.bytes
    ELSE Alive = {}

(* What an answer promises: the snapshot is kept, and probed.  Calls that      *)
(* overlap each other or the restore promise nothing, for persist and probes  *)
(* are under no common lock: the next call that comes alone is kept again,    *)
(* while a probe loop that has lost its handle runs until the process ends.   *)
AppliedIsInForce ==
  /\ overlap # "now" => AppliedIsDurable
  /\ overlap = "none" => ProbesFollowSnapshot

(* Every call is answered, or the process ends: the wait for the previous     *)
(* probe loop in restartHealthProbes does not last.                           *)
CallsAnswered == \A j \in Calls : job[j].pc # "idle" ~> job[j].pc = "idle"

(* A process that starts with an acceptable payload on disk becomes ready     *)
(* without controld, or ends.                                                 *)
RestoresReady ==
  (phase = "boot" /\ payloadFile # None) ~> (snapshot # None \/ phase = "down")

(* Nobody waits for gatewayd in vain, neither a caller nor a client.           *)
NobodyWaits == CallsAnswered /\ RestoresReady
=============================================================================
