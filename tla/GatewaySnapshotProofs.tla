------------------------ MODULE GatewaySnapshotProofs ------------------------
(***************************************************************************)
(* Proofs about the snapshot of gatewayd, for every set of snapshots and   *)
(* any number of overlapping calls, with calls before the restore has      *)
(* ended, failing file operations and crashes.                             *)
(***************************************************************************)
EXTENDS GatewaySnapshot, TLAPS

IInv == TypeOK /\ OnlyAccepted /\ AcceptedJobs /\ HandleAlive

(* The steps between which a job carries an accepted snapshot. *)
Carrying == {"detach", "probe", "writePayload", "renamePayload", "writeMeta", "renameMeta"}

(* The record of a job that goes on to another step. *)
LEMMA GotoFacts ==
  ASSUME TypeOK, NEW j \in Jobs, NEW step \in Steps, Goto(j, step)
  PROVE  \E rec \in Job : /\ job' = [job EXCEPT ![j] = rec]
                          /\ rec.pc = step
                          /\ rec.bytes = job[j].bytes /\ rec.meta = job[j].meta
<1> DEFINE rec == [job[j] EXCEPT !.pc = step]
<1>1. job[j] \in Job
  BY DEF TypeOK
<1>2. rec \in Job /\ rec.pc = step /\ rec.bytes = job[j].bytes /\ rec.meta = job[j].meta
  BY <1>1 DEF Job
<1>3. job' = [job EXCEPT ![j] = rec]
  BY DEF Goto
<1>4. QED
  BY <1>2, <1>3

(* A step of one job keeps the invariant when that job goes on with its      *)
(* snapshot accepted, and the files get parts of accepted snapshots.         *)
LEMMA JobMoves ==
  ASSUME IInv, NEW j \in Jobs, NEW rec \in Job, job' = [job EXCEPT ![j] = rec],
         j = Boot => rec.pc \notin SaveSteps,
         rec.pc \in Carrying => Accepts(rec.bytes, rec.meta),
         phase' \in {"down", "boot", "run"},
         snapshot' \in Labelled \cup {None},
         snapshot' # None => Accepts(snapshot'.bytes, snapshot'.meta),
         handle' \in LoopIds \cup {None}, loops' \in [LoopIds -> Loop \cup {None}],
         {payloadFile', metaFile', payloadTmp', metaTmp'} \subseteq File,
         payloadFile' # None => payloadFile' \in GoodBody,
         metaFile' # None => metaFile' \in GoodSchema,
         payloadTmp' # None => payloadTmp' \in GoodBody,
         metaTmp' # None => metaTmp' \in GoodSchema,
         overlap' \in {"none", "now", "past"},
         HandleAlive'
  PROVE  IInv'
<1>1. TypeOK /\ AcceptedJobs
  BY DEF IInv
<1>2. /\ job' \in [Jobs -> Job] /\ job'[j] = rec
      /\ \A k \in Jobs : k # j => job'[k] = job[k]
  BY <1>1 DEF TypeOK
<1>3. TypeOK'
  BY <1>1, <1>2 DEF TypeOK, Jobs
<1>4. OnlyAccepted'
  BY DEF OnlyAccepted, Accepts
<1>5. AcceptedJobs'
  BY <1>1, <1>2 DEF AcceptedJobs, Carrying, Accepts
<1>6. QED
  BY <1>3, <1>4, <1>5 DEF IInv

LEMMA InitIInv == Init => IInv
<1> SUFFICES ASSUME Init PROVE IInv
  OBVIOUS
<1>1. Idle \in Job
  BY DEF Idle, Job, Steps, File
<1>2. TypeOK
  BY <1>1 DEF Init, TypeOK, File, Idle, Jobs, SaveSteps
<1>3. OnlyAccepted /\ AcceptedJobs
  BY DEF Init, OnlyAccepted, AcceptedJobs, Idle
<1>4. HandleAlive
  BY DEF Init, HandleAlive
<1>5. QED
  BY <1>2, <1>3, <1>4 DEF IInv

(* The parts of IInv every step refers to. *)
LEMMA IInvFacts ==
  ASSUME IInv
  PROVE  /\ phase \in {"down", "boot", "run"}
         /\ snapshot \in Labelled \cup {None}
         /\ snapshot # None => Accepts(snapshot.bytes, snapshot.meta)
         /\ job \in [Jobs -> Job]
         /\ \A j \in Jobs : job[j].pc \in Carrying => Accepts(job[j].bytes, job[j].meta)
         /\ handle \in LoopIds \cup {None}
         /\ loops \in [LoopIds -> Loop \cup {None}]
         /\ {payloadFile, metaFile, payloadTmp, metaTmp} \subseteq File
         /\ payloadFile # None => payloadFile \in GoodBody
         /\ metaFile # None => metaFile \in GoodSchema
         /\ payloadTmp # None => payloadTmp \in GoodBody
         /\ metaTmp # None => metaTmp \in GoodSchema
         /\ overlap \in {"none", "now", "past"}
         /\ handle # None => loops[handle] \in Loop /\ ~loops[handle].cancelled
  BY DEF IInv, TypeOK, OnlyAccepted, AcceptedJobs, Carrying, HandleAlive

(* The restore and the arrival of a call put a job where it carries nothing yet. *)
LEMMA JobReplaced ==
  ASSUME IInv, NEW j \in Jobs, NEW rec \in Job, rec.pc \notin Carrying,
         job' = [job EXCEPT ![j] = rec], phase' \in {"down", "boot", "run"},
         overlap' \in {"none", "now", "past"},
         UNCHANGED <<snapshot, probes, files>>
  PROVE  IInv'
<1>1. /\ job' \in [Jobs -> Job] /\ job'[j] = rec
      /\ \A k \in Jobs : k # j => job'[k] = job[k]
  BY IInvFacts
<1>2. TypeOK'
  BY <1>1 DEF IInv, TypeOK, probes, files, Carrying, SaveSteps, Jobs
<1>3. OnlyAccepted'
  BY DEF IInv, OnlyAccepted, files
<1>4. AcceptedJobs'
  BY <1>1 DEF IInv, AcceptedJobs, Carrying, files
<1>5. HandleAlive'
  BY DEF IInv, HandleAlive, probes
<1>6. QED
  BY <1>2, <1>3, <1>4, <1>5 DEF IInv

LEMMA RestoreIInv ==
  ASSUME IInv, Start \/ Restore
  PROVE  IInv'
<1>1. Boot \in Jobs /\ job[Boot] \in Job /\ job \in [Jobs -> Job]
  BY IInvFacts DEF Jobs
<1>2. CASE Start
  <2> DEFINE rec == [job[Boot] EXCEPT !.pc = "readPayload"]
  <2>1. rec \in Job /\ rec.pc = "readPayload"
    BY <1>1 DEF Job, Steps
  <2>2. job' = [job EXCEPT ![Boot] = rec] /\ phase' = "boot"
    BY <1>2 DEF Start
  <2>3. UNCHANGED <<snapshot, probes, files, overlap>>
    BY <1>2 DEF Start
  <2> HIDE DEF rec
  <2>4. QED
    BY <1>1, <2>1, <2>2, <2>3, IInvFacts, JobReplaced DEF Carrying
<1>3. CASE ReadPayload
  <2> DEFINE step == IF payloadFile = None THEN "applied" ELSE "readMeta"
             rec == [job[Boot] EXCEPT !.pc = step, !.bytes = payloadFile]
  <2>1. rec \in Job /\ rec.pc \in {"applied", "readMeta"}
    BY <1>1, IInvFacts DEF Job, Steps
  <2>2. job' = [job EXCEPT ![Boot] = rec]
    BY <1>3 DEF ReadPayload
  <2>3. phase' = phase /\ UNCHANGED <<snapshot, probes, files, overlap>>
    BY <1>3 DEF ReadPayload
  <2> HIDE DEF rec
  <2>4. QED
    BY <1>1, <2>1, <2>2, <2>3, IInvFacts, JobReplaced DEF Carrying
<1>4. CASE ReadMeta
  <2> DEFINE m == IF metaFile = None THEN job[Boot].bytes ELSE metaFile
             rec == [job[Boot] EXCEPT !.pc = "apply", !.meta = m]
  <2>1. m \in File
    BY <1>1, IInvFacts DEF Job
  <2>2. rec \in Job /\ rec.pc = "apply"
    BY <1>1, <2>1 DEF Job, Steps
  <2>3. job' = [job EXCEPT ![Boot] = rec]
    BY <1>4 DEF ReadMeta
  <2>4. phase' = phase /\ UNCHANGED <<snapshot, probes, files, overlap>>
    BY <1>4 DEF ReadMeta
  <2> HIDE DEF rec
  <2>5. QED
    BY <1>1, <2>2, <2>3, <2>4, IInvFacts, JobReplaced DEF Carrying
<1>5. CASE Serve
  <2>1. Idle \in Job /\ Idle.pc = "idle"
    BY DEF Idle, Job, Steps, File
  <2>2. job' = [job EXCEPT ![Boot] = Idle] /\ phase' = "run"
        /\ UNCHANGED <<snapshot, probes, files, overlap>>
    BY <1>5 DEF Serve
  <2>3. QED
    BY <1>1, <2>1, <2>2, IInvFacts, JobReplaced DEF Carrying
<1>6. QED
  BY <1>2, <1>3, <1>4, <1>5 DEF Restore

LEMMA ReceiveIInv ==
  ASSUME IInv, NEW j \in Calls, NEW s \in Snapshots, Receive(j, s)
  PROVE  IInv'
<1> DEFINE rec == [pc |-> "apply", bytes |-> s, meta |-> s, old |-> None]
<1>1. j \in Jobs
  BY DEF Jobs
<1>2. rec \in Job /\ rec.pc = "apply"
  BY DEF Job, Steps, File
<1>3. job' = [job EXCEPT ![j] = rec] /\ phase' = phase
      /\ UNCHANGED <<snapshot, probes, files>> /\ overlap' \in {"none", "now", "past"}
  BY DEF Receive
<1> HIDE DEF rec
<1>4. QED
  BY <1>1, <1>2, <1>3, IInvFacts, JobReplaced DEF Carrying

LEMMA ReplyIInv ==
  ASSUME IInv, NEW j \in Calls, Reply(j)
  PROVE  IInv'
<1>1. Idle \in Job /\ Idle.pc = "idle" /\ j \in Jobs
  BY DEF Idle, Job, Steps, File, Jobs
<1>2. job' = [job EXCEPT ![j] = Idle] /\ phase' = phase
      /\ UNCHANGED <<snapshot, probes, files, overlap>>
  BY DEF Reply
<1>3. QED
  BY <1>1, <1>2, IInvFacts, JobReplaced DEF Carrying

(* The loop that is started is a free one. *)
LEMMA FreeLoopTaken ==
  ASSUME NEW j \in Jobs, Probe(j), job[j].bytes \in Probed
  PROVE  \E l \in FreeLoops :
           /\ handle' = l
           /\ loops' = [loops EXCEPT ![l] = [snap |-> job[j].bytes, cancelled |-> FALSE]]
<1>1. FreeLoops # {} /\ handle' = CHOOSE l \in FreeLoops : TRUE
  BY DEF Probe
<1>2. handle' \in FreeLoops
  BY <1>1
<1>3. loops' = [loops EXCEPT ![handle'] = [snap |-> job[j].bytes, cancelled |-> FALSE]]
  BY DEF Probe
<1>4. QED
  BY <1>2, <1>3

LEMMA StepIInv ==
  ASSUME IInv, NEW j \in Jobs, Step(j)
  PROVE  IInv'
<1>1. job[j] \in Job /\ TypeOK
  BY IInvFacts DEF IInv
<1>2. CASE Apply(j)
  <2> DEFINE acc == Accepts(job[j].bytes, job[j].meta)
             step == IF acc THEN "detach" ELSE "refused"
  <2>1. job[j].pc = "apply" /\ Goto(j, step) /\ step \in Steps
        /\ UNCHANGED <<phase, probes, files, overlap>>
    BY <1>2 DEF Apply, Steps
  <2>2. snapshot' = IF acc THEN [bytes |-> job[j].bytes, meta |-> job[j].meta] ELSE snapshot
    BY <1>2 DEF Apply
  <2>3. PICK rec \in Job : /\ job' = [job EXCEPT ![j] = rec] /\ rec.pc = step
                           /\ rec.bytes = job[j].bytes /\ rec.meta = job[j].meta
    BY <1>1, <2>1, GotoFacts
  <2>4. rec.pc \in Carrying => Accepts(rec.bytes, rec.meta)
    BY <2>3 DEF Carrying
  <2>5. /\ snapshot' \in Labelled \cup {None}
        /\ snapshot' # None => Accepts(snapshot'.bytes, snapshot'.meta)
    <3>1. CASE acc
      <4>1. job[j].bytes \in Snapshots /\ job[j].meta \in Snapshots
        BY <3>1, SnapshotAssumption DEF Accepts
      <4>2. QED
        BY <2>2, <3>1, <4>1 DEF Labelled
    <3>2. CASE ~acc
      BY <2>2, <3>2, IInvFacts
    <3>3. QED
      BY <3>1, <3>2
  <2>6. HandleAlive'
    BY <2>1 DEF IInv, HandleAlive, probes
  <2>7. rec.pc \notin SaveSteps
    BY <2>3 DEF SaveSteps
  <2>8. QED
    BY <2>1, <2>3, <2>4, <2>5, <2>6, <2>7, IInvFacts, JobMoves DEF probes, files
<1>3. CASE Detach(j)
  <2> DEFINE rec == [job[j] EXCEPT !.pc = "probe", !.old = handle]
  <2>1. /\ rec \in Job /\ rec.bytes = job[j].bytes /\ rec.meta = job[j].meta
        /\ rec.pc \notin SaveSteps
    BY <1>1, IInvFacts DEF Job, Steps, SaveSteps
  <2>2. job' = [job EXCEPT ![j] = rec] /\ job[j].pc = "detach" /\ handle' = None
        /\ UNCHANGED <<phase, snapshot, files, overlap>>
    BY <1>3 DEF Detach
  <2>3. Accepts(rec.bytes, rec.meta)
    BY <2>1, <2>2, IInvFacts DEF Carrying
  <2>4. loops' \in [LoopIds -> Loop \cup {None}]
    <3>1. CASE handle = None
      BY <1>3, <3>1, IInvFacts DEF Detach
    <3>2. CASE handle # None /\ loops[handle] \in Loop
      <4>1. [loops[handle] EXCEPT !.cancelled = TRUE] \in Loop
        BY <3>2 DEF Loop
      <4>2. QED
        BY <1>3, <3>2, <4>1, IInvFacts DEF Detach
    <3>3. QED
      BY <3>1, <3>2, IInvFacts
  <2>5. HandleAlive'
    BY <2>2 DEF HandleAlive
  <2> HIDE DEF rec
  <2>6. QED
    BY <2>1, <2>2, <2>3, <2>4, <2>5, IInvFacts, JobMoves DEF files
<1>4. CASE Probe(j)
  <2> DEFINE rec == [job[j] EXCEPT !.pc = AfterProbe(j), !.old = None]
  <2>1. /\ rec \in Job /\ rec.bytes = job[j].bytes /\ rec.meta = job[j].meta
        /\ j = Boot => rec.pc \notin SaveSteps
    BY <1>1 DEF Job, Steps, AfterProbe, SaveSteps
  <2>2. job' = [job EXCEPT ![j] = rec] /\ job[j].pc = "probe"
        /\ UNCHANGED <<phase, snapshot, files, overlap>>
    BY <1>4 DEF Probe
  <2>3. Accepts(rec.bytes, rec.meta)
    BY <2>1, <2>2, IInvFacts DEF Carrying
  <2>4. /\ handle' \in LoopIds \cup {None} /\ loops' \in [LoopIds -> Loop \cup {None}]
        /\ HandleAlive'
    <3>1. CASE job[j].bytes \in Probed
      <4> DEFINE new == [snap |-> job[j].bytes, cancelled |-> FALSE]
      <4>1. PICK l \in FreeLoops : handle' = l /\ loops' = [loops EXCEPT ![l] = new]
        BY <1>4, <3>1, FreeLoopTaken
      <4>2. l \in LoopIds
        BY <4>1 DEF FreeLoops
      <4>3. new \in Loop /\ ~new.cancelled
        <5>1. job[j].bytes \in Snapshots
          BY <3>1, SnapshotAssumption
        <5>2. QED
          BY <5>1 DEF Loop
      <4> HIDE DEF new
      <4>4. QED
        BY <4>1, <4>2, <4>3, IInvFacts DEF HandleAlive
    <3>2. CASE job[j].bytes \notin Probed
      <4>1. UNCHANGED probes
        BY <1>4, <3>2 DEF Probe
      <4>2. QED
        BY <4>1, IInvFacts DEF probes, IInv, HandleAlive
    <3>3. QED
      BY <3>1, <3>2
  <2> HIDE DEF rec
  <2>5. QED
    BY <2>1, <2>2, <2>3, <2>4, IInvFacts, JobMoves DEF files
<1>5. QED
  BY <1>2, <1>3, <1>4 DEF Step

LEMMA SaveIInv ==
  ASSUME IInv, NEW j \in Calls, Save(j)
  PROVE  IInv'
<1>1. j \in Jobs /\ j # Boot /\ job[j] \in Job /\ TypeOK
  BY IInvFacts, SnapshotAssumption DEF IInv, Jobs
<1>2. job[j].pc \in Carrying
  BY DEF Save, WritePayload, RenamePayload, WriteMeta, RenameMeta, Carrying
<1>3. /\ Accepts(job[j].bytes, job[j].meta)
      /\ job[j].bytes \in Snapshots /\ job[j].bytes \in GoodBody
      /\ job[j].meta \in Snapshots /\ job[j].meta \in GoodSchema
  BY <1>1, <1>2, IInvFacts, SnapshotAssumption DEF Accepts
<1>4. /\ phase' = phase /\ snapshot' = snapshot /\ handle' = handle /\ loops' = loops
      /\ overlap' = overlap
      /\ payloadTmp' \in {payloadTmp, job[j].bytes, None}
      /\ payloadFile' \in {payloadFile, payloadTmp}
      /\ metaTmp' \in {metaTmp, job[j].meta, None}
      /\ metaFile' \in {metaFile, metaTmp}
  BY DEF Save, WritePayload, RenamePayload, WriteMeta, RenameMeta, probes
<1>5. PICK step \in Steps : Goto(j, step)
  BY DEF Save, WritePayload, RenamePayload, WriteMeta, RenameMeta, Steps
<1>6. PICK rec \in Job : /\ job' = [job EXCEPT ![j] = rec]
                         /\ rec.bytes = job[j].bytes /\ rec.meta = job[j].meta
  BY <1>1, <1>5, GotoFacts
<1>7. HandleAlive'
  BY <1>4 DEF IInv, HandleAlive
<1>8. {payloadFile', metaFile', payloadTmp', metaTmp'} \subseteq File
  BY <1>3, <1>4, IInvFacts DEF File
<1>9. /\ payloadFile' # None => payloadFile' \in GoodBody
      /\ metaFile' # None => metaFile' \in GoodSchema
      /\ payloadTmp' # None => payloadTmp' \in GoodBody
      /\ metaTmp' # None => metaTmp' \in GoodSchema
  BY <1>3, <1>4, IInvFacts
<1>10. /\ phase' \in {"down", "boot", "run"} /\ overlap' \in {"none", "now", "past"}
       /\ snapshot' \in Labelled \cup {None}
       /\ snapshot' # None => Accepts(snapshot'.bytes, snapshot'.meta)
       /\ handle' \in LoopIds \cup {None} /\ loops' \in [LoopIds -> Loop \cup {None}]
  BY <1>4, IInvFacts
<1>11. Accepts(job[j].bytes, job[j].meta)
  BY <1>3
<1>12. QED
  BY <1>1, <1>6, <1>7, <1>8, <1>9, <1>10, <1>11, JobMoves

LEMMA LoopEndsIInv ==
  ASSUME IInv, NEW l \in LoopIds, LoopEnds(l)
  PROVE  IInv'
<1>1. /\ loops[l].cancelled /\ loops' = [loops EXCEPT ![l] = None]
      /\ UNCHANGED <<phase, snapshot, job, handle, files, overlap>>
  BY DEF LoopEnds
<1>2. loops' \in [LoopIds -> Loop \cup {None}]
  BY <1>1, IInvFacts
<1>3. HandleAlive'
  BY <1>1, IInvFacts DEF HandleAlive
<1>4. QED
  BY <1>1, <1>2, <1>3 DEF IInv, TypeOK, OnlyAccepted, AcceptedJobs, files

LEMMA CrashIInv == IInv /\ Crash => IInv'
<1> SUFFICES ASSUME IInv, Crash PROVE IInv'
  OBVIOUS
<1>1. Idle \in Job /\ Idle.pc = "idle"
  BY DEF Idle, Job, Steps, File
<1>2. TypeOK'
  BY <1>1 DEF IInv, Crash, TypeOK, files, Jobs, SaveSteps
<1>3. OnlyAccepted' /\ HandleAlive'
  BY DEF IInv, Crash, OnlyAccepted, HandleAlive, files
<1>4. AcceptedJobs'
  BY <1>1 DEF IInv, Crash, AcceptedJobs, files
<1>5. QED
  BY <1>2, <1>3, <1>4 DEF IInv

LEMMA NextIInv == IInv /\ [Next]_vars => IInv'
<1> SUFFICES ASSUME IInv, [Next]_vars PROVE IInv'
  OBVIOUS
<1>1. CASE Start \/ Restore
  BY <1>1, RestoreIInv
<1>2. ASSUME NEW j \in Calls, NEW s \in Snapshots, Receive(j, s) PROVE IInv'
  BY <1>2, ReceiveIInv
<1>3. ASSUME NEW j \in Jobs, Step(j) PROVE IInv'
  BY <1>3, StepIInv
<1>4. ASSUME NEW j \in Calls, Save(j) PROVE IInv'
  BY <1>4, SaveIInv
<1>5. ASSUME NEW j \in Calls, Reply(j) PROVE IInv'
  BY <1>5, ReplyIInv
<1>6. ASSUME NEW l \in LoopIds, LoopEnds(l) PROVE IInv'
  BY <1>6, LoopEndsIInv
<1>7. CASE Crash
  BY <1>7, CrashIInv
<1>8. CASE UNCHANGED vars
  BY <1>8 DEF vars, IInv, TypeOK, OnlyAccepted, AcceptedJobs, HandleAlive
<1>9. QED
  BY <1>1, <1>2, <1>3, <1>4, <1>5, <1>6, <1>7, <1>8 DEF Next

-----------------------------------------------------------------------------
(* The theorems. *)

(* The inductive invariant, in every state of gatewayd. *)
THEOREM SnapshotInvariance == Spec => []IInv
<1>1. QED
  BY InitIInv, NextIInv, PTL DEF Spec

(* The types, and that no file or job ever holds anything but a snapshot.     *)
THEOREM SnapshotTypes == Spec => []TypeOK
<1>1. IInv => TypeOK
  BY DEF IInv
<1>2. QED
  BY <1>1, SnapshotInvariance, PTL

(* validateSnapshot guards what is served and what will be restored, with any *)
(* number of overlapping calls whose files mix, failing writes, and crashes.  *)
THEOREM ServesOnlyAccepted == Spec => []OnlyAccepted
<1>1. IInv => OnlyAccepted
  BY DEF IInv
<1>2. QED
  BY <1>1, SnapshotInvariance, PTL

(* healthProbeCancel never refers to a loop that was cancelled or has ended,  *)
(* so that cancelling it, once, stops a loop that runs.                       *)
THEOREM HandleNamesRunningLoop == Spec => []HandleAlive
<1>1. IInv => HandleAlive
  BY DEF IInv
<1>2. QED
  BY <1>1, SnapshotInvariance, PTL

(* Both together: what gatewayd serves and which probe loop it could stop.    *)
THEOREM SnapshotIsSound == Spec => []SnapshotSound
<1>1. IInv => SnapshotSound
  BY DEF IInv, SnapshotSound
<1>2. QED
  BY <1>1, SnapshotInvariance, PTL
-----------------------------------------------------------------------------
(* What an answer promises when calls come one at a time, and what is left of *)
(* it when they do not.                                                       *)

(* The restore is at work in "boot", and nothing when the process is down. *)
Phases ==
  /\ phase # "boot" => job[Boot] = Idle
  /\ phase = "boot" => job[Boot] # Idle
  /\ phase = "down" => snapshot = None /\ handle = None /\ \A j \in Calls : job[j] = Idle

OneJob == \A j, k \in Jobs : job[j] # Idle /\ job[k] # Idle => j = k

(* What a job has done so far is what the state shows of it. *)
Kept(j) ==
  LET pc == job[j].pc
      served == j \in Calls /\ pc \in {"applied", "unsaved"}
      saved == j \in Calls /\ pc = "applied" IN
  /\ pc \in Carrying \/ served =>
       snapshot = [bytes |-> job[j].bytes, meta |-> job[j].meta]
  /\ pc = "renamePayload" => payloadTmp = job[j].bytes
  /\ pc \in {"writeMeta", "renameMeta"} \/ saved => payloadFile = job[j].bytes
  /\ pc = "renameMeta" => metaTmp = job[j].meta
  /\ saved => metaFile = job[j].meta

(* Only the loop with the handle has not been cancelled. *)
OneLoop == \A l \in LoopIds : loops[l] # None /\ ~loops[l].cancelled => l = handle

(* The loop with the handle is the one the snapshot asks for. *)
Following ==
  IF snapshot # None /\ snapshot.bytes \in Probed
  THEN handle # None /\ loops[handle].snap = snapshot.bytes
  ELSE handle = None

Probing ==
  /\ OneLoop
  /\ (\E j \in Jobs : job[j].pc = "probe") => handle = None
  /\ ~Restarting => Following

InForceInv ==
  /\ Phases
  /\ overlap # "now" => OneJob /\ \A j \in Jobs : Kept(j)
  /\ overlap = "none" => Probing

(* What has to be shown of a step of job j, the others being idle. *)
LEMMA OneJobAtWork ==
  ASSUME NEW j \in Jobs, \A k \in Jobs : k # j => job'[k] = Idle, Kept(j)'
  PROVE  /\ OneJob' /\ \A k \in Jobs : Kept(k)'
         /\ \/ ~(/\ OneLoop'
                 /\ job'[j].pc = "probe" => handle' = None
                 /\ job'[j].pc \notin {"detach", "probe"} => Following')
            \/ Probing'
<1>1. ASSUME NEW k \in Jobs, k # j PROVE job'[k].pc = "idle" /\ Kept(k)'
  BY <1>1 DEF Idle, Kept, Carrying
<1>2. \A k \in Jobs : Kept(k)'
  BY <1>1
<1>3. (\E k \in Jobs : job'[k].pc = "probe") => job'[j].pc = "probe"
  BY <1>1
<1>4. ~Restarting' => job'[j].pc \notin {"detach", "probe"}
  BY DEF Restarting
<1>5. OneJob'
  BY DEF OneJob
<1>6. QED
  BY <1>2, <1>3, <1>4, <1>5 DEF Probing

LEMMA InitInForce == Init => InForceInv
<1> SUFFICES ASSUME Init PROVE InForceInv
  OBVIOUS
<1>1. \A j \in Jobs : job[j] = Idle /\ job[j].pc = "idle"
  BY DEF Init, Idle
<1>2. Phases /\ OneJob /\ \A j \in Jobs : Kept(j)
  BY <1>1 DEF Init, Phases, Jobs, OneJob, Kept, Carrying
<1>3. OneLoop /\ Following
  BY DEF Init, OneLoop, Following
<1>4. Probing
  BY <1>1, <1>3 DEF Probing
<1>5. QED
  BY <1>2, <1>4 DEF InForceInv

(* The facts about a state in which job j alone is at work. *)
LEMMA Alone ==
  ASSUME IInv, InForceInv, NEW j \in Jobs, job[j] # Idle, overlap # "now"
  PROVE  /\ \A k \in Jobs : k # j => job[k] = Idle
         /\ Kept(j)
  BY DEF InForceInv, OneJob

(* Between restarts of the probes they follow the snapshot. *)
LEMMA AloneProbing ==
  ASSUME IInv, InForceInv, NEW j \in Jobs, job[j] # Idle, overlap = "none",
         job[j].pc \notin {"detach", "probe"}
  PROVE  OneLoop /\ Following
<1>1. \A k \in Jobs : k # j => job[k] = Idle
  BY Alone
<1>2. ~Restarting
  BY <1>1 DEF Restarting, Idle
<1>3. QED
  BY <1>2 DEF InForceInv, Probing

(* The jobs at work, and with them the phases, stay what they are. *)
LEMMA PhasesKept ==
  ASSUME Phases, NEW j \in Jobs, job[j] # Idle, job'[j] # Idle, phase' = phase,
         \A k \in Jobs : k # j => job'[k] = job[k]
  PROVE  Phases'
<1>1. phase # "down"
  BY DEF Phases, Jobs
<1>2. Boot \in Jobs
  BY DEF Jobs
<1>3. job'[Boot] = Idle <=> job[Boot] = Idle
  BY <1>2
<1>4. QED
  BY <1>1, <1>3 DEF Phases

(* The restore goes on, or begins, or the process starts to serve. *)
LEMMA RestoreInForce ==
  ASSUME IInv, InForceInv, Start \/ Restore
  PROVE  InForceInv'
<1>1. Boot \in Jobs /\ job \in [Jobs -> Job] /\ Boot \notin Calls /\ Phases
  BY IInvFacts, SnapshotAssumption DEF Jobs, InForceInv
<1>2. /\ UNCHANGED <<snapshot, probes, files, overlap>>
      /\ \A k \in Jobs : k # Boot => job'[k] = job[k]
      /\ job'[Boot].pc \in {"readPayload", "readMeta", "apply", "applied", "idle"}
      /\ \/ phase' = "boot" /\ job'[Boot] # Idle
         \/ phase' = "run" /\ job'[Boot] = Idle
  <2>1. CASE Start
    BY <1>1, <2>1 DEF Start, Job, Steps, Idle
  <2>2. CASE ReadPayload
    <3>1. job[Boot] # Idle
      BY <2>2 DEF ReadPayload, Idle
    <3>2. phase = "boot"
      BY <1>1, <3>1 DEF Phases
    <3>3. QED
      BY <1>1, <2>2, <3>2 DEF ReadPayload, Job, Steps, Idle
  <2>3. CASE ReadMeta
    <3>1. job[Boot] # Idle
      BY <2>3 DEF ReadMeta, Idle
    <3>2. phase = "boot"
      BY <1>1, <3>1 DEF Phases
    <3>3. QED
      BY <1>1, <2>3, <3>2 DEF ReadMeta, Job, Steps, Idle
  <2>4. CASE Serve
    BY <1>1, <2>4 DEF Serve, Idle
  <2>5. QED
    BY <2>1, <2>2, <2>3, <2>4 DEF Restore
<1>3. Phases'
  BY <1>2 DEF Phases
<1>4. ASSUME overlap # "now"
      PROVE  \A k \in Jobs : k # Boot => job[k] = Idle
  <2>1. CASE Start
    BY <1>1, <2>1 DEF Start, Phases, Jobs
  <2>2. CASE Restore
    <3>1. job[Boot] # Idle
      BY <2>2 DEF Restore, ReadPayload, ReadMeta, Serve, Idle
    <3>2. QED
      BY <1>1, <1>4, <3>1, Alone
  <2>3. QED
    BY <2>1, <2>2
<1>5. Kept(Boot)'
  BY <1>1, <1>2 DEF Kept, Carrying
<1>6. ASSUME overlap = "none" PROVE OneLoop' /\ Following'
  <2>1. job[Boot].pc \notin {"detach", "probe"}
    <3>1. CASE Start
      BY <1>1, <3>1 DEF Start, Phases, Idle
    <3>2. CASE Restore
      BY <3>2 DEF Restore, ReadPayload, ReadMeta, Serve
    <3>3. QED
      BY <3>1, <3>2
  <2>2. ~Restarting
    BY <1>4, <1>6, <2>1 DEF Restarting, Idle
  <2>3. OneLoop /\ Following
    BY <1>6, <2>2 DEF InForceInv, Probing
  <2>4. QED
    BY <1>2, <2>3 DEF OneLoop, Following, probes
<1>7. overlap' # "now" => OneJob' /\ \A k \in Jobs : Kept(k)'
  BY <1>1, <1>2, <1>4, <1>5, OneJobAtWork
<1>8. overlap' = "none" => Probing'
  BY <1>1, <1>2, <1>4, <1>5, <1>6, OneJobAtWork
<1>9. QED
  BY <1>3, <1>7, <1>8 DEF InForceInv

(* A call arrives: alone, or it overlaps another job from now on. *)
LEMMA ReceiveInForce ==
  ASSUME IInv, InForceInv, NEW j \in Calls, NEW s \in Snapshots, Receive(j, s)
  PROVE  InForceInv'
<1>1. /\ j \in Jobs /\ job \in [Jobs -> Job] /\ Phases /\ j # Boot /\ Boot \in Jobs
      /\ phase # "down" /\ phase' = phase
      /\ UNCHANGED <<snapshot, probes, files>>
      /\ \A k \in Jobs : k # j => job'[k] = job[k]
      /\ job'[j].pc = "apply" /\ job[j] = Idle
  BY IInvFacts, SnapshotAssumption DEF Jobs, InForceInv, Receive
<1>2. Phases'
  BY <1>1 DEF Phases
<1>3. CASE overlap' = "now"
  BY <1>2, <1>3 DEF InForceInv
<1>4. CASE overlap' # "now"
  <2>1. \A k \in Jobs : job[k] = Idle
    BY <1>4 DEF Receive, Busy
  <2>2. \A k \in Jobs : k # j => job'[k] = Idle
    BY <1>1, <2>1
  <2>3. Kept(j)'
    BY <1>1 DEF Kept, Carrying
  <2>4. OneJob' /\ \A k \in Jobs : Kept(k)'
    BY <1>1, <2>2, <2>3, OneJobAtWork
  <2>5. ASSUME overlap' = "none" PROVE Probing'
    <3>1. overlap = "none"
      BY <2>5 DEF Receive
    <3>2. ~Restarting
      BY <2>1 DEF Restarting, Idle
    <3>3. OneLoop /\ Following
      BY <3>1, <3>2 DEF InForceInv, Probing
    <3>4. OneLoop' /\ Following'
      BY <1>1, <3>3 DEF OneLoop, Following, probes
    <3>5. QED
      BY <1>1, <2>2, <2>3, <3>4, OneJobAtWork
  <2>6. QED
    BY <1>2, <2>4, <2>5 DEF InForceInv
<1>5. QED
  BY <1>3, <1>4

(* A call is answered. *)
LEMMA ReplyInForce ==
  ASSUME IInv, InForceInv, NEW j \in Calls, Reply(j)
  PROVE  InForceInv'
<1>1. /\ j \in Jobs /\ job \in [Jobs -> Job] /\ Phases /\ j # Boot /\ Boot \in Jobs
      /\ phase' = phase /\ UNCHANGED <<snapshot, probes, files, overlap>>
      /\ \A k \in Jobs : k # j => job'[k] = job[k]
      /\ job'[j] = Idle /\ job[j] # Idle /\ job[j].pc \notin {"detach", "probe"}
  BY IInvFacts, SnapshotAssumption DEF Jobs, InForceInv, Reply, Idle
<1>2. Phases'
  BY <1>1 DEF Phases, Jobs
<1>3. ASSUME overlap # "now"
      PROVE  /\ \A k \in Jobs : k # j => job'[k] = Idle
             /\ Kept(j)'
  BY <1>1, <1>3, Alone DEF Kept, Carrying, Idle
<1>4. overlap' # "now" => OneJob' /\ \A k \in Jobs : Kept(k)'
  BY <1>1, <1>3, OneJobAtWork
<1>5. ASSUME overlap = "none" PROVE OneLoop' /\ Following'
  <2>1. OneLoop /\ Following
    BY <1>1, <1>5, AloneProbing
  <2>2. QED
    BY <1>1, <2>1 DEF OneLoop, Following, probes
<1>6. overlap' = "none" => Probing'
  BY <1>1, <1>3, <1>5, OneJobAtWork DEF Idle
<1>7. QED
  BY <1>2, <1>4, <1>6 DEF InForceInv

(* What a step of a job does to that job and leaves alone. *)
LEMMA StepFacts ==
  ASSUME IInv, NEW j \in Jobs, Step(j)
  PROVE  /\ phase' = phase /\ overlap' = overlap /\ UNCHANGED files
         /\ \A k \in Jobs : k # j => job'[k] = job[k]
         /\ job'[j].bytes = job[j].bytes /\ job'[j].meta = job[j].meta
         /\ \/ /\ Apply(j) /\ job[j].pc = "apply" /\ UNCHANGED probes
               /\ \/ /\ job'[j].pc = "detach"
                     /\ snapshot' = [bytes |-> job[j].bytes, meta |-> job[j].meta]
                  \/ job'[j].pc = "refused" /\ snapshot' = snapshot
            \/ /\ Detach(j) /\ job[j].pc = "detach" /\ job'[j].pc = "probe"
               /\ snapshot' = snapshot /\ handle' = None
            \/ /\ Probe(j) /\ job[j].pc = "probe" /\ job'[j].pc = AfterProbe(j)
               /\ snapshot' = snapshot
<1>1. job \in [Jobs -> Job] /\ job[j] \in Job
  BY IInvFacts
<1>2. CASE Apply(j)
  BY <1>1, <1>2 DEF Apply, Goto, Job
<1>3. CASE Detach(j)
  BY <1>1, <1>3 DEF Detach, Job
<1>4. CASE Probe(j)
  BY <1>1, <1>4 DEF Probe, Job
<1>5. QED
  BY <1>2, <1>3, <1>4 DEF Step

(* The probe loop that a job starts is the one for the snapshot it has put. *)
LEMMA ProbeFollows ==
  ASSUME None \notin Loop \cup Labelled, IInv, NEW j \in Jobs, Probe(j), OneLoop, handle = None,
         snapshot = [bytes |-> job[j].bytes, meta |-> job[j].meta], snapshot' = snapshot,
         job[j].bytes \in Snapshots, job[j].meta \in Snapshots
  PROVE  OneLoop' /\ Following'
<1>1. loops \in [LoopIds -> Loop \cup {None}] /\ snapshot # None
  BY IInvFacts DEF Labelled
<1>2. CASE job[j].bytes \in Probed
  <2> DEFINE new == [snap |-> job[j].bytes, cancelled |-> FALSE]
  <2>1. PICK l \in FreeLoops : handle' = l /\ loops' = [loops EXCEPT ![l] = new]
    BY <1>2, FreeLoopTaken
  <2>2. l \in LoopIds /\ l # None
    BY <2>1, SnapshotAssumption DEF FreeLoops
  <2>3. /\ loops'[l] = new /\ \A m \in LoopIds : m # l => loops'[m] = loops[m]
    BY <1>1, <2>1, <2>2
  <2>4. OneLoop'
    BY <2>1, <2>2, <2>3, SnapshotAssumption DEF OneLoop
  <2>5. Following'
    BY <1>1, <1>2, <2>1, <2>2, <2>3 DEF Following
  <2>6. QED
    BY <2>4, <2>5
<1>3. CASE job[j].bytes \notin Probed
  <2>1. UNCHANGED probes
    BY <1>3 DEF Probe
  <2>2. QED
    BY <1>1, <1>3, <2>1 DEF probes, OneLoop, Following
<1>4. QED
  BY <1>2, <1>3

(* A job swaps the snapshot, stops the old probe loop, starts a new one. *)
LEMMA StepInForce ==
  ASSUME None \notin Loop \cup Labelled, IInv, InForceInv, NEW j \in Jobs, Step(j)
  PROVE  InForceInv'
<1>1. /\ job \in [Jobs -> Job] /\ Phases
      /\ loops \in [LoopIds -> Loop \cup {None}] /\ handle \in LoopIds \cup {None}
  BY IInvFacts DEF InForceInv
<1>2. /\ phase' = phase /\ overlap' = overlap /\ UNCHANGED files
      /\ \A k \in Jobs : k # j => job'[k] = job[k]
      /\ job'[j].bytes = job[j].bytes /\ job'[j].meta = job[j].meta
      /\ job[j].pc \in {"apply", "detach", "probe"}
      /\ job'[j].pc \in {"detach", "refused", "probe", AfterProbe(j)}
  BY StepFacts
<1>3. job[j] # Idle /\ job'[j] # Idle
  BY <1>2 DEF Idle, AfterProbe
<1>4. Phases'
  BY <1>1, <1>2, <1>3, PhasesKept
<1>5. ASSUME overlap # "now"
      PROVE  (\A k \in Jobs : k # j => job'[k] = Idle) /\ Kept(j)'
  <2>1. (\A k \in Jobs : k # j => job[k] = Idle) /\ Kept(j)
    BY <1>3, <1>5, Alone
  <2>2. CASE job'[j].pc = "detach" /\ snapshot' = [bytes |-> job[j].bytes, meta |-> job[j].meta]
    BY <1>2, <2>1, <2>2 DEF Kept
  <2>3. CASE job'[j].pc = "refused"
    BY <1>2, <2>1, <2>3 DEF Kept, Carrying
  <2>4. CASE job[j].pc = "detach" /\ job'[j].pc = "probe" /\ snapshot' = snapshot
    BY <1>2, <2>1, <2>4 DEF Kept, Carrying
  <2>5. CASE job[j].pc = "probe" /\ job'[j].pc = AfterProbe(j) /\ snapshot' = snapshot
    <3>1. CASE j = Boot
      BY <1>2, <2>1, <2>5, <3>1, SnapshotAssumption DEF Kept, Carrying, AfterProbe
    <3>2. CASE j # Boot
      BY <1>2, <2>1, <2>5, <3>2 DEF Kept, Carrying, AfterProbe
    <3>3. QED
      BY <3>1, <3>2
  <2>6. QED
    BY <1>2, <2>1, <2>2, <2>3, <2>4, <2>5, StepFacts
<1>6. ASSUME overlap = "none"
      PROVE  /\ OneLoop'
             /\ job'[j].pc = "probe" => handle' = None
             /\ job'[j].pc \notin {"detach", "probe"} => Following'
  <2>1. Probing /\ Kept(j)
    BY <1>3, <1>6, Alone DEF InForceInv
  <2>2. CASE Apply(j)
    <3>1. /\ UNCHANGED probes /\ job[j].pc = "apply"
          /\ \/ job'[j].pc = "detach"
             \/ job'[j].pc = "refused" /\ snapshot' = snapshot
      BY <2>2, StepFacts DEF Apply, Detach, Probe
    <3>2. OneLoop /\ Following
      BY <1>3, <1>6, <3>1, AloneProbing
    <3>3. OneLoop'
      BY <3>1, <3>2 DEF OneLoop, probes
    <3>4. snapshot' = snapshot => Following'
      BY <3>1, <3>2 DEF Following, probes
    <3>5. QED
      BY <3>1, <3>3, <3>4
  <2>3. CASE Detach(j)
    <3>1. job'[j].pc = "probe" /\ handle' = None
      BY <2>3, StepFacts DEF Apply, Detach, Probe
    <3>2. OneLoop'
      <4>1. CASE handle = None
        BY <2>1, <2>3, <4>1 DEF Detach, Probing, OneLoop
      <4>2. CASE handle # None
        <5>1. /\ handle \in LoopIds /\ loops[handle] \in Loop
              /\ loops' = [loops EXCEPT ![handle].cancelled = TRUE]
          BY <1>1, <2>3, <4>2, IInvFacts DEF Detach
        <5>2. loops'[handle].cancelled /\ \A l \in LoopIds : l # handle => loops'[l] = loops[l]
          BY <1>1, <5>1 DEF Loop
        <5>3. OneLoop
          BY <2>1 DEF Probing
        <5>4. QED
          BY <5>2, <5>3 DEF OneLoop
      <4>3. QED
        BY <4>1, <4>2
    <3>3. QED
      BY <3>1, <3>2
  <2>4. CASE Probe(j)
    <3>1. job[j].pc = "probe" /\ job'[j].pc = AfterProbe(j) /\ snapshot' = snapshot
      BY <2>4, StepFacts DEF Apply, Detach, Probe
    <3>2. handle = None /\ OneLoop
      BY <2>1, <3>1 DEF Probing
    <3>3. snapshot = [bytes |-> job[j].bytes, meta |-> job[j].meta]
      BY <2>1, <3>1 DEF Kept, Carrying
    <3>4. job[j].bytes \in Snapshots /\ job[j].meta \in Snapshots
      BY <3>1, IInvFacts, SnapshotAssumption DEF Carrying, Accepts
    <3>5. OneLoop' /\ Following'
      BY <2>4, <3>1, <3>2, <3>3, <3>4, ProbeFollows
    <3>6. job'[j].pc # "probe"
      BY <3>1 DEF AfterProbe
    <3>7. QED
      BY <3>5, <3>6
  <2>5. QED
    BY <2>2, <2>3, <2>4 DEF Step
<1>7. overlap' # "now" => OneJob' /\ \A k \in Jobs : Kept(k)'
  BY <1>2, <1>5, OneJobAtWork
<1>8. overlap' = "none" => Probing'
  BY <1>2, <1>5, <1>6, OneJobAtWork
<1>9. QED
  BY <1>4, <1>7, <1>8 DEF InForceInv

(* A call alone at work writes and renames its own files, or fails to. *)
LEMMA SaveKept ==
  ASSUME None \notin Loop \cup Labelled, IInv, NEW j \in Calls, Save(j), Kept(j)
  PROVE  Kept(j)'
<1>1. /\ job \in [Jobs -> Job] /\ j \in Jobs /\ job[j] \in Job
      /\ job[j].pc \in Carrying /\ job[j].pc \in SaveSteps
  BY IInvFacts DEF Jobs, Save, WritePayload, RenamePayload, WriteMeta, RenameMeta, SaveSteps, Carrying
<1>2. snapshot' = snapshot /\ job'[j].bytes = job[j].bytes /\ job'[j].meta = job[j].meta
  BY <1>1 DEF Save, WritePayload, RenamePayload, WriteMeta, RenameMeta, Goto, Job
<1>3. /\ job[j].bytes # None /\ job[j].meta # None
      /\ snapshot = [bytes |-> job[j].bytes, meta |-> job[j].meta]
  <2>1. Accepts(job[j].bytes, job[j].meta)
    BY <1>1, IInvFacts
  <2>2. QED
    BY <1>1, <2>1, SnapshotAssumption DEF Accepts, Kept
<1>4. CASE job'[j].pc = "unsaved"
  BY <1>2, <1>3, <1>4 DEF Kept, Carrying
<1>5. CASE WritePayload(j) /\ job'[j].pc # "unsaved"
  <2>1. job'[j].pc = "renamePayload" /\ payloadTmp' = job[j].bytes
    BY <1>1, <1>5 DEF WritePayload, Goto, Job
  <2>2. QED
    BY <1>2, <1>3, <2>1 DEF Kept
<1>6. CASE RenamePayload(j) /\ job'[j].pc # "unsaved"
  <2>1. payloadTmp = job[j].bytes
    BY <1>6 DEF RenamePayload, Kept
  <2>2. job'[j].pc = "writeMeta" /\ payloadFile' = job[j].bytes
    BY <1>1, <1>3, <1>6, <2>1 DEF RenamePayload, Goto, Job
  <2>3. QED
    BY <1>2, <1>3, <2>2 DEF Kept
<1>7. CASE WriteMeta(j) /\ job'[j].pc # "unsaved"
  <2>1. /\ job'[j].pc = "renameMeta" /\ metaTmp' = job[j].meta
        /\ job[j].pc = "writeMeta" /\ payloadFile' = payloadFile
    BY <1>1, <1>7 DEF WriteMeta, Goto, Job
  <2>2. payloadFile' = job[j].bytes
    BY <2>1 DEF Kept
  <2>3. QED
    BY <1>2, <1>3, <2>1, <2>2 DEF Kept
<1>8. CASE RenameMeta(j) /\ job'[j].pc # "unsaved"
  <2>1. metaTmp = job[j].meta /\ payloadFile = job[j].bytes
    BY <1>8 DEF RenameMeta, Kept
  <2>2. /\ job'[j].pc = "applied" /\ metaFile' = job[j].meta /\ payloadFile' = payloadFile
    BY <1>1, <1>3, <1>8, <2>1 DEF RenameMeta, Goto, Job
  <2>3. QED
    BY <1>2, <1>3, <2>1, <2>2 DEF Kept
<1>9. QED
  BY <1>4, <1>5, <1>6, <1>7, <1>8 DEF Save

LEMMA SaveInForce ==
  ASSUME None \notin Loop \cup Labelled, IInv, InForceInv, NEW j \in Calls, Save(j)
  PROVE  InForceInv'
<1>1. job \in [Jobs -> Job] /\ j \in Jobs /\ job[j] \in Job /\ Phases
  BY IInvFacts DEF InForceInv, Jobs
<1>2. job[j].pc \in SaveSteps /\ job'[j].pc \in SaveSteps \cup {"applied", "unsaved"}
  BY <1>1 DEF Save, WritePayload, RenamePayload, WriteMeta, RenameMeta, SaveSteps, Goto, Job
<1>3. /\ phase' = phase /\ overlap' = overlap /\ snapshot' = snapshot /\ UNCHANGED probes
      /\ \A k \in Jobs : k # j => job'[k] = job[k]
  BY <1>1 DEF Save, WritePayload, RenamePayload, WriteMeta, RenameMeta, Goto
<1>4. job[j] # Idle /\ job'[j] # Idle /\ job[j].pc \notin {"detach", "probe"}
      /\ job'[j].pc # "probe"
  BY <1>2 DEF Idle, SaveSteps
<1>5. Phases'
  BY <1>1, <1>3, <1>4, PhasesKept
<1>6. ASSUME overlap # "now"
      PROVE  (\A k \in Jobs : k # j => job'[k] = Idle) /\ Kept(j)'
  BY <1>1, <1>3, <1>4, <1>6, Alone, SaveKept
<1>7. ASSUME overlap = "none" PROVE OneLoop' /\ Following'
  <2>1. OneLoop /\ Following
    BY <1>1, <1>4, <1>7, AloneProbing
  <2>2. QED
    BY <1>3, <2>1 DEF OneLoop, Following, probes
<1>8. overlap' # "now" => OneJob' /\ \A k \in Jobs : Kept(k)'
  BY <1>1, <1>3, <1>6, OneJobAtWork
<1>9. overlap' = "none" => Probing'
  BY <1>1, <1>3, <1>4, <1>6, <1>7, OneJobAtWork
<1>10. QED
  BY <1>5, <1>8, <1>9 DEF InForceInv

(* A cancelled loop is not the one with the handle. *)
LEMMA LoopEndsInForce ==
  ASSUME IInv, InForceInv, NEW l \in LoopIds, LoopEnds(l)
  PROVE  InForceInv'
<1>1. /\ loops[l].cancelled /\ loops' = [loops EXCEPT ![l] = None]
      /\ UNCHANGED <<phase, snapshot, job, handle, files, overlap>>
  BY DEF LoopEnds
<1>2. /\ loops'[l] = None /\ \A m \in LoopIds : m # l => loops'[m] = loops[m]
      /\ handle \in LoopIds \cup {None} /\ handle # l
  BY <1>1, IInvFacts, SnapshotAssumption
<1>3. OneLoop => OneLoop'
  BY <1>1, <1>2 DEF OneLoop
<1>4. Following => Following'
  BY <1>1, <1>2 DEF Following
<1>5. Probing => Probing'
  BY <1>1, <1>3, <1>4 DEF Probing, Restarting
<1>6. Phases' /\ (OneJob => OneJob')
  BY <1>1 DEF InForceInv, Phases, OneJob
<1>7. ASSUME NEW j \in Jobs, Kept(j) PROVE Kept(j)'
  BY <1>1, <1>7 DEF Kept, files
<1>8. QED
  BY <1>1, <1>5, <1>6, <1>7 DEF InForceInv

LEMMA CrashInForce == Crash => InForceInv'
<1> SUFFICES ASSUME Crash PROVE InForceInv'
  OBVIOUS
<1>1. \A j \in Jobs : job'[j] = Idle /\ job'[j].pc = "idle"
  BY DEF Crash, Idle
<1>2. Phases' /\ OneJob' /\ \A j \in Jobs : Kept(j)'
  BY <1>1 DEF Crash, Phases, OneJob, Jobs, Kept, Carrying
<1>3. OneLoop' /\ Following'
  BY DEF Crash, OneLoop, Following
<1>4. Probing'
  BY <1>1, <1>3 DEF Probing
<1>5. QED
  BY <1>2, <1>4 DEF InForceInv

LEMMA NextInForce ==
  ASSUME None \notin Loop \cup Labelled
  PROVE  IInv /\ InForceInv /\ [Next]_vars => InForceInv'
<1> SUFFICES ASSUME IInv, InForceInv, [Next]_vars PROVE InForceInv'
  OBVIOUS
<1>1. CASE Start \/ Restore
  BY <1>1, RestoreInForce
<1>2. ASSUME NEW j \in Calls, NEW s \in Snapshots, Receive(j, s) PROVE InForceInv'
  BY <1>2, ReceiveInForce
<1>3. ASSUME NEW j \in Jobs, Step(j) PROVE InForceInv'
  BY <1>3, StepInForce
<1>4. ASSUME NEW j \in Calls, Save(j) PROVE InForceInv'
  BY <1>4, SaveInForce
<1>5. ASSUME NEW j \in Calls, Reply(j) PROVE InForceInv'
  BY <1>5, ReplyInForce
<1>6. ASSUME NEW l \in LoopIds, LoopEnds(l) PROVE InForceInv'
  BY <1>6, LoopEndsInForce
<1>7. CASE Crash
  BY <1>7, CrashInForce
<1>8. CASE UNCHANGED vars
  BY <1>8 DEF vars, InForceInv, Phases, OneJob, Probing, Kept, OneLoop, Following, Restarting
<1>9. QED
  BY <1>1, <1>2, <1>3, <1>4, <1>5, <1>6, <1>7, <1>8 DEF Next

(* With any number of calls, also before the restore has ended, and with file *)
(* operations that fail: unless the last call to arrive overlapped another    *)
(* job, an answer says that the snapshot is in memory, and on disk if its     *)
(* persist did not fail; and as long as no calls have overlapped in this      *)
(* process, exactly the loop runs uncancelled, between two restarts of the    *)
(* probes, that the snapshot in force asks for.                               *)
THEOREM AnswerIsInForce ==
  ASSUME None \notin Loop \cup Labelled
  PROVE  Spec => []AppliedIsInForce
<1>1. IInv /\ InForceInv /\ [Next]_vars => InForceInv'
  BY NextInForce
<1>2. IInv /\ InForceInv => AppliedIsInForce
  <2> SUFFICES ASSUME IInv, InForceInv PROVE AppliedIsInForce
    OBVIOUS
  <2>1. ASSUME overlap # "now" PROVE AppliedIsDurable
    BY <2>1 DEF InForceInv, Kept, AppliedIsDurable, Jobs
  <2>2. ASSUME overlap = "none" PROVE ProbesFollowSnapshot
    <3> SUFFICES ASSUME ~Restarting PROVE ProbesFollowSnapshot!2
      BY DEF ProbesFollowSnapshot
    <3>1. Following /\ OneLoop
      BY <2>2 DEF InForceInv, Probing
    <3>2. /\ handle \in LoopIds \cup {None}
          /\ handle # None => loops[handle] \in Loop /\ ~loops[handle].cancelled
      BY IInvFacts
    <3>3. handle # None => Alive = {handle}
      BY <3>1, <3>2 DEF OneLoop, Alive
    <3>4. handle = None => Alive = {}
      BY <3>1, SnapshotAssumption DEF OneLoop, Alive
    <3>5. QED
      BY <3>1, <3>2, <3>3, <3>4 DEF Following
  <2>3. QED
    BY <2>1, <2>2 DEF AppliedIsInForce
<1>3. QED
  BY <1>1, <1>2, InitInForce, SnapshotInvariance, PTL DEF Spec

=============================================================================
