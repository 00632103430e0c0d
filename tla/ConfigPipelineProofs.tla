------------------------- MODULE ConfigPipelineProofs -------------------------
(***************************************************************************)
(* Proofs about the pipeline: the publisher and gatewayd, put together by  *)
(* controld's goroutines, keep the specifications and with them every      *)
(* proved property they have apart.  And gatewayd serves what controld's   *)
(* ledger says, for any number of configs, revisions, edits, requests,     *)
(* overlapping calls and crashes of either daemon, unless the last call it *)
(* has received overlapped another one or the restore of its snapshot.     *)
(***************************************************************************)
EXTENDS ConfigPipeline, TLAPS

(* The theorems about the two components. *)
PP == INSTANCE PublisherProofs WITH
        LegacyConfigs <- {}, GatewayConfigured <- TRUE, SavesMayFail <- FALSE
GG == INSTANCE GatewaySnapshotProofs WITH
        Snapshots <- Configs, GoodBody <- Configs, GoodSchema <- Configs,
        Probed <- {}, LoopIds <- {}

(* What those theorems assume of the constants. *)
LEMMA ComponentAssumptions == PP!ConfigAssumption /\ GG!SnapshotAssumption
<1>1. PP!ConfigAssumption
  BY PipelineAssumption DEF PP!ConfigAssumption
<1>2. GG!SnapshotAssumption
  BY PipelineAssumption DEF GG!SnapshotAssumption
<1>3. QED
  BY <1>1, <1>2

(* PublisherProofs and GatewaySnapshotProofs extend the modules the pipeline *)
(* instantiates: both names of a definition mean the same.                   *)
LEMMA SamePublisher ==
  /\ P!Init <=> PP!Init
  /\ P!Next <=> PP!Next
  /\ (UNCHANGED P!vars) <=> (UNCHANGED PP!vars)
  /\ \A id, kind : P!BeginPublish(id, kind) <=> PP!BeginPublish(id, kind)
<1>1. P!Init <=> PP!Init
  BY DEF P!Init, PP!Init, P!EmptyMemory, PP!EmptyMemory, P!Image, PP!Image,
         P!SeedRevision, PP!SeedRevision
<1>2. P!LoadState <=> PP!LoadState
  BY DEF P!LoadState, PP!LoadState, P!Stored, PP!Stored, P!Restorable, PP!Restorable,
         P!DistinctIds, PP!DistinctIds, P!FindRevision, PP!FindRevision,
         P!PolicyOf, PP!PolicyOf, P!Trim, PP!Trim
<1>3. \A c : P!SeedInitialRevision(c) <=> PP!SeedInitialRevision(c)
  BY DEF P!SeedInitialRevision, PP!SeedInitialRevision, P!Stored, PP!Stored,
         P!SeedRevision, PP!SeedRevision, P!Image, PP!Image
<1>4. \A c : P!UpsertRevision(c) <=> PP!UpsertRevision(c)
  BY DEF P!UpsertRevision, PP!UpsertRevision, P!UpsertRevisions, PP!UpsertRevisions,
         P!FindRevision, PP!FindRevision, P!SeedRevision, PP!SeedRevision,
         P!PolicyOf, PP!PolicyOf, P!Trim, PP!Trim, P!Persist, PP!Persist, P!Image, PP!Image
<1>5. \A id, kind : P!BeginPublish(id, kind) <=> PP!BeginPublish(id, kind)
  BY DEF P!BeginPublish, PP!BeginPublish, P!Stage, PP!Stage, P!FindRevision, PP!FindRevision,
         P!Trim, PP!Trim, P!Persist, PP!Persist, P!Image, PP!Image
<1>6. \A c, id : P!BeginUpdate(c, id) <=> PP!BeginUpdate(c, id)
  BY DEF P!BeginUpdate, PP!BeginUpdate, P!Stage, PP!Stage, P!FindRevision, PP!FindRevision,
         P!Trim, PP!Trim, P!Persist, PP!Persist, P!Image, PP!Image
<1>7. P!Observed <=> PP!Observed
  BY DEF P!Observed, PP!Observed, P!PolicyOf, PP!PolicyOf, P!MarkLast, PP!MarkLast,
         P!Trim, PP!Trim, P!Persist, PP!Persist, P!Image, PP!Image
<1>8. P!Failed <=> PP!Failed
  BY DEF P!Failed, PP!Failed, P!MarkLast, PP!MarkLast, P!Persist, PP!Persist, P!Image, PP!Image
<1>9. ~P!NoGateway /\ ~PP!NoGateway
  BY DEF P!NoGateway, PP!NoGateway
<1>10. P!Crash <=> PP!Crash
  BY DEF P!Crash, PP!Crash
<1>11. P!FreshIds = PP!FreshIds /\ P!Kinds = PP!Kinds
  BY DEF P!FreshIds, PP!FreshIds, P!Kinds, PP!Kinds
<1>12. P!Next <=> PP!Next
  BY <1>2, <1>3, <1>4, <1>5, <1>6, <1>7, <1>8, <1>9, <1>10, <1>11 DEF P!Next, PP!Next
<1>13. (UNCHANGED P!vars) <=> (UNCHANGED PP!vars)
  BY DEF P!vars, PP!vars
<1>14. QED
  BY <1>1, <1>5, <1>12, <1>13

-----------------------------------------------------------------------------
(* The inductive invariant: that of the publisher, and what the goroutines   *)
(* bring to its operations.  A revision that was picked and a config that was *)
(* read are ones the publisher knows, whatever happened to the ledger since;  *)
(* a goroutine works only while controld runs.                               *)

ThreadOK(t) ==
  /\ thread[t].pc = "picked" => thread[t].arg \in RevIds
  /\ thread[t].pc = "upsert" => thread[t].arg \in Configs
  /\ thread[t].pc # "off" => up

Links ==
  /\ DOMAIN thread = Threads
  /\ \A t \in Threads : ThreadOK(t)
  /\ call \in Calls \cup {None}

IInv == PP!IInv /\ PP!ActiveInv /\ Links

(* A goroutine moves on. *)
LEMMA SetLinks ==
  ASSUME Links, NEW t, NEW pc, NEW arg, Set(t, pc, arg),
         up => up', pc # "off" => up',
         pc = "picked" => arg \in RevIds, pc = "upsert" => arg \in Configs,
         call' \in Calls \cup {None}
  PROVE  Links'
<1>1. DOMAIN thread' = Threads
  BY DEF Set, Links
<1>2. ASSUME NEW u \in Threads PROVE ThreadOK(u)'
  <2>1. ThreadOK(u)
    BY DEF Links
  <2>2. thread'[u] = IF u = t THEN [pc |-> pc, arg |-> arg] ELSE thread[u]
    BY DEF Set, Links
  <2>3. QED
    BY <2>1, <2>2 DEF ThreadOK
<1>3. QED
  BY <1>1, <1>2 DEF Links

(* No goroutine moves. *)
LEMMA SameLinks ==
  ASSUME Links, UNCHANGED thread, up => up', call' \in Calls \cup {None}
  PROVE  Links'
  BY DEF Links, ThreadOK

(* The active revision has an identifier. *)
LEMMA ActiveIds ==
  ASSUME PP!IInv, PP!ActiveInv, up
  PROVE  revisions[active].id \in RevIds
<1>1. active \in 1..Len(revisions) /\ revisions \in Seq(PP!Revision)
  BY DEF PP!IInv, PP!TypeOK, PP!ActiveInv
<1>2. revisions[active] \in PP!Revision
  BY <1>1
<1>3. QED
  BY <1>2 DEF PP!Revision

LEMMA ActiveIdsNext ==
  ASSUME PP!IInv', PP!ActiveInv', up'
  PROVE  revisions'[active'].id \in RevIds
<1>1. active' \in 1..Len(revisions') /\ revisions' \in Seq(PP!Revision)
  BY DEF PP!IInv, PP!TypeOK, PP!ActiveInv
<1>2. revisions'[active'] \in PP!Revision
  BY <1>1
<1>3. QED
  BY <1>2 DEF PP!Revision

-----------------------------------------------------------------------------
(* Every step of the pipeline is a step of the publisher, or leaves it alone. *)

LEMMA WorkPublishes ==
  ASSUME Links, NEW t \in Threads, Work(t)
  PROVE  P!Next \/ UNCHANGED pubVars
<1>1. CASE Publish(t)
  <2>1. thread[t].arg \in RevIds /\ P!BeginPublish(thread[t].arg, "publish")
    BY <1>1 DEF Publish, Links, ThreadOK
  <2>2. "publish" \in P!Kinds
    BY DEF P!Kinds
  <2>3. QED
    BY <2>1, <2>2 DEF P!Next
<1>2. CASE PublishRefused(t) \/ Pick(t) \/ ReadFile(t)
  BY <1>2 DEF PublishRefused, Pick, ReadFile
<1>3. CASE Reload(t)
  <2>1. thread[t].arg \in Configs /\ P!UpsertRevision(thread[t].arg)
    BY <1>3 DEF Reload, Links, ThreadOK
  <2>2. QED
    BY <2>1 DEF P!Next
<1>4. QED
  BY <1>1, <1>2, <1>3 DEF Work

LEMMA StepPublishes == Links /\ [Next]_vars => [P!Next]_(P!vars)
<1> SUFFICES ASSUME Links, [Next]_vars PROVE P!Next \/ UNCHANGED pubVars
  BY DEF P!vars, pubVars
<1>1. CASE ControlStart
  BY <1>1 DEF ControlStart, P!Next
<1>2. CASE ControlRun
  BY <1>2 DEF ControlRun
<1>3. ASSUME NEW t \in Threads, Work(t) PROVE P!Next \/ UNCHANGED pubVars
  BY <1>3, WorkPublishes
<1>4. CASE Answer \/ NoAnswer
  BY <1>4 DEF Answer, NoAnswer, P!Next
<1>5. CASE WriteFile \/ Upkeep \/ Bootstrap \/ CheckFile
  BY <1>5 DEF WriteFile, Upkeep, MaintainReadiness, Disconnect, Dial, Bootstrap, CheckFile
<1>6. ASSUME NEW id \in RevIds, NEW kind \in P!Kinds, AdminPublish(id, kind)
      PROVE  P!Next \/ UNCHANGED pubVars
  BY <1>6 DEF AdminPublish, P!Next
<1>7. ASSUME NEW c \in Configs, NEW id \in P!FreshIds, AdminUpdate(c, id)
      PROVE  P!Next \/ UNCHANGED pubVars
  BY <1>7 DEF AdminUpdate, P!Next
<1>8. CASE AdminReload \/ (\E content \in Configs \cup {Malformed} : EditFile(content))
  BY <1>8 DEF AdminReload, EditFile
<1>9. CASE ControlCrash
  BY <1>9 DEF ControlCrash, P!Next
<1>10. CASE GatewayCrash \/ GatewayStart \/ GatewayRestore
  BY <1>10 DEF GatewayCrash, GatewayStart, GatewayRestore, Own
<1>11. CASE \E j \in Calls \cup {Boot} : GatewayStep(j)
  BY <1>11 DEF GatewayStep, Own
<1>12. CASE \E j \in Calls : GatewaySave(j) \/ AbandonedReply(j)
  BY <1>12 DEF GatewaySave, AbandonedReply, Own
<1>13. CASE UNCHANGED vars
  BY <1>13 DEF vars
<1>14. QED
  BY <1>1, <1>2, <1>3, <1>4, <1>5, <1>6, <1>7, <1>8, <1>9, <1>10, <1>11, <1>12, <1>13
  DEF Next

-----------------------------------------------------------------------------
(* The same for gatewayd; what it is sent is a config.                       *)

LEMMA SentConfig ==
  ASSUME PP!IInv, NEW id \in RevIds, NEW kind, PP!BeginPublish(id, kind)
  PROVE  inflight'.snap \in Configs
<1> DEFINE i == PP!FindRevision(revisions, id)
           rev == revisions[i]
<1>1. revisions \in Seq(PP!Revision)
  BY DEF PP!IInv, PP!TypeOK
<1>2. i \in 1..Len(revisions)
  BY <1>1 DEF PP!BeginPublish, PP!FindRevision
<1>3. rev \in PP!Revision
  BY <1>1, <1>2
<1>4. rev.config \in Configs /\ (rev.snap # None => rev.snap \in Configs)
  BY <1>3 DEF PP!Revision
<1>5. inflight'.snap = IF rev.snap # None THEN rev.snap ELSE rev.config
  BY DEF PP!BeginPublish, PP!Stage
<1>6. QED
  BY <1>4, <1>5

LEMMA SendReaches ==
  ASSUME NEW t, Send(t), inflight'.snap \in Configs
  PROVE  G!Next \/ UNCHANGED gwVars
  BY DEF Send, G!Next

LEMMA PublishReaches ==
  ASSUME PP!IInv, NEW id \in RevIds, NEW kind, P!BeginPublish(id, kind), NEW t, Send(t)
  PROVE  G!Next \/ UNCHANGED gwVars
<1>1. PP!BeginPublish(id, kind)
  BY SamePublisher
<1>2. QED
  BY <1>1, SentConfig, SendReaches

LEMMA StepApplies == IInv /\ [Next]_vars => [G!Next]_(G!vars)
<1> SUFFICES ASSUME IInv, [Next]_vars PROVE G!Next \/ UNCHANGED gwVars
  BY DEF G!vars, gwVars
<1> USE DEF IInv
<1>1. CASE ControlStart \/ ControlRun
  BY <1>1 DEF ControlStart, ControlRun
<1>2. ASSUME NEW t \in Threads, Work(t) PROVE G!Next \/ UNCHANGED gwVars
  <2>1. CASE Publish(t)
    <3>1. thread[t].arg \in RevIds
      BY <2>1 DEF Publish, Links, ThreadOK
    <3>2. P!BeginPublish(thread[t].arg, "publish") /\ Send(t)
      BY <2>1 DEF Publish
    <3>3. QED
      BY <3>1, <3>2, PublishReaches
  <2>2. CASE PublishRefused(t) \/ Pick(t) \/ ReadFile(t) \/ Reload(t)
    BY <2>2 DEF PublishRefused, Pick, ReadFile, Reload
  <2>3. QED
    BY <1>2, <2>1, <2>2 DEF Work
<1>3. CASE Answer
  <2>1. call \in Calls /\ G!Reply(call)
    BY <1>3 DEF Answer, Links
  <2>2. QED
    BY <2>1 DEF G!Next
<1>4. CASE NoAnswer
  BY <1>4 DEF NoAnswer
<1>5. CASE WriteFile \/ Upkeep \/ Bootstrap \/ CheckFile
  BY <1>5 DEF WriteFile, Upkeep, MaintainReadiness, Disconnect, Dial, Bootstrap, CheckFile
<1>6. ASSUME NEW id \in RevIds, NEW kind \in P!Kinds, AdminPublish(id, kind)
      PROVE  G!Next \/ UNCHANGED gwVars
  BY <1>6, PublishReaches DEF AdminPublish
<1>7. ASSUME NEW c \in Configs, NEW id \in P!FreshIds, AdminUpdate(c, id)
      PROVE  G!Next \/ UNCHANGED gwVars
  <2>1. P!BeginUpdate(c, id) /\ Send("admin")
    BY <1>7 DEF AdminUpdate
  <2>2. inflight'.snap = c
    BY <2>1 DEF P!BeginUpdate, P!Stage
  <2>3. QED
    BY <2>1, <2>2, SendReaches
<1>8. CASE AdminReload \/ (\E content \in Configs \cup {Malformed} : EditFile(content))
  BY <1>8 DEF AdminReload, EditFile
<1>9. CASE ControlCrash
  BY <1>9 DEF ControlCrash
<1>10. CASE GatewayCrash \/ GatewayStart \/ GatewayRestore
  BY <1>10 DEF GatewayCrash, GatewayStart, GatewayRestore, G!Next
<1>11. ASSUME NEW j \in Calls \cup {Boot}, GatewayStep(j) PROVE G!Next \/ UNCHANGED gwVars
  BY <1>11 DEF GatewayStep, G!Next, G!Jobs
<1>12. ASSUME NEW j \in Calls, GatewaySave(j) \/ AbandonedReply(j)
       PROVE  G!Next \/ UNCHANGED gwVars
  BY <1>12 DEF GatewaySave, AbandonedReply, G!Next
<1>13. CASE UNCHANGED vars
  BY <1>13 DEF vars
<1>14. QED
  BY <1>1, <1>2, <1>3, <1>4, <1>5, <1>6, <1>7, <1>8, <1>9, <1>10, <1>11, <1>12, <1>13
  DEF Next

(* The gateway the pipeline instantiates is the one its theorems are about.  *)
LEMMA SameGateway ==
  /\ G!Init <=> GG!Init
  /\ G!Next <=> GG!Next
  /\ (UNCHANGED G!vars) <=> (UNCHANGED GG!vars)
<1>1. G!Init <=> GG!Init
  BY DEF G!Init, GG!Init, G!Jobs, GG!Jobs, G!Idle, GG!Idle
<1>2. G!Start <=> GG!Start
  BY DEF G!Start, GG!Start, G!probes, GG!probes, G!files, GG!files
<1>3. G!Restore <=> GG!Restore
  BY DEF G!Restore, GG!Restore, G!ReadPayload, GG!ReadPayload, G!ReadMeta, GG!ReadMeta,
         G!Serve, GG!Serve, G!probes, GG!probes, G!files, GG!files, G!Idle, GG!Idle
<1>4. \A j, s : G!Receive(j, s) <=> GG!Receive(j, s)
  <2>1. G!Busy = GG!Busy
    BY DEF G!Busy, GG!Busy, G!Jobs, GG!Jobs, G!Idle, GG!Idle
  <2>2. \A s : s \notin {}
    OBVIOUS
  <2>3. QED
    BY <2>1, <2>2
    DEF G!Receive, GG!Receive, G!probes, GG!probes, G!files, GG!files, G!Idle, GG!Idle
<1>5. \A j : G!Step(j) <=> GG!Step(j)
  <2>1. \A j : G!Apply(j) <=> GG!Apply(j)
    BY DEF G!Apply, GG!Apply, G!Accepts, GG!Accepts, G!Goto, GG!Goto, G!probes, GG!probes,
           G!files, GG!files
  <2>2. \A j : G!Detach(j) <=> GG!Detach(j)
    BY DEF G!Detach, GG!Detach, G!files, GG!files
  <2>3. \A j : G!Probe(j) <=> GG!Probe(j)
    BY DEF G!Probe, GG!Probe, G!AfterProbe, GG!AfterProbe, G!FreeLoops, GG!FreeLoops,
           G!Jobs, GG!Jobs, G!probes, GG!probes, G!files, GG!files
  <2>4. QED
    BY <2>1, <2>2, <2>3 DEF G!Step, GG!Step
<1>6. \A j : G!Save(j) <=> GG!Save(j)
  BY DEF G!Save, GG!Save, G!WritePayload, GG!WritePayload, G!RenamePayload, GG!RenamePayload,
         G!WriteMeta, GG!WriteMeta, G!RenameMeta, GG!RenameMeta, G!Goto, GG!Goto,
         G!probes, GG!probes
<1>7. \A j : G!Reply(j) <=> GG!Reply(j)
  BY DEF G!Reply, GG!Reply, G!probes, GG!probes, G!files, GG!files, G!Idle, GG!Idle
<1>8. G!Crash <=> GG!Crash
  BY DEF G!Crash, GG!Crash, G!files, GG!files, G!Jobs, GG!Jobs, G!Idle, GG!Idle
<1>9. (\E l \in {} : G!LoopEnds(l)) <=> (\E l \in {} : GG!LoopEnds(l))
  OBVIOUS
<1>10. G!Jobs = GG!Jobs
  BY DEF G!Jobs, GG!Jobs
<1>11. G!Next <=> GG!Next
  BY <1>2, <1>3, <1>4, <1>5, <1>6, <1>7, <1>8, <1>9, <1>10 DEF G!Next, GG!Next
<1>12. (UNCHANGED G!vars) <=> (UNCHANGED GG!vars)
  BY DEF G!vars, GG!vars
<1>13. QED
  BY <1>1, <1>11, <1>12

-----------------------------------------------------------------------------
(* The inductive invariant holds. *)

LEMMA InitIInv == Init => IInv
<1> SUFFICES ASSUME Init PROVE IInv
  OBVIOUS
<1>1. PP!IInv /\ PP!ActiveInv
  BY ComponentAssumptions, SamePublisher, PP!InitIInv, PP!InitActiveInv DEF Init
<1>2. Links
  BY DEF Init, Links, ThreadOK, Off
<1>3. QED
  BY <1>1, <1>2 DEF IInv

LEMMA PublisherStep == IInv /\ [Next]_vars => PP!IInv' /\ PP!ActiveInv'
<1> SUFFICES ASSUME IInv, [Next]_vars PROVE PP!IInv' /\ PP!ActiveInv'
  OBVIOUS
<1>1. [PP!Next]_(PP!vars)
  BY StepPublishes, SamePublisher DEF IInv
<1>2. QED
  BY <1>1, ComponentAssumptions, PP!NextIInv, PP!NextActiveInv DEF IInv

(* Only what ends controld may end while one of its goroutines is at work. *)
LEMMA WorkLinks ==
  ASSUME IInv, NEW t \in Threads, Work(t)
  PROVE  Links'
<1>1. Links /\ call \in Calls \cup {None} /\ up
  BY DEF IInv, Links, ThreadOK, Work, Publish, PublishRefused, Pick, ReadFile, Reload
<1>2. CASE Publish(t)
  <2>1. up' = up /\ call' \in Calls \cup {None} /\ Set(t, "calling", None)
    BY <1>2 DEF Publish, P!BeginPublish, P!Stage, Send
  <2>2. QED
    BY <1>1, <2>1, SetLinks
<1>3. CASE PublishRefused(t)
  BY <1>1, <1>3, SetLinks DEF PublishRefused, pubVars
<1>4. CASE Pick(t)
  <2>1. revisions[active].id \in RevIds
    BY <1>1, ActiveIds DEF IInv
  <2>2. up' = up /\ call' = call
    BY <1>4 DEF Pick, pubVars
  <2>3. Set(t, "idle", None) \/ Set(t, "picked", revisions[active].id)
    BY <1>4 DEF Pick
  <2>4. QED
    BY <1>1, <2>1, <2>2, <2>3, SetLinks
<1>5. CASE ReadFile(t)
  <2>1. up' = up /\ call' = call
    BY <1>5 DEF ReadFile, pubVars
  <2>2. Set(t, "idle", None) \/ (file.content \in Configs /\ Set(t, "upsert", file.content))
    BY <1>5 DEF ReadFile
  <2>3. QED
    BY <1>1, <2>1, <2>2, SetLinks
<1>6. CASE Reload(t)
  <2>1. thread[t].arg \in Configs
    BY <1>1, <1>6 DEF Reload, Links, ThreadOK
  <2>2. HashId[thread[t].arg] \in RevIds
    BY <2>1, PipelineAssumption
  <2>3. up' = up /\ call' = call
    BY <1>6 DEF Reload, P!UpsertRevision
  <2>4. Set(t, "idle", None) \/ Set(t, "picked", HashId[thread[t].arg])
    BY <1>6 DEF Reload
  <2>5. QED
    BY <1>1, <2>2, <2>3, <2>4, SetLinks
<1>7. QED
  BY <1>2, <1>3, <1>4, <1>5, <1>6 DEF Work

LEMMA StepLinks == IInv /\ [Next]_vars => Links'
<1> SUFFICES ASSUME IInv, [Next]_vars PROVE Links'
  OBVIOUS
<1>1. Links /\ call \in Calls \cup {None}
  BY DEF IInv, Links
<1>2. CASE ControlStart
  <2>1. up' /\ call' = call
    BY <1>2 DEF ControlStart, P!LoadState, P!SeedInitialRevision
  <2>2. revisions'[active'].id \in RevIds
    BY <2>1, PublisherStep, ActiveIdsNext
  <2>3. Set("main", "picked", revisions'[active'].id) \/ Set("main", "idle", None)
    BY <1>2 DEF ControlStart
  <2>4. QED
    BY <1>1, <2>1, <2>2, <2>3, SetLinks
<1>3. CASE ControlRun
  <2>1. up /\ up' = up /\ call' = call
    BY <1>1, <1>3 DEF ControlRun, pubVars, Links, ThreadOK, Threads
  <2>2. /\ DOMAIN thread' = Threads
        /\ \A t \in Threads : thread'[t].pc \in {"off", "idle"}
    BY <1>3 DEF ControlRun, Off, Free
  <2>3. QED
    BY <1>1, <2>1, <2>2 DEF Links, ThreadOK
<1>4. ASSUME NEW t \in Threads, Work(t) PROVE Links'
  BY <1>4, WorkLinks
<1>5. CASE Answer \/ NoAnswer
  <2>1. up /\ up' = up /\ call' \in Calls \cup {None}
    BY <1>1, <1>5 DEF Answer, NoAnswer, P!Observed, P!Failed
  <2>2. Set(owner, "write", thread[owner].arg) \/ Set(owner, "idle", None)
    BY <1>5 DEF Answer, NoAnswer, AfterPublish
  <2>3. QED
    BY <1>1, <2>1, <2>2, SetLinks
<1>6. CASE WriteFile \/ Upkeep \/ Bootstrap \/ CheckFile
  <2>1. up' = up /\ call' = call
    BY <1>6 DEF WriteFile, Upkeep, MaintainReadiness, Disconnect, Dial, Bootstrap, CheckFile,
                pubVars
  <2>2. up
    BY <1>1, <1>6 DEF WriteFile, Upkeep, MaintainReadiness, Disconnect, Dial, Bootstrap,
                      CheckFile, Links, ThreadOK, Threads
  <2>3. \E t \in Threads, pc \in {"idle", "off", "dial", "republish", "reload"} :
          Set(t, pc, None)
    BY <1>6 DEF WriteFile, Upkeep, MaintainReadiness, Disconnect, Dial, Bootstrap, CheckFile,
                Threads
  <2>4. PICK t \in Threads, pc \in {"idle", "off", "dial", "republish", "reload"} :
          Set(t, pc, None)
    BY <2>3
  <2>5. QED
    BY <1>1, <2>1, <2>2, <2>4, SetLinks
<1>7. ASSUME NEW id \in RevIds, NEW kind \in P!Kinds, AdminPublish(id, kind) PROVE Links'
  <2>1. up /\ up' = up /\ call' \in Calls \cup {None} /\ Set("admin", "calling", None)
    BY <1>7 DEF AdminPublish, P!BeginPublish, P!Stage, Send
  <2>2. QED
    BY <1>1, <2>1, SetLinks
<1>8. ASSUME NEW c \in Configs, NEW id \in P!FreshIds, AdminUpdate(c, id) PROVE Links'
  <2>1. up /\ up' = up /\ call' \in Calls \cup {None} /\ Set("admin", "calling", c)
    BY <1>8 DEF AdminUpdate, P!BeginUpdate, P!Stage, Send
  <2>2. QED
    BY <1>1, <2>1, SetLinks
<1>9. CASE AdminReload
  <2>1. up /\ up' = up /\ call' = call /\ Set("admin", "reload", None)
    BY <1>1, <1>9 DEF AdminReload, pubVars, Links, ThreadOK, Threads
  <2>2. QED
    BY <1>1, <2>1, SetLinks
<1>10. CASE \E content \in Configs \cup {Malformed} : EditFile(content)
  BY <1>1, <1>10, SameLinks DEF EditFile, pubVars
<1>11. CASE ControlCrash
  BY <1>11 DEF ControlCrash, Links, ThreadOK, Off
<1>12. CASE GatewayCrash
  BY <1>1, <1>12, SameLinks DEF GatewayCrash, pubVars
<1>13. CASE GatewayStart \/ GatewayRestore
  BY <1>1, <1>13, SameLinks DEF GatewayStart, GatewayRestore, Own, pubVars
<1>14. CASE \E j \in Calls \cup {Boot} : GatewayStep(j)
  BY <1>1, <1>14, SameLinks DEF GatewayStep, Own, pubVars
<1>15. CASE \E j \in Calls : GatewaySave(j) \/ AbandonedReply(j)
  BY <1>1, <1>15, SameLinks DEF GatewaySave, AbandonedReply, Own, pubVars
<1>16. CASE UNCHANGED vars
  BY <1>1, <1>16, SameLinks DEF vars, pubVars
<1>17. QED
  BY <1>2, <1>3, <1>4, <1>5, <1>6, <1>7, <1>8, <1>9, <1>10, <1>11, <1>12, <1>13, <1>14,
     <1>15, <1>16
  DEF Next

(* The inductive invariant holds in every state of the pipeline.              *)
THEOREM PipelineInvariance == Spec => []IInv
<1>1. IInv /\ [Next]_vars => IInv'
  BY PublisherStep, StepLinks DEF IInv
<1>2. QED
  BY <1>1, InitIInv, PTL DEF Spec

-----------------------------------------------------------------------------
(* The theorems. *)

(* controld's goroutines use the publisher as it is meant to be used: every   *)
(* step of theirs, also one that a goroutine takes long after it has chosen   *)
(* its revision, is an operation of Publisher with arguments it is made for.  *)
THEOREM PipelineImplementsPublisher == Spec => ImplementsPublisher
<1>1. Init => P!Init
  BY DEF Init
<1>2. IInv /\ [Next]_vars => [P!Next]_(P!vars)
  BY StepPublishes DEF IInv
<1>3. QED
  BY <1>1, <1>2, PipelineInvariance, PTL DEF Spec, ImplementsPublisher, P!Spec

(* gatewayd, driven by controld over a connection that comes and goes, keeps  *)
(* the specification of its snapshot, with answers that nobody waits for.     *)
THEOREM PipelineImplementsGateway == Spec => ImplementsGateway
<1>1. Init => G!Init
  BY DEF Init
<1>2. IInv /\ [Next]_vars => [G!Next]_(G!vars)
  BY StepApplies
<1>3. QED
  BY <1>1, <1>2, PipelineInvariance, PTL DEF Spec, ImplementsGateway, G!Spec

(* What restoreStateLocked and validateSnapshot rely on, in the whole system: *)
(* the stored ledger can always be restored and, between publishes, is the    *)
(* one in memory, in which every published configuration can be found; and    *)
(* gatewayd never serves or keeps what validateSnapshot would refuse.         *)
THEOREM PipelineStaysRestorable == Spec => [](P!DiskSound /\ G!OnlyAccepted)
<1>1. PP!Init /\ [][PP!Next]_(PP!vars) => []PP!DiskSound
  BY ComponentAssumptions, PP!StoreIsSound DEF PP!Spec
<1>2. GG!Init /\ [][GG!Next]_(GG!vars) => []GG!OnlyAccepted
  BY ComponentAssumptions, GG!ServesOnlyAccepted DEF GG!Spec
<1>3. Init => PP!Init /\ GG!Init
  BY SamePublisher, SameGateway DEF Init
<1>4. IInv /\ [Next]_vars => [PP!Next]_(PP!vars) /\ [GG!Next]_(GG!vars)
  BY StepPublishes, StepApplies, SamePublisher, SameGateway DEF IInv
<1>5. PP!DiskSound => P!DiskSound
  BY DEF P!DiskSound, PP!DiskSound, P!DiskRestorable, PP!DiskRestorable, P!Restorable,
         PP!Restorable, P!DistinctIds, PP!DistinctIds, P!DiskIsCurrent, PP!DiskIsCurrent,
         P!Image, PP!Image, P!HistoryResolvable, PP!HistoryResolvable, P!RevisionIds,
         PP!RevisionIds
<1>6. GG!OnlyAccepted => G!OnlyAccepted
  BY DEF G!OnlyAccepted, GG!OnlyAccepted, G!Accepts, GG!Accepts
<1>7. QED
  BY <1>1, <1>2, <1>3, <1>4, <1>5, <1>6, PipelineInvariance, PTL DEF Spec

-----------------------------------------------------------------------------
(* The inductive invariant. *)

(* Until Start has returned its goroutines do not run. *)
StartsAlone ==
  thread["main"].pc # "off" => \A t \in Threads \ {"main"} : thread[t].pc = "off"

(* A connection stands only to a gatewayd that listens. *)
ConnectedRuns == conn = "up" => phase # "down"

(* What is sent is a config, and no call with one is refused. *)
CallsCarryConfigs ==
  \A j \in Calls : job[j].pc # "idle" =>
    job[j].pc # "refused" /\ job[j].bytes \in Configs /\ job[j].meta = job[j].bytes

(* A goroutine that is going to publish the active revision. *)
Pending(t) ==
  \/ thread[t].pc = "republish"
  \/ thread[t].pc = "picked" /\ thread[t].arg = revisions[active].id

SomePending == \E t \in Threads : Pending(t)

(* Nothing is under way in gatewayd, and it serves the active revision. *)
AtRest ==
  /\ \A j \in Calls \cup {Boot} : job[j].pc = "idle"
  /\ Ready => snapshot.bytes = ActiveConfig

(* While the connection stands either gatewayd is at rest, or somebody is    *)
(* going to publish the active revision; also behind a publish whose RPC has *)
(* failed while the connection was made again.  (A call that overlaps another *)
(* or the restore may leave gatewayd with the older snapshot.)               *)
Supplied ==
  (up /\ conn = "up" /\ overlap # "now") =>
    /\ inflight = None /\ ActiveConfig \in Compilable => SomePending \/ AtRest
    /\ inflight # None /\ call = None => SomePending

(* What UpdateConfig will write to the file is a config. *)
WritesConfigs ==
  \A t \in Threads : /\ thread[t].pc = "calling" => thread[t].arg \in Configs \cup {None}
                     /\ thread[t].pc = "write" => thread[t].arg \in Configs

Wiring == TypeOK /\ StartsAlone /\ WritesConfigs /\ ConnectedRuns
Wired == Wiring /\ CallsCarryConfigs
SInv == IInv /\ GG!IInv /\ GG!InForceInv /\ Wired /\ Supplied

-----------------------------------------------------------------------------
(* The parts, as the steps refer to them. *)

(* What the publisher's invariant says here. *)
LEMMA LedgerFacts ==
  ASSUME IInv
  PROVE  /\ \A i \in 1..Len(revisions) :
              revisions[i].id \in RevIds /\ revisions[i].config \in Configs
         /\ \A i, k \in 1..Len(revisions) : revisions[i].id = revisions[k].id => i = k
         /\ up => active \in 1..Len(revisions)
         /\ inflight # None => /\ up
                               /\ inflight.idx \in 1..Len(revisions)
                               /\ inflight.snap = revisions[inflight.idx].config
<1>1. /\ revisions \in Seq(PP!Revision) /\ active \in 0..Len(revisions)
      /\ PP!DistinctIds(revisions) /\ (up => active # 0) /\ up \in BOOLEAN
      /\ (~up => inflight = None)
      /\ inflight # None => /\ inflight.idx \in 1..Len(revisions)
                            /\ inflight.snap = revisions[inflight.idx].config
  BY DEF IInv, PP!IInv, PP!TypeOK, PP!ActiveInv, PP!LedgerConsistent, PP!EmptyMemory,
         PP!SnapshotIsCurrent
<1>2. \A i \in 1..Len(revisions) : revisions[i] \in PP!Revision
  BY <1>1
<1>3. QED
  BY <1>1, <1>2 DEF PP!Revision, PP!DistinctIds

LEMMA LedgerFactsNext ==
  ASSUME IInv'
  PROVE  /\ \A i \in 1..Len(revisions') :
              revisions'[i].id \in RevIds /\ revisions'[i].config \in Configs
         /\ up' => active' \in 1..Len(revisions')
<1>1. /\ revisions' \in Seq(PP!Revision) /\ active' \in 0..Len(revisions')
      /\ (up' => active' # 0)
  BY DEF IInv, PP!IInv, PP!TypeOK, PP!ActiveInv
<1>2. \A i \in 1..Len(revisions') : revisions'[i] \in PP!Revision
  BY <1>1
<1>3. QED
  BY <1>1, <1>2 DEF PP!Revision

(* The jobs of gatewayd. *)
LEMMA JobFacts ==
  ASSUME GG!IInv
  PROVE  job \in [Calls \cup {Boot} -> GG!Job] /\ Boot \notin Calls
  BY PipelineAssumption DEF GG!IInv, GG!TypeOK, GG!Jobs

(* The steps of gatewayd keep what is said of its calls. *)
LEMMA GatewayKeepsCalls ==
  ASSUME GG!IInv, CallsCarryConfigs, G!Next \/ UNCHANGED gwVars
  PROVE  CallsCarryConfigs'
<1> SUFFICES ASSUME NEW j \in Calls, job'[j].pc # "idle"
             PROVE  job'[j].pc # "refused" /\ job'[j].bytes \in Configs
                    /\ job'[j].meta = job'[j].bytes
  BY DEF CallsCarryConfigs
<1>1. job \in [Calls \cup {Boot} -> GG!Job] /\ j # Boot
  BY JobFacts
<1>2. job[j].pc # "idle" =>
        job[j].pc # "refused" /\ job[j].bytes \in Configs /\ job[j].meta = job[j].bytes
  BY DEF CallsCarryConfigs
<1>3. CASE G!Start \/ G!Restore
  <2>1. job'[j] = job[j]
    BY <1>1, <1>3 DEF G!Start, G!Restore, G!ReadPayload, G!ReadMeta, G!Serve
  <2>2. QED
    BY <1>2, <2>1
<1>4. ASSUME NEW k \in Calls, NEW s \in Configs, G!Receive(k, s)
      PROVE  job'[j] = job[j] \/ (job'[j].pc = "apply" /\ job'[j].bytes = s /\ job'[j].meta = s)
  BY <1>1, <1>4 DEF G!Receive
<1>5. ASSUME NEW k \in Calls \cup {Boot}, G!Step(k)
      PROVE  job'[j].pc # "refused" /\ job'[j].bytes \in Configs
             /\ job'[j].meta = job'[j].bytes
  <2>1. CASE k # j
    <3>1. job'[j] = job[j]
      BY <1>1, <1>5, <2>1 DEF G!Step, G!Apply, G!Detach, G!Probe, G!Goto
    <3>2. QED
      BY <1>2, <3>1
  <2>2. CASE k = j
    <3>1. job[j].pc # "idle" /\ job[j] \in GG!Job
      BY <1>1, <1>5, <2>2 DEF G!Step, G!Apply, G!Detach, G!Probe
    <3>2. G!Accepts(job[j].bytes, job[j].meta)
      BY <1>2, <3>1 DEF G!Accepts
    <3>3. job'[j].pc # "refused" /\ job'[j].bytes = job[j].bytes /\ job'[j].meta = job[j].meta
      BY <1>1, <1>5, <2>2, <3>1, <3>2
      DEF G!Step, G!Apply, G!Detach, G!Probe, G!Goto, G!AfterProbe, GG!Job
    <3>4. QED
      BY <1>2, <3>1, <3>3
  <2>3. QED
    BY <2>1, <2>2
<1>6. ASSUME NEW k \in Calls, G!Save(k)
      PROVE  job'[j].pc # "refused" /\ job'[j].bytes \in Configs
             /\ job'[j].meta = job'[j].bytes
  <2>1. CASE k # j
    <3>1. job'[j] = job[j]
      BY <1>1, <1>6, <2>1
      DEF G!Save, G!WritePayload, G!RenamePayload, G!WriteMeta, G!RenameMeta, G!Goto
    <3>2. QED
      BY <1>2, <3>1
  <2>2. CASE k = j
    <3>1. job[j].pc # "idle" /\ job[j] \in GG!Job
      BY <1>1, <1>6, <2>2 DEF G!Save, G!WritePayload, G!RenamePayload, G!WriteMeta, G!RenameMeta
    <3>2. job'[j].pc # "refused" /\ job'[j].bytes = job[j].bytes /\ job'[j].meta = job[j].meta
      BY <1>1, <1>6, <2>2, <3>1
      DEF G!Save, G!WritePayload, G!RenamePayload, G!WriteMeta, G!RenameMeta, G!Goto, GG!Job
    <3>3. QED
      BY <1>2, <3>1, <3>2
  <2>3. QED
    BY <2>1, <2>2
<1>7. ASSUME NEW k \in Calls, G!Reply(k) PROVE job'[j] = job[j] \/ job'[j].pc = "idle"
  BY <1>1, <1>7 DEF G!Reply, G!Idle
<1>8. CASE G!Crash
  BY <1>8 DEF G!Crash, G!Idle, G!Jobs
<1>9. CASE UNCHANGED gwVars
  BY <1>2, <1>9 DEF gwVars
<1>10. ~\E l \in {} : G!LoopEnds(l)
  OBVIOUS
<1>11. QED
  BY <1>2, <1>3, <1>4, <1>5, <1>6, <1>7, <1>8, <1>9, <1>10 DEF G!Next, G!Jobs

-----------------------------------------------------------------------------
(* The initial states. *)

LEMMA InitSInv ==
  ASSUME Init
  PROVE  IInv /\ GG!IInv /\ GG!InForceInv /\ Wired /\ Supplied
<1>1. IInv
  BY InitIInv
<1>2. GG!Init
  BY SameGateway DEF Init
<1>3. GG!IInv /\ GG!InForceInv
  BY <1>2, ComponentAssumptions, GG!InitIInv, GG!InitInForce
<1>4. TypeOK
  <2>1. inflight = None
    BY DEF Init, P!Init, P!EmptyMemory
  <2>2. file \in File
    BY PipelineAssumption DEF Init, File
  <2>3. thread \in [Threads -> [pc : {"off"}, arg : {None}]]
    BY DEF Init, Off
  <2>4. QED
    BY <2>1, <2>2, <2>3, PipelineAssumption DEF Init, TypeOK, Off
<1>5. StartsAlone /\ ConnectedRuns /\ WritesConfigs
  BY NoneAssumption DEF Init, StartsAlone, ConnectedRuns, WritesConfigs, Off, Threads
<1>6. CallsCarryConfigs
  BY DEF Init, CallsCarryConfigs, G!Init, G!Idle, G!Jobs
<1>7. Supplied
  BY DEF Init, P!Init, Supplied
<1>8. QED
  BY <1>1, <1>3, <1>4, <1>5, <1>6, <1>7 DEF Wired, Wiring

-----------------------------------------------------------------------------
(* A goroutine of controld goes on, without the publisher and gatewayd. *)

Places == {"off", "idle", "picked", "calling", "republish", "dial", "reload", "upsert", "write"}
Args == Configs \cup RevIds \cup {None}

(* The other goroutines stay where they are. *)
LEMMA SetFacts ==
  ASSUME TypeOK, NEW t \in Threads, NEW pc \in Places, NEW arg \in Args, Set(t, pc, arg)
  PROVE  /\ thread' \in [Threads -> [pc : Places, arg : Args]]
         /\ thread'[t] = [pc |-> pc, arg |-> arg]
         /\ \A u \in Threads : u # t => thread'[u] = thread[u]
<1>1. thread \in [Threads -> [pc : Places, arg : Args]]
  BY DEF TypeOK, Places, Args
<1>2. [pc |-> pc, arg |-> arg] \in [pc : Places, arg : Args]
  OBVIOUS
<1>3. QED
  BY <1>1, <1>2 DEF Set

(* Nobody runs beside "main". *)
LEMMA SetStartsAlone ==
  ASSUME TypeOK, StartsAlone, NEW t \in Threads, NEW pc \in Places, NEW arg \in Args,
         Set(t, pc, arg), thread[t].pc # "off"
  PROVE  StartsAlone'
<1>1. \A u \in Threads : u # t => thread'[u] = thread[u]
  BY SetFacts
<1>2. CASE t = "main"
  BY <1>1, <1>2 DEF StartsAlone
<1>3. CASE t # "main"
  <2>1. thread["main"].pc = "off" /\ "main" \in Threads
    BY <1>3 DEF StartsAlone, Threads
  <2>2. QED
    BY <1>1, <1>3, <2>1 DEF StartsAlone
<1>4. QED
  BY <1>2, <1>3

(* Where a goroutine may be put without the publisher. *)
QuietPlaces == {"off", "idle", "picked", "republish", "dial", "reload", "upsert"}

LEMMA MoveWired ==
  ASSUME Wiring,
         NEW t \in Threads, NEW pc \in QuietPlaces, NEW arg \in Args, Set(t, pc, arg),
         thread[t].pc \notin {"calling", "off"},
         UNCHANGED <<pubVars, gwVars, owner, call>>,
         file' \in File, watched' \in File \cup {None}, conn' \in {None, "up", "broken"},
         conn' = "up" => conn = "up" \/ phase # "down", call # None => conn' = "up",
         events' \in 0..MaxEvents
  PROVE  Wiring'
<1>1. /\ thread' \in [Threads -> [pc : Places, arg : Args]] /\ pc \in Places
      /\ thread'[t] = [pc |-> pc, arg |-> arg]
      /\ \A u \in Threads : u # t => thread'[u] = thread[u]
  BY SetFacts DEF Wiring, QuietPlaces, Places
<1>2. owner # None => thread'[owner].pc = "calling"
  BY <1>1 DEF Wiring, TypeOK
<1>3. TypeOK'
  BY <1>1, <1>2 DEF Wiring, TypeOK, Places, Args, pubVars, gwVars
<1>4. StartsAlone'
  BY <1>1, SetStartsAlone DEF Wiring
<1>5. ConnectedRuns'
  BY DEF Wiring, ConnectedRuns, gwVars
<1>6. WritesConfigs'
  BY <1>1 DEF Wiring, WritesConfigs, QuietPlaces
<1>7. QED
  BY <1>3, <1>4, <1>5, <1>6 DEF Wiring

(* The goroutine is going to publish the active revision if it was, or need  *)
(* not be; and a new connection is followed by a publish.                    *)
Move(t, pc, arg) ==
  /\ Set(t, pc, arg)
  /\ conn' = "up" => conn = "up" \/ (pc = "republish" /\ phase # "down")
  /\ Pending(t) => \/ pc = "republish"
                   \/ pc = "picked" /\ arg = revisions[active].id
                   \/ conn' # "up"
                   \/ inflight = None /\ ActiveConfig \notin Compilable

LEMMA MoveSupplied ==
  ASSUME TypeOK, Supplied, NEW t \in Threads, NEW pc \in Places, NEW arg \in Args,
         Move(t, pc, arg), UNCHANGED <<pubVars, gwVars, call>>
  PROVE  Supplied'
<1> SUFFICES ASSUME up', conn' = "up", overlap' # "now"
             PROVE  /\ inflight' = None /\ ActiveConfig' \in Compilable => SomePending' \/ AtRest'
                    /\ inflight' # None /\ call' = None => SomePending'
  BY DEF Supplied
<1>1. /\ thread'[t] = [pc |-> pc, arg |-> arg]
      /\ \A u \in Threads : u # t => thread'[u] = thread[u]
      /\ up /\ inflight' = inflight /\ call' = call
      /\ revisions' = revisions /\ active' = active /\ job' = job /\ snapshot' = snapshot
      /\ overlap # "now"
  BY SetFacts DEF Move, pubVars, gwVars
<1>2. ASSUME SomePending, ~(inflight = None /\ ActiveConfig \notin Compilable) PROVE SomePending'
  <2>1. PICK u \in Threads : Pending(u)
    BY <1>2 DEF SomePending
  <2>2. CASE u = t
    <3>1. pc = "republish" \/ (pc = "picked" /\ arg = revisions[active].id)
      BY <1>2, <2>1, <2>2 DEF Move
    <3>2. Pending(t)'
      BY <1>1, <3>1 DEF Pending
    <3>3. QED
      BY <3>2 DEF SomePending
  <2>3. CASE u # t
    <3>1. Pending(u)'
      BY <1>1, <2>1, <2>3 DEF Pending
    <3>2. QED
      BY <3>1 DEF SomePending
  <2>4. QED
    BY <2>2, <2>3
<1>3. CASE conn = "up"
  <2>1. AtRest => AtRest'
    BY <1>1 DEF AtRest, Ready, ActiveConfig
  <2>2. ActiveConfig' = ActiveConfig
    BY <1>1 DEF ActiveConfig
  <2>3. QED
    BY <1>1, <1>2, <1>3, <2>1, <2>2 DEF Supplied
<1>4. CASE conn # "up"
  <2>1. Pending(t)'
    BY <1>1, <1>4 DEF Pending, Move
  <2>2. QED
    BY <2>1 DEF SomePending
<1>5. QED
  BY <1>3, <1>4

(* The steps of that kind: choosing what to publish, looking after the       *)
(* connection, watching the file.                                            *)
Quietly(t) ==
  \/ PublishRefused(t) \/ Pick(t) \/ ReadFile(t)
  \/ t = "maintain" /\ Upkeep
  \/ t = "bootstrap" /\ Bootstrap
  \/ t = "watch" /\ CheckFile
  \/ t = "admin" /\ (WriteFile \/ AdminReload)

LEMMA QuietlyMoves ==
  ASSUME IInv, Wiring, NEW t \in Threads, Quietly(t)
  PROVE  /\ thread[t].pc \notin {"calling", "off"}
         /\ UNCHANGED <<pubVars, gwVars, owner, call>>
         /\ file' \in File /\ watched' \in File \cup {None} /\ conn' \in {None, "up", "broken"}
         /\ call # None => conn' = "up"
         /\ events' \in 0..MaxEvents
         /\ \E pc \in QuietPlaces, arg \in Args : Move(t, pc, arg)
<1> DEFINE Rest == /\ thread[t].pc \notin {"calling", "off"}
                   /\ UNCHANGED <<pubVars, gwVars, owner, call>>
                   /\ file' \in File /\ watched' \in File \cup {None}
                   /\ conn' \in {None, "up", "broken"}
                   /\ call # None => conn' = "up"
                   /\ events' \in 0..MaxEvents
           Moves == \E pc \in QuietPlaces, arg \in Args : Move(t, pc, arg)
<1>1. /\ file \in File /\ watched \in File \cup {None} /\ conn \in {None, "up", "broken"}
      /\ events \in 0..MaxEvents /\ (call # None => conn = "up")
      /\ None \notin {"up", "broken"}
  BY NoneAssumption DEF Wiring, TypeOK
<1>2. ASSUME NEW pc \in QuietPlaces, NEW arg \in Args, Move(t, pc, arg) PROVE Moves
  BY <1>2
<1>3. None \in Args
  BY DEF Args
<1> HIDE DEF Moves
<1>4. CASE PublishRefused(t)
  <2>1. /\ thread[t].pc = "picked" /\ inflight = None /\ Set(t, "idle", None)
        /\ revisions[P!FindRevision(revisions, thread[t].arg)].config \notin Compilable
        /\ UNCHANGED <<pubVars, gwVars, file, watched, conn, owner, call, events>>
    BY <1>4 DEF PublishRefused
  <2>2. ASSUME Pending(t) PROVE ActiveConfig \notin Compilable
    <3>1. up /\ thread[t].arg = revisions[active].id
      BY <2>1, <2>2 DEF Pending, IInv, Links, ThreadOK
    <3>2. active \in 1..Len(revisions)
          /\ \A i, k \in 1..Len(revisions) : revisions[i].id = revisions[k].id => i = k
      BY <3>1, LedgerFacts
    <3>3. P!FindRevision(revisions, revisions[active].id) = active
      BY <3>2 DEF P!FindRevision
    <3>4. QED
      BY <2>1, <3>1, <3>3 DEF ActiveConfig
  <2>3. Move(t, "idle", None)
    BY <2>1, <2>2 DEF Move
  <2>4. Moves
    BY <1>2, <1>3, <2>3 DEF QuietPlaces
  <2>5. Rest
    BY <1>1, <2>1
  <2>6. QED
    BY <2>4, <2>5 DEF Moves
<1>5. CASE Pick(t)
  <2>1. /\ thread[t].pc = "republish"
        /\ UNCHANGED <<pubVars, gwVars, file, watched, conn, owner, call, events>>
    BY <1>5 DEF Pick
  <2>2. up
    BY <2>1 DEF IInv, Links, ThreadOK
  <2>3. revisions[active].id \in Args
    BY <2>2, LedgerFacts DEF Args
  <2>4. Moves
    <3>1. CASE conn = None
      <4>1. Move(t, "idle", None)
        BY <1>1, <1>5, <2>1, <3>1 DEF Pick, Move
      <4>2. QED
        BY <1>2, <1>3, <4>1 DEF QuietPlaces
    <3>2. CASE conn # None
      <4>1. Move(t, "picked", revisions[active].id)
        BY <1>5, <2>1, <3>2 DEF Pick, Move
      <4>2. QED
        BY <1>2, <2>3, <4>1 DEF QuietPlaces
    <3>3. QED
      BY <3>1, <3>2
  <2>5. Rest
    BY <1>1, <2>1
  <2>6. QED
    BY <2>4, <2>5 DEF Moves
<1>6. CASE ReadFile(t)
  <2>1. /\ thread[t].pc = "reload" /\ ~Pending(t)
        /\ UNCHANGED <<pubVars, gwVars, file, watched, conn, owner, call, events>>
    BY <1>6 DEF ReadFile, Pending
  <2>2. Moves
    <3>1. CASE file.content \in Configs
      <4>1. Move(t, "upsert", file.content)
        BY <1>6, <2>1, <3>1 DEF ReadFile, Move
      <4>2. QED
        BY <1>2, <3>1, <4>1 DEF QuietPlaces, Args
    <3>2. CASE file.content \notin Configs
      <4>1. Move(t, "idle", None)
        BY <1>6, <2>1, <3>2 DEF ReadFile, Move
      <4>2. QED
        BY <1>2, <1>3, <4>1 DEF QuietPlaces
    <3>3. QED
      BY <3>1, <3>2
  <2>3. Rest
    BY <1>1, <2>1
  <2>4. QED
    BY <2>2, <2>3 DEF Moves
<1>7. CASE t = "maintain" /\ Upkeep
  <2>1. /\ UNCHANGED <<pubVars, gwVars, file, watched, owner, call, events>>
        /\ thread[t].pc \in {"idle", "dial"} /\ ~Pending(t)
        /\ conn' \in {None, "up", "broken"} /\ (call # None => conn' = "up")
    BY <1>1, <1>7 DEF Upkeep, MaintainReadiness, Disconnect, Dial, Pending
  <2>2. \/ Move(t, "republish", None) \/ Move(t, "dial", None) \/ Move(t, "idle", None)
    <3>1. CASE MaintainReadiness
      BY <1>7, <2>1, <3>1 DEF MaintainReadiness, Move
    <3>2. CASE Disconnect
      BY <1>1, <1>7, <2>1, <3>2 DEF Disconnect, Move
    <3>3. CASE Dial
      BY <1>1, <1>7, <2>1, <3>3 DEF Dial, Listening, Move
    <3>4. QED
      BY <1>7, <3>1, <3>2, <3>3 DEF Upkeep
  <2>3. Moves
    BY <1>2, <1>3, <2>2 DEF QuietPlaces
  <2>4. Rest
    BY <1>1, <2>1
  <2>5. QED
    BY <2>3, <2>4 DEF Moves
<1>8. CASE t = "bootstrap" /\ Bootstrap
  <2>1. /\ UNCHANGED <<pubVars, gwVars, file, watched, conn, owner, call, events>>
        /\ thread[t].pc = "idle" /\ ~Pending(t)
    BY <1>8 DEF Bootstrap, Pending
  <2>2. Move(t, "off", None) \/ Move(t, "republish", None)
    BY <1>8, <2>1 DEF Bootstrap, Move
  <2>3. Moves
    BY <1>2, <1>3, <2>2 DEF QuietPlaces
  <2>4. Rest
    BY <1>1, <2>1
  <2>5. QED
    BY <2>3, <2>4 DEF Moves
<1>9. CASE t = "watch" /\ CheckFile
  <2>1. /\ UNCHANGED <<pubVars, gwVars, file, conn, owner, call, events>> /\ watched' = file
        /\ thread[t].pc = "idle" /\ ~Pending(t)
    BY <1>9 DEF CheckFile, Pending
  <2>2. Move(t, "reload", None)
    BY <1>9, <2>1 DEF CheckFile, Move
  <2>3. Moves
    BY <1>2, <1>3, <2>2 DEF QuietPlaces
  <2>4. Rest
    BY <1>1, <2>1
  <2>5. QED
    BY <2>3, <2>4 DEF Moves
<1>10. CASE t = "admin" /\ WriteFile
  <2>1. /\ thread[t].pc = "write" /\ ~Pending(t) /\ Set(t, "idle", None)
        /\ UNCHANGED <<pubVars, gwVars, watched, conn, owner, call, events>>
        /\ file' \in {file, [content |-> thread[t].arg, by |-> "controld"]}
    BY <1>10 DEF WriteFile, Pending
  <2>2. thread[t].arg \in Configs
    BY <2>1 DEF Wiring, WritesConfigs
  <2>3. file' \in File
    BY <1>1, <2>1, <2>2 DEF File
  <2>4. Move(t, "idle", None)
    BY <2>1 DEF Move
  <2>5. Moves
    BY <1>2, <1>3, <2>4 DEF QuietPlaces
  <2>6. Rest
    BY <1>1, <2>1, <2>3
  <2>7. QED
    BY <2>5, <2>6 DEF Moves
<1>11. CASE t = "admin" /\ AdminReload
  <2>1. /\ UNCHANGED <<pubVars, gwVars, file, watched, conn, owner, call>>
        /\ thread[t].pc = "idle" /\ ~Pending(t) /\ events' \in 0..MaxEvents
    BY <1>1, <1>11, PipelineAssumption DEF AdminReload, Event, Pending
  <2>2. Move(t, "reload", None)
    BY <1>11, <2>1 DEF AdminReload, Move
  <2>3. Moves
    BY <1>2, <1>3, <2>2 DEF QuietPlaces
  <2>4. Rest
    BY <1>1, <2>1
  <2>5. QED
    BY <2>3, <2>4 DEF Moves
<1>12. QED
  BY <1>4, <1>5, <1>6, <1>7, <1>8, <1>9, <1>10, <1>11 DEF Quietly

(* So they keep the invariant. *)
LEMMA QuietlyKeeps ==
  ASSUME IInv, Wiring, Supplied, NEW t \in Threads, Quietly(t)
  PROVE  Wiring' /\ Supplied'
<1>1. PICK pc \in QuietPlaces, arg \in Args : Move(t, pc, arg)
  BY QuietlyMoves
<1>2. pc \in Places
  BY DEF QuietPlaces, Places
<1>3. Set(t, pc, arg) /\ (conn' = "up" => conn = "up" \/ phase # "down")
  BY <1>1 DEF Move
<1>4. Wiring'
  BY <1>3, QuietlyMoves, MoveWired
<1>5. Supplied'
  BY <1>1, <1>2, QuietlyMoves, MoveSupplied DEF Wiring
<1>6. QED
  BY <1>4, <1>5

-----------------------------------------------------------------------------
(* Start returns; the file is edited; controld ends or starts. *)

LEMMA RunKeeps ==
  ASSUME IInv, Wiring, Supplied, ControlRun
  PROVE  Wiring' /\ Supplied'
<1>1. /\ thread["main"].pc = "idle" /\ "main" \in Threads
      /\ UNCHANGED <<pubVars, gwVars, file, conn, owner, call, events>>
      /\ watched' \in File \cup {None}
      /\ thread' \in [Threads -> {Off, Free}] /\ thread'["main"] = Off
  BY DEF ControlRun, Wiring, TypeOK, Threads
<1>2. \A t \in Threads : thread[t].pc \in {"off", "idle"}
  BY <1>1 DEF Wiring, StartsAlone
<1>3. owner = None
  BY <1>2 DEF Wiring, TypeOK
<1>4. Off \in [pc : Places, arg : Args] /\ Free \in [pc : Places, arg : Args]
      /\ Off.pc = "off" /\ Free.pc = "idle"
  BY DEF Off, Free, Places, Args
<1>5. thread' \in [Threads -> [pc : Places, arg : Args]]
  BY <1>1, <1>4
<1>6. TypeOK'
  BY <1>1, <1>3, <1>5 DEF Wiring, TypeOK, Places, Args, pubVars, gwVars
<1>7. StartsAlone' /\ WritesConfigs' /\ ConnectedRuns'
  BY <1>1, <1>4 DEF Wiring, StartsAlone, WritesConfigs, ConnectedRuns, gwVars
<1>8. Supplied'
  <2>1. ~SomePending
    BY <1>2 DEF SomePending, Pending
  <2>2. AtRest => AtRest'
    BY <1>1 DEF AtRest, Ready, ActiveConfig, pubVars, gwVars
  <2>3. ActiveConfig' = ActiveConfig
    BY <1>1 DEF ActiveConfig, pubVars
  <2>4. QED
    BY <1>1, <2>1, <2>2, <2>3 DEF Supplied, pubVars, gwVars
<1>9. QED
  BY <1>6, <1>7, <1>8 DEF Wiring

(* The number of outside events is bounded.                                  *)
LEMMA EventBound ==
  ASSUME Wiring, events < MaxEvents, events' = events + 1
  PROVE  events' \in 0..MaxEvents
  BY PipelineAssumption DEF Wiring, TypeOK

LEMMA EditKeeps ==
  ASSUME Wiring, Supplied, NEW content \in Configs \cup {Malformed}, EditFile(content)
  PROVE  Wiring' /\ Supplied'
<1>1. /\ UNCHANGED <<pubVars, gwVars, watched, conn, thread, owner, call>>
      /\ file' \in File /\ events' \in 0..MaxEvents
  BY PipelineAssumption DEF EditFile, Event, File, Wiring, TypeOK
<1>2. Wiring'
  BY <1>1 DEF Wiring, TypeOK, StartsAlone, WritesConfigs, ConnectedRuns, pubVars, gwVars
<1>3. Supplied'
  BY <1>1 DEF Supplied, SomePending, Pending, AtRest, Ready, ActiveConfig, pubVars, gwVars
<1>4. QED
  BY <1>2, <1>3

LEMMA CrashKeeps ==
  ASSUME Wiring, ControlCrash
  PROVE  Wiring' /\ Supplied'
<1>1. /\ UNCHANGED <<gwVars, file>>
      /\ conn' = None /\ watched' = None /\ owner' = None /\ call' = None
      /\ thread' = [t \in Threads |-> Off] /\ inflight' = None /\ up' = FALSE
      /\ events' \in 0..MaxEvents
  <2>1. events < MaxEvents /\ events' = events + 1
    BY Zenon DEF ControlCrash, Event
  <2>2. events' \in 0..MaxEvents
    BY <2>1, EventBound
  <2>3. P!Crash
    BY Zenon DEF ControlCrash
  <2>4. inflight' = None /\ up' = FALSE
    BY <2>3 DEF P!Crash
  <2>5. QED
    BY <2>2, <2>4, Zenon DEF ControlCrash
<1>2. Off \in [pc : Places, arg : Args] /\ Off.pc = "off"
  BY DEF Off, Places, Args
<1>3. Wiring'
  BY <1>1, <1>2, NoneAssumption
  DEF Wiring, TypeOK, StartsAlone, WritesConfigs, ConnectedRuns, Places, Args, Threads
<1>4. Supplied'
  BY <1>1 DEF Supplied
<1>5. QED
  BY <1>3, <1>4

(* The goroutine that starts publishes the restored revision when there is a *)
(* connection.                                                               *)
LEMMA StartKeeps ==
  ASSUME IInv, IInv', Wiring, ControlStart
  PROVE  Wiring' /\ Supplied'
<1>1. /\ ~up /\ up' /\ inflight' = inflight
      /\ UNCHANGED <<gwVars, file, watched, owner, call, events>>
      /\ conn' = IF Listening THEN "up" ELSE None
      /\ IF Listening THEN Set("main", "picked", revisions'[active'].id)
         ELSE Set("main", "idle", None)
  BY DEF ControlStart, P!LoadState, P!SeedInitialRevision
<1>2. inflight = None
  BY <1>1, LedgerFacts
<1>3. owner = None /\ call = None
  BY <1>2 DEF Wiring, TypeOK
<1>4. \A t \in Threads : thread[t].pc = "off"
  BY <1>1 DEF IInv, Links, ThreadOK
<1>5. revisions'[active'].id \in RevIds
  BY <1>1, LedgerFactsNext
<1> DEFINE pc == IF Listening THEN "picked" ELSE "idle"
           arg == IF Listening THEN revisions'[active'].id ELSE None
<1>6. /\ thread \in [Threads -> [pc : Places, arg : Args]] /\ "main" \in Threads
      /\ pc \in Places /\ arg \in Args
      /\ thread' = [thread EXCEPT !["main"] = [pc |-> pc, arg |-> arg]]
  BY <1>1, <1>5 DEF Wiring, TypeOK, Places, Args, Threads, Set
<1> HIDE DEF pc, arg
<1>7. /\ thread' \in [Threads -> [pc : Places, arg : Args]]
      /\ thread'["main"] = [pc |-> pc, arg |-> arg]
      /\ \A t \in Threads : t # "main" => thread'[t] = thread[t]
  BY <1>6
<1>8. TypeOK'
  BY <1>1, <1>2, <1>3, <1>7, NoneAssumption DEF Wiring, TypeOK, Places, Args, gwVars
<1>9. StartsAlone' /\ WritesConfigs'
  <2>1. pc \in {"picked", "idle"}
    BY DEF pc
  <2>2. QED
    BY <1>4, <1>7, <2>1 DEF StartsAlone, WritesConfigs
<1>10. ConnectedRuns'
  BY <1>1, NoneAssumption DEF ConnectedRuns, Listening, gwVars
<1>11. Supplied'
  <2>1. CASE Listening
    <3>1. Pending("main")'
      BY <1>7, <2>1 DEF Pending, pc, arg
    <3>2. SomePending'
      BY <1>6, <3>1 DEF SomePending
    <3>3. QED
      BY <3>2 DEF Supplied
  <2>2. CASE ~Listening
    BY <1>1, <2>2, NoneAssumption DEF Supplied
  <2>3. QED
    BY <2>1, <2>2
<1>12. QED
  BY <1>8, <1>9, <1>10, <1>11 DEF Wiring

-----------------------------------------------------------------------------
(* A publish is staged and sent.                                             *)

LEMMA StageKeeps ==
  ASSUME Wiring, GG!IInv, inflight = None, NEW t \in Threads, thread[t].pc \notin {"off", "calling"},
         NEW idx \in Nat, NEW c \in Configs, NEW kind \in P!Kinds, NEW update \in BOOLEAN,
         inflight' = [idx |-> idx, snap |-> c, kind |-> kind, update |-> update],
         Send(t), NEW arg \in Configs \cup {None}, Set(t, "calling", arg),
         events' \in 0..MaxEvents
  PROVE  Wiring' /\ Supplied'
<1>1. inflight' # None /\ inflight'.snap = c
  <2>1. inflight' \in P!Inflight
    BY DEF P!Inflight
  <2>2. QED
    BY <2>1, NoneAssumption
<1>2. /\ thread' \in [Threads -> [pc : Places, arg : Args]]
      /\ thread'[t] = [pc |-> "calling", arg |-> arg]
      /\ \A u \in Threads : u # t => thread'[u] = thread[u]
  <2>1. "calling" \in Places /\ arg \in Args
    BY DEF Places, Args
  <2>2. QED
    BY <2>1, SetFacts DEF Wiring
<1>3. owner' = t /\ UNCHANGED <<file, watched, conn>>
  BY DEF Send
<1>4. /\ call' \in Calls \cup {None} /\ phase' = phase
      /\ call' # None => conn = "up" /\ job'[call'].pc # "idle" /\ job'[call'].bytes = c
      /\ conn = "up" => call' # None
  <2>1. CASE conn = "up"
    <3>1. PICK j \in Calls : call' = j /\ G!Receive(j, c)
      BY <1>1, <2>1 DEF Send
    <3>2. job'[j] = [pc |-> "apply", bytes |-> c, meta |-> c, old |-> None] /\ phase' = phase
      BY <3>1, JobFacts DEF G!Receive
    <3>3. QED
      BY <2>1, <3>1, <3>2, PipelineAssumption
  <2>2. CASE conn # "up"
    BY <2>2 DEF Send, gwVars
  <2>3. QED
    BY <2>1, <2>2
<1>5. TypeOK'
  <2>1. t # None
    BY <1>1, <1>2, <1>3, NoneAssumption DEF Wiring, TypeOK, Places, Args
  <2>2. file' \in File /\ watched' \in File \cup {None} /\ conn' \in {None, "up", "broken"}
    BY <1>3 DEF Wiring, TypeOK
  <2>3. QED
    BY <1>1, <1>2, <1>3, <1>4, <2>1, <2>2 DEF TypeOK, Places, Args
<1>6. StartsAlone'
  <2>1. "calling" \in Places /\ arg \in Args
    BY DEF Places, Args
  <2>2. QED
    BY <2>1, SetStartsAlone DEF Wiring
<1>7. WritesConfigs' /\ ConnectedRuns'
  BY <1>2, <1>3, <1>4 DEF Wiring, WritesConfigs, ConnectedRuns
<1>8. Supplied'
  BY <1>1, <1>3, <1>4 DEF Supplied
<1>9. QED
  BY <1>5, <1>6, <1>7, <1>8 DEF Wiring

(* BeginPublish stages a config under the index of its revision.             *)
LEMMA PublishStages ==
  ASSUME IInv, NEW id \in RevIds, NEW kind \in P!Kinds, P!BeginPublish(id, kind)
  PROVE  /\ inflight = None
         /\ \E idx \in Nat, c \in Configs :
              inflight' = [idx |-> idx, snap |-> c, kind |-> kind, update |-> FALSE]
<1> DEFINE i == PP!FindRevision(revisions, id)
           rev == revisions[i]
           c == IF rev.snap # None THEN rev.snap ELSE rev.config
<1>1. PP!BeginPublish(id, kind)
  BY SamePublisher
<1>2. inflight = None /\ inflight' = [idx |-> i, snap |-> c, kind |-> kind, update |-> FALSE]
  BY <1>1 DEF PP!BeginPublish, PP!Stage
<1>3. i \in Nat
  <2>1. revisions \in Seq(PP!Revision)
    BY DEF IInv, PP!IInv, PP!TypeOK
  <2>2. i \in 0..Len(revisions)
    BY <2>1, ComponentAssumptions, PP!FindRevisionFacts
  <2>3. QED
    BY <2>1, <2>2
<1>4. c \in Configs
  <2>1. inflight'.snap \in Configs
    BY <1>1, SentConfig DEF IInv
  <2>2. QED
    BY <1>2, <2>1
<1> HIDE DEF i, c
<1>5. QED
  BY <1>2, <1>3, <1>4

LEMMA PublishKeeps ==
  ASSUME IInv, Wiring, GG!IInv, NEW id \in RevIds, NEW kind \in P!Kinds,
         P!BeginPublish(id, kind), NEW t \in Threads, thread[t].pc \notin {"off", "calling"},
         Send(t), Set(t, "calling", None), events' \in 0..MaxEvents
  PROVE  Wiring' /\ Supplied'
<1>1. PICK idx \in Nat, c \in Configs :
        inflight' = [idx |-> idx, snap |-> c, kind |-> kind, update |-> FALSE]
  BY PublishStages
<1>2. inflight = None /\ None \in Configs \cup {None} /\ FALSE \in BOOLEAN
  BY PublishStages
<1>3. QED
  BY <1>1, <1>2, StageKeeps

LEMMA UpdateKeeps ==
  ASSUME IInv, Wiring, GG!IInv, NEW c \in Configs, NEW id \in P!FreshIds, AdminUpdate(c, id)
  PROVE  Wiring' /\ Supplied'
<1>1. /\ inflight = None
      /\ inflight' = [idx |-> Len(revisions) + 1, snap |-> c, kind |-> "publish",
                      update |-> TRUE]
      /\ Send("admin") /\ Set("admin", "calling", c) /\ thread["admin"].pc = "idle"
      /\ "admin" \in Threads /\ "publish" \in P!Kinds
  BY DEF AdminUpdate, P!BeginUpdate, P!Stage, Threads, P!Kinds
<1>2. Len(revisions) + 1 \in Nat
  <2>1. revisions \in Seq(PP!Revision)
    BY DEF IInv, PP!IInv, PP!TypeOK
  <2>2. QED
    BY <2>1
<1>3. events' \in 0..MaxEvents
  BY PipelineAssumption DEF AdminUpdate, Event, Wiring, TypeOK
<1>4. c \in Configs \cup {None} /\ TRUE \in BOOLEAN
  OBVIOUS
<1>5. QED
  BY <1>1, <1>2, <1>3, <1>4, StageKeeps

(* The file's revision becomes active, and the goroutine publishes it.       *)
LEMMA ReloadKeeps ==
  ASSUME IInv, IInv', Wiring, NEW t \in Threads, Reload(t)
  PROVE  Wiring' /\ Supplied'
<1> DEFINE c == thread[t].arg
           pc == IF conn = None THEN "idle" ELSE "picked"
           arg == IF conn = None THEN None ELSE HashId[c]
<1>1. /\ thread[t].pc = "upsert" /\ c \in Configs /\ HashId[c] \in RevIds
      /\ UNCHANGED <<gwVars, file, watched, conn, owner, call, events>>
      /\ Set(t, pc, arg)
  BY PipelineAssumption DEF Reload, IInv, Links, ThreadOK
<1>2. /\ up /\ inflight = None /\ inflight' = None
      /\ revisions' = P!UpsertRevisions(revisions, c)
      /\ active' = P!FindRevision(revisions', HashId[c])
  BY DEF Reload, P!UpsertRevision
<1>3. revisions'[active'].id = HashId[c]
  <2>1. up' = up
    BY DEF Reload, P!UpsertRevision
  <2>2. active' = PP!FindRevision(revisions', HashId[c])
    BY <1>2 DEF P!FindRevision, PP!FindRevision
  <2>3. revisions' \in Seq(PP!Revision) /\ active' \in 1..Len(revisions')
    BY <1>2, <2>1, LedgerFactsNext DEF IInv, PP!IInv, PP!TypeOK
  <2>4. \A revs \in Seq(PP!Revision) :
          PP!FindRevision(revs, HashId[c]) # 0 =>
            revs[PP!FindRevision(revs, HashId[c])].id = HashId[c]
    BY ComponentAssumptions, PP!FindRevisionFacts
  <2>5. QED
    BY <2>2, <2>3, <2>4
<1>4. pc \in Places /\ arg \in Args /\ pc \in {"idle", "picked"}
  BY <1>1 DEF Places, Args
<1>5. pc = "picked" => arg = HashId[c]
  OBVIOUS
<1>6. conn = "up" => pc = "picked"
  BY NoneAssumption
<1> HIDE DEF pc, arg
<1>7. /\ thread' \in [Threads -> [pc : Places, arg : Args]]
      /\ thread'[t] = [pc |-> pc, arg |-> arg]
      /\ \A u \in Threads : u # t => thread'[u] = thread[u]
  BY <1>1, <1>4, SetFacts DEF Wiring
<1>8. owner = None /\ call = None
  BY <1>2 DEF Wiring, TypeOK
<1>9. TypeOK'
  BY <1>1, <1>2, <1>7, <1>8 DEF Wiring, TypeOK, Places, Args, gwVars
<1>10. StartsAlone'
  BY <1>1, <1>4, SetStartsAlone DEF Wiring
<1>11. WritesConfigs' /\ ConnectedRuns'
  BY <1>1, <1>4, <1>7 DEF Wiring, WritesConfigs, ConnectedRuns, gwVars
<1>12. Supplied'
  <2> SUFFICES ASSUME conn' = "up" PROVE SomePending'
    BY <1>2 DEF Supplied
  <2>1. Pending(t)'
    BY <1>1, <1>3, <1>5, <1>6, <1>7 DEF Pending
  <2>2. QED
    BY <2>1 DEF SomePending
<1>13. QED
  BY <1>9, <1>10, <1>11, <1>12 DEF Wiring

-----------------------------------------------------------------------------
(* A publish returns.                                                        *)

LEMMA ReturnWired ==
  ASSUME Wiring, owner # None, NEW observed \in BOOLEAN, AfterPublish(observed),
         owner' = None, call' = None, inflight' = None, phase' = phase,
         UNCHANGED <<file, watched, conn, events>>
  PROVE  /\ Wiring'
         /\ \A u \in Threads : u # owner => thread'[u] = thread[u]
<1> DEFINE writes == observed /\ thread[owner].arg # None
           pc == IF writes THEN "write" ELSE "idle"
           arg == IF writes THEN thread[owner].arg ELSE None
<1>1. owner \in Threads /\ thread[owner].pc = "calling" /\ Set(owner, pc, arg)
  BY DEF AfterPublish, Wiring, TypeOK
<1>2. thread[owner].arg \in Configs \cup {None}
  BY <1>1 DEF Wiring, WritesConfigs
<1>3. /\ pc \in Places /\ arg \in Args /\ pc \in {"idle", "write"}
      /\ pc = "write" => arg \in Configs
  BY <1>2 DEF Places, Args
<1> HIDE DEF pc, arg
<1>4. /\ thread' \in [Threads -> [pc : Places, arg : Args]]
      /\ thread'[owner] = [pc |-> pc, arg |-> arg]
      /\ \A u \in Threads : u # owner => thread'[u] = thread[u]
  BY <1>1, <1>3, SetFacts DEF Wiring
<1>5. TypeOK'
  BY <1>4 DEF Wiring, TypeOK, Places, Args
<1>6. StartsAlone'
  BY <1>1, <1>3, SetStartsAlone DEF Wiring
<1>7. WritesConfigs' /\ ConnectedRuns'
  BY <1>3, <1>4 DEF Wiring, WritesConfigs, ConnectedRuns
<1>8. QED
  BY <1>4, <1>5, <1>6, <1>7 DEF Wiring

(* The answer is that gatewayd has applied what was sent.                    *)
LEMMA AnswerApplied ==
  ASSUME IInv, Wired, GG!InForceInv, Answer
  PROVE  /\ job[call].pc \in {"applied", "unsaved"} /\ P!Observed
         /\ overlap # "now" => snapshot.bytes = inflight.snap
         /\ inflight # None /\ conn = "up" /\ call \in Calls
<1>1. /\ call \in Calls /\ owner # None /\ inflight # None /\ conn = "up"
      /\ job[call].pc # "idle" /\ job[call].bytes = inflight.snap
  BY DEF Answer, Wired, Wiring, TypeOK
<1>2. job[call].pc \in {"applied", "unsaved"}
  BY <1>1 DEF Answer, G!Reply, Wired, CallsCarryConfigs
<1>3. overlap # "now" => snapshot = [bytes |-> job[call].bytes, meta |-> job[call].meta]
  BY <1>1, <1>2 DEF GG!InForceInv, GG!Kept, GG!Jobs
<1>4. P!Observed
  BY <1>2 DEF Answer
<1>5. QED
  BY <1>1, <1>2, <1>3, <1>4

LEMMA AnswerKeeps ==
  ASSUME IInv, Wired, GG!IInv, GG!InForceInv, Answer
  PROVE  Wiring' /\ Supplied'
<1>1. /\ job[call].pc \in {"applied", "unsaved"} /\ P!Observed
      /\ overlap # "now" => snapshot.bytes = inflight.snap
      /\ inflight # None /\ conn = "up"
  BY AnswerApplied
<1>2. /\ owner # None /\ call \in Calls /\ AfterPublish(TRUE) /\ G!Reply(call)
      /\ owner' = None /\ call' = None /\ inflight' = None
      /\ UNCHANGED <<file, watched, conn, events>>
  BY <1>1 DEF Answer, P!Observed, Wired, Wiring, TypeOK
<1>3. /\ phase' = phase /\ snapshot' = snapshot /\ job' = [job EXCEPT ![call] = G!Idle]
      /\ overlap' = overlap
  BY <1>2 DEF G!Reply
<1>4. Wiring'
  BY <1>2, <1>3, ReturnWired DEF Wired
<1>5. ASSUME overlap # "now" PROVE AtRest'
  <2>1. job'[call].pc = "idle"
    BY <1>2, <1>3, JobFacts DEF G!Idle
  <2>2. ASSUME NEW k \in Calls \cup {Boot}, k # call PROVE job'[k].pc = "idle"
    <3>1. k \in GG!Jobs /\ call \in GG!Jobs /\ job[call] # GG!Idle
      BY <1>1, <1>2 DEF GG!Jobs, GG!Idle
    <3>2. job[k] = GG!Idle
      BY <1>5, <2>2, <3>1 DEF GG!InForceInv, GG!OneJob
    <3>3. QED
      BY <1>3, <2>2, <3>2, JobFacts DEF GG!Idle
  <2>3. \A j \in Calls \cup {Boot} : job'[j].pc = "idle"
    BY <2>1, <2>2
  <2>4. snapshot'.bytes = revisions'[active'].config
    <3>1. inflight.snap = revisions[inflight.idx].config
      BY <1>1, LedgerFacts
    <3>2. active' = inflight.idx /\ revisions' = revisions
      BY <1>1 DEF P!Observed
    <3>3. QED
      BY <1>1, <1>3, <1>5, <3>1, <3>2
  <2>5. QED
    BY <2>3, <2>4 DEF AtRest, ActiveConfig
<1>6. Supplied'
  BY <1>2, <1>3, <1>5 DEF Supplied
<1>7. QED
  BY <1>4, <1>6

LEMMA NoAnswerKeeps ==
  ASSUME IInv, Wiring, Supplied, NoAnswer
  PROVE  Wiring' /\ Supplied'
<1>1. /\ owner # None /\ call = None /\ AfterPublish(FALSE) /\ inflight # None
      /\ owner' = None /\ call' = None /\ inflight' = None
      /\ UNCHANGED <<gwVars, file, watched, conn, events, up, revisions, active>>
  BY DEF NoAnswer, P!Failed, Wiring, TypeOK
<1>2. /\ Wiring'
      /\ \A u \in Threads : u # owner => thread'[u] = thread[u]
  <2>1. FALSE \in BOOLEAN /\ phase' = phase
    BY <1>1 DEF gwVars
  <2>2. QED
    BY <1>1, <2>1, ReturnWired
<1>3. Supplied'
  <2> SUFFICES ASSUME up', conn' = "up", overlap' # "now" PROVE SomePending'
    BY <1>1 DEF Supplied
  <2>1. PICK u \in Threads : Pending(u)
    BY <1>1 DEF Supplied, SomePending, gwVars
  <2>2. u # owner
    BY <1>1, <2>1 DEF Pending, Wiring, TypeOK
  <2>3. Pending(u)'
    BY <1>1, <1>2, <2>1, <2>2 DEF Pending
  <2>4. QED
    BY <2>3 DEF SomePending
<1>4. QED
  BY <1>2, <1>3

-----------------------------------------------------------------------------
(* What gatewayd does.                                                       *)

(* A step of gatewayd leaves the call that controld waits for, and a         *)
(* gatewayd that is connected and at rest takes none.                        *)
LEMMA OwnKeeps ==
  ASSUME Wiring, Supplied,
         UNCHANGED <<pubVars, file, watched, conn, thread, owner, call, events>>,
         phase' # "down" \/ conn # "up", overlap' = overlap,
         call # None => job'[call].pc # "idle" /\ job'[call].bytes = job[call].bytes,
         conn = "up" => ~(\A j \in Calls \cup {Boot} : job[j].pc = "idle")
  PROVE  Wiring' /\ Supplied'
<1>1. TypeOK' /\ WritesConfigs' /\ StartsAlone' /\ ConnectedRuns'
  BY DEF Wiring, TypeOK, WritesConfigs, StartsAlone, ConnectedRuns, pubVars
<1>2. SomePending => SomePending'
  BY DEF SomePending, Pending, pubVars
<1>3. conn = "up" => ~AtRest
  BY DEF AtRest
<1>4. ActiveConfig' = ActiveConfig
  BY DEF ActiveConfig, pubVars
<1>5. Supplied'
  BY <1>2, <1>3, <1>4 DEF Supplied, pubVars
<1>6. QED
  BY <1>1, <1>5 DEF Wiring

(* It starts, when nobody is connected yet, and restores its snapshot.       *)
LEMMA BootKeeps ==
  ASSUME Wired, Supplied, GG!IInv, GG!InForceInv, GatewayStart \/ GatewayRestore
  PROVE  Wiring' /\ Supplied'
<1>1. UNCHANGED <<pubVars, file, watched, conn, thread, owner, call, events>>
  BY DEF GatewayStart, GatewayRestore, Own
<1>2. CASE GatewayStart
  <2>1. phase = "down" /\ overlap' = overlap
    BY <1>2 DEF GatewayStart, G!Start
  <2>2. conn # "up" /\ call = None
    BY <2>1 DEF Wired, Wiring, ConnectedRuns, TypeOK
  <2>3. QED
    BY <1>1, <2>1, <2>2, OwnKeeps DEF Wired
<1>3. CASE GatewayRestore
  <2>1. /\ job[Boot].pc # "idle" /\ overlap' = overlap
        /\ phase' = phase \/ phase' = "run"
        /\ \A j \in Calls : job'[j] = job[j]
    BY <1>3, JobFacts DEF GatewayRestore, G!Restore, G!ReadPayload, G!ReadMeta, G!Serve
  <2>2. phase' # "down"
    <3>1. job[Boot] # GG!Idle
      BY <2>1 DEF GG!Idle
    <3>2. phase = "boot"
      BY <3>1 DEF GG!InForceInv, GG!Phases
    <3>3. QED
      BY <2>1, <3>2
  <2>3. call # None => job'[call].pc # "idle" /\ job'[call].bytes = job[call].bytes
    <3>1. call # None => call \in Calls /\ job[call].pc # "idle"
      BY DEF Wired, Wiring, TypeOK
    <3>2. QED
      BY <2>1, <3>1
  <2>4. QED
    BY <1>1, <2>1, <2>2, <2>3, OwnKeeps DEF Wired
<1>4. QED
  BY <1>2, <1>3

LEMMA JobKeeps ==
  ASSUME Wired, Supplied, GG!IInv, GG!InForceInv,
         \/ \E j \in Calls \cup {Boot} : GatewayStep(j)
         \/ \E j \in Calls : GatewaySave(j) \/ AbandonedReply(j)
  PROVE  Wiring' /\ Supplied'
<1>1. UNCHANGED <<pubVars, file, watched, conn, thread, owner, call, events>>
  BY DEF GatewayStep, GatewaySave, AbandonedReply, Own
<1>2. PICK j \in Calls \cup {Boot} :
        G!Step(j) \/ (j \in Calls /\ (G!Save(j) \/ (j # call /\ G!Reply(j))))
  BY DEF GatewayStep, GatewaySave, AbandonedReply
<1>3. phase' = phase /\ overlap' = overlap /\ job[j].pc # "idle"
  BY <1>2 DEF G!Step, G!Apply, G!Detach, G!Probe, G!Save, G!WritePayload, G!RenamePayload,
              G!WriteMeta, G!RenameMeta, G!Reply
<1> phase' # "down" \/ conn # "up"
  BY <1>3 DEF Wired, Wiring, ConnectedRuns
<1>4. ASSUME call # None
      PROVE  job'[call].pc # "idle" /\ job'[call].bytes = job[call].bytes
  <2>1. call \in Calls /\ job[call].pc # "idle"
    BY <1>4 DEF Wired, Wiring, TypeOK
  <2>2. /\ job \in [Calls \cup {Boot} -> GG!Job] /\ job[j] \in GG!Job /\ job[call] \in GG!Job
    BY <2>1, JobFacts
  <2>3. CASE j = call
    BY <1>2, <2>1, <2>2, <2>3
    DEF G!Step, G!Apply, G!Detach, G!Probe, G!AfterProbe, G!Save, G!WritePayload,
        G!RenamePayload, G!WriteMeta, G!RenameMeta, G!Goto, GG!Job
  <2>4. CASE j # call
    <3>1. job'[call] = job[call]
      BY <1>2, <2>1, <2>2, <2>4
      DEF G!Step, G!Apply, G!Detach, G!Probe, G!Save, G!WritePayload, G!RenamePayload,
          G!WriteMeta, G!RenameMeta, G!Goto, G!Reply
    <3>2. QED
      BY <2>1, <3>1
  <2>5. QED
    BY <2>3, <2>4
<1>5. QED
  BY <1>1, <1>3, <1>4, OwnKeeps DEF Wired

(* It ends: the connection is broken, the call is lost.                      *)
LEMMA GatewayCrashKeeps ==
  ASSUME Wiring, GatewayCrash
  PROVE  Wiring' /\ Supplied'
<1>1. events < MaxEvents /\ events' = events + 1
  BY Zenon DEF GatewayCrash, Event
<1>2. events' \in 0..MaxEvents
  BY <1>1, EventBound
<1>3. /\ UNCHANGED <<pubVars, file, watched, thread, owner>> /\ call' = None
      /\ conn' = IF conn = "up" THEN "broken" ELSE conn
  BY Zenon DEF GatewayCrash
<1>4. conn' # "up" /\ conn' \in {None, "up", "broken"}
  BY <1>3, NoneAssumption DEF Wiring, TypeOK
<1>5. TypeOK'
  BY <1>2, <1>3, <1>4 DEF Wiring, TypeOK, pubVars
<1>6. StartsAlone' /\ WritesConfigs' /\ ConnectedRuns'
  BY <1>3, <1>4 DEF Wiring, StartsAlone, WritesConfigs, ConnectedRuns
<1>7. Supplied'
  BY <1>4 DEF Supplied
<1>8. QED
  BY <1>5, <1>6, <1>7 DEF Wiring

-----------------------------------------------------------------------------
(* Every step keeps the invariant.                                           *)

LEMMA NextSInv ==
  ASSUME SInv, [Next]_vars
  PROVE  SInv'
<1>1. IInv /\ GG!IInv /\ GG!InForceInv /\ Wired /\ Wiring /\ Supplied /\ CallsCarryConfigs
  BY DEF SInv, Wired
<1>2. IInv'
  BY <1>1, PublisherStep, StepLinks DEF IInv
<1>3. G!Next \/ UNCHANGED gwVars
  BY <1>1, StepApplies DEF G!vars, gwVars
<1>4. GG!IInv' /\ GG!InForceInv'
  <2>1. [GG!Next]_(GG!vars)
    BY <1>1, StepApplies, SameGateway
  <2>2. None \notin GG!Loop \cup GG!Labelled
    BY NoneAssumption DEF G!Loop, G!Labelled, GG!Loop, GG!Labelled
  <2>3. QED
    BY <1>1, <2>1, <2>2, ComponentAssumptions, GG!NextIInv, GG!NextInForce
<1>5. CallsCarryConfigs'
  BY <1>1, <1>3, GatewayKeepsCalls
<1>6. Wiring' /\ Supplied'
  <2>1. CASE ControlStart
    BY <1>1, <1>2, <2>1, StartKeeps
  <2>2. CASE ControlRun
    BY <1>1, <2>2, RunKeeps
  <2>3. ASSUME NEW t \in Threads, Work(t) PROVE Wiring' /\ Supplied'
    <3>1. CASE Publish(t)
      <4>1. /\ thread[t].pc = "picked" /\ P!BeginPublish(thread[t].arg, "publish")
            /\ Send(t) /\ Set(t, "calling", None) /\ events' = events
        BY <3>1 DEF Publish
      <4>2. thread[t].arg \in RevIds /\ "publish" \in P!Kinds
        BY <1>1, <4>1 DEF IInv, Links, ThreadOK, P!Kinds
      <4>3. events' \in 0..MaxEvents
        BY <1>1, <4>1 DEF Wiring, TypeOK
      <4>4. QED
        BY <1>1, <4>1, <4>2, <4>3, PublishKeeps
    <3>2. CASE PublishRefused(t) \/ Pick(t) \/ ReadFile(t)
      <4>1. Quietly(t)
        BY <3>2 DEF Quietly
      <4>2. QED
        BY <1>1, <4>1, QuietlyKeeps
    <3>3. CASE Reload(t)
      BY <1>1, <1>2, <3>3, ReloadKeeps
    <3>4. QED
      BY <2>3, <3>1, <3>2, <3>3 DEF Work
  <2>4. CASE Answer
    BY <1>1, <2>4, AnswerKeeps
  <2>5. CASE NoAnswer
    BY <1>1, <2>5, NoAnswerKeeps
  <2>6. CASE WriteFile \/ Upkeep \/ Bootstrap \/ CheckFile \/ AdminReload
    <3>1. PICK t \in Threads : Quietly(t)
      BY <2>6 DEF Quietly, Threads
    <3>2. QED
      BY <1>1, <3>1, QuietlyKeeps
  <2>7. ASSUME NEW id \in RevIds, NEW kind \in P!Kinds, AdminPublish(id, kind)
        PROVE  Wiring' /\ Supplied'
    <3>1. /\ events < MaxEvents /\ events' = events + 1 /\ thread["admin"].pc = "idle"
          /\ P!BeginPublish(id, kind) /\ Send("admin") /\ Set("admin", "calling", None)
          /\ "admin" \in Threads
      BY <2>7 DEF AdminPublish, Event, Threads
    <3>2. events' \in 0..MaxEvents
      BY <1>1, <3>1, EventBound
    <3>3. QED
      BY <1>1, <3>1, <3>2, PublishKeeps
  <2>8. ASSUME NEW c \in Configs, NEW id \in P!FreshIds, AdminUpdate(c, id)
        PROVE  Wiring' /\ Supplied'
    BY <1>1, <2>8, UpdateKeeps
  <2>9. ASSUME NEW content \in Configs \cup {Malformed}, EditFile(content)
        PROVE  Wiring' /\ Supplied'
    BY <1>1, <2>9, EditKeeps
  <2>10. CASE ControlCrash
    BY <1>1, <2>10, CrashKeeps
  <2>11. CASE GatewayCrash
    BY <1>1, <2>11, GatewayCrashKeeps
  <2>12. CASE GatewayStart \/ GatewayRestore
    BY <1>1, <2>12, BootKeeps
  <2>13. CASE \/ \E j \in Calls \cup {Boot} : GatewayStep(j)
              \/ \E j \in Calls : GatewaySave(j) \/ AbandonedReply(j)
    BY <1>1, <2>13, JobKeeps
  <2>14. CASE UNCHANGED vars
    BY <1>1, <2>14
    DEF vars, pubVars, gwVars, Wiring, TypeOK, StartsAlone, WritesConfigs, ConnectedRuns,
        Supplied, SomePending, Pending, AtRest, Ready, ActiveConfig
  <2>15. QED
    BY <2>1, <2>2, <2>3, <2>4, <2>5, <2>6, <2>7, <2>8, <2>9, <2>10, <2>11, <2>12, <2>13, <2>14
    DEF Next
<1>7. QED
  BY <1>2, <1>4, <1>5, <1>6 DEF SInv, Wired

LEMMA ServiceInvariance == Spec => []SInv
<1>1. Init => SInv
  BY InitSInv DEF SInv
<1>2. SInv /\ [Next]_vars => SInv'
  BY NextSInv
<1>3. QED
  BY <1>1, <1>2, PTL DEF Spec

(* How a publish ends while controld runs. *)
LEMMA PublishEnds ==
  ASSUME Next, inflight # None, inflight' = None, up'
  PROVE  Answer \/ NoAnswer
<1>1. ~ControlStart
  BY DEF ControlStart, P!LoadState, P!SeedInitialRevision
<1>2. ~ControlCrash
  <2> SUFFICES ASSUME ControlCrash PROVE FALSE
    OBVIOUS
  <2>1. P!Crash
    BY Zenon DEF ControlCrash
  <2>2. QED
    BY <2>1 DEF P!Crash
<1>3. ~GatewayCrash
  <2> SUFFICES ASSUME GatewayCrash PROVE FALSE
    OBVIOUS
  <2>1. UNCHANGED pubVars
    BY Zenon DEF GatewayCrash
  <2>2. QED
    BY <2>1 DEF pubVars
<1>4. \A t \in Threads : ~Work(t)
  BY DEF Work, Publish, PublishRefused, Pick, ReadFile, Reload, P!BeginPublish,
         P!UpsertRevision, pubVars
<1>5. ~(ControlRun \/ WriteFile \/ Upkeep \/ Bootstrap \/ CheckFile \/ AdminReload)
  BY DEF ControlRun, WriteFile, Upkeep, MaintainReadiness, Disconnect, Dial, Bootstrap,
         CheckFile, AdminReload, pubVars
<1>6. ~(\E id \in RevIds, kind \in P!Kinds : AdminPublish(id, kind))
  BY DEF AdminPublish, P!BeginPublish
<1>7. ~(\E c \in Configs, id \in P!FreshIds : AdminUpdate(c, id))
  BY DEF AdminUpdate, P!BeginUpdate
<1>8. ~(\E content \in Configs \cup {Malformed} : EditFile(content))
  BY DEF EditFile, pubVars
<1>9. ~(GatewayStart \/ GatewayRestore \/ \E j \in Calls \cup {Boot} : GatewayStep(j))
  BY DEF GatewayStart, GatewayRestore, GatewayStep, Own, pubVars
<1>10. ~(\E j \in Calls : GatewaySave(j) \/ AbandonedReply(j))
  BY DEF GatewaySave, AbandonedReply, Own, pubVars
<1>11. QED
  BY <1>1, <1>2, <1>3, <1>4, <1>5, <1>6, <1>7, <1>8, <1>9, <1>10 DEF Next

(* When an answer arrives gatewayd has a snapshot. *)
LEMMA AnswerIsReady ==
  ASSUME IInv, Wired, GG!InForceInv, Answer, overlap # "now"
  PROVE  Ready
<1>1. job[call].pc \in {"applied", "unsaved"}
  BY AnswerApplied
<1>2. call \in Calls /\ job[call].bytes \in Configs /\ job[call].meta \in Configs
  BY <1>1 DEF Answer, Wired, Wiring, TypeOK, CallsCarryConfigs
<1>3. snapshot = [bytes |-> job[call].bytes, meta |-> job[call].meta]
  BY <1>1, <1>2 DEF GG!InForceInv, GG!Kept, GG!Jobs
<1>4. snapshot \in G!Labelled
  BY <1>2, <1>3 DEF G!Labelled
<1>5. QED
  BY <1>4, NoneAssumption DEF Ready

(* When the RPC fails the newest record says so. *)
LEMMA FailedIsMarked ==
  ASSUME IInv, inflight # None, publishes' = P!MarkLast(publishes, "failed")
  PROVE  publishes'[Len(publishes')].status = "failed"
<1>1. publishes \in Seq(PP!PublishRecord) /\ publishes # <<>>
  BY DEF IInv, PP!IInv, PP!TypeOK, PP!LedgerTail
<1>2. publishes' = PP!MarkLast(publishes, "failed") /\ "failed" \in PP!Statuses
  BY DEF P!MarkLast, PP!MarkLast, PP!Statuses
<1>3. /\ Len(publishes') = Len(publishes)
      /\ publishes'[Len(publishes)] = [publishes[Len(publishes)] EXCEPT !.status = "failed"]
  BY <1>1, <1>2, ComponentAssumptions, PP!MarkLastFacts
<1>4. publishes[Len(publishes)] \in PP!PublishRecord
  BY <1>1
<1>5. QED
  BY <1>3, <1>4 DEF PP!PublishRecord

-----------------------------------------------------------------------------
(* The theorems.                                                             *)

(* The publisher's mutex has an owner exactly while a publish is under way,  *)
(* and the job that will answer is one that works on what this publish has   *)
(* sent, whatever breaks or ends in between, with any number of calls, some  *)
(* of them before the restore has ended.                                     *)
THEOREM AnswersBelongToPublishes == Spec => []TypeOK
<1>1. SInv => TypeOK
  BY DEF SInv, Wired, Wiring
<1>2. QED
  BY <1>1, ServiceInvariance, PTL

(* What gatewayd serves is what the ledger says: the active revision when    *)
(* both daemons are connected and at rest, for otherwise somebody is going   *)
(* to publish it (maintainGatewayConnection, applyWatchedRevision,           *)
(* Daemon.Start); and the published snapshot when a record is marked         *)
(* observed.  Whether calls overlap or come before the restore has ended is  *)
(* part of the behaviour: from then on nothing is promised, until a call     *)
(* comes alone or gatewayd ends.                                             *)
THEOREM ServesWhatIsRecorded == Spec => ServedIsRecorded
<1>1. SInv => QuietServesActive
  <2> SUFFICES ASSUME SInv, Quiet, Ready, overlap # "now", ActiveConfig \in Compilable
               PROVE  snapshot.bytes = ActiveConfig
    BY DEF QuietServesActive
  <2>1. \A t \in Threads : thread[t].pc \in {"off", "idle"}
    BY DEF Quiet
  <2>2. ~SomePending /\ inflight = None
    BY <2>1 DEF SomePending, Pending, SInv, Wired, Wiring, TypeOK
  <2>3. AtRest
    BY <2>2 DEF SInv, Supplied, Quiet
  <2>4. QED
    BY <2>3 DEF AtRest
<1>2. SInv /\ [Next]_vars => [ObservedIsServed]_vars
  <2> SUFFICES ASSUME SInv, Next, inflight # None, inflight' = None, up',
                      publishes'[Len(publishes')].status = "observed", overlap # "now"
               PROVE  Ready /\ snapshot.bytes = inflight.snap
    BY DEF ObservedIsServed
  <2>1. IInv /\ Wired /\ GG!IInv /\ GG!InForceInv
    BY DEF SInv
  <2>2. Answer \/ NoAnswer
    BY PublishEnds
  <2>3. CASE Answer
    <3>1. snapshot.bytes = inflight.snap
      BY <2>1, <2>3, AnswerApplied
    <3>2. Ready
      BY <2>1, <2>3, AnswerIsReady
    <3>3. QED
      BY <3>1, <3>2
  <2>4. CASE NoAnswer
    <3>1. publishes' = P!MarkLast(publishes, "failed")
      BY <2>4 DEF NoAnswer, P!Failed
    <3>2. publishes'[Len(publishes')].status = "failed"
      BY <2>1, <3>1, FailedIsMarked
    <3>3. QED
      BY <3>2
  <2>5. QED
    BY <2>2, <2>3, <2>4
<1>3. SInv /\ SInv' /\ QuietServesActive' /\ [ObservedIsServed]_vars
        => [QuietServesActive' /\ ObservedIsServed]_vars
  OBVIOUS
<1>4. QED
  BY <1>1, <1>2, <1>3, ServiceInvariance, PTL DEF Spec, ServedIsRecorded
=============================================================================
