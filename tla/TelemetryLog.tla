----------------------------- MODULE TelemetryLog -----------------------------
(***************************************************************************)
(* telemetryd's event log and query store, and who writes them: AppendBatch*)
(* calls (eventlog/log.go), the projector of telemetryd                    *)
(* (telemetry/project/worker.go, query/store.go) and migrate-telemetry     *)
(* (cmd/migrate-telemetry), a process of its own that appends the rows of  *)
(* an older database and projects what the log holds, while telemetryd may *)
(* be running or not.  Both databases and the migration's checkpoint file  *)
(* are on disk.  A transaction is one action; SQLite lets one writer in at *)
(* a time, so ids are visible in the order they are given.                 *)
(***************************************************************************)
EXTENDS EventLog, FiniteSets, FiniteSetsExt, Functions

CONSTANTS
  Live,        \* the events gatewayd sends
  Shape,       \* Live -> Shapes
  RowShape,    \* what an imported row becomes
  Keys,        \* a minute, a model and a provider
  Batches,     \* the batches that AppendBatch receives, repeated ones too
  Limit,       \* 1000 in projectNewEvents
  MaxRows,     \* bound: rows of the old database
  MaxCrashes,  \* bound: how often telemetryd or the migration dies
  None

(* attempt: gateway.attempt.completed with a payload that parses.             *)
Shapes == [attempt : BOOLEAN, synthetic : BOOLEAN, key : Keys]

Projectors == {"run", "drain"}

ASSUME LogAssumption ==
  /\ Shape \in [Live -> Shapes] /\ RowShape \in Shapes
  /\ Batches \subseteq Seq(Live)
  /\ Limit \in Nat \ {0} /\ MaxRows \in Nat /\ MaxCrashes \in Nat

VARIABLES
  events,      \* the table events, by id
  facts,       \* the event ids in request_facts
  aggs,        \* agg_buckets: the requests of each key
  checkpoint,  \* projection_checkpoints.last_event_id
  proj,        \* the two projectors, see Projector
  rows,        \* the rows of the old database; it may still be in use
  import,      \* the migration: where it is, and what it has read
  saved,       \* its checkpoint file
  lost,        \* ghost: the rows of the old database whose insert has failed
  crashes

vars == <<events, facts, aggs, checkpoint, proj, rows, import, saved, lost, crashes>>

(* The fingerprint of the old database is a hash of the file: it differs      *)
(* whenever a row was added.  An imported row's event id is made of it.       *)
Fingerprints == 0..MaxRows
Imported == [print : Fingerprints, row : 1..MaxRows]
EventId == Live \cup Imported
ShapeOf(e) == IF e \in Live THEN Shape[e] ELSE RowShape

(* off: the process is not there.  idle: between two passes; lastID is kept   *)
(* in memory.  read: the rows after lastID have been read.                    *)
Projector == [at : {"off", "idle", "read"}, lastID : Nat, maxID : Nat]

Off == [at |-> "off", lastID |-> 0, maxID |-> 0]
Import == [at : {"off", "read", "appended"}, print : Fingerprints, after : 0..MaxRows, upto : 0..MaxRows]
NoImport == [at |-> "off", print |-> 0, after |-> 0, upto |-> 0]

TypeOK ==
  /\ events \in Seq(EventId) /\ facts \subseteq EventId
  /\ aggs \in [Keys -> Nat] /\ checkpoint \in Nat
  /\ proj \in [Projectors -> Projector]
  /\ rows \in 0..MaxRows /\ import \in Import
  /\ saved \in [print : Fingerprints \cup {None}, last : 0..MaxRows]
  /\ lost \subseteq 1..MaxRows /\ crashes \in 0..MaxCrashes

Init ==
  /\ events = <<>> /\ facts = {} /\ aggs = [k \in Keys |-> 0] /\ checkpoint = 0
  /\ proj = [p \in Projectors |-> Off]
  /\ rows \in 0..MaxRows /\ import = NoImport /\ saved = [print |-> None, last |-> 0]
  /\ lost = {} /\ crashes = 0

------------------------------------------------------------------------------
AppendBatch ==
  /\ proj["run"].at # "off"
  /\ \E batch \in Batches : \E failed \in SUBSET DOMAIN batch : events' = Appended(events, batch, failed)
  /\ UNCHANGED <<facts, aggs, checkpoint, proj, rows, import, saved, lost, crashes>>

(* telemetryd starts.  Run takes its place from the checkpoint, or begins at  *)
(* zero when it cannot read it.                                               *)
DaemonStarts ==
  /\ proj["run"].at = "off"
  /\ \E known \in {checkpoint, 0} : proj' = [proj EXCEPT !["run"] = [Off EXCEPT !.at = "idle", !.lastID = known]]
  /\ UNCHANGED <<events, facts, aggs, checkpoint, rows, import, saved, lost, crashes>>

DaemonStops ==
  /\ proj["run"].at # "off" /\ crashes < MaxCrashes
  /\ proj' = [proj EXCEPT !["run"] = Off]
  /\ crashes' = crashes + 1
  /\ UNCHANGED <<events, facts, aggs, checkpoint, rows, import, saved, lost>>

(* projectNewEvents, the query: at most Limit events after lastID.            *)
(* Mutant: the newest event is left for the next pass. *)
BugReadLeavesLast(p) ==
  /\ proj[p].at = "idle" /\ proj[p].lastID + 1 < Len(events)
  /\ proj' = [proj EXCEPT ![p].at = "read",
                          ![p].maxID = Min({Len(events) - 1, proj[p].lastID + Limit})]
  /\ UNCHANGED <<events, facts, aggs, checkpoint, rows, import, saved, lost, crashes>>

Read(p) ==
  /\ proj[p].at = "idle" /\ proj[p].lastID < Len(events)
  /\ proj' = [proj EXCEPT ![p].at = "read",
                          ![p].maxID = Min({Len(events), proj[p].lastID + Limit})]
  /\ UNCHANGED <<events, facts, aggs, checkpoint, rows, import, saved, lost, crashes>>

(* ApplyProjectionBatch: facts that are there already are ignored, only new   *)
(* ones count, and synthetic ones never; the checkpoint does not go back.     *)
(* When the transaction fails, Run reads again at the next tick.              *)
(* Mutant: INSERT OR REPLACE. *)
BugInsertedReplaces(p) ==
  {e \in {events[i] : i \in proj[p].lastID + 1 .. proj[p].maxID} : ShapeOf(e).attempt}

Inserted(p) ==
  {e \in {events[i] : i \in proj[p].lastID + 1 .. proj[p].maxID} : ShapeOf(e).attempt} \ facts

Counted(S, k) == Cardinality({e \in S : ~ShapeOf(e).synthetic /\ ShapeOf(e).key = k})

Apply(p) ==
  /\ proj[p].at = "read"
  /\ facts' = facts \cup Inserted(p)
  /\ aggs' = [k \in Keys |-> aggs[k] + Counted(Inserted(p), k)]
  /\ checkpoint' = Max({checkpoint, proj[p].maxID})
  /\ proj' = [proj EXCEPT ![p] = [at |-> "idle", lastID |-> proj[p].maxID, maxID |-> 0]]
  /\ UNCHANGED <<events, rows, import, saved, lost, crashes>>

ApplyFails ==
  /\ proj["run"].at = "read"
  /\ proj' = [proj EXCEPT !["run"] = [@ EXCEPT !.at = "idle", !.maxID = 0]]
  /\ UNCHANGED <<events, facts, aggs, checkpoint, rows, import, saved, lost, crashes>>

------------------------------------------------------------------------------
(* migrate.  The fingerprint is the checkpoint's, when it has one, and else   *)
(* that of the file; the rows are those after the checkpoint's last.          *)
SourceGrows ==
  /\ rows < MaxRows /\ rows' = rows + 1
  /\ UNCHANGED <<events, facts, aggs, checkpoint, proj, import, saved, lost, crashes>>

ImportReads ==
  /\ import.at = "off"
  /\ \E seen \in {rows, rows + 1} \cap Fingerprints :   \* a row may be added after the hash
       /\ rows' = seen
       /\ import' = [at |-> "read", print |-> IF saved.print = None THEN rows ELSE saved.print,
                     after |-> saved.last, upto |-> seen]
  /\ UNCHANGED <<events, facts, aggs, checkpoint, proj, saved, lost, crashes>>

ImportedRows ==
  [i \in 1..(import.upto - import.after) |-> [print |-> import.print, row |-> import.after + i]]

(* Append, whose count of dropped rows only goes into the report, then Drain  *)
(* loads the projection's checkpoint.                                         *)
ImportAppends ==
  /\ import.at = "read"
  /\ \E failed \in SUBSET DOMAIN ImportedRows :
       /\ events' = Appended(events, ImportedRows, failed)
       /\ lost' = lost \cup {ImportedRows[i].row : i \in failed}
  /\ import' = [import EXCEPT !.at = "appended"]
  /\ proj' = [proj EXCEPT !["drain"] = [Off EXCEPT !.at = "idle", !.lastID = checkpoint]]
  /\ UNCHANGED <<facts, aggs, checkpoint, rows, saved, crashes>>

(* Drain finds nothing more, and the checkpoint is saved if it moved.         *)
ImportEnds ==
  /\ import.at = "appended" /\ proj["drain"].at = "idle" /\ proj["drain"].lastID = Len(events)
  /\ saved' = IF import.upto > saved.last THEN [print |-> import.print, last |-> import.upto] ELSE saved
  /\ import' = NoImport
  /\ proj' = [proj EXCEPT !["drain"] = Off]
  /\ UNCHANGED <<events, facts, aggs, checkpoint, rows, lost, crashes>>

(* The migration dies, or one of its steps fails, before it is done.          *)
ImportAborts ==
  /\ import.at # "off" /\ crashes < MaxCrashes
  /\ import' = NoImport
  /\ proj' = [proj EXCEPT !["drain"] = Off]
  /\ crashes' = crashes + 1
  /\ UNCHANGED <<events, facts, aggs, checkpoint, rows, saved, lost>>

Next ==
  \/ AppendBatch \/ DaemonStarts \/ DaemonStops \/ ApplyFails
  \/ \E p \in Projectors : Read(p) \/ Apply(p)
  \/ SourceGrows \/ ImportReads \/ ImportAppends \/ ImportEnds \/ ImportAborts

Spec == Init /\ [][Next]_vars

(* Whoever runs the system starts telemetryd again; Run ticks, and its        *)
(* transactions succeed in the end; a migration that runs goes on.            *)
Fairness ==
  /\ WF_vars(DaemonStarts) /\ WF_vars(ImportAppends) /\ WF_vars(ImportEnds)
  /\ \A p \in Projectors : WF_vars(Read(p)) /\ SF_vars(Apply(p))

FairSpec == Spec /\ Fairness

------------------------------------------------------------------------------
(* Every event the checkpoint has passed is a fact: neither a restart, nor a  *)
(* checkpoint that could not be read, nor the two projectors passing one      *)
(* another make an event be skipped for good.                                 *)
CheckpointCovers ==
  \A i \in 1..checkpoint : ShapeOf(events[i]).attempt => events[i] \in facts

(* An event is counted in its bucket once, however often it is projected.     *)
AggregatesMatchFacts == \A k \in Keys : aggs[k] = Counted(facts, k)

(* A row the migration's checkpoint has passed is in the log, unless its      *)
(* insert failed: such a row is one of the dropped ones of a report, and no   *)
(* later migration reads it.  Every fact is in the log; the log has no event  *)
(* twice.                                                                     *)
ImportKept ==
  /\ \A r \in 1..saved.last \ lost : \E i \in DOMAIN events : events[i] \in Imported /\ events[i].row = r
  /\ \A e \in facts : \E i \in DOMAIN events : events[i] = e
  /\ IsInjective(events)

(* The three together: the query store says of the log what is in it.         *)
ProjectionSound == CheckpointCovers /\ AggregatesMatchFacts /\ ImportKept

(* Time and again every attempt in the log is a fact: no event stays behind.  *)
CaughtUp == \A i \in DOMAIN events : ShapeOf(events[i]).attempt => events[i] \in facts
EverythingProjected == []<>CaughtUp
==============================================================================
