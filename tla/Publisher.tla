------------------------------ MODULE Publisher ------------------------------
(***************************************************************************)
(* The revision ledger of controld (internal/control/publish).             *)
(*                                                                         *)
(* One Publisher object holds the revisions, the index of the active one,  *)
(* the publish records and the retention policy, all under one mutex that  *)
(* stays held across the ApplySnapshot RPC.  A publish is therefore two    *)
(* actions here: the one that stages the record and sends the snapshot,    *)
(* and the one that takes the answer; "inflight" is the publish that holds *)
(* the mutex in between, and every other operation waits for it.  A crash  *)
(* of the process may fall between the two.                                *)
(*                                                                         *)
(* A config is a member of Configs, the snapshot compiled from it is the   *)
(* same member: what a snapshot contains is of no interest here, only      *)
(* which config it was compiled from.                                      *)
(***************************************************************************)
EXTENDS Naturals, Sequences

CONSTANTS
  Configs,            \* authoring configs
  RevIds,             \* revision identifiers
  HashId,             \* revisionIDFromConfig: the identifier of a loaded config
  Compilable,         \* the configs the compiler accepts
  HistoryLimit,       \* admin.publish_history_limit of a normalised config
  LegacyConfigs,      \* the configs an older release may have left in its JSON file
  DefaultLimit,       \* core.DefaultAdminPublishHistoryLimit
  GatewayConfigured,  \* NewPublisher was given a gateway RPC client
  SavesMayFail,       \* the state store may return an error
  None                \* stands for nil, "" and -1

ASSUME ConfigAssumption ==
  /\ Compilable \subseteq Configs
  /\ LegacyConfigs \subseteq Configs
  /\ HashId \in [Configs -> RevIds]
  /\ HistoryLimit \in [Configs -> Nat \ {0}]
  /\ DefaultLimit \in Nat \ {0}
  /\ GatewayConfigured \in BOOLEAN
  /\ SavesMayFail \in BOOLEAN
  /\ None \notin Configs
  /\ None \notin RevIds

VARIABLES
  up,         \* the process runs and has loaded its state
  revisions,  \* the revisions, in the order they were added
  active,     \* activeIdx, 0 for none
  limit,      \* policy.PublishHistoryLimit
  publishes,  \* the publish records, oldest first
  inflight,   \* the publish that holds the mutex, or None
  disk,       \* publisher-state.db, or None
  legacy      \* publisher-state.json left by an older release, or None

vars == <<up, revisions, active, limit, publishes, inflight, disk, legacy>>

(* UpdateConfig draws identifiers of another form than revisionIDFromConfig. *)
FreshIds == RevIds \ {HashId[c] : c \in Configs}

Kinds == {"publish", "rollback"}
Statuses == {"staged", "observed", "failed"}

Revision == [id : RevIds, config : Configs, snap : Configs \cup {None}]
PublishRecord == [rev : RevIds, snap : Configs, kind : Kinds, status : Statuses]
PublisherState == [active    : RevIds \cup {None},
                   revisions : Seq(Revision),
                   publishes : Seq(PublishRecord)]
Inflight == [idx : Nat, snap : Configs, kind : Kinds, update : BOOLEAN]

-----------------------------------------------------------------------------
(* Helpers.  A definition whose name begins with Bug is never used by the  *)
(* specification: it is what the definition after it would be with a       *)
(* plausible mistake, and shows that a property would notice.              *)

(* The index of the revision with this identifier, 0 if there is none.  The *)
(* code takes the first; identifiers are distinct (DiskRestorable below).   *)
FindRevision(revs, id) ==
  IF \E i \in 1..Len(revs) : revs[i].id = id
  THEN CHOOSE i \in 1..Len(revs) : revs[i].id = id
  ELSE 0

BugTrimNewest(pubs, lim) ==
  IF Len(pubs) <= lim THEN pubs ELSE SubSeq(pubs, 1, lim)

(* The newest lim records. *)
Trim(pubs, lim) ==
  IF Len(pubs) <= lim THEN pubs
  ELSE SubSeq(pubs, (Len(pubs) - lim) + 1, Len(pubs))

(* The retention limit once the revision at index act is active. *)
PolicyOf(revs, act, old) ==
  IF act = 0 THEN old ELSE HistoryLimit[revs[act].config]

(* What persistStateLocked writes. *)
Image(revs, act, pubs) ==
  [active    |-> IF act = 0 THEN None ELSE revs[act].id,
   revisions |-> revs,
   publishes |-> pubs]

(* A save replaces the stored state in one transaction, or fails whole. *)
Persist(revs, act, pubs) ==
  \/ disk' = Image(revs, act, pubs)
  \/ SavesMayFail /\ UNCHANGED disk

DistinctIds(revs) ==
  \A i, j \in 1..Len(revs) : revs[i].id = revs[j].id => i = j

(* The checks of restoreStateLocked. *)
Restorable(st) ==
  /\ DistinctIds(st.revisions)
  /\ st.active # None => \E i \in 1..Len(st.revisions) : st.revisions[i].id = st.active

SeedRevision(c) == [id |-> HashId[c], config |-> c, snap |-> None]

BugMarkOldest(pubs, status) == [pubs EXCEPT ![1].status = status]

(* The record publishRevisionLocked points to is completed. *)
MarkLast(pubs, status) == [pubs EXCEPT ![Len(pubs)].status = status]

-----------------------------------------------------------------------------

EmptyMemory ==
  /\ revisions = <<>>
  /\ active = 0
  /\ limit = DefaultLimit
  /\ publishes = <<>>
  /\ inflight = None

Init ==
  /\ up = FALSE
  /\ EmptyMemory
  /\ disk = None
  /\ legacy \in {None} \cup {Image(<<SeedRevision(c)>>, 1, <<>>) : c \in LegacyConfigs}

(* MigratingStateStore.Load: the database, or the JSON file of old releases. *)
Stored == IF disk # None THEN disk ELSE legacy

(* Start with a stored state: LoadState and restoreStateLocked.  A state taken *)
(* from the JSON file is copied into the database, as far as that succeeds.    *)
LoadState ==
  /\ ~up
  /\ Stored # None
  /\ Restorable(Stored)
  /\ up' = TRUE
  /\ revisions' = Stored.revisions
  /\ active' = FindRevision(Stored.revisions, Stored.active)
  /\ limit' = PolicyOf(revisions', active', DefaultLimit)
  /\ publishes' = Trim(Stored.publishes, limit')
  /\ IF disk # None THEN UNCHANGED disk
     ELSE disk' = legacy \/ (SavesMayFail /\ UNCHANGED disk)
  /\ UNCHANGED <<inflight, legacy>>

(* Start without one: the config file becomes the only revision.  When the *)
(* save fails the daemon does not start.                                   *)
SeedInitialRevision(c) ==
  /\ ~up
  /\ Stored = None
  /\ up' = TRUE
  /\ revisions' = <<SeedRevision(c)>>
  /\ active' = 1
  /\ limit' = HistoryLimit[c]
  /\ disk' = Image(revisions', 1, publishes)
  /\ UNCHANGED <<publishes, inflight, legacy>>

BugUpsertAppends(revs, c) == Append(revs, SeedRevision(c))

(* A revision with the identifier of c is replaced whole, the snapshot that *)
(* was compiled for it included.                                            *)
UpsertRevisions(revs, c) ==
  LET i == FindRevision(revs, HashId[c]) IN
  IF i = 0 THEN Append(revs, SeedRevision(c))
  ELSE [revs EXCEPT ![i] = SeedRevision(c)]

(* UpsertRevision with activate set, as the reload of the config file calls *)
(* it: the revision is active before anything is compiled or published.     *)
UpsertRevision(c) ==
  /\ up /\ inflight = None
  /\ revisions' = UpsertRevisions(revisions, c)
  /\ active' = FindRevision(revisions', HashId[c])
  /\ limit' = PolicyOf(revisions', active', limit)
  /\ publishes' = Trim(publishes, limit')
  /\ Persist(revisions', active', publishes')
  /\ UNCHANGED <<up, inflight, legacy>>

BugStageNextIndex(revs, idx, snap, kind, update) ==
  /\ revisions' = [revs EXCEPT ![idx].snap = snap]
  /\ publishes' = Trim(Append(publishes, [rev |-> revs[idx].id, snap |-> snap,
                                          kind |-> kind, status |-> "staged"]),
                       limit)
  /\ inflight' = [idx |-> idx + 1, snap |-> snap, kind |-> kind, update |-> update]
  /\ Persist(revisions', active, publishes')
  /\ UNCHANGED <<up, active, limit, legacy>>

(* The first half of publishRevisionLocked, for the revision at index idx of *)
(* revs whose compiled snapshot is snap: stage a record, trim, save, send.   *)
Stage(revs, idx, snap, kind, update) ==
  /\ revisions' = [revs EXCEPT ![idx].snap = snap]
  /\ publishes' = Trim(Append(publishes, [rev |-> revs[idx].id, snap |-> snap,
                                          kind |-> kind, status |-> "staged"]),
                       limit)
  /\ inflight' = [idx |-> idx, snap |-> snap, kind |-> kind, update |-> update]
  /\ Persist(revisions', active, publishes')
  /\ UNCHANGED <<up, active, limit, legacy>>

(* Publish and Rollback.  compileSnapshotLocked reuses the revision's compiled *)
(* snapshot; a config that does not compile returns an error and leaves no     *)
(* trace, so there is no step for it.                                          *)
BeginPublish(id, kind) ==
  LET i == FindRevision(revisions, id)
      rev == revisions[i] IN
  /\ up /\ inflight = None
  /\ i # 0
  /\ rev.snap # None \/ rev.config \in Compilable
  /\ Stage(revisions, i, IF rev.snap # None THEN rev.snap ELSE rev.config, kind, FALSE)

(* UpdateConfig: compile and validate first, then append a revision under a *)
(* fresh identifier and publish it.                                         *)
BeginUpdate(c, id) ==
  /\ up /\ inflight = None
  /\ c \in Compilable
  /\ FindRevision(revisions, id) = 0
  /\ Stage(Append(revisions, [id |-> id, config |-> c, snap |-> c]),
           Len(revisions) + 1, c, "publish", TRUE)

(* The gateway answered Applied: the record is observed, the revision becomes *)
(* active and its policy takes effect.                                        *)
Observed ==
  /\ up /\ inflight # None
  /\ GatewayConfigured
  /\ active' = inflight.idx
  /\ limit' = PolicyOf(revisions, active', limit)
  /\ publishes' = Trim(MarkLast(publishes, "observed"), limit')
  /\ inflight' = None
  /\ Persist(revisions, active', publishes')
  /\ UNCHANGED <<up, revisions, legacy>>

BugFailedUnsaved ==
  /\ up /\ inflight # None
  /\ GatewayConfigured
  /\ publishes' = MarkLast(publishes, "failed")
  /\ inflight' = None
  /\ UNCHANGED <<up, revisions, active, limit, disk, legacy>>

(* The call failed, or the gateway answered that it did not apply the snapshot. *)
Failed ==
  /\ up /\ inflight # None
  /\ GatewayConfigured
  /\ publishes' = MarkLast(publishes, "failed")
  /\ inflight' = None
  /\ Persist(revisions, active, publishes')
  /\ UNCHANGED <<up, revisions, active, limit, legacy>>

(* There is no gateway client: the record fails, and UpdateConfig takes the *)
(* revision it had appended out of memory, after the last save.             *)
NoGateway ==
  /\ up /\ inflight # None
  /\ ~GatewayConfigured
  /\ publishes' = MarkLast(publishes, "failed")
  /\ revisions' = IF inflight.update THEN SubSeq(revisions, 1, inflight.idx - 1)
                  ELSE revisions
  /\ inflight' = None
  /\ Persist(revisions, active, publishes')
  /\ UNCHANGED <<up, active, limit, legacy>>

(* The process ends, in the middle of a publish or not. *)
Crash ==
  /\ up
  /\ up' = FALSE
  /\ revisions' = <<>>
  /\ active' = 0
  /\ limit' = DefaultLimit
  /\ publishes' = <<>>
  /\ inflight' = None
  /\ UNCHANGED <<disk, legacy>>

Next ==
  \/ LoadState
  \/ \E c \in Configs : SeedInitialRevision(c)
  \/ \E c \in Configs : UpsertRevision(c)
  \/ \E id \in RevIds, kind \in Kinds : BeginPublish(id, kind)
  \/ \E c \in Configs, id \in FreshIds : BeginUpdate(c, id)
  \/ Observed
  \/ Failed
  \/ NoGateway
  \/ Crash

Spec == Init /\ [][Next]_vars
-----------------------------------------------------------------------------
(* Properties. *)

(* Every variable has its type, and activeIdx and the index the publish in    *)
(* progress keeps across the RPC point into the ledger.                       *)
TypeOK ==
  /\ up \in BOOLEAN
  /\ revisions \in Seq(Revision)
  /\ active \in 0..Len(revisions)
  /\ limit \in Nat \ {0}
  /\ publishes \in Seq(PublishRecord)
  /\ inflight \in {None} \cup Inflight
  /\ inflight # None => inflight.idx \in 1..Len(revisions)
  /\ disk \in {None} \cup PublisherState
  /\ legacy \in {None} \cup PublisherState

(* While publishRevisionLocked waits for the gateway, the record its pointer  *)
(* "pub" will complete is the newest of the ledger, still staged, and names   *)
(* the revision and the snapshot that were sent: no trim has dropped it.      *)
LedgerTail ==
  inflight # None =>
    /\ publishes # <<>>
    /\ publishes[Len(publishes)] = [rev    |-> revisions[inflight.idx].id,
                                    snap   |-> inflight.snap,
                                    kind   |-> inflight.kind,
                                    status |-> "staged"]

(* syncPolicyFromActiveRevisionLocked: the retention limit in force is the    *)
(* active revision's, and the ledger respects it, after every operation.      *)
RetentionFollowsActive ==
  up => /\ Len(publishes) <= limit
        /\ active # 0 => limit = HistoryLimit[revisions[active].config]

(* compileSnapshotLocked caches the compiled snapshot in the revision: the    *)
(* cache is never that of a config the revision no longer has, and what is    *)
(* being published is compiled from the config the revision has now.          *)
SnapshotIsCurrent ==
  /\ \A i \in 1..Len(revisions) : revisions[i].snap \in {None, revisions[i].config}
  /\ inflight # None => inflight.snap = revisions[inflight.idx].config

(* The ledger in memory is sound: its history, its length, its snapshots.     *)
LedgerSound == LedgerTail /\ RetentionFollowsActive /\ SnapshotIsCurrent

(* Whatever was saved last can be restored: restoreStateLocked never refuses  *)
(* the state this program wrote, whenever the process ended.                  *)
DiskRestorable ==
  \A st \in {disk, legacy} : st # None => Restorable(st)

(* With a store that does not fail, the stored state is the state in memory   *)
(* whenever no publish is in progress, so a restart loses nothing.            *)
DiskIsCurrent ==
  (up /\ inflight = None) => disk = Image(revisions, active, publishes)

RevisionIds(revs) == {revs[i].id : i \in 1..Len(revs)}

(* Every record of the publish history names a revision the ledger still has, *)
(* so that any published configuration can be rolled back to.                 *)
HistoryResolvable ==
  \A i \in 1..Len(publishes) : publishes[i].rev \in RevisionIds(revisions)

(* What is stored and what it is stored for: a restart is never refused, loses *)
(* nothing, and any published configuration can be gone back to.              *)
DiskSound == DiskRestorable /\ DiskIsCurrent /\ HistoryResolvable

(* The inductive invariant: what the properties above need to survive every   *)
(* step.  Identifiers are distinct; nothing is in memory while the process is *)
(* down; a revision being added by UpdateConfig is the last one and is not    *)
(* active; and what is stored is as consistent as what is in memory.          *)
LedgerConsistent ==
  /\ DistinctIds(revisions)
  /\ ~up => EmptyMemory
  /\ inflight # None /\ inflight.update =>
       /\ inflight.idx = Len(revisions)
       /\ active < inflight.idx
  /\ \A st \in {disk, legacy} : st # None =>
       \A i \in 1..Len(st.revisions) :
         st.revisions[i].snap \in {None, st.revisions[i].config}

(* new is old without some of its oldest records, with a staged newest record *)
(* completed or one staged record added.                                      *)
LedgerExtends(old, new) ==
  \E k \in 0..Len(old) :
    LET kept == SubSeq(old, k + 1, Len(old)) IN
    \/ new = kept
    \/ /\ kept # <<>>
       /\ kept[Len(kept)].status = "staged"
       /\ \E status \in {"observed", "failed"} :
            new = [kept EXCEPT ![Len(kept)].status = status]
    \/ /\ new # <<>>
       /\ new[Len(new)].status = "staged"
       /\ SubSeq(new, 1, Len(new) - 1) = kept

(* The publish history is append-only and loses only its oldest records: a    *)
(* completed record is never rewritten, by any operation.                     *)
HistoryAppendOnly ==
  [][up /\ up' => LedgerExtends(publishes, publishes')]_vars

(* A publish moves the active revision only to the revision it published and  *)
(* only when the gateway has accepted its snapshot (publishRevisionLocked).   *)
PublishActivatesObserved ==
  [][(up /\ up' /\ inflight # None /\ active' # active) =>
        /\ active' = inflight.idx
        /\ publishes' # <<>>
        /\ publishes'[Len(publishes')] =
             [rev    |-> revisions[inflight.idx].id, snap |-> inflight.snap,
              kind   |-> inflight.kind, status |-> "observed"]]_vars

(* What no operation may do to the ledger, taken together.                    *)
LedgerSteps == HistoryAppendOnly /\ PublishActivatesObserved
=============================================================================
