--------------------------- MODULE PublisherProofs ---------------------------
(***************************************************************************)
(* Proofs about the revision ledger, for every set of configs, every       *)
(* assignment of identifiers and retention limits, with or without a       *)
(* gateway, and whether or not the store fails.                            *)
(***************************************************************************)
EXTENDS Publisher, TLAPS

(* What the helpers return. *)

(* trimPublishesLocked keeps the newest record and respects the limit. *)
LEMMA TrimFacts ==
  ASSUME NEW S, NEW pubs \in Seq(S), NEW lim \in Nat \ {0}
  PROVE  /\ Trim(pubs, lim) \in Seq(S)
         /\ Len(Trim(pubs, lim)) <= lim
         /\ pubs # <<>> => /\ Trim(pubs, lim) # <<>>
                           /\ Trim(pubs, lim)[Len(Trim(pubs, lim))] = pubs[Len(pubs)]
<1>1. CASE Len(pubs) <= lim
  BY <1>1 DEF Trim
<1>2. CASE ~(Len(pubs) <= lim)
  BY <1>2 DEF Trim
<1>3. QED
  BY <1>1, <1>2

(* findRevisionLocked returns a revision with the identifier, or none has it. *)
LEMMA FindRevisionFacts ==
  ASSUME NEW revs \in Seq(Revision), NEW id
  PROVE  /\ FindRevision(revs, id) \in 0..Len(revs)
         /\ FindRevision(revs, id) # 0 => revs[FindRevision(revs, id)].id = id
         /\ FindRevision(revs, id) = 0 => \A i \in 1..Len(revs) : revs[i].id # id
  BY DEF FindRevision

(* Completing the newest record keeps the others and the length. *)
LEMMA MarkLastFacts ==
  ASSUME NEW pubs \in Seq(PublishRecord), pubs # <<>>, NEW status \in Statuses
  PROVE  /\ MarkLast(pubs, status) \in Seq(PublishRecord)
         /\ Len(MarkLast(pubs, status)) = Len(pubs)
         /\ MarkLast(pubs, status)[Len(pubs)] = [pubs[Len(pubs)] EXCEPT !.status = status]
<1> DEFINE n == Len(pubs)
           rec == [pubs[n] EXCEPT !.status = status]
<1>1. n \in 1..Len(pubs) /\ pubs[n] \in PublishRecord
  OBVIOUS
<1>2. rec \in PublishRecord
  BY <1>1 DEF PublishRecord
<1>3. MarkLast(pubs, status) = [pubs EXCEPT ![n] = rec]
  BY DEF MarkLast
<1>4. QED
  BY <1>1, <1>2, <1>3

(* A seeded revision is a revision that has not been compiled. *)
LEMMA SeedRevisionFacts ==
  ASSUME NEW c \in Configs
  PROVE  /\ SeedRevision(c) \in Revision
         /\ SeedRevision(c).id = HashId[c]
         /\ SeedRevision(c).snap = None
         /\ SeedRevision(c).config = c
  BY ConfigAssumption DEF SeedRevision, Revision

(* UpsertRevision leaves a ledger with distinct identifiers in which the     *)
(* identifier of the config names an uncompiled revision with that config.   *)
LEMMA UpsertFacts ==
  ASSUME NEW revs \in Seq(Revision), DistinctIds(revs), NEW c \in Configs
  PROVE  /\ UpsertRevisions(revs, c) \in Seq(Revision)
         /\ DistinctIds(UpsertRevisions(revs, c))
         /\ FindRevision(UpsertRevisions(revs, c), HashId[c])
              \in 1..Len(UpsertRevisions(revs, c))
         /\ \A i \in 1..Len(UpsertRevisions(revs, c)) :
              \/ UpsertRevisions(revs, c)[i].snap = None
              \/ i \in 1..Len(revs) /\ UpsertRevisions(revs, c)[i] = revs[i]
<1> DEFINE i == FindRevision(revs, HashId[c])
           new == UpsertRevisions(revs, c)
<1>1. /\ i \in 0..Len(revs)
      /\ i # 0 => revs[i].id = HashId[c]
      /\ i = 0 => \A j \in 1..Len(revs) : revs[j].id # HashId[c]
  BY FindRevisionFacts
<1>2. CASE i = 0
  <2>1. new = Append(revs, SeedRevision(c))
    BY <1>2 DEF UpsertRevisions
  <2>2. /\ new \in Seq(Revision)
        /\ Len(new) = Len(revs) + 1
        /\ new[Len(new)] = SeedRevision(c)
        /\ \A j \in 1..Len(revs) : new[j] = revs[j]
    BY <2>1, SeedRevisionFacts
  <2>3. DistinctIds(new)
    BY <2>2, <1>1, <1>2, SeedRevisionFacts DEF DistinctIds
  <2>4. FindRevision(new, HashId[c]) # 0
    BY <2>2, SeedRevisionFacts, FindRevisionFacts
  <2>5. FindRevision(new, HashId[c]) \in 1..Len(new)
    BY <2>2, <2>4, FindRevisionFacts
  <2>6. QED
    BY <2>2, <2>3, <2>5, SeedRevisionFacts
<1>3. CASE i # 0
  <2>1. new = [revs EXCEPT ![i] = SeedRevision(c)]
    BY <1>3 DEF UpsertRevisions
  <2>2. /\ new \in Seq(Revision)
        /\ Len(new) = Len(revs)
        /\ new[i] = SeedRevision(c)
        /\ \A j \in 1..Len(revs) : j # i => new[j] = revs[j]
    BY <2>1, <1>1, <1>3, SeedRevisionFacts
  <2>3. \A j \in 1..Len(revs) : new[j].id = revs[j].id
    BY <2>2, <1>1, <1>3, SeedRevisionFacts
  <2>4. DistinctIds(new)
    BY <2>2, <2>3 DEF DistinctIds
  <2>5. FindRevision(new, HashId[c]) # 0
    BY <2>2, <1>1, <1>3, SeedRevisionFacts, FindRevisionFacts
  <2>6. FindRevision(new, HashId[c]) \in 1..Len(new)
    BY <2>2, <2>5, FindRevisionFacts
  <2>7. QED
    BY <2>2, <2>4, <2>6, SeedRevisionFacts
<1>4. QED
  BY <1>2, <1>3

-----------------------------------------------------------------------------
(* The inductive invariant. *)

IInv ==
  /\ TypeOK
  /\ LedgerTail
  /\ RetentionFollowsActive
  /\ SnapshotIsCurrent
  /\ DiskRestorable
  /\ LedgerConsistent

(* A stored state is absent or restorable, with up to date snapshots. *)
StoredOK(st) ==
  st # None =>
    /\ st \in PublisherState
    /\ Restorable(st)
    /\ \A i \in 1..Len(st.revisions) :
         st.revisions[i].snap \in {None, st.revisions[i].config}

(* What a successful save writes is such a state. *)
LEMMA ImageFacts ==
  ASSUME NEW revs \in Seq(Revision), NEW act \in 0..Len(revs),
         NEW pubs \in Seq(PublishRecord), DistinctIds(revs),
         \A i \in 1..Len(revs) : revs[i].snap \in {None, revs[i].config}
  PROVE  StoredOK(Image(revs, act, pubs)) /\ Image(revs, act, pubs) \in PublisherState
<1>1. Image(revs, act, pubs) \in PublisherState
  <2>1. ASSUME act # 0 PROVE revs[act].id \in RevIds
    <3>1. revs[act] \in Revision
      BY <2>1
    <3>2. QED
      BY <3>1 DEF Revision
  <2>2. QED
    BY <2>1 DEF Image, PublisherState
<1>2. Restorable(Image(revs, act, pubs))
  BY DEF Restorable, Image
<1>3. QED
  BY <1>1, <1>2 DEF StoredOK, Image

(* Whether or not the save succeeds, the stored state stays such a state. *)
LEMMA PersistFacts ==
  ASSUME disk \in {None} \cup PublisherState, StoredOK(disk),
         NEW revs \in Seq(Revision), NEW act \in 0..Len(revs),
         NEW pubs \in Seq(PublishRecord), DistinctIds(revs),
         \A i \in 1..Len(revs) : revs[i].snap \in {None, revs[i].config},
         Persist(revs, act, pubs)
  PROVE  disk' \in {None} \cup PublisherState /\ StoredOK(disk')
<1>1. CASE disk' = Image(revs, act, pubs)
  BY <1>1, ImageFacts
<1>2. CASE disk' = disk
  BY <1>2
<1>3. QED
  BY <1>1, <1>2 DEF Persist

(* The parts of the invariant about the stored states, and about the ledger. *)
StoresInv ==
  /\ disk \in {None} \cup PublisherState /\ StoredOK(disk)
  /\ legacy \in {None} \cup PublisherState /\ StoredOK(legacy)

RevisionsInv ==
  /\ revisions \in Seq(Revision)
  /\ DistinctIds(revisions)
  /\ \A i \in 1..Len(revisions) : revisions[i].snap \in {None, revisions[i].config}
  /\ active \in 0..Len(revisions)

RetentionInv ==
  /\ limit \in Nat \ {0}
  /\ publishes \in Seq(PublishRecord)
  /\ up => /\ Len(publishes) <= limit
           /\ active # 0 => limit = HistoryLimit[revisions[active].config]

InflightInv ==
  inflight # None =>
    /\ inflight \in Inflight
    /\ inflight.idx \in 1..Len(revisions)
    /\ inflight.snap = revisions[inflight.idx].config
    /\ inflight.update => inflight.idx = Len(revisions) /\ active < inflight.idx
    /\ publishes # <<>>
    /\ publishes[Len(publishes)] = [rev    |-> revisions[inflight.idx].id,
                                    snap   |-> inflight.snap,
                                    kind   |-> inflight.kind,
                                    status |-> "staged"]

DownInv == up \in BOOLEAN /\ (~up => EmptyMemory)

(* The invariant, regrouped. *)
LEMMA IInvParts ==
  IInv <=> StoresInv /\ RevisionsInv /\ RetentionInv /\ InflightInv /\ DownInv
  BY DEF IInv, TypeOK, LedgerTail, RetentionFollowsActive, SnapshotIsCurrent,
         DiskRestorable, LedgerConsistent, StoresInv, RevisionsInv, RetentionInv,
         InflightInv, DownInv, StoredOK

LEMMA IInvPartsNext ==
  IInv' <=> StoresInv' /\ RevisionsInv' /\ RetentionInv' /\ InflightInv' /\ DownInv'
  BY DEF IInv, TypeOK, LedgerTail, RetentionFollowsActive, SnapshotIsCurrent,
         DiskRestorable, LedgerConsistent, StoresInv, RevisionsInv, RetentionInv,
         InflightInv, DownInv, StoredOK

LEMMA InitIInv == Init => IInv
<1> SUFFICES ASSUME Init PROVE IInv
  OBVIOUS
<1>1. legacy \in {None} \cup PublisherState /\ StoredOK(legacy)
  <2>1. CASE legacy = None
    BY <2>1 DEF StoredOK
  <2>2. ASSUME NEW c \in LegacyConfigs, legacy = Image(<<SeedRevision(c)>>, 1, <<>>)
        PROVE  legacy \in PublisherState /\ StoredOK(legacy)
    <3>1. c \in Configs
      BY ConfigAssumption
    <3> DEFINE revs == <<SeedRevision(c)>>
    <3>2. /\ revs \in Seq(Revision)
          /\ Len(revs) = 1
          /\ revs[1].snap = None
      BY <3>1, SeedRevisionFacts
    <3>3. 1 \in 0..Len(revs) /\ <<>> \in Seq(PublishRecord)
      BY <3>2
    <3> HIDE DEF revs
    <3>4. /\ DistinctIds(revs)
          /\ \A i \in 1..Len(revs) : revs[i].snap \in {None, revs[i].config}
      BY <3>2 DEF DistinctIds
    <3>5. StoredOK(Image(revs, 1, <<>>)) /\ Image(revs, 1, <<>>) \in PublisherState
      BY <3>2, <3>3, <3>4, ImageFacts
    <3>6. QED
      BY <2>2, <3>5 DEF revs
  <2>3. QED
    BY <2>1, <2>2 DEF Init
<1>2. StoresInv
  BY <1>1 DEF StoresInv, StoredOK, Init
<1>3. RevisionsInv
  BY DEF RevisionsInv, Init, EmptyMemory, DistinctIds
<1>4. RetentionInv
  BY ConfigAssumption DEF RetentionInv, Init, EmptyMemory
<1>5. InflightInv /\ DownInv
  BY DEF InflightInv, DownInv, Init, EmptyMemory
<1>6. QED
  BY <1>2, <1>3, <1>4, <1>5, IInvParts

-----------------------------------------------------------------------------
(* Every action preserves the invariant. *)

LEMMA LoadStateIInv == IInv /\ LoadState => IInv'
<1> SUFFICES ASSUME IInv, LoadState PROVE IInv'
  OBVIOUS
<1> DEFINE st == Stored
<1>1. StoresInv /\ DownInv
  BY IInvParts
<1>2. /\ st # None /\ st \in PublisherState /\ StoredOK(st)
      /\ st.revisions \in Seq(Revision)
      /\ st.publishes \in Seq(PublishRecord)
  BY <1>1 DEF LoadState, Stored, StoresInv, PublisherState
<1>3. StoresInv'
  BY <1>1 DEF LoadState, StoresInv, Stored
<1>4. RevisionsInv'
  <2>1. active' \in 0..Len(st.revisions)
    BY <1>2, FindRevisionFacts DEF LoadState
  <2>2. QED
    BY <1>2, <2>1 DEF LoadState, RevisionsInv, StoredOK, Restorable
<1>5. limit' \in Nat \ {0} /\ (active' # 0 => limit' = HistoryLimit[revisions'[active'].config])
  <2>1. ASSUME active' # 0 PROVE revisions'[active'].config \in Configs
    <3>1. revisions'[active'] \in Revision
      BY <1>4, <2>1 DEF RevisionsInv
    <3>2. QED
      BY <3>1 DEF Revision
  <2>2. QED
    BY <2>1, ConfigAssumption DEF LoadState, PolicyOf
<1>6. RetentionInv'
  BY <1>2, <1>5, TrimFacts DEF LoadState, RetentionInv
<1>7. InflightInv' /\ DownInv'
  BY <1>1 DEF LoadState, InflightInv, DownInv, EmptyMemory
<1>8. QED
  BY <1>3, <1>4, <1>6, <1>7, IInvPartsNext

LEMMA SeedIInv ==
  ASSUME NEW c \in Configs, IInv, SeedInitialRevision(c)
  PROVE  IInv'
<1> DEFINE revs == <<SeedRevision(c)>>
<1>1. StoresInv /\ DownInv /\ publishes = <<>> /\ inflight = None
  BY IInvParts DEF DownInv, EmptyMemory, SeedInitialRevision
<1>2. /\ revs \in Seq(Revision) /\ Len(revs) = 1
      /\ revs[1].snap = None /\ revs[1].config = c
  BY SeedRevisionFacts
<1>3. revisions' = revs /\ active' = 1 /\ limit' = HistoryLimit[c] /\ up' = TRUE
  BY DEF SeedInitialRevision
<1> HIDE DEF revs
<1>4. /\ DistinctIds(revs) /\ 1 \in 0..Len(revs) /\ <<>> \in Seq(PublishRecord)
      /\ \A i \in 1..Len(revs) : revs[i].snap \in {None, revs[i].config}
  BY <1>2 DEF DistinctIds
<1>5. StoresInv'
  <2>1. disk' = Image(revs, 1, <<>>) /\ legacy' = legacy
    BY <1>1, <1>3 DEF SeedInitialRevision
  <2>2. QED
    BY <1>1, <1>2, <1>4, <2>1, ImageFacts DEF StoresInv
<1>6. RevisionsInv'
  BY <1>2, <1>3, <1>4 DEF RevisionsInv
<1>7. RetentionInv'
  BY <1>1, <1>2, <1>3, <1>4, ConfigAssumption DEF RetentionInv, SeedInitialRevision
<1>8. InflightInv' /\ DownInv'
  BY <1>1, <1>3 DEF SeedInitialRevision, InflightInv, DownInv
<1>9. QED
  BY <1>5, <1>6, <1>7, <1>8, IInvPartsNext

LEMMA UpsertIInv ==
  ASSUME NEW c \in Configs, IInv, UpsertRevision(c)
  PROVE  IInv'
<1> DEFINE new == UpsertRevisions(revisions, c)
<1>1. StoresInv /\ RevisionsInv /\ RetentionInv /\ DownInv /\ up /\ inflight = None
  BY IInvParts DEF UpsertRevision
<1>2. /\ revisions' = new /\ active' = FindRevision(new, HashId[c])
      /\ limit' = PolicyOf(revisions', active', limit)
      /\ publishes' = Trim(publishes, limit')
      /\ Persist(revisions', active', publishes')
      /\ up' = up /\ inflight' = inflight /\ legacy' = legacy
  BY DEF UpsertRevision
<1>3. /\ new \in Seq(Revision) /\ DistinctIds(new)
      /\ FindRevision(new, HashId[c]) \in 1..Len(new)
      /\ \A i \in 1..Len(new) :
           new[i].snap = None \/ (i \in 1..Len(revisions) /\ new[i] = revisions[i])
  BY <1>1, UpsertFacts DEF RevisionsInv
<1> HIDE DEF new
<1>4. RevisionsInv'
  BY <1>1, <1>2, <1>3 DEF RevisionsInv
<1>5. limit' \in Nat \ {0} /\ active' # 0 /\ limit' = HistoryLimit[revisions'[active'].config]
  <2>1. revisions'[active'] \in Revision /\ active' # 0
    BY <1>2, <1>3
  <2>2. QED
    BY <1>2, <2>1, ConfigAssumption DEF PolicyOf, Revision
<1>6. RetentionInv'
  BY <1>1, <1>2, <1>5, TrimFacts DEF RetentionInv
<1>7. StoresInv'
  <2>1. disk' \in {None} \cup PublisherState /\ StoredOK(disk')
    BY <1>1, <1>2, <1>4, <1>6, PersistFacts DEF StoresInv, RevisionsInv, RetentionInv
  <2>2. QED
    BY <1>1, <1>2, <2>1 DEF StoresInv
<1>8. InflightInv' /\ DownInv'
  BY <1>1, <1>2 DEF InflightInv, DownInv
<1>9. QED
  BY <1>4, <1>6, <1>7, <1>8, IInvPartsNext

(* Stage, which both Publish and UpdateConfig end in. *)
LEMMA StageIInv ==
  ASSUME StoresInv, DownInv, RetentionInv, up, active \in 0..Len(revisions),
         NEW revs \in Seq(Revision), DistinctIds(revs),
         \A i \in 1..Len(revs) : revs[i].snap \in {None, revs[i].config},
         active \in 0..Len(revs),
         active # 0 => revs[active].config = revisions[active].config,
         NEW idx \in 1..Len(revs), NEW snap \in Configs, snap = revs[idx].config,
         NEW kind \in Kinds,
         NEW update \in BOOLEAN, update => idx = Len(revs) /\ active < idx,
         Stage(revs, idx, snap, kind, update)
  PROVE  IInv'
<1> DEFINE new == [revs EXCEPT ![idx].snap = snap]
           rec == [rev |-> revs[idx].id, snap |-> snap, kind |-> kind, status |-> "staged"]
<1>1. /\ revisions' = new
      /\ publishes' = Trim(Append(publishes, rec), limit)
      /\ inflight' = [idx |-> idx, snap |-> snap, kind |-> kind, update |-> update]
      /\ Persist(revisions', active, publishes')
      /\ up' = up /\ active' = active /\ limit' = limit /\ legacy' = legacy
  BY DEF Stage
<1>2. /\ new \in Seq(Revision)
      /\ Len(new) = Len(revs)
      /\ \A i \in 1..Len(revs) : new[i].id = revs[i].id /\ new[i].config = revs[i].config
      /\ \A i \in 1..Len(revs) : new[i].snap \in {None, new[i].config}
  <2>1. \A i \in 1..Len(revs) : revs[i] \in Revision
    OBVIOUS
  <2>2. [revs[idx] EXCEPT !.snap = snap] \in Revision
    BY <2>1 DEF Revision
  <2>3. new = [revs EXCEPT ![idx] = [revs[idx] EXCEPT !.snap = snap]]
    OBVIOUS
  <2>4. QED
    BY <2>1, <2>2, <2>3 DEF Revision
<1> HIDE DEF new
<1>3. rec \in PublishRecord
  <2>1. revs[idx] \in Revision
    OBVIOUS
  <2>2. QED
    BY <2>1 DEF Revision, PublishRecord, Statuses
<1> HIDE DEF rec
<1>4. RevisionsInv'
  <2>1. DistinctIds(new)
    BY <1>2 DEF DistinctIds
  <2>2. QED
    BY <1>1, <1>2, <2>1 DEF RevisionsInv
<1>5. /\ publishes' \in Seq(PublishRecord) /\ Len(publishes') <= limit
      /\ publishes' # <<>> /\ publishes'[Len(publishes')] = rec
  <2>1. /\ Append(publishes, rec) \in Seq(PublishRecord)
        /\ Append(publishes, rec) # <<>>
        /\ Append(publishes, rec)[Len(Append(publishes, rec))] = rec
    BY <1>3 DEF RetentionInv
  <2>2. QED
    BY <1>1, <2>1, TrimFacts DEF RetentionInv
<1>6. RetentionInv'
  BY <1>1, <1>2, <1>5 DEF RetentionInv
<1>7. StoresInv'
  <2>1. disk' \in {None} \cup PublisherState /\ StoredOK(disk')
    BY <1>1, <1>4, <1>5, PersistFacts DEF StoresInv, RevisionsInv
  <2>2. QED
    BY <1>1, <2>1 DEF StoresInv
<1>8. InflightInv'
  BY <1>1, <1>2, <1>5 DEF InflightInv, Inflight, rec
<1>9. DownInv'
  BY <1>1 DEF DownInv
<1>10. QED
  BY <1>4, <1>6, <1>7, <1>8, <1>9, IInvPartsNext

LEMMA BeginPublishIInv ==
  ASSUME NEW id \in RevIds, NEW kind \in Kinds, IInv, BeginPublish(id, kind)
  PROVE  IInv'
<1> DEFINE i == FindRevision(revisions, id)
           rev == revisions[i]
           snap == IF rev.snap # None THEN rev.snap ELSE rev.config
<1>1. StoresInv /\ RevisionsInv /\ RetentionInv /\ DownInv
  BY IInvParts
<1>2. up /\ i # 0 /\ Stage(revisions, i, snap, kind, FALSE)
  BY DEF BeginPublish
<1> HIDE DEF i
<1>3. i \in 1..Len(revisions)
  <2>1. revisions \in Seq(Revision)
    BY <1>1 DEF RevisionsInv
  <2>2. i \in 0..Len(revisions)
    BY <2>1, FindRevisionFacts DEF i
  <2>3. QED
    BY <1>2, <2>1, <2>2
<1>4. snap \in Configs /\ snap = revisions[i].config
  <2>1. revisions[i] \in Revision /\ rev.snap \in {None, rev.config}
    BY <1>1, <1>3 DEF RevisionsInv
  <2>2. QED
    BY <2>1 DEF Revision
<1> HIDE DEF snap
<1>5. QED
  BY <1>1, <1>2, <1>3, <1>4, StageIInv DEF RevisionsInv

LEMMA BeginUpdateIInv ==
  ASSUME NEW c \in Configs, NEW id \in RevIds, IInv, BeginUpdate(c, id)
  PROVE  IInv'
<1> DEFINE rec == [id |-> id, config |-> c, snap |-> c]
           revs == Append(revisions, rec)
<1>1. StoresInv /\ RevisionsInv /\ RetentionInv /\ DownInv
  BY IInvParts
<1>2. /\ up /\ Stage(revs, Len(revisions) + 1, c, "publish", TRUE)
      /\ \A i \in 1..Len(revisions) : revisions[i].id # id
  BY <1>1, FindRevisionFacts DEF BeginUpdate, RevisionsInv
<1>3. /\ rec \in Revision /\ rec.id = id /\ rec.snap = c /\ rec.config = c
      /\ revisions \in Seq(Revision)
  BY <1>1 DEF Revision, RevisionsInv
<1> HIDE DEF rec
<1>4. /\ revs \in Seq(Revision)
      /\ Len(revs) = Len(revisions) + 1
      /\ revs[Len(revisions) + 1] = rec
      /\ \A i \in 1..Len(revisions) : revs[i] = revisions[i]
  BY <1>3
<1> HIDE DEF revs
<1> DEFINE n == Len(revisions)
<1>5. n \in Nat /\ active \in 0..n /\ 1..Len(revs) = 1..(n + 1)
  BY <1>1, <1>3, <1>4 DEF RevisionsInv
<1>6. DistinctIds(revs)
  <2> SUFFICES ASSUME NEW i \in 1..(n + 1), NEW j \in 1..(n + 1), revs[i].id = revs[j].id
               PROVE  i = j
    BY <1>5 DEF DistinctIds
  <2>1. CASE i \in 1..n /\ j \in 1..n
    BY <2>1, <1>1, <1>4 DEF DistinctIds, RevisionsInv
  <2>2. CASE i = n + 1 \/ j = n + 1
    BY <2>2, <1>2, <1>3, <1>4, <1>5
  <2>3. QED
    BY <2>1, <2>2, <1>5
<1>7. \A i \in 1..Len(revs) : revs[i].snap \in {None, revs[i].config}
  <2> SUFFICES ASSUME NEW i \in 1..(n + 1) PROVE revs[i].snap \in {None, revs[i].config}
    BY <1>5
  <2>1. CASE i \in 1..n
    BY <2>1, <1>1, <1>4 DEF RevisionsInv
  <2>2. CASE i = n + 1
    BY <2>2, <1>3, <1>4
  <2>3. QED
    BY <2>1, <2>2, <1>5
<1>8. /\ active \in 0..n /\ active \in 0..Len(revs)
      /\ active # 0 => revs[active].config = revisions[active].config
      /\ active < n + 1
      /\ n + 1 \in 1..Len(revs) /\ n + 1 = Len(revs)
  BY <1>4, <1>5
<1>9. "publish" \in Kinds /\ c = revs[n + 1].config
  BY <1>3, <1>4 DEF Kinds
<1>10. QED
  BY <1>1, <1>2, <1>4, <1>6, <1>7, <1>8, <1>9, StageIInv

(* What both answers need: the record that is completed, and its completion. *)
LEMMA CompletionFacts ==
  ASSUME IInv, up, inflight # None, NEW status \in Statuses
  PROVE  /\ StoresInv /\ RevisionsInv /\ RetentionInv /\ InflightInv /\ DownInv
         /\ MarkLast(publishes, status) \in Seq(PublishRecord)
         /\ Len(MarkLast(publishes, status)) = Len(publishes)
         /\ MarkLast(publishes, status) # <<>>
         /\ MarkLast(publishes, status)[Len(publishes)] =
              [rev    |-> revisions[inflight.idx].id, snap   |-> inflight.snap,
               kind   |-> inflight.kind,              status |-> status]
<1>1. StoresInv /\ RevisionsInv /\ RetentionInv /\ InflightInv /\ DownInv
  BY IInvParts
<1>2. publishes \in Seq(PublishRecord) /\ publishes # <<>>
  BY <1>1 DEF RetentionInv, InflightInv
<1>3. /\ MarkLast(publishes, status) \in Seq(PublishRecord)
      /\ Len(MarkLast(publishes, status)) = Len(publishes)
      /\ MarkLast(publishes, status)[Len(publishes)] =
           [publishes[Len(publishes)] EXCEPT !.status = status]
  BY <1>2, MarkLastFacts
<1>4. MarkLast(publishes, status) # <<>>
  BY <1>2, <1>3
<1>5. publishes[Len(publishes)] =
        [rev    |-> revisions[inflight.idx].id, snap   |-> inflight.snap,
         kind   |-> inflight.kind,              status |-> "staged"]
  BY <1>1 DEF InflightInv
<1>6. QED
  BY <1>1, <1>3, <1>4, <1>5

LEMMA ObservedIInv == IInv /\ Observed => IInv'
<1> SUFFICES ASSUME IInv, Observed PROVE IInv'
  OBVIOUS
<1> DEFINE done == MarkLast(publishes, "observed")
<1>1. /\ up /\ inflight # None /\ up' = up /\ revisions' = revisions /\ legacy' = legacy
      /\ active' = inflight.idx /\ limit' = PolicyOf(revisions, active', limit)
      /\ publishes' = Trim(done, limit') /\ inflight' = None
      /\ Persist(revisions, active', publishes')
  BY DEF Observed
<1>2. /\ StoresInv /\ RevisionsInv /\ RetentionInv /\ InflightInv /\ DownInv
      /\ done \in Seq(PublishRecord)
  BY <1>1, CompletionFacts DEF Statuses
<1> HIDE DEF done
<1>3. active' \in 1..Len(revisions)
  BY <1>1, <1>2 DEF InflightInv
<1>4. limit' \in Nat \ {0} /\ limit' = HistoryLimit[revisions[active'].config]
  <2>1. revisions[active'] \in Revision
    BY <1>2, <1>3 DEF RevisionsInv
  <2>2. QED
    BY <1>1, <1>3, <2>1, ConfigAssumption DEF PolicyOf, Revision
<1>5. RevisionsInv'
  BY <1>1, <1>2, <1>3 DEF RevisionsInv
<1>6. RetentionInv'
  BY <1>1, <1>2, <1>4, TrimFacts DEF RetentionInv
<1>7. StoresInv'
  <2>1. disk' \in {None} \cup PublisherState /\ StoredOK(disk')
    BY <1>1, <1>2, <1>5, <1>6, PersistFacts DEF StoresInv, RevisionsInv, RetentionInv
  <2>2. QED
    BY <1>1, <1>2, <2>1 DEF StoresInv
<1>8. InflightInv' /\ DownInv'
  BY <1>1, <1>2 DEF InflightInv, DownInv
<1>9. QED
  BY <1>5, <1>6, <1>7, <1>8, IInvPartsNext

LEMMA FailedIInv == IInv /\ Failed => IInv'
<1> SUFFICES ASSUME IInv, Failed PROVE IInv'
  OBVIOUS
<1>1. /\ up /\ inflight # None /\ up' = up /\ revisions' = revisions /\ legacy' = legacy
      /\ active' = active /\ limit' = limit
      /\ publishes' = MarkLast(publishes, "failed") /\ inflight' = None
      /\ Persist(revisions, active, publishes')
  BY DEF Failed
<1>2. /\ StoresInv /\ RevisionsInv /\ RetentionInv /\ DownInv
      /\ publishes' \in Seq(PublishRecord) /\ Len(publishes') = Len(publishes)
  BY <1>1, CompletionFacts DEF Statuses
<1>3. RevisionsInv' /\ RetentionInv'
  BY <1>1, <1>2 DEF RevisionsInv, RetentionInv
<1>4. StoresInv'
  <2>1. disk' \in {None} \cup PublisherState /\ StoredOK(disk')
    BY <1>1, <1>2, PersistFacts DEF StoresInv, RevisionsInv
  <2>2. QED
    BY <1>1, <1>2, <2>1 DEF StoresInv
<1>5. InflightInv' /\ DownInv'
  BY <1>1, <1>2 DEF InflightInv, DownInv
<1>6. QED
  BY <1>3, <1>4, <1>5, IInvPartsNext

(* The save of UpdateConfig's failure comes before its revision is dropped. *)
LEMMA NoGatewayIInv == IInv /\ NoGateway => IInv'
<1> SUFFICES ASSUME IInv, NoGateway PROVE IInv'
  OBVIOUS
<1>1. /\ up /\ inflight # None /\ up' = up /\ legacy' = legacy
      /\ revisions' = IF inflight.update THEN SubSeq(revisions, 1, inflight.idx - 1)
                      ELSE revisions
      /\ active' = active /\ limit' = limit
      /\ publishes' = MarkLast(publishes, "failed") /\ inflight' = None
      /\ Persist(revisions, active, publishes')
  BY DEF NoGateway
<1>2. /\ StoresInv /\ RevisionsInv /\ RetentionInv /\ InflightInv /\ DownInv
      /\ publishes' \in Seq(PublishRecord) /\ Len(publishes') = Len(publishes)
  BY <1>1, CompletionFacts DEF Statuses
<1>3. StoresInv'
  <2>1. disk' \in {None} \cup PublisherState /\ StoredOK(disk')
    BY <1>1, <1>2, PersistFacts DEF StoresInv, RevisionsInv
  <2>2. QED
    BY <1>1, <1>2, <2>1 DEF StoresInv
<1>4. CASE inflight.update
  <2> DEFINE n == inflight.idx - 1
             kept == SubSeq(revisions, 1, n)
  <2>1. n \in 0..Len(revisions) /\ active \in 0..n
    BY <1>1, <1>2, <1>4 DEF InflightInv, RevisionsInv
  <2>2. /\ kept \in Seq(Revision) /\ Len(kept) = n
        /\ \A i \in 1..n : kept[i] = revisions[i]
    BY <1>2, <2>1 DEF RevisionsInv
  <2>3. revisions' = kept
    BY <1>1, <1>4
  <2> HIDE DEF kept, n
  <2>4. RevisionsInv'
    <3>1. Len(revisions) \in Nat /\ \A i \in 1..n : i \in 1..Len(revisions)
      BY <1>2, <2>1 DEF RevisionsInv
    <3>2. DistinctIds(kept)
      BY <1>2, <2>2, <3>1 DEF RevisionsInv, DistinctIds
    <3>3. \A i \in 1..Len(kept) : kept[i].snap \in {None, kept[i].config}
      BY <1>2, <2>2, <3>1 DEF RevisionsInv
    <3>4. QED
      BY <1>1, <2>1, <2>2, <2>3, <3>2, <3>3 DEF RevisionsInv
  <2>5. RetentionInv'
    <3>1. active # 0 => kept[active] = revisions[active]
      BY <1>2, <2>1, <2>2 DEF RevisionsInv
    <3>2. QED
      BY <1>1, <1>2, <2>3, <3>1 DEF RetentionInv
  <2>6. QED
    BY <2>4, <2>5, <1>1, <1>2, <1>3, IInvPartsNext DEF InflightInv, DownInv
<1>5. CASE ~inflight.update
  <2>1. RevisionsInv' /\ RetentionInv'
    BY <1>1, <1>2, <1>5 DEF RevisionsInv, RetentionInv
  <2>2. QED
    BY <2>1, <1>1, <1>2, <1>3, IInvPartsNext DEF InflightInv, DownInv
<1>6. QED
  BY <1>4, <1>5

LEMMA CrashIInv == IInv /\ Crash => IInv'
<1> SUFFICES ASSUME IInv, Crash PROVE IInv'
  OBVIOUS
<1>1. StoresInv
  BY IInvParts
<1>2. StoresInv'
  BY <1>1 DEF Crash, StoresInv
<1>3. RevisionsInv' /\ RetentionInv' /\ InflightInv' /\ DownInv'
  <2>1. RevisionsInv'
    BY DEF Crash, RevisionsInv, DistinctIds
  <2>2. RetentionInv'
    BY ConfigAssumption DEF Crash, RetentionInv
  <2>3. InflightInv' /\ DownInv'
    BY DEF Crash, InflightInv, DownInv, EmptyMemory
  <2>4. QED
    BY <2>1, <2>2, <2>3
<1>4. QED
  BY <1>2, <1>3, IInvPartsNext

LEMMA StutterIInv == IInv /\ UNCHANGED vars => IInv'
  BY IInvParts, IInvPartsNext DEF vars, StoresInv, RevisionsInv, RetentionInv,
     InflightInv, DownInv, EmptyMemory

LEMMA NextIInv == IInv /\ [Next]_vars => IInv'
<1> SUFFICES ASSUME IInv, [Next]_vars PROVE IInv'
  OBVIOUS
<1>1. CASE LoadState
  BY <1>1, LoadStateIInv
<1>2. ASSUME NEW c \in Configs, SeedInitialRevision(c) PROVE IInv'
  BY <1>2, SeedIInv
<1>3. ASSUME NEW c \in Configs, UpsertRevision(c) PROVE IInv'
  BY <1>3, UpsertIInv
<1>4. ASSUME NEW id \in RevIds, NEW kind \in Kinds, BeginPublish(id, kind) PROVE IInv'
  BY <1>4, BeginPublishIInv
<1>5. ASSUME NEW c \in Configs, NEW id \in FreshIds, BeginUpdate(c, id) PROVE IInv'
  BY <1>5, BeginUpdateIInv DEF FreshIds
<1>6. CASE Observed
  BY <1>6, ObservedIInv
<1>7. CASE Failed
  BY <1>7, FailedIInv
<1>8. CASE NoGateway
  BY <1>8, NoGatewayIInv
<1>9. CASE Crash
  BY <1>9, CrashIInv
<1>10. CASE UNCHANGED vars
  BY <1>10, StutterIInv
<1>11. QED
  BY <1>1, <1>2, <1>3, <1>4, <1>5, <1>6, <1>7, <1>8, <1>9, <1>10 DEF Next

-----------------------------------------------------------------------------
(* A second invariant, on top of the first: while the process runs there is  *)
(* an active revision, and every stored state names one.                     *)

NamesActive(st) == st # None => st.active # None

ActiveInv ==
  /\ up => active # 0
  /\ NamesActive(disk) /\ NamesActive(legacy)

(* What is saved with an active revision names it. *)
LEMMA PersistNamesActive ==
  ASSUME NamesActive(disk), NEW revs \in Seq(Revision), NEW act \in 1..Len(revs),
         NEW pubs, Persist(revs, act, pubs)
  PROVE  NamesActive(disk')
<1>1. revs[act] \in Revision
  OBVIOUS
<1>2. revs[act].id # None
  BY <1>1, ConfigAssumption DEF Revision
<1>3. Image(revs, act, pubs).active # None
  BY <1>2 DEF Image
<1>4. QED
  BY <1>3 DEF Persist, NamesActive

LEMMA InitActiveInv == Init => ActiveInv
<1> SUFFICES ASSUME Init PROVE ActiveInv
  OBVIOUS
<1>1. ASSUME NEW c \in LegacyConfigs
      PROVE  Image(<<SeedRevision(c)>>, 1, <<>>).active # None
  <2>1. c \in Configs
    BY ConfigAssumption
  <2>2. SeedRevision(c).id # None
    BY <2>1, SeedRevisionFacts, ConfigAssumption
  <2>3. QED
    BY <2>2 DEF Image
<1>2. QED
  BY <1>1 DEF Init, ActiveInv, NamesActive

LEMMA StageActiveInv ==
  ASSUME IInv', ActiveInv, up, active \in Nat, NEW revs, NEW idx, NEW snap, NEW kind, NEW update,
         Stage(revs, idx, snap, kind, update)
  PROVE  ActiveInv'
<1>1. /\ revisions' \in Seq(Revision) /\ active' = active /\ active \in 1..Len(revisions')
      /\ legacy' = legacy /\ Persist(revisions', active, publishes') /\ up' = up
  BY IInvPartsNext DEF Stage, RevisionsInv, ActiveInv
<1>2. QED
  BY <1>1, PersistNamesActive DEF ActiveInv

LEMMA NextActiveInv == IInv /\ ActiveInv /\ [Next]_vars => ActiveInv'
<1> SUFFICES ASSUME IInv, ActiveInv, [Next]_vars PROVE ActiveInv'
  OBVIOUS
<1>1. /\ IInv' /\ RevisionsInv /\ RevisionsInv' /\ InflightInv /\ StoresInv
      /\ revisions \in Seq(Revision) /\ revisions' \in Seq(Revision) /\ active \in Nat
  BY NextIInv, IInvParts, IInvPartsNext DEF RevisionsInv
<1>2. CASE LoadState
  <2> DEFINE st == Stored
  <2>1. st # None /\ st.active # None /\ Restorable(st) /\ st.revisions \in Seq(Revision)
    BY <1>1, <1>2 DEF LoadState, Stored, ActiveInv, NamesActive, StoresInv, PublisherState
  <2>2. FindRevision(st.revisions, st.active) # 0
    BY <2>1, FindRevisionFacts DEF Restorable
  <2>3. NamesActive(disk') /\ NamesActive(legacy')
    BY <1>2 DEF LoadState, ActiveInv
  <2>4. QED
    BY <1>2, <2>2, <2>3 DEF LoadState, ActiveInv
<1>3. ASSUME NEW c \in Configs, SeedInitialRevision(c) PROVE ActiveInv'
  <2>1. HashId[c] # None
    BY ConfigAssumption
  <2>2. disk' # None => disk'.active # None
    BY <1>3, <2>1 DEF SeedInitialRevision, Image, SeedRevision
  <2>3. QED
    BY <1>3, <2>2 DEF SeedInitialRevision, ActiveInv, NamesActive
<1>4. ASSUME NEW c \in Configs, UpsertRevision(c) PROVE ActiveInv'
  <2>1. active' \in 1..Len(revisions')
    BY <1>1, <1>4, UpsertFacts DEF UpsertRevision, RevisionsInv
  <2>2. NamesActive(disk')
    BY <1>1, <1>4, <2>1, PersistNamesActive DEF UpsertRevision, ActiveInv
  <2>3. QED
    BY <1>4, <2>1, <2>2 DEF UpsertRevision, ActiveInv
<1>5. ASSUME NEW id \in RevIds, NEW kind \in Kinds, BeginPublish(id, kind) PROVE ActiveInv'
  BY <1>1, <1>5, StageActiveInv DEF BeginPublish
<1>6. ASSUME NEW c \in Configs, NEW id \in FreshIds, BeginUpdate(c, id) PROVE ActiveInv'
  BY <1>1, <1>6, StageActiveInv DEF BeginUpdate
<1>7. CASE Observed
  <2>1. active' \in 1..Len(revisions) /\ up' = up /\ legacy' = legacy
        /\ Persist(revisions, active', publishes')
    BY <1>1, <1>7 DEF Observed, InflightInv
  <2>2. QED
    BY <1>1, <2>1, PersistNamesActive DEF ActiveInv
<1>8. CASE Failed
  <2>1. active \in 1..Len(revisions) /\ active' = active /\ up' = up /\ legacy' = legacy
        /\ Persist(revisions, active, publishes')
    BY <1>1, <1>8 DEF Failed, ActiveInv, RevisionsInv
  <2>2. QED
    BY <1>1, <2>1, PersistNamesActive DEF ActiveInv
<1>9. CASE NoGateway
  <2>1. active' = active /\ up' = up /\ up /\ legacy' = legacy
        /\ Persist(revisions, active, publishes')
    BY <1>9 DEF NoGateway
  <2>2. active \in 1..Len(revisions)
    BY <1>1, <2>1 DEF ActiveInv, RevisionsInv
  <2>3. QED
    BY <1>1, <2>1, <2>2, PersistNamesActive DEF ActiveInv
<1>10. CASE Crash
  BY <1>10 DEF Crash, ActiveInv
<1>11. CASE UNCHANGED vars
  BY <1>11 DEF vars, ActiveInv, NamesActive
<1>12. QED
  BY <1>2, <1>3, <1>4, <1>5, <1>6, <1>7, <1>8, <1>9, <1>10, <1>11 DEF Next

-----------------------------------------------------------------------------
(* The theorems. *)

(* The inductive invariant holds in every state of the publisher: after any   *)
(* number of publishes, rollbacks, reloads, failed saves, crashes, restarts.  *)
THEOREM LedgerInvariance == Spec => []IInv
<1>1. Init => IInv
  BY InitIInv
<1>2. IInv /\ [Next]_vars => IInv'
  BY NextIInv
<1>3. QED
  BY <1>1, <1>2, PTL DEF Spec

(* The types, and the indices activeIdx and revIdx (publishRevisionLocked)    *)
(* always point into the ledger.                                              *)
THEOREM TypeCorrectness == Spec => []TypeOK
<1>1. IInv => TypeOK
  BY DEF IInv
<1>2. QED
  BY <1>1, LedgerInvariance, PTL

(* The record publishRevisionLocked completes after the RPC is the one it     *)
(* staged, whatever the retention limits are: trimPublishesLocked never drops *)
(* it while the call is under way.                                            *)
THEOREM StagedRecordSurvives == Spec => []LedgerTail
<1>1. IInv => LedgerTail
  BY DEF IInv
<1>2. QED
  BY <1>1, LedgerInvariance, PTL

(* The retention limit is the active revision's and the history respects it.  *)
THEOREM RetentionCorrect == Spec => []RetentionFollowsActive
<1>1. IInv => RetentionFollowsActive
  BY DEF IInv
<1>2. QED
  BY <1>1, LedgerInvariance, PTL

(* compileSnapshotLocked's cache is never stale.                              *)
THEOREM SnapshotsAreCurrent == Spec => []SnapshotIsCurrent
<1>1. IInv => SnapshotIsCurrent
  BY DEF IInv
<1>2. QED
  BY <1>1, LedgerInvariance, PTL

(* The three together: what the ledger in memory is, between any two steps.   *)
THEOREM LedgerIsSound == Spec => []LedgerSound
<1>1. IInv => LedgerSound
  BY DEF IInv, LedgerSound
<1>2. QED
  BY <1>1, LedgerInvariance, PTL

(* restoreStateLocked accepts whatever the program stored, whenever it ended  *)
(* and whichever saves failed.                                                *)
THEOREM StoredStateRestorable == Spec => []DiskRestorable
<1>1. IInv => DiskRestorable
  BY DEF IInv
<1>2. QED
  BY <1>1, LedgerInvariance, PTL

(* A publisher that runs has an active revision, and a state it stored names  *)
(* one, so that a restart has one again.                                      *)
THEOREM ActiveRevisionExists == Spec => []ActiveInv
<1>1. IInv /\ ActiveInv /\ [Next]_vars => ActiveInv'
  BY NextActiveInv
<1>2. QED
  BY <1>1, InitActiveInv, LedgerInvariance, PTL DEF Spec

(* Inside a publish only Observed moves the active revision, and the newest   *)
(* record then says that the gateway took the snapshot of that revision.      *)
THEOREM ActivationNeedsGateway == Spec => PublishActivatesObserved
<1> DEFINE Moves == (up /\ up' /\ inflight # None /\ active' # active) =>
        /\ active' = inflight.idx
        /\ publishes' # <<>>
        /\ publishes'[Len(publishes')] =
             [rev    |-> revisions[inflight.idx].id, snap |-> inflight.snap,
              kind   |-> inflight.kind, status |-> "observed"]
<1>1. IInv /\ [Next]_vars => Moves
  <2> SUFFICES ASSUME IInv, [Next]_vars, up, up', inflight # None, active' # active
               PROVE  Moves
    OBVIOUS
  <2>1. Observed
    BY DEF Next, vars, LoadState, SeedInitialRevision, UpsertRevision, BeginPublish,
           BeginUpdate, Failed, NoGateway, Crash
  <2> DEFINE done == MarkLast(publishes, "observed")
  <2>2. /\ RevisionsInv /\ InflightInv /\ RetentionInv
        /\ done \in Seq(PublishRecord) /\ done # <<>>
        /\ Len(done) = Len(publishes)
        /\ done[Len(publishes)] =
              [rev    |-> revisions[inflight.idx].id, snap   |-> inflight.snap,
               kind   |-> inflight.kind,              status |-> "observed"]
    BY CompletionFacts DEF Statuses
  <2>3. active' = inflight.idx /\ publishes' = Trim(done, limit')
    BY <2>1 DEF Observed
  <2>4. limit' \in Nat \ {0}
    <3>1. IInv'
      BY <2>1, ObservedIInv
    <3>2. QED
      BY <3>1 DEF IInv, TypeOK
  <2> HIDE DEF done
  <2>5. publishes' # <<>> /\ publishes'[Len(publishes')] = done[Len(done)]
    BY <2>2, <2>3, <2>4, TrimFacts
  <2>6. QED
    BY <2>2, <2>3, <2>5
<1>2. QED
  BY <1>1, LedgerInvariance, PTL DEF Spec, PublishActivatesObserved, Moves

-----------------------------------------------------------------------------
(* The history. *)

(* trimPublishesLocked drops oldest records only, and never all of them. *)
LEMMA TrimIsSuffix ==
  ASSUME NEW S, NEW pubs \in Seq(S), NEW lim \in Nat \ {0}
  PROVE  \E k \in 0..Len(pubs) :
           /\ Trim(pubs, lim) = SubSeq(pubs, k + 1, Len(pubs))
           /\ pubs # <<>> => k < Len(pubs)
<1>1. CASE Len(pubs) <= lim
  <2>1. Trim(pubs, lim) = SubSeq(pubs, 0 + 1, Len(pubs))
    BY <1>1 DEF Trim
  <2>2. QED
    BY <2>1
<1>2. CASE ~(Len(pubs) <= lim)
  <2> DEFINE k == Len(pubs) - lim
  <2>1. k \in 0..Len(pubs) /\ k < Len(pubs)
    BY <1>2
  <2>2. Trim(pubs, lim) = SubSeq(pubs, k + 1, Len(pubs))
    BY <1>2 DEF Trim
  <2>3. QED
    BY <2>1, <2>2
<1>3. QED
  BY <1>1, <1>2

(* What is left when the oldest k records are dropped. *)
LEMMA DropFacts ==
  ASSUME NEW S, NEW s \in Seq(S), NEW k \in 0..Len(s)
  PROVE  /\ SubSeq(s, k + 1, Len(s)) \in Seq(S)
         /\ Len(SubSeq(s, k + 1, Len(s))) = Len(s) - k
         /\ \A i \in 1..(Len(s) - k) : SubSeq(s, k + 1, Len(s))[i] = s[i + k]
<1>1. Len(s) \in Nat /\ k \in Nat /\ k <= Len(s) /\ \A i \in 1..Len(s) : s[i] \in S
  OBVIOUS
<1>2. \A i \in (k + 1)..Len(s) : s[i] \in S
  BY <1>1
<1>3. QED
  BY <1>1, <1>2

(* What is left without the newest record. *)
LEMMA FrontFacts ==
  ASSUME NEW S, NEW s \in Seq(S), s # <<>>
  PROVE  /\ SubSeq(s, 1, Len(s) - 1) \in Seq(S)
         /\ Len(SubSeq(s, 1, Len(s) - 1)) = Len(s) - 1
         /\ \A i \in 1..(Len(s) - 1) : SubSeq(s, 1, Len(s) - 1)[i] = s[i]
<1> DEFINE m == Len(s) - 1
<1>1. m \in Nat /\ \A i \in 1..m : s[i] \in S
  OBVIOUS
<1> HIDE DEF m
<1>2. /\ SubSeq(s, 1, m) \in Seq(S) /\ Len(SubSeq(s, 1, m)) = m
      /\ \A i \in 1..m : SubSeq(s, 1, m)[i] = s[i]
  BY <1>1
<1>3. QED
  BY <1>2 DEF m

(* Two sequences with the same elements are equal. *)
LEMMA SameSequence ==
  ASSUME NEW S, NEW s \in Seq(S), NEW t \in Seq(S), Len(s) = Len(t),
         \A i \in 1..Len(s) : s[i] = t[i]
  PROVE  s = t
  OBVIOUS

(* A trim, as UpsertRevision does it, is an allowed step of the history. *)
LEMMA TrimExtends ==
  ASSUME NEW pubs \in Seq(PublishRecord), NEW lim \in Nat \ {0}
  PROVE  LedgerExtends(pubs, Trim(pubs, lim))
  BY TrimIsSuffix DEF LedgerExtends

(* So is no change at all. *)
LEMMA SameExtends ==
  ASSUME NEW pubs \in Seq(PublishRecord)
  PROVE  LedgerExtends(pubs, pubs)
<1>1. pubs = SubSeq(pubs, 0 + 1, Len(pubs)) /\ 0 \in 0..Len(pubs)
  OBVIOUS
<1>2. QED
  BY <1>1 DEF LedgerExtends

(* So is the staged record of Stage, with the trim behind it. *)
LEMMA StageExtends ==
  ASSUME NEW pubs \in Seq(PublishRecord), NEW rec \in PublishRecord,
         rec.status = "staged", NEW lim \in Nat \ {0}
  PROVE  LedgerExtends(pubs, Trim(Append(pubs, rec), lim))
<1> DEFINE all == Append(pubs, rec)
           new == Trim(all, lim)
<1>1. all \in Seq(PublishRecord) /\ all # <<>> /\ Len(all) = Len(pubs) + 1
      /\ all[Len(all)] = rec /\ \A i \in 1..Len(pubs) : all[i] = pubs[i]
  OBVIOUS
<1>2. PICK k \in 0..Len(all) : new = SubSeq(all, k + 1, Len(all)) /\ k < Len(all)
  BY <1>1, TrimIsSuffix
<1>3. k \in 0..Len(pubs)
  BY <1>1, <1>2
<1> HIDE DEF all, new
<1>4. /\ new \in Seq(PublishRecord) /\ Len(new) = Len(all) - k
      /\ \A i \in 1..Len(new) : new[i] = all[i + k]
  BY <1>1, <1>2, DropFacts
<1>5. new # <<>> /\ new[Len(new)].status = "staged"
  <2>1. Len(new) \in 1..Len(new) /\ Len(new) + k = Len(all)
    BY <1>1, <1>2, <1>4
  <2>2. new[Len(new)] = rec
    BY <2>1, <1>1, <1>4
  <2>3. QED
    BY <2>1, <2>2
<1> DEFINE kept == SubSeq(pubs, k + 1, Len(pubs))
           shorter == SubSeq(new, 1, Len(new) - 1)
<1>6. /\ kept \in Seq(PublishRecord) /\ Len(kept) = Len(pubs) - k
      /\ \A i \in 1..Len(kept) : kept[i] = pubs[i + k]
  BY <1>3, DropFacts
<1>7. /\ shorter \in Seq(PublishRecord) /\ Len(shorter) = Len(new) - 1
      /\ \A i \in 1..Len(shorter) : shorter[i] = new[i]
  BY <1>4, <1>5, FrontFacts
<1> HIDE DEF kept, shorter
<1>8. shorter = kept
  <2>1. Len(shorter) = Len(kept)
    BY <1>1, <1>4, <1>6, <1>7
  <2>2. ASSUME NEW i \in 1..Len(kept) PROVE shorter[i] = kept[i]
    <3>1. /\ i \in 1..Len(shorter) /\ i \in 1..Len(new) /\ i + k \in 1..Len(pubs)
      BY <2>1, <1>1, <1>3, <1>4, <1>6, <1>7
    <3>2. shorter[i] = new[i] /\ new[i] = all[i + k] /\ kept[i] = pubs[i + k]
      BY <3>1, <1>4, <1>6, <1>7
    <3>3. all[i + k] = pubs[i + k]
      BY <3>1, <1>1
    <3>4. QED
      BY <3>2, <3>3
  <2>3. QED
    BY <2>1, <2>2, <1>6, <1>7, SameSequence
<1>9. QED
  BY <1>3, <1>5, <1>8 DEF LedgerExtends, kept, shorter, new, all

(* So is the completion of the staged record, with the trim behind it. *)
LEMMA MarkExtends ==
  ASSUME NEW pubs \in Seq(PublishRecord), pubs # <<>>,
         pubs[Len(pubs)].status = "staged",
         NEW status \in {"observed", "failed"}, NEW lim \in Nat \ {0}
  PROVE  LedgerExtends(pubs, Trim(MarkLast(pubs, status), lim))
<1> DEFINE n == Len(pubs)
           done == MarkLast(pubs, status)
           new == Trim(done, lim)
<1>1. /\ n \in Nat \ {0} /\ pubs[n] \in PublishRecord
      /\ done \in Seq(PublishRecord) /\ Len(done) = n /\ done # <<>>
      /\ done[n] = [pubs[n] EXCEPT !.status = status]
  <2>1. status \in Statuses
    BY DEF Statuses
  <2>2. n \in Nat \ {0} /\ pubs[n] \in PublishRecord
    OBVIOUS
  <2> HIDE DEF done
  <2>3. /\ done \in Seq(PublishRecord) /\ Len(done) = n
        /\ done[n] = [pubs[n] EXCEPT !.status = status]
    BY <2>1, MarkLastFacts DEF done
  <2>4. QED
    BY <2>2, <2>3
<1>2. \A i \in 1..n : i # n => done[i] = pubs[i]
  BY DEF MarkLast
<1>3. PICK k \in 0..n : new = SubSeq(done, k + 1, n) /\ k < n
  BY <1>1, TrimIsSuffix
<1> HIDE DEF done, new
<1> DEFINE kept == SubSeq(pubs, k + 1, n)
           marked == [kept EXCEPT ![Len(kept)].status = status]
<1>4. /\ new \in Seq(PublishRecord) /\ Len(new) = n - k
      /\ \A i \in 1..Len(new) : new[i] = done[i + k]
  BY <1>1, <1>3, DropFacts
<1>5. /\ kept \in Seq(PublishRecord) /\ Len(kept) = n - k /\ kept # <<>>
      /\ \A i \in 1..Len(kept) : kept[i] = pubs[i + k]
  <2>1. /\ kept \in Seq(PublishRecord) /\ Len(kept) = n - k
        /\ \A i \in 1..(n - k) : kept[i] = pubs[i + k]
    BY <1>3, DropFacts
  <2> HIDE DEF kept
  <2>2. QED
    BY <2>1, <1>1, <1>3
<1>6. kept[Len(kept)] = pubs[n]
  BY <1>1, <1>3, <1>5
<1> HIDE DEF kept
<1>7. /\ marked \in Seq(PublishRecord) /\ Len(marked) = Len(kept)
      /\ marked[Len(kept)] = [pubs[n] EXCEPT !.status = status]
      /\ \A i \in 1..Len(kept) : i # Len(kept) => marked[i] = kept[i]
  <2>1. /\ MarkLast(kept, status) \in Seq(PublishRecord)
        /\ Len(MarkLast(kept, status)) = Len(kept)
        /\ MarkLast(kept, status)[Len(kept)] = [kept[Len(kept)] EXCEPT !.status = status]
    BY <1>5, MarkLastFacts DEF Statuses
  <2>2. marked = MarkLast(kept, status)
    BY DEF MarkLast
  <2>3. \A i \in 1..Len(kept) : i # Len(kept) => marked[i] = kept[i]
    BY <1>5
  <2> HIDE DEF marked
  <2>4. QED
    BY <2>1, <2>2, <2>3, <1>6
<1> HIDE DEF marked
<1>8. new = marked
  <2>1. Len(new) = Len(marked)
    BY <1>4, <1>5, <1>7
  <2>2. ASSUME NEW i \in 1..Len(new) PROVE new[i] = marked[i]
    <3>1. new[i] = done[i + k] /\ i \in 1..Len(kept) /\ i + k \in 1..n
          /\ (i = Len(kept) <=> i + k = n)
      <4>1. Len(new) = n - k /\ Len(kept) = n - k /\ n \in Nat /\ k \in Nat /\ k < n
        BY <1>1, <1>3, <1>4, <1>5
      <4>2. new[i] = done[i + k]
        BY <1>4
      <4>3. QED
        BY <4>1, <4>2
    <3>2. CASE i = Len(kept)
      BY <3>1, <3>2, <1>1, <1>7
    <3>3. CASE i # Len(kept)
      <4>1. done[i + k] = pubs[i + k]
        BY <3>1, <3>3, <1>2
      <4>2. marked[i] = kept[i] /\ kept[i] = pubs[i + k]
        BY <3>1, <3>3, <1>5, <1>7
      <4>3. QED
        BY <3>1, <4>1, <4>2
    <3>4. QED
      BY <3>2, <3>3
  <2>3. QED
    BY <2>1, <2>2, <1>4, <1>7, SameSequence
<1>9. QED
  BY <1>3, <1>5, <1>6, <1>8 DEF LedgerExtends, kept, marked, new, done

(* Without a trim behind it, too: a failed publish. *)
LEMMA MarkOnlyExtends ==
  ASSUME NEW pubs \in Seq(PublishRecord), pubs # <<>>,
         pubs[Len(pubs)].status = "staged",
         NEW status \in {"observed", "failed"}
  PROVE  LedgerExtends(pubs, MarkLast(pubs, status))
<1>1. Len(pubs) \in Nat \ {0} /\ Len(MarkLast(pubs, status)) = Len(pubs)
  <2>1. status \in Statuses
    BY DEF Statuses
  <2>2. Len(pubs) \in Nat \ {0}
    OBVIOUS
  <2>3. Len(MarkLast(pubs, status)) = Len(pubs)
    BY <2>1, MarkLastFacts
  <2>4. QED
    BY <2>2, <2>3
<1>2. Trim(MarkLast(pubs, status), Len(pubs)) = MarkLast(pubs, status)
  BY <1>1 DEF Trim
<1>3. QED
  BY <1>1, <1>2, MarkExtends

(* The publish history is append-only, for every retention limit: a record *)
(* that was completed is never rewritten, by any operation.                *)
THEOREM HistoryIsAppendOnly == Spec => HistoryAppendOnly
<1>1. IInv /\ [Next]_vars => (up /\ up' => LedgerExtends(publishes, publishes'))
  <2> SUFFICES ASSUME IInv, [Next]_vars, up, up'
               PROVE  LedgerExtends(publishes, publishes')
    OBVIOUS
  <2>1. /\ publishes \in Seq(PublishRecord) /\ limit \in Nat \ {0}
        /\ publishes' \in Seq(PublishRecord) /\ limit' \in Nat \ {0}
        /\ revisions \in Seq(Revision)
    BY NextIInv DEF IInv, TypeOK
  <2>2. inflight # None => publishes # <<>> /\ publishes[Len(publishes)].status = "staged"
    BY DEF IInv, LedgerTail
  <2>3. ASSUME NEW c \in Configs, UpsertRevision(c) PROVE LedgerExtends(publishes, publishes')
    BY <2>3, <2>1, TrimExtends DEF UpsertRevision
  <2>4. ASSUME NEW revs, NEW idx, NEW snap, NEW kind, NEW update,
               Stage(revs, idx, snap, kind, update),
               [rev |-> revs[idx].id, snap |-> snap, kind |-> kind, status |-> "staged"]
                 \in PublishRecord
        PROVE  LedgerExtends(publishes, publishes')
    BY <2>4, <2>1, StageExtends DEF Stage
  <2>5. ASSUME NEW id \in RevIds, NEW kind \in Kinds, BeginPublish(id, kind)
        PROVE  LedgerExtends(publishes, publishes')
    <3> DEFINE i == FindRevision(revisions, id)
               snap == IF revisions[i].snap # None THEN revisions[i].snap ELSE revisions[i].config
    <3>0. i # 0 /\ Stage(revisions, i, snap, kind, FALSE)
      BY <2>5 DEF BeginPublish
    <3> HIDE DEF i
    <3>1. i \in 1..Len(revisions)
      <4>1. i \in 0..Len(revisions)
        BY <2>1, FindRevisionFacts DEF i
      <4>2. QED
        BY <3>0, <4>1, <2>1
    <3>2. revisions[i] \in Revision
      BY <3>1, <2>1
    <3>3. [rev |-> revisions[i].id, snap |-> snap, kind |-> kind, status |-> "staged"]
            \in PublishRecord
      BY <3>2 DEF Revision, PublishRecord, Statuses
    <3> HIDE DEF snap
    <3>4. QED
      BY <3>0, <3>3, <2>4
  <2>6. ASSUME NEW c \in Configs, NEW id \in FreshIds, BeginUpdate(c, id)
        PROVE  LedgerExtends(publishes, publishes')
    <3> DEFINE rev == [id |-> id, config |-> c, snap |-> c]
               revs == Append(revisions, rev)
               idx == Len(revisions) + 1
    <3>1. Stage(revs, idx, c, "publish", TRUE)
      BY <2>6 DEF BeginUpdate
    <3>2. revs[idx].id = id
      <4>1. rev \in Revision /\ rev.id = id
        BY DEF Revision, FreshIds
      <4> HIDE DEF rev
      <4>2. revs[idx] = rev
        BY <4>1, <2>1
      <4>3. QED
        BY <4>1, <4>2
    <3> HIDE DEF rev, revs, idx
    <3>3. [rev |-> revs[idx].id, snap |-> c, kind |-> "publish", status |-> "staged"]
            \in PublishRecord
      BY <3>2 DEF PublishRecord, Statuses, Kinds, FreshIds
    <3>4. QED
      BY <3>1, <3>3, <2>4
  <2>7. ASSUME Observed PROVE LedgerExtends(publishes, publishes')
    BY <2>7, <2>1, <2>2, MarkExtends DEF Observed
  <2>8. ASSUME Failed PROVE LedgerExtends(publishes, publishes')
    BY <2>8, <2>1, <2>2, MarkOnlyExtends DEF Failed
  <2>9. ASSUME NoGateway PROVE LedgerExtends(publishes, publishes')
    BY <2>9, <2>1, <2>2, MarkOnlyExtends DEF NoGateway
  <2>10. ASSUME UNCHANGED publishes PROVE LedgerExtends(publishes, publishes')
    BY <2>10, <2>1, SameExtends
  <2>11. QED
    BY <2>3, <2>5, <2>6, <2>7, <2>8, <2>9, <2>10
       DEF Next, vars, LoadState, SeedInitialRevision, Crash
<1>2. QED
  BY <1>1, LedgerInvariance, PTL DEF Spec, HistoryAppendOnly

(* The action properties of the ledger together. *)
THEOREM LedgerStepsHold == Spec => LedgerSteps
  BY HistoryIsAppendOnly, ActivationNeedsGateway DEF LedgerSteps
-----------------------------------------------------------------------------
(* What is stored, for a daemon that has a gateway client. *)

Resolves(pubs, revs) == \A i \in 1..Len(pubs) : pubs[i].rev \in RevisionIds(revs)

(* A stored state that a restart takes over whole: its history resolves, and *)
(* the limit of its active revision leaves all of it.                        *)
Faithful(st) ==
  st # None =>
    LET act == FindRevision(st.revisions, st.active) IN
    /\ Resolves(st.publishes, st.revisions)
    /\ act # 0
    /\ Len(st.publishes) <= HistoryLimit[st.revisions[act].config]

HistoryInv == HistoryResolvable /\ Faithful(disk) /\ Faithful(legacy)

(* trimPublishesLocked adds no record. *)
LEMMA TrimResolves ==
  ASSUME NEW revs, NEW pubs \in Seq(PublishRecord), NEW lim \in Nat \ {0},
         Resolves(pubs, revs)
  PROVE  Resolves(Trim(pubs, lim), revs)
<1>1. PICK k \in 0..Len(pubs) : Trim(pubs, lim) = SubSeq(pubs, k + 1, Len(pubs))
  BY TrimIsSuffix
<1> DEFINE new == SubSeq(pubs, k + 1, Len(pubs))
<1>2. Len(new) = Len(pubs) - k /\ \A i \in 1..(Len(pubs) - k) : new[i] = pubs[i + k]
  BY DropFacts
<1> HIDE DEF new
<1>3. ASSUME NEW i \in 1..Len(new) PROVE new[i].rev \in RevisionIds(revs)
  <2>1. i + k \in 1..Len(pubs) /\ new[i] = pubs[i + k]
    BY <1>2
  <2>2. QED
    BY <2>1 DEF Resolves
<1>4. QED
  BY <1>1, <1>3 DEF Resolves, new

(* Nor does the end of a publish. *)
LEMMA MarkResolves ==
  ASSUME NEW revs, NEW pubs \in Seq(PublishRecord), pubs # <<>>, NEW status \in Statuses,
         Resolves(pubs, revs)
  PROVE  Resolves(MarkLast(pubs, status), revs)
<1> DEFINE done == MarkLast(pubs, status)
<1>1. /\ Len(done) = Len(pubs)
      /\ done[Len(pubs)] = [pubs[Len(pubs)] EXCEPT !.status = status]
  BY MarkLastFacts
<1>2. \A i \in 1..Len(pubs) : i # Len(pubs) => done[i] = pubs[i]
  BY DEF MarkLast
<1> HIDE DEF done
<1>3. ASSUME NEW i \in 1..Len(done) PROVE done[i].rev \in RevisionIds(revs)
  <2>1. i \in 1..Len(pubs) /\ pubs[i] \in PublishRecord
    BY <1>1
  <2>2. done[i].rev = pubs[i].rev
    BY <1>1, <1>2, <2>1 DEF PublishRecord
  <2>3. QED
    BY <2>1, <2>2 DEF Resolves
<1>4. QED
  BY <1>3 DEF Resolves, done

(* No operation but UpdateConfig's undo takes an identifier away. *)
LEMMA UpsertKeepsIds ==
  ASSUME NEW revs \in Seq(Revision), NEW c \in Configs
  PROVE  RevisionIds(revs) \subseteq RevisionIds(UpsertRevisions(revs, c))
<1> DEFINE i == FindRevision(revs, HashId[c])
           new == UpsertRevisions(revs, c)
<1>1. SeedRevision(c) \in Revision /\ SeedRevision(c).id = HashId[c]
  BY SeedRevisionFacts
<1>2. i \in 0..Len(revs) /\ (i # 0 => revs[i].id = HashId[c])
  BY FindRevisionFacts
<1>3. \A j \in 1..Len(revs) : j \in 1..Len(new) /\ new[j].id = revs[j].id
  <2> HIDE DEF i
  <2>1. CASE i = 0
    <3>1. new = Append(revs, SeedRevision(c))
      BY <2>1 DEF UpsertRevisions, i
    <3>2. QED
      BY <1>1, <3>1
  <2>2. CASE i # 0
    <3>1. new = [revs EXCEPT ![i] = SeedRevision(c)]
      BY <2>2 DEF UpsertRevisions, i
    <3>2. QED
      BY <1>1, <1>2, <2>2, <3>1
  <2>3. QED
    BY <2>1, <2>2
<1> HIDE DEF new
<1>4. QED
  BY <1>3 DEF RevisionIds, new

(* What persistStateLocked saves is taken over whole, active revision included. *)
LEMMA ImageFaithful ==
  ASSUME NEW revs \in Seq(Revision), DistinctIds(revs), NEW act \in 1..Len(revs),
         NEW pubs \in Seq(PublishRecord), Resolves(pubs, revs),
         Len(pubs) <= HistoryLimit[revs[act].config]
  PROVE  Faithful(Image(revs, act, pubs))
<1> DEFINE found == FindRevision(revs, revs[act].id)
<1>1. found = act
  <2>1. found \in 0..Len(revs) /\ (found # 0 => revs[found].id = revs[act].id)
        /\ (found = 0 => \A i \in 1..Len(revs) : revs[i].id # revs[act].id)
    BY FindRevisionFacts
  <2> HIDE DEF found
  <2>2. QED
    BY <2>1 DEF DistinctIds
<1> HIDE DEF found
<1>2. /\ Image(revs, act, pubs).revisions = revs
      /\ Image(revs, act, pubs).publishes = pubs
      /\ Image(revs, act, pubs).active = revs[act].id
  BY DEF Image
<1>3. QED
  BY <1>1, <1>2 DEF Faithful, found

(* So an operation that saves what it leaves in memory keeps HistoryInv as   *)
(* soon as the history it leaves resolves, whether or not the save succeeds. *)
LEMMA SaveKeepsHistory ==
  ASSUME IInv', ActiveInv', up', Faithful(disk), Faithful(legacy), legacy' = legacy,
         Resolves(publishes', revisions'), Persist(revisions', active', publishes')
  PROVE  HistoryInv'
<1>1. /\ revisions' \in Seq(Revision) /\ DistinctIds(revisions')
      /\ active' \in 1..Len(revisions') /\ publishes' \in Seq(PublishRecord)
      /\ Len(publishes') <= HistoryLimit[revisions'[active'].config]
  BY IInvPartsNext DEF RevisionsInv, RetentionInv, ActiveInv
<1>2. Faithful(Image(revisions', active', publishes'))
  BY <1>1, ImageFaithful
<1>3. disk' = Image(revisions', active', publishes') \/ disk' = disk
  BY DEF Persist
<1>4. Faithful(disk') /\ Faithful(legacy')
  BY <1>2, <1>3
<1>5. QED
  BY <1>4 DEF HistoryInv, HistoryResolvable, Resolves, Faithful

(* An image an older release left is taken over whole as well. *)
LEMMA InitHistory == Init => HistoryInv
<1> SUFFICES ASSUME Init PROVE HistoryInv
  OBVIOUS
<1>1. ASSUME NEW c \in LegacyConfigs PROVE Faithful(Image(<<SeedRevision(c)>>, 1, <<>>))
  <2>1. c \in Configs /\ HistoryLimit[c] \in Nat \ {0}
    BY ConfigAssumption
  <2> DEFINE revs == <<SeedRevision(c)>>
  <2>2. /\ revs \in Seq(Revision) /\ Len(revs) = 1 /\ revs[1].config = c
    BY <2>1, SeedRevisionFacts
  <2> HIDE DEF revs
  <2>3. DistinctIds(revs) /\ 1 \in 1..Len(revs) /\ Resolves(<<>>, revs)
    BY <2>2 DEF DistinctIds, Resolves
  <2>4. <<>> \in Seq(PublishRecord) /\ Len(<<>>) <= HistoryLimit[revs[1].config]
    BY <2>1, <2>2
  <2>5. Faithful(Image(revs, 1, <<>>))
    BY <2>2, <2>3, <2>4, ImageFaithful
  <2>6. QED
    BY <2>5 DEF revs
<1>2. HistoryResolvable
  BY DEF Init, EmptyMemory, HistoryResolvable
<1>3. QED
  BY <1>1, <1>2 DEF Init, HistoryInv, Faithful

(* A staged record names a revision of the ledger it is staged in. *)
LEMMA StageHistory ==
  ASSUME IInv, IInv', ActiveInv', HistoryInv, up,
         NEW revs \in Seq(Revision), NEW idx \in 1..Len(revs), NEW snap \in Configs,
         NEW kind \in Kinds, NEW update,
         RevisionIds(revisions) \subseteq RevisionIds(revs),
         Stage(revs, idx, snap, kind, update)
  PROVE  HistoryInv'
<1> DEFINE rec == [rev |-> revs[idx].id, snap |-> snap, kind |-> kind, status |-> "staged"]
           all == Append(publishes, rec)
<1>1. /\ revisions' = [revs EXCEPT ![idx].snap = snap] /\ publishes' = Trim(all, limit)
      /\ up' /\ legacy' = legacy /\ Persist(revisions', active', publishes')
  BY DEF Stage
<1>2. RevisionIds(revisions') = RevisionIds(revs) /\ revs[idx].id \in RevisionIds(revs)
  <2>1. Len(revisions') = Len(revs) /\ \A i \in 1..Len(revs) : revisions'[i].id = revs[i].id
    BY <1>1 DEF Revision
  <2>2. QED
    BY <2>1 DEF RevisionIds
<1>3. rec \in PublishRecord /\ publishes \in Seq(PublishRecord) /\ limit \in Nat \ {0}
  <2>1. revs[idx] \in Revision
    OBVIOUS
  <2>2. QED
    BY <2>1 DEF IInv, TypeOK, PublishRecord, Revision, Statuses
<1>4. rec.rev \in RevisionIds(revs)
  BY <1>2
<1> HIDE DEF rec
<1>5. all \in Seq(PublishRecord) /\ Resolves(all, revs)
  <2>1. /\ all \in Seq(PublishRecord) /\ Len(all) = Len(publishes) + 1
        /\ all[Len(all)] = rec /\ \A i \in 1..Len(publishes) : all[i] = publishes[i]
    BY <1>3
  <2> HIDE DEF all
  <2>2. ASSUME NEW i \in 1..Len(all) PROVE all[i].rev \in RevisionIds(revs)
    <3>1. i = Len(all) \/ i \in 1..Len(publishes)
      BY <2>1, <1>3
    <3>2. QED
      BY <3>1, <2>1, <1>4 DEF HistoryInv, HistoryResolvable
  <2>3. QED
    BY <2>1, <2>2 DEF Resolves
<1> HIDE DEF all
<1>6. Resolves(publishes', revisions')
  <2>1. Resolves(Trim(all, limit), revs)
    BY <1>3, <1>5, TrimResolves
  <2>2. QED
    BY <2>1, <1>1, <1>2 DEF Resolves
<1>7. QED
  BY <1>1, <1>6, SaveKeepsHistory DEF HistoryInv

LEMMA LoadHistory == IInv /\ HistoryInv /\ LoadState => HistoryInv'
<1> SUFFICES ASSUME IInv, HistoryInv, LoadState PROVE HistoryInv'
  OBVIOUS
<1> DEFINE st == Stored
<1>1. /\ st # None /\ Faithful(st) /\ st \in PublisherState
      /\ st.publishes \in Seq(PublishRecord)
  BY IInvParts DEF LoadState, Stored, HistoryInv, StoresInv, PublisherState
<1>2. /\ revisions' = st.revisions /\ publishes' = Trim(st.publishes, limit')
      /\ disk' \in {disk, legacy} /\ legacy' = legacy
  BY DEF LoadState, Stored
<1>3. limit' \in Nat \ {0}
  BY NextIInv DEF Next, IInv, TypeOK
<1> HIDE DEF st
<1>4. Resolves(publishes', revisions')
  BY <1>1, <1>2, <1>3, TrimResolves DEF Faithful
<1>5. Faithful(disk') /\ Faithful(legacy')
  BY <1>2 DEF HistoryInv
<1>6. QED
  BY <1>4, <1>5 DEF HistoryInv, HistoryResolvable, Resolves, Faithful

(* Every step keeps HistoryInv if there is a gateway client: without one,    *)
(* UpdateConfig takes back a revision its failed record goes on naming.      *)
LEMMA NextHistory ==
  ASSUME GatewayConfigured
  PROVE  IInv /\ ActiveInv /\ HistoryInv /\ [Next]_vars => HistoryInv'
<1> SUFFICES ASSUME IInv, ActiveInv, HistoryInv, [Next]_vars PROVE HistoryInv'
  OBVIOUS
<1>1. /\ IInv' /\ ActiveInv' /\ Faithful(disk) /\ Faithful(legacy)
      /\ Resolves(publishes, revisions)
  BY NextIInv, NextActiveInv DEF HistoryInv, HistoryResolvable, Resolves
<1>2. /\ revisions \in Seq(Revision) /\ DistinctIds(revisions) /\ limit \in Nat \ {0}
      /\ publishes \in Seq(PublishRecord) /\ limit' \in Nat \ {0}
      /\ inflight # None => publishes # <<>>
  BY <1>1, IInvParts, IInvPartsNext DEF RevisionsInv, RetentionInv, InflightInv
<1>3. CASE LoadState
  BY <1>3, LoadHistory
<1>4. ASSUME NEW c \in Configs, SeedInitialRevision(c) PROVE HistoryInv'
  <2>1. publishes = <<>> /\ publishes' = publishes /\ legacy' = legacy
    BY <1>4, IInvParts DEF SeedInitialRevision, DownInv, EmptyMemory
  <2>2. up' /\ Persist(revisions', active', publishes')
    BY <1>4, <2>1 DEF SeedInitialRevision, Persist
  <2>3. Resolves(publishes', revisions')
    BY <2>1 DEF Resolves
  <2>4. QED
    BY <1>1, <2>1, <2>2, <2>3, SaveKeepsHistory
<1>5. ASSUME NEW c \in Configs, UpsertRevision(c) PROVE HistoryInv'
  <2>1. /\ revisions' = UpsertRevisions(revisions, c) /\ publishes' = Trim(publishes, limit')
        /\ up' /\ legacy' = legacy /\ Persist(revisions', active', publishes')
    BY <1>5 DEF UpsertRevision
  <2>2. Resolves(publishes', revisions)
    BY <1>1, <1>2, <2>1, TrimResolves
  <2>3. RevisionIds(revisions) \subseteq RevisionIds(revisions')
    BY <1>2, <2>1, UpsertKeepsIds
  <2>4. Resolves(publishes', revisions')
    BY <2>2, <2>3 DEF Resolves
  <2>5. QED
    BY <1>1, <2>1, <2>4, SaveKeepsHistory
<1>6. ASSUME NEW id \in RevIds, NEW kind \in Kinds, BeginPublish(id, kind) PROVE HistoryInv'
  <2> DEFINE i == FindRevision(revisions, id)
             snap == IF revisions[i].snap # None THEN revisions[i].snap ELSE revisions[i].config
  <2>1. up /\ i # 0 /\ Stage(revisions, i, snap, kind, FALSE)
    BY <1>6 DEF BeginPublish
  <2> HIDE DEF i
  <2>2. i \in 1..Len(revisions)
    <3>1. i \in 0..Len(revisions)
      BY <1>2, FindRevisionFacts DEF i
    <3>2. QED
      BY <2>1, <3>1, <1>2
  <2>3. snap \in Configs
    <3>1. revisions[i] \in Revision
      BY <1>2, <2>2
    <3>2. QED
      BY <3>1 DEF Revision
  <2> HIDE DEF snap
  <2>4. QED
    BY <1>1, <1>2, <2>1, <2>2, <2>3, StageHistory
<1>7. ASSUME NEW c \in Configs, NEW id \in FreshIds, BeginUpdate(c, id) PROVE HistoryInv'
  <2> DEFINE rev == [id |-> id, config |-> c, snap |-> c]
             revs == Append(revisions, rev)
             idx == Len(revisions) + 1
  <2>1. up /\ Stage(revs, idx, c, "publish", TRUE)
    BY <1>7 DEF BeginUpdate
  <2>2. rev \in Revision
    BY DEF Revision, FreshIds
  <2> HIDE DEF rev
  <2>3. /\ revs \in Seq(Revision) /\ idx \in 1..Len(revs)
        /\ \A j \in 1..Len(revisions) : j \in 1..Len(revs) /\ revs[j] = revisions[j]
    BY <1>2, <2>2
  <2> HIDE DEF revs, idx
  <2>4. RevisionIds(revisions) \subseteq RevisionIds(revs)
    BY <2>3 DEF RevisionIds
  <2>5. "publish" \in Kinds
    BY DEF Kinds
  <2>6. QED
    BY <1>1, <2>1, <2>3, <2>4, <2>5, StageHistory
<1>8. CASE Observed
  <2>1. /\ up' /\ legacy' = legacy /\ revisions' = revisions /\ inflight # None
        /\ publishes' = Trim(MarkLast(publishes, "observed"), limit')
        /\ Persist(revisions', active', publishes')
    BY <1>8 DEF Observed
  <2>2. /\ MarkLast(publishes, "observed") \in Seq(PublishRecord)
        /\ Resolves(MarkLast(publishes, "observed"), revisions)
    BY <1>1, <1>2, <2>1, MarkLastFacts, MarkResolves DEF Statuses
  <2>3. Resolves(publishes', revisions')
    BY <1>2, <2>1, <2>2, TrimResolves
  <2>4. QED
    BY <1>1, <2>1, <2>3, SaveKeepsHistory
<1>9. CASE Failed
  <2>1. /\ up' /\ legacy' = legacy /\ revisions' = revisions /\ inflight # None
        /\ publishes' = MarkLast(publishes, "failed")
        /\ Persist(revisions', active', publishes')
    BY <1>9 DEF Failed
  <2>2. Resolves(publishes', revisions')
    BY <1>1, <1>2, <2>1, MarkResolves DEF Statuses
  <2>3. QED
    BY <1>1, <2>1, <2>2, SaveKeepsHistory
<1>10. CASE NoGateway
  BY <1>10 DEF NoGateway
<1>11. CASE Crash
  BY <1>11 DEF Crash, HistoryInv, HistoryResolvable, Faithful
<1>12. CASE UNCHANGED vars
  BY <1>12 DEF vars, HistoryInv, HistoryResolvable, Faithful
<1>13. QED
  BY <1>3, <1>4, <1>5, <1>6, <1>7, <1>8, <1>9, <1>10, <1>11, <1>12 DEF Next

(* With a gateway client every record of the publish history names a         *)
(* revision of the ledger, so that Rollback finds it, after failed saves and *)
(* restarts too.                                                             *)
THEOREM HistoryStaysResolvable ==
  ASSUME GatewayConfigured
  PROVE  Spec => []HistoryResolvable
<1>1. IInv /\ ActiveInv /\ HistoryInv /\ [Next]_vars => HistoryInv'
  BY NextHistory
<1>2. HistoryInv => HistoryResolvable
  BY DEF HistoryInv
<1>3. QED
  BY <1>1, <1>2, InitHistory, LedgerInvariance, ActiveRevisionExists, PTL DEF Spec

(* A restart takes over what is stored: the state in memory is the stored one. *)
LEMMA LoadTakesAll ==
  ASSUME IInv, HistoryInv, LoadState
  PROVE  Stored = Image(revisions', active', publishes')
<1> DEFINE st == Stored
<1>1. st # None /\ Faithful(st) /\ st \in PublisherState
  BY IInvParts DEF LoadState, Stored, HistoryInv, StoresInv
<1>2. /\ revisions' = st.revisions /\ active' = FindRevision(st.revisions, st.active)
      /\ limit' = PolicyOf(revisions', active', DefaultLimit)
      /\ publishes' = Trim(st.publishes, limit')
  BY DEF LoadState
<1> HIDE DEF st
<1>3. st.revisions \in Seq(Revision)
  BY <1>1 DEF PublisherState
<1>4. active' # 0 /\ revisions'[active'].id = st.active
  BY <1>1, <1>2, <1>3, FindRevisionFacts DEF Faithful
<1>5. publishes' = st.publishes
  BY <1>1, <1>2, <1>4 DEF Faithful, PolicyOf, Trim
<1>6. st = [active |-> st.active, revisions |-> st.revisions, publishes |-> st.publishes]
  BY <1>1 DEF PublisherState
<1>7. QED
  BY <1>2, <1>4, <1>5, <1>6 DEF Image, st

(* With a gateway client and a store that works, what is stored between two  *)
(* publishes is what is in memory: a restart loses nothing.  Without the     *)
(* client UpdateConfig takes its revision back after the last save.          *)
LEMMA NextDiskIsCurrent ==
  ASSUME GatewayConfigured, ~SavesMayFail
  PROVE  IInv /\ HistoryInv /\ DiskIsCurrent /\ [Next]_vars => DiskIsCurrent'
<1> SUFFICES ASSUME IInv, HistoryInv, DiskIsCurrent, [Next]_vars, up', inflight' = None
             PROVE  disk' = Image(revisions', active', publishes')
  BY DEF DiskIsCurrent
<1>1. CASE LoadState
  BY <1>1, LoadTakesAll DEF LoadState, Stored
<1>2. ASSUME NEW c \in Configs, SeedInitialRevision(c)
      PROVE  disk' = Image(revisions', active', publishes')
  BY <1>2 DEF SeedInitialRevision
<1>3. ASSUME NEW c \in Configs, UpsertRevision(c)
      PROVE  disk' = Image(revisions', active', publishes')
  BY <1>3 DEF UpsertRevision, Persist
<1>4. ASSUME NEW id \in RevIds, NEW kind \in Kinds, BeginPublish(id, kind)
      PROVE  disk' = Image(revisions', active', publishes')
  BY <1>4 DEF BeginPublish, Stage, Persist
<1>5. ASSUME NEW c \in Configs, NEW id \in FreshIds, BeginUpdate(c, id)
      PROVE  disk' = Image(revisions', active', publishes')
  BY <1>5 DEF BeginUpdate, Stage, Persist
<1>6. CASE Observed
  BY <1>6 DEF Observed, Persist
<1>7. CASE Failed
  BY <1>7 DEF Failed, Persist
<1>8. CASE NoGateway
  BY <1>8 DEF NoGateway
<1>9. CASE Crash
  BY <1>9 DEF Crash
<1>10. CASE UNCHANGED vars
  BY <1>10 DEF vars, DiskIsCurrent
<1>11. QED
  BY <1>1, <1>2, <1>3, <1>4, <1>5, <1>6, <1>7, <1>8, <1>9, <1>10 DEF Next

(* What is stored is what is needed, for a daemon with a gateway client and  *)
(* a store that works: a restart is never refused, loses nothing, and every  *)
(* published configuration can be gone back to.                              *)
THEOREM StoreIsSound ==
  ASSUME GatewayConfigured, ~SavesMayFail
  PROVE  Spec => []DiskSound
<1>1. Init => DiskIsCurrent
  BY DEF Init, DiskIsCurrent
<1>2. IInv /\ ActiveInv /\ HistoryInv /\ [Next]_vars => HistoryInv'
  BY NextHistory
<1>3. IInv /\ HistoryInv /\ DiskIsCurrent /\ [Next]_vars => DiskIsCurrent'
  BY NextDiskIsCurrent
<1>4. IInv /\ HistoryInv /\ DiskIsCurrent => DiskSound
  BY DEF IInv, HistoryInv, DiskSound
<1>5. QED
  BY <1>1, <1>2, <1>3, <1>4, InitHistory, LedgerInvariance, ActiveRevisionExists, PTL DEF Spec

=============================================================================
