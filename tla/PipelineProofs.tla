--------------------------- MODULE PipelineProofs ---------------------------
(***************************************************************************)
(* Safety of Pipeline, for all runs, versions, instants, retries and       *)
(* faults, and that it implements Publication.                             *)
(*                                                                         *)
(* The invariant ties what an attempt may rely on to how far it has come   *)
(* (Reached): it has seen a row, so the row is there; it has put an        *)
(* object, so the object is there.  These facts outlive the steps of all   *)
(* other attempts because no object, row or load is ever taken away (Kept). *)
(***************************************************************************)
EXTENDS Pipeline, TLAPS

\* What a task has left once its transaction is committed.
Left(k) ==
    /\ Kind(k) = "ingest" => KeyOf(k, Instant(k)) \in snapshots
    /\ Kind(k) = "build" => changesets[KeyOf(k, At(k))] # None
    /\ Kind(k) = "publish_snapshot" => snapshot_features[KeyOf(k, Instant(k))] # None
    /\ Kind(k) = "publish_changeset" => change_features[KeyOf(k, At(k))] # {}

IngestReached(k) ==
    /\ pc[k] \in {"raw_put", "processed_put"} => raw[Instant(k)] # None
    /\ pc[k] = "processed_put" => processed[Instant(k)] # None

BuildReached(k) ==
    /\ pc[k] \in {"read_a", "read_b", "layer_put"} =>
         work[k].a \in Versions /\ KeyOf(k, At(k)[1]) \in snapshots
    /\ pc[k] \in {"read_b", "layer_put"} =>
         work[k].b \in Versions /\ KeyOf(k, At(k)[2]) \in snapshots
    /\ pc[k] = "layer_put" => layers[At(k)] # None

\* An attempt is only overtaken by one that has left its rows.
PublishSnapshotReached(k) ==
    /\ pc[k] \in {"queued", "read"} => ~work[k].beaten
    /\ pc[k] \in {"read", "deleting"} =>
         work[k].a \in Versions /\ KeyOf(k, Instant(k)) \in snapshots
    /\ pc[k] = "deleting" /\ work[k].beaten =>
         snapshot_features[KeyOf(k, Instant(k))] # None

SidesLoaded(k) == \A i \in {1, 2} : snapshot_features[KeyOf(k, At(k)[i])] # None

PublishChangesetReached(k) ==
    /\ pc[k] \in {"read", "deleting"} =>
         work[k].layer \in Versions \X Versions /\ changesets[KeyOf(k, At(k))] # None
    /\ pc[k] = "deleting" => SidesLoaded(k)

Reached(k) ==
    /\ Kind(k) = "ingest" => IngestReached(k)
    /\ Kind(k) = "build" => BuildReached(k)
    /\ Kind(k) = "publish_snapshot" => PublishSnapshotReached(k)
    /\ Kind(k) = "publish_changeset" => PublishChangesetReached(k)
    /\ pc[k] \in {"committed", "success"} => Left(k)

\* ServingIsDerived, of loads: Served follows, see LoadServes.
Derived ==
    /\ \A key \in SnapshotKeys : snapshot_features[key] # None => key \in snapshots
    /\ \A key \in ChangesetKeys : change_features[key] # {} =>
         /\ changesets[key] # None
         /\ \A i \in {1, 2} : snapshot_features[<<key[1], key[2][i]>>] # None

IInv ==
    /\ TypeOK
    /\ NoDanglingRows
    /\ Derived
    /\ \A k \in Tasks : Reached(k)

\* No step empties what another attempt may rely on.  (A snapshot that has lost
\* its features still has its load.)
Kept ==
    /\ \A t \in Times : raw[t] # None => raw'[t] # None
    /\ \A t \in Times : processed[t] # None => processed'[t] # None
    /\ \A p \in Pairs : layers[p] # None => layers'[p] # None
    /\ snapshots \subseteq snapshots'
    /\ \A key \in ChangesetKeys : changesets[key] # None => changesets'[key] = changesets[key]
    /\ \A key \in SnapshotKeys :
         snapshot_features[key] # None => snapshot_features'[key] # None
    /\ \A key \in ChangesetKeys : change_features[key] # {} => change_features'[key] # {}

\* Other tasks stay where they are, with what they have read.
Others(k) ==
    \A j \in Tasks \ {k} :
        /\ pc'[j] = pc[j]
        /\ work'[j].a = work[j].a /\ work'[j].b = work[j].b
        /\ work'[j].layer = work[j].layer
        /\ work'[j].beaten # work[j].beaten =>
             pc[j] = "deleting" /\ snapshot_features'[KeyOf(j, Instant(j))] # None

-----------------------------------------------------------------------------
LEMMA Keys ==
    ASSUME NEW k \in Tasks
    PROVE  /\ Task[k].version \in Versions
           /\ Instant(k) \in Times
           /\ KeyOf(k, Instant(k)) \in SnapshotKeys
           /\ KeyOf(k, Instant(k))[2] = Instant(k)
           /\ Kind(k) \in {"build", "publish_changeset"} =>
                /\ At(k) \in Pairs
                /\ At(k)[1] \in Times /\ At(k)[2] \in Times
                /\ KeyOf(k, At(k)) \in ChangesetKeys
                /\ KeyOf(k, At(k)[1]) \in SnapshotKeys
                /\ KeyOf(k, At(k)[2]) \in SnapshotKeys
BY DEF Versions, Times, Pairs, SnapshotKeys, ChangesetKeys, KeyOf, Instant, OfKind

LEMMA SideKeys ==
    ASSUME NEW key \in ChangesetKeys, NEW i \in {1, 2}
    PROVE  /\ <<key[1], key[2][i]>> \in SnapshotKeys
           /\ key[1] \in Versions /\ key[2] \in Pairs /\ key = <<key[1], key[2]>>
BY DEF ChangesetKeys, SnapshotKeys, Pairs, Times, OfKind

\* A load has features unless its version extracts none.
LEMMA LoadServes ==
    ASSUME NEW key \in SnapshotKeys, NEW v \in Label, v # None, key \notin Emptiable
    PROVE  FeaturesOf(v, key[2]) # {}
BY DEF Emptiable, FeaturesOf, Label

LEMMA WorkRecords ==
    ASSUME NEW w \in WorkRecord
    PROVE  /\ \A l \in Label : /\ [w EXCEPT !.a = l] \in WorkRecord
                               /\ [w EXCEPT !.b = l] \in WorkRecord
           /\ \A l \in Layer : [w EXCEPT !.layer = l] \in WorkRecord
           /\ \A v \in SUBSET LoadRecord : [w EXCEPT !.visible = v] \in WorkRecord
           /\ [w EXCEPT !.beaten = TRUE] \in WorkRecord
           /\ w.a \in Label /\ w.b \in Label /\ w.layer \in Layer
           /\ Blank \in WorkRecord
BY DEF WorkRecord, Blank, Label, Layer

-----------------------------------------------------------------------------
(* The step of one attempt. *)

\* One more attempt is only spent while there is one left.
LEMMA TriesBounded ==
    ASSUME TypeOK, NEW k \in Tasks, GiveUp(k)
    PROVE  /\ tries' \in [Tasks -> Nat]
           /\ \A j \in Tasks : tries'[j] <= Retries[Kind(j)]
<1>1. Retries[Kind(k)] \in Nat /\ tries \in [Tasks -> Nat]
  BY PipelineAssumption DEF TypeOK
<1>2. tries' \in [Tasks -> Nat]
  BY <1>1 DEF GiveUp
<1>3. ASSUME NEW j \in Tasks
      PROVE  tries'[j] <= Retries[Kind(j)]
  <2>1. CASE j = k
    BY <1>1, <2>1 DEF GiveUp, TypeOK
  <2>2. CASE j # k
    BY <1>1, <2>2 DEF GiveUp, TypeOK
  <2> QED
    BY <2>1, <2>2
<1> QED
  BY <1>2, <1>3

LEMMA StepTyped ==
    ASSUME IInv, NEW k \in Tasks, Step(k) \/ Crash(k)
    PROVE  TypeOK'
<1> USE Keys, WorkRecords, PipelineAssumption
    DEF IInv, TypeOK, Label, Layer, Advance, store, metadata, serving
<1>1. CASE PutRaw(k)
  BY <1>1 DEF PutRaw
<1>2. CASE PutProcessed(k)
  BY <1>2 DEF PutProcessed
<1>3. CASE UpsertSnapshot(k)
  BY <1>3 DEF UpsertSnapshot
<1>4. CASE ReadA(k)
  BY <1>4 DEF ReadA
<1>5. CASE ReadB(k)
  BY <1>5 DEF ReadB
<1>6. CASE PutLayer(k)
  BY <1>6 DEF PutLayer, Reached, BuildReached
<1>7. CASE UpsertChangeset(k)
  BY <1>7 DEF UpsertChangeset, Reached, BuildReached
<1>8. CASE ReadProcessed(k)
  BY <1>8 DEF ReadProcessed
<1>9. CASE DeleteFeatures(k)
  BY <1>9 DEF DeleteFeatures
<1>10. CASE InsertFeatures(k)
  <2>1. work' \in [Tasks -> WorkRecord]
    BY <1>10, WorkRecords DEF InsertFeatures
  <2> QED
    BY <1>10, <2>1 DEF InsertFeatures
<1>11. CASE ReadLayer(k)
  BY <1>11 DEF ReadLayer
<1>12. CASE DeleteRows(k)
  BY <1>12 DEF DeleteRows
<1>13. CASE InsertRows(k)
  BY <1>13 DEF InsertRows, Load, LoadRecord, Reached, PublishChangesetReached,
     SidesLoaded
<1>14. CASE Succeed(k)
  BY <1>14 DEF Succeed
<1>15. CASE UpstreamFailed(k)
  BY <1>15 DEF UpstreamFailed
<1>16. CASE Raise(k)
  BY <1>16, TriesBounded DEF Raise, GiveUp
<1>17. CASE Crash(k)
  <2>1. faults' \in 0..MaxFaults
    BY <1>17, SMT DEF Crash
  <2>2. tries' \in [Tasks -> Nat] /\ \A j \in Tasks : tries'[j] <= Retries[Kind(j)]
    BY <1>17, TriesBounded DEF Crash
  <2> QED
    BY <1>17, <2>1, <2>2 DEF Crash, GiveUp
<1> QED
  BY <1>1, <1>2, <1>3, <1>4, <1>5, <1>6, <1>7, <1>8, <1>9, <1>10,
     <1>11, <1>12, <1>13, <1>14, <1>15, <1>16, <1>17 DEF Step

LEMMA StepKeeps ==
    ASSUME IInv, NEW k \in Tasks, Step(k) \/ Crash(k)
    PROVE  Kept /\ Others(k)
<1> USE Keys, PipelineAssumption
    DEF IInv, TypeOK, Kept, Others, Label, Layer, Advance, store, metadata, serving
<1>1. CASE PutRaw(k)
  BY <1>1 DEF PutRaw
<1>2. CASE PutProcessed(k)
  BY <1>2 DEF PutProcessed
<1>3. CASE UpsertSnapshot(k)
  BY <1>3 DEF UpsertSnapshot
<1>4. CASE ReadA(k)
  BY <1>4 DEF ReadA
<1>5. CASE ReadB(k)
  BY <1>5 DEF ReadB
<1>6. CASE PutLayer(k)
  <2>1. <<work[k].a, work[k].b>> \in Versions \X Versions
    BY <1>6 DEF PutLayer, Reached, BuildReached
  <2>2. layers'[At(k)] # None
    BY <1>6, <2>1 DEF PutLayer
  <2> QED
    BY <1>6, <2>2 DEF PutLayer
<1>7. CASE UpsertChangeset(k)
  BY <1>7 DEF UpsertChangeset, Reached, BuildReached
<1>8. CASE ReadProcessed(k)
  BY <1>8 DEF ReadProcessed
<1>9. CASE DeleteFeatures(k)
  BY <1>9 DEF DeleteFeatures
<1>10. CASE InsertFeatures(k)
  <2>1. snapshot_features'[KeyOf(k, Instant(k))] # None
    BY <1>10 DEF InsertFeatures, Reached, PublishSnapshotReached
  <2>2. Kept
    BY <1>10, <2>1 DEF InsertFeatures
  <2>3. ASSUME NEW j \in Tasks \ {k}
        PROVE  /\ pc'[j] = pc[j]
               /\ work'[j].a = work[j].a /\ work'[j].b = work[j].b
               /\ work'[j].layer = work[j].layer
               /\ work'[j].beaten # work[j].beaten =>
                    pc[j] = "deleting" /\ snapshot_features'[KeyOf(j, Instant(j))] # None
    <3>1. work[j] \in WorkRecord /\ pc'[j] = pc[j]
      BY <1>10 DEF InsertFeatures
    <3>2. CASE j \in Overtaken(k)
      <4>1. work'[j] = [work[j] EXCEPT !.beaten = TRUE]
        BY <1>10, <3>2 DEF InsertFeatures
      <4>2. pc[j] = "deleting" /\ KeyOf(j, Instant(j)) = KeyOf(k, Instant(k))
        BY <3>2 DEF Overtaken
      <4> QED
        BY <2>1, <3>1, <4>1, <4>2 DEF WorkRecord
    <3>3. CASE j \notin Overtaken(k)
      BY <1>10, <3>1, <3>3 DEF InsertFeatures
    <3> QED
      BY <3>2, <3>3
  <2> QED
    BY <2>2, <2>3
<1>11. CASE ReadLayer(k)
  BY <1>11 DEF ReadLayer
<1>12. CASE DeleteRows(k)
  BY <1>12 DEF DeleteRows
<1>13. CASE InsertRows(k)
  BY <1>13 DEF InsertRows
<1>14. CASE Succeed(k)
  BY <1>14 DEF Succeed, Blank
<1>15. CASE UpstreamFailed(k)
  BY <1>15 DEF UpstreamFailed
<1>16. CASE Raise(k)
  BY <1>16 DEF Raise, GiveUp, Blank
<1>17. CASE Crash(k)
  BY <1>17 DEF Crash, GiveUp, Blank
<1> QED
  BY <1>1, <1>2, <1>3, <1>4, <1>5, <1>6, <1>7, <1>8, <1>9, <1>10,
     <1>11, <1>12, <1>13, <1>14, <1>15, <1>16, <1>17 DEF Step

LEMMA StepReaches ==
    ASSUME IInv, NEW k \in Tasks, Step(k) \/ Crash(k)
    PROVE  Reached(k)'
<1> USE Keys, PipelineAssumption DEF IInv, TypeOK, Advance, Reached
<1>1. CASE PutRaw(k)
  BY <1>1 DEF PutRaw, IngestReached
<1>2. CASE PutProcessed(k)
  BY <1>2 DEF PutProcessed, IngestReached
<1>3. CASE UpsertSnapshot(k)
  BY <1>3 DEF UpsertSnapshot, IngestReached, Left, metadata
<1>4. CASE ReadA(k)
  <2>1. processed[At(k)[1]] \in Versions
    BY <1>4 DEF ReadA, NoDanglingRows, KeyOf, Label
  <2> QED
    BY <1>4, <2>1 DEF ReadA, BuildReached, metadata, WorkRecord
<1>5. CASE ReadB(k)
  <2>1. processed[At(k)[2]] \in Versions
    BY <1>5 DEF ReadB, NoDanglingRows, KeyOf, Label
  <2> QED
    BY <1>5, <2>1 DEF ReadB, BuildReached, metadata, WorkRecord
<1>6. CASE PutLayer(k)
  <2>1. <<work[k].a, work[k].b>> \in Versions \X Versions
    BY <1>6 DEF PutLayer, BuildReached
  <2>2. layers'[At(k)] # None
    BY <1>6, <2>1 DEF PutLayer
  <2> QED
    BY <1>6, <2>2 DEF PutLayer, BuildReached, metadata
<1>7. CASE UpsertChangeset(k)
  <2>1. <<work[k].a, work[k].b>> \in Versions \X Versions
    BY <1>7 DEF UpsertChangeset, BuildReached
  <2>2. changesets'[KeyOf(k, At(k))] # None
    BY <1>7, <2>1 DEF UpsertChangeset
  <2> QED
    BY <1>7, <2>2 DEF UpsertChangeset, BuildReached, Left
<1>8. CASE ReadProcessed(k)
  <2>1. processed[Instant(k)] \in Versions
    BY <1>8 DEF ReadProcessed, NoDanglingRows, KeyOf, Label
  <2> QED
    BY <1>8, <2>1 DEF ReadProcessed, PublishSnapshotReached, metadata, WorkRecord
<1>9. CASE DeleteFeatures(k)
  BY <1>9 DEF DeleteFeatures, PublishSnapshotReached, metadata
<1>10. CASE InsertFeatures(k)
  <2>1. snapshot_features'[KeyOf(k, Instant(k))] # None
    BY <1>10 DEF InsertFeatures, PublishSnapshotReached
  <2> QED
    BY <1>10, <2>1 DEF InsertFeatures, PublishSnapshotReached, Left
<1>11. CASE ReadLayer(k)
  <2>1. layers[At(k)] \in Versions \X Versions
    BY <1>11 DEF ReadLayer, HasRows, NoDanglingRows, KeyOf, Layer
  <2> QED
    BY <1>11, <2>1 DEF ReadLayer, HasRows, PublishChangesetReached, metadata, WorkRecord
<1>12. CASE DeleteRows(k)
  <2>1. SidesLoaded(k)
    BY <1>12 DEF DeleteRows, SnapshotsPublished, HasFeatures, FeaturesOf, SidesLoaded
  <2> QED
    BY <1>12, <2>1 DEF DeleteRows, PublishChangesetReached, SidesLoaded, metadata, serving,
       WorkRecord
<1>13. CASE InsertRows(k)
  <2>1. change_features'[KeyOf(k, At(k))] # {}
    BY <1>13 DEF InsertRows
  <2> QED
    BY <1>13, <2>1 DEF InsertRows, PublishChangesetReached, Left
<1>14. CASE Succeed(k)
  BY <1>14 DEF Succeed, metadata, serving, Left, IngestReached, BuildReached,
     PublishSnapshotReached, PublishChangesetReached
<1>15. CASE UpstreamFailed(k)
  BY <1>15 DEF UpstreamFailed, IngestReached, BuildReached, PublishSnapshotReached,
     PublishChangesetReached
<1>16. CASE Raise(k)
  BY <1>16 DEF Blank, Raise, GiveUp, IngestReached, BuildReached, PublishSnapshotReached,
     PublishChangesetReached
<1>17. CASE Crash(k)
  BY <1>17 DEF Blank, Crash, GiveUp, IngestReached, BuildReached, PublishSnapshotReached,
     PublishChangesetReached
<1> QED
  BY <1>1, <1>2, <1>3, <1>4, <1>5, <1>6, <1>7, <1>8, <1>9, <1>10,
     <1>11, <1>12, <1>13, <1>14, <1>15, <1>16, <1>17 DEF Step

\* Nothing another attempt does takes away what j relies on.
LEMMA OthersReach ==
    ASSUME IInv, NEW k \in Tasks, Kept, Others(k), NEW j \in Tasks \ {k}
    PROVE  Reached(j)'
<1> USE Keys DEF IInv, Kept, Others, Reached
<1>1. pc'[j] = pc[j] /\ Reached(j)
  OBVIOUS
<1>2. CASE Kind(j) = "ingest"
  BY <1>1, <1>2 DEF IngestReached, Left, KeyOf, Instant
<1>3. CASE Kind(j) = "build"
  BY <1>1, <1>3 DEF BuildReached, Left
<1>4. CASE Kind(j) = "publish_snapshot"
  BY <1>1, <1>4 DEF PublishSnapshotReached, Left
<1>5. CASE Kind(j) = "publish_changeset"
  BY <1>1, <1>5 DEF PublishChangesetReached, SidesLoaded, Left
<1> QED
  BY <1>2, <1>3, <1>4, <1>5, PipelineAssumption DEF Kinds

\* Rows come after their objects, served rows after their rows.
LEMMA StepDerives ==
    ASSUME IInv, NEW k \in Tasks, Step(k) \/ Crash(k), Kept
    PROVE  NoDanglingRows' /\ Derived'
<1> USE Keys, SideKeys DEF IInv, TypeOK, Kept, Reached
<1>1. \A key \in SnapshotKeys : key[2] \in Times
  BY DEF SnapshotKeys
<1>2. ASSUME UNCHANGED metadata
      PROVE  NoDanglingRows'
  BY <1>1, <1>2 DEF metadata, NoDanglingRows, ChangesetKeys
<1>3. ASSUME UNCHANGED serving
      PROVE  Derived'
  BY <1>3 DEF serving, Derived
<1>4. CASE UpsertSnapshot(k)
  <2>1. raw[Instant(k)] # None /\ processed[Instant(k)] # None
    BY <1>4 DEF UpsertSnapshot, Advance, IngestReached
  <2>2. NoDanglingRows'
    BY <1>1, <1>4, <2>1 DEF UpsertSnapshot, store, NoDanglingRows, ChangesetKeys
  <2> QED
    BY <1>3, <1>4, <2>2 DEF UpsertSnapshot
<1>5. CASE UpsertChangeset(k)
  <2>1. layers[At(k)] # None /\ \A i \in {1, 2} : KeyOf(k, At(k)[i]) \in snapshots
    BY <1>5 DEF UpsertChangeset, Advance, BuildReached
  <2>2. KeyOf(k, At(k))[1] = Task[k].version /\ KeyOf(k, At(k))[2] = At(k)
    BY DEF KeyOf
  <2>3. ASSUME NEW key \in ChangesetKeys, changesets'[key] # None
        PROVE  layers[key[2]] # None /\ \A i \in {1, 2} : <<key[1], key[2][i]>> \in snapshots
    <3>1. CASE key = KeyOf(k, At(k))
      BY <2>1, <2>2, <3>1 DEF KeyOf
    <3>2. CASE key # KeyOf(k, At(k))
      <4>1. changesets[key] # None
        BY <1>5, <2>3, <3>2 DEF UpsertChangeset
      <4> QED
        BY <4>1 DEF NoDanglingRows
    <3> QED
      BY <3>1, <3>2
  <2>4. NoDanglingRows'
    BY <1>5, <2>3 DEF UpsertChangeset, store, NoDanglingRows
  <2> QED
    BY <1>3, <1>5, <2>4 DEF UpsertChangeset
<1>6. CASE InsertFeatures(k)
  <2>1. KeyOf(k, Instant(k)) \in snapshots
    BY <1>6 DEF InsertFeatures, Advance, PublishSnapshotReached
  <2>2. Derived'
    BY <1>6, <2>1 DEF InsertFeatures, metadata, Derived
  <2> QED
    BY <1>2, <1>6, <2>2 DEF InsertFeatures
<1>7. CASE InsertRows(k)
  <2>1. changesets[KeyOf(k, At(k))] # None /\ SidesLoaded(k)
    BY <1>7 DEF InsertRows, Advance, PublishChangesetReached
  <2>2. KeyOf(k, At(k))[1] = Task[k].version /\ KeyOf(k, At(k))[2] = At(k)
    BY DEF KeyOf
  <2>3. ASSUME NEW key \in ChangesetKeys, change_features'[key] # {}
        PROVE  /\ changesets[key] # None
               /\ \A i \in {1, 2} : snapshot_features[<<key[1], key[2][i]>>] # None
    <3>1. CASE key = KeyOf(k, At(k))
      BY <2>1, <2>2, <3>1 DEF KeyOf, SidesLoaded
    <3>2. CASE key # KeyOf(k, At(k))
      <4>1. change_features[key] # {}
        BY <1>7, <2>3, <3>2 DEF InsertRows
      <4> QED
        BY <4>1 DEF Derived
    <3> QED
      BY <3>1, <3>2
  <2>4. Derived'
    BY <1>7, <2>3 DEF InsertRows, metadata, Derived
  <2> QED
    BY <1>2, <1>7, <2>4 DEF InsertRows
<1> QED
  BY <1>2, <1>3, <1>4, <1>5, <1>6, <1>7 DEF Step, Crash, PutRaw, PutProcessed, ReadA,
     ReadB, PutLayer,
     ReadProcessed, DeleteFeatures, ReadLayer, DeleteRows, Succeed, UpstreamFailed,
     Raise, GiveUp

LEMMA Initially == Init => IInv
<1> SUFFICES ASSUME Init
             PROVE  IInv
  OBVIOUS
<1> USE DEF Init
<1>1. TypeOK
  <2>1. Blank \in WorkRecord
    BY DEF WorkRecord, Blank, Label, Layer
  <2> QED
    BY <2>1, PipelineAssumption DEF TypeOK, Label, Layer
<1>2. NoDanglingRows /\ Derived
  BY SideKeys DEF NoDanglingRows, Derived
<1>3. ASSUME NEW k \in Tasks
      PROVE  Reached(k)
  BY <1>3 DEF Blank, Reached, IngestReached, BuildReached, PublishSnapshotReached,
     PublishChangesetReached
<1> QED
  BY <1>1, <1>2, <1>3 DEF IInv

LEMMA StepInvariant ==
    ASSUME IInv, NEW k \in Tasks, Step(k) \/ Crash(k)
    PROVE  IInv'
<1>1. TypeOK' /\ Kept /\ Others(k) /\ Reached(k)'
  BY StepTyped, StepKeeps, StepReaches
<1>2. NoDanglingRows' /\ Derived'
  BY <1>1, StepDerives
<1>3. \A j \in Tasks \ {k} : Reached(j)'
  BY <1>1, OthersReach
<1> QED
  BY <1>1, <1>2, <1>3 DEF IInv

LEMMA Stutters ==
    ASSUME IInv, UNCHANGED vars
    PROVE  IInv'
<1> USE DEF vars, store, metadata, serving
<1>1. TypeOK' /\ NoDanglingRows' /\ Derived'
  BY DEF IInv, TypeOK, NoDanglingRows, Derived
<1>2. ASSUME NEW k \in Tasks
      PROVE  Reached(k)'
  BY DEF IInv, Reached, IngestReached, BuildReached, PublishSnapshotReached,
         PublishChangesetReached, SidesLoaded, Left
<1> QED
  BY <1>1, <1>2 DEF IInv

\* Wherever attempts die and however runs overlap, what an attempt relies on
\* is there.
THEOREM Invariance == Spec => []IInv
<1>1. IInv /\ [Next]_vars => IInv'
  BY StepInvariant, Stutters DEF Next, Over
<1> QED
  BY Initially, <1>1, PTL DEF Spec

\* Every variable of the pipeline stays in its range.
THEOREM TypeCorrect == Spec => []TypeOK
<1>1. IInv => TypeOK
  BY DEF IInv
<1> QED
  BY Invariance, <1>1, PTL

\* A row's objects exist from the moment the row is visible: build and publish
\* never find a row without its object.
THEOREM ObjectsBeforeRows == Spec => []NoDanglingRows
<1>1. IInv => NoDanglingRows
  BY DEF IInv
<1> QED
  BY Invariance, <1>1, PTL

\* The API never serves features of a snapshot, or changes of a changeset,
\* whose metadata are missing, and changes only where both snapshots have been
\* published, with features unless some version finds none.
THEOREM ServedRowsAreDerived == Spec => []ServingIsDerived
<1>1. IInv => ServingIsDerived
  <2> SUFFICES ASSUME IInv, NEW key \in ChangesetKeys, change_features[key] # {},
                      NEW s \in Sides(key)
               PROVE  Served(s)
    BY DEF IInv, Derived, ServingIsDerived
  <2>1. s \in SnapshotKeys
    BY SideKeys DEF Sides
  <2>2. snapshot_features[s] # None /\ snapshot_features[s] \in Label
    BY <2>1 DEF IInv, TypeOK, Derived, Sides
  <2> QED
    BY <2>1, <2>2, LoadServes DEF Served, HasFeatures
<1> QED
  BY Invariance, <1>1, PTL

\* What a successful task has left stays, whatever runs or dies afterwards.
THEOREM SuccessLasts == Spec => []SuccessIsDurable
<1>1. IInv => SuccessIsDurable
  <2> SUFFICES ASSUME IInv, NEW k \in Tasks, pc[k] = "success"
               PROVE  CASE Kind(k) = "ingest" -> KeyOf(k, Instant(k)) \in snapshots
                        [] Kind(k) = "build" -> changesets[KeyOf(k, At(k))] # None
                        [] Kind(k) = "publish_snapshot" -> Served(KeyOf(k, Instant(k)))
                        [] Kind(k) = "publish_changeset" ->
                             change_features[KeyOf(k, At(k))] # {}
    BY DEF SuccessIsDurable
  <2>1. Left(k)
    BY DEF IInv, Reached
  <2>2. ASSUME Kind(k) = "publish_snapshot"
        PROVE  Served(KeyOf(k, Instant(k)))
    <3>1. KeyOf(k, Instant(k)) \in SnapshotKeys
      BY Keys
    <3> QED
      BY <2>1, <2>2, <3>1, LoadServes DEF Left, IInv, TypeOK, Served, HasFeatures
  <2> QED
    BY <2>1, <2>2, PipelineAssumption DEF Left, Kinds
<1> QED
  BY Invariance, <1>1, PTL

LEMMA EveryStepKeeps ==
    ASSUME IInv, [Next]_vars
    PROVE  Kept
<1>1. CASE UNCHANGED vars
  BY <1>1 DEF vars, store, metadata, serving, Kept
<1> QED
  BY <1>1, StepKeeps DEF Next, Over

\* No retry and no overlapping run removes a metadata row or changes the counts
\* of a changeset that has one.
THEOREM RowsStay == Spec => RowsPermanent
<1>1. IInv /\ [Next]_vars =>
        [ /\ snapshots \subseteq snapshots'
          /\ \A key \in ChangesetKeys :
               changesets[key] # None => changesets'[key] = changesets[key] ]_vars
  BY EveryStepKeeps DEF Kept
<1> QED
  BY Invariance, <1>1, PTL DEF Spec, RowsPermanent

\* A published changeset always holds a load for its readers, and a snapshot
\* its features unless a version extracts none, wherever a republish dies.
THEOREM PublishedStays == Spec => NeverUnpublished
<1>1. ASSUME IInv, [Next]_vars
      PROVE  /\ \A key \in SnapshotKeys : Served(key) => Served(key)'
             /\ \A key \in ChangesetKeys :
                  change_features[key] # {} => change_features'[key] # {}
  <2>1. Kept /\ TypeOK'
    BY <1>1, EveryStepKeeps, StepTyped, Stutters DEF Next, Over, IInv
  <2>2. ASSUME NEW key \in SnapshotKeys, Served(key)
        PROVE  Served(key)'
    <3>1. snapshot_features'[key] # None /\ snapshot_features'[key] \in Label
      BY <2>1, <2>2 DEF Kept, Served, TypeOK
    <3> QED
      BY <3>1, LoadServes DEF Served, HasFeatures
  <2> QED
    BY <2>1, <2>2 DEF Kept
<1>2. IInv /\ [Next]_vars =>
        [ /\ \A key \in SnapshotKeys : Served(key) => Served(key)'
          /\ \A key \in ChangesetKeys :
               change_features[key] # {} => change_features'[key] # {} ]_vars
  BY <1>1
<1> QED
  BY Invariance, <1>2, PTL DEF Spec, NeverUnpublished

-----------------------------------------------------------------------------
(* Pipeline implements Publication. *)

\* Whether an attempt holds an approval only changes when it moves to or from
\* the statement between its check and its insert.
LEMMA SameApproved ==
    ASSUME TypeOK, NEW k \in Tasks, NEW to, pc' = [pc EXCEPT ![k] = to],
           Kind(k) = "publish_changeset" => (pc[k] = "deleting" <=> to = "deleting")
    PROVE  Approved' = Approved
<1>1. \A j \in Tasks : Kind(j) = "publish_changeset" =>
        (pc'[j] = "deleting" <=> pc[j] = "deleting")
  BY DEF TypeOK
<1> QED
  BY <1>1 DEF Approved

\* An attempt that ends between them gives its approval up; others may hold one.
LEMMA LessApproved ==
    ASSUME TypeOK, NEW k \in Tasks, NEW to, to # "deleting",
           pc' = [pc EXCEPT ![k] = to], Kind(k) = "publish_changeset"
    PROVE  Approved' \in {Approved, Approved \ {KeyOf(k, At(k))}}
<1>1. \A j \in Tasks : pc'[j] = "deleting" <=> j # k /\ pc[j] = "deleting"
  BY DEF TypeOK
<1>2. Approved' = { KeyOf(j, At(j)) : j \in { i \in Tasks : Kind(i) = "publish_changeset"
                                           /\ i # k /\ pc[i] = "deleting" } }
  BY <1>1 DEF Approved
<1>3. Approved' \subseteq Approved /\ Approved \subseteq Approved' \cup {KeyOf(k, At(k))}
  BY <1>2 DEF Approved
<1> QED
  BY <1>3

\* Only a commit shows, and the check that precedes it: every other step leaves
\* what is promised as it is.
LEMMA StepPromised ==
    ASSUME IInv, NEW k \in Tasks, Step(k) \/ Crash(k)
    PROVE  [Promise!Next]_(Promise!vars)
<1> USE Keys, SideKeys DEF IInv, TypeOK, Reached
<1>1. ASSUME UNCHANGED <<metadata, serving>>, Approved' = Approved
      PROVE  UNCHANGED Promise!vars
  BY <1>1 DEF metadata, serving, Promise!vars, HasFeatures
<1>2. CASE UpsertSnapshot(k)
  <2>1. Approved' = Approved
    BY <1>2, SameApproved DEF UpsertSnapshot, Advance
  <2>2. Promise!Ingest(KeyOf(k, Instant(k)))
    BY <1>2, <2>1 DEF UpsertSnapshot, serving, Promise!Ingest, HasFeatures
  <2> QED
    BY <2>2 DEF Promise!Next
<1>3. CASE UpsertChangeset(k)
  <2> DEFINE key == KeyOf(k, At(k))
  <2>1. key \in ChangesetKeys /\ <<work[k].a, work[k].b>> \in Versions \X Versions
    BY <1>3 DEF UpsertChangeset, Advance, BuildReached
  <2>2. Sides(key) \subseteq snapshots
    BY <1>3 DEF UpsertChangeset, Advance, BuildReached, Sides, KeyOf
  <2>3. changesets'[key] # None
    BY <1>3, <2>1, PipelineAssumption DEF UpsertChangeset
  <2>4. \A c \in ChangesetKeys \ {key} : changesets'[c] = changesets[c]
    BY <1>3 DEF UpsertChangeset
  <2>5. { c \in ChangesetKeys : changesets'[c] # None } =
          { c \in ChangesetKeys : changesets[c] # None } \cup {key}
    BY <2>1, <2>3, <2>4
  <2>6. Approved' = Approved
    BY <1>3, SameApproved DEF UpsertChangeset, Advance
  <2>7. Promise!Build(key)
    BY <1>3, <2>2, <2>5, <2>6 DEF UpsertChangeset, serving, Promise!Build, HasFeatures
  <2> QED
    BY <2>1, <2>7 DEF Promise!Next
<1>4. CASE InsertFeatures(k)
  <2> DEFINE key == KeyOf(k, Instant(k))
             Shown == { s \in SnapshotKeys : HasFeatures(s) }
  <2>1. /\ key \in snapshots /\ key \in SnapshotKeys /\ key[2] = Instant(k)
        /\ work[k].a \in Versions
    BY <1>4 DEF InsertFeatures, Advance, PublishSnapshotReached
  <2>2. \A s \in SnapshotKeys \ {key} : snapshot_features'[s] = snapshot_features[s]
    BY <1>4 DEF InsertFeatures
  <2>3. \A s \in SnapshotKeys \ {key} : HasFeatures(s)' <=> HasFeatures(s)
    BY <2>2 DEF HasFeatures
  <2>4. /\ Approved' = Approved
        /\ UNCHANGED <<snapshots, changesets, change_features>>
    BY <1>4, SameApproved DEF InsertFeatures, Advance, metadata
  <2>5. CASE work[k].beaten
    <3>1. HasFeatures(key)' <=> HasFeatures(key)
      BY <1>4, <2>5 DEF InsertFeatures, HasFeatures
    <3>2. Shown' = Shown
      BY <2>3, <3>1
    <3> QED
      BY <2>4, <3>2 DEF Promise!vars
  <2>6. CASE ~work[k].beaten
    <3>1. snapshot_features'[key] = work[k].a
      BY <1>4, <2>1, <2>6 DEF InsertFeatures
    <3>2. CASE FeaturesOf(work[k].a, Instant(k)) # {}
      <4>1. HasFeatures(key)'
        BY <2>1, <3>1, <3>2 DEF HasFeatures, FeaturesOf
      <4>2. Shown' = Shown \cup {key}
        BY <2>1, <2>3, <4>1
      <4>3. Promise!Show(key)
        BY <2>1, <2>4, <4>2 DEF Promise!Show
      <4> QED
        BY <2>1, <4>3 DEF Promise!Next
    <3>3. CASE FeaturesOf(work[k].a, Instant(k)) = {}
      <4>1. ~HasFeatures(key)'
        BY <2>1, <3>1, <3>3 DEF HasFeatures, FeaturesOf
      <4>2. Shown' = Shown \ {key}
        BY <2>1, <2>3, <4>1
      <4>3. key \in Emptiable
        BY <2>1, <3>3, PipelineAssumption DEF FeaturesOf, Emptiable
      <4>4. Promise!Withdraw(key)
        BY <2>1, <2>4, <4>2, <4>3 DEF Promise!Withdraw
      <4> QED
        BY <2>1, <4>4 DEF Promise!Next
    <3> QED
      BY <3>2, <3>3
  <2> QED
    BY <2>5, <2>6
<1>5. CASE DeleteRows(k)
  <2> DEFINE key == KeyOf(k, At(k))
  <2>1. key \in ChangesetKeys /\ changesets[key] # None
    BY <1>5 DEF DeleteRows, Advance, PublishChangesetReached
  <2>2. Sides(key) \subseteq { s \in SnapshotKeys : HasFeatures(s) }
    BY <1>5 DEF DeleteRows, Advance, SnapshotsPublished, Sides, KeyOf
  <2>3. \A j \in Tasks : pc'[j] = "deleting" <=> j = k \/ pc[j] = "deleting"
    BY <1>5 DEF DeleteRows, Advance
  <2>4. Kind(k) = "publish_changeset"
    BY <1>5 DEF DeleteRows, Advance
  <2>5. Approved' = Approved \cup {key}
    BY <2>3, <2>4 DEF Approved
  <2>6. Promise!Approve(key)
    BY <1>5, <2>1, <2>2, <2>5 DEF DeleteRows, metadata, serving, Promise!Approve, HasFeatures
  <2> QED
    BY <2>1, <2>6 DEF Promise!Next
<1>6. CASE InsertRows(k)
  <2> DEFINE key == KeyOf(k, At(k))
  <2>1. key \in ChangesetKeys /\ Kind(k) = "publish_changeset" /\ pc[k] = "deleting"
    BY <1>6 DEF InsertRows, Advance
  <2>2. key \in Approved
    BY <2>1 DEF Approved
  <2>3. Approved' \in {Approved, Approved \ {key}}
    BY <1>6, <2>1, LessApproved DEF InsertRows, Advance
  <2>4. change_features'[key] # {}
    BY <1>6, <2>1 DEF InsertRows
  <2>5. \A c \in ChangesetKeys \ {key} : change_features'[c] = change_features[c]
    BY <1>6 DEF InsertRows
  <2>6. { c \in ChangesetKeys : change_features'[c] # {} } =
          { c \in ChangesetKeys : change_features[c] # {} } \cup {key}
    BY <2>1, <2>4, <2>5
  <2>7. Promise!Load(key)
    BY <1>6, <2>2, <2>3, <2>6 DEF InsertRows, metadata, Promise!Load, HasFeatures
  <2> QED
    BY <2>1, <2>7 DEF Promise!Next
<1>7. CASE GiveUp(k)
  <2>1. PICK to : to # "deleting" /\ pc' = [pc EXCEPT ![k] = to]
    BY <1>7 DEF GiveUp
  <2>2. UNCHANGED <<metadata, serving>>
    BY <1>7 DEF GiveUp
  <2>3. CASE Kind(k) = "publish_changeset"
    <3>1. Approved' \in {Approved, Approved \ {KeyOf(k, At(k))}}
      BY <2>1, <2>3, LessApproved
    <3>2. CASE Approved' = Approved
      BY <1>1, <2>2, <3>2
    <3>3. CASE Approved' = Approved \ {KeyOf(k, At(k))}
      <4>1. Promise!Abandon(KeyOf(k, At(k)))
        BY <2>2, <3>3 DEF metadata, serving, Promise!Abandon, HasFeatures
      <4> QED
        BY <2>3, <4>1 DEF Promise!Next
    <3> QED
      BY <3>1, <3>2, <3>3
  <2>4. CASE Kind(k) # "publish_changeset"
    <3>1. Approved' = Approved
      BY <2>1, <2>4, SameApproved
    <3> QED
      BY <1>1, <2>2, <3>1
  <2> QED
    BY <2>3, <2>4
<1>8. ASSUME \/ PutRaw(k) \/ PutProcessed(k) \/ ReadA(k) \/ ReadB(k) \/ PutLayer(k)
             \/ ReadProcessed(k) \/ DeleteFeatures(k) \/ ReadLayer(k)
      PROVE  UNCHANGED Promise!vars
  <2>1. PICK to : /\ pc' = [pc EXCEPT ![k] = to]
                  /\ Kind(k) = "publish_changeset" => pc[k] # "deleting" /\ to # "deleting"
    BY <1>8 DEF PutRaw, PutProcessed, ReadA, ReadB, PutLayer, ReadProcessed,
       DeleteFeatures, ReadLayer, Advance
  <2>2. Approved' = Approved
    BY <2>1, SameApproved
  <2>3. UNCHANGED <<metadata, serving>>
    BY <1>8 DEF PutRaw, PutProcessed, ReadA, ReadB, PutLayer, ReadProcessed,
       DeleteFeatures, ReadLayer, store
  <2> QED
    BY <1>1, <2>2, <2>3
<1>9. ASSUME Succeed(k) \/ UpstreamFailed(k)
      PROVE  UNCHANGED Promise!vars
  <2>1. PICK to : pc' = [pc EXCEPT ![k] = to] /\ pc[k] # "deleting" /\ to # "deleting"
    BY <1>9 DEF Succeed, UpstreamFailed
  <2>2. Approved' = Approved
    BY <2>1, SameApproved
  <2>3. UNCHANGED <<metadata, serving>>
    BY <1>9 DEF Succeed, UpstreamFailed
  <2> QED
    BY <1>1, <2>2, <2>3
<1> QED
  BY <1>2, <1>3, <1>4, <1>5, <1>6, <1>7, <1>8, <1>9 DEF Step, Crash, Raise

\* The pipeline keeps Publication's promise: both snapshots of a changeset were
\* seen with features before it is loaded, and features are only withdrawn from
\* a snapshot of which some version extracts nothing.
THEOREM Refinement == Spec => ImplementsPublication
<1>1. Init => Promise!Init
  BY DEF Init, Promise!Init, HasFeatures, FeaturesOf, Approved
<1>2. IInv /\ [Next]_vars => [Promise!Next]_(Promise!vars)
  <2>1. ASSUME UNCHANGED vars
        PROVE  UNCHANGED Promise!vars
    BY <2>1 DEF vars, metadata, serving, Promise!vars, HasFeatures, Approved
  <2> QED
    BY <2>1, StepPromised DEF Next, Over
<1> QED
  BY Invariance, <1>1, <1>2, PTL DEF Spec, ImplementsPublication, Promise!Spec
=============================================================================
