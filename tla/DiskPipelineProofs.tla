------------------------- MODULE DiskPipelineProofs -------------------------
(***************************************************************************)
(* Theorems about the disk pipeline: for any number of waves, anchors and  *)
(* shells, no chip is deleted that is not recorded and archived, no scan   *)
(* misses its chip, and the hot set stays bounded.                         *)
(***************************************************************************)
EXTENDS DiskPipeline, FiniteSetTheorems, TLAPS

USE PipelineAssumption

Pairs == Anchors \X Nat

\* What a shell may be running.
Merges   == [cmd : {"merge"}, wave : Waves, step : {"move"}, todo : SUBSET Anchors]
Archive(w) == [cmd : {"archive"}, wave : {w}, step : {"upload", "record"},
               tar : [MembersOf(w) -> Nat]]
Archives == UNION {Archive(w) : w \in Waves}
Scores   == [cmd : {"score"}, wave : Waves, step : {"scan"}]
Releases == [cmd : {"release"}, wave : Waves,
             step : {"hash", "manifest", "unlink", "rmdir"},
             chips : SUBSET Anchors, hashes : SUBSET Pairs]
Running == Merges \cup Archives \cup Scores \cup Releases \cup {Free}

TypeOK ==
    /\ work \in [Anchors -> Nat] /\ hot \in [Anchors -> Nat] /\ dirs \subseteq Anchors
    /\ mergeOk \subseteq Waves /\ releaseOk \subseteq Waves
    /\ archive \in [Anchors -> Nat]
    /\ verdict \in [Anchors -> {"none", "scored", "missing"}]
    /\ shells \in [Shells -> Running]
    /\ downloads \in [Anchors -> Nat]
    /\ widest \in Nat

\* Merges are finitely many.
LEMMA MergingIsFinite == IsFiniteSet(Merging) /\ Cardinality(Merging) \in Nat
<1>1. IsFiniteSet(Merging)
  BY FS_Subset DEF Merging, PipelineAssumption
<1> QED BY <1>1, FS_CardinalityType

\* Every variable keeps its type.
LEMMA TypeStep == TypeOK /\ [Next]_vars => TypeOK'
<1> SUFFICES ASSUME TypeOK, [Next]_vars PROVE TypeOK'
  OBVIOUS
<1> USE DEF TypeOK, disk, sentinels, history
<1>1. ASSUME NEW w \in Waves,
             LaunchWave(w) \/ LaneEnds(w) \/ LaneAgain(w) \/ QaWave(w)
      PROVE  TypeOK'
  BY <1>1 DEF LaunchWave, LaneEnds, LaneAgain, QaWave
<1>2. ASSUME NEW a \in Anchors, Download(a) PROVE TypeOK'
  BY <1>2 DEF Download
<1>3. ASSUME NEW p \in Shells, NEW w \in Waves, MergeWave(p, w) PROVE TypeOK'
  <2>1. {a \in MembersOf(w) : work[a] # 0} \in SUBSET Anchors
    BY DEF MembersOf
  <2>2. shells' \in [Shells -> Running]
    BY <1>3, <2>1 DEF MergeWave, Running, Merges
  <2>3. Cardinality(Merging) \in Nat
    BY MergingIsFinite
  <2>4. widest' \in Nat
    BY <1>3, <2>3 DEF MergeWave
  <2> QED BY <1>3, <2>2, <2>4 DEF MergeWave
<1>4. ASSUME NEW p \in Shells, NEW w \in Waves, ArchiveWave(p, w) PROVE TypeOK'
  <2>1. [a \in MembersOf(w) |-> hot[a]] \in [MembersOf(w) -> Nat]
    BY DEF MembersOf
  <2>2. shells' = [shells EXCEPT ![p] = [cmd |-> "archive", wave |-> w, step |-> "upload",
                                         tar |-> [a \in MembersOf(w) |-> hot[a]]]]
    BY <1>4 DEF ArchiveWave
  <2>3. shells' \in [Shells -> Running]
    <3> DEFINE tar == [a \in MembersOf(w) |-> hot[a]]
    <3>1. tar \in [MembersOf(w) -> Nat]
      BY <2>1
    <3> HIDE DEF tar
    <3>2. [cmd |-> "archive", wave |-> w, step |-> "upload", tar |-> tar] \in Archive(w)
      BY <3>1 DEF Archive
    <3> QED BY <2>2, <3>2 DEF Running, Archives, tar
  <2> QED BY <1>4, <2>3 DEF ArchiveWave
<1>5. ASSUME NEW p \in Shells, NEW w \in Waves, ScoreWave(p, w) PROVE TypeOK'
  BY <1>5 DEF ScoreWave, Running, Scores
<1>6. ASSUME NEW p \in Shells, NEW w \in Waves, ReleaseWave(p, w) PROVE TypeOK'
  <2>1. {a \in MembersOf(w) : hot[a] # 0} \in SUBSET Anchors
    BY DEF MembersOf
  <2> QED BY <1>6, <2>1 DEF ReleaseWave, Running, Releases
<1>7. ASSUME NEW p \in Shells, NEW a \in Anchors, MoveChip(p, a) PROVE TypeOK'
  <2>1. shells[p] \in Merges
    BY <1>7 DEF MoveChip, Runs, Running, Releases, Archives, Archive, Scores, Free
  <2>2. [shells[p] EXCEPT !.todo = @ \ {a}] \in Merges
    BY <2>1 DEF Merges
  <2> QED BY <1>7, <2>2 DEF MoveChip, Running
<1>8. ASSUME NEW p \in Shells, NEW a \in Anchors, Scan(p, a) PROVE TypeOK'
  BY <1>8 DEF Scan
<1>9. ASSUME NEW p \in Shells, NEW a \in Anchors, Unlink(p, a) PROVE TypeOK'
  <2>1. shells[p] \in Releases
    BY <1>9 DEF Unlink, Runs, Running, Merges, Archives, Archive, Scores, Free
  <2>2. [shells[p] EXCEPT !.chips = @ \ {a}] \in Releases
    BY <2>1 DEF Releases
  <2> QED BY <1>9, <2>2 DEF Unlink, Running
<1>10. ASSUME NEW p \in Shells, AuditPasses(p) PROVE TypeOK'
  BY <1>10 DEF AuditPasses, Moved, Ends, Running, Runs, Merges, Archives, Archive, Scores, Releases, Free
<1>11. ASSUME NEW p \in Shells, AuditFails(p) \/ BackedUp(p) \/ Scored(p) \/ RemoveDirs(p) \/ Stops(p)
       PROVE TypeOK'
  BY <1>11 DEF AuditFails, Moved, BackedUp, Scored, RemoveDirs, Stops, Ends, Running
<1>12. ASSUME NEW p \in Shells, Upload(p) PROVE TypeOK'
  <2>1. PICK w \in Waves : shells[p] \in Archive(w)
    BY <1>12 DEF Upload, Runs, Running, Archives, Merges, Releases, Scores, Free
  <2>2. [shells[p] EXCEPT !.step = "record"] \in Archive(w)
    BY <2>1 DEF Archive
  <2>3. archive' \in [Anchors -> Nat]
    BY <1>12, <2>1 DEF Upload, Archive, Members
  <2> QED BY <1>12, <2>2, <2>3 DEF Upload, Goes, Running, Archives
<1>13. ASSUME NEW p \in Shells, HashAll(p) PROVE TypeOK'
  <2>1. shells[p] \in Releases
    BY <1>13 DEF HashAll, Runs, Running, Merges, Archives, Archive, Scores, Free
  <2>2. {<<a, hot[a]>> : a \in shells[p].chips} \subseteq Pairs
    BY <2>1 DEF Releases, Pairs
  <2>3. [shells[p] EXCEPT !.step = "manifest", !.hashes = {<<a, hot[a]>> : a \in shells[p].chips}]
            \in Releases
    BY <2>1, <2>2 DEF Releases
  <2> QED BY <1>13, <2>3 DEF HashAll, Running
<1>14. ASSUME NEW p \in Shells, AppendManifest(p) PROVE TypeOK'
  <2>1. shells[p] \in Releases
    BY <1>14 DEF AppendManifest, Runs, Running, Merges, Archives, Archive, Scores, Free
  <2>2. [shells[p] EXCEPT !.step = "unlink"] \in Releases
    BY <2>1 DEF Releases
  <2> QED BY <1>14, <2>2 DEF AppendManifest, Goes, Running
<1>15. ASSUME NEW p \in Shells, Released(p) PROVE TypeOK'
  <2>1. shells[p] \in Releases
    BY <1>15 DEF Released, Runs, Running, Merges, Archives, Archive, Scores, Free
  <2>2. [shells[p] EXCEPT !.step = "rmdir"] \in Releases
    BY <2>1 DEF Releases
  <2> QED BY <1>15, <2>1, <2>2 DEF Released, Goes, Running, Releases
<1>16. CASE UNCHANGED vars
  BY <1>16 DEF vars
<1> QED
  BY <1>1, <1>2, <1>3, <1>4, <1>5, <1>6, <1>7, <1>8, <1>9, <1>10, <1>11, <1>12,
     <1>13, <1>14, <1>15, <1>16 DEF Next, Commands

-----------------------------------------------------------------------------
(* What deletion rests on.                                                 *)

\* The chip in the hot set, if there is one, is in S or came after the archive.
Safe(a, S) == hot[a] # 0 => <<a, hot[a]>> \in S \cup late

\* It is in S, or was merged over a chip that a release had hashed.
Recorded(a, S) == hot[a] # 0 => <<a, hot[a]>> \in S \cup swapped

\* A release runs only on an archived and scored wave, over its own chips.
ReleaseAllowed ==
    \A p \in Shells : shells[p].cmd = "release" =>
        /\ shells[p].wave \in backupOk /\ shells[p].wave \in scoreOk
        /\ shells[p].chips \subseteq MembersOf(shells[p].wave)

\* Every step keeps the facts that allow a release.
LEMMA AllowedStep ==
    TypeOK /\ ReleaseAllowed /\ [Next]_vars => ReleaseAllowed'
<1> SUFFICES ASSUME TypeOK, ReleaseAllowed, [Next]_vars PROVE ReleaseAllowed'
  OBVIOUS
<1> USE DEF TypeOK, ReleaseAllowed, disk, sentinels, history
<1>1. ASSUME NEW w \in Waves,
             LaunchWave(w) \/ LaneEnds(w) \/ LaneAgain(w) \/ QaWave(w)
      PROVE  ReleaseAllowed'
  BY <1>1 DEF LaunchWave, LaneEnds, LaneAgain, QaWave
<1>2. ASSUME NEW a \in Anchors, Download(a) PROVE ReleaseAllowed'
  BY <1>2 DEF Download
<1>3. ASSUME NEW p \in Shells, NEW w \in Waves,
             MergeWave(p, w) \/ ArchiveWave(p, w) \/ ScoreWave(p, w)
      PROVE  ReleaseAllowed'
  BY <1>3 DEF MergeWave, ArchiveWave, ScoreWave
<1>4. ASSUME NEW p \in Shells, NEW w \in Waves, ReleaseWave(p, w) PROVE ReleaseAllowed'
  BY <1>4 DEF ReleaseWave, MayRelease
<1>5. ASSUME NEW p \in Shells, NEW a \in Anchors, MoveChip(p, a) \/ Scan(p, a)
      PROVE  ReleaseAllowed'
  BY <1>5 DEF MoveChip, Scan, Runs, Running, Merges, Archives, Archive, Scores, Releases, Free
<1>6. ASSUME NEW p \in Shells, NEW a \in Anchors, Unlink(p, a) PROVE ReleaseAllowed'
  BY <1>6 DEF Unlink, Runs, Running, Merges, Archives, Archive, Scores, Releases, Free
<1>7. ASSUME NEW p \in Shells,
             AuditPasses(p) \/ AuditFails(p) \/ BackedUp(p) \/ Scored(p) \/ RemoveDirs(p) \/ Stops(p)
      PROVE  ReleaseAllowed'
  BY <1>7 DEF AuditPasses, Moved, AuditFails, BackedUp, Scored, RemoveDirs, Stops, Ends, Free
<1>8. ASSUME NEW p \in Shells, Upload(p) \/ AppendManifest(p) \/ Released(p)
      PROVE  ReleaseAllowed'
  BY <1>8 DEF Upload, AppendManifest, Released, Goes, Runs, Running, Merges, Archives,
              Archive, Scores, Releases, Free
<1>9. ASSUME NEW p \in Shells, HashAll(p) PROVE ReleaseAllowed'
  BY <1>9 DEF HashAll, Runs, Running, Merges, Archives, Archive, Scores, Releases, Free
<1>10. CASE UNCHANGED vars
  BY <1>10 DEF vars
<1> QED
  BY <1>1, <1>2, <1>3, <1>4, <1>5, <1>6, <1>7, <1>8, <1>9, <1>10 DEF Next, Commands

\* What a verified tar held, or is about to: a chip that is not the one in an
\* archiving command's tar came after it.
BackedUpSafe == \A a \in Anchors : WaveOf[a] \in backupOk => Safe(a, archived)
TarSafe ==
    \A p \in Shells : \A a \in Anchors :
        shells[p].cmd = "archive" /\ shells[p].wave = WaveOf[a] =>
            /\ shells[p].step = "upload" =>
                  hot[a] = shells[p].tar[a] \/ Safe(a, {})
            /\ shells[p].step = "record" => Safe(a, archived)
ArchiveInv == BackedUpSafe /\ TarSafe

\* Every step keeps the facts about the archive.
LEMMA ArchiveStep ==
    TypeOK /\ ArchiveInv /\ [Next]_vars => ArchiveInv'
<1> SUFFICES ASSUME TypeOK, ArchiveInv, [Next]_vars PROVE ArchiveInv'
  OBVIOUS
<1> USE DEF ArchiveInv, disk, sentinels, history, TypeOK, BackedUpSafe, TarSafe, Safe, MembersOf
<1>1. ASSUME NEW w \in Waves,
             LaunchWave(w) \/ LaneEnds(w) \/ LaneAgain(w) \/ QaWave(w)
      PROVE  ArchiveInv'
  BY <1>1 DEF LaunchWave, LaneEnds, LaneAgain, QaWave
<1>2. ASSUME NEW a \in Anchors,
             Download(a)
      PROVE  ArchiveInv'
  BY <1>2 DEF Download
<1>3. ASSUME NEW p \in Shells, NEW w \in Waves,
             MergeWave(p, w) \/ ScoreWave(p, w)
      PROVE  ArchiveInv'
  BY <1>3 DEF MergeWave, ScoreWave
<1>4. ASSUME NEW p \in Shells, NEW w \in Waves,
             ArchiveWave(p, w)
      PROVE  ArchiveInv'
  BY <1>4 DEF ArchiveWave, MembersOf
<1>5. ASSUME NEW p \in Shells, NEW w \in Waves,
             ReleaseWave(p, w)
      PROVE  ArchiveInv'
  BY <1>5 DEF ReleaseWave
<1>6. ASSUME NEW p \in Shells, NEW a \in Anchors,
             Scan(p, a)
      PROVE  ArchiveInv'
  BY <1>6 DEF Scan
<1>7. ASSUME NEW p \in Shells, NEW a \in Anchors,
             MoveChip(p, a)
      PROVE  ArchiveInv'
  BY <1>7 DEF MoveChip, Archiving, Runs, Running, Merges, Archives, Archive, Scores, Releases, Free
<1>8. ASSUME NEW p \in Shells, NEW a \in Anchors,
             Unlink(p, a)
      PROVE  ArchiveInv'
  BY <1>8 DEF Unlink, Runs, Running, Merges, Archives, Archive, Scores, Releases, Free
<1>9. ASSUME NEW p \in Shells,
             AuditPasses(p) \/ AuditFails(p) \/ Scored(p) \/ RemoveDirs(p) \/ Stops(p)
      PROVE  ArchiveInv'
  BY <1>9 DEF AuditPasses, Moved, AuditFails, Scored, RemoveDirs, Stops, Ends, Free
<1>10. ASSUME NEW p \in Shells,
             BackedUp(p)
      PROVE  ArchiveInv'
  BY <1>10 DEF BackedUp, Ends, Runs, Running, Merges, Archives, Archive, Scores, Releases, Free
<1>11. ASSUME NEW p \in Shells,
             Upload(p)
      PROVE  ArchiveInv'
  BY <1>11 DEF Upload, Goes, Members, Runs, Running, Merges, Archives, Archive, Scores, Releases, Free
<1>12. ASSUME NEW p \in Shells,
             AppendManifest(p)
      PROVE  ArchiveInv'
  BY <1>12 DEF AppendManifest, Goes, Runs, Running, Merges, Archives, Archive, Scores, Releases, Free
<1>13. ASSUME NEW p \in Shells,
             Released(p)
      PROVE  ArchiveInv'
  BY <1>13 DEF Released, Goes, Runs, Running, Merges, Archives, Archive, Scores, Releases, Free
<1>14. ASSUME NEW p \in Shells,
             HashAll(p)
      PROVE  ArchiveInv'
  BY <1>14 DEF HashAll, Runs, Running, Merges, Archives, Archive, Scores, Releases, Free
<1>15. CASE UNCHANGED vars
  BY <1>15 DEF vars
<1> QED
  BY <1>1, <1>2, <1>3, <1>4, <1>5, <1>6, <1>7, <1>8, <1>9, <1>10, <1>11, <1>12, <1>13, <1>14, <1>15 DEF Next, Commands

\* The hashes of a running release cover its chips, and once it deletes, so does
\* the manifest.
RecordInv ==
    \A p \in Shells : shells[p].cmd = "release" =>
        /\ shells[p].step = "manifest" =>
              \A a \in shells[p].chips : Recorded(a, shells[p].hashes)
        /\ shells[p].step = "unlink" =>
              \A a \in shells[p].chips : Recorded(a, manifest)

\* Every step keeps the facts about recorded chips.
LEMMA RecordStep ==
    TypeOK /\ RecordInv /\ [Next]_vars => RecordInv'
<1> SUFFICES ASSUME TypeOK, RecordInv, [Next]_vars PROVE RecordInv'
  OBVIOUS
<1> USE DEF RecordInv, disk, sentinels, history, TypeOK, Recorded
<1>1. ASSUME NEW w \in Waves,
             LaunchWave(w) \/ LaneEnds(w) \/ LaneAgain(w) \/ QaWave(w)
      PROVE  RecordInv'
  BY <1>1 DEF LaunchWave, LaneEnds, LaneAgain, QaWave
<1>2. ASSUME NEW a \in Anchors,
             Download(a)
      PROVE  RecordInv'
  BY <1>2 DEF Download
<1>3. ASSUME NEW p \in Shells, NEW w \in Waves,
             MergeWave(p, w) \/ ArchiveWave(p, w) \/ ScoreWave(p, w) \/ ReleaseWave(p, w)
      PROVE  RecordInv'
  BY <1>3 DEF MergeWave, ArchiveWave, ScoreWave, ReleaseWave
<1>4. ASSUME NEW p \in Shells, NEW a \in Anchors,
             Scan(p, a)
      PROVE  RecordInv'
  BY <1>4 DEF Scan
<1>5. ASSUME NEW p \in Shells, NEW a \in Anchors,
             MoveChip(p, a)
      PROVE  RecordInv'
  BY <1>5 DEF MoveChip, Hashed, Runs, Running, Merges, Archives, Archive, Scores, Releases, Free
<1>6. ASSUME NEW p \in Shells, NEW a \in Anchors,
             Unlink(p, a)
      PROVE  RecordInv'
  BY <1>6 DEF Unlink, Runs, Running, Merges, Archives, Archive, Scores, Releases, Free
<1>7. ASSUME NEW p \in Shells,
             AuditPasses(p) \/ AuditFails(p) \/ BackedUp(p) \/ Scored(p) \/ RemoveDirs(p) \/ Stops(p)
      PROVE  RecordInv'
  BY <1>7 DEF AuditPasses, Moved, AuditFails, BackedUp, Scored, RemoveDirs, Stops, Ends, Free
<1>8. ASSUME NEW p \in Shells,
             Upload(p)
      PROVE  RecordInv'
  BY <1>8 DEF Upload, Goes, Runs, Running, Merges, Archives, Archive, Scores, Releases, Free
<1>9. ASSUME NEW p \in Shells,
             AppendManifest(p)
      PROVE  RecordInv'
  BY <1>9 DEF AppendManifest, Goes, Runs, Running, Merges, Archives, Archive, Scores, Releases, Free
<1>10. ASSUME NEW p \in Shells,
             Released(p)
      PROVE  RecordInv'
  BY <1>10 DEF Released, Goes, Runs, Running, Merges, Archives, Archive, Scores, Releases, Free
<1>11. ASSUME NEW p \in Shells,
             HashAll(p)
      PROVE  RecordInv'
  BY <1>11 DEF HashAll, Runs, Running, Merges, Archives, Archive, Scores, Releases, Free
<1>12. CASE UNCHANGED vars
  BY <1>12 DEF vars
<1> QED
  BY <1>1, <1>2, <1>3, <1>4, <1>5, <1>6, <1>7, <1>8, <1>9, <1>10, <1>11, <1>12 DEF Next, Commands

-----------------------------------------------------------------------------
(* What scoring rests on.                                                  *)

\* A checked wave keeps each chip until its scan has ended, a wave is scored
\* when all its scans have, and scans run on checked waves only.
StagedInv ==
    /\ \A a \in Anchors : WaveOf[a] \in qaDone => hot[a] # 0 \/ verdict[a] # "none"
    /\ \A a \in Anchors : WaveOf[a] \in scoreOk => verdict[a] # "none"
    /\ \A p \in Shells : shells[p].cmd = "score" => shells[p].wave \in qaDone
    /\ NoScanWithoutChip

\* Every step keeps the facts about staged chips.
LEMMA StagedStep ==
    TypeOK /\ ReleaseAllowed /\ StagedInv /\ [Next]_vars => StagedInv'
<1> SUFFICES ASSUME TypeOK, ReleaseAllowed, StagedInv, [Next]_vars PROVE StagedInv'
  OBVIOUS
<1> USE DEF StagedInv, disk, sentinels, history, TypeOK, NoScanWithoutChip
<1>1. ASSUME NEW w \in Waves,
             LaunchWave(w) \/ LaneEnds(w) \/ LaneAgain(w)
      PROVE  StagedInv'
  BY <1>1 DEF LaunchWave, LaneEnds, LaneAgain
<1>2. ASSUME NEW w \in Waves,
             QaWave(w)
      PROVE  StagedInv'
  BY <1>2 DEF QaWave, MembersOf
<1>3. ASSUME NEW a \in Anchors,
             Download(a)
      PROVE  StagedInv'
  BY <1>3 DEF Download
<1>4. ASSUME NEW p \in Shells, NEW w \in Waves,
             MergeWave(p, w) \/ ArchiveWave(p, w) \/ ReleaseWave(p, w)
      PROVE  StagedInv'
  BY <1>4 DEF MergeWave, ArchiveWave, ReleaseWave
<1>5. ASSUME NEW p \in Shells, NEW w \in Waves,
             ScoreWave(p, w)
      PROVE  StagedInv'
  BY <1>5 DEF ScoreWave
<1>6. ASSUME NEW p \in Shells, NEW a \in Anchors,
             MoveChip(p, a)
      PROVE  StagedInv'
  BY <1>6 DEF MoveChip, Runs, Running, Merges, Archives, Archive, Scores, Releases, Free
<1>7. ASSUME NEW p \in Shells, NEW a \in Anchors,
             Scan(p, a)
      PROVE  StagedInv'
  BY <1>7 DEF Scan, Members, MembersOf, Runs, Running, Merges, Archives, Archive, Scores, Releases, Free
<1>8. ASSUME NEW p \in Shells, NEW a \in Anchors,
             Unlink(p, a)
      PROVE  StagedInv'
  BY <1>8 DEF Unlink, ReleaseAllowed, MembersOf, Runs, Running, Merges, Archives, Archive, Scores, Releases, Free
<1>9. ASSUME NEW p \in Shells,
             AuditPasses(p) \/ AuditFails(p) \/ BackedUp(p) \/ RemoveDirs(p) \/ Stops(p)
      PROVE  StagedInv'
  BY <1>9 DEF AuditPasses, Moved, AuditFails, BackedUp, RemoveDirs, Stops, Ends, Free
<1>10. ASSUME NEW p \in Shells,
             Scored(p)
      PROVE  StagedInv'
  BY <1>10 DEF Scored, Ends, Members, MembersOf, Runs, Running, Merges, Archives, Archive, Scores, Releases, Free
<1>11. ASSUME NEW p \in Shells,
             Upload(p)
      PROVE  StagedInv'
  BY <1>11 DEF Upload, Goes, Runs, Running, Merges, Archives, Archive, Scores, Releases, Free
<1>12. ASSUME NEW p \in Shells,
             AppendManifest(p)
      PROVE  StagedInv'
  BY <1>12 DEF AppendManifest, Goes, Runs, Running, Merges, Archives, Archive, Scores, Releases, Free
<1>13. ASSUME NEW p \in Shells,
             Released(p)
      PROVE  StagedInv'
  BY <1>13 DEF Released, Goes, Runs, Running, Merges, Archives, Archive, Scores, Releases, Free
<1>14. ASSUME NEW p \in Shells,
             HashAll(p)
      PROVE  StagedInv'
  BY <1>14 DEF HashAll, Runs, Running, Merges, Archives, Archive, Scores, Releases, Free
<1>15. CASE UNCHANGED vars
  BY <1>15 DEF vars
<1> QED
  BY <1>1, <1>2, <1>3, <1>4, <1>5, <1>6, <1>7, <1>8, <1>9, <1>10, <1>11, <1>12, <1>13, <1>14, <1>15 DEF Next, Commands

-----------------------------------------------------------------------------
(* The hot set.                                                            *)

\* Every merge that runs may still add a wave.
HotInv ==
    /\ widest >= 1
    /\ Cardinality(Hot) + Cardinality(Merging) <= MaxHot - 1 + widest

\* Hot only loses waves, or gains the one of a merge that ends.
LEMMA HotShrinks ==
    ASSUME TypeOK, mergeOk' = mergeOk, releaseOk \subseteq releaseOk'
    PROVE  Cardinality(Hot') <= Cardinality(Hot) /\ Cardinality(Hot) \in Nat
           /\ Cardinality(Hot') \in Nat
<1>1. IsFiniteSet(Hot) /\ Hot' \subseteq Hot
  BY FS_Subset DEF TypeOK, Hot, PipelineAssumption
<1> QED BY <1>1, FS_Subset, FS_CardinalityType


\* A step that merges nothing and starts no merge keeps the bound.
LEMMA HotKept ==
    ASSUME TypeOK, HotInv, mergeOk' = mergeOk, releaseOk \subseteq releaseOk',
           Merging' \subseteq Merging, widest' = widest
    PROVE  HotInv'
<1>1. Cardinality(Hot') <= Cardinality(Hot) /\ Cardinality(Hot) \in Nat
      /\ Cardinality(Hot') \in Nat
  BY HotShrinks
<1>2. Cardinality(Merging') <= Cardinality(Merging) /\ Cardinality(Merging') \in Nat
  BY MergingIsFinite, FS_Subset, FS_CardinalityType
<1>3. Cardinality(Merging) \in Nat /\ widest \in Nat /\ MaxHot \in Nat
  BY MergingIsFinite DEF TypeOK, PipelineAssumption
<1> QED
  BY <1>1, <1>2, <1>3 DEF HotInv

\* A set with one more element has a cardinality of one more at most.
LEMMA OneMore ==
    ASSUME NEW S, NEW x, NEW T, IsFiniteSet(S), T \subseteq S \cup {x}
    PROVE  /\ Cardinality(S) \in Nat /\ Cardinality(T) \in Nat
           /\ Cardinality(T) <= Cardinality(S) + 1
<1>1. Cardinality(S) \in Nat
  BY FS_CardinalityType
<1>2. IsFiniteSet(S \cup {x}) /\ Cardinality(S \cup {x}) <= Cardinality(S) + 1
  <2>1. /\ IsFiniteSet(S \cup {x})
        /\ Cardinality(S \cup {x}) = IF x \in S THEN Cardinality(S) ELSE Cardinality(S) + 1
    BY FS_AddElement, Zenon
  <2> QED BY <1>1, <2>1
<1>3. IsFiniteSet(T) /\ Cardinality(T) <= Cardinality(S \cup {x})
  BY <1>2, FS_Subset
<1> QED BY <1>1, <1>2, <1>3, FS_CardinalityType

\* Every step keeps the hot set bounded.
LEMMA HotStep == TypeOK /\ HotInv /\ [Next]_vars => HotInv'
<1> SUFFICES ASSUME TypeOK, HotInv, [Next]_vars PROVE HotInv'
  OBVIOUS
<1> USE DEF TypeOK, disk, sentinels, history
<1>1. ASSUME NEW w \in Waves,
             LaunchWave(w) \/ LaneEnds(w) \/ LaneAgain(w) \/ QaWave(w)
      PROVE  HotInv'
  <2>1. mergeOk' = mergeOk /\ releaseOk \subseteq releaseOk'
    BY <1>1 DEF LaunchWave, LaneEnds, LaneAgain, QaWave
  <2>2. Merging' \subseteq Merging /\ widest' = widest
    BY <1>1 DEF LaunchWave, LaneEnds, LaneAgain, QaWave, Merging
  <2> QED BY <2>1, <2>2, HotKept
<1>2. ASSUME NEW a \in Anchors,
             Download(a)
      PROVE  HotInv'
  <2>1. mergeOk' = mergeOk /\ releaseOk \subseteq releaseOk'
    BY <1>2 DEF Download
  <2>2. Merging' \subseteq Merging /\ widest' = widest
    BY <1>2 DEF Download, Merging
  <2> QED BY <2>1, <2>2, HotKept
<1>3. ASSUME NEW p \in Shells, NEW w \in Waves,
             ArchiveWave(p, w) \/ ScoreWave(p, w) \/ ReleaseWave(p, w)
      PROVE  HotInv'
  <2>1. mergeOk' = mergeOk /\ releaseOk \subseteq releaseOk'
    BY <1>3 DEF ArchiveWave, ScoreWave, ReleaseWave
  <2>2. Merging' \subseteq Merging /\ widest' = widest
    BY <1>3 DEF ArchiveWave, ScoreWave, ReleaseWave, Merging
  <2> QED BY <2>1, <2>2, HotKept
<1>4. ASSUME NEW p \in Shells, NEW a \in Anchors,
             MoveChip(p, a) \/ Scan(p, a)
      PROVE  HotInv'
  <2>1. mergeOk' = mergeOk /\ releaseOk \subseteq releaseOk'
    BY <1>4 DEF MoveChip, Scan
  <2>2. Merging' \subseteq Merging /\ widest' = widest
    BY <1>4 DEF MoveChip, Scan, Merging, Runs, Running, Merges, Archives, Archive, Scores, Releases, Free
  <2> QED BY <2>1, <2>2, HotKept
<1>5. ASSUME NEW p \in Shells, NEW a \in Anchors,
             Unlink(p, a)
      PROVE  HotInv'
  <2>1. mergeOk' = mergeOk /\ releaseOk \subseteq releaseOk'
    BY <1>5 DEF Unlink, Runs, Running, Merges, Archives, Archive, Scores, Releases, Free
  <2>2. Merging' \subseteq Merging /\ widest' = widest
    BY <1>5 DEF Unlink, Runs, Running, Merges, Archives, Archive, Scores, Releases, Free, Merging
  <2> QED BY <2>1, <2>2, HotKept
<1>6. ASSUME NEW p \in Shells,
             AuditFails(p) \/ BackedUp(p) \/ Scored(p) \/ RemoveDirs(p) \/ Stops(p)
      PROVE  HotInv'
  <2>1. mergeOk' = mergeOk /\ releaseOk \subseteq releaseOk'
    BY <1>6 DEF AuditFails, Moved, BackedUp, Scored, RemoveDirs, Stops, Ends, Free
  <2>2. Merging' \subseteq Merging /\ widest' = widest
    BY <1>6 DEF AuditFails, Moved, BackedUp, Scored, RemoveDirs, Stops, Ends, Free, Merging
  <2> QED BY <2>1, <2>2, HotKept
<1>7. ASSUME NEW p \in Shells,
             Upload(p) \/ AppendManifest(p) \/ Released(p)
      PROVE  HotInv'
  <2>1. mergeOk' = mergeOk /\ releaseOk \subseteq releaseOk'
    BY <1>7 DEF Upload, AppendManifest, Released, Goes, Runs, Running, Merges, Archives, Archive, Scores, Releases, Free
  <2>2. Merging' \subseteq Merging /\ widest' = widest
    BY <1>7 DEF Upload, AppendManifest, Released, Goes, Runs, Running, Merges, Archives, Archive, Scores, Releases, Free, Merging
  <2> QED BY <2>1, <2>2, HotKept
<1>8. ASSUME NEW p \in Shells,
             HashAll(p)
      PROVE  HotInv'
  <2>1. mergeOk' = mergeOk /\ releaseOk \subseteq releaseOk'
    BY <1>8 DEF HashAll, Runs, Running, Merges, Archives, Archive, Scores, Releases, Free
  <2>2. Merging' \subseteq Merging /\ widest' = widest
    BY <1>8 DEF HashAll, Runs, Running, Merges, Archives, Archive, Scores, Releases, Free, Merging
  <2> QED BY <2>1, <2>2, HotKept
<1>9. ASSUME NEW p \in Shells, NEW w \in Waves,
             MergeWave(p, w)
      PROVE  HotInv'
  <2>1. Merging' \subseteq Merging \cup {p} /\ Hot' = Hot
    BY <1>9 DEF MergeWave, Merging, Hot
  <2>2. /\ Cardinality(Merging) \in Nat /\ Cardinality(Merging') \in Nat
        /\ Cardinality(Merging') <= Cardinality(Merging) + 1
    BY <2>1, MergingIsFinite, OneMore
  <2>3. Cardinality(Hot) \in Nat
    <3>1. IsFiniteSet(Hot)
      BY FS_Subset DEF Hot, PipelineAssumption
    <3> QED BY <3>1, FS_CardinalityType
  <2>4. Cardinality(Hot) <= MaxHot - 1 /\ MaxHot \in Nat
    BY <1>9, <2>3 DEF MergeWave, GateOpen, PipelineAssumption
  <2>5. widest' >= Cardinality(Merging) + 1 /\ widest' >= widest /\ widest' \in Nat
    BY <1>9, <2>2 DEF MergeWave
  <2> QED BY <2>1, <2>2, <2>3, <2>4, <2>5 DEF HotInv
<1>10. ASSUME NEW p \in Shells,
             AuditPasses(p)
      PROVE  HotInv'
  <2>1. p \in Merging /\ Merging' = Merging \ {p} /\ widest' = widest
    BY <1>10 DEF AuditPasses, Moved, Runs, Ends, Merging, Free
  <2>2. shells[p].wave \in Waves
    BY <1>10 DEF AuditPasses, Moved, Runs, Running, Merges, Archives, Archive, Scores, Releases, Free
  <2>3. Hot' \subseteq Hot \cup {shells[p].wave}
    BY <1>10 DEF AuditPasses, Moved, Hot
  <2>4. IsFiniteSet(Hot)
    BY FS_Subset DEF Hot, PipelineAssumption
  <2>5. /\ Cardinality(Hot) \in Nat /\ Cardinality(Hot') \in Nat
        /\ Cardinality(Hot') <= Cardinality(Hot) + 1
    BY <2>3, <2>4, OneMore
  <2>6. /\ Cardinality(Merging') = Cardinality(Merging) - 1
        /\ Cardinality(Merging) \in Nat /\ Cardinality(Merging') \in Nat
    <3>1. IsFiniteSet(Merging) /\ IsFiniteSet(Merging') /\ p \in Merging
      BY <2>1, MergingIsFinite, FS_Subset
    <3> QED BY <2>1, <3>1, FS_RemoveElement, FS_CardinalityType
  <2>7. MaxHot \in Nat /\ widest \in Nat
    BY DEF PipelineAssumption
  <2> QED BY <2>1, <2>5, <2>6, <2>7 DEF HotInv
<1>11. CASE UNCHANGED vars
  <2>1. mergeOk' = mergeOk /\ releaseOk' = releaseOk /\ Merging' = Merging /\ widest' = widest
    BY <1>11 DEF vars, Merging
  <2> QED BY <2>1, HotKept
<1> QED
  BY <1>1, <1>2, <1>3, <1>4, <1>5, <1>6, <1>7, <1>8, <1>9, <1>10, <1>11 DEF Next, Commands

-----------------------------------------------------------------------------
(* The theorems.                                                           *)

IInv == TypeOK /\ ReleaseAllowed /\ ArchiveInv /\ RecordInv /\ StagedInv /\ HotInv

\* The invariant holds at first.
LEMMA InitOK == Init => IInv
<1> SUFFICES ASSUME Init PROVE IInv
  OBVIOUS
<1> USE DEF Init
<1>1. TypeOK /\ ReleaseAllowed /\ RecordInv
  BY DEF TypeOK, ReleaseAllowed, RecordInv, Running, Free
<1>2. ArchiveInv
  BY DEF ArchiveInv, BackedUpSafe, TarSafe, Free
<1>3. StagedInv
  BY DEF StagedInv, NoScanWithoutChip, Free
<1>4. HotInv
  <2>1. Merging = {} /\ Hot = {}
    BY DEF Merging, Hot, Free
  <2> QED BY <2>1, FS_EmptySet DEF HotInv, PipelineAssumption
<1> QED BY <1>1, <1>2, <1>3, <1>4 DEF IInv

\* The pipeline's invariant, inductive and true of every reachable state.
THEOREM InvariantHolds == Spec => []IInv
<1>1. IInv /\ [Next]_vars => IInv'
  BY TypeStep, AllowedStep, ArchiveStep, RecordStep, StagedStep, HotStep DEF IInv
<1> QED BY InitOK, <1>1, PTL DEF Spec

\* No anchor's scan ends for want of a chip: score-wave starts on checked waves
\* and release-wave waits for SCORE_OK, whatever runs side by side.
THEOREM ScansFindTheirChips == Spec => []NoScanWithoutChip
<1>1. IInv => NoScanWithoutChip
  BY DEF IInv, StagedInv
<1> QED BY <1>1, InvariantHolds, PTL

\* enforce_hotset_gate bounds the hot set by MaxHot waves, and one more for every
\* further merge that passed the gate together with others.
THEOREM HotSetStaysBounded == Spec => []HotSetBounded
<1>1. IInv => HotSetBounded
  <2>1. IsFiniteSet(Hot) \/ ~IInv
    BY FS_Subset DEF IInv, TypeOK, Hot, PipelineAssumption
  <2>2. IInv => Cardinality(Hot) \in Nat
    BY <2>1, FS_CardinalityType
  <2> QED BY <2>2, MergingIsFinite DEF IInv, TypeOK, HotInv, HotSetBounded, PipelineAssumption
<1> QED BY <1>1, InvariantHolds, PTL

\* A chip only goes away in an unlink of a release.
LEMMA OnlyUnlinkDeletes ==
    ASSUME TypeOK, [Next]_vars, NEW a \in Anchors, Deleted(a)
    PROVE  \E p \in Shells : Unlink(p, a)
<1> USE DEF TypeOK, Deleted, disk
<1>1. ASSUME NEW w \in Waves,
             LaunchWave(w) \/ LaneEnds(w) \/ LaneAgain(w) \/ QaWave(w)
      PROVE  FALSE
  BY <1>1 DEF LaunchWave, LaneEnds, LaneAgain, QaWave
<1>2. ASSUME NEW b \in Anchors, Download(b) PROVE FALSE
  BY <1>2 DEF Download
<1>3. ASSUME NEW p \in Shells, NEW w \in Waves,
             MergeWave(p, w) \/ ArchiveWave(p, w) \/ ScoreWave(p, w) \/ ReleaseWave(p, w)
      PROVE  FALSE
  BY <1>3 DEF MergeWave, ArchiveWave, ScoreWave, ReleaseWave
<1>4. ASSUME NEW p \in Shells, NEW b \in Anchors, MoveChip(p, b) \/ Scan(p, b)
      PROVE  FALSE
  BY <1>4 DEF MoveChip, Scan
<1>5. ASSUME NEW p \in Shells, NEW b \in Anchors, Unlink(p, b) PROVE Unlink(p, a)
  <2>1. a = b
    BY <1>5 DEF Unlink
  <2> QED BY <1>5, <2>1
<1>6. ASSUME NEW p \in Shells,
             \/ AuditPasses(p) \/ AuditFails(p) \/ BackedUp(p) \/ Scored(p)
             \/ RemoveDirs(p) \/ Stops(p) \/ Upload(p) \/ AppendManifest(p)
             \/ Released(p) \/ HashAll(p)
      PROVE  FALSE
  BY <1>6 DEF AuditPasses, Moved, AuditFails, BackedUp, Scored, RemoveDirs, Stops, Upload,
              AppendManifest, Released, HashAll
<1>7. CASE UNCHANGED vars
  BY <1>7 DEF vars
<1> QED
  BY <1>1, <1>2, <1>3, <1>4, <1>5, <1>6, <1>7 DEF Next, Commands

\* execute_release writes the hashes before it unlinks: every chip it deletes is in
\* the deletion manifest, one merged before it was hashed too, unless it was
\* merged over a chip after that one was hashed and before it was unlinked.
THEOREM DeletionsAreRecorded == Spec => DeletedIsRecorded
<1>1. IInv /\ [Next]_vars
        => [\A a \in Anchors : Deleted(a) => <<a, hot[a]>> \in manifest \cup swapped]_vars
  <2> SUFFICES ASSUME IInv, [Next]_vars, NEW a \in Anchors, Deleted(a)
               PROVE  <<a, hot[a]>> \in manifest \cup swapped
    OBVIOUS
  <2>1. PICK p \in Shells : Unlink(p, a)
    BY OnlyUnlinkDeletes DEF IInv
  <2> QED BY <2>1 DEF Unlink, Runs, IInv, RecordInv, Recorded, Deleted
<1> QED BY <1>1, InvariantHolds, PTL DEF Spec, DeletedIsRecorded

\* BACKUP_OK is the interlock: what a release deletes some verified tar of the wave
\* has held at some time, unless it was merged since an archive-wave of the wave
\* began.
THEOREM DeletionsWereArchived == Spec => DeletedWasArchived
<1>1. IInv /\ [Next]_vars
        => [\A a \in Anchors : Deleted(a) => <<a, hot[a]>> \in archived \cup late]_vars
  <2> SUFFICES ASSUME IInv, [Next]_vars, NEW a \in Anchors, Deleted(a)
               PROVE  <<a, hot[a]>> \in archived \cup late
    OBVIOUS
  <2>1. PICK p \in Shells : Unlink(p, a)
    BY OnlyUnlinkDeletes DEF IInv
  <2>2. WaveOf[a] \in backupOk
    BY <2>1 DEF Unlink, Runs, IInv, ReleaseAllowed, MembersOf
  <2> QED BY <2>2 DEF IInv, ArchiveInv, BackedUpSafe, Safe, Deleted
<1> QED BY <1>1, InvariantHolds, PTL DEF Spec, DeletedWasArchived

=============================================================================
