---------------------------- MODULE DiskPipeline ----------------------------
(***************************************************************************)
(* The disk pipeline of a citywide run (scripts/temporal/                  *)
(* run_ct_citywide_disk_pipeline.sh): a wave's chips are downloaded in its *)
(* own directory, merged into the hot set that all waves share, checked,   *)
(* archived on Dropbox, scored, and released from the disk by              *)
(* chip_lifecycle.py.  An operator runs the commands, several at a time;   *)
(* each is a script that may stop after any of its steps and be run again. *)
(* What the commands know of a wave are the sentinel files they left.      *)
(*                                                                         *)
(* A chip is the pixels of one anchor: 0 for no file, else the number of   *)
(* the download that made it.                                              *)
(***************************************************************************)
EXTENDS Integers, FiniteSets

CONSTANTS
    Waves, Anchors,
    WaveOf,         \* the wave of each anchor
    Shells,         \* commands the operator runs at the same time
    MaxHot,         \* home_hot_max_waves
    MaxDownloads    \* bound: downloads of each anchor

ASSUME PipelineAssumption ==
    /\ IsFiniteSet(Waves) /\ IsFiniteSet(Anchors) /\ IsFiniteSet(Shells)
    /\ WaveOf \in [Anchors -> Waves]
    /\ MaxHot \in Nat \ {0} /\ MaxDownloads \in [Anchors -> Nat]

VARIABLES
    lane,       \* the download lane of each wave
    work,       \* chips in the wave's own directory
    hot,        \* chips in the hot set
    dirs,       \* anchors that have a directory in the hot set
    mergeOk, qaDone, backupOk, scoreOk, releaseOk,  \* waves with the sentinel
    archive,    \* chips of the wave's tar on Dropbox
    verdict,    \* how each anchor's scan ended, for want of a chip or not
    manifest,   \* rows <<anchor, chip>> of the deletion manifest
    shells,     \* what each shell runs
    downloads,  \* downloads of each anchor so far
    widest,     \* the most merges that were past the gate together (history)
    archived,   \* every <<anchor, chip>> a verified tar has held (history)
    late,       \* <<anchor, chip>> merged since an archive of the wave began (history)
    swapped     \* <<anchor, chip>> merged over one a release had hashed and not
                \* yet unlinked (history)

sentinels == <<mergeOk, qaDone, backupOk, scoreOk, releaseOk>>
disk == <<work, hot, dirs>>
history == <<widest, archived, late, swapped>>
vars == <<lane, disk, sentinels, archive, verdict, manifest, shells, downloads, history>>

Free == [cmd |-> "none"]
MembersOf(w) == {a \in Anchors : WaveOf[a] = w}
Members(p) == MembersOf(shells[p].wave)
Runs(p, cmd, step) == shells[p].cmd = cmd /\ shells[p].step = step
Goes(p, step) == shells' = [shells EXCEPT ![p].step = step]
Ends(p) == shells' = [shells EXCEPT ![p] = Free]

Init ==
    /\ lane = [w \in Waves |-> "none"]
    /\ work = [a \in Anchors |-> 0] /\ hot = [a \in Anchors |-> 0] /\ dirs = {}
    /\ mergeOk = {} /\ qaDone = {} /\ backupOk = {} /\ scoreOk = {} /\ releaseOk = {}
    /\ archive = [a \in Anchors |-> 0]
    /\ verdict = [a \in Anchors |-> "none"]
    /\ manifest = {}
    /\ shells = [p \in Shells |-> Free]
    /\ downloads = [a \in Anchors |-> 0]
    /\ widest = 1 /\ archived = {} /\ late = {} /\ swapped = {}

\* launch-wave: a lane that is complete is not started again.
LaunchWave(w) ==
    /\ lane[w] = "none"
    /\ lane' = [lane EXCEPT ![w] = "running"]
    /\ UNCHANGED <<disk, sentinels, archive, verdict, manifest, shells, downloads, history>>

\* The lane writes the chip of an anchor (RegionLane).
Download(a) ==
    /\ lane[WaveOf[a]] \in {"running", "again"} /\ downloads[a] < MaxDownloads[a] /\ work[a] = 0
    /\ downloads' = [downloads EXCEPT ![a] = @ + 1]
    /\ work' = [work EXCEPT ![a] = downloads'[a]]
    /\ UNCHANGED <<lane, hot, dirs, sentinels, archive, verdict, manifest, shells, history>>

\* qa.done of the lane, also when members failed.
LaneEnds(w) ==
    /\ lane[w] \in {"running", "again"}
    /\ lane' = [lane EXCEPT ![w] = "done"]
    /\ UNCHANGED <<disk, sentinels, archive, verdict, manifest, shells, downloads, history>>

\* The lane is forced to run again by hand, for the members that failed; the
\* qa.done of its first run stays, so that a merge may run beside it.
LaneAgain(w) ==
    /\ lane[w] = "done" /\ \E a \in MembersOf(w) : downloads[a] < MaxDownloads[a]
    /\ lane' = [lane EXCEPT ![w] = "again"]
    /\ UNCHANGED <<disk, sentinels, archive, verdict, manifest, shells, downloads, history>>

-----------------------------------------------------------------------------
\* hot_wave_count
Hot == mergeOk \ releaseOk

\* Mutant: one wave too many passes.
GateOpen_OneMore == Cardinality(Hot) <= MaxHot

\* enforce_hotset_gate: the hot set has room for a wave.
GateOpen == Cardinality(Hot) < MaxHot

Merging == {p \in Shells : shells[p].cmd = "merge"}

\* merge-wave of a lane that is complete, or was once; without one the legacy
\* path finds no manifests and dies.
MergeWave(p, w) ==
    /\ shells[p] = Free /\ GateOpen /\ lane[w] \in {"done", "again"}
    /\ shells' = [shells EXCEPT ![p] = [cmd |-> "merge", wave |-> w, step |-> "move",
                                        todo |-> {a \in MembersOf(w) : work[a] # 0}]]
    /\ widest' = IF Cardinality(Merging) + 1 > widest
                 THEN Cardinality(Merging) + 1 ELSE widest
    /\ UNCHANGED <<lane, disk, sentinels, archive, verdict, manifest, downloads,
                   archived, late, swapped>>

Archiving(w) == \E q \in Shells : shells[q].cmd = "archive" /\ shells[q].wave = w
Hashed(a) == \E q \in Shells : /\ shells[q].cmd = "release"
                               /\ shells[q].step \in {"manifest", "unlink"}
                               /\ a \in shells[q].chips

\* rsync --remove-source-files moves a chip over the one that may be there: those
\* it finds when it starts, and what a forced lane still puts there in time.
MoveChip(p, a) ==
    /\ Runs(p, "merge", "move") /\ a \in Members(p) /\ work[a] # 0
    /\ hot' = [hot EXCEPT ![a] = work[a]]
    /\ work' = [work EXCEPT ![a] = 0]
    /\ dirs' = dirs \cup {a}
    /\ shells' = [shells EXCEPT ![p].todo = @ \ {a}]
    /\ late' = IF WaveOf[a] \in backupOk \/ Archiving(WaveOf[a])
               THEN late \cup {<<a, work[a]>>} ELSE late
    /\ swapped' = IF Hashed(a) THEN swapped \cup {<<a, work[a]>>} ELSE swapped
    /\ UNCHANGED <<lane, sentinels, archive, verdict, manifest, downloads, widest, archived>>

Moved(p) == Runs(p, "merge", "move") /\ \A a \in shells[p].todo : work[a] = 0

\* The membership audit: every member has its chip, or the merge dies with the
\* chips moved and no sentinel.
AuditPasses(p) ==
    /\ Moved(p) /\ \A a \in Members(p) : hot[a] # 0
    /\ mergeOk' = mergeOk \cup {shells[p].wave}
    /\ Ends(p)
    /\ UNCHANGED <<lane, disk, qaDone, backupOk, scoreOk, releaseOk, archive, verdict,
                   manifest, downloads, history>>

AuditFails(p) ==
    /\ Moved(p) /\ \E a \in Members(p) : hot[a] = 0
    /\ Ends(p)
    /\ UNCHANGED <<lane, disk, sentinels, archive, verdict, manifest, downloads, history>>

\* qa-wave: too few admitted chips leave no sentinel.
QaWave(w) ==
    /\ w \in mergeOk /\ \A a \in MembersOf(w) : hot[a] # 0
    /\ qaDone' = qaDone \cup {w}
    /\ UNCHANGED <<lane, disk, mergeOk, backupOk, scoreOk, releaseOk, archive, verdict,
                   manifest, shells, downloads, history>>

-----------------------------------------------------------------------------
\* archive-wave: tar fails on a member without a directory.
ArchiveWave(p, w) ==
    /\ shells[p] = Free /\ w \in qaDone /\ MembersOf(w) \subseteq dirs
    /\ shells' = [shells EXCEPT ![p] = [cmd |-> "archive", wave |-> w, step |-> "upload",
                                        tar |-> [a \in MembersOf(w) |-> hot[a]]]]
    /\ UNCHANGED <<lane, disk, sentinels, archive, verdict, manifest, downloads, history>>

\* rclone copyto and check: the wave's tar on Dropbox is replaced.
Upload(p) ==
    /\ Runs(p, "archive", "upload")
    /\ archive' = [a \in Anchors |-> IF a \in Members(p) THEN shells[p].tar[a] ELSE archive[a]]
    /\ archived' = archived \cup ({<<a, shells[p].tar[a]>> : a \in Members(p)}
                                 \ {<<a, 0>> : a \in Anchors})
    /\ Goes(p, "record")
    /\ UNCHANGED <<lane, disk, sentinels, verdict, manifest, downloads, widest, late, swapped>>

\* Mutant: the contract is written before the upload.
BackedUp_Early(p) ==
    /\ Runs(p, "archive", "upload")
    /\ backupOk' = backupOk \cup {shells[p].wave}
    /\ UNCHANGED <<lane, disk, mergeOk, qaDone, scoreOk, releaseOk, archive, verdict,
                   manifest, shells, downloads, history>>

\* BACKUP_OK.json, after the upload was verified.
BackedUp(p) ==
    /\ Runs(p, "archive", "record")
    /\ backupOk' = backupOk \cup {shells[p].wave}
    /\ Ends(p)
    /\ UNCHANGED <<lane, disk, mergeOk, qaDone, scoreOk, releaseOk, archive, verdict,
                   manifest, downloads, history>>

-----------------------------------------------------------------------------
\* score-wave: the gate of a staged wave that is not released.
ScoreWave(p, w) ==
    /\ shells[p] = Free /\ w \in backupOk \cap qaDone /\ w \notin releaseOk
    /\ shells' = [shells EXCEPT ![p] = [cmd |-> "score", wave |-> w, step |-> "scan"]]
    /\ UNCHANGED <<lane, disk, sentinels, archive, verdict, manifest, downloads, history>>

\* One anchor's scan ends, on the chip on disk or for want of one
\* (--offline-require-chip-on-disk); a scan that ended is not repeated.
Scan(p, a) ==
    /\ Runs(p, "score", "scan") /\ a \in Members(p) /\ verdict[a] = "none"
    /\ verdict' = [verdict EXCEPT ![a] = IF hot[a] = 0 THEN "missing" ELSE "scored"]
    /\ UNCHANGED <<lane, disk, sentinels, archive, manifest, shells, downloads, history>>

\* Both arms ended with exit code 0 (ScanBatch).
Scored(p) ==
    /\ Runs(p, "score", "scan") /\ \A a \in Members(p) : verdict[a] # "none"
    /\ scoreOk' = scoreOk \cup {shells[p].wave}
    /\ Ends(p)
    /\ UNCHANGED <<lane, disk, mergeOk, qaDone, backupOk, releaseOk, archive, verdict,
                   manifest, downloads, history>>

-----------------------------------------------------------------------------
\* Mutant: a release does not wait for the scores.
MayRelease_Unscored(w) == w \in backupOk

\* release-wave: both sentinels; RELEASE_OK does not stop another release.
MayRelease(w) == w \in backupOk /\ w \in scoreOk

\* plan_release and apply_anchor_filter: the chips of the members that are
\* there; no scan state lies under this run directory, so the refusal window
\* never refuses.
ReleaseWave(p, w) ==
    /\ shells[p] = Free /\ MayRelease(w)
    /\ shells' = [shells EXCEPT ![p] =
                     [cmd |-> "release", wave |-> w, step |-> "hash",
                      chips |-> {a \in MembersOf(w) : hot[a] # 0},
                      hashes |-> {}]]
    /\ UNCHANGED <<lane, disk, sentinels, archive, verdict, manifest, downloads, history>>

\* execute_release hashes every chip; one that another release took away in
\* between raises.
HashAll(p) ==
    /\ Runs(p, "release", "hash")
    /\ shells' = IF \A a \in shells[p].chips : hot[a] # 0
                 THEN [shells EXCEPT ![p].step = "manifest",
                                     ![p].hashes = {<<a, hot[a]>> : a \in shells[p].chips}]
                 ELSE [shells EXCEPT ![p] = Free]
    /\ UNCHANGED <<lane, disk, sentinels, archive, verdict, manifest, downloads, history>>

\* Mutant: the chips go first.
AppendManifest_After(p) ==
    /\ Runs(p, "release", "manifest")
    /\ Goes(p, "unlink")
    /\ UNCHANGED <<lane, disk, sentinels, archive, verdict, manifest, downloads, history>>

\* The provenance and the deletion manifest are appended before any unlink.
AppendManifest(p) ==
    /\ Runs(p, "release", "manifest")
    /\ manifest' = manifest \cup shells[p].hashes
    /\ Goes(p, "unlink")
    /\ UNCHANGED <<lane, disk, sentinels, archive, verdict, downloads, history>>

Unlink(p, a) ==
    /\ Runs(p, "release", "unlink") /\ a \in shells[p].chips
    /\ hot' = [hot EXCEPT ![a] = 0]
    /\ shells' = [shells EXCEPT ![p].chips = @ \ {a}]
    /\ UNCHANGED <<lane, work, dirs, sentinels, archive, verdict, manifest, downloads, history>>

\* RELEASE_OK.json
Released(p) ==
    /\ Runs(p, "release", "unlink") /\ shells[p].chips = {}
    /\ releaseOk' = releaseOk \cup {shells[p].wave}
    /\ Goes(p, "rmdir")
    /\ UNCHANGED <<lane, disk, mergeOk, qaDone, backupOk, scoreOk, archive, verdict,
                   manifest, downloads, history>>

\* rm_hotset_pngs.py: the review images, then the directories that are empty.
RemoveDirs(p) ==
    /\ Runs(p, "release", "rmdir")
    /\ dirs' = dirs \ {a \in Members(p) : hot[a] = 0}
    /\ Ends(p)
    /\ UNCHANGED <<lane, work, hot, sentinels, archive, verdict, manifest, downloads, history>>

\* Any command stops: killed, or a step of it failed (set -e).
Stops(p) ==
    /\ shells[p] # Free
    /\ Ends(p)
    /\ UNCHANGED <<lane, disk, sentinels, archive, verdict, manifest, downloads, history>>

Commands(p) ==
    \/ \E w \in Waves : MergeWave(p, w) \/ ArchiveWave(p, w) \/ ScoreWave(p, w) \/ ReleaseWave(p, w)
    \/ \E a \in Anchors : MoveChip(p, a) \/ Scan(p, a) \/ Unlink(p, a)
    \/ AuditPasses(p) \/ AuditFails(p) \/ Upload(p) \/ BackedUp(p) \/ Scored(p)
    \/ HashAll(p) \/ AppendManifest(p) \/ Released(p) \/ RemoveDirs(p) \/ Stops(p)

Next ==
    \/ \E w \in Waves : LaunchWave(w) \/ LaneEnds(w) \/ LaneAgain(w) \/ QaWave(w)
    \/ \E a \in Anchors : Download(a)
    \/ \E p \in Shells : Commands(p)

Spec == Init /\ [][Next]_vars

-----------------------------------------------------------------------------
(* Properties.                                                             *)

Deleted(a) == hot[a] # 0 /\ hot'[a] = 0

\* "Every chip is hashed and its hash is durably on disk before the bytes are
\* removed": so it is for every chip, one that was put over another before the
\* release hashed it too; only a chip merged over a hashed one, between its hash
\* and its unlink, is deleted without a row of its own.
DeletedIsRecorded ==
    [][\A a \in Anchors : Deleted(a) => <<a, hot[a]>> \in manifest \cup swapped]_vars

\* A chip is deleted only after some verified tar of the wave held it, though the
\* tar on Dropbox may have been replaced since; only a chip merged since an
\* archive of the wave began is deleted without one.
DeletedWasArchived ==
    [][\A a \in Anchors : Deleted(a) => <<a, hot[a]>> \in archived \cup late]_vars

\* No anchor's scan ends for want of a chip: scoring starts on a staged wave and
\* nothing takes its chips before every scan has ended, whatever commands run
\* side by side.
NoScanWithoutChip == \A a \in Anchors : verdict[a] # "missing"

\* enforce_hotset_gate keeps at most MaxHot merged waves, and one more for every
\* further merge that read the gate before the others wrote MERGE_OK: merges that
\* pass it together take it past its bound by no more than their number, however
\* waves are merged, released and merged again.
HotSetBounded == Cardinality(Hot) <= MaxHot - 1 + widest

\* "Chips may only be deleted against a verified durable archive", from which a
\* released wave is restored: the tar on Dropbox still holds them.
ReleasedIsInArchive ==
    \A a \in Anchors : WaveOf[a] \in releaseOk /\ hot[a] = 0 => archive[a] # 0

=============================================================================
