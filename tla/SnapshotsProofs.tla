---------------------------- MODULE SnapshotsProofs ----------------------------
(***************************************************************************)
(* Theorems about portable snapshots, for any library, any number of       *)
(* commands, snapshot directories and restore paths.                       *)
(***************************************************************************)
EXTENDS Snapshots, TLAPS

Frozen == {"database-ready", "complete"}
Early == {"database", "sanitize", "manifest"}

Portable(db) == db.purging = {} /\ ~db.authority

(* A command owns a directory in a phase that fits what it does there; a    *)
(* database is portable when its manifest is written; what is about to be   *)
(* published was verified as a whole.                                       *)
JobInv(j, snapshots, originals) ==
    LET s == snapshots[j.dir] IN
    /\ j.op = "none" <=> j.at = "none"
    /\ j.op # "none" => j.dir \in Directories
    /\ j.op = "restore" => j.path \in Targets /\ j.at \in {"media", "publish"}
    /\ j.op = "resume" => j.at = "media"
    /\ j.at = "publish" => j.op = "restore"
    /\ j.at \in Early => s.phase = "begun"
    /\ j.at \in {"media", "publish"} => s.phase \in Frozen
    /\ j.at = "manifest" => Portable(s.db)
    /\ j.at = "publish" => \A a \in s.db.rows : j.files[a] = "whole"
    /\ j.op = "backup" /\ j.at \in {"sanitize", "manifest", "media"} =>
         \A a \in s.db.rows : originals[a] # "absent"

CommandsPlaced == \A c \in Commands : JobInv(job[c], snap, bytes)

(* The database of a directory is written by one command.                   *)
OneWriter ==
    \A c, d \in Commands :
        job[c].at \in Early /\ job[d].at \in Early /\ job[c].dir = job[d].dir => c = d

FrozenIsPortable == \A s \in Directories : snap[s].phase \in Frozen => Portable(snap[s].db)

RetainedIsStored == \A a \in Assets : live[a] = "retained" => bytes[a] # "absent"

SnapshotsInv ==
    /\ TypeOK /\ CommandsPlaced /\ OneWriter /\ FrozenIsPortable
    /\ RetainedIsStored /\ RestoredIsWhole

-----------------------------------------------------------------------------
(* Types.                                                                   *)
Snapshot == [phase: {"absent", "begun", "database-ready", "complete"}, db: Image,
             sealed: BOOLEAN, files: [Assets -> Bytes]]
Restored == [kind: {"absent", "empty", "foreign", "restored"}, db: Image, files: [Assets -> Bytes]]
Job == [op: {"none", "backup", "resume", "restore"},
        at: {"none", "database", "sanitize", "manifest", "media", "publish"},
        dir: Directories \cup {"none"}, path: Targets \cup {"none"},
        todo: SUBSET Assets, files: [Assets -> Bytes]]

LEMMA Constants ==
    /\ NoFiles \in [Assets -> Bytes] /\ NoImage \in Image
    /\ NoSnapshot \in Snapshot /\ Nothing \in Restored /\ Idle \in Job
<1>1. NoFiles \in [Assets -> Bytes]
  BY DEF NoFiles, Bytes
<1>2. NoImage \in Image
  BY DEF NoImage, Image
<1> HIDE DEF NoFiles, NoImage
<1> QED BY <1>1, <1>2 DEF NoSnapshot, Nothing, Idle, Snapshot, Restored, Job

LEMMA Types ==
    TypeOK <=> /\ live \in [Assets -> {"unsaved", "retained", "purging", "purged"}]
               /\ bytes \in [Assets -> Bytes]
               /\ snap \in [Directories -> Snapshot]
               /\ target \in [Targets -> Restored]
               /\ job \in [Commands -> Job]
  BY DEF TypeOK, Snapshot, Restored, Job

(* Every step keeps the types of the commands' own records.                 *)
LEMMA JobType == TypeOK /\ CommandsPlaced /\ [Next]_vars => job' \in [Commands -> Job]
<1> SUFFICES ASSUME TypeOK, CommandsPlaced, [Next]_vars PROVE job' \in [Commands -> Job]
  OBVIOUS
<1>0. /\ job \in [Commands -> Job] /\ Idle \in Job /\ snap \in [Directories -> Snapshot]
      /\ NoFiles \in [Assets -> Bytes]
  BY Types, Constants
<1>1. ASSUME NEW c \in Commands, NEW x \in Job, Step(c, x) PROVE job' \in [Commands -> Job]
  BY <1>0, <1>1 DEF Step
<1>2. \A s \in Directories : snap[s].db.rows \subseteq Assets /\ snap[s].files \in [Assets -> Bytes]
  BY <1>0 DEF Snapshot, Image
<1>3. ASSUME NEW c \in Commands, Ends(c) PROVE job' \in [Commands -> Job]
  BY <1>0, <1>1, <1>3 DEF Ends
<1>4. ASSUME NEW c \in Commands, NEW s \in Directories, Backup(c, s) PROVE job' \in [Commands -> Job]
  <2>1. [Idle EXCEPT !.op = "backup", !.at = "database", !.dir = s] \in Job
    BY <1>0 DEF Job
  <2> QED BY <1>1, <1>4, <2>1 DEF Backup
<1>5. ASSUME NEW c \in Commands, NEW s \in Directories, Resume(c, s) PROVE job' \in [Commands -> Job]
  <2>1. [Idle EXCEPT !.op = "resume", !.at = "media", !.dir = s, !.todo = snap[s].db.rows] \in Job
    BY <1>0, <1>2 DEF Job
  <2> QED BY <1>1, <1>5, <2>1 DEF Resume
<1>6. ASSUME NEW c \in Commands, NEW s \in Directories, NEW t \in Targets, Restore(c, s, t)
      PROVE job' \in [Commands -> Job]
  <2>1. [Idle EXCEPT !.op = "restore", !.at = "media", !.dir = s, !.path = t,
                     !.todo = snap[s].db.rows] \in Job
    <3>1. [Idle EXCEPT !.op = "restore", !.at = "media", !.dir = s, !.path = t] \in Job
      BY <1>0 DEF Job
    <3> QED BY <1>2, <3>1 DEF Job
  <2> QED BY <1>1, <1>6, <2>1 DEF Restore
<1>7. ASSUME NEW c \in Commands, SnapshotDatabase(c) \/ SanitizeDatabase(c) PROVE job' \in [Commands -> Job]
  <2>1. [job[c] EXCEPT !.at = "sanitize"] \in Job /\ [job[c] EXCEPT !.at = "manifest"] \in Job
    BY <1>0 DEF Job
  <2> QED BY <1>1, <1>7, <2>1 DEF SnapshotDatabase, SanitizeDatabase
<1>8. ASSUME NEW c \in Commands, FreezeManifest(c) PROVE job' \in [Commands -> Job]
  <2>1. job[c].dir \in Directories
    BY <1>8 DEF CommandsPlaced, JobInv, FreezeManifest
  <2>2. [job[c] EXCEPT !.at = "media", !.todo = snap[job[c].dir].db.rows] \in Job
    BY <1>0, <1>2, <2>1 DEF Job
  <2> QED BY <1>1, <1>8, <2>2 DEF FreezeManifest
<1>9. ASSUME NEW c \in Commands, NEW a \in Assets, CopyObject(c, a) PROVE job' \in [Commands -> Job]
  <2>1. [job[c] EXCEPT !.todo = @ \ {a}] \in Job
    BY <1>0 DEF Job
  <2> QED BY <1>1, <1>3, <1>9, <2>1 DEF CopyObject
<1>10. ASSUME NEW c \in Commands, NEW a \in Assets, StageObject(c, a)
       PROVE job' \in [Commands -> Job]
  <2>1. job[c].dir \in Directories
    BY <1>10 DEF CommandsPlaced, JobInv, StageObject
  <2>2. snap[job[c].dir].files[a] \in Bytes
    BY <1>2, <2>1
  <2> DEFINE found == snap[job[c].dir].files[a]
  <2> HIDE DEF found
  <2>3. [job[c] EXCEPT !.todo = @ \ {a}, !.files[a] = found] \in Job
    BY <1>0, <2>2 DEF Job, found
  <2> QED BY <1>1, <1>3, <1>10, <2>3 DEF StageObject, found
<1>11. ASSUME NEW c \in Commands, StageDatabase(c) PROVE job' \in [Commands -> Job]
  <2>1. [job[c] EXCEPT !.at = "publish"] \in Job
    BY <1>0 DEF Job
  <2> QED BY <1>1, <1>3, <1>11, <2>1 DEF StageDatabase
<1>12. ASSUME NEW c \in Commands, FinishBackup(c) \/ Publish(c) \/ Interrupt(c) PROVE job' \in [Commands -> Job]
  BY <1>3, <1>12 DEF FinishBackup, Publish, Interrupt
<1>13. ASSUME job' = job PROVE job' \in [Commands -> Job]
  BY <1>0, <1>13
<1>14. ASSUME NEW a \in Assets, Save(a) \/ Detach(a) \/ Unlink(a) \/ RotOriginal(a)
       PROVE job' \in [Commands -> Job]
  BY <1>13, <1>14 DEF Save, Detach, Unlink, RotOriginal
<1> QED BY <1>4, <1>5, <1>6, <1>7, <1>8, <1>9, <1>10, <1>11, <1>12, <1>13, <1>14
     DEF Next, CommandStep, RotDatabase, RotCopy, Appear, vars

(* The media directory and the catalogue of the running library.            *)
LEMMA LiveType ==
    TypeOK /\ [Next]_vars =>
        /\ live' \in [Assets -> {"unsaved", "retained", "purging", "purged"}]
        /\ bytes' \in [Assets -> Bytes]
<1> SUFFICES ASSUME TypeOK, [Next]_vars
             PROVE  /\ live' \in [Assets -> {"unsaved", "retained", "purging", "purged"}]
                    /\ bytes' \in [Assets -> Bytes]
  OBVIOUS
<1> USE DEF TypeOK, Bytes
<1>1. ASSUME NEW a \in Assets, Save(a) \/ Detach(a) \/ Unlink(a) \/ RotOriginal(a)
      PROVE  /\ live' \in [Assets -> {"unsaved", "retained", "purging", "purged"}]
             /\ bytes' \in [Assets -> Bytes]
  BY <1>1 DEF Save, Detach, Unlink, RotOriginal
<1>2. ASSUME NEW c \in Commands, CommandStep(c) PROVE UNCHANGED <<live, bytes>>
  BY <1>2 DEF CommandStep, Backup, Resume, Restore, SnapshotDatabase, SanitizeDatabase, FreezeManifest,
     CopyObject, StageObject, FinishBackup, StageDatabase, Publish, Interrupt
<1> QED BY <1>1, <1>2 DEF Next, RotDatabase, RotCopy, Appear, vars

(* The snapshots.                                                           *)
LEMMA SnapshotType == TypeOK /\ CommandsPlaced /\ [Next]_vars => snap' \in [Directories -> Snapshot]
<1> SUFFICES ASSUME TypeOK, CommandsPlaced, [Next]_vars PROVE snap' \in [Directories -> Snapshot]
  OBVIOUS
<1>0. snap \in [Directories -> Snapshot] /\ bytes \in [Assets -> Bytes]
  BY Types
<1>1. ASSUME NEW s \in Directories, NEW x \in Snapshot, snap' = [snap EXCEPT ![s] = x]
      PROVE snap' \in [Directories -> Snapshot]
  BY <1>0, <1>1
<1>2. ASSUME NEW c \in Commands, NEW s \in Directories, Backup(c, s) PROVE snap' \in [Directories -> Snapshot]
  BY <1>0, <1>2 DEF Backup, Snapshot
<1>3. ASSUME NEW c \in Commands, SnapshotDatabase(c) PROVE snap' \in [Directories -> Snapshot]
  <2>1. LiveImage \in Image
    BY DEF LiveImage, Image
  <2> HIDE DEF LiveImage
  <2> QED BY <1>0, <1>3, <2>1 DEF SnapshotDatabase, Snapshot
<1>4. ASSUME NEW c \in Commands, SanitizeDatabase(c) PROVE snap' \in [Directories -> Snapshot]
  <2>1. \A db \in Image : Sanitized(db) \in Image
    BY DEF Sanitized, Image
  <2> QED BY <1>0, <1>4, <2>1 DEF SanitizeDatabase, Snapshot
<1>5. ASSUME NEW c \in Commands, FreezeManifest(c) \/ FinishBackup(c) PROVE snap' \in [Directories -> Snapshot]
  BY <1>0, <1>5 DEF FreezeManifest, FinishBackup, Snapshot
<1>6. ASSUME NEW c \in Commands, NEW a \in Assets, CopyObject(c, a) PROVE snap' \in [Directories -> Snapshot]
  <2>1. bytes[a] \in Bytes
    BY <1>0
  <2>2. \A s \in Directories, b \in Bytes : [snap EXCEPT ![s].files[a] = b] \in [Directories -> Snapshot]
    BY <1>0 DEF Snapshot
  <2>3. snap' = snap \/ snap' = [snap EXCEPT ![job[c].dir].files[a] = bytes[a]]
    BY <1>6 DEF CopyObject
  <2>4. job[c].dir \in Directories
    BY <1>6 DEF CopyObject, HoldsMedia, CommandsPlaced, JobInv
  <2> QED BY <1>0, <2>1, <2>2, <2>3, <2>4
<1>7. ASSUME NEW s \in Directories, RotDatabase(s) PROVE snap' \in [Directories -> Snapshot]
  BY <1>0, <1>7 DEF RotDatabase, Snapshot
<1>8. ASSUME NEW s \in Directories, NEW a \in Assets, RotCopy(s, a) PROVE snap' \in [Directories -> Snapshot]
  BY <1>0, <1>8 DEF RotCopy, Snapshot, Bytes
<1>9. ASSUME snap' = snap PROVE snap' \in [Directories -> Snapshot]
  BY <1>0, <1>9
<1>10. ASSUME NEW a \in Assets, Save(a) \/ Detach(a) \/ Unlink(a) \/ RotOriginal(a)
       PROVE snap' \in [Directories -> Snapshot]
  BY <1>9, <1>10 DEF Save, Detach, Unlink, RotOriginal
<1>11. ASSUME NEW c \in Commands, CommandStep(c) PROVE snap' \in [Directories -> Snapshot]
  BY <1>2, <1>3, <1>4, <1>5, <1>6, <1>9, <1>11
     DEF CommandStep, Resume, Restore, StageObject, StageDatabase, Publish, Interrupt
<1> QED BY <1>7, <1>8, <1>9, <1>10, <1>11 DEF Next, Appear, vars

(* The paths restores publish to.                                           *)
LEMMA TargetType == TypeOK /\ CommandsPlaced /\ [Next]_vars => target' \in [Targets -> Restored]
<1> SUFFICES ASSUME TypeOK, CommandsPlaced, [Next]_vars PROVE target' \in [Targets -> Restored]
  OBVIOUS
<1>0. target \in [Targets -> Restored] /\ snap \in [Directories -> Snapshot] /\ job \in [Commands -> Job]
  BY Types
<1>1. ASSUME NEW c \in Commands, Publish(c) PROVE target' \in [Targets -> Restored]
  <2>1. job[c].dir \in Directories
    BY <1>1 DEF Publish, CommandsPlaced, JobInv
  <2>2. [kind |-> "restored", db |-> snap[job[c].dir].db, files |-> job[c].files] \in Restored
    BY <1>0, <2>1 DEF Snapshot, Restored, Job
  <2> QED BY <1>0, <1>1, <2>2 DEF Publish
<1>2. ASSUME NEW t \in Targets, Appear(t) PROVE target' \in [Targets -> Restored]
  BY <1>0, <1>2 DEF Appear, Restored
<1>3. ASSUME NEW c \in Commands, CommandStep(c), ~Publish(c) PROVE target' = target
  BY <1>3 DEF CommandStep, Backup, Resume, Restore, SnapshotDatabase, SanitizeDatabase, FreezeManifest,
     CopyObject, StageObject, FinishBackup, StageDatabase, Interrupt
<1>4. ASSUME NEW a \in Assets, Save(a) \/ Detach(a) \/ Unlink(a) \/ RotOriginal(a) PROVE target' = target
  BY <1>4 DEF Save, Detach, Unlink, RotOriginal
<1> QED BY <1>0, <1>1, <1>2, <1>3, <1>4 DEF Next, RotDatabase, RotCopy, vars

LEMMA TypePreserved == TypeOK /\ CommandsPlaced /\ [Next]_vars => TypeOK'
<1> SUFFICES ASSUME TypeOK, CommandsPlaced, [Next]_vars PROVE TypeOK'
  OBVIOUS
<1> QED BY LiveType, SnapshotType, TargetType, JobType DEF TypeOK, Snapshot, Restored, Job
-----------------------------------------------------------------------------
(* What a command relies on stands as long as the database of its directory *)
(* stays, its phase only advances once frozen, and no original disappears   *)
(* under a backup.                                                          *)
LEMMA JobInvKept ==
    ASSUME NEW j, NEW s1, NEW s2, NEW o1, NEW o2, JobInv(j, s1, o1),
           j.op # "none" => /\ s2[j.dir].db = s1[j.dir].db /\ s1[j.dir].db.rows \subseteq Assets
                            /\ \/ s2[j.dir].phase = s1[j.dir].phase
                               \/ s1[j.dir].phase \in Frozen /\ s2[j.dir].phase \in Frozen,
           j.op = "backup" => \A a \in Assets : o1[a] # "absent" => o2[a] # "absent"
    PROVE  JobInv(j, s2, o2)
<1>1. CASE j.op = "none"
  BY <1>1 DEF JobInv, Early
<1>2. CASE j.op # "none"
  BY <1>2 DEF JobInv, Early, Frozen
<1> QED BY <1>1, <1>2

(* A command's step replaces its own record and nobody else's.              *)
LEMMA StepAlone ==
    ASSUME TypeOK, NEW c \in Commands, NEW x, Step(c, x)
    PROVE  job'[c] = x /\ \A d \in Commands : d # c => job'[d] = job[d]
  BY DEF TypeOK, Step

LEMMA RowsAreAssets ==
    TypeOK => \A s \in Directories : snap[s].db.rows \subseteq Assets
  BY Types DEF Snapshot, Image

(* The running server and whatever goes wrong outside the commands.         *)
LEMMA OutsidePreserves ==
    ASSUME SnapshotsInv, job' = job,
           \/ \E a \in Assets : Save(a) \/ Detach(a) \/ Unlink(a) \/ RotOriginal(a)
           \/ \E s \in Directories : RotDatabase(s) \/ \E a \in Assets : RotCopy(s, a)
           \/ \E t \in Targets : Appear(t)
           \/ UNCHANGED vars
    PROVE  CommandsPlaced' /\ OneWriter' /\ FrozenIsPortable' /\ RetainedIsStored' /\ RestoredIsWhole'
<1> USE DEF SnapshotsInv
<1>0. /\ job \in [Commands -> Job] /\ snap \in [Directories -> Snapshot] /\ bytes \in [Assets -> Bytes]
      /\ target \in [Targets -> Restored]
      /\ live \in [Assets -> {"unsaved", "retained", "purging", "purged"}]
  BY Types
<1>1. \A s \in Directories : snap'[s].db = snap[s].db /\ snap'[s].phase = snap[s].phase
  BY <1>0 DEF Save, Detach, Unlink, RotOriginal, RotDatabase, RotCopy, Appear, vars, Snapshot
<1>2. \A c \in Commands : job[c].op = "backup" => \A a \in Assets : bytes[a] # "absent" => bytes'[a] # "absent"
  BY <1>0 DEF Save, Detach, Unlink, RotOriginal, RotDatabase, RotCopy, Appear, vars, HoldsMedia
<1>3. CommandsPlaced'
  <2>1. SUFFICES ASSUME NEW c \in Commands PROVE JobInv(job[c], snap', bytes')
    BY DEF CommandsPlaced
  <2>2. JobInv(job[c], snap, bytes)
    BY DEF CommandsPlaced
  <2>3. job[c].op # "none" => job[c].dir \in Directories
    BY <2>2 DEF JobInv
  <2> QED BY <1>1, <1>2, <2>2, <2>3, RowsAreAssets, JobInvKept
<1>4. OneWriter' /\ FrozenIsPortable'
  BY <1>1 DEF OneWriter, FrozenIsPortable
<1>5. RetainedIsStored'
  BY <1>0 DEF RetainedIsStored, Save, Detach, Unlink, RotOriginal, RotDatabase, RotCopy, Appear, vars
<1>6. RestoredIsWhole'
  <2>1. \A t \in Targets : target'[t] = target[t] \/ target'[t].kind = "foreign"
    BY <1>0 DEF Save, Detach, Unlink, RotOriginal, RotDatabase, RotCopy, Appear, vars, Restored
  <2> QED BY <2>1 DEF RestoredIsWhole
<1> QED BY <1>3, <1>4, <1>5, <1>6
(* The database of a directory, and how far its snapshot is, as others may  *)
(* find it after a step.                                                    *)
Undisturbed(s) ==
    /\ snap'[s].db = snap[s].db
    /\ \/ snap'[s].phase = snap[s].phase
       \/ snap[s].phase \in Frozen /\ snap'[s].phase \in Frozen

(* A command may change the snapshot it writes alone, or leave what others  *)
(* rely on, and must fit its own directory.                                 *)
LEMMA CommandPreserves ==
    ASSUME SnapshotsInv, NEW c \in Commands, NEW x, Step(c, x), bytes' = bytes,
           JobInv(x, snap', bytes),
           \A d \in Commands : d # c /\ job[d].op # "none" => Undisturbed(job[d].dir),
           x.at \in Early => \/ job[c].at \in Early /\ x.dir = job[c].dir
                             \/ \A d \in Commands : job[d].op # "none" => job[d].dir # x.dir
    PROVE  CommandsPlaced' /\ OneWriter'
<1> USE DEF SnapshotsInv
<1>0. job'[c] = x /\ \A d \in Commands : d # c => job'[d] = job[d]
  BY StepAlone
<1>1. CommandsPlaced'
  <2>1. SUFFICES ASSUME NEW d \in Commands PROVE JobInv(job'[d], snap', bytes')
    BY DEF CommandsPlaced
  <2>2. CASE d = c
    BY <1>0, <2>2
  <2>3. CASE d # c
    <3>1. JobInv(job[d], snap, bytes)
      BY DEF CommandsPlaced
    <3>2. job[d].op # "none" => job[d].dir \in Directories
      BY <3>1 DEF JobInv
    <3>3. JobInv(job[d], snap', bytes')
      BY <2>3, <3>1, <3>2, RowsAreAssets, JobInvKept DEF Undisturbed
    <3> QED BY <1>0, <2>3, <3>3
  <2> QED BY <2>2, <2>3
<1>2. OneWriter'
  <2>1. \A d \in Commands : job[d].at \in Early => job[d].op # "none"
    BY DEF CommandsPlaced, JobInv, Early
  <2> QED BY <1>0, <2>1 DEF OneWriter
<1> QED BY <1>1, <1>2

(* While the manifest of a directory is not written, only the command that  *)
(* writes it is there.                                                      *)
LEMMA EarlyIsAlone ==
    ASSUME SnapshotsInv, NEW c \in Commands, job[c].at \in Early
    PROVE  \A d \in Commands : d # c /\ job[d].op # "none" => job[d].dir # job[c].dir
<1> USE DEF SnapshotsInv
<1>1. job \in [Commands -> Job]
  BY Types
<1>2. snap[job[c].dir].phase = "begun"
  BY DEF CommandsPlaced, JobInv
<1>3. \A d \in Commands : job[d].op # "none" =>
        job[d].at \in Early \/ snap[job[d].dir].phase \in Frozen
  BY <1>1 DEF CommandsPlaced, JobInv, Job, Early
<1> QED BY <1>2, <1>3 DEF OneWriter, Frozen

LEMMA AbsentIsFree ==
    ASSUME SnapshotsInv, NEW s \in Directories, snap[s].phase = "absent"
    PROVE  \A d \in Commands : job[d].op # "none" => job[d].dir # s
<1>1. job \in [Commands -> Job]
  BY Types DEF SnapshotsInv
<1> QED BY <1>1 DEF SnapshotsInv, CommandsPlaced, JobInv, Job, Early, Frozen

LEMMA IdleFits == \A s, o : JobInv(Idle, s, o)
  BY DEF JobInv, Idle, Early

-----------------------------------------------------------------------------
(* Each step of a command.                                                  *)
LEMMA BackupPreserves ==
    ASSUME SnapshotsInv, NEW c \in Commands, NEW s \in Directories, Backup(c, s)
    PROVE  CommandsPlaced' /\ OneWriter'
<1> DEFINE x == [Idle EXCEPT !.op = "backup", !.at = "database", !.dir = s]
<1>1. snap \in [Directories -> Snapshot]
  BY Types DEF SnapshotsInv
<1>2. snap'[s].phase = "begun" /\ \A r \in Directories : r # s => snap'[r] = snap[r]
  BY <1>1 DEF Backup, Snapshot
<1>3. x.op = "backup" /\ x.at = "database" /\ x.dir = s
  BY DEF Idle
<1>4. JobInv(x, snap', bytes)
  BY <1>2, <1>3 DEF JobInv, Early
<1>5. \A d \in Commands : job[d].op # "none" => job[d].dir \in Directories \ {s}
  BY AbsentIsFree DEF Backup, SnapshotsInv, CommandsPlaced, JobInv
<1> HIDE DEF x
<1>6. Step(c, x) /\ bytes' = bytes
  BY DEF Backup, x
<1> QED BY <1>2, <1>3, <1>4, <1>5, <1>6, CommandPreserves DEF Undisturbed

LEMMA DatabasePreserves ==
    ASSUME SnapshotsInv, NEW c \in Commands,
           SnapshotDatabase(c) \/ SanitizeDatabase(c) \/ FreezeManifest(c)
    PROVE  CommandsPlaced' /\ OneWriter' /\ FrozenIsPortable'
<1> DEFINE s == job[c].dir
<1> USE DEF SnapshotsInv
<1>0. snap \in [Directories -> Snapshot] /\ job \in [Commands -> Job]
  BY Types
<1>1. /\ JobInv(job[c], snap, bytes) /\ job[c].at \in Early /\ s \in Directories
      /\ job[c].op = "backup" /\ snap[s].phase = "begun"
  <2>1. JobInv(job[c], snap, bytes)
    BY DEF CommandsPlaced
  <2>2. job[c].at \in Early
    BY DEF SnapshotDatabase, SanitizeDatabase, FreezeManifest, Early
  <2>3. job[c].op \in {"none", "backup", "resume", "restore"}
    BY <1>0 DEF Job
  <2> QED BY <2>1, <2>2, <2>3 DEF JobInv, Early
<1>2. \A r \in Directories : r # s => snap'[r] = snap[r]
  BY <1>0 DEF SnapshotDatabase, SanitizeDatabase, FreezeManifest
<1>3. \A d \in Commands : d # c /\ job[d].op # "none" => job[d].dir \in Directories /\ job[d].dir # s
  BY <1>1, EarlyIsAlone DEF CommandsPlaced, JobInv
<1>4. \A d \in Commands : d # c /\ job[d].op # "none" => Undisturbed(job[d].dir)
  BY <1>2, <1>3 DEF Undisturbed
<1>5. bytes' = bytes
  BY DEF SnapshotDatabase, SanitizeDatabase, FreezeManifest
<1>6. CASE SnapshotDatabase(c)
  <2> DEFINE x == [job[c] EXCEPT !.at = "sanitize"]
  <2>1. snap'[s].phase = "begun" /\ snap'[s].db = LiveImage
    BY <1>0, <1>1, <1>6 DEF SnapshotDatabase, Snapshot
  <2>2. x.op = "backup" /\ x.at = "sanitize" /\ x.dir = s
    BY <1>0, <1>1 DEF Job
  <2>3. \A a \in LiveImage.rows : bytes[a] # "absent"
    BY DEF LiveImage, RetainedIsStored
  <2>4. JobInv(x, snap', bytes)
    BY <1>1, <2>1, <2>2, <2>3 DEF JobInv, Early
  <2> HIDE DEF x
  <2>5. Step(c, x)
    BY <1>6 DEF SnapshotDatabase, x
  <2>6. FrozenIsPortable'
    BY <1>2, <2>1 DEF FrozenIsPortable, Frozen
  <2> QED BY <1>1, <1>4, <1>5, <2>2, <2>4, <2>5, <2>6, CommandPreserves
<1>7. CASE SanitizeDatabase(c)
  <2> DEFINE x == [job[c] EXCEPT !.at = "manifest"]
  <2>1. snap'[s].phase = "begun" /\ snap'[s].db = Sanitized(snap[s].db)
    BY <1>0, <1>1, <1>7 DEF SanitizeDatabase, Snapshot
  <2>2. x.op = "backup" /\ x.at = "manifest" /\ x.dir = s
    BY <1>0, <1>1 DEF Job
  <2>3. Portable(snap'[s].db) /\ snap'[s].db.rows = snap[s].db.rows
    BY <1>0, <1>1, <2>1 DEF Sanitized, Portable, Snapshot, Image
  <2>4. JobInv(x, snap', bytes)
    BY <1>1, <1>7, <2>1, <2>2, <2>3 DEF JobInv, Early, SanitizeDatabase
  <2> HIDE DEF x
  <2>5. Step(c, x)
    BY <1>7 DEF SanitizeDatabase, x
  <2>6. FrozenIsPortable'
    BY <1>2, <2>1 DEF FrozenIsPortable, Frozen
  <2> QED BY <1>1, <1>4, <1>5, <2>2, <2>4, <2>5, <2>6, CommandPreserves
<1>8. CASE FreezeManifest(c)
  <2> DEFINE x == [job[c] EXCEPT !.at = "media", !.todo = snap[s].db.rows]
  <2>1. snap'[s].phase = "database-ready" /\ snap'[s].db = snap[s].db
    BY <1>0, <1>1, <1>8 DEF FreezeManifest, Snapshot
  <2>2. x.op = "backup" /\ x.at = "media" /\ x.dir = s
    BY <1>0, <1>1 DEF Job
  <2>3. Portable(snap[s].db)
    BY <1>1, <1>8 DEF JobInv, FreezeManifest
  <2>4. JobInv(x, snap', bytes)
    BY <1>1, <1>8, <2>1, <2>2 DEF JobInv, Early, Frozen, FreezeManifest
  <2> HIDE DEF x
  <2>5. Step(c, x)
    BY <1>8 DEF FreezeManifest, x
  <2>6. FrozenIsPortable'
    BY <1>2, <2>1, <2>3 DEF FrozenIsPortable
  <2> QED BY <1>4, <1>5, <2>2, <2>4, <2>5, <2>6, CommandPreserves DEF Early
<1> QED BY <1>6, <1>7, <1>8
(* A command that works on a frozen snapshot changes its files and may      *)
(* complete it.                                                             *)
MediaStep(c) ==
    \/ \E a \in Assets : CopyObject(c, a) \/ StageObject(c, a)
    \/ FinishBackup(c) \/ StageDatabase(c) \/ Publish(c) \/ Interrupt(c)

LEMMA MediaUndisturbed ==
    ASSUME SnapshotsInv, NEW c \in Commands, MediaStep(c)
    PROVE  (\A s \in Directories : Undisturbed(s)) /\ bytes' = bytes /\ live' = live
<1>0. snap \in [Directories -> Snapshot]
  BY Types DEF SnapshotsInv
<1>1. CASE \E a \in Assets : CopyObject(c, a)
  BY <1>0, <1>1 DEF CopyObject, Undisturbed, Snapshot
<1>2. CASE FinishBackup(c)
  <2>1. snap[job[c].dir].phase \in Frozen
    BY <1>2 DEF FinishBackup, SnapshotsInv, CommandsPlaced, JobInv
  <2> QED BY <1>0, <1>2, <2>1 DEF FinishBackup, Undisturbed, Snapshot, Frozen
<1>3. CASE (\E a \in Assets : StageObject(c, a)) \/ StageDatabase(c) \/ Publish(c) \/ Interrupt(c)
  BY <1>3 DEF StageObject, StageDatabase, Publish, Interrupt, Undisturbed
<1> QED BY <1>1, <1>2, <1>3 DEF MediaStep, CopyObject, FinishBackup, StageObject, StageDatabase, Publish, Interrupt

(* Wherever it gets to, the command still fits its directory.               *)
LEMMA MediaFits ==
    ASSUME SnapshotsInv, NEW c \in Commands, MediaStep(c)
    PROVE  \E x : Step(c, x) /\ JobInv(x, snap, bytes) /\ x.at \notin Early /\ x.dir \in {job[c].dir, Idle.dir}
<1>0. job \in [Commands -> Job] /\ snap \in [Directories -> Snapshot]
  BY Types DEF SnapshotsInv
<1>1. JobInv(job[c], snap, bytes)
  BY DEF SnapshotsInv, CommandsPlaced
<1>2. CASE Ends(c)
  BY <1>2, IdleFits DEF Ends, Idle, Early
<1>3. ASSUME NEW a \in Assets, Step(c, [job[c] EXCEPT !.todo = @ \ {a}]), job[c].at = "media"
      PROVE \E x : Step(c, x) /\ JobInv(x, snap, bytes) /\ x.at \notin Early /\ x.dir \in {job[c].dir, Idle.dir}
  <2> DEFINE x == [job[c] EXCEPT !.todo = @ \ {a}]
  <2>1. x.op = job[c].op /\ x.at = "media" /\ x.dir = job[c].dir /\ x.path = job[c].path
    BY <1>0, <1>3 DEF Job
  <2>2. JobInv(x, snap, bytes)
    BY <1>1, <1>3, <2>1 DEF JobInv
  <2> HIDE DEF x
  <2> QED BY <1>3, <2>1, <2>2 DEF x, Early
<1>4. ASSUME NEW a \in Assets, NEW f, Step(c, [job[c] EXCEPT !.todo = @ \ {a}, !.files[a] = f]),
             job[c].at = "media"
      PROVE \E x : Step(c, x) /\ JobInv(x, snap, bytes) /\ x.at \notin Early /\ x.dir \in {job[c].dir, Idle.dir}
  <2> DEFINE x == [job[c] EXCEPT !.todo = @ \ {a}, !.files[a] = f]
  <2>1. x.op = job[c].op /\ x.at = "media" /\ x.dir = job[c].dir /\ x.path = job[c].path
    BY <1>0, <1>4 DEF Job
  <2>2. JobInv(x, snap, bytes)
    BY <1>1, <1>4, <2>1 DEF JobInv
  <2> HIDE DEF x
  <2> QED BY <1>4, <2>1, <2>2 DEF x, Early
<1>5. CASE StageDatabase(c) /\ ~Ends(c)
  <2> DEFINE x == [job[c] EXCEPT !.at = "publish"]
  <2>1. job[c].op = "restore" /\ job[c].at = "media" /\ MediaVerified(snap[job[c].dir].db, job[c].files)
        /\ Step(c, x)
    BY <1>5 DEF StageDatabase
  <2>2. x.op = "restore" /\ x.at = "publish" /\ x.dir = job[c].dir /\ x.path = job[c].path
        /\ x.files = job[c].files
    BY <1>0, <2>1 DEF Job
  <2> HIDE DEF x
  <2>3. JobInv(x, snap, bytes)
    BY <1>1, <2>1, <2>2 DEF JobInv, Early, MediaVerified, Matches
  <2> QED BY <2>1, <2>2, <2>3 DEF Early
<1>6. CASE \E a \in Assets : CopyObject(c, a)
  BY <1>2, <1>3, <1>6 DEF CopyObject
<1>7. CASE \E a \in Assets : StageObject(c, a)
  BY <1>2, <1>4, <1>7 DEF StageObject
<1> QED BY <1>2, <1>5, <1>6, <1>7 DEF MediaStep, FinishBackup, Publish, Interrupt

LEMMA MediaPreserves ==
    ASSUME SnapshotsInv, NEW c \in Commands, MediaStep(c)
    PROVE  CommandsPlaced' /\ OneWriter' /\ FrozenIsPortable'
<1> USE DEF SnapshotsInv
<1>1. (\A s \in Directories : Undisturbed(s)) /\ bytes' = bytes
  BY MediaUndisturbed
<1>2. PICK x : Step(c, x) /\ JobInv(x, snap, bytes) /\ x.at \notin Early
  BY MediaFits
<1>3. \A d \in Commands : job[d].op # "none" => job[d].dir \in Directories
  BY DEF CommandsPlaced, JobInv
<1>4. x.op # "none" => x.dir \in Directories
  BY <1>2 DEF JobInv
<1>5. JobInv(x, snap', bytes)
  BY <1>1, <1>2, <1>4, RowsAreAssets, JobInvKept DEF Undisturbed
<1>6. CommandsPlaced' /\ OneWriter'
  BY <1>1, <1>2, <1>3, <1>5, CommandPreserves
<1>7. FrozenIsPortable'
  BY <1>1 DEF Undisturbed, FrozenIsPortable, Frozen
<1> QED BY <1>6, <1>7

LEMMA OpenPreserves ==
    ASSUME SnapshotsInv, NEW c \in Commands, NEW s \in Directories,
           Resume(c, s) \/ \E t \in Targets : Restore(c, s, t)
    PROVE  CommandsPlaced' /\ OneWriter'
<1> USE DEF SnapshotsInv
<1>1. snap' = snap /\ bytes' = bytes /\ snap[s].phase \in Frozen
  BY DEF Resume, Restore, Frozen
<1>2. CASE Resume(c, s)
  <2> DEFINE x == [Idle EXCEPT !.op = "resume", !.at = "media", !.dir = s, !.todo = snap[s].db.rows]
  <2>1. x.op = "resume" /\ x.at = "media" /\ x.dir = s
    BY DEF Idle
  <2>2. Step(c, x)
    BY <1>2 DEF Resume
  <2> HIDE DEF x
  <2>3. JobInv(x, snap', bytes)
    BY <1>1, <2>1 DEF JobInv, Early
  <2> QED BY <1>1, <2>1, <2>2, <2>3, CommandPreserves DEF Undisturbed, Early
<1>3. ASSUME NEW t \in Targets, Restore(c, s, t) PROVE CommandsPlaced' /\ OneWriter'
  <2> DEFINE x == [Idle EXCEPT !.op = "restore", !.at = "media", !.dir = s, !.path = t,
                               !.todo = snap[s].db.rows]
  <2>1. x.op = "restore" /\ x.at = "media" /\ x.dir = s /\ x.path = t
    BY DEF Idle
  <2>2. Step(c, x)
    BY <1>3 DEF Restore
  <2> HIDE DEF x
  <2>3. JobInv(x, snap', bytes)
    BY <1>1, <2>1 DEF JobInv, Early
  <2> QED BY <1>1, <2>1, <2>2, <2>3, CommandPreserves DEF Undisturbed, Early
<1> QED BY <1>2, <1>3
-----------------------------------------------------------------------------
(* What is published was verified in a staging directory nobody else writes *)
(* to, with the database of a frozen snapshot.                              *)
LEMMA RestoredPreserved ==
    ASSUME SnapshotsInv, NEW c \in Commands, CommandStep(c)
    PROVE  RestoredIsWhole'
<1>0. target \in [Targets -> Restored]
  BY Types DEF SnapshotsInv
<1>1. CASE Publish(c)
  <2> DEFINE s == job[c].dir
             t == job[c].path
  <2>1. /\ s \in Directories /\ snap[s].phase \in Frozen
        /\ \A a \in snap[s].db.rows : job[c].files[a] = "whole"
    BY <1>1 DEF Publish, SnapshotsInv, CommandsPlaced, JobInv
  <2>2. Portable(snap[s].db)
    BY <2>1 DEF SnapshotsInv, FrozenIsPortable
  <2>3. target' = target \/ target' = [target EXCEPT ![t] = [kind |-> "restored", db |-> snap[s].db,
                                                             files |-> job[c].files]]
    BY <1>1 DEF Publish
  <2>4. \A u \in Targets : \/ target'[u] = target[u]
                           \/ target'[u].db = snap[s].db /\ target'[u].files = job[c].files
    BY <1>0, <2>3
  <2> HIDE DEF s, t
  <2> QED BY <2>1, <2>2, <2>4 DEF s, SnapshotsInv, RestoredIsWhole, Portable
<1>2. CASE ~Publish(c)
  <2>1. target' = target
    BY <1>2 DEF CommandStep, Backup, Resume, Restore, SnapshotDatabase, SanitizeDatabase, FreezeManifest,
       CopyObject, StageObject, FinishBackup, StageDatabase, Interrupt
  <2> QED BY <2>1 DEF SnapshotsInv, RestoredIsWhole
<1> QED BY <1>1, <1>2

LEMMA SnapshotsInvInitially == Init => SnapshotsInv
<1> SUFFICES ASSUME Init PROVE SnapshotsInv
  OBVIOUS
<1> USE Constants
<1>1. live \in [Assets -> {"unsaved", "retained", "purging", "purged"}] /\ bytes \in [Assets -> Bytes]
  BY DEF Init, Bytes
<1>2. snap \in [Directories -> Snapshot] /\ job \in [Commands -> Job]
  BY DEF Init
<1>3. target \in [Targets -> Restored]
  <2>1. [Nothing EXCEPT !.kind = "empty"] \in Restored
    BY DEF Restored
  <2> QED BY <2>1 DEF Init
<1>4. CommandsPlaced /\ OneWriter
  BY IdleFits DEF Init, CommandsPlaced, OneWriter, Idle, Early
<1>5. FrozenIsPortable
  BY DEF Init, FrozenIsPortable, NoSnapshot, Frozen
<1>6. RetainedIsStored
  BY DEF Init, RetainedIsStored
<1>7. RestoredIsWhole
  BY DEF Init, RestoredIsWhole, Nothing
<1> QED BY <1>1, <1>2, <1>3, <1>4, <1>5, <1>6, <1>7, Types DEF SnapshotsInv

LEMMA SnapshotsInvPreserved == SnapshotsInv /\ [Next]_vars => SnapshotsInv'
<1> SUFFICES ASSUME SnapshotsInv, [Next]_vars PROVE SnapshotsInv'
  OBVIOUS
<1>1. TypeOK'
  BY TypePreserved DEF SnapshotsInv
<1>2. ASSUME NEW c \in Commands, CommandStep(c) PROVE SnapshotsInv'
  <2>1. RestoredIsWhole'
    BY <1>2, RestoredPreserved
  <2>2. RetainedIsStored'
    <3>1. UNCHANGED <<live, bytes>>
      BY <1>2 DEF CommandStep, Backup, Resume, Restore, SnapshotDatabase, SanitizeDatabase, FreezeManifest,
         CopyObject, StageObject, FinishBackup, StageDatabase, Publish, Interrupt
    <3> QED BY <3>1 DEF SnapshotsInv, RetainedIsStored
  <2>3. CASE \E s \in Directories : Backup(c, s)
    <3>1. FrozenIsPortable'
      BY <2>3, Types DEF Backup, SnapshotsInv, FrozenIsPortable, Snapshot, Frozen
    <3> QED BY <1>1, <2>1, <2>2, <2>3, <3>1, BackupPreserves DEF SnapshotsInv
  <2>4. CASE SnapshotDatabase(c) \/ SanitizeDatabase(c) \/ FreezeManifest(c)
    BY <1>1, <2>1, <2>2, <2>4, DatabasePreserves DEF SnapshotsInv
  <2>5. CASE \E s \in Directories : Resume(c, s) \/ \E t \in Targets : Restore(c, s, t)
    <3>1. FrozenIsPortable'
      BY <2>5 DEF Resume, Restore, SnapshotsInv, FrozenIsPortable
    <3> QED BY <1>1, <2>1, <2>2, <2>5, <3>1, OpenPreserves DEF SnapshotsInv
  <2>6. CASE MediaStep(c)
    BY <1>1, <2>1, <2>2, <2>6, MediaPreserves DEF SnapshotsInv
  <2> QED BY <1>2, <2>3, <2>4, <2>5, <2>6 DEF CommandStep, MediaStep
<1>3. CASE ~\E c \in Commands : CommandStep(c)
  <2>1. job' = job
    BY <1>3 DEF Next, Save, Detach, Unlink, RotOriginal, RotDatabase, RotCopy, Appear, vars
  <2> QED BY <1>1, <1>3, <2>1, OutsidePreserves DEF SnapshotsInv, Next
<1> QED BY <1>2, <1>3

(* The inductive invariant: every command has what its phase rests on.      *)
THEOREM SnapshotsInvariant == Spec => []SnapshotsInv
  BY SnapshotsInvInitially, SnapshotsInvPreserved, PTL DEF Spec

(* The variables keep their types in every behaviour. *)
THEOREM TypeCorrect == Spec => []TypeOK
  BY SnapshotsInvariant, PTL DEF SnapshotsInv

(* A published restore is a whole library without authority and without     *)
(* pending deletions, whatever failed, rotted or was purged, for any number *)
(* of assets and of commands that run at once.                              *)
THEOREM RestoresAreWhole == Spec => []RestoredIsWhole
  BY SnapshotsInvariant, PTL DEF SnapshotsInv

(* No permanent deletion removes an original a running backup has still to  *)
(* copy.                                                                    *)
THEOREM BackupsKeepTheirMedia == Spec => []FrozenMediaKept
<1>1. SnapshotsInv => FrozenMediaKept
  BY DEF SnapshotsInv, CommandsPlaced, JobInv, FrozenMediaKept
<1> QED BY <1>1, SnapshotsInvariant, PTL

(* What is frozen stays, and what is at a path is never overwritten.        *)
THEOREM SnapshotsStayFrozen == Spec => FrozenAndNeverOverwritten
<1> DEFINE Kept ==
       /\ \A s \in Directories : snap[s].phase \in {"database-ready", "complete"} =>
             snap'[s].db = snap[s].db /\ snap'[s].phase \in {snap[s].phase, "complete"}
       /\ \A t \in Targets : target[t].kind \in {"foreign", "restored"} =>
             target'[t] = target[t]
<1>1. SnapshotsInv /\ [Next]_vars => [Kept]_vars
  <2> SUFFICES ASSUME SnapshotsInv, [Next]_vars PROVE [Kept]_vars
    OBVIOUS
  <2>0. snap \in [Directories -> Snapshot] /\ target \in [Targets -> Restored]
    BY Types DEF SnapshotsInv
  <2>1. \A s \in Directories : snap[s].phase \in Frozen =>
           snap'[s].db = snap[s].db /\ snap'[s].phase \in {snap[s].phase, "complete"}
    <3>1. ASSUME NEW c \in Commands, SnapshotDatabase(c) \/ SanitizeDatabase(c) \/ FreezeManifest(c)
          PROVE snap[job[c].dir].phase \notin Frozen
                /\ \A s \in Directories : s # job[c].dir => snap'[s] = snap[s]
      <4>1. job[c].at \in Early
        BY <3>1 DEF SnapshotDatabase, SanitizeDatabase, FreezeManifest, Early
      <4>2. snap[job[c].dir].phase = "begun"
        BY <4>1 DEF SnapshotsInv, CommandsPlaced, JobInv
      <4>3. \A s \in Directories : s # job[c].dir => snap'[s] = snap[s]
        BY <2>0, <3>1 DEF SnapshotDatabase, SanitizeDatabase, FreezeManifest
      <4> QED BY <4>2, <4>3 DEF Frozen
    <3>2. ASSUME NEW c \in Commands, NEW s \in Directories, Backup(c, s)
          PROVE snap[s].phase \notin Frozen /\ \A r \in Directories : r # s => snap'[r] = snap[r]
      BY <2>0, <3>2 DEF Backup, Frozen
    <3>3. ASSUME NEW c \in Commands, (\E a \in Assets : CopyObject(c, a)) \/ FinishBackup(c)
          PROVE \A s \in Directories :
                   snap'[s].db = snap[s].db /\ snap'[s].phase \in {snap[s].phase, "complete"}
      <4>1. CASE \E a \in Assets : CopyObject(c, a)
        BY <2>0, <4>1 DEF CopyObject, Snapshot
      <4>2. CASE FinishBackup(c)
        <5>1. snap' = snap \/ snap' = [snap EXCEPT ![job[c].dir].phase = "complete"]
          BY <4>2 DEF FinishBackup
        <5> QED BY <2>0, <5>1 DEF Snapshot
      <4> QED BY <3>3, <4>1, <4>2
    <3>4. ASSUME NEW s \in Directories, RotDatabase(s) \/ \E a \in Assets : RotCopy(s, a)
          PROVE \A r \in Directories : snap'[r].db = snap[r].db /\ snap'[r].phase = snap[r].phase
      BY <2>0, <3>4 DEF RotDatabase, RotCopy, Snapshot
    <3>5. ASSUME \/ \E c \in Commands, s \in Directories, t \in Targets : Restore(c, s, t)
                 \/ \E c \in Commands, s \in Directories : Resume(c, s)
                 \/ \E c \in Commands, a \in Assets : StageObject(c, a)
                 \/ \E c \in Commands : StageDatabase(c) \/ Publish(c) \/ Interrupt(c)
                 \/ \E a \in Assets : Save(a) \/ Detach(a) \/ Unlink(a) \/ RotOriginal(a)
                 \/ \E t \in Targets : Appear(t)
                 \/ UNCHANGED vars
          PROVE snap' = snap
      BY <3>5 DEF Restore, Resume, StageObject, StageDatabase, Publish, Interrupt, Save, Detach, Unlink,
         RotOriginal, Appear, vars
    <3> QED BY <3>1, <3>2, <3>3, <3>4, <3>5 DEF Next, CommandStep
  <2>2. \A t \in Targets : target[t].kind \in {"foreign", "restored"} => target'[t] = target[t]
    <3>1. ASSUME NEW c \in Commands, CommandStep(c), ~Publish(c) PROVE target' = target
      BY <3>1 DEF CommandStep, Backup, Resume, Restore, SnapshotDatabase, SanitizeDatabase, FreezeManifest,
         CopyObject, StageObject, FinishBackup, StageDatabase, Interrupt
    <3>2. ASSUME NEW c \in Commands, Publish(c), NEW t \in Targets, target[t].kind \in {"foreign", "restored"}
          PROVE target'[t] = target[t]
      BY <2>0, <3>2 DEF Publish, Replaceable
    <3>3. ASSUME NEW u \in Targets, Appear(u), NEW t \in Targets, target[t].kind \in {"foreign", "restored"}
          PROVE target'[t] = target[t]
      BY <2>0, <3>3 DEF Appear
    <3>4. ASSUME NEW a \in Assets, Save(a) \/ Detach(a) \/ Unlink(a) \/ RotOriginal(a) PROVE target' = target
      BY <3>4 DEF Save, Detach, Unlink, RotOriginal
    <3> QED BY <3>1, <3>2, <3>3, <3>4 DEF Next, RotDatabase, RotCopy, vars
  <2> QED BY <2>1, <2>2 DEF Frozen
<1> QED BY <1>1, SnapshotsInvariant, PTL DEF Spec, FrozenAndNeverOverwritten
=============================================================================
