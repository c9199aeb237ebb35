------------------------------ MODULE Snapshots ------------------------------
(***************************************************************************)
(* Portable snapshots of a library: internal/recovery (Backup, Resume,     *)
(* Restore, Verify) beside the running server, which saves and permanently *)
(* deletes media meanwhile.  Several commands run at once, any of them may *)
(* fail or be killed between two steps, and stored bytes may rot.          *)
(*                                                                         *)
(* Abstracted: a file is absent, whole (its bytes hash to the receipt in   *)
(* the catalogue) or damaged; an asset has one file; the inventory         *)
(* media.ndjson is a function of the frozen database and is not kept       *)
(* apart; the SQLite online backup restarts when its source is written, so *)
(* what it copies is the database of the instant in which it finishes.     *)
(***************************************************************************)
EXTENDS Naturals, FiniteSets

CONSTANTS Assets, Commands, Directories, Targets

VARIABLES
    live,      \* asset -> where it is in the running library's catalogue
    bytes,     \* asset -> the original in the running library's media directory
    snap,      \* directory -> the snapshot in it
    target,    \* path -> what a restore would find there
    job        \* command -> the backup, resume or restore it is running

vars == <<live, bytes, snap, target, job>>

Bytes == {"absent", "whole", "damaged"}
NoFiles == [a \in Assets |-> "absent"]

(* What the snapshot of a database holds: the assets it catalogues (trash   *)
(* included), the permanent deletions still to be carried out, and whether  *)
(* sessions, devices, tokens, attempts or invitations are in it.            *)
Image == [rows: SUBSET Assets, purging: SUBSET Assets, authority: BOOLEAN]
NoImage == [rows |-> {}, purging |-> {}, authority |-> FALSE]
LiveImage == [rows |-> {a \in Assets : live[a] = "retained"},
              purging |-> {a \in Assets : live[a] = "purging"}, authority |-> TRUE]

NoSnapshot == [phase |-> "absent", db |-> NoImage, sealed |-> TRUE, files |-> NoFiles]
Idle == [op |-> "none", at |-> "none", dir |-> "none", path |-> "none", todo |-> {},
         files |-> NoFiles]
Nothing == [kind |-> "absent", db |-> NoImage, files |-> NoFiles]

TypeOK ==
    /\ live \in [Assets -> {"unsaved", "retained", "purging", "purged"}]
    /\ bytes \in [Assets -> Bytes]
    /\ snap \in [Directories ->
          [phase: {"absent", "begun", "database-ready", "complete"}, db: Image,
           sealed: BOOLEAN, files: [Assets -> Bytes]]]
    /\ target \in [Targets -> [kind: {"absent", "empty", "foreign", "restored"},
                               db: Image, files: [Assets -> Bytes]]]
    /\ job \in [Commands ->
          [op: {"none", "backup", "resume", "restore"},
           at: {"none", "database", "sanitize", "manifest", "media", "publish"},
           dir: Directories \cup {"none"}, path: Targets \cup {"none"},
           todo: SUBSET Assets, files: [Assets -> Bytes]]]

Init ==
    /\ live \in [Assets -> {"unsaved", "retained"}]
    /\ bytes = [a \in Assets |-> IF live[a] = "retained" THEN "whole" ELSE "absent"]
    /\ snap = [s \in Directories |-> NoSnapshot]
    /\ target \in [Targets -> {Nothing, [Nothing EXCEPT !.kind = "empty"]}]
    /\ job = [c \in Commands |-> Idle]

----------------------------------------------------------------------------
(* The running server.                                                      *)

(* Mutant: the lock is taken for the copying of media only. *)
HoldsMedia_Late(c) == job[c].op \in {"backup", "resume"} /\ job[c].at = "media"

(* Commands that hold the media lock of the data directory, shared: from    *)
(* before the database is copied until the media are published.             *)
HoldsMedia(c) == job[c].op \in {"backup", "resume"}

Save(a) ==
    /\ live[a] = "unsaved"
    /\ live' = [live EXCEPT ![a] = "retained"]
    /\ bytes' = [bytes EXCEPT ![a] = "whole"]
    /\ UNCHANGED <<snap, target, job>>

(* A permanent deletion detaches the row at once ...                        *)
Detach(a) ==
    /\ live[a] = "retained"
    /\ live' = [live EXCEPT ![a] = "purging"]
    /\ UNCHANGED <<bytes, snap, target, job>>

(* ... and unlinks the original under the exclusive media lock.             *)
Unlink(a) ==
    /\ live[a] = "purging"
    /\ \A c \in Commands : ~HoldsMedia(c)
    /\ live' = [live EXCEPT ![a] = "purged"]
    /\ bytes' = [bytes EXCEPT ![a] = "absent"]
    /\ UNCHANGED <<snap, target, job>>

----------------------------------------------------------------------------
(* One lock file per snapshot directory, taken exclusively without waiting. *)
Owned(s) == \E c \in Commands : job[c].dir = s

(* Mutant: the size alone is compared. *)
Matches_Size(b) == b # "absent"

(* verifyArtifact, and the comparison of a finished copy with its receipt:  *)
(* the size and the SHA-256 must both be the receipt's.                     *)
Matches(b) == b = "whole"

(* verifyMedia: every object the catalogue names is there and matches.      *)
MediaVerified(db, files) == \A a \in db.rows : Matches(files[a])

(* verifyDatabase: no authority may be left in a portable database.         *)
(* verifyCore: and it is the database whose hash the manifest holds.        *)
CoreVerified(s) == snap[s].sealed /\ ~snap[s].db.authority

Step(c, changes) == job' = [job EXCEPT ![c] = changes]
Ends(c) == Step(c, Idle)

(* Backup takes the media lock, then creates and locks a new directory.     *)
Backup(c, s) ==
    /\ job[c] = Idle
    /\ snap[s].phase = "absent"
    /\ snap' = [snap EXCEPT ![s].phase = "begun"]
    /\ Step(c, [Idle EXCEPT !.op = "backup", !.at = "database", !.dir = s])
    /\ UNCHANGED <<live, bytes, target>>

SnapshotDatabase(c) ==
    /\ job[c].at = "database"
    /\ snap' = [snap EXCEPT ![job[c].dir].db = LiveImage]
    /\ Step(c, [job[c] EXCEPT !.at = "sanitize"])
    /\ UNCHANGED <<live, bytes, target>>

(* sanitizeDatabase: authority and interrupted work leave the copy, pending *)
(* deletions become completed tombstones.                                   *)
Sanitized(db) == [db EXCEPT !.purging = {}, !.authority = FALSE]

SanitizeDatabase(c) ==
    /\ job[c].at = "sanitize"
    /\ snap' = [snap EXCEPT ![job[c].dir].db = Sanitized(@)]
    /\ Step(c, [job[c] EXCEPT !.at = "manifest"])
    /\ UNCHANGED <<live, bytes, target>>

FreezeManifest(c) ==
    LET s == job[c].dir IN
    /\ job[c].at = "manifest"
    /\ snap' = [snap EXCEPT ![s].phase = "database-ready"]
    /\ Step(c, [job[c] EXCEPT !.at = "media", !.todo = snap[s].db.rows])
    /\ UNCHANGED <<live, bytes, target>>

(* Resume: any snapshot with a manifest, whose frozen database verifies.    *)
Resume(c, s) ==
    /\ job[c] = Idle /\ ~Owned(s)
    /\ snap[s].phase \in {"database-ready", "complete"}
    /\ CoreVerified(s)
    /\ Step(c, [Idle EXCEPT !.op = "resume", !.at = "media", !.dir = s,
                            !.todo = snap[s].db.rows])
    /\ UNCHANGED <<live, bytes, snap, target>>

(* copyMediaObject: a verified copy is kept, anything else is copied again. *)
(* A source that does not match ends the command, its bytes left behind.    *)
CopyObject(c, a) ==
    LET s == job[c].dir IN
    /\ HoldsMedia(c) /\ job[c].at = "media" /\ a \in job[c].todo
    /\ \/ /\ Matches(snap[s].files[a])
          /\ Step(c, [job[c] EXCEPT !.todo = @ \ {a}])
          /\ UNCHANGED snap
       \/ /\ ~Matches(snap[s].files[a]) /\ bytes[a] # "absent"
          /\ snap' = [snap EXCEPT ![s].files[a] = bytes[a]]
          /\ IF Matches(bytes[a]) THEN Step(c, [job[c] EXCEPT !.todo = @ \ {a}]) ELSE Ends(c)
       \/ /\ ~Matches(snap[s].files[a]) /\ bytes[a] = "absent"
          /\ Ends(c) /\ UNCHANGED snap
    /\ UNCHANGED <<live, bytes, target>>

(* The end of finishBackup: everything is read again before "complete".     *)
FinishBackup(c) ==
    LET s == job[c].dir IN
    /\ HoldsMedia(c) /\ job[c].at = "media" /\ job[c].todo = {}
    /\ snap' = IF MediaVerified(snap[s].db, snap[s].files)
               THEN [snap EXCEPT ![s].phase = "complete"] ELSE snap
    /\ Ends(c)
    /\ UNCHANGED <<live, bytes, target>>

----------------------------------------------------------------------------
(* Restore into a staging directory that belongs to the command.            *)
Restore(c, s, t) ==
    /\ job[c] = Idle /\ ~Owned(s)
    /\ snap[s].phase = "complete"
    /\ CoreVerified(s) /\ MediaVerified(snap[s].db, snap[s].files)
    /\ target[t].kind \in {"absent", "empty"}
    /\ Step(c, [Idle EXCEPT !.op = "restore", !.at = "media", !.dir = s, !.path = t,
                            !.todo = snap[s].db.rows])
    /\ UNCHANGED <<live, bytes, snap, target>>

StageObject(c, a) ==
    LET found == snap[job[c].dir].files[a] IN
    /\ job[c].op = "restore" /\ job[c].at = "media" /\ a \in job[c].todo
    /\ IF Matches(found)
       THEN Step(c, [job[c] EXCEPT !.todo = @ \ {a}, !.files[a] = found])
       ELSE Ends(c)
    /\ UNCHANGED <<live, bytes, snap, target>>

(* The artifacts are copied and the staged library verified as a whole.     *)
StageDatabase(c) ==
    LET s == job[c].dir IN
    /\ job[c].op = "restore" /\ job[c].at = "media" /\ job[c].todo = {}
    /\ IF CoreVerified(s) /\ MediaVerified(snap[s].db, job[c].files)
       THEN Step(c, [job[c] EXCEPT !.at = "publish"]) ELSE Ends(c)
    /\ UNCHANGED <<live, bytes, snap, target>>

(* Mutant: the path is cleared first. *)
Replaceable_Anything(t) == TRUE

(* rename(2) replaces an absent path or an empty directory, nothing else.   *)
Replaceable(t) == target[t].kind \in {"absent", "empty"}

Publish(c) ==
    LET t == job[c].path IN
    /\ job[c].at = "publish"
    /\ target' = IF Replaceable(t)
                 THEN [target EXCEPT ![t] = [kind |-> "restored", db |-> snap[job[c].dir].db,
                                             files |-> job[c].files]]
                 ELSE target
    /\ Ends(c)
    /\ UNCHANGED <<live, bytes, snap>>

----------------------------------------------------------------------------
(* What goes wrong.                                                         *)

(* A command fails or its process is killed between two steps: its locks    *)
(* are released, what it wrote to the snapshot stays, its staging directory *)
(* is never looked at again.                                                *)
Interrupt(c) ==
    /\ job[c] # Idle
    /\ Ends(c)
    /\ UNCHANGED <<live, bytes, snap, target>>

RotOriginal(a) ==
    /\ bytes[a] = "whole"
    /\ bytes' = [bytes EXCEPT ![a] = "damaged"]
    /\ UNCHANGED <<live, snap, target, job>>

RotCopy(s, a) ==
    /\ snap[s].files[a] = "whole"
    /\ snap' = [snap EXCEPT ![s].files[a] = "damaged"]
    /\ UNCHANGED <<live, bytes, target, job>>

RotDatabase(s) ==
    /\ snap[s].phase \in {"database-ready", "complete"} /\ snap[s].sealed
    /\ snap' = [snap EXCEPT ![s].sealed = FALSE]
    /\ UNCHANGED <<live, bytes, target, job>>

(* Somebody else puts something at the path a restore is to publish to.     *)
Appear(t) ==
    /\ target[t].kind \in {"absent", "empty"}
    /\ target' = [target EXCEPT ![t].kind = "foreign"]
    /\ UNCHANGED <<live, bytes, snap, job>>

----------------------------------------------------------------------------
CommandStep(c) ==
    \/ \E s \in Directories : Backup(c, s) \/ Resume(c, s)
    \/ \E s \in Directories, t \in Targets : Restore(c, s, t)
    \/ SnapshotDatabase(c) \/ SanitizeDatabase(c) \/ FreezeManifest(c)
    \/ \E a \in Assets : CopyObject(c, a) \/ StageObject(c, a)
    \/ FinishBackup(c) \/ StageDatabase(c) \/ Publish(c)
    \/ Interrupt(c)

Next ==
    \/ \E a \in Assets : Save(a) \/ Detach(a) \/ Unlink(a) \/ RotOriginal(a)
    \/ \E c \in Commands : CommandStep(c)
    \/ \E s \in Directories : RotDatabase(s) \/ \E a \in Assets : RotCopy(s, a)
    \/ \E t \in Targets : Appear(t)

Spec == Init /\ [][Next]_vars

----------------------------------------------------------------------------
(* A published restore is a whole library: every asset of its catalogue has *)
(* the bytes its receipt promises, no deletion is pending in it and no      *)
(* session, device, token or invitation opens it, whatever was interrupted, *)
(* purged, rotten or resumed before (restore.go Restore, verify.go).        *)
RestoredIsWhole ==
    \A t \in Targets : target[t].kind = "restored" =>
        /\ \A a \in target[t].db.rows : target[t].files[a] = "whole"
        /\ ~target[t].db.authority /\ target[t].db.purging = {}

(* As long as a first backup runs, every original its frozen database names *)
(* is still in the media directory: permanent deletions that overtake it    *)
(* wait (backup.go:43).                                                     *)
FrozenMediaKept ==
    \A c \in Commands : job[c].op = "backup" /\ job[c].at \in {"sanitize", "manifest", "media"} =>
        \A a \in snap[job[c].dir].db.rows : bytes[a] # "absent"

(* Once a snapshot has a manifest its catalogue never changes, and what is  *)
(* at a path that is neither absent nor empty is never replaced, by a       *)
(* restore that found it empty when it began either (backup.go Resume,      *)
(* restore.go:25).                                                          *)
FrozenAndNeverOverwritten ==
    [][/\ \A s \in Directories : snap[s].phase \in {"database-ready", "complete"} =>
             snap'[s].db = snap[s].db /\ snap'[s].phase \in {snap[s].phase, "complete"}
       /\ \A t \in Targets : target[t].kind \in {"foreign", "restored"} =>
             target'[t] = target[t]]_vars
=============================================================================
