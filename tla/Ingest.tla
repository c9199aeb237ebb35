------------------------------- MODULE Ingest -------------------------------
(***************************************************************************)
(* The save boundary of the Sploot server (apps/server/internal/ingest):    *)
(* saving media, permanently deleting trash, and the media lock both share  *)
(* with readers.  The SQLite tables are functions from keys to rows, a row  *)
(* of status "absent" being no row; the media directory is a set of files.  *)
(* Writers of the database are serialised (every transaction is immediate), *)
(* so a transaction is one step, with three outcomes: acknowledged, applied *)
(* without an acknowledgement, and rolled back without one.  Everything     *)
(* between two transactions interleaves with the other processes.           *)
(*                                                                          *)
(* Every retained asset costs one unit of storage: sizes are abstract.      *)
(***************************************************************************)
EXTENDS Naturals, FiniteSets

CONSTANTS
    Savers,         (* save requests, each served at most once               *)
    Purgers,        (* permanent-deletion requests, each served at most once *)
    Readers,        (* media reads and backups, each run at most once        *)
    Boot,           (* the start of the service, before it accepts requests  *)
    Owners,         (* accounts                                              *)
    Keys,           (* idempotency keys                                      *)
    Contents,       (* originals, told apart by their checksum               *)
    None,           (* no owner, key, content or lease token                 *)
    MaxAssets,      (* bound: asset identifiers that are ever generated      *)
    Limit,          (* the operator's storage limit in assets, 0: unlimited  *)
    MaxCrashes,     (* bound: crashes of the server process                  *)
    FlockExcludes,  (* whether the file system enforces the advisory locks   *)
    IOFaults        (* whether an unlink or a directory sync may fail        *)

ASSUME IngestAssumption ==
    /\ None \notin Owners \cup Keys \cup Contents \cup Savers
    /\ Boot \notin Savers \cup Purgers \cup Readers
    /\ Savers \cap Purgers = {} /\ Savers \cap Readers = {}
    /\ Purgers \cap Readers = {}
    /\ MaxAssets \in Nat /\ Limit \in Nat /\ MaxCrashes \in Nat
    /\ FlockExcludes \in BOOLEAN /\ IOFaults \in BOOLEAN

VARIABLES
    server,     (* "down", "booting" or "serving"                          *)
    crashes,    (* how many crashes happened                               *)
    admission,  (* holders of the lock on the media directory              *)
    shared,     (* holders of the shared lock on the library directory     *)
    exclusive,  (* holders of the exclusive lock on the library directory  *)
    assets,     (* table assets                                            *)
    intents,    (* asset identifiers with a row in asset_embeddings        *)
    purges,     (* table asset_purges                                      *)
    claims,     (* table upload_idempotency                                *)
    files,      (* complete media files: <<asset identifier, part>>        *)
    spools,     (* savers whose temporary directory exists                 *)
    nextId,     (* the next fresh asset identifier                         *)
    save, purge, read   (* the local state of each request                 *)

locks == <<admission, shared, exclusive>>
tables == <<assets, intents, purges, claims>>
disk == <<files, spools>>
requests == <<save, purge, read>>
process == <<server, crashes>>
vars == <<process, locks, tables, disk, nextId, requests>>

Ids == 1 .. MaxAssets
NoAsset == 0
Parts == {"original", "poster"}
Media(a) == {a} \X Parts
Purging == Purgers \cup {Boot}

AssetRow == [status : {"absent", "live", "trashed"},
             owner : Owners \cup {None}, content : Contents \cup {None}]
PurgeRow == [status : {"absent", "pending", "completed"}, owner : Owners \cup {None}]
ClaimRow == [status : {"absent", "processing", "completed"},
             token : Savers \cup {None}, expired : BOOLEAN,
             receipt : Ids \cup {NoAsset}]
NoRow == [status |-> "absent", owner |-> None, content |-> None]
NoPurge == [status |-> "absent", owner |-> None]
NoClaim == [status |-> "absent", token |-> None, expired |-> FALSE, receipt |-> NoAsset]

SavePc == {"idle", "receipt", "replay", "admission", "library", "spool", "early",
           "prepare", "original", "poster", "final", "exit", "unlock", "release",
           "done", "lost"}
SaveState == [pc : SavePc, owner : Owners \cup {None}, key : Keys \cup {None},
              content : Contents \cup {None}, id : Ids \cup {NoAsset},
              outcome : {"uncommitted", "uncertain", "committed"},
              answer : Ids \cup {NoAsset}, gone : SUBSET Ids]
PurgePc == {"idle", "admission", "library", "detach", "check", "original", "poster",
            "complete", "unlock", "done", "lost"}
PurgeState == [pc : PurgePc, owner : Owners \cup {None}, id : Ids \cup {NoAsset},
               answer : {"none", "ok", "incomplete", "refused"}]
ReadState == [pc : {"idle", "locked", "copying", "done"},
              kind : {"none", "open", "backup"}, wanted : SUBSET Ids]

IdleSave == [pc |-> "idle", owner |-> None, key |-> None, content |-> None,
             id |-> NoAsset, outcome |-> "uncommitted", answer |-> NoAsset, gone |-> {}]
IdlePurge == [pc |-> "idle", owner |-> None, id |-> NoAsset, answer |-> "none"]
IdleRead == [pc |-> "idle", kind |-> "none", wanted |-> {}]

(* Types of the variables. *)
TypeOK ==
    /\ server \in {"down", "booting", "serving"}
    /\ crashes \in 0 .. MaxCrashes
    /\ admission \subseteq Savers \cup Purging
    /\ shared \subseteq Savers \cup Readers
    /\ exclusive \subseteq Purging
    /\ assets \in [Ids -> AssetRow]
    /\ intents \subseteq Ids
    /\ purges \in [Ids -> PurgeRow]
    /\ claims \in [Owners \X Keys -> ClaimRow]
    /\ files \subseteq Ids \X Parts
    /\ spools \subseteq Savers
    /\ nextId \in 1 .. MaxAssets + 1
    /\ save \in [Savers -> SaveState]
    /\ purge \in [Purging -> PurgeState]
    /\ read \in [Readers -> ReadState]

Init ==
    /\ server = "down" /\ crashes = 0
    /\ admission = {} /\ shared = {} /\ exclusive = {}
    /\ assets = [a \in Ids |-> NoRow]
    /\ intents = {}
    /\ purges = [a \in Ids |-> NoPurge]
    /\ claims = [slot \in Owners \X Keys |-> NoClaim]
    /\ files = {} /\ spools = {} /\ nextId = 1
    /\ save = [s \in Savers |-> IdleSave]
    /\ purge = [p \in Purging |-> IdlePurge]
    /\ read = [r \in Readers |-> IdleRead]

-----------------------------------------------------------------------------
(* The media lock: flock on two directories, polled without any queue.     *)

AdmissionFree == FlockExcludes => admission = {}
SharedFree == FlockExcludes => exclusive = {}

(* Mutant: readers do not keep a deletion out. *)
ExclusiveFree_DespiteReaders == FlockExcludes => exclusive = {}

ExclusiveFree == FlockExcludes => exclusive = {} /\ shared = {}

-----------------------------------------------------------------------------
(* Reading the tables.                                                     *)

Retained(a) == assets[a].status # "absent"
Pending(a) == purges[a].status = "pending"

(* Mutant: a deletion is free as soon as its row is detached. *)
PhysicalUsage_AssetsOnly == Cardinality({a \in Ids : Retained(a)})

(* Trash is still physical storage, and so is a deletion not yet finished. *)
PhysicalUsage == Cardinality({a \in Ids : Retained(a)})
                 + Cardinality({a \in Ids : Pending(a)})
AdmitStorage == Limit = 0 \/ PhysicalUsage + 1 <= Limit

(* The assets that hold an owner's content, the live ones if there are any. *)
Duplicates(o, c) ==
    LET same == {a \in Ids : Retained(a) /\ assets[a].owner = o /\ assets[a].content = c}
        live == {a \in same : assets[a].status = "live"}
    IN  IF live # {} THEN live ELSE same

Slot(s) == <<save[s].owner, save[s].key>>
Keyed(s) == save[s].key # None

(* Mutant: the claim is not looked at again. *)
Fenced_Unchecked(s) == TRUE

(* The claim still belongs to this request and its lease has not run out. *)
Fenced(s) ==
    Keyed(s) => /\ claims[Slot(s)].status = "processing"
                /\ claims[Slot(s)].token = s
                /\ ~claims[Slot(s)].expired

CompleteClaim(s, a) ==
    IF Keyed(s)
    THEN [claims EXCEPT ![Slot(s)] =
            [status |-> "completed", token |-> s, expired |-> FALSE, receipt |-> a]]
    ELSE claims

(* What a commit can come to: applied or not, acknowledged or not. *)
Commits == {[applied |-> TRUE, acked |-> TRUE],
            [applied |-> TRUE, acked |-> FALSE],
            [applied |-> FALSE, acked |-> FALSE]}

-----------------------------------------------------------------------------
(* Saving.                                                                 *)

GoSave(s, pc) == save' = [save EXCEPT ![s].pc = pc]
AnswerSave(s, pc, answer) == save' = [save EXCEPT ![s].pc = pc, ![s].answer = answer]

Accept(s, o, k, c, pc) ==
    save' = [save EXCEPT ![s] = [IdleSave EXCEPT
        !.pc = pc, !.owner = o, !.key = k, !.content = c,
        !.gone = {a \in Ids : purges[a].status # "absent"}]]

(* A save without a key takes no claim. *)
AcceptUnkeyed(s) ==
    /\ server = "serving" /\ save[s].pc = "idle"
    /\ \E o \in Owners, c \in Contents : Accept(s, o, None, c, "admission")
    /\ UNCHANGED <<process, locks, tables, disk, nextId, purge, read>>

(* Receipts of the owner whose retention ran out are deleted first; a lease *)
(* that lapsed is left for the takeover below, which treats it alike.       *)
Swept(o) ==
    [slot \in DOMAIN claims |->
        IF slot[1] = o /\ claims[slot].status = "completed" /\ claims[slot].expired
        THEN NoClaim ELSE claims[slot]]

(* INSERT ... ON CONFLICT DO UPDATE: a free key or a lapsed lease is taken, *)
(* any other row leaves the request to read what it finds there.            *)
Claim(s) ==
    /\ server = "serving" /\ save[s].pc = "idle"
    /\ \E o \in Owners, k \in Keys, c \in Contents :
         LET row == Swept(o)[<<o, k>>] IN
         \/ /\ row.status = "absent" \/ row.expired
            /\ claims' = [Swept(o) EXCEPT ![<<o, k>>] =
                 [status |-> "processing", token |-> s, expired |-> FALSE,
                  receipt |-> NoAsset]]
            /\ Accept(s, o, k, c, "admission")
         \/ /\ row.status # "absent" /\ ~row.expired
            /\ claims' = Swept(o)
            /\ Accept(s, o, k, c, "receipt")
    /\ UNCHANGED <<process, locks, assets, intents, purges, disk, nextId, purge, read>>

(* The row is read again, in a statement of its own: by now it may be gone, *)
(* completed, or claimed by somebody else.                                  *)
ReadReceipt(s) ==
    /\ save[s].pc = "receipt"
    /\ IF claims[Slot(s)].status = "completed"
       THEN AnswerSave(s, "replay", claims[Slot(s)].receipt)
       ELSE GoSave(s, "done")
    /\ UNCHANGED <<process, locks, tables, disk, nextId, purge, read>>

(* Mutant: a finished deletion is forgotten. *)
Purged_Pending(o, a) == purges[a].status = "pending" /\ purges[a].owner = o

(* A retained receipt is replayed unless its asset was purged. *)
Purged(o, a) == purges[a].status # "absent" /\ purges[a].owner = o

Replay(s) ==
    /\ save[s].pc = "replay"
    /\ AnswerSave(s, "done", IF Purged(save[s].owner, save[s].answer)
                             THEN NoAsset ELSE save[s].answer)
    /\ UNCHANGED <<process, locks, tables, disk, nextId, purge, read>>

SaveAdmission(s) ==
    /\ save[s].pc = "admission" /\ AdmissionFree
    /\ admission' = admission \cup {s}
    /\ GoSave(s, "library")
    /\ UNCHANGED <<process, shared, exclusive, tables, disk, nextId, purge, read>>

SaveLibrary(s) ==
    /\ save[s].pc = "library" /\ SharedFree
    /\ shared' = shared \cup {s}
    /\ GoSave(s, "spool")
    /\ UNCHANGED <<process, admission, exclusive, tables, disk, nextId, purge, read>>

(* The reserve is checked, a URL is fetched, and the original is spooled. *)
Spool(s) ==
    /\ save[s].pc = "spool"
    /\ spools' = spools \cup {s}
    /\ GoSave(s, "early")
    /\ UNCHANGED <<process, locks, tables, files, nextId, purge, read>>

(* The request is through: what it knows of its commit, and its answer. *)
LeaveSave(s, outcome, answer) ==
    save' = [save EXCEPT ![s].pc = "exit", ![s].outcome = outcome, ![s].answer = answer]

(* A duplicate settles the claim with the asset already there. *)
SettleDuplicate(s, outcome) ==
    \E a \in Duplicates(save[s].owner, save[s].content), commit \in Commits :
        /\ claims' = IF commit.applied THEN CompleteClaim(s, a) ELSE claims
        /\ intents' = IF commit.applied /\ assets[a].status = "live"
                      THEN intents \cup {a} ELSE intents
        /\ LeaveSave(s, outcome[commit.acked], IF commit.acked THEN a ELSE NoAsset)

IsDuplicate(s) == Duplicates(save[s].owner, save[s].content) # {}

CommitOutcome == [acked \in BOOLEAN |-> IF acked THEN "committed" ELSE "uncertain"]

(* The first transaction spares decoding an original already retained. *)
EarlyTransaction(s) ==
    /\ save[s].pc = "early"
    /\ \/ /\ Fenced(s) /\ IsDuplicate(s)
          /\ SettleDuplicate(s, CommitOutcome)
       \/ /\ Fenced(s) /\ ~IsDuplicate(s)
          /\ GoSave(s, "prepare") /\ UNCHANGED <<claims, intents>>
       \/ /\ ~Fenced(s)
          /\ GoSave(s, "exit") /\ UNCHANGED <<claims, intents>>
    /\ UNCHANGED <<process, locks, assets, purges, disk, nextId, purge, read>>

(* Decoding, the poster, and a first look at the storage limit. *)
Prepare(s) ==
    /\ save[s].pc = "prepare"
    /\ \/ /\ AdmitStorage /\ nextId \in Ids
          /\ save' = [save EXCEPT ![s].pc = "original", ![s].id = nextId]
          /\ nextId' = nextId + 1
       \/ /\ ~AdmitStorage
          /\ GoSave(s, "exit") /\ UNCHANGED nextId
    /\ UNCHANGED <<process, locks, tables, disk, purge, read>>

(* A hard link publishes a complete file; what follows the link may fail,  *)
(* and the file is then tracked for cleanup.                               *)
Put(s, part, next) ==
    /\ save[s].pc = part
    /\ files' = files \cup {<<save[s].id, part>>}
    /\ \/ GoSave(s, next)
       \/ IOFaults /\ GoSave(s, "exit")
    /\ UNCHANGED <<process, locks, tables, spools, nextId, purge, read>>

PutOriginal(s) == Put(s, "original", "poster")
PutPoster(s) == Put(s, "poster", "final")

(* Rows, receipt and indexing intent become owned together. *)
InsertAsset(s) ==
    \E commit \in Commits :
        /\ IF commit.applied
           THEN /\ assets' = [assets EXCEPT ![save[s].id] =
                     [status |-> "live", owner |-> save[s].owner,
                      content |-> save[s].content]]
                /\ intents' = intents \cup {save[s].id}
                /\ claims' = CompleteClaim(s, save[s].id)
           ELSE UNCHANGED <<assets, intents, claims>>
        /\ LeaveSave(s, CommitOutcome[commit.acked],
                     IF commit.acked THEN save[s].id ELSE NoAsset)

(* After a duplicate the outcome is reset: no row refers to the staged files. *)
StagedOutcome == [acked \in BOOLEAN |-> "uncommitted"]

FinalTransaction(s) ==
    /\ save[s].pc = "final"
    /\ \/ /\ Fenced(s) /\ IsDuplicate(s)
          /\ SettleDuplicate(s, StagedOutcome)
          /\ UNCHANGED assets
       \/ /\ Fenced(s) /\ ~IsDuplicate(s) /\ AdmitStorage
          /\ InsertAsset(s)
       \/ /\ ~Fenced(s) \/ (~IsDuplicate(s) /\ ~AdmitStorage)
          /\ GoSave(s, "exit") /\ UNCHANGED <<assets, claims, intents>>
    /\ UNCHANGED <<process, locks, purges, disk, nextId, purge, read>>

(* A deadline, a full disk, media that cannot be fetched or decoded, a     *)
(* failing statement: the request leaves before its commit.                *)
Refuse(s) ==
    /\ \/ /\ save[s].pc \in {"admission", "library", "spool", "early", "prepare",
                             "original", "poster", "final"}
          /\ GoSave(s, "exit")
       \/ /\ save[s].pc \in {"receipt", "replay"}
          /\ AnswerSave(s, "done", NoAsset)
    /\ UNCHANGED <<process, locks, tables, disk, nextId, purge, read>>

(* Mutant: no answer is taken for no commit. *)
MayUnstage_Unanswered(s) == save[s].answer = NoAsset

MayUnstage(s) == save[s].outcome = "uncommitted"

(* Mutant: only the original is known to be staged. *)
Unlinked_NotPoster(staged) == {staged \cap (Ids \X {"original"})}

Unlinked(staged) == IF IOFaults THEN SUBSET staged ELSE {staged}

(* The deferred calls, in their order: the spool, the staged files, the    *)
(* locks, the claim.                                                       *)
Cleanup(s) ==
    /\ save[s].pc = "exit"
    /\ spools' = spools \ {s}
    /\ IF MayUnstage(s)
       THEN \E gone \in Unlinked(files \cap Media(save[s].id)) : files' = files \ gone
       ELSE UNCHANGED files
    /\ GoSave(s, "unlock")
    /\ UNCHANGED <<process, locks, tables, nextId, purge, read>>

(* Mutant: the media lock is not given back. *)
SaveUnlock_KeepsShared(s) ==
    /\ save[s].pc = "unlock"
    /\ admission' = admission \ {s}
    /\ GoSave(s, "release")
    /\ UNCHANGED <<process, shared, exclusive, tables, disk, nextId, purge, read>>

SaveUnlock(s) ==
    /\ save[s].pc = "unlock"
    /\ admission' = admission \ {s} /\ shared' = shared \ {s}
    /\ GoSave(s, "release")
    /\ UNCHANGED <<process, exclusive, tables, disk, nextId, purge, read>>

OwnsClaim(s) ==
    /\ claims[Slot(s)].status = "processing"
    /\ claims[Slot(s)].token = s

ReleaseClaim(s) ==
    /\ save[s].pc = "release"
    /\ \/ /\ claims' = IF /\ Keyed(s) /\ save[s].answer = NoAsset
                          /\ save[s].outcome # "uncertain" /\ OwnsClaim(s)
                       THEN [claims EXCEPT ![Slot(s)] = NoClaim] ELSE claims
       \/ IOFaults /\ UNCHANGED claims
    /\ GoSave(s, "done")
    /\ UNCHANGED <<process, locks, assets, intents, purges, disk, nextId, purge, read>>

-----------------------------------------------------------------------------
(* Time.  A lease lasts two minutes on the wall clock, a receipt seven days. *)
(* A request times out after ten seconds of the monotonic clock, which does  *)
(* not run while the machine is suspended: a lease may lapse under a request *)
(* still running.                                                            *)

LeaseOrReceiptExpires(slot) ==
    /\ claims[slot].status # "absent" /\ ~claims[slot].expired
    /\ claims' = [claims EXCEPT ![slot].expired = TRUE]
    /\ UNCHANGED <<process, locks, assets, intents, purges, disk, nextId, requests>>

-----------------------------------------------------------------------------
(* The library service: moving to trash, restoring.                        *)

Trash(a) ==
    /\ server = "serving" /\ assets[a].status = "live"
    /\ assets' = [assets EXCEPT ![a].status = "trashed"]
    /\ UNCHANGED <<process, locks, intents, purges, claims, disk, nextId, requests>>

Restore(a) ==
    /\ server = "serving" /\ assets[a].status = "trashed"
    /\ assets' = [assets EXCEPT ![a].status = "live"]
    /\ UNCHANGED <<process, locks, intents, purges, claims, disk, nextId, requests>>

-----------------------------------------------------------------------------
(* Permanent deletion.                                                     *)

GoPurge(p, pc) == purge' = [purge EXCEPT ![p].pc = pc]
LeavePurge(p, answer) ==
    purge' = [purge EXCEPT ![p].pc = "unlock", ![p].answer = answer]

BeginPurge(p) ==
    /\ server = "serving" /\ purge[p].pc = "idle"
    /\ \E o \in Owners, a \in 1 .. nextId - 1 :
         purge' = [purge EXCEPT ![p] = [IdlePurge EXCEPT
                     !.pc = "admission", !.owner = o, !.id = a]]
    /\ UNCHANGED <<process, locks, tables, disk, nextId, save, read>>

PurgeAdmission(p) ==
    /\ purge[p].pc = "admission" /\ AdmissionFree
    /\ admission' = admission \cup {p}
    /\ GoPurge(p, "library")
    /\ UNCHANGED <<process, shared, exclusive, tables, disk, nextId, save, read>>

PurgeLibrary(p) ==
    /\ purge[p].pc = "library" /\ ExclusiveFree
    /\ exclusive' = exclusive \cup {p}
    /\ GoPurge(p, "detach")
    /\ UNCHANGED <<process, admission, shared, tables, disk, nextId, save, read>>

(* Mutant: trash is not asked for. *)
Purgeable_Live(o, a) == Retained(a) /\ assets[a].owner = o

Purgeable(o, a) == assets[a].status = "trashed" /\ assets[a].owner = o

(* The asset's row becomes an intent; embeddings cascade.  An intent that  *)
(* is there already is taken up again.  A failed acknowledgement ends the  *)
(* request before anything is unlinked.                                    *)
Detach(p) ==
    LET a == purge[p].id
        o == purge[p].owner
        resumed == Purged(o, a) IN
    /\ purge[p].pc = "detach"
    /\ \/ /\ resumed
          /\ IF Pending(a) THEN GoPurge(p, "check") ELSE LeavePurge(p, "ok")
          /\ UNCHANGED tables
       \/ /\ ~resumed /\ Purgeable(o, a)
          /\ \E commit \in Commits :
               /\ IF commit.applied
                  THEN /\ purges' = [purges EXCEPT ![a] =
                                       [status |-> "pending", owner |-> o]]
                       /\ assets' = [assets EXCEPT ![a] = NoRow]
                       /\ intents' = intents \ {a}
                  ELSE UNCHANGED <<purges, assets, intents>>
               /\ IF commit.acked THEN GoPurge(p, "check")
                                  ELSE LeavePurge(p, "incomplete")
          /\ UNCHANGED claims
       \/ /\ ~resumed /\ ~Purgeable(o, a)
          /\ LeavePurge(p, "refused") /\ UNCHANGED tables
    /\ UNCHANGED <<process, locks, disk, nextId, save, read>>

(* finishPurge, shared by a deletion request and the start of the service. *)
Interrupted(p) == LeavePurge(p, "incomplete")

CheckReferenced(p) ==
    /\ purge[p].pc = "check"
    /\ IF Retained(purge[p].id) THEN Interrupted(p) ELSE GoPurge(p, "original")
    /\ UNCHANGED <<process, locks, tables, disk, nextId, save, read>>

Unlink(p, part, next) ==
    /\ purge[p].pc = part
    /\ \/ /\ files' = files \ {<<purge[p].id, part>>}
          /\ GoPurge(p, next) \/ (IOFaults /\ Interrupted(p))
       \/ IOFaults /\ UNCHANGED files /\ Interrupted(p)
    /\ UNCHANGED <<process, locks, tables, spools, nextId, save, read>>

(* Mutant: the poster is forgotten. *)
UnlinkOriginal_ThenComplete(p) == Unlink(p, "original", "complete")

UnlinkOriginal(p) == Unlink(p, "original", "poster")
UnlinkPoster(p) == Unlink(p, "poster", "complete")

(* Mutant: the intent is deleted with its work. *)
Tombstone_Deleted(row) == NoPurge

(* The intent stays behind as a tombstone and is charged no longer. *)
Tombstone(row) == [row EXCEPT !.status = "completed"]

CompletePurge(p) ==
    /\ purge[p].pc = "complete"
    /\ \/ /\ purges' = [purges EXCEPT ![purge[p].id] = Tombstone(@)]
          /\ LeavePurge(p, "ok")
       \/ IOFaults /\ UNCHANGED purges /\ Interrupted(p)
    /\ UNCHANGED <<process, locks, assets, intents, claims, disk, nextId, save, read>>

(* The caller's context ends while it waits for a lock or between unlinks. *)
AbandonPurge(p) ==
    /\ purge[p].pc \in {"admission", "library", "detach", "check", "original", "poster",
                       "complete"}
    /\ LeavePurge(p, "incomplete")
    /\ UNCHANGED <<process, locks, tables, disk, nextId, save, read>>

PurgeUnlock(p) ==
    /\ purge[p].pc = "unlock"
    /\ admission' = admission \ {p} /\ exclusive' = exclusive \ {p}
    /\ GoPurge(p, "done")
    /\ UNCHANGED <<process, shared, tables, disk, nextId, save, read>>

-----------------------------------------------------------------------------
(* The start of the service, and its crashes.                              *)

(* Both locks are taken, then the spools that crashed saves left are removed. *)
StartServer ==
    /\ server = "down" /\ AdmissionFree /\ ExclusiveFree
    /\ server' = "booting"
    /\ admission' = admission \cup {Boot} /\ exclusive' = exclusive \cup {Boot}
    /\ spools' = {}
    /\ UNCHANGED <<crashes, shared, tables, files, nextId, requests>>

ResumePurge ==
    /\ server = "booting" /\ purge[Boot].pc = "idle"
    /\ \E a \in Ids :
         /\ Pending(a)
         /\ purge' = [purge EXCEPT ![Boot] = [IdlePurge EXCEPT
                        !.pc = "check", !.owner = purges[a].owner, !.id = a]]
    /\ UNCHANGED <<process, locks, tables, disk, nextId, save, read>>

(* One intent is settled: the next one, or the service gives up starting. *)
Resumed ==
    /\ server = "booting" /\ purge[Boot].pc = "unlock"
    /\ purge' = [purge EXCEPT ![Boot] = IdlePurge]
    /\ IF purge[Boot].answer = "ok"
       THEN UNCHANGED <<server, admission, exclusive>>
       ELSE /\ server' = "down"
            /\ admission' = admission \ {Boot} /\ exclusive' = exclusive \ {Boot}
    /\ UNCHANGED <<crashes, shared, tables, disk, nextId, save, read>>

(* Mutant: the service opens with intents still pending. *)
AllSettled_Unread == TRUE

AllSettled == \A a \in Ids : ~Pending(a)

Serve ==
    /\ server = "booting" /\ purge[Boot].pc = "idle" /\ AllSettled
    /\ server' = "serving"
    /\ admission' = admission \ {Boot} /\ exclusive' = exclusive \ {Boot}
    /\ UNCHANGED <<crashes, shared, tables, disk, nextId, requests>>

Ended == {"idle", "done", "lost"}

(* Requests of the process end, its locks are released; a backup is a       *)
(* process of its own.  Tables and files stay as they are.                  *)
Crash ==
    /\ server # "down" /\ crashes < MaxCrashes
    /\ server' = "down" /\ crashes' = crashes + 1
    /\ save' = [s \in Savers |-> IF save[s].pc \in Ended THEN save[s]
                                 ELSE [save[s] EXCEPT !.pc = "lost", !.answer = NoAsset]]
    /\ purge' = [p \in Purging |-> IF p = Boot THEN IdlePurge
                                   ELSE IF purge[p].pc \in Ended THEN purge[p]
                                   ELSE [purge[p] EXCEPT !.pc = "lost"]]
    /\ read' = [r \in Readers |-> IF read[r].kind = "open"
                                  THEN [read[r] EXCEPT !.pc = "done"] ELSE read[r]]
    /\ admission' = {} /\ exclusive' = {}
    /\ shared' = {r \in shared \cap Readers : read[r].kind = "backup"}
    /\ UNCHANGED <<tables, disk, nextId>>

-----------------------------------------------------------------------------
(* Readers hold the shared lock from the rows they read to the last file.  *)

LockRead(r, kind) ==
    /\ read[r].pc = "idle" /\ SharedFree
    /\ shared' = shared \cup {r}
    /\ read' = [read EXCEPT ![r].pc = "locked", ![r].kind = kind]
    /\ UNCHANGED <<process, admission, exclusive, tables, disk, nextId, save, purge>>

LockOpen(r) == server = "serving" /\ LockRead(r, "open")
LockBackup(r) == LockRead(r, "backup")

Reads(r, wanted) ==
    /\ read' = [read EXCEPT ![r].pc = "copying", ![r].wanted = wanted]
    /\ UNCHANGED <<process, locks, tables, disk, nextId, save, purge>>

(* OpenMedia reads one row. *)
ReadRow(r) ==
    /\ read[r].pc = "locked" /\ read[r].kind = "open"
    /\ \E a \in Ids : Retained(a) /\ Reads(r, {a})

(* A backup freezes the whole database. *)
SnapshotRows(r) ==
    /\ read[r].pc = "locked" /\ read[r].kind = "backup"
    /\ Reads(r, {a \in Ids : Retained(a)})

(* The files are copied or opened, the row is not found, or the reader fails. *)
EndRead(r) ==
    /\ read[r].pc \in {"locked", "copying"}
    /\ read' = [read EXCEPT ![r].pc = "done"]
    /\ shared' = shared \ {r}
    /\ UNCHANGED <<process, admission, exclusive, tables, disk, nextId, save, purge>>

-----------------------------------------------------------------------------
(* The server runs and no request is in flight: nothing need happen.       *)
Quiescent ==
    /\ server = "serving"
    /\ \A s \in Savers : save[s].pc \in Ended
    /\ \A p \in Purgers : purge[p].pc \in Ended
    /\ \A r \in Readers : read[r].pc \in Ended
    /\ UNCHANGED vars

SaveStep(s) ==
    \/ ReadReceipt(s) \/ Replay(s)
    \/ SaveAdmission(s) \/ SaveLibrary(s) \/ Spool(s) \/ EarlyTransaction(s)
    \/ Prepare(s) \/ PutOriginal(s) \/ PutPoster(s) \/ FinalTransaction(s)
    \/ Cleanup(s) \/ SaveUnlock(s) \/ ReleaseClaim(s)

FinishStep(p) == CheckReferenced(p) \/ UnlinkOriginal(p) \/ UnlinkPoster(p) \/ CompletePurge(p)
PurgeStep(p) == PurgeAdmission(p) \/ PurgeLibrary(p) \/ Detach(p) \/ FinishStep(p) \/ PurgeUnlock(p)
BootStep == StartServer \/ ResumePurge \/ FinishStep(Boot) \/ Resumed \/ Serve
ReadStep(r) == ReadRow(r) \/ SnapshotRows(r)

Next ==
    \/ \E s \in Savers : AcceptUnkeyed(s) \/ Claim(s) \/ SaveStep(s) \/ Refuse(s)
    \/ \E slot \in Owners \X Keys : LeaseOrReceiptExpires(slot)
    \/ \E a \in Ids : Trash(a) \/ Restore(a)
    \/ \E p \in Purgers : BeginPurge(p) \/ PurgeStep(p) \/ AbandonPurge(p)
    \/ \E r \in Readers : LockOpen(r) \/ LockBackup(r) \/ ReadStep(r) \/ EndRead(r)
    \/ BootStep \/ Crash
    \/ Quiescent

Spec == Init /\ [][Next]_vars

(* Requests already accepted, the start of the service and readers make    *)
(* progress.  Nobody has to ask for anything, time out, crash or expire.   *)
FairSpec ==
    /\ Spec
    /\ \A s \in Savers : WF_vars(SaveStep(s))
    /\ \A p \in Purgers : WF_vars(PurgeStep(p))
    /\ \A r \in Readers : WF_vars(EndRead(r))
    /\ WF_vars(BootStep)

-----------------------------------------------------------------------------
(* What the save boundary promises.                                        *)

(* An asset's row, its original, its poster and its indexing intent are     *)
(* owned together: no crash, lost acknowledgement, cleanup or deletion      *)
(* leaves a retained asset without one of them.                             *)
SavedWhole == \A a \in Ids : Retained(a) => Media(a) \subseteq files /\ a \in intents

(* A save that was answered with an asset is never lost: its owner still    *)
(* retains that asset, or purged it.                                        *)
AcknowledgedNeverLost ==
    \A s \in Savers :
        LET a == save[s].answer IN
        a # NoAsset => \/ Retained(a) /\ assets[a].owner = save[s].owner
                       \/ Purged(save[s].owner, a)

(* A completed receipt names an asset its owner retains or is known to have *)
(* purged, so that a replay can tell the two apart.                         *)
ReceiptsResolve ==
    \A slot \in Owners \X Keys :
        LET a == claims[slot].receipt IN
        claims[slot].status = "completed" =>
            \/ Retained(a) /\ assets[a].owner = slot[1]
            \/ Purged(slot[1], a)

(* A request that begins after an asset was detached for deletion is never  *)
(* answered with that asset, whatever receipt it finds.                     *)
PurgedNeverAnswered ==
    \A s \in Savers : save[s].pc = "done" => save[s].answer \notin save[s].gone

(* What is retained, and what is still on disk of what was detached, stays  *)
(* within the operator's limit.                                             *)
RetainedWithinLimit ==
    Limit # 0 =>
        Cardinality({a \in Ids : \/ Retained(a)
                                 \/ /\ purges[a].status # "absent"
                                    /\ Media(a) \cap files # {}}) <= Limit

(* A finished deletion left no byte behind: its charge is released last.    *)
CompletedPurgeReclaimed ==
    \A a \in Ids : purges[a].status = "completed" => Media(a) \cap files = {}

(* While a reader holds the shared lock no file of the rows it read goes.   *)
ReadersKeepTheirMedia ==
    \A r \in Readers : read[r].pc = "copying" =>
        \A a \in read[r].wanted : Media(a) \subseteq files

(* A file that neither an asset nor a pending deletion accounts for is being *)
(* staged, or was left by a crash or by a commit whose outcome is unknown.   *)
LeftoversExplained ==
    \A f \in files :
        \/ Retained(f[1]) \/ Pending(f[1])
        \/ \E s \in Savers :
              /\ save[s].id = f[1]
              /\ \/ save[s].pc \notin {"unlock", "release", "done"}
                 \/ save[s].outcome = "uncertain"

(* A retained receipt never changes and is never withdrawn before it expires *)
(* (fenced claims, and the release of a failed request's own claim only).    *)
ReceiptIsFinal ==
    [][\A slot \in Owners \X Keys :
         claims[slot].status = "completed" /\ ~claims[slot].expired =>
             claims'[slot] \in {claims[slot], [claims[slot] EXCEPT !.expired = TRUE]}]_claims

(* Every accepted save and every accepted deletion ends although locks are   *)
(* polled and never queued for: none holds what another waits for.           *)
RequestsSettle ==
    /\ \A s \in Savers : save[s].pc # "idle" ~> save[s].pc \in {"done", "lost"}
    /\ \A p \in Purgers : purge[p].pc # "idle" ~> purge[p].pc \in {"done", "lost"}

(* A deletion that a crash interrupted is finished by the next start. *)
InterruptedPurgeResumes ==
    \A a \in Ids : Pending(a) /\ server = "down" ~> purges[a].status = "completed"
=============================================================================
