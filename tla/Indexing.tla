------------------------------ MODULE Indexing ------------------------------
(***************************************************************************)
(* The durable indexing queue (apps/server/internal/embedding/worker.go):   *)
(* a row of asset_embeddings for every retained asset, claimed under a      *)
(* lease by the executor of a server process, computed outside any          *)
(* transaction, and settled by an update fenced with the claim's token.     *)
(* Several executors stand for server processes whose lives overlap on one  *)
(* library.  Every transaction is one step.                                 *)
(***************************************************************************)
EXTENDS Naturals

CONSTANTS
    MaxAssets,      (* bound: assets, numbered in the order they were created *)
    Executors,      (* server processes that index                            *)
    None,           (* no claim                                               *)
    Versions,       (* model versions, positive                               *)
    MaxAttempts,    (* maxAttempts                                            *)
    MaxStops,       (* bound: crashes and stops of server processes           *)
    MaxRetries,     (* bound: explicit retries by owners                      *)
    MaxRestores     (* bound: times the library is restored from a snapshot   *)

ASSUME IndexingAssumption ==
    /\ MaxAssets \in Nat /\ MaxAttempts \in Nat \ {0}
    /\ MaxStops \in Nat /\ MaxRetries \in Nat /\ MaxRestores \in Nat
    /\ Versions \subseteq Nat \ {0}
    /\ None \notin Executors

VARIABLES
    media,      (* what became of each asset                                  *)
    rows,       (* table asset_embeddings                                     *)
    exec,       (* the executor of each process                               *)
    stops, retries, restores,
    work,       (* history: inferences begun on an asset in this cycle        *)
    overlapped  (* history: whether two processes ever indexed at once        *)

counters == <<stops, retries, restores>>
vars == <<media, rows, exec, counters, work, overlapped>>

Assets == 1 .. MaxAssets
NoVersion == 0
NoAsset == 0

(* A claim's token is the executor that took it: an executor has one claim  *)
(* at a time, and a row keeps the token of the last claim only.             *)
Row == [status : {"none", "pending", "processing", "ready", "failed"},
        attempts : 0 .. MaxAttempts, token : Executors \cup {None},
        lapsed : BOOLEAN, cooling : BOOLEAN, version : Versions \cup {NoVersion}]
NoRow == [status |-> "none", attempts |-> 0, token |-> None,
          lapsed |-> FALSE, cooling |-> FALSE, version |-> NoVersion]
Fresh == [NoRow EXCEPT !.status = "pending"]

Exec == [pc : {"off", "idle", "infer", "complete", "fail"},
         version : Versions \cup {NoVersion}, asset : Assets \cup {NoAsset},
         attempts : 0 .. MaxAttempts]
Off == [pc |-> "off", version |-> NoVersion, asset |-> NoAsset, attempts |-> 0]

(* Types of the variables. *)
TypeOK ==
    /\ media \in [Assets -> {"none", "live", "trashed", "purged"}]
    /\ rows \in [Assets -> Row]
    /\ exec \in [Executors -> Exec]
    /\ stops \in 0 .. MaxStops
    /\ retries \in 0 .. MaxRetries
    /\ restores \in 0 .. MaxRestores
    /\ work \in [Assets -> Nat]
    /\ overlapped \in BOOLEAN

Init ==
    /\ media = [a \in Assets |-> "none"]
    /\ rows = [a \in Assets |-> NoRow]
    /\ exec = [e \in Executors |-> Off]
    /\ stops = 0 /\ retries = 0 /\ restores = 0
    /\ work = [a \in Assets |-> 0]
    /\ overlapped = FALSE

Retained(a) == media[a] \in {"live", "trashed"}

-----------------------------------------------------------------------------
(* The library, as far as the queue sees it.                               *)

Save(a) ==
    /\ media[a] = "none" /\ \A b \in 1 .. a - 1 : media[b] # "none"
    /\ media' = [media EXCEPT ![a] = "live"]
    /\ rows' = [rows EXCEPT ![a] = Fresh]
    /\ UNCHANGED <<exec, counters, work, overlapped>>

Trash(a) ==
    /\ media[a] = "live"
    /\ media' = [media EXCEPT ![a] = "trashed"]
    /\ UNCHANGED <<rows, exec, counters, work, overlapped>>

Restore(a) ==
    /\ media[a] = "trashed"
    /\ media' = [media EXCEPT ![a] = "live"]
    /\ UNCHANGED <<rows, exec, counters, work, overlapped>>

(* The row goes with its asset. *)
Purge(a) ==
    /\ media[a] = "trashed"
    /\ media' = [media EXCEPT ![a] = "purged"]
    /\ rows' = [rows EXCEPT ![a] = NoRow]
    /\ UNCHANGED <<exec, counters, work, overlapped>>

-----------------------------------------------------------------------------
(* A process starts: rows that are missing are added, and results of        *)
(* another model are discarded, except under a claim.                       *)

(* Mutant: only live assets are looked at. *)
Rearmed_TrashSkipped(v, a) ==
    /\ rows[a].status \notin {"none", "processing"} /\ media[a] = "live"
    /\ rows[a].version \notin {NoVersion, v}

(* A result, or an interrupted row, of another model. *)
Rearmed(v, a) ==
    /\ rows[a].status \notin {"none", "processing"}
    /\ rows[a].version \notin {NoVersion, v}

Prepared(v, a) ==
    IF rows[a].status = "none" /\ Retained(a) THEN Fresh
    ELSE IF Rearmed(v, a) THEN [Fresh EXCEPT !.version = v]
    ELSE rows[a]

Start(e) ==
    /\ exec[e].pc = "off"
    /\ \E v \in Versions :
         /\ exec' = [exec EXCEPT ![e] = [Off EXCEPT !.pc = "idle", !.version = v]]
         /\ rows' = [a \in Assets |-> Prepared(v, a)]
         /\ work' = [a \in Assets |-> IF Rearmed(v, a) THEN 0 ELSE work[a]]
    /\ overlapped' = (overlapped \/ \E d \in Executors : exec[d].pc # "off")
    /\ UNCHANGED <<media, counters>>

(* A crash, or a process that stops between two claims. *)
Stop(e) ==
    /\ exec[e].pc # "off" /\ stops < MaxStops
    /\ stops' = stops + 1
    /\ exec' = [exec EXCEPT ![e] = Off]
    /\ UNCHANGED <<media, rows, retries, restores, work, overlapped>>

-----------------------------------------------------------------------------
(* The executor.                                                           *)

(* Mutant: a recovered claim gets its attempts back. *)
Recovered_Replenished(row) ==
    IF row.status = "processing" /\ row.lapsed
    THEN [row EXCEPT !.status = "pending", !.token = None, !.lapsed = FALSE, !.attempts = 0]
    ELSE row

(* Mutant: a lapsed claim stays where it is. *)
Recovered_Never(row) == row

(* A lapsed claim is given back, or given up if it was the last attempt. *)
Recovered(row) ==
    IF row.status = "processing" /\ row.lapsed
    THEN [row EXCEPT !.status = IF row.attempts >= MaxAttempts THEN "failed" ELSE "pending",
                     !.token = None, !.lapsed = FALSE]
    ELSE row

Claimable(row, a) ==
    /\ media[a] = "live"
    /\ row.status = "pending" /\ row.attempts < MaxAttempts /\ ~row.cooling

(* claimNext commits recovery and the oldest claimable row together.  If    *)
(* the commit is applied but not acknowledged nobody works on the claim; a  *)
(* transaction rolled back changes nothing and is tried again.              *)
ClaimNext(e) ==
    LET found == [a \in Assets |-> Recovered(rows[a])]
        due == {a \in Assets : Claimable(found[a], a)} IN
    /\ exec[e].pc = "idle"
    /\ \/ /\ due = {}
          /\ rows' = found /\ UNCHANGED <<exec, work>>
       \/ \E a \in due, acked \in BOOLEAN :
            /\ \A b \in due : a <= b
            /\ rows' = [found EXCEPT ![a] =
                 [status |-> "processing", attempts |-> @.attempts + 1, token |-> e,
                  lapsed |-> FALSE, cooling |-> FALSE, version |-> exec[e].version]]
            /\ IF acked
               THEN /\ exec' = [exec EXCEPT ![e].pc = "infer", ![e].asset = a,
                                            ![e].attempts = rows'[a].attempts]
                    /\ work' = [work EXCEPT ![a] = @ + 1]
               ELSE UNCHANGED <<exec, work>>
    /\ UNCHANGED <<media, counters, overlapped>>

(* The engine answers with a vector, fails, times out or is unavailable. *)
Infer(e) ==
    /\ exec[e].pc = "infer"
    /\ \E result \in {"complete", "fail"} : exec' = [exec EXCEPT ![e].pc = result]
    /\ UNCHANGED <<media, rows, counters, work, overlapped>>

(* Mutants: whatever the row has become; or whoever claimed it. *)
Holds_Unfenced(e) == rows[exec[e].asset].status # "none"
Holds_AnyClaim(e) == rows[exec[e].asset].status = "processing"

(* Only the claim's own row may be settled. *)
Holds(e) ==
    /\ rows[exec[e].asset].status = "processing"
    /\ rows[exec[e].asset].token = e

Settled(e, row) == rows' = [rows EXCEPT ![exec[e].asset] = row]
BackToIdle(e) ==
    exec' = [exec EXCEPT ![e].pc = "idle", ![e].asset = NoAsset, ![e].attempts = 0]

(* The update may find nothing to change, or fail; either way it is left to  *)
(* the lease.                                                                *)
Complete(e) ==
    /\ exec[e].pc = "complete"
    /\ \/ /\ Holds(e) /\ media[exec[e].asset] = "live"
          /\ Settled(e, [rows[exec[e].asset] EXCEPT !.status = "ready", !.token = None,
                           !.lapsed = FALSE, !.cooling = FALSE, !.version = exec[e].version])
       \/ UNCHANGED rows
    /\ BackToIdle(e)
    /\ UNCHANGED <<media, counters, work, overlapped>>

GivesUp(attempts) == attempts >= MaxAttempts

Fail(e) ==
    /\ exec[e].pc = "fail"
    /\ \/ /\ Holds(e)
          /\ Settled(e, [rows[exec[e].asset] EXCEPT
                !.status = IF GivesUp(exec[e].attempts) THEN "failed" ELSE "pending",
                !.token = None, !.lapsed = FALSE,
                !.cooling = ~GivesUp(exec[e].attempts)])
       \/ UNCHANGED rows
    /\ BackToIdle(e)
    /\ UNCHANGED <<media, counters, work, overlapped>>

-----------------------------------------------------------------------------
(* An owner asks for another cycle, through any process that has an engine. *)

Refused(v, row) ==
    \/ row.status = "ready" /\ row.version = v
    \/ row.status = "processing" /\ ~row.lapsed
    \/ row.cooling

Exhausted(row) == row.status \in {"failed", "ready"} \/ row.attempts >= MaxAttempts

Again(v, row) ==
    IF row.status = "none" THEN Fresh
    ELSE [Fresh EXCEPT !.version = v,
                       !.attempts = IF Exhausted(row) THEN 0 ELSE row.attempts]

Retry(a) ==
    /\ media[a] = "live" /\ retries < MaxRetries
    /\ \E e \in Executors :
         /\ exec[e].pc # "off" /\ ~Refused(exec[e].version, rows[a])
         /\ rows' = [rows EXCEPT ![a] = Again(exec[e].version, rows[a])]
    /\ retries' = retries + 1
    /\ work' = [work EXCEPT ![a] = IF Exhausted(rows[a]) THEN 0 ELSE @]
    /\ UNCHANGED <<media, exec, stops, restores, overlapped>>

-----------------------------------------------------------------------------
(* Time, and portable snapshots.                                           *)

LeaseLapses(a) ==
    /\ rows[a].status = "processing" /\ ~rows[a].lapsed
    /\ rows' = [rows EXCEPT ![a].lapsed = TRUE]
    /\ UNCHANGED <<media, exec, counters, work, overlapped>>

CooldownEnds(a) ==
    /\ rows[a].cooling
    /\ rows' = [rows EXCEPT ![a].cooling = FALSE]
    /\ UNCHANGED <<media, exec, counters, work, overlapped>>

(* sanitizeDatabase: claims of the source's process mean nothing elsewhere. *)
Sanitized(row) ==
    IF row.status = "processing"
    THEN [row EXCEPT !.status = "pending", !.token = None, !.lapsed = FALSE, !.cooling = FALSE]
    ELSE row

(* The library continues from a snapshot, in new processes. *)
RestoreSnapshot ==
    /\ restores < MaxRestores
    /\ restores' = restores + 1
    /\ rows' = [a \in Assets |-> Sanitized(rows[a])]
    /\ exec' = [e \in Executors |-> Off]
    /\ UNCHANGED <<media, stops, retries, work, overlapped>>

-----------------------------------------------------------------------------
Step(e) == ClaimNext(e) \/ Infer(e) \/ Complete(e) \/ Fail(e)

Next ==
    \/ \E a \in Assets : \/ Save(a) \/ Trash(a) \/ Restore(a) \/ Purge(a) \/ Retry(a)
                         \/ LeaseLapses(a) \/ CooldownEnds(a)
    \/ \E e \in Executors : Start(e) \/ Stop(e) \/ Step(e)
    \/ RestoreSnapshot

Spec == Init /\ [][Next]_vars

(* The executor loops, clocks run, and a process that stopped is started    *)
(* again.  Nobody has to save, retry, trash or restore anything.            *)
FairSpec ==
    /\ Spec
    /\ \A e \in Executors : WF_vars(Step(e)) /\ WF_vars(Start(e))
    /\ \A a \in Assets : WF_vars(LeaseLapses(a)) /\ WF_vars(CooldownEnds(a))

-----------------------------------------------------------------------------
(* Automatic work is finite: crashes, lost acknowledgements, lapsed leases   *)
(* and restored snapshots never buy an asset more than MaxAttempts           *)
(* inferences, until its owner or a new model asks for another cycle.        *)
BoundedWork == \A a \in Assets : Retained(a) => work[a] <= MaxAttempts

(* An interrupted final attempt becomes failed: a row that waits can still   *)
(* be claimed.                                                               *)
WaitingIsClaimable == \A a \in Assets : rows[a].status = "pending" => rows[a].attempts < MaxAttempts

(* An executor that is alone with the library never runs over results of     *)
(* another model, whichever versions wrote to the library before.            *)
NoMixedVectors ==
    ~overlapped =>
        \A e \in Executors : \A a \in Assets :
            exec[e].pc # "off" /\ rows[a].status = "ready" => rows[a].version = exec[e].version

(* A result that was reached is never undone by an executor, however late:   *)
(* it takes another cycle, or the asset's deletion.                          *)
ResultsAreFinal ==
    [][\A a \in Assets :
         rows[a].status \in {"ready", "failed"} =>
             \/ rows'[a] = rows[a]
             \/ rows'[a].status = "none"
             \/ rows'[a].status = "pending" /\ work'[a] = 0]_vars

(* While a lease runs nobody but its holder settles the claim, unless the     *)
(* asset is deleted or the library restored.                                  *)
LeaseHonoured ==
    [][\A a \in Assets :
         rows[a].status = "processing" /\ ~rows[a].lapsed /\ rows'[a].token # rows[a].token =>
             \/ rows'[a].status = "none"
             \/ restores' # restores
             \/ exec[rows[a].token].asset = a /\ exec'[rows[a].token].pc = "idle"]_vars

(* An asset that stays live is in the end searchable, or failed and open to   *)
(* a retry, in a library that was not restored from a snapshot.               *)
EveryAssetSettles ==
    \A a \in Assets : rows[a].status \in {"pending", "processing"}
        ~> \/ rows[a].status \in {"ready", "failed"}
           \/ media[a] # "live" \/ restores # 0
=============================================================================
