---------------------------- MODULE IndexingProofs ----------------------------
(***************************************************************************)
(* Theorems about the indexing queue, for any number of assets, executors,  *)
(* model versions and attempts, with any number of crashes, retries and     *)
(* restored snapshots.                                                      *)
(***************************************************************************)
EXTENDS Indexing, TLAPS

Working == {"infer", "complete", "fail"}
Media == {"none", "live", "trashed", "purged"}
Kept == {"live", "trashed"}

(* A retained asset has a row, whose attempts cover the inferences begun;   *)
(* only a row that waits cools down; a result has a version.                *)
RowGood(r, m, w) ==
    /\ r.status = "none" <=> m \notin Kept
    /\ m = "none" => w = 0
    /\ m \in Kept => w <= r.attempts
    /\ r.cooling => r.status = "pending"
    /\ r.status = "ready" => r.version # NoVersion

ExecGood(x) ==
    /\ x.pc # "off" => x.version \in Versions
    /\ x.pc \in Working => x.asset \in Assets

(* Until two processes overlap there is one executor.                       *)
Sole == ~overlapped => \A d, e \in Executors : exec[d].pc # "off" /\ exec[e].pc # "off" => d = e

IndexInv ==
    /\ TypeOK
    /\ \A a \in Assets : RowGood(rows[a], media[a], work[a])
    /\ \A e \in Executors : ExecGood(exec[e])
    /\ Sole /\ NoMixedVectors
-----------------------------------------------------------------------------
(* What the helpers do to one row.                                          *)

LEMMA FreshRow ==
    /\ NoRow \in Row /\ Fresh \in Row /\ Off \in Exec
    /\ \A v \in Versions : [Off EXCEPT !.pc = "idle", !.version = v] \in Exec
<1>0. 0 \in 0 .. MaxAttempts
  BY IndexingAssumption
<1>1. NoRow \in Row
  BY <1>0 DEF NoRow, Row, NoVersion
<1>2. Fresh \in Row
  BY <1>1 DEF Fresh, Row
<1>3. Off \in Exec
  BY <1>0 DEF Off, Exec, NoVersion, NoAsset
<1>4. \A v \in Versions : [Off EXCEPT !.pc = "idle", !.version = v] \in Exec
  BY <1>3 DEF Exec
<1> QED BY <1>1, <1>2, <1>3, <1>4

LEMMA RecoveredRow ==
    ASSUME NEW r \in Row
    PROVE  /\ Recovered(r) \in Row
           /\ Recovered(r).attempts = r.attempts /\ Recovered(r).version = r.version
           /\ Recovered(r).cooling = r.cooling
           /\ \/ Recovered(r) = r
              \/ /\ r.status = "processing" /\ r.lapsed
                 /\ Recovered(r).status \in {"failed", "pending"}
<1>1. CASE r.status = "processing" /\ r.lapsed
  <2> DEFINE st == IF r.attempts >= MaxAttempts THEN "failed" ELSE "pending"
             x == [r EXCEPT !.status = st, !.token = None, !.lapsed = FALSE]
  <2>1. Recovered(r) = x
    BY <1>1 DEF Recovered
  <2>2. st \in {"failed", "pending"}
    OBVIOUS
  <2> HIDE DEF st
  <2>3. x \in Row /\ x.attempts = r.attempts /\ x.version = r.version /\ x.cooling = r.cooling
        /\ x.status = st
    BY <2>2 DEF Row
  <2> QED BY <1>1, <2>1, <2>2, <2>3
<1>2. CASE ~(r.status = "processing" /\ r.lapsed)
  BY <1>2 DEF Recovered
<1> QED BY <1>1, <1>2

LEMMA SanitizedRow ==
    ASSUME NEW r \in Row
    PROVE  /\ Sanitized(r) \in Row
           /\ Sanitized(r).attempts = r.attempts /\ Sanitized(r).version = r.version
           /\ Sanitized(r) = r \/ (r.status = "processing" /\ Sanitized(r).status = "pending")
<1> DEFINE x == [r EXCEPT !.status = "pending", !.token = None, !.lapsed = FALSE, !.cooling = FALSE]
<1>1. x \in Row /\ x.attempts = r.attempts /\ x.version = r.version /\ x.status = "pending"
  BY DEF Row
<1> QED BY <1>1 DEF Sanitized

LEMMA FreshFacts ==
    /\ Fresh.status = "pending" /\ Fresh.attempts = 0 /\ ~Fresh.cooling
    /\ NoRow.status = "none" /\ NoRow.attempts = 0 /\ ~NoRow.cooling
    /\ Off.pc = "off"
  BY DEF Fresh, NoRow, Off

LEMMA RearmedRow ==
    ASSUME NEW v \in Versions
    PROVE  LET x == [Fresh EXCEPT !.version = v]
           IN  x \in Row /\ x.status = "pending" /\ x.attempts = 0 /\ ~x.cooling /\ x.version = v
<1> DEFINE x == [Fresh EXCEPT !.version = v]
<1>1. x \in Row
  BY FreshRow DEF Row
<1>2. x.status = "pending" /\ x.attempts = 0 /\ ~x.cooling /\ x.version = v
  BY FreshRow, FreshFacts DEF Row
<1> QED BY <1>1, <1>2
-----------------------------------------------------------------------------
(* A step that leaves the executors on and off as they are keeps the        *)
(* invariant if every row stays good and a new result is of an executor.    *)
LEMMA StepKeeps ==
    ASSUME IndexInv,
           media' \in [Assets -> Media], rows' \in [Assets -> Row], exec' \in [Executors -> Exec],
           stops' \in 0 .. MaxStops, retries' \in 0 .. MaxRetries, restores' \in 0 .. MaxRestores,
           work' \in [Assets -> Nat], overlapped' = overlapped,
           \A a \in Assets : RowGood(rows'[a], media'[a], work'[a]),
           \A e \in Executors : /\ ExecGood(exec'[e])
                                /\ exec'[e].pc # "off" =>
                                      exec[e].pc # "off" /\ exec'[e].version = exec[e].version,
           \A a \in Assets : rows'[a].status = "ready" =>
               \/ rows[a].status = "ready" /\ rows'[a].version = rows[a].version
               \/ \E e \in Executors : exec[e].pc # "off" /\ rows'[a].version = exec[e].version
    PROVE  IndexInv'
<1> USE DEF IndexInv
<1>1. TypeOK'
  BY DEF TypeOK, Media
<1>2. Sole'
  BY DEF Sole
<1>3. NoMixedVectors'
  <2>1. SUFFICES ASSUME ~overlapped, NEW e \in Executors, NEW a \in Assets,
                        exec'[e].pc # "off", rows'[a].status = "ready"
                 PROVE  rows'[a].version = exec'[e].version
    BY DEF NoMixedVectors
  <2>2. exec[e].pc # "off" /\ exec'[e].version = exec[e].version
    BY <2>1
  <2>3. CASE rows[a].status = "ready" /\ rows'[a].version = rows[a].version
    BY <2>1, <2>2, <2>3 DEF NoMixedVectors
  <2>4. CASE \E d \in Executors : exec[d].pc # "off" /\ rows'[a].version = exec[d].version
    BY <2>1, <2>2, <2>4 DEF Sole
  <2> QED BY <2>1, <2>3, <2>4
<1> QED BY <1>1, <1>2, <1>3

(* The steps that concern one asset and no executor.                        *)
LEMMA AssetSteps ==
    ASSUME IndexInv, NEW a \in Assets,
           \/ Save(a) \/ Trash(a) \/ Restore(a) \/ Purge(a) \/ Retry(a)
           \/ LeaseLapses(a) \/ CooldownEnds(a)
    PROVE  IndexInv'
<1> USE DEF IndexInv
<1>0. /\ media \in [Assets -> Media] /\ rows \in [Assets -> Row] /\ exec \in [Executors -> Exec]
      /\ work \in [Assets -> Nat] /\ stops \in 0 .. MaxStops /\ retries \in 0 .. MaxRetries
      /\ restores \in 0 .. MaxRestores
      /\ \A b \in Assets : RowGood(rows[b], media[b], work[b])
      /\ \A e \in Executors : ExecGood(exec[e])
      /\ NoRow \in Row /\ Fresh \in Row /\ rows[a] \in Row /\ work[a] \in Nat /\ media[a] \in Media
  BY FreshRow DEF TypeOK, Media
<1>1. ASSUME NEW m \in Media, NEW r \in Row, NEW w \in Nat,
             media' = [media EXCEPT ![a] = m], rows' = [rows EXCEPT ![a] = r],
             work' = [work EXCEPT ![a] = w], UNCHANGED <<exec, overlapped>>,
             stops' \in 0 .. MaxStops, retries' \in 0 .. MaxRetries, restores' \in 0 .. MaxRestores,
             RowGood(r, m, w),
             r.status = "ready" => rows[a].status = "ready" /\ r.version = rows[a].version
      PROVE  IndexInv'
  <2>1. /\ media' \in [Assets -> Media] /\ rows' \in [Assets -> Row] /\ work' \in [Assets -> Nat]
        /\ media'[a] = m /\ rows'[a] = r /\ work'[a] = w
        /\ \A b \in Assets : b # a => media'[b] = media[b] /\ rows'[b] = rows[b] /\ work'[b] = work[b]
    BY <1>0, <1>1
  <2>2. \A b \in Assets : RowGood(rows'[b], media'[b], work'[b])
    BY <1>0, <1>1, <2>1
  <2> QED BY <1>0, <1>1, <2>1, <2>2, StepKeeps
<1>2. media = [media EXCEPT ![a] = media[a]] /\ rows = [rows EXCEPT ![a] = rows[a]]
      /\ work = [work EXCEPT ![a] = work[a]]
  BY <1>0
<1>3. RowGood(rows[a], media[a], work[a])
  BY <1>0
<1>4. CASE Save(a)
  <2>1. /\ media' = [media EXCEPT ![a] = "live"] /\ rows' = [rows EXCEPT ![a] = Fresh] /\ work' = work
        /\ media[a] = "none" /\ UNCHANGED <<exec, counters, overlapped>>
    BY <1>4 DEF Save
  <2>2. RowGood(Fresh, "live", work[a])
    BY <1>3, <2>1, FreshFacts DEF RowGood, Kept
  <2> QED BY <1>0, <1>1, <1>2, <2>1, <2>2, FreshFacts DEF Media, counters
<1>5. CASE Trash(a) \/ Restore(a)
  <2>1. PICK m \in Kept : media' = [media EXCEPT ![a] = m]
    BY <1>5 DEF Trash, Restore, Kept
  <2>2. media[a] \in Kept /\ UNCHANGED <<rows, exec, counters, work, overlapped>>
    BY <1>5 DEF Trash, Restore, Kept
  <2>3. RowGood(rows[a], m, work[a]) /\ m \in Media
    BY <1>3, <2>2 DEF RowGood, Kept, Media
  <2> QED BY <1>0, <1>1, <1>2, <2>1, <2>2, <2>3 DEF counters
<1>6. CASE Purge(a)
  <2>1. /\ media' = [media EXCEPT ![a] = "purged"] /\ rows' = [rows EXCEPT ![a] = NoRow]
        /\ UNCHANGED <<exec, counters, work, overlapped>>
    BY <1>6 DEF Purge
  <2>2. RowGood(NoRow, "purged", work[a])
    BY FreshFacts DEF RowGood, Kept
  <2> QED BY <1>0, <1>1, <1>2, <2>1, <2>2, FreshFacts DEF Media, counters
<1>7. CASE Retry(a)
  <2>1. PICK e \in Executors : /\ exec[e].pc # "off" /\ ~Refused(exec[e].version, rows[a])
                               /\ rows' = [rows EXCEPT ![a] = Again(exec[e].version, rows[a])]
    BY <1>7 DEF Retry
  <2> DEFINE v == exec[e].version
             n == IF Exhausted(rows[a]) THEN 0 ELSE rows[a].attempts
             w == IF Exhausted(rows[a]) THEN 0 ELSE work[a]
             r == [Fresh EXCEPT !.version = v, !.attempts = n]
  <2>2. /\ media[a] = "live" /\ retries' \in 0 .. MaxRetries
        /\ work' = [work EXCEPT ![a] = IF Exhausted(rows[a]) THEN 0 ELSE @]
        /\ UNCHANGED <<media, exec, stops, restores, overlapped>>
    BY <1>0, <1>7, IndexingAssumption DEF Retry
  <2>3. work' = [work EXCEPT ![a] = w] /\ w \in Nat
    BY <1>0, <2>2
  <2>4. rows[a].status # "none" /\ work[a] <= rows[a].attempts
    BY <1>3, <2>2 DEF RowGood, Kept
  <2>5. rows' = [rows EXCEPT ![a] = r]
    BY <2>1, <2>4 DEF Again
  <2>6. v \in Versions /\ n \in 0 .. MaxAttempts /\ w <= n
    BY <1>0, <2>1, <2>4, IndexingAssumption DEF ExecGood, Row
  <2> HIDE DEF n, w, v
  <2>7. r \in Row /\ r.status = "pending" /\ r.attempts = n
    BY <1>0, <2>6 DEF Fresh, NoRow, Row
  <2>8. RowGood(r, media[a], w)
    BY <2>2, <2>6, <2>7 DEF RowGood, Kept
  <2> HIDE DEF r
  <2> QED BY <1>0, <1>1, <1>2, <2>2, <2>3, <2>5, <2>7, <2>8
<1>8. CASE LeaseLapses(a)
  <2> DEFINE r == [rows[a] EXCEPT !.lapsed = TRUE]
  <2>1. rows' = [rows EXCEPT ![a] = r] /\ UNCHANGED <<media, exec, counters, work, overlapped>>
    BY <1>0, <1>8 DEF LeaseLapses
  <2>2. r \in Row /\ r.status = rows[a].status /\ r.attempts = rows[a].attempts
        /\ r.version = rows[a].version /\ r.cooling = rows[a].cooling
    BY <1>0 DEF Row
  <2>3. RowGood(r, media[a], work[a])
    BY <1>3, <2>2 DEF RowGood
  <2> HIDE DEF r
  <2> QED BY <1>0, <1>1, <1>2, <2>1, <2>2, <2>3 DEF counters
<1>9. CASE CooldownEnds(a)
  <2> DEFINE r == [rows[a] EXCEPT !.cooling = FALSE]
  <2>1. rows' = [rows EXCEPT ![a] = r] /\ UNCHANGED <<media, exec, counters, work, overlapped>>
    BY <1>0, <1>9 DEF CooldownEnds
  <2>2. r \in Row /\ r.status = rows[a].status /\ r.attempts = rows[a].attempts
        /\ r.version = rows[a].version /\ ~r.cooling
    BY <1>0 DEF Row
  <2>3. RowGood(r, media[a], work[a])
    BY <1>3, <2>2 DEF RowGood
  <2> HIDE DEF r
  <2> QED BY <1>0, <1>1, <1>2, <2>1, <2>2, <2>3 DEF counters
<1> QED BY <1>4, <1>5, <1>6, <1>7, <1>8, <1>9

(* The steps of an executor between its claims.                             *)
LEMMA SettlingSteps ==
    ASSUME IndexInv, NEW e \in Executors, Infer(e) \/ Complete(e) \/ Fail(e)
    PROVE  IndexInv'
<1> USE DEF IndexInv
<1>0. /\ media \in [Assets -> Media] /\ rows \in [Assets -> Row] /\ exec \in [Executors -> Exec]
      /\ work \in [Assets -> Nat] /\ stops \in 0 .. MaxStops /\ retries \in 0 .. MaxRetries
      /\ restores \in 0 .. MaxRestores
      /\ \A b \in Assets : RowGood(rows[b], media[b], work[b])
      /\ \A d \in Executors : ExecGood(exec[d])
      /\ exec[e] \in Exec
  BY DEF TypeOK, Media
<1>1. exec[e].pc \in Working /\ exec[e].asset \in Assets /\ exec[e].version \in Versions
      /\ UNCHANGED <<media, counters, work, overlapped>>
  BY <1>0 DEF Infer, Complete, Fail, Working, ExecGood
<1> DEFINE a == exec[e].asset
<1>2. rows[a] \in Row /\ RowGood(rows[a], media[a], work[a])
  BY <1>0, <1>1
<1>3. ASSUME NEW x \in Exec, exec' = [exec EXCEPT ![e] = x], ExecGood(x),
             x.pc # "off", x.version = exec[e].version,
             NEW r \in Row, rows' = [rows EXCEPT ![a] = r],
             r.status # "none" <=> rows[a].status # "none",
             r.attempts = rows[a].attempts,
             r.cooling => r.status = "pending",
             r.status = "ready" => \/ rows[a].status = "ready" /\ r.version = rows[a].version
                                   \/ r.version = exec[e].version
      PROVE  IndexInv'
  <2>1. /\ exec' \in [Executors -> Exec] /\ exec'[e] = x
        /\ \A d \in Executors : d # e => exec'[d] = exec[d]
    BY <1>0, <1>3
  <2>2. /\ rows' \in [Assets -> Row] /\ rows'[a] = r /\ \A b \in Assets : b # a => rows'[b] = rows[b]
    BY <1>0, <1>1, <1>3
  <2>3. exec[e].version # NoVersion
    BY <1>1, IndexingAssumption DEF NoVersion
  <2>4. RowGood(r, media[a], work[a])
    BY <1>2, <1>3, <2>3 DEF RowGood
  <2>5. \A b \in Assets : RowGood(rows'[b], media[b], work[b])
    BY <1>0, <2>2, <2>4
  <2>6. \A d \in Executors : /\ ExecGood(exec'[d])
                             /\ exec'[d].pc # "off" =>
                                   exec[d].pc # "off" /\ exec'[d].version = exec[d].version
    BY <1>0, <1>1, <1>3, <2>1 DEF Working
  <2>7. \A b \in Assets : rows'[b].status = "ready" =>
               \/ rows[b].status = "ready" /\ rows'[b].version = rows[b].version
               \/ \E d \in Executors : exec[d].pc # "off" /\ rows'[b].version = exec[d].version
    BY <1>1, <1>3, <2>2 DEF Working
  <2> QED BY <1>0, <1>1, <2>1, <2>2, <2>5, <2>6, <2>7, StepKeeps DEF counters
<1>4. rows = [rows EXCEPT ![a] = rows[a]]
  BY <1>0
<1>5. CASE Infer(e)
  <2>1. PICK result \in {"complete", "fail"} : exec' = [exec EXCEPT ![e].pc = result]
    BY <1>5 DEF Infer
  <2> DEFINE x == [exec[e] EXCEPT !.pc = result]
  <2>2. exec' = [exec EXCEPT ![e] = x] /\ rows' = rows
    BY <1>0, <1>5, <2>1 DEF Infer
  <2>3. x \in Exec /\ x.pc = result /\ x.version = exec[e].version /\ x.asset = exec[e].asset
    BY <1>0 DEF Exec
  <2>4. ExecGood(x)
    BY <1>1, <2>3 DEF ExecGood
  <2> HIDE DEF x
  <2> QED BY <1>2, <1>3, <1>4, <2>2, <2>3, <2>4 DEF RowGood
<1>6. ASSUME BackToIdle(e)
      PROVE  \E x \in Exec : /\ exec' = [exec EXCEPT ![e] = x] /\ ExecGood(x)
                             /\ x.pc # "off" /\ x.version = exec[e].version
  <2> DEFINE x == [exec[e] EXCEPT !.pc = "idle", !.asset = NoAsset, !.attempts = 0]
  <2>1. exec' = [exec EXCEPT ![e] = x]
    BY <1>0, <1>6 DEF BackToIdle, Exec
  <2>2. 0 \in 0 .. MaxAttempts
    BY IndexingAssumption
  <2>3. x \in Exec /\ x.pc = "idle" /\ x.version = exec[e].version
    BY <1>0, <2>2 DEF Exec
  <2>4. ExecGood(x)
    BY <1>1, <2>3 DEF ExecGood, Working
  <2> HIDE DEF x
  <2> QED BY <2>1, <2>3, <2>4
<1>7. CASE Complete(e)
  <2>1. PICK x \in Exec : /\ exec' = [exec EXCEPT ![e] = x] /\ ExecGood(x)
                          /\ x.pc # "off" /\ x.version = exec[e].version
    BY <1>6, <1>7 DEF Complete
  <2> DEFINE r == [rows[a] EXCEPT !.status = "ready", !.token = None,
                           !.lapsed = FALSE, !.cooling = FALSE, !.version = exec[e].version]
  <2>2. r \in Row /\ r.status = "ready" /\ r.attempts = rows[a].attempts
        /\ ~r.cooling /\ r.version = exec[e].version
    BY <1>1, <1>2 DEF Row
  <2>3. rows' = rows \/ (Holds(e) /\ rows' = [rows EXCEPT ![a] = r])
    BY <1>7 DEF Complete, Settled
  <2> HIDE DEF r
  <2>4. Holds(e) => rows[a].status = "processing"
    BY DEF Holds
  <2>5. CASE rows' = rows
    BY <1>2, <1>3, <1>4, <2>1, <2>5 DEF RowGood
  <2>6. CASE Holds(e) /\ rows' = [rows EXCEPT ![a] = r]
    BY <1>3, <2>1, <2>2, <2>4, <2>6
  <2> QED BY <2>3, <2>5, <2>6
<1>8. CASE Fail(e)
  <2>1. PICK x \in Exec : /\ exec' = [exec EXCEPT ![e] = x] /\ ExecGood(x)
                          /\ x.pc # "off" /\ x.version = exec[e].version
    BY <1>6, <1>8 DEF Fail
  <2> DEFINE over == GivesUp(exec[e].attempts)
             st == IF over THEN "failed" ELSE "pending"
             r == [rows[a] EXCEPT !.status = st, !.token = None, !.lapsed = FALSE, !.cooling = ~over]
  <2>2. rows' = rows \/ (Holds(e) /\ rows' = [rows EXCEPT ![a] = r])
    BY <1>8 DEF Fail, Settled
  <2>3. over \in BOOLEAN /\ st \in {"failed", "pending"} /\ (~over => st = "pending")
    BY DEF GivesUp
  <2> HIDE DEF over, st
  <2>4. r \in Row /\ r.status = st /\ r.attempts = rows[a].attempts /\ r.cooling = ~over
    BY <1>1, <1>2, <2>3 DEF Row
  <2> HIDE DEF r
  <2>5. Holds(e) => rows[a].status = "processing"
    BY DEF Holds
  <2>6. CASE rows' = rows
    BY <1>2, <1>3, <1>4, <2>1, <2>6 DEF RowGood
  <2>7. CASE Holds(e) /\ rows' = [rows EXCEPT ![a] = r]
    BY <1>3, <2>1, <2>3, <2>4, <2>5, <2>7
  <2> QED BY <2>2, <2>6, <2>7
<1> QED BY <1>5, <1>7, <1>8

(* What a claim leaves: rows recovered, and one of them perhaps claimed.    *)
LEMMA ClaimRows ==
    ASSUME TypeOK, NEW e \in Executors, exec[e].version \in Versions, ClaimNext(e)
    PROVE  /\ UNCHANGED <<media, counters, overlapped>> /\ exec[e].pc = "idle"
           /\ rows' \in [Assets -> Row]
           /\ \/ /\ rows' = [a \in Assets |-> Recovered(rows[a])]
                 /\ UNCHANGED <<exec, work>>
              \/ \E a \in Assets :
                   /\ media[a] = "live" /\ Recovered(rows[a]).status = "pending"
                   /\ rows'[a].status = "processing" /\ ~rows'[a].cooling
                   /\ rows'[a].attempts = rows[a].attempts + 1
                   /\ \A b \in Assets : b # a => rows'[b] = Recovered(rows[b])
                   /\ \/ UNCHANGED <<exec, work>>
                      \/ /\ work' = [work EXCEPT ![a] = @ + 1]
                         /\ exec' = [exec EXCEPT ![e].pc = "infer", ![e].asset = a,
                                            ![e].attempts = rows'[a].attempts]
<1>0. rows \in [Assets -> Row] /\ \A a \in Assets : rows[a] \in Row
  BY DEF TypeOK
<1> DEFINE found == [a \in Assets |-> Recovered(rows[a])]
           due == {a \in Assets : Claimable(found[a], a)}
<1>1. found \in [Assets -> Row] /\ \A a \in Assets : found[a] = Recovered(rows[a])
  BY <1>0, RecoveredRow
<1>2. /\ UNCHANGED <<media, counters, overlapped>> /\ exec[e].pc = "idle"
      /\ \/ rows' = found /\ UNCHANGED <<exec, work>>
         \/ \E a \in due :
              /\ rows' = [found EXCEPT ![a] =
                   [status |-> "processing", attempts |-> found[a].attempts + 1, token |-> e,
                    lapsed |-> FALSE, cooling |-> FALSE, version |-> exec[e].version]]
              /\ \/ UNCHANGED <<exec, work>>
                 \/ /\ work' = [work EXCEPT ![a] = @ + 1]
                    /\ exec' = [exec EXCEPT ![e].pc = "infer", ![e].asset = a,
                                            ![e].attempts = rows'[a].attempts]
  BY DEF ClaimNext
<1>3. \A a \in due : /\ a \in Assets /\ media[a] = "live" /\ found[a].status = "pending"
                     /\ found[a].attempts < MaxAttempts
  BY DEF Claimable
<1> HIDE DEF found, due
<1>4. CASE rows' = found /\ UNCHANGED <<exec, work>>
  BY <1>1, <1>2, <1>4 DEF found
<1>5. ASSUME NEW a \in due,
             rows' = [found EXCEPT ![a] =
                   [status |-> "processing", attempts |-> found[a].attempts + 1, token |-> e,
                    lapsed |-> FALSE, cooling |-> FALSE, version |-> exec[e].version]],
             \/ UNCHANGED <<exec, work>>
             \/ /\ work' = [work EXCEPT ![a] = @ + 1]
                /\ exec' = [exec EXCEPT ![e].pc = "infer", ![e].asset = a,
                                            ![e].attempts = rows'[a].attempts]
      PROVE  /\ rows' \in [Assets -> Row] /\ a \in Assets
             /\ media[a] = "live" /\ Recovered(rows[a]).status = "pending"
             /\ rows'[a].status = "processing" /\ ~rows'[a].cooling
             /\ rows'[a].attempts = rows[a].attempts + 1
             /\ \A b \in Assets : b # a => rows'[b] = Recovered(rows[b])
  <2> DEFINE n == found[a].attempts + 1
             r == [status |-> "processing", attempts |-> n, token |-> e,
                   lapsed |-> FALSE, cooling |-> FALSE, version |-> exec[e].version]
  <2>1. a \in Assets /\ media[a] = "live" /\ found[a].status = "pending"
        /\ found[a].attempts < MaxAttempts /\ found[a] \in Row
    BY <1>1, <1>3
  <2>2. found[a].attempts = rows[a].attempts
    BY <1>0, <1>1, <2>1, RecoveredRow
  <2>3. n \in 0 .. MaxAttempts /\ n = rows[a].attempts + 1
    BY <2>1, <2>2, IndexingAssumption DEF Row
  <2>4. rows' = [found EXCEPT ![a] = r]
    BY <1>5
  <2> HIDE DEF n
  <2>5. r \in Row /\ r.status = "processing" /\ r.attempts = n /\ ~r.cooling
    BY <2>3 DEF Row
  <2> HIDE DEF r
  <2> QED BY <1>1, <2>1, <2>3, <2>4, <2>5
<1> QED BY <1>2, <1>3, <1>4, <1>5

LEMMA RecoveredGood ==
    ASSUME NEW r \in Row, NEW m, NEW w, RowGood(r, m, w)
    PROVE  RowGood(Recovered(r), m, w)
  BY RecoveredRow DEF RowGood

LEMMA ClaimKeeps ==
    ASSUME IndexInv, NEW e \in Executors, ClaimNext(e)
    PROVE  IndexInv'
<1> USE DEF IndexInv
<1>0. /\ TypeOK /\ media \in [Assets -> Media] /\ rows \in [Assets -> Row]
      /\ exec \in [Executors -> Exec]
      /\ work \in [Assets -> Nat] /\ stops \in 0 .. MaxStops /\ retries \in 0 .. MaxRetries
      /\ restores \in 0 .. MaxRestores
      /\ \A b \in Assets : RowGood(rows[b], media[b], work[b]) /\ rows[b] \in Row
      /\ \A d \in Executors : ExecGood(exec[d])
      /\ exec[e] \in Exec
  BY DEF TypeOK, Media
<1>1. exec[e].pc = "idle" /\ exec[e].version \in Versions
  BY <1>0 DEF ClaimNext, ExecGood
<1>2. /\ UNCHANGED <<media, counters, overlapped>> /\ rows' \in [Assets -> Row]
  BY <1>0, <1>1, ClaimRows
<1>3. \A b \in Assets : RowGood(Recovered(rows[b]), media[b], work[b])
  BY <1>0, RecoveredGood
<1>4. \A b \in Assets : rows'[b] = Recovered(rows[b]) /\ rows'[b].status = "ready"
          => rows[b].status = "ready" /\ rows'[b].version = rows[b].version
  BY <1>0, RecoveredRow
<1>5. CASE rows' = [a \in Assets |-> Recovered(rows[a])] /\ UNCHANGED <<exec, work>>
  <2>1. \A b \in Assets : rows'[b] = Recovered(rows[b])
    BY <1>5
  <2> QED BY <1>0, <1>2, <1>3, <1>4, <1>5, <2>1, StepKeeps DEF counters
<1>6. ASSUME NEW a \in Assets,
             media[a] = "live", Recovered(rows[a]).status = "pending",
             rows'[a].status = "processing", ~rows'[a].cooling,
             rows'[a].attempts = rows[a].attempts + 1,
             \A b \in Assets : b # a => rows'[b] = Recovered(rows[b]),
             \/ UNCHANGED <<exec, work>>
             \/ /\ work' = [work EXCEPT ![a] = @ + 1]
                /\ exec' = [exec EXCEPT ![e].pc = "infer", ![e].asset = a,
                                            ![e].attempts = rows'[a].attempts]
      PROVE  IndexInv'
  <2>1. /\ work' \in [Assets -> Nat] /\ work'[a] <= work[a] + 1
        /\ \A b \in Assets : b # a => work'[b] = work[b]
    BY <1>0, <1>6
  <2>2. work[a] <= rows[a].attempts /\ rows[a].attempts \in Nat
    BY <1>0, <1>6 DEF RowGood, Kept, Row
  <2>3. RowGood(rows'[a], media[a], work'[a])
    <3>1. work'[a] <= rows'[a].attempts
      BY <1>0, <1>6, <2>1, <2>2
    <3> QED BY <1>6, <3>1 DEF RowGood, Kept
  <2>4. \A b \in Assets : RowGood(rows'[b], media[b], work'[b])
    BY <1>3, <1>6, <2>1, <2>3
  <2>5. \A b \in Assets : rows'[b].status = "ready" =>
           rows[b].status = "ready" /\ rows'[b].version = rows[b].version
    BY <1>4, <1>6
  <2>6. /\ exec' \in [Executors -> Exec]
        /\ \A d \in Executors : /\ ExecGood(exec'[d])
                                /\ exec'[d].pc # "off" =>
                                      exec[d].pc # "off" /\ exec'[d].version = exec[d].version
    <3>1. CASE exec' = exec
      BY <1>0, <3>1
    <3>2. CASE exec' = [exec EXCEPT ![e].pc = "infer", ![e].asset = a,
                                            ![e].attempts = rows'[a].attempts]
      <4> DEFINE n == rows'[a].attempts
                 x == [exec[e] EXCEPT !.pc = "infer", !.asset = a, !.attempts = n]
      <4>1. n \in 0 .. MaxAttempts
        BY <1>2, <1>6 DEF Row
      <4>2. exec' = [exec EXCEPT ![e] = x]
        BY <1>0, <3>2 DEF Exec
      <4> HIDE DEF n
      <4>3. x \in Exec /\ x.pc = "infer" /\ x.asset = a /\ x.version = exec[e].version
        BY <1>0, <4>1 DEF Exec
      <4>4. ExecGood(x)
        BY <1>1, <4>3 DEF ExecGood
      <4> HIDE DEF x
      <4> QED BY <1>0, <1>1, <4>2, <4>3, <4>4
    <3> QED BY <1>6, <3>1, <3>2
  <2> QED BY <1>0, <1>2, <2>1, <2>4, <2>5, <2>6, StepKeeps DEF counters
<1> QED BY <1>0, <1>1, <1>5, <1>6, ClaimRows

(* A process starts over what others have left.                             *)
LEMMA PreparedRow ==
    ASSUME NEW v \in Versions, NEW a \in Assets, rows[a] \in Row,
           NEW w, w = (IF Rearmed(v, a) THEN 0 ELSE work[a]), work[a] \in Nat,
           RowGood(rows[a], media[a], work[a])
    PROVE  /\ Prepared(v, a) \in Row /\ RowGood(Prepared(v, a), media[a], w)
           /\ Prepared(v, a).status = "ready" => Prepared(v, a) = rows[a] /\ rows[a].version = v
           /\ \/ Prepared(v, a) = rows[a]
              \/ rows[a].status = "none"
              \/ rows[a].status # "processing" /\ Prepared(v, a).status = "pending" /\ w = 0
<1>1. CASE rows[a].status = "none"
  <2>1. Prepared(v, a) = rows[a]
    BY <1>1 DEF Prepared, Retained, RowGood, Kept, Rearmed
  <2>2. w = work[a]
    BY <1>1 DEF Rearmed
  <2> QED BY <1>1, <2>1, <2>2
<1>2. CASE rows[a].status # "none" /\ Rearmed(v, a)
  <2>1. Prepared(v, a) = [Fresh EXCEPT !.version = v] /\ w = 0
    BY <1>2 DEF Prepared
  <2>2. Prepared(v, a) \in Row /\ Prepared(v, a).status = "pending" /\ Prepared(v, a).attempts = 0
        /\ ~Prepared(v, a).cooling
    BY <2>1, RearmedRow
  <2>3. RowGood(Prepared(v, a), media[a], w)
    BY <1>2, <2>1, <2>2 DEF RowGood
  <2> QED BY <1>2, <2>1, <2>2, <2>3 DEF Rearmed
<1>3. CASE rows[a].status # "none" /\ ~Rearmed(v, a)
  <2>1. Prepared(v, a) = rows[a] /\ w = work[a]
    BY <1>3 DEF Prepared
  <2>2. rows[a].status = "ready" => rows[a].version = v
    BY <1>3 DEF Rearmed, RowGood
  <2> QED BY <2>1, <2>2
<1> QED BY <1>1, <1>2, <1>3

LEMMA StartKeeps ==
    ASSUME IndexInv, NEW e \in Executors, Start(e)
    PROVE  IndexInv'
<1> USE DEF IndexInv
<1>0. /\ media \in [Assets -> Media] /\ rows \in [Assets -> Row] /\ exec \in [Executors -> Exec]
      /\ work \in [Assets -> Nat] /\ overlapped \in BOOLEAN
      /\ stops \in 0 .. MaxStops /\ retries \in 0 .. MaxRetries /\ restores \in 0 .. MaxRestores
      /\ \A b \in Assets : RowGood(rows[b], media[b], work[b]) /\ rows[b] \in Row
      /\ \A d \in Executors : ExecGood(exec[d])
  BY DEF TypeOK, Media
<1>1. PICK v \in Versions :
         /\ exec' = [exec EXCEPT ![e] = [Off EXCEPT !.pc = "idle", !.version = v]]
         /\ rows' = [a \in Assets |-> Prepared(v, a)]
         /\ work' = [a \in Assets |-> IF Rearmed(v, a) THEN 0 ELSE work[a]]
  BY DEF Start
<1>2. /\ overlapped' = (overlapped \/ \E d \in Executors : exec[d].pc # "off")
      /\ UNCHANGED <<media, counters>>
  BY DEF Start
<1> DEFINE x == [Off EXCEPT !.pc = "idle", !.version = v]
<1>3. x \in Exec /\ x.pc = "idle" /\ x.version = v
  BY FreshRow DEF Exec
<1>4. ExecGood(x)
  BY <1>3 DEF ExecGood, Working
<1> HIDE DEF x
<1>5. exec' \in [Executors -> Exec] /\ exec'[e] = x /\ \A d \in Executors : d # e => exec'[d] = exec[d]
  BY <1>0, <1>1, <1>3 DEF x
<1>6. /\ work' \in [Assets -> Nat]
      /\ \A a \in Assets : work'[a] = (IF Rearmed(v, a) THEN 0 ELSE work[a]) /\ rows'[a] = Prepared(v, a)
  BY <1>0, <1>1
<1>7. \A a \in Assets : /\ rows'[a] \in Row /\ RowGood(rows'[a], media[a], work'[a])
                        /\ rows'[a].status = "ready" => rows'[a].version = v
  BY <1>0, <1>6, PreparedRow
<1>8. TypeOK'
  BY <1>0, <1>1, <1>2, <1>5, <1>6, <1>7 DEF TypeOK, Media, counters
<1>9. \A a \in Assets : RowGood(rows'[a], media'[a], work'[a])
  BY <1>2, <1>7
<1>10. \A d \in Executors : ExecGood(exec'[d])
  BY <1>0, <1>4, <1>5
<1>11. ~overlapped' => \A d \in Executors : exec'[d].pc # "off" => d = e
  BY <1>2, <1>5
<1>12. Sole' /\ NoMixedVectors'
  BY <1>3, <1>5, <1>7, <1>11 DEF Sole, NoMixedVectors
<1> QED BY <1>8, <1>9, <1>10, <1>12

(* A process ends; or all of them do, and a snapshot continues the library. *)
LEMMA EndingKeeps ==
    ASSUME IndexInv, (\E e \in Executors : Stop(e)) \/ RestoreSnapshot
    PROVE  IndexInv'
<1> USE DEF IndexInv
<1>0. /\ media \in [Assets -> Media] /\ rows \in [Assets -> Row] /\ exec \in [Executors -> Exec]
      /\ work \in [Assets -> Nat]
      /\ stops \in 0 .. MaxStops /\ retries \in 0 .. MaxRetries /\ restores \in 0 .. MaxRestores
      /\ \A b \in Assets : RowGood(rows[b], media[b], work[b]) /\ rows[b] \in Row
      /\ \A d \in Executors : ExecGood(exec[d])
      /\ Off \in Exec
  BY FreshRow DEF TypeOK, Media
<1>1. Off.pc = "off" /\ ExecGood(Off)
  BY FreshFacts DEF ExecGood, Working
<1>2. ASSUME NEW e \in Executors, Stop(e) PROVE IndexInv'
  <2>1. /\ exec' = [exec EXCEPT ![e] = Off] /\ stops' \in 0 .. MaxStops
        /\ UNCHANGED <<media, rows, retries, restores, work, overlapped>>
    BY <1>0, <1>2, IndexingAssumption DEF Stop
  <2>2. exec' \in [Executors -> Exec] /\ exec'[e] = Off
        /\ \A d \in Executors : d # e => exec'[d] = exec[d]
    BY <1>0, <2>1
  <2> QED BY <1>0, <1>1, <2>1, <2>2, StepKeeps
<1>3. CASE RestoreSnapshot
  <2>1. /\ rows' = [a \in Assets |-> Sanitized(rows[a])] /\ exec' = [e \in Executors |-> Off]
        /\ restores' \in 0 .. MaxRestores
        /\ UNCHANGED <<media, stops, retries, work, overlapped>>
    BY <1>0, <1>3, IndexingAssumption DEF RestoreSnapshot
  <2>2. \A a \in Assets :
          /\ rows'[a] \in Row /\ rows'[a].attempts = rows[a].attempts /\ rows'[a].version = rows[a].version
          /\ rows'[a] = rows[a] \/ (rows[a].status = "processing" /\ rows'[a].status = "pending")
    BY <1>0, <2>1, SanitizedRow
  <2>3. \A a \in Assets : RowGood(rows'[a], media[a], work[a])
    BY <1>0, <2>2 DEF RowGood
  <2>4. \A a \in Assets : rows'[a].status = "ready" =>
           rows[a].status = "ready" /\ rows'[a].version = rows[a].version
    BY <2>2
  <2>5. /\ rows' \in [Assets -> Row] /\ exec' \in [Executors -> Exec]
        /\ \A e \in Executors : exec'[e] = Off
    BY <1>0, <2>1, <2>2
  <2> QED BY <1>0, <1>1, <2>1, <2>3, <2>4, <2>5, StepKeeps
<1> QED BY <1>2, <1>3
-----------------------------------------------------------------------------
LEMMA InitIndexing == Init => IndexInv
<1> SUFFICES ASSUME Init PROVE IndexInv
  OBVIOUS
<1> USE DEF Init
<1>1. TypeOK
  <2>1. stops \in 0 .. MaxStops /\ retries \in 0 .. MaxRetries /\ restores \in 0 .. MaxRestores
    BY IndexingAssumption
  <2>2. work \in [Assets -> Nat]
    OBVIOUS
  <2>3. rows \in [Assets -> Row]
    BY FreshRow
  <2>4. exec \in [Executors -> Exec]
    BY FreshRow
  <2>5. media \in [Assets -> {"none", "live", "trashed", "purged"}] /\ overlapped \in BOOLEAN
    OBVIOUS
  <2> QED BY <2>1, <2>2, <2>3, <2>4, <2>5 DEF TypeOK
<1>2. \A a \in Assets : RowGood(rows[a], media[a], work[a])
  BY FreshFacts DEF RowGood, Kept
<1>3. \A e \in Executors : exec[e].pc = "off"
  BY FreshFacts
<1>4. (\A e \in Executors : ExecGood(exec[e])) /\ Sole /\ NoMixedVectors
  BY <1>3 DEF ExecGood, Working, Sole, NoMixedVectors
<1> QED BY <1>1, <1>2, <1>4 DEF IndexInv

LEMMA NextIndexing == IndexInv /\ [Next]_vars => IndexInv'
<1> SUFFICES ASSUME IndexInv, [Next]_vars PROVE IndexInv'
  OBVIOUS
<1>1. CASE UNCHANGED vars
  <2> USE <1>1 DEF vars, counters, IndexInv
  <2>1. TypeOK' /\ Sole' /\ NoMixedVectors'
    BY DEF TypeOK, Sole, NoMixedVectors
  <2>2. media' = media /\ rows' = rows /\ exec' = exec /\ work' = work
    OBVIOUS
  <2> QED BY <2>1, <2>2
<1>2. ASSUME NEW e \in Executors, Start(e) \/ Stop(e) \/ Step(e) PROVE IndexInv'
  BY <1>2, StartKeeps, EndingKeeps, ClaimKeeps, SettlingSteps DEF Step
<1> QED BY <1>1, <1>2, AssetSteps, EndingKeeps DEF Next

(* The inductive invariant: the inferences of an asset's cycle are covered  *)
(* by the attempts in its row, and only the sole executor's results count.  *)
THEOREM IndexingInvariant == Spec => []IndexInv
  BY InitIndexing, NextIndexing, PTL DEF Spec

(* The variables keep their types.                                          *)
THEOREM TypeCorrect == Spec => []TypeOK
<1>1. IndexInv => TypeOK
  BY DEF IndexInv
<1> QED BY <1>1, IndexingInvariant, PTL

(* No number of crashes, lapses, lost commits or snapshots buys an asset    *)
(* more inferences than the limit (worker.go claimNext and fail).           *)
THEOREM WorkIsBounded == Spec => []BoundedWork
<1>1. ASSUME IndexInv PROVE BoundedWork
  <2>1. SUFFICES ASSUME NEW a \in Assets, media[a] \in Kept PROVE work[a] <= MaxAttempts
    BY DEF BoundedWork, Retained, Kept
  <2>2. /\ rows[a].attempts \in 0 .. MaxAttempts /\ work[a] \in Nat
        /\ work[a] <= rows[a].attempts
    BY <1>1, <2>1 DEF IndexInv, TypeOK, Row, RowGood
  <2> QED BY <2>2, IndexingAssumption
<1> QED BY <1>1, IndexingInvariant, PTL

(* A process alone with the library never answers from another model's      *)
(* vectors (worker.go Prepare and complete).                                *)
THEOREM VectorsNeverMix == Spec => []NoMixedVectors
<1>1. IndexInv => NoMixedVectors
  BY DEF IndexInv
<1> QED BY <1>1, IndexingInvariant, PTL
-----------------------------------------------------------------------------
(* A claim takes lapsed and waiting rows only.                              *)
LEMMA ClaimLeaves ==
    ASSUME TypeOK, NEW e \in Executors, ClaimNext(e), NEW a \in Assets,
           rows[a].status # "pending", rows[a].status = "processing" => ~rows[a].lapsed
    PROVE  rows'[a] = rows[a]
<1> DEFINE found == [b \in Assets |-> Recovered(rows[b])]
<1>1. found[a] = rows[a]
  BY DEF Recovered
<1>2. CASE rows' = found
  BY <1>1, <1>2
<1>3. ASSUME NEW b \in Assets, Claimable(found[b], b), NEW x, rows' = [found EXCEPT ![b] = x]
      PROVE  rows'[a] = rows[a]
  <2>1. b # a
    BY <1>1, <1>3 DEF Claimable
  <2> QED BY <1>1, <1>3, <2>1
<1>4. rows' = found \/ \E b \in Assets : \E x : Claimable(found[b], b) /\ rows' = [found EXCEPT ![b] = x]
  BY DEF ClaimNext
<1> QED BY <1>2, <1>3, <1>4

(* An executor settles the row it holds, and then is idle.                  *)
LEMMA SettleLeaves ==
    ASSUME IndexInv, NEW e \in Executors, Complete(e) \/ Fail(e), NEW a \in Assets
    PROVE  \/ rows'[a] = rows[a]
           \/ /\ rows[a].status = "processing" /\ rows[a].token = e
              /\ exec[e].asset = a /\ exec'[e].pc = "idle"
<1>1. exec \in [Executors -> Exec] /\ rows \in [Assets -> Row]
  BY DEF IndexInv, TypeOK
<1>2. exec'[e].pc = "idle"
  <2>1. exec' = [exec EXCEPT ![e] = [exec[e] EXCEPT !.pc = "idle", !.asset = NoAsset, !.attempts = 0]]
    BY DEF Complete, Fail, BackToIdle
  <2> QED BY <1>1, <2>1 DEF Exec
<1>3. CASE rows' = rows
  BY <1>3
<1>4. ASSUME Holds(e), NEW x, Settled(e, x)
      PROVE  \/ rows'[a] = rows[a]
             \/ rows[a].status = "processing" /\ rows[a].token = e /\ exec[e].asset = a
  <2>1. rows' = [rows EXCEPT ![exec[e].asset] = x]
    BY <1>4 DEF Settled
  <2>2. CASE exec[e].asset = a
    BY <1>4, <2>2 DEF Holds
  <2>3. CASE exec[e].asset # a
    BY <1>1, <2>1, <2>3
  <2> QED BY <2>2, <2>3
<1>5. rows' = rows \/ \E x : Holds(e) /\ Settled(e, x)
  BY DEF Complete, Fail
<1> QED BY <1>2, <1>3, <1>4, <1>5

(* What may become of a row in one step.                                    *)
Outcome(a) ==
    \/ rows'[a] = rows[a]
    \/ rows'[a].status = "none"
    \/ rows[a].status = "none"
    \/ rows[a].status = "pending"
    \/ rows'[a].status = "pending" /\ work'[a] = 0 /\ rows[a].status # "processing"
    \/ rows[a].status = "processing" /\ (rows[a].lapsed \/ rows'[a].token = rows[a].token)
    \/ rows[a].status = "processing" /\ restores' # restores
    \/ /\ rows[a].status = "processing" /\ rows[a].token \in Executors
       /\ exec[rows[a].token].asset = a /\ exec'[rows[a].token].pc = "idle"

LEMMA AssetOutcomes ==
    ASSUME IndexInv, NEW b \in Assets,
           \/ Save(b) \/ Trash(b) \/ Restore(b) \/ Purge(b) \/ Retry(b)
           \/ LeaseLapses(b) \/ CooldownEnds(b),
           NEW a \in Assets
    PROVE  Outcome(a)
<1>1. /\ rows \in [Assets -> Row] /\ work \in [Assets -> Nat]
      /\ RowGood(rows[b], media[b], work[b])
  BY DEF IndexInv, TypeOK
<1>2. rows' = rows \/ \E x : rows' = [rows EXCEPT ![b] = x]
  BY DEF Save, Trash, Restore, Purge, Retry, LeaseLapses, CooldownEnds
<1>3. CASE a # b
  BY <1>1, <1>2, <1>3 DEF Outcome
<1>4. CASE a = b
  <2>1. CASE Save(b)
    BY <1>1, <1>4, <2>1 DEF Save, RowGood, Kept, Outcome
  <2>2. CASE Trash(b) \/ Restore(b)
    BY <2>2 DEF Trash, Restore, Outcome
  <2>3. CASE Purge(b)
    BY <1>1, <1>4, <2>3, FreshFacts DEF Purge, Outcome
  <2>4. CASE Retry(b)
    <3>1. PICK e \in Executors : /\ ~Refused(exec[e].version, rows[b])
                                 /\ rows' = [rows EXCEPT ![b] = Again(exec[e].version, rows[b])]
      BY <2>4 DEF Retry
    <3>2. CASE rows[b].status \in {"none", "pending"}
      BY <1>4, <3>2 DEF Outcome
    <3>3. CASE rows[b].status = "processing"
      BY <1>4, <3>1, <3>3 DEF Refused, Outcome
    <3>4. CASE rows[b].status \in {"ready", "failed"}
      <4>1. Exhausted(rows[b]) /\ work'[b] = 0
        BY <1>1, <2>4, <3>4 DEF Exhausted, Retry
      <4>2. Again(exec[e].version, rows[b]).status = "pending"
        BY <3>4, FreshRow, FreshFacts DEF Again, Row
      <4> QED BY <1>1, <1>4, <3>1, <3>4, <4>1, <4>2 DEF Outcome
    <3> QED BY <1>1, <3>2, <3>3, <3>4 DEF Row
  <2>5. CASE LeaseLapses(b)
    <3>1. rows'[b] = [rows[b] EXCEPT !.lapsed = TRUE] /\ rows[b].status = "processing"
      BY <1>1, <2>5 DEF LeaseLapses
    <3>2. rows'[b].token = rows[b].token
      BY <1>1, <3>1 DEF Row
    <3> QED BY <1>4, <3>1, <3>2 DEF Outcome
  <2>6. CASE CooldownEnds(b)
    BY <1>1, <1>4, <2>6 DEF CooldownEnds, RowGood, Outcome
  <2> QED BY <2>1, <2>2, <2>3, <2>4, <2>5, <2>6
<1> QED BY <1>3, <1>4

LEMMA NextOutcomes ==
    ASSUME IndexInv, [Next]_vars, NEW a \in Assets
    PROVE  Outcome(a)
<1>1. rows \in [Assets -> Row] /\ work \in [Assets -> Nat] /\ exec \in [Executors -> Exec]
  BY DEF IndexInv, TypeOK
<1>2. CASE UNCHANGED vars
  BY <1>2 DEF vars, Outcome
<1>3. ASSUME NEW e \in Executors, Start(e) PROVE Outcome(a)
  <2>1. PICK v \in Versions : rows'[a] = Prepared(v, a) /\ (Rearmed(v, a) => work'[a] = 0)
    BY <1>3 DEF Start
  <2>2. CASE rows[a].status = "none"
    BY <2>2 DEF Outcome
  <2>3. CASE rows[a].status # "none" /\ Rearmed(v, a)
    <3>1. rows'[a].status = "pending"
      BY <2>1, <2>3, RearmedRow DEF Prepared
    <3> QED BY <2>1, <2>3, <3>1 DEF Outcome, Rearmed
  <2>4. CASE rows[a].status # "none" /\ ~Rearmed(v, a)
    BY <2>1, <2>4 DEF Prepared, Outcome
  <2> QED BY <2>2, <2>3, <2>4
<1>4. ASSUME NEW e \in Executors, Stop(e) \/ Infer(e) PROVE Outcome(a)
  BY <1>4 DEF Stop, Infer, Outcome
<1>5. ASSUME NEW e \in Executors, ClaimNext(e) PROVE Outcome(a)
  <2>1. TypeOK
    BY DEF IndexInv
  <2>2. CASE rows[a].status = "pending" \/ (rows[a].status = "processing" /\ rows[a].lapsed)
    BY <2>2 DEF Outcome
  <2>3. CASE rows[a].status # "pending" /\ (rows[a].status = "processing" => ~rows[a].lapsed)
    BY <1>5, <2>1, <2>3, ClaimLeaves DEF Outcome
  <2> QED BY <2>2, <2>3
<1>6. ASSUME NEW e \in Executors, Complete(e) \/ Fail(e) PROVE Outcome(a)
  BY <1>6, SettleLeaves DEF Outcome
<1>7. CASE RestoreSnapshot
  <2>1. rows'[a] = Sanitized(rows[a]) /\ restores' = restores + 1 /\ restores \in Nat
    BY <1>7 DEF RestoreSnapshot, IndexInv, TypeOK
  <2>2. CASE rows[a].status = "processing"
    BY <2>1, <2>2 DEF Outcome
  <2>3. CASE rows[a].status # "processing"
    BY <2>1, <2>3 DEF Sanitized, Outcome
  <2> QED BY <2>2, <2>3
<1> QED BY <1>2, <1>3, <1>4, <1>5, <1>6, <1>7, AssetOutcomes DEF Next, Step

(* However late an executor answers, a ready or failed row stays until      *)
(* another cycle or the asset's deletion (worker.go complete, fail).        *)
THEOREM ResultsAreFinalAlways == Spec => ResultsAreFinal
<1>1. ASSUME IndexInv, [Next]_vars
      PROVE  [\A a \in Assets :
                rows[a].status \in {"ready", "failed"} =>
                    \/ rows'[a] = rows[a]
                    \/ rows'[a].status = "none"
                    \/ rows'[a].status = "pending" /\ work'[a] = 0]_vars
  BY <1>1, NextOutcomes DEF Outcome
<1> QED BY <1>1, IndexingInvariant, PTL DEF Spec, ResultsAreFinal

(* A claim whose lease runs is settled by its holder only, or falls to a    *)
(* deletion or a restored snapshot (worker.go claimNext, complete, fail).   *)
THEOREM LeaseHonouredAlways == Spec => LeaseHonoured
<1>1. ASSUME IndexInv, [Next]_vars
      PROVE  [\A a \in Assets :
                rows[a].status = "processing" /\ ~rows[a].lapsed /\ rows'[a].token # rows[a].token =>
                    \/ rows'[a].status = "none"
                    \/ restores' # restores
                    \/ exec[rows[a].token].asset = a /\ exec'[rows[a].token].pc = "idle"]_vars
  BY <1>1, NextOutcomes DEF Outcome
<1> QED BY <1>1, IndexingInvariant, PTL DEF Spec, LeaseHonoured
=============================================================================
