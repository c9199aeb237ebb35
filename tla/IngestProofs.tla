---------------------------- MODULE IngestProofs ----------------------------
(***************************************************************************)
(* Theorems about the save boundary, for any requests, owners, keys,        *)
(* contents, limits and numbers of crashes, with and without advisory locks *)
(* that exclude.                                                            *)
(***************************************************************************)
EXTENDS IngestRefinement, FiniteSetTheorems, TLAPS

(* A request knows what it works on: who asks, under which key, which asset. *)
RequestsKnown ==
    /\ \A s \in Savers :
         /\ save[s].pc # "idle" => save[s].owner \in Owners /\ save[s].content \in Contents
         /\ save[s].pc \in {"receipt", "replay"} => save[s].key \in Keys
         /\ save[s].pc \in {"original", "poster", "final"} => save[s].id \in Ids
    /\ \A p \in Purging : purge[p].pc # "idle" => purge[p].id \in Ids

(* Every row that is there names its owner, its content, its asset. *)
RowsKnown ==
    /\ \A a \in Ids : Retained(a) => assets[a].owner \in Owners /\ assets[a].content \in Contents
    /\ \A slot \in Owners \X Keys :
         claims[slot].status = "completed" => claims[slot].receipt \in Ids

TypeInv == TypeOK /\ RequestsKnown /\ RowsKnown

-----------------------------------------------------------------------------
(* How a step changes the local state of one request.                       *)

LEMMA GoSaveFacts ==
    ASSUME save \in [Savers -> SaveState], NEW s \in Savers, NEW pc \in SavePc, GoSave(s, pc)
    PROVE  /\ save' \in [Savers -> SaveState]
           /\ save'[s].pc = pc
           /\ \A t \in Savers :
                /\ t # s => save'[t] = save[t]
                /\ save'[t].owner = save[t].owner /\ save'[t].key = save[t].key
                /\ save'[t].content = save[t].content /\ save'[t].id = save[t].id
                /\ save'[t].outcome = save[t].outcome /\ save'[t].answer = save[t].answer
                /\ save'[t].gone = save[t].gone
  BY DEF GoSave, SaveState

LEMMA AcceptFacts ==
    ASSUME save \in [Savers -> SaveState], NEW s \in Savers, NEW pc \in SavePc,
           NEW o \in Owners, NEW k \in Keys \cup {None}, NEW c \in Contents,
           Accept(s, o, k, c, pc)
    PROVE  /\ save' \in [Savers -> SaveState]
           /\ save'[s].pc = pc /\ save'[s].owner = o /\ save'[s].key = k
           /\ save'[s].content = c /\ save'[s].id = NoAsset
           /\ save'[s].outcome = "uncommitted" /\ save'[s].answer = NoAsset
           /\ save'[s].gone = {a \in Ids : purges[a].status # "absent"}
           /\ \A t \in Savers : t # s => save'[t] = save[t]
  BY DEF Accept, SaveState, IdleSave

LEMMA GoPurgeFacts ==
    ASSUME purge \in [Purging -> PurgeState], NEW p \in Purging, NEW pc \in PurgePc, GoPurge(p, pc)
    PROVE  /\ purge' \in [Purging -> PurgeState]
           /\ purge'[p].pc = pc
           /\ \A q \in Purging :
                /\ q # p => purge'[q] = purge[q]
                /\ purge'[q].owner = purge[q].owner /\ purge'[q].id = purge[q].id
  BY DEF GoPurge, PurgeState

LEMMA LeavePurgeFacts ==
    ASSUME purge \in [Purging -> PurgeState], NEW p \in Purging,
           NEW answer \in {"none", "ok", "incomplete", "refused"}, LeavePurge(p, answer)
    PROVE  /\ purge' \in [Purging -> PurgeState]
           /\ purge'[p].pc = "unlock"
           /\ \A q \in Purging :
                /\ q # p => purge'[q] = purge[q]
                /\ purge'[q].owner = purge[q].owner /\ purge'[q].id = purge[q].id
  BY ZenonT(60) DEF LeavePurge, PurgeState, PurgePc

(* A request ends with its commit: what it owns changes, who it is does not. *)
LEMMA LeaveSaveFacts ==
    ASSUME save \in [Savers -> SaveState], NEW s \in Savers,
           NEW answer \in Ids \cup {NoAsset},
           NEW outcome \in {"uncommitted", "uncertain", "committed"},
           LeaveSave(s, outcome, answer)
    PROVE  /\ save' \in [Savers -> SaveState]
           /\ save'[s].pc = "exit" /\ save'[s].outcome = outcome /\ save'[s].answer = answer
           /\ \A t \in Savers :
                /\ t # s => save'[t] = save[t]
                /\ save'[t].owner = save[t].owner /\ save'[t].key = save[t].key
                /\ save'[t].content = save[t].content /\ save'[t].id = save[t].id
                /\ save'[t].gone = save[t].gone
<1>0. "exit" \in SavePc
  BY DEF SavePc
<1>1. save' = [t \in Savers |-> save'[t]]
  BY DEF LeaveSave
<1>2. /\ save'[s].pc = "exit" /\ save'[s].outcome = outcome /\ save'[s].answer = answer
      /\ save'[s].owner = save[s].owner /\ save'[s].key = save[s].key
      /\ save'[s].content = save[s].content /\ save'[s].id = save[s].id
      /\ save'[s].gone = save[s].gone
  BY DEF LeaveSave, SaveState
<1>3. save'[s] \in SaveState
  BY ZenonT(60), <1>0 DEF LeaveSave, SaveState
<1>4. \A t \in Savers : t # s => save'[t] = save[t]
  BY DEF LeaveSave
<1>5. save' \in [Savers -> SaveState]
  BY ONLY save \in [Savers -> SaveState], <1>1, <1>3, <1>4
<1> QED BY ONLY <1>2, <1>4, <1>5

LEMMA AnswerSaveFacts ==
    ASSUME save \in [Savers -> SaveState], NEW s \in Savers, NEW pc \in SavePc,
           NEW answer \in Ids \cup {NoAsset}, AnswerSave(s, pc, answer)
    PROVE  /\ save' \in [Savers -> SaveState]
           /\ save'[s].pc = pc /\ save'[s].answer = answer
           /\ \A t \in Savers :
                /\ t # s => save'[t] = save[t]
                /\ save'[t].owner = save[t].owner /\ save'[t].key = save[t].key
                /\ save'[t].content = save[t].content /\ save'[t].id = save[t].id
                /\ save'[t].outcome = save[t].outcome /\ save'[t].gone = save[t].gone
<1>1. save' = [t \in Savers |-> save'[t]]
  BY DEF AnswerSave
<1>2. /\ save'[s].pc = pc /\ save'[s].answer = answer
      /\ save'[s].owner = save[s].owner /\ save'[s].key = save[s].key
      /\ save'[s].content = save[s].content /\ save'[s].id = save[s].id
      /\ save'[s].outcome = save[s].outcome /\ save'[s].gone = save[s].gone
  BY DEF AnswerSave, SaveState
<1>3. save'[s] \in SaveState
  BY ZenonT(60) DEF AnswerSave, SaveState
<1>4. \A t \in Savers : t # s => save'[t] = save[t]
  BY DEF AnswerSave
<1>5. save' \in [Savers -> SaveState]
  BY ONLY save \in [Savers -> SaveState], <1>1, <1>3, <1>4
<1> QED BY ONLY <1>2, <1>4, <1>5

LEMMA PrepareFacts ==
    ASSUME save \in [Savers -> SaveState], NEW s \in Savers, nextId \in Ids,
           save' = [save EXCEPT ![s].pc = "original", ![s].id = nextId]
    PROVE  /\ save' \in [Savers -> SaveState]
           /\ save'[s].pc = "original" /\ save'[s].id = nextId
           /\ \A t \in Savers :
                /\ t # s => save'[t] = save[t]
                /\ save'[t].owner = save[t].owner /\ save'[t].key = save[t].key
                /\ save'[t].content = save[t].content /\ save'[t].answer = save[t].answer
                /\ save'[t].outcome = save[t].outcome /\ save'[t].gone = save[t].gone
<1>0. "original" \in SavePc
  BY DEF SavePc
<1>1. save' = [t \in Savers |-> save'[t]]
  OBVIOUS
<1>2. /\ save'[s].pc = "original" /\ save'[s].id = nextId
      /\ save'[s].owner = save[s].owner /\ save'[s].key = save[s].key
      /\ save'[s].content = save[s].content /\ save'[s].answer = save[s].answer
      /\ save'[s].outcome = save[s].outcome /\ save'[s].gone = save[s].gone
  BY DEF SaveState
<1>3. save'[s] \in SaveState
  BY ZenonT(60), <1>0 DEF SaveState
<1>4. \A t \in Savers : t # s => save'[t] = save[t]
  OBVIOUS
<1>5. save' \in [Savers -> SaveState]
  BY ONLY save \in [Savers -> SaveState], <1>1, <1>3, <1>4
<1> QED BY ONLY <1>2, <1>4, <1>5

(* A crash ends every request that is neither waiting to be made nor over. *)
LEMMA CrashFacts ==
    ASSUME save \in [Savers -> SaveState], purge \in [Purging -> PurgeState], Crash
    PROVE  /\ save' \in [Savers -> SaveState]
           /\ \A s \in Savers :
                \/ save'[s] = save[s] /\ save[s].pc \in Ended
                \/ /\ save'[s].pc = "lost" /\ save'[s].answer = NoAsset
                   /\ save[s].pc \notin Ended
                   /\ save'[s].owner = save[s].owner /\ save'[s].key = save[s].key
                   /\ save'[s].content = save[s].content /\ save'[s].id = save[s].id
                   /\ save'[s].outcome = save[s].outcome /\ save'[s].gone = save[s].gone
           /\ purge' \in [Purging -> PurgeState]
           /\ \A p \in Purging :
                \/ purge'[p] = purge[p] /\ purge[p].pc \in Ended
                \/ purge'[p].pc = "idle"
                \/ /\ purge'[p].pc = "lost" /\ purge[p].pc \notin Ended
                   /\ purge'[p].id = purge[p].id /\ purge'[p].owner = purge[p].owner
<1> DEFINE lostSave(s) == [save[s] EXCEPT !.pc = "lost", !.answer = NoAsset]
           lostPurge(p) == [purge[p] EXCEPT !.pc = "lost"]
<1>1. ASSUME NEW s \in Savers
      PROVE  /\ lostSave(s) \in SaveState
             /\ lostSave(s).pc = "lost" /\ lostSave(s).answer = NoAsset
             /\ lostSave(s).owner = save[s].owner /\ lostSave(s).key = save[s].key
             /\ lostSave(s).content = save[s].content /\ lostSave(s).id = save[s].id
             /\ lostSave(s).outcome = save[s].outcome /\ lostSave(s).gone = save[s].gone
  BY ZenonT(60) DEF SaveState, SavePc
<1>2. ASSUME NEW p \in Purging
      PROVE  /\ lostPurge(p) \in PurgeState /\ lostPurge(p).pc = "lost"
             /\ lostPurge(p).id = purge[p].id /\ lostPurge(p).owner = purge[p].owner
  BY DEF PurgeState, PurgePc
<1>3. IdlePurge \in PurgeState /\ IdlePurge.pc = "idle"
  BY DEF IdlePurge, PurgeState, PurgePc, NoAsset
<1>4. save' = [s \in Savers |-> IF save[s].pc \in Ended THEN save[s] ELSE lostSave(s)]
  BY DEF Crash
<1>5. purge' = [p \in Purging |-> IF p = Boot THEN IdlePurge
                                  ELSE IF purge[p].pc \in Ended THEN purge[p]
                                  ELSE lostPurge(p)]
  BY DEF Crash
<1> HIDE DEF lostSave, lostPurge
<1>6. /\ save' \in [Savers -> SaveState]
      /\ \A s \in Savers : \/ save'[s] = save[s] /\ save[s].pc \in Ended
                           \/ save'[s] = lostSave(s) /\ save[s].pc \notin Ended
  BY <1>1, <1>4
<1>7. /\ purge' \in [Purging -> PurgeState]
      /\ \A p \in Purging : \/ purge'[p] = purge[p] /\ purge[p].pc \in Ended
                            \/ purge'[p] = IdlePurge
                            \/ purge'[p] = lostPurge(p) /\ purge[p].pc \notin Ended
  BY <1>2, <1>3, <1>5
<1> QED BY <1>1, <1>2, <1>3, <1>6, <1>7

LEMMA CommitFacts ==
    \A commit \in Commits :
        /\ commit.acked \in BOOLEAN /\ commit.applied \in BOOLEAN
        /\ commit.acked => commit.applied
<1> SUFFICES ASSUME NEW commit \in Commits
             PROVE  /\ commit.acked \in BOOLEAN /\ commit.applied \in BOOLEAN
                    /\ commit.acked => commit.applied
  OBVIOUS
<1>1. CASE commit = [applied |-> TRUE, acked |-> TRUE]
  BY <1>1
<1>2. CASE commit = [applied |-> TRUE, acked |-> FALSE]
  BY <1>2
<1>3. CASE commit = [applied |-> FALSE, acked |-> FALSE]
  BY <1>3
<1> QED BY <1>1, <1>2, <1>3 DEF Commits

LEMMA CompleteClaimType ==
    ASSUME claims \in [Owners \X Keys -> ClaimRow], NEW s \in Savers, NEW a \in Ids
    PROVE  CompleteClaim(s, a) \in [Owners \X Keys -> ClaimRow]
<1> DEFINE row == [status |-> "completed", token |-> s, expired |-> FALSE, receipt |-> a]
<1>1. row \in ClaimRow
  BY DEF ClaimRow
<1> HIDE DEF row
<1>2. [claims EXCEPT ![Slot(s)] = row] \in [Owners \X Keys -> ClaimRow]
  BY <1>1
<1> QED BY <1>2 DEF CompleteClaim, row

-----------------------------------------------------------------------------
(* Types.                                                                   *)

LEMMA TypeInitially == Init => TypeInv
<1> SUFFICES ASSUME Init PROVE TypeInv
  OBVIOUS
<1>1. /\ IdleSave \in SaveState /\ IdlePurge \in PurgeState /\ IdleRead \in ReadState
      /\ NoRow \in AssetRow /\ NoPurge \in PurgeRow /\ NoClaim \in ClaimRow
  BY DEF IdleSave, SaveState, SavePc, IdlePurge, PurgeState, PurgePc, IdleRead, ReadState,
         NoRow, AssetRow, NoPurge, PurgeRow, NoClaim, ClaimRow, NoAsset
<1>2. TypeOK
  BY <1>1, IngestAssumption DEF Init, TypeOK, Ids
<1>3. RequestsKnown
  BY DEF Init, RequestsKnown, IdleSave, IdlePurge
<1>4. RowsKnown
  BY DEF Init, RowsKnown, Retained, NoRow, NoPurge, NoClaim
<1> QED BY <1>2, <1>3, <1>4 DEF TypeInv

(* A duplicate answers with an asset of the same owner and content, or not. *)
LEMMA SettleDuplicateFacts ==
    ASSUME TypeInv, NEW s \in Savers, save[s].pc # "idle",
           NEW outcome \in [BOOLEAN -> {"uncommitted", "uncertain", "committed"}],
           SettleDuplicate(s, outcome)
    PROVE  \E a \in Ids :
             /\ Retained(a) /\ assets[a].owner = save[s].owner
             /\ assets[a].content = save[s].content
             /\ claims' = claims \/ claims' = CompleteClaim(s, a)
             /\ intents' = intents \/ intents' = intents \cup {a}
             /\ save' \in [Savers -> SaveState]
             /\ save'[s].pc = "exit" /\ save'[s].answer \in {a, NoAsset}
             /\ save'[s].outcome \in {outcome[TRUE], outcome[FALSE]}
             /\ save'[s].owner = save[s].owner /\ save'[s].key = save[s].key
             /\ save'[s].content = save[s].content /\ save'[s].id = save[s].id
             /\ save'[s].gone = save[s].gone
             /\ \A t \in Savers : t # s => save'[t] = save[t]
<1>1. PICK a \in Duplicates(save[s].owner, save[s].content), commit \in Commits :
        /\ claims' = IF commit.applied THEN CompleteClaim(s, a) ELSE claims
        /\ intents' = IF commit.applied /\ assets[a].status = "live"
                      THEN intents \cup {a} ELSE intents
        /\ LeaveSave(s, outcome[commit.acked], IF commit.acked THEN a ELSE NoAsset)
  BY DEF SettleDuplicate
<1>2. a \in Ids /\ Retained(a) /\ assets[a].owner = save[s].owner
      /\ assets[a].content = save[s].content
  BY DEF Duplicates, Retained
<1>3. commit.acked \in BOOLEAN /\ commit.applied \in BOOLEAN
  BY CommitFacts
<1> DEFINE answer == IF commit.acked THEN a ELSE NoAsset
           result == outcome[commit.acked]
<1>4. /\ answer \in Ids \cup {NoAsset} /\ answer \in {a, NoAsset}
      /\ result \in {"uncommitted", "uncertain", "committed"}
      /\ result \in {outcome[TRUE], outcome[FALSE]}
  BY <1>2, <1>3
<1>5. LeaveSave(s, result, answer)
  BY <1>1
<1>6. save \in [Savers -> SaveState]
  BY DEF TypeInv, TypeOK
<1> HIDE DEF answer, result
<1>7. /\ save' \in [Savers -> SaveState]
      /\ save'[s].pc = "exit" /\ save'[s].outcome = result /\ save'[s].answer = answer
      /\ \A t \in Savers :
           /\ t # s => save'[t] = save[t]
           /\ save'[t].owner = save[t].owner /\ save'[t].key = save[t].key
           /\ save'[t].content = save[t].content /\ save'[t].id = save[t].id
           /\ save'[t].gone = save[t].gone
  BY <1>4, <1>5, <1>6, LeaveSaveFacts
<1> QED BY <1>1, <1>2, <1>4, <1>7

(* The final commit owns a new asset completely, or changes nothing. *)
LEMMA InsertAssetFacts ==
    ASSUME TypeInv, NEW s \in Savers, save[s].pc = "final", InsertAsset(s)
    PROVE  /\ \/ /\ assets' = [assets EXCEPT ![save[s].id] =
                      [status |-> "live", owner |-> save[s].owner, content |-> save[s].content]]
                 /\ intents' = intents \cup {save[s].id}
                 /\ claims' = CompleteClaim(s, save[s].id)
                 /\ save'[s].answer \in {save[s].id, NoAsset}
              \/ UNCHANGED <<assets, intents, claims>> /\ save'[s].answer = NoAsset
           /\ save' \in [Savers -> SaveState]
           /\ save'[s].pc = "exit" /\ save'[s].outcome \in {"committed", "uncertain"}
           /\ save'[s].owner = save[s].owner /\ save'[s].key = save[s].key
           /\ save'[s].content = save[s].content /\ save'[s].id = save[s].id
           /\ save'[s].gone = save[s].gone
           /\ \A t \in Savers : t # s => save'[t] = save[t]
<1>1. PICK commit \in Commits :
        /\ IF commit.applied
           THEN /\ assets' = [assets EXCEPT ![save[s].id] =
                     [status |-> "live", owner |-> save[s].owner,
                      content |-> save[s].content]]
                /\ intents' = intents \cup {save[s].id}
                /\ claims' = CompleteClaim(s, save[s].id)
           ELSE UNCHANGED <<assets, intents, claims>>
        /\ LeaveSave(s, CommitOutcome[commit.acked],
                     IF commit.acked THEN save[s].id ELSE NoAsset)
  BY DEF InsertAsset
<1>2. /\ commit.acked \in BOOLEAN /\ commit.applied \in BOOLEAN
      /\ commit.acked => commit.applied
  BY CommitFacts
<1> DEFINE answer == IF commit.acked THEN save[s].id ELSE NoAsset
           result == CommitOutcome[commit.acked]
<1>3. save[s].id \in Ids /\ save \in [Savers -> SaveState]
  BY DEF TypeInv, TypeOK, RequestsKnown
<1>4. /\ answer \in Ids \cup {NoAsset} /\ answer \in {save[s].id, NoAsset}
      /\ ~commit.applied => answer = NoAsset
      /\ result \in {"uncertain", "committed"}
  BY <1>2, <1>3 DEF CommitOutcome
<1>5. LeaveSave(s, result, answer)
  BY <1>1
<1> HIDE DEF answer, result
<1>6. /\ save' \in [Savers -> SaveState]
      /\ save'[s].pc = "exit" /\ save'[s].outcome = result /\ save'[s].answer = answer
      /\ \A t \in Savers :
           /\ t # s => save'[t] = save[t]
           /\ save'[t].owner = save[t].owner /\ save'[t].key = save[t].key
           /\ save'[t].content = save[t].content /\ save'[t].id = save[t].id
           /\ save'[t].gone = save[t].gone
  BY <1>3, <1>4, <1>5, LeaveSaveFacts
<1> QED BY <1>1, <1>4, <1>6

(* What a settled claim is worth, and that only this claim was touched. *)
LEMMA CompleteClaimRows ==
    ASSUME TypeInv, NEW s \in Savers, save[s].pc # "idle", NEW a \in Ids,
           claims' = claims \/ claims' = CompleteClaim(s, a)
    PROVE  /\ claims' \in [Owners \X Keys -> ClaimRow]
           /\ \A slot \in Owners \X Keys :
                \/ claims'[slot] = claims[slot]
                \/ /\ Keyed(s) /\ slot = Slot(s) /\ slot[1] = save[s].owner
                   /\ claims'[slot].receipt = a
           /\ \A slot \in Owners \X Keys :
                claims'[slot].status = "completed" => claims'[slot].receipt \in Ids
<1>1. claims \in [Owners \X Keys -> ClaimRow]
  BY DEF TypeInv, TypeOK
<1>2. \A slot \in Owners \X Keys :
        claims[slot].status = "completed" => claims[slot].receipt \in Ids
  BY DEF TypeInv, RowsKnown
<1>3. CASE claims' = claims
  BY <1>1, <1>2, <1>3
<1>4. CASE claims' = CompleteClaim(s, a)
  <2>1. claims' \in [Owners \X Keys -> ClaimRow]
    BY <1>1, <1>4, CompleteClaimType
  <2>2. \A slot \in Owners \X Keys :
          \/ claims'[slot] = claims[slot]
          \/ /\ Keyed(s) /\ slot = Slot(s) /\ slot[1] = save[s].owner
             /\ claims'[slot].receipt = a
    BY <1>1, <1>4 DEF CompleteClaim, Slot
  <2> QED BY <1>2, <2>1, <2>2
<1> QED BY <1>3, <1>4

(* Receipts that are swept away leave no row, the others stay. *)
LEMMA SweptFacts ==
    ASSUME claims \in [Owners \X Keys -> ClaimRow], NEW o \in Owners
    PROVE  /\ Swept(o) \in [Owners \X Keys -> ClaimRow]
           /\ \A slot \in Owners \X Keys : Swept(o)[slot] \in {claims[slot], NoClaim}
<1>1. NoClaim \in ClaimRow
  BY DEF NoClaim, ClaimRow, NoAsset
<1> QED BY <1>1 DEF Swept

LEMMA TypeStep == TypeInv /\ [Next]_vars => TypeInv'
<1> SUFFICES ASSUME TypeInv, [Next]_vars PROVE TypeInv'
  OBVIOUS
<1> USE DEF process, locks, tables, disk, requests
<1>0. /\ save \in [Savers -> SaveState] /\ purge \in [Purging -> PurgeState]
      /\ claims \in [Owners \X Keys -> ClaimRow]
  BY DEF TypeInv, TypeOK
<1>1. ASSUME NEW s \in Savers, AcceptUnkeyed(s) PROVE TypeInv'
  <2>1. PICK o \in Owners, k \in Keys \cup {None}, c \in Contents :
          Accept(s, o, k, c, "admission")
    BY <1>1 DEF AcceptUnkeyed
  <2>2. "admission" \in SavePc /\ save \in [Savers -> SaveState]
    BY <1>0 DEF SavePc
  <2>3. save' \in [Savers -> SaveState]
    BY <2>1, <2>2, AcceptFacts
  <2>4. save'[s].pc = "admission" /\ save'[s].owner = o /\ save'[s].content = c
    BY <2>1, <2>2, AcceptFacts
  <2>5. \A t \in Savers : t # s => save'[t] = save[t]
    BY <2>1, <2>2, AcceptFacts
  <2>6. TypeOK'
    BY <1>1, <2>3 DEF AcceptUnkeyed, TypeInv, TypeOK
  <2>7. RequestsKnown'
    BY <1>1, <2>4, <2>5 DEF AcceptUnkeyed, TypeInv, RequestsKnown
  <2>8. RowsKnown'
    BY <1>1 DEF AcceptUnkeyed, TypeInv, RowsKnown, Retained
  <2> QED BY <2>6, <2>7, <2>8 DEF TypeInv
<1>2. ASSUME NEW s \in Savers, Claim(s) PROVE TypeInv'
  <2>1. PICK o \in Owners, k \in Keys, c \in Contents :
          \/ /\ claims' = [Swept(o) EXCEPT ![<<o, k>>] =
                   [status |-> "processing", token |-> s, expired |-> FALSE,
                    receipt |-> NoAsset]]
             /\ Accept(s, o, k, c, "admission")
          \/ /\ claims' = Swept(o)
             /\ Accept(s, o, k, c, "receipt")
    BY <1>2 DEF Claim
  <2>2. k \in Keys \cup {None} /\ {"admission", "receipt"} \subseteq SavePc
    BY DEF SavePc
  <2>3. PICK pc \in {"admission", "receipt"} : Accept(s, o, k, c, pc)
    BY <2>1
  <2>4. /\ save' \in [Savers -> SaveState]
        /\ save'[s].pc = pc /\ save'[s].owner = o /\ save'[s].content = c
        /\ save'[s].key = k
        /\ \A t \in Savers : t # s => save'[t] = save[t]
    BY <1>0, <2>2, <2>3, AcceptFacts
  <2>5. /\ claims' \in [Owners \X Keys -> ClaimRow]
        /\ \A slot \in Owners \X Keys :
             claims'[slot].status = "completed" => claims'[slot].receipt \in Ids
    <3> DEFINE row == [status |-> "processing", token |-> s, expired |-> FALSE,
                       receipt |-> NoAsset]
    <3>1. row \in ClaimRow /\ row.status # "completed" /\ NoClaim.status # "completed"
      BY DEF ClaimRow, NoClaim
    <3> HIDE DEF row
    <3>2. claims' = Swept(o) \/ claims' = [Swept(o) EXCEPT ![<<o, k>>] = row]
      BY <2>1 DEF row
    <3>3. \A slot \in Owners \X Keys :
            claims[slot].status = "completed" => claims[slot].receipt \in Ids
      BY DEF TypeInv, RowsKnown
    <3> QED BY ZenonT(60), <1>0, <3>1, <3>2, <3>3, SweptFacts
  <2> QED
    BY <1>2, <2>4, <2>5 DEF Claim, TypeInv, TypeOK, RequestsKnown, RowsKnown, Retained
<1>3. ASSUME NEW s \in Savers, ReadReceipt(s) PROVE TypeInv'
  <2>1. CASE claims[Slot(s)].status = "completed"
    <3>1. Slot(s) \in Owners \X Keys
      BY <1>3 DEF ReadReceipt, Slot, TypeInv, RequestsKnown
    <3>2. claims[Slot(s)].receipt \in Ids \cup {NoAsset} /\ "replay" \in SavePc
      BY <1>0, <3>1, <2>1 DEF ClaimRow, SavePc
    <3>3. AnswerSave(s, "replay", claims[Slot(s)].receipt)
      BY <1>3, <2>1 DEF ReadReceipt
    <3>4. /\ save' \in [Savers -> SaveState]
          /\ save'[s].pc = "replay"
          /\ \A t \in Savers :
               /\ t # s => save'[t] = save[t]
               /\ save'[t].owner = save[t].owner /\ save'[t].key = save[t].key
               /\ save'[t].content = save[t].content
      BY <1>0, <3>2, <3>3, AnswerSaveFacts
    <3>5. UNCHANGED <<server, crashes, admission, shared, exclusive, assets, intents,
                      purges, claims, files, spools, nextId, purge, read>>
      BY <1>3 DEF ReadReceipt
    <3>6. TypeOK'
      BY <3>4, <3>5 DEF TypeInv, TypeOK
    <3>7. RequestsKnown'
      BY <1>3, <3>4, <3>5 DEF ReadReceipt, TypeInv, RequestsKnown
    <3>8. RowsKnown'
      BY <3>5 DEF TypeInv, RowsKnown, Retained
    <3> QED
      BY <3>6, <3>7, <3>8 DEF TypeInv
  <2>2. CASE claims[Slot(s)].status # "completed"
    <3>1. GoSave(s, "done") /\ "done" \in SavePc
      BY <1>3, <2>2 DEF ReadReceipt, SavePc
    <3>4. /\ save' \in [Savers -> SaveState]
          /\ save'[s].pc = "done"
          /\ \A t \in Savers :
               /\ t # s => save'[t] = save[t]
               /\ save'[t].owner = save[t].owner /\ save'[t].content = save[t].content
      BY <1>0, <3>1, GoSaveFacts
    <3>5. UNCHANGED <<server, crashes, admission, shared, exclusive, assets, intents,
                      purges, claims, files, spools, nextId, purge, read>>
      BY <1>3 DEF ReadReceipt
    <3>6. TypeOK'
      BY <3>4, <3>5 DEF TypeInv, TypeOK
    <3>7. RequestsKnown'
      BY <1>3, <3>4, <3>5 DEF ReadReceipt, TypeInv, RequestsKnown
    <3>8. RowsKnown'
      BY <3>5 DEF TypeInv, RowsKnown, Retained
    <3> QED
      BY <3>6, <3>7, <3>8 DEF TypeInv
  <2> QED BY <2>1, <2>2
<1>4. ASSUME NEW s \in Savers, Replay(s) PROVE TypeInv'
  <2>1. PICK answer \in Ids \cup {NoAsset} : AnswerSave(s, "done", answer)
    BY <1>0, <1>4 DEF Replay, SaveState
  <2>2. "done" \in SavePc
    BY DEF SavePc
  <2>3. /\ save' \in [Savers -> SaveState]
        /\ save'[s].pc = "done"
        /\ \A t \in Savers :
             /\ t # s => save'[t] = save[t]
             /\ save'[t].owner = save[t].owner /\ save'[t].content = save[t].content
    BY <1>0, <2>1, <2>2, AnswerSaveFacts
  <2> QED
    BY <1>4, <2>3 DEF Replay, TypeInv, TypeOK, RequestsKnown, RowsKnown, Retained
<1>5. ASSUME NEW s \in Savers, SaveAdmission(s) PROVE TypeInv'
  <2>1. GoSave(s, "library") /\ "library" \in SavePc
    BY <1>5 DEF SaveAdmission, SavePc
  <2> QED
    BY <1>0, <1>5, <2>1, GoSaveFacts
       DEF SaveAdmission, TypeInv, TypeOK, RequestsKnown, RowsKnown, Retained
<1>6. ASSUME NEW s \in Savers, SaveLibrary(s) PROVE TypeInv'
  <2>1. GoSave(s, "spool") /\ "spool" \in SavePc
    BY <1>6 DEF SaveLibrary, SavePc
  <2> QED
    BY <1>0, <1>6, <2>1, GoSaveFacts
       DEF SaveLibrary, TypeInv, TypeOK, RequestsKnown, RowsKnown, Retained
<1>7. ASSUME NEW s \in Savers, Spool(s) PROVE TypeInv'
  <2>1. GoSave(s, "early") /\ "early" \in SavePc
    BY <1>7 DEF Spool, SavePc
  <2> QED
    BY <1>0, <1>7, <2>1, GoSaveFacts
       DEF Spool, TypeInv, TypeOK, RequestsKnown, RowsKnown, Retained
<1>8. ASSUME NEW s \in Savers, EarlyTransaction(s) PROVE TypeInv'
  <2>1. CASE SettleDuplicate(s, CommitOutcome)
    <3>0. CommitOutcome \in [BOOLEAN -> {"uncommitted", "uncertain", "committed"}]
      BY DEF CommitOutcome
    <3>1. PICK a \in Ids :
             /\ claims' = claims \/ claims' = CompleteClaim(s, a)
             /\ intents' = intents \/ intents' = intents \cup {a}
             /\ save' \in [Savers -> SaveState] /\ save'[s].pc = "exit"
             /\ save'[s].owner = save[s].owner /\ save'[s].content = save[s].content
             /\ \A t \in Savers : t # s => save'[t] = save[t]
      BY <1>8, <2>1, <3>0, SettleDuplicateFacts DEF EarlyTransaction
    <3>2. /\ claims' \in [Owners \X Keys -> ClaimRow]
          /\ \A slot \in Owners \X Keys :
               claims'[slot].status = "completed" => claims'[slot].receipt \in Ids
      BY <1>8, <3>1, CompleteClaimRows DEF EarlyTransaction
    <3> QED
      BY <1>8, <3>1, <3>2 DEF EarlyTransaction, TypeInv, TypeOK, RequestsKnown, RowsKnown, Retained
  <2>2. CASE UNCHANGED <<claims, intents>> /\ \E pc \in {"prepare", "exit"} : GoSave(s, pc)
    <3>1. PICK pc \in {"prepare", "exit"} : GoSave(s, pc)
      BY <2>2
    <3>2. pc \in SavePc
      BY DEF SavePc
    <3> QED
      BY <1>0, <1>8, <2>2, <3>1, <3>2, GoSaveFacts
         DEF EarlyTransaction, TypeInv, TypeOK, RequestsKnown, RowsKnown, Retained
  <2> QED BY <1>8, <2>1, <2>2 DEF EarlyTransaction
<1>9. ASSUME NEW s \in Savers, Prepare(s) PROVE TypeInv'
  <2>1. CASE nextId \in Ids /\ save' = [save EXCEPT ![s].pc = "original", ![s].id = nextId]
             /\ nextId' = nextId + 1
    <3>1. nextId' \in 1 .. MaxAssets + 1
      BY <2>1, IngestAssumption DEF TypeInv, TypeOK, Ids
    <3> QED
      BY ZenonT(60), <1>0, <1>9, <2>1, <3>1, PrepareFacts
         DEF Prepare, TypeInv, TypeOK, RequestsKnown, RowsKnown, Retained
  <2>2. CASE GoSave(s, "exit") /\ UNCHANGED nextId
    <3>1. "exit" \in SavePc
      BY DEF SavePc
    <3> QED
      BY ZenonT(60), <1>0, <1>9, <2>2, <3>1, GoSaveFacts
         DEF Prepare, TypeInv, TypeOK, RequestsKnown, RowsKnown, Retained
  <2> QED BY <1>9, <2>1, <2>2 DEF Prepare
<1>10. ASSUME NEW s \in Savers, PutOriginal(s) PROVE TypeInv'
  <2>1. PICK pc \in {"poster", "exit"} : GoSave(s, pc)
    BY <1>10 DEF PutOriginal, Put
  <2>2. pc \in SavePc /\ save[s].id \in Ids /\ "original" \in Parts
    BY <1>10 DEF PutOriginal, Put, SavePc, TypeInv, RequestsKnown, Parts
  <2> QED
    BY <1>0, <1>10, <2>1, <2>2, GoSaveFacts
       DEF PutOriginal, Put, TypeInv, TypeOK, RequestsKnown, RowsKnown, Retained
<1>11. ASSUME NEW s \in Savers, PutPoster(s) PROVE TypeInv'
  <2>1. PICK pc \in {"final", "exit"} : GoSave(s, pc)
    BY <1>11 DEF PutPoster, Put
  <2>2. pc \in SavePc /\ save[s].id \in Ids /\ "poster" \in Parts
    BY <1>11 DEF PutPoster, Put, SavePc, TypeInv, RequestsKnown, Parts
  <2> QED
    BY <1>0, <1>11, <2>1, <2>2, GoSaveFacts
       DEF PutPoster, Put, TypeInv, TypeOK, RequestsKnown, RowsKnown, Retained
<1>12. ASSUME NEW s \in Savers, FinalTransaction(s) PROVE TypeInv'
  <2>1. CASE SettleDuplicate(s, StagedOutcome) /\ UNCHANGED assets
    <3>0. StagedOutcome \in [BOOLEAN -> {"uncommitted", "uncertain", "committed"}]
      BY DEF StagedOutcome
    <3>1. PICK a \in Ids :
             /\ claims' = claims \/ claims' = CompleteClaim(s, a)
             /\ intents' = intents \/ intents' = intents \cup {a}
             /\ save' \in [Savers -> SaveState] /\ save'[s].pc = "exit"
             /\ save'[s].owner = save[s].owner /\ save'[s].content = save[s].content
             /\ \A t \in Savers : t # s => save'[t] = save[t]
      BY <1>12, <2>1, <3>0, SettleDuplicateFacts DEF FinalTransaction
    <3>2. /\ claims' \in [Owners \X Keys -> ClaimRow]
          /\ \A slot \in Owners \X Keys :
               claims'[slot].status = "completed" => claims'[slot].receipt \in Ids
      BY <1>12, <3>1, CompleteClaimRows DEF FinalTransaction
    <3> QED
      BY <1>12, <2>1, <3>1, <3>2
         DEF FinalTransaction, TypeInv, TypeOK, RequestsKnown, RowsKnown, Retained
  <2>2. CASE InsertAsset(s)
    <3>1. /\ save[s].id \in Ids /\ save[s].pc = "final"
          /\ save[s].owner \in Owners /\ save[s].content \in Contents
      BY <1>12 DEF FinalTransaction, TypeInv, RequestsKnown
    <3> DEFINE row == [status |-> "live", owner |-> save[s].owner, content |-> save[s].content]
    <3>2. row \in AssetRow /\ row.owner \in Owners /\ row.content \in Contents
      BY <3>1 DEF AssetRow
    <3> HIDE DEF row
    <3>3. /\ assets' = assets \/ assets' = [assets EXCEPT ![save[s].id] = row]
          /\ intents' = intents \/ intents' = intents \cup {save[s].id}
          /\ claims' = claims \/ claims' = CompleteClaim(s, save[s].id)
          /\ save' \in [Savers -> SaveState] /\ save'[s].pc = "exit"
          /\ save'[s].owner = save[s].owner /\ save'[s].content = save[s].content
          /\ \A t \in Savers : t # s => save'[t] = save[t]
      BY <2>2, <3>1, InsertAssetFacts DEF row
    <3>4. /\ claims' \in [Owners \X Keys -> ClaimRow]
          /\ \A slot \in Owners \X Keys :
               claims'[slot].status = "completed" => claims'[slot].receipt \in Ids
      BY <3>1, <3>3, CompleteClaimRows
    <3> QED
      BY ZenonT(60), <1>12, <3>1, <3>2, <3>3, <3>4
         DEF FinalTransaction, TypeInv, TypeOK, RequestsKnown, RowsKnown, Retained
  <2>3. CASE GoSave(s, "exit") /\ UNCHANGED <<assets, claims, intents>>
    <3>1. "exit" \in SavePc
      BY DEF SavePc
    <3> QED
      BY <1>0, <1>12, <2>3, <3>1, GoSaveFacts
         DEF FinalTransaction, TypeInv, TypeOK, RequestsKnown, RowsKnown, Retained
  <2> QED BY <1>12, <2>1, <2>2, <2>3 DEF FinalTransaction
<1>13. ASSUME NEW s \in Savers, Refuse(s) PROVE TypeInv'
  <2>1. CASE GoSave(s, "exit")
    <3>1. "exit" \in SavePc
      BY DEF SavePc
    <3> QED
      BY <1>0, <1>13, <2>1, <3>1, GoSaveFacts
         DEF Refuse, TypeInv, TypeOK, RequestsKnown, RowsKnown, Retained
  <2>2. CASE AnswerSave(s, "done", NoAsset)
    <3>1. "done" \in SavePc
      BY DEF SavePc
    <3>2. /\ save' \in [Savers -> SaveState]
          /\ save'[s].pc = "done"
          /\ \A t \in Savers :
               /\ t # s => save'[t] = save[t]
               /\ save'[t].owner = save[t].owner /\ save'[t].content = save[t].content
      BY <1>0, <2>2, <3>1, AnswerSaveFacts
    <3> QED
      BY <1>13, <3>2 DEF Refuse, TypeInv, TypeOK, RequestsKnown, RowsKnown, Retained
  <2> QED BY <1>13, <2>1, <2>2 DEF Refuse
<1>14. ASSUME NEW s \in Savers, Cleanup(s) PROVE TypeInv'
  <2>1. GoSave(s, "unlock") /\ "unlock" \in SavePc
    BY <1>14 DEF Cleanup, SavePc, Unlinked
  <2> QED
    BY <1>0, <1>14, <2>1, GoSaveFacts
       DEF Cleanup, TypeInv, TypeOK, RequestsKnown, RowsKnown, Retained, Unlinked
<1>15. ASSUME NEW s \in Savers, SaveUnlock(s) PROVE TypeInv'
  <2>1. GoSave(s, "release") /\ "release" \in SavePc
    BY <1>15 DEF SaveUnlock, SavePc
  <2> QED
    BY <1>0, <1>15, <2>1, GoSaveFacts
       DEF SaveUnlock, TypeInv, TypeOK, RequestsKnown, RowsKnown, Retained
<1>16. ASSUME NEW s \in Savers, ReleaseClaim(s) PROVE TypeInv'
  <2>1. GoSave(s, "done") /\ "done" \in SavePc
    BY <1>16 DEF ReleaseClaim, SavePc
  <2>2. NoClaim \in ClaimRow /\ NoClaim.status # "completed"
    BY DEF NoClaim, ClaimRow, NoAsset
  <2>3. claims' = claims \/ claims' = [claims EXCEPT ![Slot(s)] = NoClaim]
    BY <1>16 DEF ReleaseClaim
  <2>4. /\ claims' \in [Owners \X Keys -> ClaimRow]
        /\ \A slot \in Owners \X Keys :
             claims'[slot].status = "completed" => claims'[slot].receipt \in Ids
    BY <1>0, <2>2, <2>3 DEF TypeInv, RowsKnown
  <2> QED
    BY <1>0, <1>16, <2>1, <2>4, GoSaveFacts
       DEF ReleaseClaim, TypeInv, TypeOK, RequestsKnown, RowsKnown, Retained
<1>17. ASSUME NEW slot \in Owners \X Keys, LeaseOrReceiptExpires(slot) PROVE TypeInv'
  <2>1. /\ claims' \in [Owners \X Keys -> ClaimRow]
        /\ \A other \in Owners \X Keys :
             claims'[other].status = "completed" => claims'[other].receipt \in Ids
    BY ZenonT(60), <1>0, <1>17 DEF LeaseOrReceiptExpires, ClaimRow, TypeInv, RowsKnown
  <2> QED
    BY <1>17, <2>1 DEF LeaseOrReceiptExpires, TypeInv, TypeOK, RequestsKnown, RowsKnown, Retained
<1>18. ASSUME NEW a \in Ids, Trash(a) PROVE TypeInv'
  <2>1. /\ assets' \in [Ids -> AssetRow]
        /\ \A b \in Ids :
             /\ assets'[b].status # "absent" <=> assets[b].status # "absent"
             /\ assets'[b].owner = assets[b].owner /\ assets'[b].content = assets[b].content
    BY <1>18 DEF Trash, AssetRow, TypeInv, TypeOK
  <2> QED
    BY <1>18, <2>1 DEF Trash, TypeInv, TypeOK, RequestsKnown, RowsKnown, Retained
<1>19. ASSUME NEW a \in Ids, Restore(a) PROVE TypeInv'
  <2>1. /\ assets' \in [Ids -> AssetRow]
        /\ \A b \in Ids :
             /\ assets'[b].status # "absent" <=> assets[b].status # "absent"
             /\ assets'[b].owner = assets[b].owner /\ assets'[b].content = assets[b].content
    BY <1>19 DEF Restore, AssetRow, TypeInv, TypeOK
  <2> QED
    BY <1>19, <2>1 DEF Restore, TypeInv, TypeOK, RequestsKnown, RowsKnown, Retained
<1>20. ASSUME NEW p \in Purgers, BeginPurge(p) PROVE TypeInv'
  <2>1. PICK o \in Owners, a \in 1 .. nextId - 1 :
          purge' = [purge EXCEPT ![p] = [IdlePurge EXCEPT
                      !.pc = "admission", !.owner = o, !.id = a]]
    BY <1>20 DEF BeginPurge
  <2>2. a \in Ids /\ p \in Purging
    BY IngestAssumption DEF TypeInv, TypeOK, Ids, Purging
  <2> DEFINE new == [IdlePurge EXCEPT !.pc = "admission", !.owner = o, !.id = a]
  <2>3. new \in PurgeState /\ new.id = a /\ new.owner = o
    BY <2>2 DEF IdlePurge, PurgeState, PurgePc
  <2>4. purge' = [purge EXCEPT ![p] = new]
    BY <2>1
  <2> HIDE DEF new
  <2> QED
    BY <1>0, <1>20, <2>2, <2>3, <2>4
       DEF BeginPurge, TypeInv, TypeOK, RequestsKnown, RowsKnown, Retained
<1>21. ASSUME NEW p \in Purgers, PurgeAdmission(p) PROVE TypeInv'
  <2>1. GoPurge(p, "library") /\ "library" \in PurgePc /\ p \in Purging
    BY <1>21 DEF PurgeAdmission, PurgePc, Purging
  <2> QED
    BY <1>0, <1>21, <2>1, GoPurgeFacts
       DEF PurgeAdmission, TypeInv, TypeOK, RequestsKnown, RowsKnown, Retained
<1>22. ASSUME NEW p \in Purgers, PurgeLibrary(p) PROVE TypeInv'
  <2>1. GoPurge(p, "detach") /\ "detach" \in PurgePc /\ p \in Purging
    BY <1>22 DEF PurgeLibrary, PurgePc, Purging
  <2> QED
    BY <1>0, <1>22, <2>1, GoPurgeFacts
       DEF PurgeLibrary, TypeInv, TypeOK, RequestsKnown, RowsKnown, Retained
<1>23. ASSUME NEW p \in Purgers, Detach(p) PROVE TypeInv'
  <2>1. /\ p \in Purging /\ purge[p].id \in Ids /\ purge[p].owner \in Owners \cup {None}
        /\ purge[p].pc # "idle"
    BY <1>0, <1>23 DEF Detach, Purging, PurgeState, TypeInv, RequestsKnown
  <2>2. /\ purge' \in [Purging -> PurgeState]
        /\ \A q \in Purging :
             /\ q # p => purge'[q] = purge[q]
             /\ purge'[q].owner = purge[q].owner /\ purge'[q].id = purge[q].id
    <3>1. \/ GoPurge(p, "check") \/ LeavePurge(p, "ok") \/ LeavePurge(p, "incomplete")
          \/ LeavePurge(p, "refused")
      BY <1>23 DEF Detach
    <3>2. "check" \in PurgePc
      BY DEF PurgePc
    <3> QED BY <1>0, <2>1, <3>1, <3>2, GoPurgeFacts, LeavePurgeFacts
  <2> DEFINE intent == [status |-> "pending", owner |-> purge[p].owner]
  <2>3. /\ intent \in PurgeRow
        /\ NoRow \in AssetRow /\ NoRow.status = "absent"
    BY <2>1 DEF PurgeRow, AssetRow, NoRow
  <2>4. \/ UNCHANGED tables
        \/ /\ purges' = [purges EXCEPT ![purge[p].id] = intent]
           /\ assets' = [assets EXCEPT ![purge[p].id] = NoRow]
           /\ intents' = intents \ {purge[p].id}
           /\ UNCHANGED claims
    BY <1>23 DEF Detach
  <2> HIDE DEF intent
  <2>5. TypeOK'
    BY <1>23, <2>2, <2>3, <2>4 DEF Detach, TypeInv, TypeOK
  <2>6. RequestsKnown'
    <3>1. purge'[p].id \in Ids /\ UNCHANGED save
      BY <1>23, <2>1, <2>2 DEF Detach
    <3> QED BY <2>2, <3>1 DEF TypeInv, RequestsKnown
  <2>7. RowsKnown'
    <3>1. CASE UNCHANGED tables
      BY <3>1 DEF TypeInv, RowsKnown, Retained
    <3>2. CASE ~UNCHANGED tables
      BY <2>1, <2>3, <2>4, <3>2 DEF TypeInv, TypeOK, RowsKnown, Retained
    <3> QED BY <3>1, <3>2
  <2> QED BY <2>5, <2>6, <2>7 DEF TypeInv
<1>24. ASSUME NEW p \in Purging, CheckReferenced(p) PROVE TypeInv'
  <2>1. /\ GoPurge(p, "original") \/ LeavePurge(p, "incomplete")
        /\ "original" \in PurgePc /\ purge[p].pc # "idle"
    BY <1>24 DEF CheckReferenced, Interrupted, PurgePc
  <2> QED
    BY <1>0, <1>24, <2>1, GoPurgeFacts, LeavePurgeFacts
       DEF CheckReferenced, TypeInv, TypeOK, RequestsKnown, RowsKnown, Retained
<1>25. ASSUME NEW p \in Purging, UnlinkOriginal(p) PROVE TypeInv'
  <2>1. /\ GoPurge(p, "poster") \/ LeavePurge(p, "incomplete")
        /\ "poster" \in PurgePc /\ purge[p].pc # "idle"
        /\ files' \subseteq files
    BY <1>25 DEF UnlinkOriginal, Unlink, Interrupted, PurgePc
  <2> QED
    BY <1>0, <1>25, <2>1, GoPurgeFacts, LeavePurgeFacts
       DEF UnlinkOriginal, Unlink, TypeInv, TypeOK, RequestsKnown, RowsKnown, Retained
<1>26. ASSUME NEW p \in Purging, UnlinkPoster(p) PROVE TypeInv'
  <2>1. /\ GoPurge(p, "complete") \/ LeavePurge(p, "incomplete")
        /\ "complete" \in PurgePc /\ purge[p].pc # "idle"
        /\ files' \subseteq files
    BY <1>26 DEF UnlinkPoster, Unlink, Interrupted, PurgePc
  <2> QED
    BY <1>0, <1>26, <2>1, GoPurgeFacts, LeavePurgeFacts
       DEF UnlinkPoster, Unlink, TypeInv, TypeOK, RequestsKnown, RowsKnown, Retained
<1>27. ASSUME NEW p \in Purgers, AbandonPurge(p) PROVE TypeInv'
  <2>1. LeavePurge(p, "incomplete") /\ purge[p].pc # "idle" /\ p \in Purging
    BY <1>27 DEF AbandonPurge, Purging
  <2> QED
    BY <1>0, <1>27, <2>1, LeavePurgeFacts
       DEF AbandonPurge, TypeInv, TypeOK, RequestsKnown, RowsKnown, Retained
<1>28. ASSUME NEW p \in Purgers, PurgeUnlock(p) PROVE TypeInv'
  <2>1. GoPurge(p, "done") /\ "done" \in PurgePc /\ p \in Purging
    BY <1>28 DEF PurgeUnlock, PurgePc, Purging
  <2> QED
    BY <1>0, <1>28, <2>1, GoPurgeFacts
       DEF PurgeUnlock, TypeInv, TypeOK, RequestsKnown, RowsKnown, Retained
<1>29. ASSUME StartServer PROVE TypeInv'
  <2> QED
    BY <1>29 DEF StartServer, Purging, TypeInv, TypeOK, RequestsKnown, RowsKnown, Retained
<1>30. ASSUME ResumePurge PROVE TypeInv'
  <2>1. PICK a \in Ids :
          /\ Pending(a)
          /\ purge' = [purge EXCEPT ![Boot] = [IdlePurge EXCEPT
                         !.pc = "check", !.owner = purges[a].owner, !.id = a]]
    BY <1>30 DEF ResumePurge
  <2>2. purges[a].owner \in Owners \cup {None} /\ Boot \in Purging
    BY <2>1 DEF Purging, TypeInv, TypeOK, PurgeRow
  <2> DEFINE new == [IdlePurge EXCEPT !.pc = "check", !.owner = purges[a].owner, !.id = a]
  <2>3. new \in PurgeState /\ new.id = a
    BY <2>2 DEF IdlePurge, PurgeState, PurgePc
  <2>4. purge' = [purge EXCEPT ![Boot] = new]
    BY <2>1
  <2> HIDE DEF new
  <2> QED
    BY <1>0, <1>30, <2>2, <2>3, <2>4
       DEF ResumePurge, TypeInv, TypeOK, RequestsKnown, RowsKnown, Retained
<1>31. ASSUME Resumed PROVE TypeInv'
  <2>1. IdlePurge \in PurgeState /\ IdlePurge.pc = "idle" /\ Boot \in Purging
    BY DEF IdlePurge, PurgeState, PurgePc, Purging, NoAsset
  <2> QED
    BY <1>0, <1>31, <2>1 DEF Resumed, TypeInv, TypeOK, RequestsKnown, RowsKnown, Retained
<1>32. ASSUME Serve PROVE TypeInv'
  <2> QED
    BY <1>32 DEF Serve, TypeInv, TypeOK, RequestsKnown, RowsKnown, Retained
<1>33. ASSUME NEW p \in Purging, CompletePurge(p) PROVE TypeInv'
  <2>1. /\ LeavePurge(p, "ok") \/ LeavePurge(p, "incomplete")
        /\ purge[p].pc # "idle" /\ purge[p].id \in Ids
    BY <1>33 DEF CompletePurge, Interrupted, TypeInv, RequestsKnown
  <2>2. purges' \in [Ids -> PurgeRow]
    BY <1>33, <2>1 DEF CompletePurge, Tombstone, PurgeRow, TypeInv, TypeOK
  <2>3. /\ purge' \in [Purging -> PurgeState]
        /\ \A q \in Purging :
             /\ q # p => purge'[q] = purge[q]
             /\ purge'[q].id = purge[q].id
    BY <1>0, <2>1, LeavePurgeFacts
  <2> QED
    BY <1>33, <2>1, <2>2, <2>3
       DEF CompletePurge, TypeInv, TypeOK, RequestsKnown, RowsKnown, Retained
<1>34. ASSUME Crash PROVE TypeInv'
  <2>1. /\ save' \in [Savers -> SaveState]
        /\ \A s \in Savers :
             \/ save'[s] = save[s]
             \/ /\ save'[s].pc = "lost" /\ save[s].pc # "idle"
                /\ save'[s].owner = save[s].owner /\ save'[s].content = save[s].content
    BY <1>0, CrashFacts, <1>34 DEF Ended
  <2>2. /\ purge' \in [Purging -> PurgeState]
        /\ \A p \in Purging :
             \/ purge'[p] = purge[p]
             \/ purge'[p].pc = "idle"
             \/ purge'[p].pc = "lost" /\ purge[p].pc # "idle" /\ purge'[p].id = purge[p].id
    BY <1>0, CrashFacts, <1>34 DEF Ended
  <2>3. /\ read' \in [Readers -> ReadState]
        /\ crashes' \in 0 .. MaxCrashes /\ shared' \subseteq shared
    <3>1. ASSUME NEW r \in Readers PROVE [read[r] EXCEPT !.pc = "done"] \in ReadState
      BY DEF ReadState, TypeInv, TypeOK
    <3>2. read' \in [Readers -> ReadState]
      BY <1>34, <3>1 DEF Crash, TypeInv, TypeOK
    <3>3. crashes' \in 0 .. MaxCrashes
      <4>1. crashes \in 0 .. MaxCrashes /\ crashes < MaxCrashes /\ crashes' = crashes + 1
        BY <1>34 DEF Crash, TypeInv, TypeOK
      <4>2. MaxCrashes \in Nat
        BY IngestAssumption
      <4> QED BY ONLY <4>1, <4>2
    <3>4. shared' \subseteq shared
      BY <1>34 DEF Crash
    <3> QED BY <3>2, <3>3, <3>4
  <2>4. TypeOK'
    BY <1>34, <2>1, <2>2, <2>3 DEF Crash, TypeInv, TypeOK
  <2>5. RequestsKnown'
    BY <2>1, <2>2 DEF TypeInv, RequestsKnown
  <2>6. RowsKnown'
    BY <1>34 DEF Crash, TypeInv, RowsKnown, Retained
  <2> QED BY <2>4, <2>5, <2>6 DEF TypeInv
<1>35. ASSUME NEW r \in Readers, NEW kind \in {"open", "backup"}, LockRead(r, kind) PROVE TypeInv'
  <2>1. read' \in [Readers -> ReadState]
    BY ZenonT(60), <1>35 DEF LockRead, ReadState, TypeInv, TypeOK
  <2> QED
    BY <1>35, <2>1 DEF LockRead, TypeInv, TypeOK, RequestsKnown, RowsKnown, Retained
<1>36. ASSUME NEW r \in Readers, ReadStep(r) PROVE TypeInv'
  <2>1. PICK wanted \in SUBSET Ids : Reads(r, wanted)
    BY <1>36 DEF ReadStep, ReadRow, SnapshotRows
  <2>2. read' \in [Readers -> ReadState]
    BY ZenonT(60), <2>1 DEF Reads, ReadState, TypeInv, TypeOK
  <2> QED
    BY <2>1, <2>2 DEF Reads, TypeInv, TypeOK, RequestsKnown, RowsKnown, Retained
<1>37. ASSUME NEW r \in Readers, EndRead(r) PROVE TypeInv'
  <2>1. read' \in [Readers -> ReadState]
    BY <1>37 DEF EndRead, ReadState, TypeInv, TypeOK
  <2> QED
    BY <1>37, <2>1 DEF EndRead, TypeInv, TypeOK, RequestsKnown, RowsKnown, Retained
<1>38. CASE UNCHANGED vars
  BY <1>38 DEF vars, TypeInv, TypeOK, RequestsKnown, RowsKnown, Retained
<1>39. Boot \in Purging /\ Purgers \subseteq Purging
  BY DEF Purging
<1> QED
  BY <1>1, <1>2, <1>3, <1>4, <1>5, <1>6, <1>7, <1>8, <1>9, <1>10, <1>11, <1>12, <1>13,
     <1>14, <1>15, <1>16, <1>17, <1>18, <1>19, <1>20, <1>21, <1>22, <1>23, <1>24, <1>25,
     <1>26, <1>27, <1>28, <1>29, <1>30, <1>31, <1>32, <1>33, <1>34, <1>35, <1>36, <1>37,
     <1>38, <1>39
     DEF Next, SaveStep, PurgeStep, FinishStep, BootStep, LockOpen, LockBackup, Quiescent

(* Every variable keeps its type, whatever crashes, faults and requests do. *)
THEOREM TypeCorrect == Spec => []TypeOK
<1>1. TypeInv => TypeOK
  BY DEF TypeInv
<1> QED BY TypeInitially, TypeStep, <1>1, PTL DEF Spec

-----------------------------------------------------------------------------
(* Media.  Identifiers are drawn in order and belong to one save each; a     *)
(* deletion record means the row is gone; what a save has staged is nobody's *)
(* until its commit, and published so far as its position says; what a       *)
(* deletion unlinks is detached, and gone so far as its position says.       *)

Unsettled == {"receipt", "replay", "admission", "library", "spool", "early", "prepare",
              "original", "poster", "final"}

IdsFresh ==
    /\ \A a \in Ids : Retained(a) \/ purges[a].status # "absent" => a < nextId
    /\ \A s \in Savers : save[s].id < nextId

SaversApart ==
    \A s, t \in Savers : save[s].id = save[t].id /\ save[s].id # NoAsset => s = t

PurgedGone == \A a \in Ids : purges[a].status # "absent" => ~Retained(a)

StagingUnowned ==
    \A s \in Savers :
        /\ save[s].pc \in Unsettled => save[s].outcome = "uncommitted"
        /\ save[s].outcome = "uncommitted" /\ save[s].id # NoAsset =>
             ~Retained(save[s].id) /\ purges[save[s].id].status = "absent"

Staged ==
    \A s \in Savers :
        /\ save[s].pc \in {"poster", "final"} => <<save[s].id, "original">> \in files
        /\ save[s].pc = "final" => <<save[s].id, "poster">> \in files

Detached ==
    \A p \in Purging :
        /\ purge[p].pc \in {"check", "original", "poster", "complete"} =>
             purges[purge[p].id].status # "absent"
        /\ purge[p].pc \in {"poster", "complete"} => <<purge[p].id, "original">> \notin files
        /\ purge[p].pc = "complete" => <<purge[p].id, "poster">> \notin files

Whole ==
    \A a \in Ids : Retained(a) =>
        /\ <<a, "original">> \in files /\ <<a, "poster">> \in files /\ a \in intents

Reclaimed ==
    \A a \in Ids : purges[a].status = "completed" =>
        <<a, "original">> \notin files /\ <<a, "poster">> \notin files

MediaInv ==
    /\ IdsFresh /\ SaversApart /\ PurgedGone /\ StagingUnowned
    /\ Staged /\ Detached /\ Whole /\ Reclaimed

LEMMA MediaInitially == Init => MediaInv
<1> SUFFICES ASSUME Init PROVE MediaInv
  OBVIOUS
<1>1. /\ \A a \in Ids : ~Retained(a) /\ purges[a].status = "absent"
      /\ \A s \in Savers : save[s].id = NoAsset /\ save[s].pc = "idle"
      /\ \A p \in Purging : purge[p].pc = "idle"
      /\ nextId = 1
  BY DEF Init, Retained, NoRow, NoPurge, IdleSave, IdlePurge
<1> QED
  BY <1>1 DEF MediaInv, IdsFresh, SaversApart, PurgedGone, StagingUnowned, Unsettled, Staged,
     Detached, Whole, Reclaimed, NoAsset

(* Most steps move no file and neither add nor remove a row. *)
QuietSaves ==
    \A s \in Savers :
        /\ save'[s].id \in {save[s].id, NoAsset}
        /\ save'[s].pc \in Unsettled => save'[s].outcome = "uncommitted"
        /\ save'[s].outcome = "uncommitted" /\ save'[s].id # NoAsset =>
             save[s].outcome = "uncommitted"
        /\ save'[s].pc \in {"poster", "final"} =>
             save'[s].pc = save[s].pc /\ save'[s].id = save[s].id

QuietPurges ==
    \A p \in Purging :
        /\ purge'[p].pc \in {"check", "original"} => purges[purge'[p].id].status # "absent"
        /\ purge'[p].pc \in {"poster", "complete"} => purge'[p] = purge[p]

QuietTables ==
    /\ UNCHANGED <<files, nextId, purges>> /\ intents \subseteq intents'
    /\ \A a \in Ids : Retained(a)' <=> Retained(a)

LEMMA QuietStep ==
    ASSUME TypeInv, TypeInv', MediaInv, QuietSaves, QuietPurges, QuietTables
    PROVE  MediaInv'
<1>1. \A s \in Savers : save[s].id \in Ids \cup {NoAsset} /\ save'[s].id \in Ids \cup {NoAsset}
  BY DEF TypeInv, TypeOK, SaveState
<1>2. IdsFresh'
  BY <1>1 DEF MediaInv, IdsFresh, QuietSaves, QuietTables, TypeInv, TypeOK, Ids, NoAsset
<1>3. SaversApart'
  BY DEF MediaInv, SaversApart, QuietSaves
<1>4. PurgedGone'
  BY DEF MediaInv, PurgedGone, QuietTables
<1>5. StagingUnowned'
  BY <1>1 DEF MediaInv, StagingUnowned, QuietSaves, QuietTables
<1>6. Staged'
  BY DEF MediaInv, Staged, QuietSaves, QuietTables
<1>7. Detached'
  BY DEF MediaInv, Detached, QuietPurges, QuietTables
<1>8. Whole' /\ Reclaimed'
  BY DEF MediaInv, Whole, Reclaimed, QuietTables
<1> QED BY <1>2, <1>3, <1>4, <1>5, <1>6, <1>7, <1>8 DEF MediaInv

(* When a step is quiet. *)
LEMMA GoSaveQuiet ==
    ASSUME TypeInv, MediaInv, NEW s \in Savers, NEW pc \in SavePc, GoSave(s, pc),
           pc \in Unsettled => save[s].pc \in Unsettled, pc \notin {"poster", "final"}
    PROVE  QuietSaves
<1>1. save \in [Savers -> SaveState]
  BY DEF TypeInv, TypeOK
<1>2. /\ save'[s].pc = pc
      /\ \A t \in Savers :
           /\ t # s => save'[t] = save[t]
           /\ save'[t].id = save[t].id /\ save'[t].outcome = save[t].outcome
  BY <1>1, GoSaveFacts
<1> QED BY <1>2 DEF QuietSaves, MediaInv, StagingUnowned

LEMMA SettledQuiet ==
    ASSUME TypeInv, MediaInv, NEW s \in Savers,
           save'[s].id = save[s].id, save'[s].pc \notin Unsettled,
           save'[s].outcome = "uncommitted" => save[s].outcome = "uncommitted",
           \A t \in Savers : t # s => save'[t] = save[t]
    PROVE  QuietSaves
  BY DEF QuietSaves, MediaInv, StagingUnowned, Unsettled

LEMMA AcceptQuiet ==
    ASSUME TypeInv, MediaInv, NEW s \in Savers, NEW pc \in {"admission", "receipt"},
           NEW o \in Owners, NEW k \in Keys \cup {None}, NEW c \in Contents,
           Accept(s, o, k, c, pc)
    PROVE  QuietSaves
<1>1. save \in [Savers -> SaveState] /\ pc \in SavePc
  BY DEF TypeInv, TypeOK, SavePc
<1>2. save'[s].pc = pc /\ save'[s].id = NoAsset /\ save'[s].outcome = "uncommitted"
  BY <1>1, AcceptFacts
<1>3. \A t \in Savers : t # s => save'[t] = save[t]
  BY <1>1, AcceptFacts
<1> QED BY <1>2, <1>3 DEF QuietSaves, MediaInv, StagingUnowned

LEMMA SavesKept == TypeInv /\ MediaInv /\ save' = save => QuietSaves
  BY DEF TypeInv, TypeOK, SaveState, QuietSaves, MediaInv, StagingUnowned

LEMMA PurgesKept == MediaInv /\ purge' = purge => QuietPurges
  BY DEF QuietPurges, MediaInv, Detached

LEMMA GoPurgeQuiet ==
    ASSUME TypeInv, MediaInv, NEW p \in Purging, NEW pc \in PurgePc, GoPurge(p, pc),
           pc \notin {"check", "poster", "complete"}, pc = "original" => purge[p].pc = "check"
    PROVE  QuietPurges
<1>1. purge \in [Purging -> PurgeState]
  BY DEF TypeInv, TypeOK
<1>2. /\ purge'[p].pc = pc
      /\ \A q \in Purging :
           /\ q # p => purge'[q] = purge[q]
           /\ purge'[q].id = purge[q].id
  BY <1>1, GoPurgeFacts
<1> QED BY <1>2 DEF QuietPurges, MediaInv, Detached

LEMMA LeavePurgeQuiet ==
    ASSUME TypeInv, MediaInv, NEW p \in Purging,
           NEW answer \in {"none", "ok", "incomplete", "refused"}, LeavePurge(p, answer)
    PROVE  QuietPurges
<1>1. purge \in [Purging -> PurgeState]
  BY DEF TypeInv, TypeOK
<1>2. purge'[p].pc = "unlock" /\ \A q \in Purging : q # p => purge'[q] = purge[q]
  BY <1>1, LeavePurgeFacts
<1> QED BY <1>2 DEF QuietPurges, MediaInv, Detached

LEMMA TablesKept ==
    UNCHANGED <<assets, purges, files, nextId>> /\ intents \subseteq intents' => QuietTables
  BY DEF QuietTables, Retained

LEMMA MediaStep == TypeInv /\ TypeInv' /\ MediaInv /\ [Next]_vars => MediaInv'
<1> SUFFICES ASSUME TypeInv, TypeInv', MediaInv, [Next]_vars PROVE MediaInv'
  OBVIOUS
<1> USE DEF process, locks, tables, disk, requests
<1>0. save \in [Savers -> SaveState] /\ purge \in [Purging -> PurgeState]
  BY DEF TypeInv, TypeOK
<1>1. ASSUME NEW s \in Savers, AcceptUnkeyed(s) PROVE MediaInv'
  <2>1. QuietSaves
    <3>1. PICK o \in Owners, k \in Keys \cup {None}, c \in Contents :
            Accept(s, o, k, c, "admission")
      BY <1>1 DEF AcceptUnkeyed
    <3> QED BY <3>1, AcceptQuiet
  <2>2. UNCHANGED <<assets, purges, files, nextId, purge>> /\ intents \subseteq intents'
    BY <1>1 DEF AcceptUnkeyed
  <2> QED BY <2>1, <2>2, QuietStep, PurgesKept, TablesKept
<1>2. ASSUME NEW s \in Savers, Claim(s) PROVE MediaInv'
  <2>1. QuietSaves
    <3>1. PICK o \in Owners, k \in Keys \cup {None}, c \in Contents, pc \in {"admission", "receipt"} :
            Accept(s, o, k, c, pc)
      BY <1>2 DEF Claim
    <3> QED BY <3>1, AcceptQuiet
  <2>2. UNCHANGED <<assets, purges, files, nextId, purge>> /\ intents \subseteq intents'
    BY <1>2 DEF Claim
  <2> QED BY <2>1, <2>2, QuietStep, PurgesKept, TablesKept
<1>3. ASSUME NEW s \in Savers, ReadReceipt(s) PROVE MediaInv'
  <2>1. QuietSaves
    <3>1. CASE claims[Slot(s)].status = "completed"
      <4>1. claims[Slot(s)].receipt \in Ids \cup {NoAsset} /\ "replay" \in SavePc
        BY <1>3 DEF ReadReceipt, Slot, TypeInv, TypeOK, RequestsKnown, ClaimRow, SavePc
      <4>2. AnswerSave(s, "replay", claims[Slot(s)].receipt) /\ save[s].pc = "receipt"
        BY <1>3, <3>1 DEF ReadReceipt
      <4>3. /\ save'[s].pc = "replay"
            /\ save'[s].id = save[s].id /\ save'[s].outcome = save[s].outcome
            /\ \A t \in Savers : t # s => save'[t] = save[t]
        BY <1>0, <4>1, <4>2, AnswerSaveFacts
      <4> QED BY <4>2, <4>3 DEF QuietSaves, MediaInv, StagingUnowned, Unsettled
    <3>2. CASE claims[Slot(s)].status # "completed"
      <4>1. GoSave(s, "done") /\ "done" \in SavePc /\ "done" \notin Unsettled
        BY <1>3, <3>2 DEF ReadReceipt, SavePc, Unsettled
      <4> QED BY <4>1, GoSaveQuiet
    <3> QED BY <3>1, <3>2
  <2>2. UNCHANGED <<assets, purges, files, nextId, purge>> /\ intents \subseteq intents'
    BY <1>3 DEF ReadReceipt
  <2> QED BY <2>1, <2>2, QuietStep, PurgesKept, TablesKept
<1>4. ASSUME NEW s \in Savers, Replay(s) PROVE MediaInv'
  <2>1. QuietSaves
    <3>1. PICK answer \in Ids \cup {NoAsset} : AnswerSave(s, "done", answer)
      BY <1>0, <1>4 DEF Replay, SaveState
    <3>2. "done" \in SavePc /\ "done" \notin Unsettled
      BY DEF SavePc, Unsettled
    <3>3. /\ save'[s].pc = "done"
          /\ save'[s].id = save[s].id /\ save'[s].outcome = save[s].outcome
          /\ \A t \in Savers : t # s => save'[t] = save[t]
      BY <1>0, <3>1, <3>2, AnswerSaveFacts
    <3> QED BY <3>2, <3>3, SettledQuiet
  <2>2. UNCHANGED <<assets, purges, files, nextId, purge>> /\ intents \subseteq intents'
    BY <1>4 DEF Replay
  <2> QED BY <2>1, <2>2, QuietStep, PurgesKept, TablesKept
<1>5. ASSUME NEW s \in Savers, SaveAdmission(s) PROVE MediaInv'
  <2>1. QuietSaves
    <3>1. GoSave(s, "library") /\ "library" \in SavePc /\ ("library" \in Unsettled => save[s].pc \in Unsettled)
      BY <1>5 DEF SaveAdmission, SavePc, Unsettled
    <3> QED BY <3>1, GoSaveQuiet
  <2>2. UNCHANGED <<assets, purges, files, nextId, purge>> /\ intents \subseteq intents'
    BY <1>5 DEF SaveAdmission
  <2> QED BY <2>1, <2>2, QuietStep, PurgesKept, TablesKept
<1>6. ASSUME NEW s \in Savers, SaveLibrary(s) PROVE MediaInv'
  <2>1. QuietSaves
    <3>1. GoSave(s, "spool") /\ "spool" \in SavePc /\ ("spool" \in Unsettled => save[s].pc \in Unsettled)
      BY <1>6 DEF SaveLibrary, SavePc, Unsettled
    <3> QED BY <3>1, GoSaveQuiet
  <2>2. UNCHANGED <<assets, purges, files, nextId, purge>> /\ intents \subseteq intents'
    BY <1>6 DEF SaveLibrary
  <2> QED BY <2>1, <2>2, QuietStep, PurgesKept, TablesKept
<1>7. ASSUME NEW s \in Savers, Spool(s) PROVE MediaInv'
  <2>1. QuietSaves
    <3>1. GoSave(s, "early") /\ "early" \in SavePc /\ ("early" \in Unsettled => save[s].pc \in Unsettled)
      BY <1>7 DEF Spool, SavePc, Unsettled
    <3> QED BY <3>1, GoSaveQuiet
  <2>2. UNCHANGED <<assets, purges, files, nextId, purge>> /\ intents \subseteq intents'
    BY <1>7 DEF Spool
  <2> QED BY <2>1, <2>2, QuietStep, PurgesKept, TablesKept
<1>8. ASSUME NEW s \in Savers, EarlyTransaction(s) PROVE MediaInv'
  <2>1. QuietSaves
    <3>1. CASE SettleDuplicate(s, CommitOutcome)
      <4>1. CommitOutcome \in [BOOLEAN -> {"uncommitted", "uncertain", "committed"}]
        BY DEF CommitOutcome
      <4>2. save[s].pc \in Unsettled /\ save[s].pc # "idle" /\ "exit" \notin Unsettled
        BY <1>8 DEF EarlyTransaction, Unsettled
      <4>3. /\ save'[s].pc = "exit" /\ save'[s].id = save[s].id
            /\ \A t \in Savers : t # s => save'[t] = save[t]
        BY <3>1, <4>1, <4>2, SettleDuplicateFacts
      <4> QED BY <4>2, <4>3, SettledQuiet DEF MediaInv, StagingUnowned
    <3>2. CASE \E pc \in {"prepare", "exit"} : GoSave(s, pc)
      <4>1. PICK pc \in {"prepare", "exit"} : GoSave(s, pc)
        BY <3>2
      <4>2. pc \in SavePc /\ save[s].pc \in Unsettled
        BY <1>8 DEF EarlyTransaction, SavePc, Unsettled
      <4> QED BY <4>1, <4>2, GoSaveQuiet
    <3> QED BY <1>8, <3>1, <3>2 DEF EarlyTransaction
  <2>2. UNCHANGED <<assets, purges, files, nextId, purge>>
    BY <1>8 DEF EarlyTransaction
  <2>3. intents \subseteq intents'
    BY <1>8 DEF EarlyTransaction, SettleDuplicate
  <2> QED BY <2>1, <2>2, <2>3, QuietStep, PurgesKept, TablesKept
<1>9. ASSUME NEW s \in Savers, Prepare(s) PROVE MediaInv'
  <2>1. UNCHANGED <<assets, purges, files, intents, purge>> /\ save[s].pc = "prepare"
    BY <1>9 DEF Prepare
  <2>2. CASE nextId \in Ids /\ save' = [save EXCEPT ![s].pc = "original", ![s].id = nextId]
             /\ nextId' = nextId + 1
    <3>1. /\ save'[s].pc = "original" /\ save'[s].id = nextId
          /\ save'[s].outcome = save[s].outcome
          /\ \A t \in Savers : t # s => save'[t] = save[t]
      BY <1>0, <2>2, PrepareFacts
    <3>2. /\ nextId \in Nat /\ nextId # NoAsset /\ nextId' = nextId + 1
          /\ \A a \in Ids : a \in Nat
          /\ \A t \in Savers : save[t].id \in Nat
      BY <1>0, <2>2 DEF Ids, NoAsset, SaveState
    <3>3. IdsFresh'
      <4>1. \A a \in Ids : assets'[a].status # "absent" \/ purges'[a].status # "absent" => a < nextId'
        <5>1. \A a \in Ids : assets[a].status # "absent" \/ purges[a].status # "absent" => a < nextId
          BY DEF MediaInv, IdsFresh, Retained
        <5>2. \A a \in Ids : a < nextId => a < nextId'
          BY <3>2
        <5> QED BY <2>1, <5>1, <5>2 DEF Retained
      <4>2. \A t \in Savers : save'[t].id < nextId'
        <5>1. \A t \in Savers : save[t].id < nextId
          BY DEF MediaInv, IdsFresh
        <5> QED BY <3>1, <3>2, <5>1
      <4> QED BY <4>1, <4>2 DEF IdsFresh, Retained
    <3>4. SaversApart'
      BY <3>1, <3>2 DEF MediaInv, SaversApart, IdsFresh
    <3>5. StagingUnowned'
      <4>1. ~Retained(nextId) /\ purges[nextId].status = "absent"
        BY <2>2, <3>2 DEF MediaInv, IdsFresh
      <4>2. save[s].outcome = "uncommitted"
        BY <2>1 DEF MediaInv, StagingUnowned, Unsettled
      <4> QED BY <2>1, <3>1, <4>1, <4>2 DEF MediaInv, StagingUnowned, Retained
    <3>6. Staged'
      BY <2>1, <3>1 DEF MediaInv, Staged
    <3>7. PurgedGone' /\ Detached' /\ Whole' /\ Reclaimed'
      BY <2>1 DEF MediaInv, PurgedGone, Detached, Whole, Reclaimed, Retained
    <3> QED BY <3>3, <3>4, <3>5, <3>6, <3>7 DEF MediaInv
  <2>3. CASE GoSave(s, "exit") /\ UNCHANGED nextId
    <3>1. "exit" \in SavePc /\ "exit" \notin Unsettled
      BY DEF SavePc, Unsettled
    <3>2. QuietSaves
      BY <2>3, <3>1, GoSaveQuiet
    <3> QED BY <2>1, <2>3, <3>2, QuietStep, PurgesKept, TablesKept
  <2> QED BY <1>9, <2>2, <2>3 DEF Prepare
<1>10. ASSUME NEW s \in Savers, PutOriginal(s) PROVE MediaInv'
  <2>1. /\ UNCHANGED <<assets, purges, intents, purge, nextId>> /\ save[s].pc = "original"
        /\ files' = files \cup {<<save[s].id, "original">>}
    BY <1>10 DEF PutOriginal, Put
  <2>2. PICK pc \in {"poster", "exit"} : GoSave(s, pc)
    BY <1>10 DEF PutOriginal, Put
  <2>3. pc \in SavePc /\ save[s].id \in Ids /\ save[s].id # NoAsset
    BY <2>1 DEF SavePc, TypeInv, RequestsKnown, Ids, NoAsset
  <2>4. /\ save'[s].pc = pc
        /\ \A t \in Savers :
             /\ t # s => save'[t] = save[t]
             /\ save'[t].id = save[t].id /\ save'[t].outcome = save[t].outcome
    BY <1>0, <2>2, <2>3, GoSaveFacts
  <2>5. /\ save[s].outcome = "uncommitted"
        /\ ~Retained(save[s].id) /\ purges[save[s].id].status = "absent"
    BY <2>1, <2>3 DEF MediaInv, StagingUnowned, Unsettled
  <2>6. IdsFresh' /\ SaversApart' /\ PurgedGone'
    BY <2>1, <2>4 DEF MediaInv, IdsFresh, SaversApart, PurgedGone, Retained
  <2>7. StagingUnowned'
    BY <2>1, <2>4, <2>5 DEF MediaInv, StagingUnowned, Unsettled, Retained
  <2>8. Staged'
    BY <2>1, <2>4 DEF MediaInv, Staged
  <2>9. Detached'
    BY <2>1, <2>5 DEF MediaInv, Detached
  <2>10. Whole' /\ Reclaimed'
    BY <2>1, <2>5 DEF MediaInv, Whole, Reclaimed, Retained
  <2> QED BY <2>6, <2>7, <2>8, <2>9, <2>10 DEF MediaInv
<1>11. ASSUME NEW s \in Savers, PutPoster(s) PROVE MediaInv'
  <2>1. /\ UNCHANGED <<assets, purges, intents, purge, nextId>> /\ save[s].pc = "poster"
        /\ files' = files \cup {<<save[s].id, "poster">>}
    BY <1>11 DEF PutPoster, Put
  <2>2. PICK pc \in {"final", "exit"} : GoSave(s, pc)
    BY <1>11 DEF PutPoster, Put
  <2>3. pc \in SavePc /\ save[s].id \in Ids /\ save[s].id # NoAsset
    BY <2>1 DEF SavePc, TypeInv, RequestsKnown, Ids, NoAsset
  <2>4. /\ save'[s].pc = pc
        /\ \A t \in Savers :
             /\ t # s => save'[t] = save[t]
             /\ save'[t].id = save[t].id /\ save'[t].outcome = save[t].outcome
    BY <1>0, <2>2, <2>3, GoSaveFacts
  <2>5. /\ save[s].outcome = "uncommitted"
        /\ ~Retained(save[s].id) /\ purges[save[s].id].status = "absent"
    BY <2>1, <2>3 DEF MediaInv, StagingUnowned, Unsettled
  <2>6. IdsFresh' /\ SaversApart' /\ PurgedGone'
    BY <2>1, <2>4 DEF MediaInv, IdsFresh, SaversApart, PurgedGone, Retained
  <2>7. StagingUnowned'
    BY <2>1, <2>4, <2>5 DEF MediaInv, StagingUnowned, Unsettled, Retained
  <2>8. Staged'
    BY <2>1, <2>4 DEF MediaInv, Staged
  <2>9. Detached'
    BY <2>1, <2>5 DEF MediaInv, Detached
  <2>10. Whole' /\ Reclaimed'
    BY <2>1, <2>5 DEF MediaInv, Whole, Reclaimed, Retained
  <2> QED BY <2>6, <2>7, <2>8, <2>9, <2>10 DEF MediaInv
<1>12. ASSUME NEW s \in Savers, FinalTransaction(s) PROVE MediaInv'
  <2>1. UNCHANGED <<purges, files, nextId, purge>> /\ save[s].pc = "final"
    BY <1>12 DEF FinalTransaction
  <2>2. save[s].pc \in Unsettled /\ "exit" \notin Unsettled /\ "exit" \in SavePc
    BY <2>1 DEF Unsettled, SavePc
  <2>3. CASE SettleDuplicate(s, StagedOutcome) /\ UNCHANGED assets
    <3>1. StagedOutcome \in [BOOLEAN -> {"uncommitted", "uncertain", "committed"}]
      BY DEF StagedOutcome
    <3>2. /\ save'[s].pc = "exit" /\ save'[s].id = save[s].id
          /\ \A t \in Savers : t # s => save'[t] = save[t]
      BY <2>1, <2>3, <3>1, SettleDuplicateFacts
    <3>3. QuietSaves
      BY <2>2, <3>2, SettledQuiet DEF MediaInv, StagingUnowned
    <3>4. intents \subseteq intents'
      BY <2>3 DEF SettleDuplicate
    <3> QED BY <2>1, <2>3, <3>3, <3>4, QuietStep, PurgesKept, TablesKept
  <2>4. CASE InsertAsset(s)
    <3> DEFINE id == save[s].id
    <3>1. /\ id \in Ids /\ id # NoAsset /\ save[s].outcome = "uncommitted"
          /\ ~Retained(id) /\ purges[id].status = "absent"
          /\ <<id, "original">> \in files /\ <<id, "poster">> \in files
          /\ id < nextId
      BY <2>1, <2>2
         DEF MediaInv, StagingUnowned, Staged, IdsFresh, TypeInv, RequestsKnown, Ids, NoAsset
    <3>2. /\ save'[s].pc = "exit" /\ save'[s].outcome # "uncommitted" /\ save'[s].id = id
          /\ \A t \in Savers : t # s => save'[t] = save[t]
      BY <2>1, <2>4, InsertAssetFacts
    <3>3. \A t \in Savers : save'[t].id = save[t].id
      BY <3>2
    <3>4. /\ \A a \in Ids : a # id => (assets'[a].status # "absent" <=> Retained(a))
          /\ \/ intents' = intents \cup {id}
             \/ intents' = intents /\ (assets'[id].status # "absent" <=> Retained(id))
      BY <2>1, <2>4, InsertAssetFacts DEF Retained, TypeInv, TypeOK
    <3> HIDE DEF id
    <3>5. IdsFresh'
      BY <2>1, <3>1, <3>3, <3>4 DEF MediaInv, IdsFresh, Retained
    <3>6. SaversApart'
      BY <3>3 DEF MediaInv, SaversApart
    <3>7. PurgedGone' /\ Reclaimed' /\ Detached'
      BY <2>1, <3>1, <3>4 DEF MediaInv, PurgedGone, Reclaimed, Detached, Retained
    <3>8. StagingUnowned'
      <4>1. \A t \in Savers : t # s /\ save[t].id # NoAsset => save[t].id # id
        BY <3>1 DEF MediaInv, SaversApart, id
      <4>2. \A t \in Savers : save[t].id # NoAsset => save[t].id \in Ids
        BY <1>0 DEF SaveState
      <4>3. ASSUME NEW t \in Savers, t # s, save[t].outcome = "uncommitted", save[t].id # NoAsset
            PROVE  assets'[save[t].id].status = "absent" /\ purges'[save[t].id].status = "absent"
        <5>1. save[t].id \in Ids /\ save[t].id # id
          BY <4>1, <4>2, <4>3
        <5>2. ~Retained(save[t].id) /\ purges[save[t].id].status = "absent"
          BY <4>3 DEF MediaInv, StagingUnowned
        <5> QED BY <2>1, <3>4, <5>1, <5>2 DEF Retained
      <4>4. \A t \in Savers : t # s /\ save[t].pc \in Unsettled => save[t].outcome = "uncommitted"
        BY DEF MediaInv, StagingUnowned
      <4> QED BY <2>2, <3>2, <4>3, <4>4 DEF StagingUnowned, Retained
    <3>9. Staged'
      BY <2>1, <3>2 DEF MediaInv, Staged
    <3>10. Whole'
      BY <2>1, <3>1, <3>4 DEF MediaInv, Whole, Retained
    <3> QED BY <3>5, <3>6, <3>7, <3>8, <3>9, <3>10 DEF MediaInv
  <2>5. CASE GoSave(s, "exit") /\ UNCHANGED <<assets, claims, intents>>
    <3>1. QuietSaves
      BY <2>2, <2>5, GoSaveQuiet
    <3> QED BY <2>1, <2>5, <3>1, QuietStep, PurgesKept, TablesKept
  <2> QED BY <1>12, <2>3, <2>4, <2>5 DEF FinalTransaction
<1>13. ASSUME NEW s \in Savers, Refuse(s) PROVE MediaInv'
  <2>1. QuietSaves
    <3>1. CASE GoSave(s, "exit")
      <4>1. "exit" \in SavePc /\ "exit" \notin Unsettled
        BY DEF SavePc, Unsettled
      <4> QED BY <3>1, <4>1, GoSaveQuiet
    <3>2. CASE AnswerSave(s, "done", NoAsset)
      <4>1. NoAsset \in Ids \cup {NoAsset}
        OBVIOUS
      <4>2. "done" \in SavePc /\ "done" \notin Unsettled
        BY DEF SavePc, Unsettled
      <4>3. /\ save'[s].pc = "done"
            /\ save'[s].id = save[s].id /\ save'[s].outcome = save[s].outcome
            /\ \A t \in Savers : t # s => save'[t] = save[t]
        BY <1>0, <3>2, <4>1, <4>2, AnswerSaveFacts
      <4> QED BY <4>2, <4>3, SettledQuiet
    <3> QED BY <1>13, <3>1, <3>2 DEF Refuse
  <2>2. UNCHANGED <<assets, purges, files, nextId, purge>> /\ intents \subseteq intents'
    BY <1>13 DEF Refuse
  <2> QED BY <2>1, <2>2, QuietStep, PurgesKept, TablesKept
<1>14. ASSUME NEW s \in Savers, Cleanup(s) PROVE MediaInv'
  <2>1. UNCHANGED <<assets, purges, intents, purge, nextId>> /\ save[s].pc = "exit"
    BY <1>14 DEF Cleanup
  <2>2. /\ files' \subseteq files
        /\ save[s].outcome # "uncommitted" => files' = files
        /\ \A f \in files \ files' : f[1] = save[s].id
    BY <1>14 DEF Cleanup, MayUnstage, Unlinked, Media
  <2>3. GoSave(s, "unlock") /\ "unlock" \in SavePc /\ "unlock" \notin Unsettled
    BY <1>14 DEF Cleanup, SavePc, Unsettled
  <2>4. /\ save'[s].pc = "unlock"
        /\ \A t \in Savers :
             /\ t # s => save'[t] = save[t]
             /\ save'[t].id = save[t].id /\ save'[t].outcome = save[t].outcome
    BY <1>0, <2>3, GoSaveFacts
  <2>5. IdsFresh' /\ SaversApart' /\ PurgedGone' /\ Detached' /\ Reclaimed'
    BY <2>1, <2>2, <2>4
       DEF MediaInv, IdsFresh, SaversApart, PurgedGone, Detached, Reclaimed, Retained
  <2>6. StagingUnowned'
    BY <2>1, <2>3, <2>4 DEF MediaInv, StagingUnowned, Retained
  <2>7. Staged'
    <3>1. ASSUME NEW t \in Savers, save[t].pc \in {"poster", "final"}, t # s,
                 NEW part \in {"original", "poster"}, <<save[t].id, part>> \in files
          PROVE  <<save[t].id, part>> \in files'
      <4>1. save[t].id \in Ids /\ save[t].id # NoAsset
        BY <3>1 DEF TypeInv, RequestsKnown, Ids, NoAsset
      <4>2. save[t].id # save[s].id
        BY <3>1, <4>1 DEF MediaInv, SaversApart
      <4> QED BY <2>2, <3>1, <4>2
    <3> QED BY <2>4, <3>1 DEF MediaInv, Staged
  <2>8. Whole'
    <3>1. ASSUME NEW a \in Ids, Retained(a), save[s].outcome = "uncommitted" PROVE a # save[s].id
      BY <3>1 DEF MediaInv, StagingUnowned, Ids, NoAsset
    <3> QED BY <2>1, <2>2, <3>1 DEF MediaInv, Whole, Retained
  <2> QED BY <2>5, <2>6, <2>7, <2>8 DEF MediaInv
<1>15. ASSUME NEW s \in Savers, SaveUnlock(s) PROVE MediaInv'
  <2>1. QuietSaves
    <3>1. GoSave(s, "release") /\ "release" \in SavePc /\ ("release" \in Unsettled => save[s].pc \in Unsettled)
      BY <1>15 DEF SaveUnlock, SavePc, Unsettled
    <3> QED BY <3>1, GoSaveQuiet
  <2>2. UNCHANGED <<assets, purges, files, nextId, purge>> /\ intents \subseteq intents'
    BY <1>15 DEF SaveUnlock
  <2> QED BY <2>1, <2>2, QuietStep, PurgesKept, TablesKept
<1>16. ASSUME NEW s \in Savers, ReleaseClaim(s) PROVE MediaInv'
  <2>1. QuietSaves
    <3>1. GoSave(s, "done") /\ "done" \in SavePc /\ ("done" \in Unsettled => save[s].pc \in Unsettled)
      BY <1>16 DEF ReleaseClaim, SavePc, Unsettled
    <3> QED BY <3>1, GoSaveQuiet
  <2>2. UNCHANGED <<assets, purges, files, nextId, purge>> /\ intents \subseteq intents'
    BY <1>16 DEF ReleaseClaim
  <2> QED BY <2>1, <2>2, QuietStep, PurgesKept, TablesKept
<1>17. ASSUME NEW slot \in Owners \X Keys, LeaseOrReceiptExpires(slot) PROVE MediaInv'
  <2>1. UNCHANGED <<purges, files, nextId, purge, save, intents>>
    BY <1>17 DEF LeaseOrReceiptExpires
  <2>2. \A a \in Ids : Retained(a)' <=> Retained(a)
    BY <1>17 DEF LeaseOrReceiptExpires, Retained, TypeInv, TypeOK, AssetRow
  <2>3. QuietTables
    BY <2>1, <2>2 DEF QuietTables
  <2> QED BY <2>1, <2>3, QuietStep, SavesKept, PurgesKept
<1>18. ASSUME NEW a \in Ids, Trash(a) PROVE MediaInv'
  <2>1. UNCHANGED <<purges, files, nextId, purge, save, intents>>
    BY <1>18 DEF Trash
  <2>2. \A b \in Ids : Retained(b)' <=> Retained(b)
    BY <1>18 DEF Trash, Retained, TypeInv, TypeOK, AssetRow
  <2>3. QuietTables
    BY <2>1, <2>2 DEF QuietTables
  <2> QED BY <2>1, <2>3, QuietStep, SavesKept, PurgesKept
<1>19. ASSUME NEW a \in Ids, Restore(a) PROVE MediaInv'
  <2>1. UNCHANGED <<purges, files, nextId, purge, save, intents>>
    BY <1>19 DEF Restore
  <2>2. \A b \in Ids : Retained(b)' <=> Retained(b)
    BY <1>19 DEF Restore, Retained, TypeInv, TypeOK, AssetRow
  <2>3. QuietTables
    BY <2>1, <2>2 DEF QuietTables
  <2> QED BY <2>1, <2>3, QuietStep, SavesKept, PurgesKept
<1>20. ASSUME NEW p \in Purgers, BeginPurge(p) PROVE MediaInv'
  <2>1. QuietPurges
    <3>1. PICK o \in Owners, a \in 1 .. nextId - 1 :
            purge' = [purge EXCEPT ![p] = [IdlePurge EXCEPT
                        !.pc = "admission", !.owner = o, !.id = a]]
      BY <1>20 DEF BeginPurge
    <3>2. /\ purge'[p].pc = "admission" /\ \A q \in Purging : q # p => purge'[q] = purge[q]
      BY <1>0, <3>1 DEF IdlePurge, Purging
    <3> QED BY <3>2 DEF QuietPurges, MediaInv, Detached
  <2>2. UNCHANGED <<assets, purges, files, nextId, intents, save>>
    BY <1>20 DEF BeginPurge
  <2> QED BY <2>1, <2>2, QuietStep, SavesKept, TablesKept
<1>21. ASSUME NEW p \in Purgers, PurgeAdmission(p) PROVE MediaInv'
  <2>1. QuietPurges
    <3>1. GoPurge(p, "library") /\ "library" \in PurgePc /\ p \in Purging
      BY <1>21 DEF PurgeAdmission, PurgePc, Purging
    <3> QED BY <3>1, GoPurgeQuiet
  <2>2. UNCHANGED <<assets, purges, files, nextId, intents, save>>
    BY <1>21 DEF PurgeAdmission
  <2> QED BY <2>1, <2>2, QuietStep, SavesKept, TablesKept
<1>22. ASSUME NEW p \in Purgers, PurgeLibrary(p) PROVE MediaInv'
  <2>1. QuietPurges
    <3>1. GoPurge(p, "detach") /\ "detach" \in PurgePc /\ p \in Purging
      BY <1>22 DEF PurgeLibrary, PurgePc, Purging
    <3> QED BY <3>1, GoPurgeQuiet
  <2>2. UNCHANGED <<assets, purges, files, nextId, intents, save>>
    BY <1>22 DEF PurgeLibrary
  <2> QED BY <2>1, <2>2, QuietStep, SavesKept, TablesKept
<1>23. ASSUME NEW p \in Purgers, Detach(p) PROVE MediaInv'
  <2> DEFINE a == purge[p].id
             o == purge[p].owner
  <2>1. /\ UNCHANGED <<files, nextId, save>> /\ purge[p].pc = "detach"
        /\ p \in Purging /\ a \in Ids
    BY <1>23 DEF Detach, Purging, TypeInv, RequestsKnown
  <2>2. CASE /\ UNCHANGED tables
             /\ \/ GoPurge(p, "check") /\ Purged(o, a)
                \/ \E answer \in {"ok", "incomplete", "refused"} : LeavePurge(p, answer)
    <3>1. QuietPurges
      <4>1. CASE GoPurge(p, "check") /\ Purged(o, a)
        <5>1. "check" \in PurgePc
          BY DEF PurgePc
        <5>2. /\ purge'[p].pc = "check" /\ purge'[p].id = a
              /\ \A q \in Purging : q # p => purge'[q] = purge[q]
          BY <1>0, <2>1, <4>1, <5>1, GoPurgeFacts
        <5> QED BY <4>1, <5>2 DEF QuietPurges, MediaInv, Detached, Purged
      <4>2. CASE \E answer \in {"ok", "incomplete", "refused"} : LeavePurge(p, answer)
        BY <2>1, <4>2, LeavePurgeQuiet
      <4> QED BY <2>2, <4>1, <4>2
    <3> QED BY <2>1, <2>2, <3>1, QuietStep, SavesKept, TablesKept
  <2>3. CASE /\ Purgeable(o, a)
             /\ purges' = [purges EXCEPT ![a] = [status |-> "pending", owner |-> o]]
             /\ assets' = [assets EXCEPT ![a] = NoRow]
             /\ intents' = intents \ {a}
             /\ GoPurge(p, "check") \/ LeavePurge(p, "incomplete")
    <3>1. /\ purge'[p].pc \in {"check", "unlock"} /\ purge'[p].id = a
          /\ \A q \in Purging : q # p => purge'[q] = purge[q]
      <4>1. "check" \in PurgePc
        BY DEF PurgePc
      <4> QED BY <1>0, <2>1, <2>3, <4>1, GoPurgeFacts, LeavePurgeFacts
    <3>2. /\ Retained(a) /\ a < nextId
          /\ assets'[a].status = "absent" /\ purges'[a].status = "pending"
          /\ \A b \in Ids : b # a => /\ assets'[b].status # "absent" <=> Retained(b)
                                     /\ purges'[b] = purges[b]
      BY <2>1, <2>3 DEF Purgeable, Retained, NoRow, TypeInv, TypeOK, MediaInv, IdsFresh
    <3> HIDE DEF a
    <3>3. IdsFresh' /\ SaversApart' /\ PurgedGone'
      BY <2>1, <3>2 DEF MediaInv, IdsFresh, SaversApart, PurgedGone, Retained
    <3>4. StagingUnowned'
      <4>1. ASSUME NEW s \in Savers, save[s].outcome = "uncommitted", save[s].id # NoAsset
            PROVE  assets'[save[s].id].status = "absent" /\ purges'[save[s].id].status = "absent"
        <5>1. ~Retained(save[s].id) /\ purges[save[s].id].status = "absent"
          BY <4>1 DEF MediaInv, StagingUnowned
        <5>2. save[s].id \in Ids /\ save[s].id # a
          BY <1>0, <3>2, <4>1, <5>1 DEF SaveState
        <5> QED BY <3>2, <5>1, <5>2 DEF Retained
      <4> QED BY <2>1, <4>1 DEF MediaInv, StagingUnowned, Retained
    <3>5. Staged'
      BY <2>1 DEF MediaInv, Staged
    <3>6. Detached'
      <4>1. \A b \in Ids : purges[b].status # "absent" => purges'[b].status # "absent"
        BY <3>2
      <4>2. \A q \in Purging : purge[q].pc # "idle" => purge[q].id \in Ids
        BY DEF TypeInv, RequestsKnown
      <4> QED BY <2>1, <3>1, <3>2, <4>1, <4>2 DEF MediaInv, Detached
    <3>7. Whole' /\ Reclaimed'
      BY <2>1, <2>3, <3>2 DEF MediaInv, Whole, Reclaimed, a, Retained
    <3> QED BY <3>3, <3>4, <3>5, <3>6, <3>7 DEF MediaInv
  <2>4. \/ /\ UNCHANGED tables
           /\ \/ GoPurge(p, "check") /\ Purged(o, a)
              \/ \E answer \in {"ok", "incomplete", "refused"} : LeavePurge(p, answer)
        \/ /\ Purgeable(o, a)
           /\ purges' = [purges EXCEPT ![a] = [status |-> "pending", owner |-> o]]
           /\ assets' = [assets EXCEPT ![a] = NoRow]
           /\ intents' = intents \ {a}
           /\ GoPurge(p, "check") \/ LeavePurge(p, "incomplete")
    <3>1. CASE Purged(o, a)
      BY <1>23, <3>1 DEF Detach
    <3>2. CASE ~Purged(o, a) /\ ~Purgeable(o, a)
      BY <1>23, <3>2 DEF Detach
    <3>3. CASE ~Purged(o, a) /\ Purgeable(o, a)
      <4>1. PICK commit \in Commits :
              /\ IF commit.applied
                 THEN /\ purges' = [purges EXCEPT ![a] = [status |-> "pending", owner |-> o]]
                      /\ assets' = [assets EXCEPT ![a] = NoRow]
                      /\ intents' = intents \ {a}
                 ELSE UNCHANGED <<purges, assets, intents>>
              /\ IF commit.acked THEN GoPurge(p, "check") ELSE LeavePurge(p, "incomplete")
              /\ UNCHANGED claims
        BY <1>23, <3>3 DEF Detach
      <4> QED BY <3>3, <4>1, CommitFacts
    <3> QED BY <3>1, <3>2, <3>3
  <2> QED BY <2>2, <2>3, <2>4
<1>24. ASSUME NEW p \in Purging, CheckReferenced(p) PROVE MediaInv'
  <2>1. QuietPurges
    <3>1. /\ GoPurge(p, "original") \/ LeavePurge(p, "incomplete")
          /\ "original" \in PurgePc /\ purge[p].pc = "check"
      BY <1>24 DEF CheckReferenced, Interrupted, PurgePc
    <3> QED BY <3>1, GoPurgeQuiet, LeavePurgeQuiet
  <2>2. UNCHANGED <<assets, purges, files, nextId, intents, save>>
    BY <1>24 DEF CheckReferenced
  <2> QED BY <2>1, <2>2, QuietStep, SavesKept, TablesKept
<1>25. ASSUME NEW p \in Purging, UnlinkOriginal(p) PROVE MediaInv'
  <2> DEFINE a == purge[p].id
  <2>1. /\ UNCHANGED <<assets, purges, intents, nextId, save>>
        /\ purge[p].pc = "original" /\ a \in Ids
    BY <1>25 DEF UnlinkOriginal, Unlink, TypeInv, RequestsKnown
  <2>2. \/ files' = files \ {<<a, "original">>} /\ GoPurge(p, "poster")
        \/ files' \in {files, files \ {<<a, "original">>}} /\ LeavePurge(p, "incomplete")
    BY <1>25 DEF UnlinkOriginal, Unlink, Interrupted
  <2>3. purges[a].status # "absent" /\ ~Retained(a)
    BY <2>1 DEF MediaInv, Detached, PurgedGone
  <2>4. /\ purge'[p].id = a
        /\ \/ purge'[p].pc = "poster" /\ <<a, "original">> \notin files'
           \/ purge'[p].pc = "unlock"
        /\ \A q \in Purging : q # p => purge'[q] = purge[q]
    <3>1. "poster" \in PurgePc
      BY DEF PurgePc
    <3> QED BY <1>0, <2>2, <3>1, GoPurgeFacts, LeavePurgeFacts
  <2>5. files' \subseteq files /\ \A f \in files \ files' : f[1] = a
    BY <2>2
  <2> HIDE DEF a
  <2>6. IdsFresh' /\ SaversApart' /\ PurgedGone' /\ StagingUnowned'
    BY <2>1 DEF MediaInv, IdsFresh, SaversApart, PurgedGone, StagingUnowned, Retained
  <2>7. Staged'
    <3>1. ASSUME NEW t \in Savers, save[t].pc \in {"poster", "final"},
                 NEW kept \in {"original", "poster"}, <<save[t].id, kept>> \in files
          PROVE  <<save[t].id, kept>> \in files'
      <4>1. save[t].id \in Ids /\ save[t].id # NoAsset
        BY <3>1 DEF TypeInv, RequestsKnown, Ids, NoAsset
      <4>2. purges[save[t].id].status = "absent"
        BY <3>1, <4>1 DEF MediaInv, StagingUnowned, Unsettled
      <4> QED BY <2>3, <2>5, <3>1, <4>2
    <3> QED BY <2>1, <3>1 DEF MediaInv, Staged
  <2>8. Detached'
    BY <2>1, <2>3, <2>4, <2>5 DEF MediaInv, Detached, a
  <2>9. Whole' /\ Reclaimed'
    BY <2>1, <2>3, <2>5 DEF MediaInv, Whole, Reclaimed, Retained
  <2> QED BY <2>6, <2>7, <2>8, <2>9 DEF MediaInv
<1>26. ASSUME NEW p \in Purging, UnlinkPoster(p) PROVE MediaInv'
  <2> DEFINE a == purge[p].id
  <2>1. /\ UNCHANGED <<assets, purges, intents, nextId, save>>
        /\ purge[p].pc = "poster" /\ a \in Ids
    BY <1>26 DEF UnlinkPoster, Unlink, TypeInv, RequestsKnown
  <2>2. \/ files' = files \ {<<a, "poster">>} /\ GoPurge(p, "complete")
        \/ files' \in {files, files \ {<<a, "poster">>}} /\ LeavePurge(p, "incomplete")
    BY <1>26 DEF UnlinkPoster, Unlink, Interrupted
  <2>3. purges[a].status # "absent" /\ ~Retained(a)
    BY <2>1 DEF MediaInv, Detached, PurgedGone
  <2>4. /\ purge'[p].id = a
        /\ \/ purge'[p].pc = "complete" /\ <<a, "poster">> \notin files'
           \/ purge'[p].pc = "unlock"
        /\ \A q \in Purging : q # p => purge'[q] = purge[q]
    <3>1. "complete" \in PurgePc
      BY DEF PurgePc
    <3> QED BY <1>0, <2>2, <3>1, GoPurgeFacts, LeavePurgeFacts
  <2>5. files' \subseteq files /\ \A f \in files \ files' : f[1] = a
    BY <2>2
  <2> HIDE DEF a
  <2>6. IdsFresh' /\ SaversApart' /\ PurgedGone' /\ StagingUnowned'
    BY <2>1 DEF MediaInv, IdsFresh, SaversApart, PurgedGone, StagingUnowned, Retained
  <2>7. Staged'
    <3>1. ASSUME NEW t \in Savers, save[t].pc \in {"poster", "final"},
                 NEW kept \in {"original", "poster"}, <<save[t].id, kept>> \in files
          PROVE  <<save[t].id, kept>> \in files'
      <4>1. save[t].id \in Ids /\ save[t].id # NoAsset
        BY <3>1 DEF TypeInv, RequestsKnown, Ids, NoAsset
      <4>2. purges[save[t].id].status = "absent"
        BY <3>1, <4>1 DEF MediaInv, StagingUnowned, Unsettled
      <4> QED BY <2>3, <2>5, <3>1, <4>2
    <3> QED BY <2>1, <3>1 DEF MediaInv, Staged
  <2>8. Detached'
    BY <2>1, <2>3, <2>4, <2>5 DEF MediaInv, Detached, a
  <2>9. Whole' /\ Reclaimed'
    BY <2>1, <2>3, <2>5 DEF MediaInv, Whole, Reclaimed, Retained
  <2> QED BY <2>6, <2>7, <2>8, <2>9 DEF MediaInv
<1>27. ASSUME NEW p \in Purging, CompletePurge(p) PROVE MediaInv'
  <2> DEFINE a == purge[p].id
  <2>1. /\ UNCHANGED <<assets, files, intents, nextId, save>>
        /\ purge[p].pc = "complete" /\ a \in Ids
    BY <1>27 DEF CompletePurge, TypeInv, RequestsKnown
  <2>2. purge'[p].pc = "unlock" /\ \A q \in Purging : q # p => purge'[q] = purge[q]
    <3>1. LeavePurge(p, "ok") \/ LeavePurge(p, "incomplete")
      BY <1>27 DEF CompletePurge, Interrupted
    <3> QED BY <1>0, <3>1, LeavePurgeFacts
  <2>3. /\ purges[a].status # "absent"
        /\ <<a, "original">> \notin files /\ <<a, "poster">> \notin files
    BY <2>1 DEF MediaInv, Detached
  <2>4. \A b \in Ids : /\ purges'[b].status = "absent" <=> purges[b].status = "absent"
                       /\ b # a => purges'[b] = purges[b]
    BY <1>27, <2>1, <2>3 DEF CompletePurge, Tombstone, TypeInv, TypeOK, PurgeRow
  <2> HIDE DEF a
  <2>5. \A s \in Savers : save[s].id # NoAsset => save[s].id \in Ids
    BY <1>0 DEF SaveState
  <2>6. \A q \in Purging : purge[q].pc # "idle" => purge[q].id \in Ids
    BY DEF TypeInv, RequestsKnown
  <2>7. IdsFresh' /\ SaversApart' /\ PurgedGone' /\ Staged' /\ Whole'
    BY <2>1, <2>4 DEF MediaInv, IdsFresh, SaversApart, PurgedGone, Staged, Whole, Retained
  <2>8. StagingUnowned'
    BY <2>1, <2>4, <2>5 DEF MediaInv, StagingUnowned, Retained
  <2>9. Detached'
    BY <2>1, <2>2, <2>4, <2>6 DEF MediaInv, Detached
  <2>10. Reclaimed'
    BY <2>1, <2>3, <2>4 DEF MediaInv, Reclaimed
  <2> QED BY <2>7, <2>8, <2>9, <2>10 DEF MediaInv
<1>28. ASSUME NEW p \in Purgers, AbandonPurge(p) PROVE MediaInv'
  <2>1. QuietPurges
    <3>1. LeavePurge(p, "incomplete") /\ p \in Purging
      BY <1>28 DEF AbandonPurge, Purging
    <3> QED BY <3>1, LeavePurgeQuiet
  <2>2. UNCHANGED <<assets, purges, files, nextId, intents, save>>
    BY <1>28 DEF AbandonPurge
  <2> QED BY <2>1, <2>2, QuietStep, SavesKept, TablesKept
<1>29. ASSUME NEW p \in Purgers, PurgeUnlock(p) PROVE MediaInv'
  <2>1. QuietPurges
    <3>1. GoPurge(p, "done") /\ "done" \in PurgePc /\ p \in Purging
      BY <1>29 DEF PurgeUnlock, PurgePc, Purging
    <3> QED BY <3>1, GoPurgeQuiet
  <2>2. UNCHANGED <<assets, purges, files, nextId, intents, save>>
    BY <1>29 DEF PurgeUnlock
  <2> QED BY <2>1, <2>2, QuietStep, SavesKept, TablesKept
<1>30. ASSUME StartServer \/ Serve PROVE MediaInv'
  <2>1. UNCHANGED <<assets, purges, files, nextId, intents, save, purge>>
    BY <1>30 DEF StartServer, Serve
  <2> QED BY <2>1, QuietStep, SavesKept, PurgesKept, TablesKept
<1>31. ASSUME ResumePurge PROVE MediaInv'
  <2>1. QuietPurges
    <3>1. PICK a \in Ids :
            /\ Pending(a)
            /\ purge' = [purge EXCEPT ![Boot] = [IdlePurge EXCEPT
                           !.pc = "check", !.owner = purges[a].owner, !.id = a]]
      BY <1>31 DEF ResumePurge
    <3>2. /\ purge'[Boot].pc = "check" /\ purge'[Boot].id = a
          /\ \A q \in Purging : q # Boot => purge'[q] = purge[q]
      BY <1>0, <3>1 DEF IdlePurge, Purging
    <3> QED BY <3>1, <3>2 DEF QuietPurges, MediaInv, Detached, Pending
  <2>2. UNCHANGED <<assets, purges, files, nextId, intents, save>>
    BY <1>31 DEF ResumePurge
  <2> QED BY <2>1, <2>2, QuietStep, SavesKept, TablesKept
<1>32. ASSUME Resumed PROVE MediaInv'
  <2>1. QuietPurges
    <3>1. /\ purge'[Boot].pc = "idle" /\ \A q \in Purging : q # Boot => purge'[q] = purge[q]
      BY <1>0, <1>32 DEF Resumed, IdlePurge, Purging
    <3> QED BY <3>1 DEF QuietPurges, MediaInv, Detached
  <2>2. UNCHANGED <<assets, purges, files, nextId, intents, save>>
    BY <1>32 DEF Resumed
  <2> QED BY <2>1, <2>2, QuietStep, SavesKept, TablesKept
<1>33. ASSUME Crash PROVE MediaInv'
  <2>1. QuietSaves
    BY <1>0, <1>33, CrashFacts DEF QuietSaves, MediaInv, StagingUnowned, Unsettled, Ended
  <2>2. QuietPurges
    BY ZenonT(60), <1>0, <1>33, CrashFacts DEF QuietPurges, MediaInv, Detached
  <2>3. UNCHANGED <<assets, purges, files, nextId, intents>>
    BY <1>33 DEF Crash
  <2> QED BY <2>1, <2>2, <2>3, QuietStep, TablesKept
<1>34. ASSUME NEW r \in Readers, LockOpen(r) \/ LockBackup(r) \/ ReadStep(r) \/ EndRead(r) PROVE MediaInv'
  <2>1. UNCHANGED <<assets, purges, files, nextId, intents, save, purge>>
    BY <1>34 DEF LockOpen, LockBackup, LockRead, ReadStep, ReadRow, SnapshotRows, Reads, EndRead
  <2> QED BY <2>1, QuietStep, SavesKept, PurgesKept, TablesKept
<1>35. CASE UNCHANGED vars
  <2>1. UNCHANGED <<assets, purges, files, nextId, intents, save, purge>>
    BY <1>35 DEF vars
  <2> QED BY <2>1, QuietStep, SavesKept, PurgesKept, TablesKept
<1>36. Boot \in Purging /\ Purgers \subseteq Purging
  BY DEF Purging
<1> QED
  BY <1>1, <1>2, <1>3, <1>4, <1>5, <1>6, <1>7, <1>8, <1>9, <1>10, <1>11, <1>12, <1>13,
     <1>14, <1>15, <1>16, <1>17, <1>18, <1>19, <1>20, <1>21, <1>22, <1>23, <1>24, <1>25,
     <1>26, <1>27, <1>28, <1>29, <1>30, <1>31, <1>32, <1>33, <1>34, <1>35, <1>36
     DEF Next, SaveStep, PurgeStep, FinishStep, BootStep, Quiescent

(* An asset's media are its original and its poster. *)
LEMMA MediaFacts ==
    ASSUME NEW a, NEW F
    PROVE  /\ Media(a) \subseteq F <=> <<a, "original">> \in F /\ <<a, "poster">> \in F
           /\ Media(a) \cap F = {} <=> <<a, "original">> \notin F /\ <<a, "poster">> \notin F
<1>1. Media(a) = {<<a, "original">>, <<a, "poster">>}
  BY DEF Media, Parts
<1> QED BY <1>1

(* An asset's row, its original, its poster and its indexing intent are owned *)
(* together: no crash, lost acknowledgement, cleanup or deletion parts them.  *)
THEOREM SavedWholeAlways == Spec => []SavedWhole
<1>1. MediaInv => SavedWhole
  BY MediaFacts DEF MediaInv, Whole, SavedWhole
<1> QED BY TypeInitially, TypeStep, MediaInitially, MediaStep, <1>1, PTL DEF Spec

(* A completed deletion left no byte behind. *)
THEOREM DeletionReclaims == Spec => []CompletedPurgeReclaimed
<1>1. MediaInv => CompletedPurgeReclaimed
  BY MediaFacts DEF MediaInv, Reclaimed, CompletedPurgeReclaimed
<1> QED BY TypeInitially, TypeStep, MediaInitially, MediaStep, <1>1, PTL DEF Spec

-----------------------------------------------------------------------------
(* Answers.  Receipts are final and always resolve, an acknowledged save is  *)
(* never lost, and what was purged before a request began is never its       *)
(* answer.                                                                   *)

(* The owner retains the asset, or is known to have purged it. *)
Belongs(o, a) == (Retained(a) /\ assets[a].owner = o) \/ Purged(o, a)

(* What a request saw purged stays so; what it answers belongs to its owner, *)
(* and once it no longer looks a receipt up, was not purged when it began.   *)
Answered(s) ==
    /\ \A a \in save[s].gone : purges[a].status # "absent"
    /\ save[s].answer # NoAsset => Belongs(save[s].owner, save[s].answer)
    /\ save[s].pc # "replay" => save[s].answer \notin save[s].gone

AnswerInv == (\A s \in Savers : Answered(s)) /\ ReceiptsResolve

LEMMA AnswerInitially == Init => AnswerInv
<1> SUFFICES ASSUME Init PROVE AnswerInv
  OBVIOUS
<1>1. \A s \in Savers : save[s].gone = {} /\ save[s].answer = NoAsset
  BY DEF Init, IdleSave
<1>2. \A slot \in Owners \X Keys : claims[slot].status # "completed"
  BY DEF Init, NoClaim
<1> QED BY <1>1, <1>2 DEF AnswerInv, Answered, ReceiptsResolve

-----------------------------------------------------------------------------
(* Nearly every step keeps who owns what, every receipt and every answer.   *)

RowsKept ==
    \A a \in Ids :
        /\ purges[a].status # "absent" =>
             purges'[a].status # "absent" /\ purges'[a].owner = purges[a].owner
        /\ Retained(a) =>
             \/ assets'[a].status # "absent" /\ assets'[a].owner = assets[a].owner
             \/ purges'[a].status # "absent" /\ purges'[a].owner = assets[a].owner

ReceiptsKept ==
    \A slot \in Owners \X Keys :
        claims'[slot].status = "completed" =>
            claims[slot].status = "completed" /\ claims'[slot].receipt = claims[slot].receipt

AnswerKept(t) ==
    /\ save'[t].gone = save[t].gone /\ save'[t].owner = save[t].owner
    /\ \/ save'[t].answer = NoAsset
       \/ /\ save'[t].answer = save[t].answer
          /\ save[t].pc # "replay" \/ save'[t].pc = "replay"

(* An asset that belonged to an owner still does. *)
LEMMA BelongsKept ==
    ASSUME RowsKept, NEW a \in Ids
    PROVE  \A o : Belongs(o, a) =>
             \/ assets'[a].status # "absent" /\ assets'[a].owner = o
             \/ purges'[a].status # "absent" /\ purges'[a].owner = o
  BY DEF RowsKept, Belongs, Retained, Purged

(* A request whose answer is kept or dropped stays well answered. *)
LEMMA AnsweredKept ==
    ASSUME TypeInv, RowsKept, NEW t \in Savers, Answered(t), AnswerKept(t)
    PROVE  Answered(t)'
<1>1. save[t].gone \subseteq Ids /\ save[t].answer \in Ids \cup {NoAsset} /\ NoAsset \notin Ids
  BY DEF TypeInv, TypeOK, SaveState, Ids, NoAsset
<1>2. \A a \in save'[t].gone : purges'[a].status # "absent"
  BY <1>1 DEF Answered, AnswerKept, RowsKept
<1>3. save'[t].answer # NoAsset =>
        \/ assets'[save'[t].answer].status # "absent" /\ assets'[save'[t].answer].owner = save'[t].owner
        \/ purges'[save'[t].answer].status # "absent" /\ purges'[save'[t].answer].owner = save'[t].owner
  BY <1>1, BelongsKept DEF Answered, AnswerKept
<1>4. save'[t].pc # "replay" => save'[t].answer \notin save'[t].gone
  BY <1>1 DEF Answered, AnswerKept
<1> QED BY <1>2, <1>3, <1>4 DEF Answered, Belongs, Retained, Purged

(* A receipt that resolved still does, and nothing else is a receipt. *)
LEMMA ResolvedKept ==
    ASSUME TypeInv, RowsKept, ReceiptsResolve, NEW slot \in Owners \X Keys,
           claims'[slot].status = "completed",
           claims[slot].status = "completed" /\ claims'[slot].receipt = claims[slot].receipt
    PROVE  LET a == claims'[slot].receipt IN
           \/ assets'[a].status # "absent" /\ assets'[a].owner = slot[1]
           \/ purges'[a].status # "absent" /\ purges'[a].owner = slot[1]
<1>1. claims[slot].receipt \in Ids /\ Belongs(slot[1], claims[slot].receipt)
  BY DEF TypeInv, RowsKnown, ReceiptsResolve, Belongs
<1> QED BY <1>1, BelongsKept

LEMMA ResolvingKept ==
    TypeInv /\ RowsKept /\ ReceiptsResolve /\ ReceiptsKept => ReceiptsResolve'
<1> SUFFICES ASSUME TypeInv, RowsKept, ReceiptsResolve, ReceiptsKept,
                    NEW slot \in Owners \X Keys, claims'[slot].status = "completed"
             PROVE  LET a == claims'[slot].receipt IN
                    \/ assets'[a].status # "absent" /\ assets'[a].owner = slot[1]
                    \/ purges'[a].status # "absent" /\ purges'[a].owner = slot[1]
  BY DEF ReceiptsResolve, Retained, Purged
<1> QED BY ResolvedKept DEF ReceiptsKept

(* The frame of every step that gives no new answer and completes no claim. *)
LEMMA AnswerFrame ==
    ASSUME TypeInv, AnswerInv, RowsKept, ReceiptsKept, \A t \in Savers : AnswerKept(t)
    PROVE  AnswerInv'
<1>1. \A s \in Savers : Answered(s)'
  BY AnsweredKept DEF AnswerInv
<1>2. ReceiptsResolve'
  BY ResolvingKept DEF AnswerInv
<1> QED BY <1>1, <1>2 DEF AnswerInv

LEMMA GoSaveKeeps ==
    ASSUME TypeInv, NEW s \in Savers, NEW pc \in SavePc, GoSave(s, pc), save[s].pc # "replay"
    PROVE  \A t \in Savers : AnswerKept(t)
<1>1. save \in [Savers -> SaveState]
  BY DEF TypeInv, TypeOK
<1> QED BY <1>1, GoSaveFacts DEF AnswerKept

LEMMA SavesStay == save' = save => \A t \in Savers : AnswerKept(t)
  BY DEF AnswerKept

LEMMA RowsStay == UNCHANGED <<assets, purges>> => RowsKept
  BY DEF RowsKept, Retained

LEMMA ReceiptsStay == UNCHANGED claims => ReceiptsKept
  BY DEF ReceiptsKept

-----------------------------------------------------------------------------
(* The steps of a save that answer.                                         *)

(* A claim settled with an asset of the request's owner keeps resolving. *)
LEMMA SettledResolves ==
    ASSUME TypeInv, RowsKept, ReceiptsResolve, NEW s \in Savers, save[s].pc # "idle",
           NEW a \in Ids, claims' = claims \/ claims' = CompleteClaim(s, a),
           claims' # claims =>
             \/ assets'[a].status # "absent" /\ assets'[a].owner = save[s].owner
             \/ purges'[a].status # "absent" /\ purges'[a].owner = save[s].owner
    PROVE  ReceiptsResolve'
<1> SUFFICES ASSUME NEW slot \in Owners \X Keys, claims'[slot].status = "completed"
             PROVE  LET b == claims'[slot].receipt IN
                    \/ assets'[b].status # "absent" /\ assets'[b].owner = slot[1]
                    \/ purges'[b].status # "absent" /\ purges'[b].owner = slot[1]
  BY DEF ReceiptsResolve, Retained, Purged
<1>1. \/ claims'[slot] = claims[slot]
      \/ claims' # claims /\ slot[1] = save[s].owner /\ claims'[slot].receipt = a
  BY CompleteClaimRows
<1>2. CASE claims'[slot] = claims[slot]
  BY <1>2, ResolvedKept
<1>3. CASE claims' # claims /\ slot[1] = save[s].owner /\ claims'[slot].receipt = a
  BY <1>3
<1> QED BY <1>1, <1>2, <1>3

(* Settling with a duplicate answers with a retained asset, or with nothing. *)
LEMMA SettleAnswers ==
    ASSUME TypeInv, MediaInv, AnswerInv, NEW s \in Savers, save[s].pc \in {"early", "final"},
           NEW outcome \in [BOOLEAN -> {"uncommitted", "uncertain", "committed"}],
           SettleDuplicate(s, outcome), UNCHANGED <<assets, purges>>
    PROVE  AnswerInv'
<1>1. PICK a \in Ids :
        /\ Retained(a) /\ assets[a].owner = save[s].owner
        /\ claims' = claims \/ claims' = CompleteClaim(s, a)
        /\ save'[s].answer \in {a, NoAsset}
        /\ save'[s].owner = save[s].owner /\ save'[s].gone = save[s].gone
        /\ \A t \in Savers : t # s => save'[t] = save[t]
  BY SettleDuplicateFacts
<1>2. RowsKept /\ NoAsset \notin Ids /\ save[s].gone \subseteq Ids
  BY RowsStay DEF Ids, NoAsset, TypeInv, TypeOK, SaveState
<1>3. ReceiptsResolve'
  BY <1>1, <1>2, SettledResolves DEF AnswerInv, Retained
<1>4. \A t \in Savers : t # s => Answered(t)'
  BY <1>1, <1>2, AnsweredKept DEF AnswerInv, AnswerKept
<1>5. purges[a].status = "absent"
  BY <1>1 DEF MediaInv, PurgedGone
<1>6. Answered(s)'
  BY <1>1, <1>2, <1>5 DEF AnswerInv, Answered, Belongs, Retained, Purged
<1> QED BY <1>3, <1>4, <1>6 DEF AnswerInv

(* The final commit answers with the asset it owns, which nobody purged. *)
LEMMA InsertAnswers ==
    ASSUME TypeInv, MediaInv, AnswerInv, NEW s \in Savers, save[s].pc = "final",
           InsertAsset(s), UNCHANGED purges
    PROVE  AnswerInv'
<1> DEFINE id == save[s].id
           row == [status |-> "live", owner |-> save[s].owner, content |-> save[s].content]
<1>1. /\ \/ /\ assets' = [assets EXCEPT ![id] = row]
            /\ claims' = CompleteClaim(s, id)
            /\ save'[s].answer \in {id, NoAsset}
         \/ UNCHANGED <<assets, claims>> /\ save'[s].answer = NoAsset
      /\ save'[s].owner = save[s].owner /\ save'[s].gone = save[s].gone
      /\ \A t \in Savers : t # s => save'[t] = save[t]
  BY InsertAssetFacts
<1>2. id \in Ids /\ NoAsset \notin Ids /\ save[s].gone \subseteq Ids
  BY DEF Ids, NoAsset, TypeInv, TypeOK, RequestsKnown, SaveState
<1>3. ~Retained(id) /\ purges[id].status = "absent"
  BY <1>2 DEF MediaInv, StagingUnowned, Unsettled, NoAsset, Ids
<1>4. CASE UNCHANGED <<assets, claims>> /\ save'[s].answer = NoAsset
  <2>1. RowsKept /\ ReceiptsKept
    BY <1>4, RowsStay, ReceiptsStay
  <2>2. \A t \in Savers : AnswerKept(t)
    BY <1>1, <1>4 DEF AnswerKept
  <2> QED BY <2>1, <2>2, AnswerFrame
<1>5. CASE /\ assets' = [assets EXCEPT ![id] = row]
           /\ claims' = CompleteClaim(s, id)
           /\ save'[s].answer \in {id, NoAsset}
  <2>1. /\ assets'[id].status # "absent" /\ assets'[id].owner = save[s].owner
        /\ \A a \in Ids : a # id => assets'[a] = assets[a]
    BY <1>2, <1>5 DEF TypeInv, TypeOK
  <2>2. RowsKept
    BY <1>3, <2>1 DEF RowsKept, Retained
  <2>3. ReceiptsResolve'
    BY <1>2, <1>5, <2>1, <2>2, SettledResolves DEF AnswerInv
  <2>4. \A t \in Savers : t # s => Answered(t)'
    BY <1>1, <2>2, AnsweredKept DEF AnswerInv, AnswerKept
  <2>5. \A a \in save[s].gone : purges[a].status # "absent"
    BY DEF AnswerInv, Answered
  <2>6. Answered(s)'
    BY <1>1, <1>2, <1>3, <1>5, <2>1, <2>5 DEF Answered, Belongs, Retained, Purged
  <2> QED BY <2>3, <2>4, <2>6 DEF AnswerInv
<1> QED BY <1>1, <1>4, <1>5

-----------------------------------------------------------------------------
(* A request that begins has no answer yet, and remembers what was purged. *)
LEMMA AcceptAnswers ==
    ASSUME TypeInv, AnswerInv, RowsKept, ReceiptsKept, UNCHANGED <<assets, purges>>,
           NEW s \in Savers, NEW o \in Owners, NEW k \in Keys \cup {None},
           NEW c \in Contents, NEW pc \in {"admission", "receipt"}, Accept(s, o, k, c, pc)
    PROVE  AnswerInv'
<1>1. save \in [Savers -> SaveState] /\ pc \in SavePc /\ NoAsset \notin Ids
  BY DEF TypeInv, TypeOK, SavePc, NoAsset, Ids
<1>2. /\ save'[s].answer = NoAsset
      /\ save'[s].gone = {a \in Ids : purges[a].status # "absent"}
      /\ \A t \in Savers : t # s => save'[t] = save[t]
  BY <1>1, AcceptFacts
<1>3. Answered(s)'
  BY <1>1, <1>2 DEF Answered
<1>4. \A t \in Savers : t # s => Answered(t)'
  BY <1>2, AnsweredKept DEF AnswerInv, AnswerKept
<1> QED BY <1>3, <1>4, ResolvingKept DEF AnswerInv

LEMMA AnswerStep == TypeInv /\ MediaInv /\ AnswerInv /\ [Next]_vars => AnswerInv'
<1> SUFFICES ASSUME TypeInv, MediaInv, AnswerInv, [Next]_vars PROVE AnswerInv'
  OBVIOUS
<1> USE DEF process, locks, tables, disk, requests
<1>0. /\ save \in [Savers -> SaveState] /\ assets \in [Ids -> AssetRow]
      /\ purges \in [Ids -> PurgeRow] /\ claims \in [Owners \X Keys -> ClaimRow]
  BY DEF TypeInv, TypeOK
<1>1. ASSUME NEW s \in Savers, AcceptUnkeyed(s) PROVE AnswerInv'
  <2>1. PICK o \in Owners, c \in Contents : Accept(s, o, None, c, "admission")
    BY <1>1 DEF AcceptUnkeyed
  <2>2. RowsKept /\ ReceiptsKept /\ UNCHANGED <<assets, purges>>
    BY <1>1, RowsStay, ReceiptsStay DEF AcceptUnkeyed
  <2> QED BY <2>1, <2>2, AcceptAnswers
<1>2. ASSUME NEW s \in Savers, Claim(s) PROVE AnswerInv'
  <2>1. PICK o \in Owners, k \in Keys, c \in Contents, pc \in {"admission", "receipt"} :
          /\ Accept(s, o, k, c, pc)
          /\ \/ claims' = [Swept(o) EXCEPT ![<<o, k>>] =
                   [status |-> "processing", token |-> s, expired |-> FALSE,
                    receipt |-> NoAsset]]
             \/ claims' = Swept(o)
    BY <1>2 DEF Claim
  <2>2. RowsKept /\ UNCHANGED <<assets, purges>>
    BY <1>2, RowsStay DEF Claim
  <2>3. \A slot \in Owners \X Keys :
          Swept(o)[slot].status = "completed" => Swept(o)[slot] = claims[slot]
    BY <1>0, SweptFacts DEF NoClaim
  <2>4. Swept(o) \in [Owners \X Keys -> ClaimRow]
    BY <1>0, SweptFacts
  <2>5. ReceiptsKept
    BY <2>1, <2>3, <2>4 DEF ReceiptsKept
  <2> QED BY <2>1, <2>2, <2>5, AcceptAnswers
<1>3. ASSUME NEW s \in Savers, ReadReceipt(s) PROVE AnswerInv'
  <2>1. RowsKept /\ ReceiptsKept
    BY <1>3, RowsStay, ReceiptsStay DEF ReadReceipt
  <2>2. CASE claims[Slot(s)].status # "completed"
    <3>1. GoSave(s, "done") /\ "done" \in SavePc /\ save[s].pc # "replay"
      BY <1>3, <2>2 DEF ReadReceipt, SavePc
    <3> QED BY <2>1, <3>1, GoSaveKeeps, AnswerFrame
  <2>3. CASE claims[Slot(s)].status = "completed"
    <3>1. /\ Slot(s) \in Owners \X Keys /\ Slot(s)[1] = save[s].owner
      BY <1>3 DEF ReadReceipt, Slot, TypeInv, RequestsKnown
    <3> DEFINE a == claims[Slot(s)].receipt
    <3>2. a \in Ids /\ Belongs(save[s].owner, a)
      BY <2>3, <3>1 DEF AnswerInv, ReceiptsResolve, TypeInv, RowsKnown, Belongs
    <3>3. AnswerSave(s, "replay", a) /\ "replay" \in SavePc
      BY <1>3, <2>3 DEF ReadReceipt, SavePc
    <3> HIDE DEF a
    <3>4. /\ save'[s].pc = "replay" /\ save'[s].answer = a
          /\ save'[s].owner = save[s].owner /\ save'[s].gone = save[s].gone
          /\ \A t \in Savers : t # s => save'[t] = save[t]
      BY <1>0, <3>2, <3>3, AnswerSaveFacts
    <3>5. UNCHANGED <<assets, purges, claims>>
      BY <1>3 DEF ReadReceipt
    <3>6. \A t \in Savers : t # s => Answered(t)'
      BY <2>1, <3>4, AnsweredKept DEF AnswerInv, AnswerKept
    <3>7. \A b \in save[s].gone : purges[b].status # "absent"
      BY DEF AnswerInv, Answered
    <3>8. Answered(s)'
      BY <3>2, <3>4, <3>5, <3>7 DEF Answered, Belongs, Retained, Purged
    <3>9. ReceiptsResolve'
      BY <2>1, ResolvingKept DEF AnswerInv
    <3> QED BY <3>6, <3>8, <3>9 DEF AnswerInv
  <2> QED BY <2>2, <2>3
<1>4. ASSUME NEW s \in Savers, Replay(s) PROVE AnswerInv'
  <2> DEFINE a == save[s].answer
             answer == IF Purged(save[s].owner, a) THEN NoAsset ELSE a
  <2>1. RowsKept /\ ReceiptsKept /\ UNCHANGED <<assets, purges, claims>>
    BY <1>4, RowsStay, ReceiptsStay DEF Replay
  <2>2. /\ a \in Ids \cup {NoAsset} /\ answer \in Ids \cup {NoAsset}
        /\ save[s].gone \subseteq Ids /\ NoAsset \notin Ids
    BY DEF TypeInv, TypeOK, SaveState, Ids, NoAsset
  <2>3. AnswerSave(s, "done", answer) /\ "done" \in SavePc
    BY <1>4 DEF Replay, SavePc
  <2>4. answer # NoAsset => answer = a /\ ~Purged(save[s].owner, a) /\ Belongs(save[s].owner, a)
    BY DEF AnswerInv, Answered
  <2>5. answer # NoAsset => /\ Retained(answer) /\ assets[answer].owner = save[s].owner
                            /\ answer \in Ids
    BY <2>2, <2>4 DEF Belongs
  <2>6. answer \in Ids /\ Retained(answer) => purges[answer].status = "absent"
    BY DEF MediaInv, PurgedGone
  <2> HIDE DEF a, answer
  <2>7. /\ save'[s].pc = "done" /\ save'[s].answer = answer
        /\ save'[s].owner = save[s].owner /\ save'[s].gone = save[s].gone
        /\ \A t \in Savers : t # s => save'[t] = save[t]
    BY <1>0, <2>2, <2>3, AnswerSaveFacts
  <2>8. \A t \in Savers : t # s => Answered(t)'
    BY <2>1, <2>7, AnsweredKept DEF AnswerInv, AnswerKept
  <2>9. \A b \in save[s].gone : purges[b].status # "absent"
    BY DEF AnswerInv, Answered
  <2>10. Answered(s)'
    BY <2>1, <2>2, <2>5, <2>6, <2>7, <2>9 DEF Answered, Belongs, Retained, Purged
  <2>11. ReceiptsResolve'
    BY <2>1, ResolvingKept DEF AnswerInv
  <2> QED BY <2>8, <2>10, <2>11 DEF AnswerInv
<1>5. ASSUME NEW s \in Savers, SaveAdmission(s) PROVE AnswerInv'
  <2>1. GoSave(s, "library") /\ "library" \in SavePc /\ save[s].pc # "replay"
    BY <1>5 DEF SaveAdmission, SavePc
  <2>2. RowsKept /\ ReceiptsKept
    BY <1>5, RowsStay, ReceiptsStay DEF SaveAdmission
  <2> QED BY <2>1, <2>2, GoSaveKeeps, AnswerFrame
<1>6. ASSUME NEW s \in Savers, SaveLibrary(s) PROVE AnswerInv'
  <2>1. GoSave(s, "spool") /\ "spool" \in SavePc /\ save[s].pc # "replay"
    BY <1>6 DEF SaveLibrary, SavePc
  <2>2. RowsKept /\ ReceiptsKept
    BY <1>6, RowsStay, ReceiptsStay DEF SaveLibrary
  <2> QED BY <2>1, <2>2, GoSaveKeeps, AnswerFrame
<1>7. ASSUME NEW s \in Savers, Spool(s) PROVE AnswerInv'
  <2>1. GoSave(s, "early") /\ "early" \in SavePc /\ save[s].pc # "replay"
    BY <1>7 DEF Spool, SavePc
  <2>2. RowsKept /\ ReceiptsKept
    BY <1>7, RowsStay, ReceiptsStay DEF Spool
  <2> QED BY <2>1, <2>2, GoSaveKeeps, AnswerFrame
<1>8. ASSUME NEW s \in Savers, Cleanup(s) PROVE AnswerInv'
  <2>1. GoSave(s, "unlock") /\ "unlock" \in SavePc /\ save[s].pc # "replay"
    BY <1>8 DEF Cleanup, SavePc
  <2>2. RowsKept /\ ReceiptsKept
    BY <1>8, RowsStay, ReceiptsStay DEF Cleanup
  <2> QED BY <2>1, <2>2, GoSaveKeeps, AnswerFrame
<1>9. ASSUME NEW s \in Savers, SaveUnlock(s) PROVE AnswerInv'
  <2>1. GoSave(s, "release") /\ "release" \in SavePc /\ save[s].pc # "replay"
    BY <1>9 DEF SaveUnlock, SavePc
  <2>2. RowsKept /\ ReceiptsKept
    BY <1>9, RowsStay, ReceiptsStay DEF SaveUnlock
  <2> QED BY <2>1, <2>2, GoSaveKeeps, AnswerFrame
<1>10. ASSUME NEW s \in Savers, EarlyTransaction(s) PROVE AnswerInv'
  <2>1. UNCHANGED <<assets, purges>> /\ save[s].pc = "early"
    BY <1>10 DEF EarlyTransaction
  <2>2. CASE SettleDuplicate(s, CommitOutcome)
    <3>1. CommitOutcome \in [BOOLEAN -> {"uncommitted", "uncertain", "committed"}]
      BY DEF CommitOutcome
    <3> QED BY <2>1, <2>2, <3>1, SettleAnswers
  <2>3. CASE UNCHANGED claims /\ \E pc \in {"prepare", "exit"} : GoSave(s, pc)
    <3>1. RowsKept /\ ReceiptsKept /\ {"prepare", "exit"} \subseteq SavePc
      BY <2>1, <2>3, RowsStay, ReceiptsStay DEF SavePc
    <3> QED BY <2>1, <2>3, <3>1, GoSaveKeeps, AnswerFrame
  <2> QED BY <1>10, <2>2, <2>3 DEF EarlyTransaction
<1>11. ASSUME NEW s \in Savers, Prepare(s) PROVE AnswerInv'
  <2>1. RowsKept /\ ReceiptsKept /\ save[s].pc = "prepare"
    BY <1>11, RowsStay, ReceiptsStay DEF Prepare
  <2>2. CASE GoSave(s, "exit")
    <3>1. "exit" \in SavePc
      BY DEF SavePc
    <3> QED BY <2>1, <2>2, <3>1, GoSaveKeeps, AnswerFrame
  <2>3. CASE /\ nextId \in Ids
             /\ save' = [save EXCEPT ![s].pc = "original", ![s].id = nextId]
    <3>1. \A t \in Savers : AnswerKept(t)
      BY <1>0, <2>1, <2>3 DEF SaveState, AnswerKept
    <3> QED BY <2>1, <3>1, AnswerFrame
  <2> QED BY <1>11, <2>2, <2>3 DEF Prepare
<1>12. ASSUME NEW s \in Savers, PutOriginal(s) PROVE AnswerInv'
  <2>1. RowsKept /\ ReceiptsKept /\ save[s].pc = "original"
    BY <1>12, RowsStay, ReceiptsStay DEF PutOriginal, Put
  <2>2. \E pc \in {"poster", "exit"} : GoSave(s, pc) /\ pc \in SavePc
    BY <1>12 DEF PutOriginal, Put, SavePc
  <2> QED BY <2>1, <2>2, GoSaveKeeps, AnswerFrame
<1>13. ASSUME NEW s \in Savers, PutPoster(s) PROVE AnswerInv'
  <2>1. RowsKept /\ ReceiptsKept /\ save[s].pc = "poster"
    BY <1>13, RowsStay, ReceiptsStay DEF PutPoster, Put
  <2>2. \E pc \in {"final", "exit"} : GoSave(s, pc) /\ pc \in SavePc
    BY <1>13 DEF PutPoster, Put, SavePc
  <2> QED BY <2>1, <2>2, GoSaveKeeps, AnswerFrame
<1>14. ASSUME NEW s \in Savers, FinalTransaction(s) PROVE AnswerInv'
  <2>1. UNCHANGED purges /\ save[s].pc = "final"
    BY <1>14 DEF FinalTransaction
  <2>2. CASE SettleDuplicate(s, StagedOutcome) /\ UNCHANGED assets
    <3>1. StagedOutcome \in [BOOLEAN -> {"uncommitted", "uncertain", "committed"}]
      BY DEF StagedOutcome
    <3> QED BY <2>1, <2>2, <3>1, SettleAnswers
  <2>3. CASE InsertAsset(s)
    BY <2>1, <2>3, InsertAnswers
  <2>4. CASE GoSave(s, "exit") /\ UNCHANGED <<assets, claims>>
    <3>1. RowsKept /\ ReceiptsKept /\ "exit" \in SavePc
      BY <2>1, <2>4, RowsStay, ReceiptsStay DEF SavePc
    <3> QED BY <2>1, <2>4, <3>1, GoSaveKeeps, AnswerFrame
  <2> QED BY <1>14, <2>2, <2>3, <2>4 DEF FinalTransaction
<1>15. ASSUME NEW s \in Savers, Refuse(s) PROVE AnswerInv'
  <2>1. RowsKept /\ ReceiptsKept /\ "exit" \in SavePc /\ "done" \in SavePc
    BY <1>15, RowsStay, ReceiptsStay DEF Refuse, SavePc
  <2>2. CASE GoSave(s, "exit") /\ save[s].pc # "replay"
    BY <2>1, <2>2, GoSaveKeeps, AnswerFrame
  <2>3. CASE AnswerSave(s, "done", NoAsset)
    <3>1. \A t \in Savers : AnswerKept(t)
      BY <1>0, <2>1, <2>3, AnswerSaveFacts DEF AnswerKept
    <3> QED BY <2>1, <3>1, AnswerFrame
  <2> QED BY <1>15, <2>2, <2>3 DEF Refuse
<1>16. ASSUME NEW s \in Savers, ReleaseClaim(s) PROVE AnswerInv'
  <2>1. RowsKept /\ GoSave(s, "done") /\ "done" \in SavePc /\ save[s].pc # "replay"
    BY <1>16, RowsStay DEF ReleaseClaim, SavePc
  <2>2. claims' = claims \/ claims' = [claims EXCEPT ![Slot(s)] = NoClaim]
    BY <1>16 DEF ReleaseClaim
  <2>3. ReceiptsKept
    BY <1>0, <2>2 DEF ReceiptsKept, NoClaim
  <2> QED BY <2>1, <2>3, GoSaveKeeps, AnswerFrame
<1>17. ASSUME NEW slot \in Owners \X Keys, LeaseOrReceiptExpires(slot) PROVE AnswerInv'
  <2>1. RowsKept /\ \A t \in Savers : AnswerKept(t)
    BY <1>17, RowsStay, SavesStay DEF LeaseOrReceiptExpires
  <2>2. claims' = [claims EXCEPT ![slot].expired = TRUE]
    BY <1>17 DEF LeaseOrReceiptExpires
  <2>3. ReceiptsKept
    BY <1>0, <2>2 DEF ReceiptsKept, ClaimRow
  <2> QED BY <2>1, <2>3, AnswerFrame
<1>18. ASSUME NEW a \in Ids, Trash(a) PROVE AnswerInv'
  <2>1. /\ UNCHANGED <<purges, claims, save>>
        /\ assets' = [assets EXCEPT ![a].status = "trashed"]
    BY <1>18 DEF Trash
  <2>2. RowsKept
    BY <1>0, <2>1 DEF RowsKept, Retained, AssetRow
  <2> QED BY <2>1, <2>2, SavesStay, ReceiptsStay, AnswerFrame
<1>19. ASSUME NEW a \in Ids, Restore(a) PROVE AnswerInv'
  <2>1. /\ UNCHANGED <<purges, claims, save>>
        /\ assets' = [assets EXCEPT ![a].status = "live"]
    BY <1>19 DEF Restore
  <2>2. RowsKept
    BY <1>0, <2>1 DEF RowsKept, Retained, AssetRow
  <2> QED BY <2>1, <2>2, SavesStay, ReceiptsStay, AnswerFrame
<1>20. ASSUME NEW p \in Purgers, BeginPurge(p) PROVE AnswerInv'
  BY <1>20, SavesStay, RowsStay, ReceiptsStay, AnswerFrame DEF BeginPurge
<1>21. ASSUME NEW p \in Purgers, PurgeAdmission(p) PROVE AnswerInv'
  BY <1>21, SavesStay, RowsStay, ReceiptsStay, AnswerFrame DEF PurgeAdmission
<1>22. ASSUME NEW p \in Purgers, PurgeLibrary(p) PROVE AnswerInv'
  BY <1>22, SavesStay, RowsStay, ReceiptsStay, AnswerFrame DEF PurgeLibrary
<1>23. ASSUME NEW p \in Purgers, Detach(p) PROVE AnswerInv'
  <2> DEFINE a == purge[p].id
             o == purge[p].owner
  <2>1. UNCHANGED <<claims, save>>
    BY <1>23 DEF Detach
  <2>2. CASE UNCHANGED <<assets, purges>>
    BY <2>1, <2>2, RowsStay, SavesStay, ReceiptsStay, AnswerFrame
  <2>3. CASE /\ Purgeable(o, a)
             /\ purges' = [purges EXCEPT ![a] = [status |-> "pending", owner |-> o]]
             /\ assets' = [assets EXCEPT ![a] = NoRow]
    <3>1. a \in Ids
      BY <1>23 DEF Detach, TypeInv, RequestsKnown, Purging
    <3>2. assets[a].owner = o /\ purges[a].status = "absent"
      BY <2>3, <3>1 DEF Purgeable, MediaInv, PurgedGone, Retained
    <3>3. /\ purges'[a].status = "pending" /\ purges'[a].owner = o
          /\ \A b \in Ids : b # a => purges'[b] = purges[b] /\ assets'[b] = assets[b]
      BY <1>0, <2>3, <3>1
    <3>4. RowsKept
      BY <3>2, <3>3 DEF RowsKept, Retained
    <3> QED BY <2>1, <3>4, SavesStay, ReceiptsStay, AnswerFrame
  <2> QED BY <1>23, <2>2, <2>3 DEF Detach
<1>24. ASSUME NEW p \in Purging, CheckReferenced(p) PROVE AnswerInv'
  BY <1>24, SavesStay, RowsStay, ReceiptsStay, AnswerFrame DEF CheckReferenced
<1>25. ASSUME NEW p \in Purging, UnlinkOriginal(p) PROVE AnswerInv'
  BY <1>25, SavesStay, RowsStay, ReceiptsStay, AnswerFrame DEF UnlinkOriginal, Unlink
<1>26. ASSUME NEW p \in Purging, UnlinkPoster(p) PROVE AnswerInv'
  BY <1>26, SavesStay, RowsStay, ReceiptsStay, AnswerFrame DEF UnlinkPoster, Unlink
<1>27. ASSUME NEW p \in Purging, CompletePurge(p) PROVE AnswerInv'
  <2>1. UNCHANGED <<assets, claims, save>>
    BY <1>27 DEF CompletePurge
  <2>2. CASE UNCHANGED purges
    BY <2>1, <2>2, RowsStay, SavesStay, ReceiptsStay, AnswerFrame
  <2>3. CASE purges' = [purges EXCEPT ![purge[p].id] = Tombstone(@)]
    <3>1. RowsKept
      BY <1>0, <2>1, <2>3 DEF RowsKept, Tombstone, PurgeRow, Retained
    <3> QED BY <2>1, <3>1, SavesStay, ReceiptsStay, AnswerFrame
  <2> QED BY <1>27, <2>2, <2>3 DEF CompletePurge
<1>28. ASSUME NEW p \in Purgers, AbandonPurge(p) PROVE AnswerInv'
  BY <1>28, SavesStay, RowsStay, ReceiptsStay, AnswerFrame DEF AbandonPurge
<1>29. ASSUME NEW p \in Purgers, PurgeUnlock(p) PROVE AnswerInv'
  BY <1>29, SavesStay, RowsStay, ReceiptsStay, AnswerFrame DEF PurgeUnlock
<1>30. ASSUME StartServer PROVE AnswerInv'
  BY <1>30, SavesStay, RowsStay, ReceiptsStay, AnswerFrame DEF StartServer
<1>31. ASSUME ResumePurge PROVE AnswerInv'
  BY <1>31, SavesStay, RowsStay, ReceiptsStay, AnswerFrame DEF ResumePurge
<1>32. ASSUME Resumed PROVE AnswerInv'
  BY <1>32, SavesStay, RowsStay, ReceiptsStay, AnswerFrame DEF Resumed
<1>33. ASSUME Serve PROVE AnswerInv'
  BY <1>33, SavesStay, RowsStay, ReceiptsStay, AnswerFrame DEF Serve
<1>34. ASSUME Crash PROVE AnswerInv'
  <2>1. RowsKept /\ ReceiptsKept
    BY <1>34, RowsStay, ReceiptsStay DEF Crash
  <2>2. purge \in [Purging -> PurgeState]
    BY DEF TypeInv, TypeOK
  <2>3. \A t \in Savers : AnswerKept(t)
    BY <1>0, <1>34, <2>2, CrashFacts DEF AnswerKept
  <2> QED BY <2>1, <2>3, AnswerFrame
<1>35. ASSUME NEW r \in Readers, LockOpen(r) \/ LockBackup(r) \/ ReadStep(r) \/ EndRead(r)
       PROVE  AnswerInv'
  <2>1. UNCHANGED <<assets, purges, claims, save>>
    BY <1>35 DEF LockOpen, LockBackup, LockRead, ReadStep, ReadRow, SnapshotRows, Reads, EndRead
  <2> QED BY <2>1, SavesStay, RowsStay, ReceiptsStay, AnswerFrame
<1>36. CASE UNCHANGED vars
  BY <1>36, SavesStay, RowsStay, ReceiptsStay, AnswerFrame DEF vars
<1>37. Boot \in Purging /\ Purgers \subseteq Purging
  BY DEF Purging
<1> QED
  BY <1>1, <1>2, <1>3, <1>4, <1>5, <1>6, <1>7, <1>8, <1>9, <1>10, <1>11, <1>12,
     <1>13, <1>14, <1>15, <1>16, <1>17, <1>18, <1>19, <1>20, <1>21, <1>22, <1>23,
     <1>24, <1>25, <1>26, <1>27, <1>28, <1>29, <1>30, <1>31, <1>32, <1>33, <1>34,
     <1>35, <1>36, <1>37
     DEF Next, SaveStep, PurgeStep, FinishStep, BootStep, Quiescent

-----------------------------------------------------------------------------
(* The inductive invariant: types, media and answers.                       *)

LEMMA AnswerInvariant == Spec => [](MediaInv /\ AnswerInv)
<1>1. Init => TypeInv /\ MediaInv /\ AnswerInv
  BY TypeInitially, MediaInitially, AnswerInitially
<1>2. TypeInv /\ MediaInv /\ AnswerInv /\ [Next]_vars => (TypeInv /\ MediaInv /\ AnswerInv)'
  BY TypeStep, MediaStep, AnswerStep
<1> QED BY <1>1, <1>2, PTL DEF Spec

(* A save that was answered with an asset is never lost: its owner retains  *)
(* that asset or has purged it, whatever crashed or was retried since.      *)
THEOREM AcknowledgedIsKept == Spec => []AcknowledgedNeverLost
<1>1. AnswerInv => AcknowledgedNeverLost
  BY DEF AnswerInv, Answered, AcknowledgedNeverLost, Belongs
<1> QED BY AnswerInvariant, <1>1, PTL

(* A completed receipt names an asset its owner retains or is known to have *)
(* purged.                                                                  *)
THEOREM ReceiptsAlwaysResolve == Spec => []ReceiptsResolve
<1>1. AnswerInv => ReceiptsResolve
  BY DEF AnswerInv
<1> QED BY AnswerInvariant, <1>1, PTL

(* A request that begins after an asset was detached for deletion is never  *)
(* answered with it, whatever receipt it finds.                             *)
THEOREM PurgedStaysGone == Spec => []PurgedNeverAnswered
<1>1. AnswerInv => PurgedNeverAnswered
  BY DEF AnswerInv, Answered, PurgedNeverAnswered
<1> QED BY AnswerInvariant, <1>1, PTL

-----------------------------------------------------------------------------
(* Receipts are final: only a request that holds its claim completes it.    *)

Final(slot) ==
    claims[slot].status = "completed" /\ ~claims[slot].expired =>
        claims'[slot] \in {claims[slot], [claims[slot] EXCEPT !.expired = TRUE]}

(* A request that still holds its claim touches no receipt by settling it. *)
LEMMA FencedFinal ==
    ASSUME TypeInv, NEW s \in Savers, Fenced(s), NEW a,
           claims' = claims \/ claims' = CompleteClaim(s, a)
    PROVE  \A slot \in Owners \X Keys : Final(slot)
<1>1. claims \in [Owners \X Keys -> ClaimRow]
  BY DEF TypeInv, TypeOK
<1> QED BY <1>1 DEF Fenced, CompleteClaim, Final

LEMMA FinalStep ==
    TypeInv /\ [Next]_vars => \A slot \in Owners \X Keys : Final(slot)
<1> SUFFICES ASSUME TypeInv, [Next]_vars PROVE \A slot \in Owners \X Keys : Final(slot)
  OBVIOUS
<1> USE DEF process, locks, tables, disk, requests
<1>0. claims \in [Owners \X Keys -> ClaimRow]
  BY DEF TypeInv, TypeOK
<1>1. ASSUME UNCHANGED claims PROVE \A slot \in Owners \X Keys : Final(slot)
  BY <1>1 DEF Final
<1>2. ASSUME NEW s \in Savers, Claim(s) PROVE \A slot \in Owners \X Keys : Final(slot)
  <2>1. PICK o \in Owners, k \in Keys :
          \/ /\ Swept(o)[<<o, k>>].status = "absent" \/ Swept(o)[<<o, k>>].expired
             /\ claims' = [Swept(o) EXCEPT ![<<o, k>>] =
                  [status |-> "processing", token |-> s, expired |-> FALSE,
                   receipt |-> NoAsset]]
          \/ claims' = Swept(o)
    BY <1>2 DEF Claim
  <2>2. /\ Swept(o) \in [Owners \X Keys -> ClaimRow]
        /\ \A slot \in Owners \X Keys :
             ~claims[slot].expired => Swept(o)[slot] = claims[slot]
    BY <1>0, SweptFacts DEF Swept
  <2> QED BY <2>1, <2>2 DEF Final
<1>3. ASSUME NEW s \in Savers, EarlyTransaction(s) \/ FinalTransaction(s)
      PROVE  \A slot \in Owners \X Keys : Final(slot)
  <2>1. CASE UNCHANGED claims
    BY <1>1, <2>1
  <2>2. CASE /\ Fenced(s)
             /\ \/ \E outcome : SettleDuplicate(s, outcome)
                \/ InsertAsset(s)
    <3>1. \E a : claims' = claims \/ claims' = CompleteClaim(s, a)
      BY <2>2 DEF SettleDuplicate, InsertAsset
    <3> QED BY <2>2, <3>1, FencedFinal
  <2> QED BY <1>3, <2>1, <2>2 DEF EarlyTransaction, FinalTransaction
<1>4. ASSUME NEW s \in Savers, ReleaseClaim(s) PROVE \A slot \in Owners \X Keys : Final(slot)
  <2>1. \/ claims' = claims
        \/ claims' = [claims EXCEPT ![Slot(s)] = NoClaim] /\ OwnsClaim(s)
    BY <1>4 DEF ReleaseClaim
  <2> QED BY <1>0, <2>1 DEF OwnsClaim, Final
<1>5. ASSUME NEW slot \in Owners \X Keys, LeaseOrReceiptExpires(slot)
      PROVE  \A other \in Owners \X Keys : Final(other)
  <2>1. claims' = [claims EXCEPT ![slot].expired = TRUE]
    BY <1>5 DEF LeaseOrReceiptExpires
  <2> QED BY <1>0, <2>1 DEF Final
<1>6. ASSUME NEW s \in Savers,
             \/ AcceptUnkeyed(s) \/ ReadReceipt(s) \/ Replay(s) \/ Refuse(s)
             \/ SaveAdmission(s) \/ SaveLibrary(s) \/ Spool(s) \/ Prepare(s)
             \/ PutOriginal(s) \/ PutPoster(s) \/ Cleanup(s) \/ SaveUnlock(s)
      PROVE  UNCHANGED claims
  BY <1>6 DEF AcceptUnkeyed, ReadReceipt, Replay, Refuse, SaveAdmission, SaveLibrary, Spool,
     Prepare, PutOriginal, PutPoster, Put, Cleanup, SaveUnlock
<1>7. ASSUME NEW p, PurgeStep(p) \/ FinishStep(p) \/ BeginPurge(p) \/ AbandonPurge(p)
      PROVE  UNCHANGED claims
  BY <1>7 DEF PurgeStep, FinishStep, BeginPurge, AbandonPurge, PurgeAdmission, PurgeLibrary,
     Detach, CheckReferenced, UnlinkOriginal, UnlinkPoster, Unlink, CompletePurge, PurgeUnlock
<1>8. ASSUME NEW r, LockOpen(r) \/ LockBackup(r) \/ ReadStep(r) \/ EndRead(r)
      PROVE  UNCHANGED claims
  BY <1>8 DEF LockOpen, LockBackup, LockRead, ReadStep, ReadRow, SnapshotRows, Reads, EndRead
<1>9. ASSUME \/ StartServer \/ ResumePurge \/ Resumed \/ Serve \/ Crash \/ UNCHANGED vars
             \/ \E a \in Ids : Trash(a) \/ Restore(a)
      PROVE  UNCHANGED claims
  BY <1>9 DEF StartServer, ResumePurge, Resumed, Serve, Crash, vars, Trash, Restore
<1> QED
  BY <1>1, <1>2, <1>3, <1>4, <1>5, <1>6, <1>7, <1>8, <1>9
     DEF Next, SaveStep, BootStep, Quiescent

(* A retained receipt never changes and is never withdrawn before it expires, *)
(* although a lease may lapse under the request that holds it.                *)
THEOREM ReceiptStaysFinal == Spec => ReceiptIsFinal
<1>1. TypeInv /\ [Next]_vars =>
        [\A slot \in Owners \X Keys :
           claims[slot].status = "completed" /\ ~claims[slot].expired =>
             claims'[slot] \in {claims[slot], [claims[slot] EXCEPT !.expired = TRUE]}]_claims
  BY FinalStep DEF Final
<1> QED BY TypeInitially, TypeStep, <1>1, PTL DEF Spec, ReceiptIsFinal

-----------------------------------------------------------------------------
(* The library the save boundary promises. *)
(* What a step does to the two tables of assets and deletions. *)

Inserted(s) ==
    /\ save[s].pc = "final" /\ ~IsDuplicate(s) /\ AdmitStorage
    /\ assets' = [assets EXCEPT ![save[s].id] =
         [status |-> "live", owner |-> save[s].owner, content |-> save[s].content]]
    /\ purges' = purges

Moved(a, from, to) ==
    /\ assets[a].status = from
    /\ assets' = [assets EXCEPT ![a].status = to]
    /\ purges' = purges

DetachedBy(p) ==
    LET a == purge[p].id IN
    /\ purge[p].pc = "detach" /\ assets[a].status = "trashed" /\ purges[a].status = "absent"
    /\ purges' = [purges EXCEPT ![a] = [status |-> "pending", owner |-> purge[p].owner]]
    /\ assets' = [assets EXCEPT ![a] = NoRow]

CompletedBy(p) ==
    /\ purge[p].pc = "complete"
    /\ purges' = [purges EXCEPT ![purge[p].id].status = "completed"]
    /\ assets' = assets

TableStep ==
    \/ UNCHANGED <<assets, purges>>
    \/ \E s \in Savers : Inserted(s)
    \/ \E a \in Ids : Moved(a, "live", "trashed") \/ Moved(a, "trashed", "live")
    \/ \E p \in Purging : DetachedBy(p) \/ CompletedBy(p)

LEMMA TableSteps == TypeInv /\ MediaInv /\ [Next]_vars => TableStep
<1> SUFFICES ASSUME TypeInv, MediaInv, [Next]_vars PROVE TableStep
  OBVIOUS
<1> USE DEF process, locks, tables, disk, requests
<1>1. ASSUME NEW s \in Savers,
             AcceptUnkeyed(s) \/ Claim(s) \/ SaveStep(s) \/ Refuse(s)
      PROVE  TableStep
  <2>1. CASE FinalTransaction(s)
    <3>1. CASE ~IsDuplicate(s) /\ AdmitStorage /\ InsertAsset(s)
      BY <2>1, <3>1 DEF FinalTransaction, InsertAsset, TableStep, Inserted
    <3> QED BY <2>1, <3>1 DEF FinalTransaction, TableStep
  <2>2. CASE ~FinalTransaction(s)
    <3>1. UNCHANGED <<assets, purges>>
      BY <1>1, <2>2 DEF AcceptUnkeyed, Claim, SaveStep, Refuse, ReadReceipt, Replay, SaveAdmission,
         SaveLibrary, Spool, EarlyTransaction, Prepare, PutOriginal, PutPoster, Put, Cleanup,
         SaveUnlock, ReleaseClaim
    <3> QED BY <3>1 DEF TableStep
  <2> QED BY <2>1, <2>2
<1>2. ASSUME NEW p \in Purging, Detach(p) PROVE TableStep
  <2>1. CASE UNCHANGED <<assets, purges>>
    BY <2>1 DEF TableStep
  <2>2. CASE ~UNCHANGED <<assets, purges>>
    <3>1. /\ purge[p].pc = "detach" /\ purges' = [purges EXCEPT ![purge[p].id] =
                              [status |-> "pending", owner |-> purge[p].owner]]
          /\ assets' = [assets EXCEPT ![purge[p].id] = NoRow]
          /\ assets[purge[p].id].status = "trashed"
      BY <1>2, <2>2 DEF Detach, Purgeable
    <3>2. purge[p].id \in Ids
      BY <3>1 DEF TypeInv, RequestsKnown
    <3>3. purges[purge[p].id].status = "absent"
      BY <3>1, <3>2 DEF MediaInv, PurgedGone, Retained
    <3> QED BY <3>1, <3>3 DEF TableStep, DetachedBy
  <2> QED BY <2>1, <2>2
<1>3. ASSUME NEW p \in Purging, CompletePurge(p) PROVE TableStep
  <2>1. purge[p].id \in Ids /\ purges \in [Ids -> PurgeRow]
    BY <1>3 DEF CompletePurge, TypeInv, RequestsKnown, TypeOK
  <2>2. CASE purges' = [purges EXCEPT ![purge[p].id] = Tombstone(@)]
    <3>1. purges' = [purges EXCEPT ![purge[p].id].status = "completed"]
      BY <2>1, <2>2 DEF Tombstone
    <3> QED BY <1>3, <3>1 DEF CompletePurge, TableStep, CompletedBy
  <2> QED BY <1>3, <2>2 DEF CompletePurge, TableStep
<1>4. ASSUME NEW p \in Purging,
             \/ BeginPurge(p) \/ PurgeAdmission(p) \/ PurgeLibrary(p) \/ PurgeUnlock(p)
             \/ AbandonPurge(p) \/ CheckReferenced(p) \/ UnlinkOriginal(p) \/ UnlinkPoster(p)
      PROVE  TableStep
  BY <1>4 DEF BeginPurge, PurgeAdmission, PurgeLibrary, PurgeUnlock, AbandonPurge,
     CheckReferenced, UnlinkOriginal, UnlinkPoster, Unlink, TableStep
<1>5. ASSUME NEW a \in Ids, Trash(a) \/ Restore(a) PROVE TableStep
  BY <1>5 DEF Trash, Restore, TableStep, Moved
<1>6. ASSUME NEW r \in Readers, LockOpen(r) \/ LockBackup(r) \/ ReadStep(r) \/ EndRead(r)
      PROVE  TableStep
  BY <1>6 DEF LockOpen, LockBackup, LockRead, ReadStep, ReadRow, SnapshotRows, Reads, EndRead,
     TableStep
<1>7. ASSUME StartServer \/ ResumePurge \/ Resumed \/ Serve \/ Crash \/ Quiescent \/ UNCHANGED vars
      PROVE  TableStep
  BY <1>7 DEF StartServer, ResumePurge, Resumed, Serve, Crash, Quiescent, vars, TableStep
<1>8. ASSUME NEW slot \in Owners \X Keys, LeaseOrReceiptExpires(slot) PROVE TableStep
  BY <1>8 DEF LeaseOrReceiptExpires, TableStep
<1> QED BY <1>1, <1>2, <1>3, <1>4, <1>5, <1>6, <1>7, <1>8
        DEF Next, PurgeStep, FinishStep, BootStep, Purging
-----------------------------------------------------------------------------
(* The row of an asset that is not retained says nothing more.              *)
BlankRows == \A a \in Ids : ~Retained(a) => assets[a] = NoRow

LEMMA BlankInitially == Init => BlankRows
  BY DEF Init, BlankRows

(* The rows after a step, one asset at a time.                              *)
LEMMA RowChanges ==
    ASSUME TypeInv, MediaInv, TableStep
    PROVE  /\ assets \in [Ids -> AssetRow] /\ purges \in [Ids -> PurgeRow]
           /\ \A s \in Savers : Inserted(s) =>
                /\ save[s].id \in Ids /\ save[s].owner \in Owners /\ save[s].content \in Contents
                /\ ~Retained(save[s].id) /\ purges[save[s].id].status = "absent"
                /\ assets'[save[s].id] = [status |-> "live", owner |-> save[s].owner,
                                          content |-> save[s].content]
                /\ \A a \in Ids \ {save[s].id} : assets'[a] = assets[a]
           /\ \A a \in Ids : \A from, to \in {"live", "trashed"} : Moved(a, from, to) =>
                /\ purges[a].status = "absent"
                /\ assets'[a] = [assets[a] EXCEPT !.status = to]
                /\ \A b \in Ids \ {a} : assets'[b] = assets[b]
           /\ \A p \in Purging : DetachedBy(p) =>
                /\ purge[p].id \in Ids
                /\ assets'[purge[p].id] = NoRow
                /\ purges'[purge[p].id] = [status |-> "pending", owner |-> purge[p].owner]
                /\ \A a \in Ids \ {purge[p].id} : assets'[a] = assets[a] /\ purges'[a] = purges[a]
           /\ \A p \in Purging : CompletedBy(p) =>
                /\ purge[p].id \in Ids
                /\ purges[purge[p].id].status # "absent"
                /\ purges'[purge[p].id] = [purges[purge[p].id] EXCEPT !.status = "completed"]
                /\ \A a \in Ids \ {purge[p].id} : purges'[a] = purges[a]
<1>1. assets \in [Ids -> AssetRow] /\ purges \in [Ids -> PurgeRow]
  BY DEF TypeInv, TypeOK
<1>2. ASSUME NEW s \in Savers, Inserted(s)
      PROVE  /\ save[s].id \in Ids /\ save[s].owner \in Owners /\ save[s].content \in Contents
             /\ ~Retained(save[s].id) /\ purges[save[s].id].status = "absent"
             /\ assets'[save[s].id] = [status |-> "live", owner |-> save[s].owner,
                                       content |-> save[s].content]
             /\ \A a \in Ids \ {save[s].id} : assets'[a] = assets[a]
  <2>1. save[s].pc = "final" /\ save[s].id \in Ids /\ save[s].owner \in Owners /\ save[s].content \in Contents
    BY <1>2 DEF Inserted, TypeInv, RequestsKnown
  <2>2. ~Retained(save[s].id) /\ purges[save[s].id].status = "absent"
    BY <2>1 DEF MediaInv, StagingUnowned, Unsettled, Ids, NoAsset
  <2> QED BY <1>1, <1>2, <2>1, <2>2 DEF Inserted
<1>3. ASSUME NEW a \in Ids, NEW from \in {"live", "trashed"}, NEW to \in {"live", "trashed"},
             Moved(a, from, to)
      PROVE  /\ purges[a].status = "absent"
             /\ assets'[a] = [assets[a] EXCEPT !.status = to]
             /\ \A b \in Ids \ {a} : assets'[b] = assets[b]
  BY <1>1, <1>3 DEF Moved, MediaInv, PurgedGone, Retained
<1>4. ASSUME NEW p \in Purging, DetachedBy(p)
      PROVE  /\ purge[p].id \in Ids
             /\ assets'[purge[p].id] = NoRow
             /\ purges'[purge[p].id] = [status |-> "pending", owner |-> purge[p].owner]
             /\ \A a \in Ids \ {purge[p].id} : assets'[a] = assets[a] /\ purges'[a] = purges[a]
  <2>1. purge[p].id \in Ids
    BY <1>4 DEF DetachedBy, TypeInv, RequestsKnown
  <2> QED BY <1>1, <1>4, <2>1 DEF DetachedBy
<1>5. ASSUME NEW p \in Purging, CompletedBy(p)
      PROVE  /\ purge[p].id \in Ids
             /\ purges[purge[p].id].status # "absent"
             /\ purges'[purge[p].id] = [purges[purge[p].id] EXCEPT !.status = "completed"]
             /\ \A a \in Ids \ {purge[p].id} : purges'[a] = purges[a]
  <2>1. purge[p].id \in Ids /\ purges[purge[p].id].status # "absent"
    BY <1>5 DEF CompletedBy, TypeInv, RequestsKnown, MediaInv, Detached
  <2> QED BY <1>1, <1>5, <2>1 DEF CompletedBy
<1> QED BY <1>1, <1>2, <1>3, <1>4, <1>5

LEMMA BlankStep == TypeInv /\ MediaInv /\ TableStep /\ BlankRows => BlankRows'
<1> SUFFICES ASSUME TypeInv, MediaInv, TableStep, BlankRows, NEW a \in Ids, assets'[a].status = "absent"
             PROVE  assets'[a] = NoRow
  BY DEF BlankRows, Retained
<1>0. assets[a] \in AssetRow
  BY RowChanges
<1>1. CASE assets'[a] = assets[a]
  BY <1>1 DEF BlankRows, Retained
<1>2. ASSUME NEW s \in Savers, Inserted(s) PROVE assets'[a] = NoRow
  <2>1. /\ assets'[save[s].id] = [status |-> "live", owner |-> save[s].owner,
                                 content |-> save[s].content]
        /\ \A b \in Ids \ {save[s].id} : assets'[b] = assets[b]
    BY <1>2, RowChanges
  <2>2. assets'[save[s].id].status = "live"
    BY <2>1
  <2>3. a # save[s].id
    BY <2>2
  <2> QED BY <1>1, <2>1, <2>3
<1>3. ASSUME NEW b \in Ids, NEW from \in {"live", "trashed"}, NEW to \in {"live", "trashed"},
             Moved(b, from, to)
      PROVE  assets'[a] = NoRow
  <2>1. a # b
    BY <1>0, <1>3, RowChanges DEF AssetRow
  <2> QED BY <1>1, <1>3, <2>1, RowChanges
<1>4. ASSUME NEW p \in Purging, DetachedBy(p) PROVE assets'[a] = NoRow
  BY <1>1, <1>4, RowChanges
<1>5. ASSUME NEW p \in Purging, CompletedBy(p) PROVE assets'[a] = NoRow
  BY <1>1, <1>5 DEF CompletedBy
<1> QED BY <1>1, <1>2, <1>3, <1>4, <1>5 DEF TableStep

-----------------------------------------------------------------------------
(* The refinement.  In a state that satisfies the invariants an asset is     *)
(* readable exactly if it is retained.                                       *)
LEMMA ReadableIsRetained ==
    MediaInv => LibraryReadable = {a \in Ids : Retained(a)}
<1> SUFFICES ASSUME MediaInv, NEW a \in Ids, Retained(a) PROVE Media(a) \subseteq files
  BY DEF LibraryReadable
<1> QED BY MediaFacts DEF MediaInv, Whole

LEMMA LibraryInitially == Init => Library!Init
<1> SUFFICES ASSUME Init PROVE Library!Init
  OBVIOUS
<1>1. \A a \in Ids : assets[a] = NoRow /\ purges[a].status = "absent" /\ ~Retained(a)
  BY DEF Init, NoRow, NoPurge, Retained
<1>2. LibraryState = [a \in Ids |-> "none"]
  BY <1>1 DEF LibraryState
<1>3. LibraryIdentity = [a \in Ids |-> <<None, None>>]
  BY <1>1 DEF LibraryIdentity, NoRow
<1>4. LibraryReadable = {}
  BY <1>1 DEF LibraryReadable
<1> QED BY <1>2, <1>3, <1>4 DEF Library!Init

LEMMA LibraryStep ==
    ASSUME TypeInv, TypeInv', MediaInv, MediaInv', BlankRows, BlankRows', TableStep
    PROVE  [Library!Next]_(Library!libraryVars)
<1>0. /\ assets \in [Ids -> AssetRow] /\ purges \in [Ids -> PurgeRow]
      /\ assets' \in [Ids -> AssetRow] /\ purges' \in [Ids -> PurgeRow]
  BY DEF TypeInv, TypeOK
<1>r. /\ LibraryReadable = {a \in Ids : Retained(a)}
      /\ LibraryReadable' = {a \in Ids : Retained(a)'}
  <2>1. (MediaInv => LibraryReadable = {a \in Ids : Retained(a)})'
    BY ReadableIsRetained, PTL
  <2> QED BY <2>1, ReadableIsRetained
<1>1. CASE UNCHANGED <<assets, purges>>
  <2>1. LibraryState' = LibraryState /\ LibraryIdentity' = LibraryIdentity
    BY <1>1 DEF LibraryState, LibraryIdentity, Retained
  <2>2. LibraryReadable' = LibraryReadable
    BY <1>1, <1>r DEF Retained
  <2> QED BY <2>1, <2>2 DEF Library!libraryVars
<1>2. ASSUME NEW s \in Savers, Inserted(s)
      PROVE  Library!Next
  <2> DEFINE a == save[s].id
             o == save[s].owner
             c == save[s].content
             row == [status |-> "live", owner |-> o, content |-> c]
  <2>1. /\ a \in Ids /\ o \in Owners /\ c \in Contents /\ ~IsDuplicate(s)
        /\ ~Retained(a) /\ purges[a].status = "absent" /\ purges' = purges
        /\ assets'[a] = row
        /\ \A b \in Ids \ {a} : assets'[b] = assets[b]
    BY <1>2, RowChanges DEF Inserted
  <2>2. row.status = "live" /\ row.owner = o /\ row.content = c
    OBVIOUS
  <2> HIDE DEF row
  <2>3. \A b \in Ids : Retained(b) => assets[b].owner # o \/ assets[b].content # c
    BY <2>1 DEF IsDuplicate, Duplicates
  <2>4. LibraryState[a] = "none"
    BY <2>1 DEF LibraryState, Retained
  <2>5. \A b \in Ids : Library!Kept(b) => LibraryIdentity[b] # <<o, c>>
    BY <2>3 DEF Library!Kept, LibraryState, LibraryIdentity, Retained
  <2>6. LibraryState' = [LibraryState EXCEPT ![a] = "live"]
    BY <2>1, <2>2 DEF LibraryState, Retained
  <2>7. LibraryIdentity' = [LibraryIdentity EXCEPT ![a] = <<o, c>>]
    BY <2>1, <2>2 DEF LibraryIdentity
  <2>8. LibraryReadable' = LibraryReadable \cup {a}
    BY <1>r, <2>1, <2>2 DEF Retained
  <2>9. Library!Save(a, o, c)
    BY <2>4, <2>5, <2>6, <2>7, <2>8 DEF Library!Save
  <2> QED BY <2>1, <2>9 DEF Library!Next
<1>3. ASSUME NEW a \in Ids, Moved(a, "live", "trashed") PROVE Library!Next
  <2>1. /\ purges' = purges /\ purges[a].status = "absent" /\ assets[a].status = "live"
        /\ assets'[a] = [assets[a] EXCEPT !.status = "trashed"]
        /\ \A b \in Ids \ {a} : assets'[b] = assets[b]
    BY <1>3, RowChanges DEF Moved
  <2>2. /\ assets'[a].status = "trashed"
        /\ assets'[a].owner = assets[a].owner /\ assets'[a].content = assets[a].content
    BY <1>0, <2>1 DEF AssetRow
  <2>3. LibraryState[a] = "live" /\ LibraryState' = [LibraryState EXCEPT ![a] = "trashed"]
    BY <2>1, <2>2 DEF LibraryState, Retained
  <2>4. LibraryIdentity' = LibraryIdentity
    BY <2>1, <2>2 DEF LibraryIdentity
  <2>5. \A b \in Ids : assets'[b].status # "absent" <=> assets[b].status # "absent"
    BY <2>1, <2>2
  <2>6. LibraryReadable' = LibraryReadable
    BY <1>r, <2>5 DEF Retained
  <2>7. Library!Trash(a)
    BY <2>3, <2>4, <2>6 DEF Library!Trash
  <2> QED BY <2>7 DEF Library!Next
<1>4. ASSUME NEW a \in Ids, Moved(a, "trashed", "live") PROVE Library!Next
  <2>1. /\ purges' = purges /\ purges[a].status = "absent" /\ assets[a].status = "trashed"
        /\ assets'[a] = [assets[a] EXCEPT !.status = "live"]
        /\ \A b \in Ids \ {a} : assets'[b] = assets[b]
    BY <1>4, RowChanges DEF Moved
  <2>2. /\ assets'[a].status = "live"
        /\ assets'[a].owner = assets[a].owner /\ assets'[a].content = assets[a].content
    BY <1>0, <2>1 DEF AssetRow
  <2>3. LibraryState[a] = "trashed" /\ LibraryState' = [LibraryState EXCEPT ![a] = "live"]
    BY <2>1, <2>2 DEF LibraryState, Retained
  <2>4. LibraryIdentity' = LibraryIdentity
    BY <2>1, <2>2 DEF LibraryIdentity
  <2>5. \A b \in Ids : assets'[b].status # "absent" <=> assets[b].status # "absent"
    BY <2>1, <2>2
  <2>6. LibraryReadable' = LibraryReadable
    BY <1>r, <2>5 DEF Retained
  <2>7. Library!Restore(a)
    BY <2>3, <2>4, <2>6 DEF Library!Restore
  <2> QED BY <2>7 DEF Library!Next
<1>5. ASSUME NEW p \in Purging, DetachedBy(p) PROVE Library!Next
  <2> DEFINE a == purge[p].id
  <2>1. /\ a \in Ids /\ assets[a].status = "trashed" /\ purges[a].status = "absent"
        /\ assets'[a] = NoRow /\ purges'[a] = [status |-> "pending", owner |-> purge[p].owner]
        /\ \A b \in Ids \ {a} : assets'[b] = assets[b] /\ purges'[b] = purges[b]
    BY <1>5, RowChanges DEF DetachedBy
  <2>2. /\ assets'[a].status = "absent" /\ assets'[a].owner = None /\ assets'[a].content = None
        /\ purges'[a].status = "pending"
    BY <2>1 DEF NoRow
  <2>3. LibraryState[a] = "trashed" /\ LibraryState' = [LibraryState EXCEPT ![a] = "purged"]
    BY <2>1, <2>2 DEF LibraryState, Retained
  <2>4. LibraryIdentity' = [LibraryIdentity EXCEPT ![a] = <<None, None>>]
    BY <2>1, <2>2 DEF LibraryIdentity
  <2>5. LibraryReadable' = LibraryReadable \ {a}
    BY <1>r, <2>1, <2>2 DEF Retained
  <2>6. Library!Purge(a)
    BY <2>3, <2>4, <2>5 DEF Library!Purge
  <2> QED BY <2>1, <2>6 DEF Library!Next
<1>6. ASSUME NEW p \in Purging, CompletedBy(p) PROVE UNCHANGED Library!libraryVars
  <2> DEFINE a == purge[p].id
  <2>1. /\ a \in Ids /\ assets' = assets /\ purges[a].status # "absent"
        /\ purges'[a] = [purges[a] EXCEPT !.status = "completed"]
        /\ \A b \in Ids \ {a} : purges'[b] = purges[b]
    BY <1>6, RowChanges DEF CompletedBy
  <2>2. purges'[a].status = "completed"
    BY <1>0, <2>1 DEF PurgeRow
  <2>3. LibraryState' = LibraryState
    BY <2>1, <2>2 DEF LibraryState, Retained
  <2>4. LibraryIdentity' = LibraryIdentity
    BY <2>1 DEF LibraryIdentity
  <2>5. LibraryReadable' = LibraryReadable
    BY <1>r, <2>1 DEF Retained
  <2> QED BY <2>3, <2>4, <2>5 DEF Library!libraryVars
<1> QED BY <1>1, <1>2, <1>3, <1>4, <1>5, <1>6 DEF TableStep

(* The save boundary implements the library it promises: saving, trashing,  *)
(* restoring and purging each happen at one moment (ingest.go, purge.go).   *)
THEOREM IngestImplementsLibrary == Spec => ImplementsLibrary
<1>1. TypeInv /\ MediaInv /\ BlankRows /\ [Next]_vars => BlankRows'
  BY TableSteps, BlankStep
<1>2. /\ TypeInv /\ TypeInv' /\ MediaInv /\ MediaInv' /\ BlankRows /\ BlankRows' /\ [Next]_vars
      => [Library!Next]_(Library!libraryVars)
  BY TableSteps, LibraryStep
<1> QED BY TypeInitially, TypeStep, MediaInitially, MediaStep, BlankInitially, <1>1, <1>2,
           LibraryInitially, PTL DEF Spec, ImplementsLibrary, Library!Spec
-----------------------------------------------------------------------------
(* Storage.  What is charged never exceeds the limit; what a completed      *)
(* deletion is no longer charged for has left the disk.                     *)
RetainedIds == {a \in Ids : Retained(a)}
PendingIds == {a \in Ids : Pending(a)}
ChargedWithinLimit == Limit # 0 => PhysicalUsage <= Limit

LEMMA IdsFinite ==
    ASSUME NEW S, S \subseteq Ids
    PROVE  IsFiniteSet(S) /\ Cardinality(S) \in Nat
<1>1. IsFiniteSet(Ids)
  BY IngestAssumption, FS_Interval DEF Ids
<1>2. IsFiniteSet(S)
  BY <1>1, FS_Subset
<1> QED BY <1>2, FS_CardinalityType

LEMMA Usage ==
    /\ PhysicalUsage = Cardinality(RetainedIds) + Cardinality(PendingIds)
    /\ RetainedIds \subseteq Ids /\ PendingIds \subseteq Ids
    /\ Cardinality(RetainedIds) \in Nat /\ Cardinality(PendingIds) \in Nat
  BY IdsFinite DEF PhysicalUsage, RetainedIds, PendingIds

LEMMA ChargedInitially == Init => ChargedWithinLimit
<1> SUFFICES ASSUME Init PROVE PhysicalUsage = 0
  BY IngestAssumption DEF ChargedWithinLimit
<1>1. RetainedIds = {} /\ PendingIds = {}
  BY DEF Init, RetainedIds, PendingIds, Retained, Pending, NoRow, NoPurge
<1> QED BY <1>1, Usage, FS_EmptySet

LEMMA ChargedStep ==
    ASSUME TypeInv, MediaInv, TableStep, ChargedWithinLimit
    PROVE  ChargedWithinLimit'
<1> DEFINE R == RetainedIds
           P == PendingIds
           Rp == RetainedIds'
           Pp == PendingIds'
<1>0. /\ PhysicalUsage = Cardinality(R) + Cardinality(P)
      /\ PhysicalUsage' = Cardinality(Rp) + Cardinality(Pp)
      /\ R \subseteq Ids /\ P \subseteq Ids /\ Rp \subseteq Ids /\ Pp \subseteq Ids
      /\ IsFiniteSet(R) /\ IsFiniteSet(P)
      /\ Cardinality(R) \in Nat /\ Cardinality(P) \in Nat
      /\ Cardinality(Rp) \in Nat /\ Cardinality(Pp) \in Nat
  <2>1. Rp \subseteq Ids /\ Pp \subseteq Ids /\ PhysicalUsage' = Cardinality(Rp) + Cardinality(Pp)
    BY DEF PhysicalUsage, RetainedIds, PendingIds
  <2> QED BY <2>1, Usage, IdsFinite
<1>n. Limit \in Nat
  BY IngestAssumption
<1>t. /\ \A a \in Ids : a \in R <=> assets[a].status # "absent"
      /\ \A a \in Ids : a \in Rp <=> assets'[a].status # "absent"
      /\ \A a \in Ids : a \in P <=> purges[a].status = "pending"
      /\ \A a \in Ids : a \in Pp <=> purges'[a].status = "pending"
  BY DEF RetainedIds, PendingIds, Retained, Pending
<1>1. CASE Rp = R /\ Pp = P
  BY <1>0, <1>1 DEF ChargedWithinLimit
<1>2. ASSUME NEW s \in Savers, Inserted(s) PROVE ChargedWithinLimit'
  <2>1. /\ save[s].id \in Ids /\ purges' = purges /\ AdmitStorage
        /\ \A a \in Ids \ {save[s].id} : assets'[a] = assets[a]
    BY <1>2, RowChanges DEF Inserted
  <2>2. Pp = P /\ Rp \subseteq R \cup {save[s].id}
    BY <1>0, <1>t, <2>1
  <2>3. /\ IsFiniteSet(R \cup {save[s].id})
        /\ Cardinality(R \cup {save[s].id}) \in {Cardinality(R), Cardinality(R) + 1}
    BY <1>0, FS_AddElement
  <2>4. Cardinality(Rp) <= Cardinality(R) + 1
    <3>1. Cardinality(Rp) <= Cardinality(R \cup {save[s].id})
      BY <2>2, <2>3, FS_Subset
    <3> QED BY <1>0, <2>3, <3>1
  <2>5. Limit # 0 => PhysicalUsage + 1 <= Limit
    BY <2>1 DEF AdmitStorage
  <2> QED BY <1>0, <1>n, <2>2, <2>4, <2>5 DEF ChargedWithinLimit
<1>3. ASSUME NEW a \in Ids, NEW from \in {"live", "trashed"}, NEW to \in {"live", "trashed"},
             Moved(a, from, to)
      PROVE  Rp = R /\ Pp = P
  <2>1. /\ purges' = purges /\ assets[a].status = from
        /\ assets'[a] = [assets[a] EXCEPT !.status = to]
        /\ \A b \in Ids \ {a} : assets'[b] = assets[b]
    BY <1>3, RowChanges DEF Moved
  <2>2. assets'[a].status = to
    BY <2>1, RowChanges DEF AssetRow
  <2>3. \A b \in Ids : assets'[b].status # "absent" <=> assets[b].status # "absent"
    BY <2>1, <2>2
  <2> QED BY <1>0, <1>t, <2>1, <2>3
<1>4. ASSUME NEW p \in Purging, DetachedBy(p) PROVE ChargedWithinLimit'
  <2> DEFINE a == purge[p].id
  <2>1. /\ a \in Ids /\ assets[a].status = "trashed" /\ purges[a].status = "absent"
        /\ assets'[a] = NoRow /\ purges'[a] = [status |-> "pending", owner |-> purge[p].owner]
        /\ \A b \in Ids \ {a} : assets'[b] = assets[b] /\ purges'[b] = purges[b]
    BY <1>4, RowChanges DEF DetachedBy
  <2>2. assets'[a].status = "absent" /\ purges'[a].status = "pending"
    BY <2>1 DEF NoRow
  <2>3. Rp = R \ {a} /\ a \in R /\ Pp = P \cup {a} /\ a \notin P
    BY <1>0, <1>t, <2>1, <2>2
  <2>4. Cardinality(Rp) = Cardinality(R) - 1 /\ Cardinality(Pp) = Cardinality(P) + 1
    BY <1>0, <2>3, FS_AddElement, FS_RemoveElement
  <2> QED BY <1>0, <2>4 DEF ChargedWithinLimit
<1>5. ASSUME NEW p \in Purging, CompletedBy(p) PROVE ChargedWithinLimit'
  <2>1. /\ purge[p].id \in Ids /\ assets' = assets
        /\ purges'[purge[p].id] = [purges[purge[p].id] EXCEPT !.status = "completed"]
        /\ \A a \in Ids \ {purge[p].id} : purges'[a] = purges[a]
    BY <1>5, RowChanges DEF CompletedBy
  <2>2. purges'[purge[p].id].status = "completed"
    BY <2>1, RowChanges DEF PurgeRow
  <2>3. Rp = R
    BY <2>1 DEF RetainedIds, Retained
  <2>5. Pp \subseteq P
    <3> SUFFICES ASSUME NEW a \in Pp PROVE a \in P
      OBVIOUS
    <3>1. a \in Ids /\ purges'[a].status = "pending"
      BY DEF PendingIds, Pending
    <3>2. a # purge[p].id
      BY <2>2, <3>1
    <3> QED BY <2>1, <3>1, <3>2 DEF PendingIds, Pending
  <2>4. Cardinality(Pp) <= Cardinality(P)
    BY <1>0, <2>5, FS_Subset
  <2> QED BY <1>0, <1>n, <2>3, <2>4 DEF ChargedWithinLimit
<1>6. CASE UNCHANGED <<assets, purges>>
  <2>1. Rp = R /\ Pp = P
    BY <1>6 DEF RetainedIds, PendingIds, Retained, Pending
  <2> QED BY <1>1, <2>1
<1> QED BY <1>1, <1>2, <1>3, <1>4, <1>5, <1>6 DEF TableStep

(* No order of saves, trashing, deletions and crashes retains more than the *)
(* operator allows, on disk or in the library (capacity.go, purge.go).      *)
THEOREM StorageIsLimited == Spec => []RetainedWithinLimit
<1>1. ASSUME TypeInv, MediaInv, ChargedWithinLimit, Limit # 0
      PROVE  Cardinality({a \in Ids : \/ Retained(a)
                                      \/ /\ purges[a].status # "absent"
                                         /\ Media(a) \cap files # {}}) <= Limit
  <2> DEFINE onDisk == {a \in Ids : \/ Retained(a)
                                    \/ /\ purges[a].status # "absent"
                                       /\ Media(a) \cap files # {}}
             charged == RetainedIds \cup PendingIds
  <2>1. ASSUME NEW a \in onDisk PROVE a \in charged
    <3>1. a \in Ids /\ (Retained(a) \/ (purges[a].status # "absent" /\ Media(a) \cap files # {}))
      OBVIOUS
    <3>2. purges[a].status \in {"absent", "pending", "completed"}
      BY <1>1, <3>1 DEF TypeInv, TypeOK, PurgeRow
    <3>3. purges[a].status = "completed" => Media(a) \cap files = {}
      BY <1>1, <3>1, MediaFacts DEF MediaInv, Reclaimed
    <3> QED BY <3>1, <3>2, <3>3 DEF RetainedIds, PendingIds, Pending
  <2>2. RetainedIds \cap PendingIds = {}
    BY <1>1 DEF RetainedIds, PendingIds, Pending, MediaInv, PurgedGone, Retained
  <2>3. /\ IsFiniteSet(RetainedIds) /\ IsFiniteSet(PendingIds) /\ IsFiniteSet(charged)
        /\ Cardinality(charged) \in Nat /\ Cardinality(onDisk) \in Nat
    BY Usage, IdsFinite
  <2>4. Cardinality(charged) = Cardinality(RetainedIds) + Cardinality(PendingIds)
    <3>1. Cardinality(RetainedIds \cap PendingIds) = 0
      BY <2>2, FS_EmptySet
    <3>2. Cardinality(charged) = Cardinality(RetainedIds) + Cardinality(PendingIds)
                                 - Cardinality(RetainedIds \cap PendingIds)
      BY <2>3, FS_Union
    <3> QED BY <3>1, <3>2, Usage
  <2>5. Cardinality(onDisk) <= Cardinality(charged)
    <3>1. onDisk \subseteq charged
      BY <2>1
    <3> QED BY <2>3, <3>1, FS_Subset
  <2> HIDE DEF onDisk, charged
  <2>6. Cardinality(onDisk) <= Limit
    BY <1>1, <2>3, <2>4, <2>5, Usage, IngestAssumption DEF ChargedWithinLimit
  <2> QED BY <2>6 DEF onDisk
<1>2. TypeInv /\ MediaInv /\ ChargedWithinLimit => RetainedWithinLimit
  BY <1>1 DEF RetainedWithinLimit
<1>3. TypeInv /\ MediaInv /\ ChargedWithinLimit /\ [Next]_vars => ChargedWithinLimit'
  BY TableSteps, ChargedStep
<1> QED BY TypeInitially, TypeStep, MediaInitially, MediaStep, ChargedInitially, <1>2, <1>3,
           PTL DEF Spec

-----------------------------------------------------------------------------
(* The media lock where the file system enforces it.  A reader holds the    *)
(* shared lock from before its rows are read, a deletion the exclusive lock *)
(* while it detaches and unlinks, and the two are never held together.      *)
Reading == {"locked", "copying"}
Deleting == {"detach", "check", "original", "poster", "complete"}

ReadersHold ==
    \A r \in Readers : read[r].pc \in Reading => r \in shared /\ read[r].kind \in {"open", "backup"}

DeletersHold ==
    /\ \A p \in Purgers : purge[p].pc \in Deleting => p \in exclusive
    /\ purge[Boot].pc # "idle" => server = "booting"
    /\ server = "booting" => Boot \in exclusive

LocksApart == shared # {} => exclusive = {}

(* The rows a reader has read stay where they are. *)
RowsHeld ==
    \A r \in Readers : read[r].pc = "copying" => \A a \in read[r].wanted : Retained(a)

LockInv == ReadersHold /\ DeletersHold /\ LocksApart

LEMMA LocksInitially == Init => LockInv /\ RowsHeld
  BY DEF Init, LockInv, ReadersHold, DeletersHold, LocksApart, RowsHeld, IdleRead, IdlePurge,
     Reading, Deleting, Purging

(* Most steps of a deletion begin nothing that needs the lock. *)
DeletionsKept ==
    /\ \A p \in Purging : purge'[p].pc \in Deleting => purge[p].pc \in Deleting
    /\ purge'[Boot].pc # "idle" => purge[Boot].pc # "idle"

LEMMA DeletionGoes ==
    ASSUME TypeInv, NEW p \in Purging, purge[p].pc # "idle",
           \/ \E pc \in PurgePc : GoPurge(p, pc) /\ (pc \in Deleting => purge[p].pc \in Deleting)
           \/ \E answer \in {"none", "ok", "incomplete", "refused"} : LeavePurge(p, answer)
    PROVE  DeletionsKept
<1>1. purge \in [Purging -> PurgeState] /\ "unlock" \notin Deleting
  BY DEF TypeInv, TypeOK, Deleting
<1>2. /\ purge'[p].pc \in Deleting => purge[p].pc \in Deleting
      /\ \A q \in Purging : q # p => purge'[q] = purge[q]
  BY <1>1, GoPurgeFacts, LeavePurgeFacts
<1> QED BY <1>2 DEF DeletionsKept, Purging

LEMMA LockStep ==
    FlockExcludes /\ TypeInv /\ [Next]_vars /\ LockInv => LockInv'
<1> SUFFICES ASSUME FlockExcludes, TypeInv, [Next]_vars, LockInv PROVE LockInv'
  OBVIOUS
<1> USE DEF process, locks, tables, disk, requests
<1>0. /\ purge \in [Purging -> PurgeState] /\ read \in [Readers -> ReadState]
      /\ Boot \in Purging /\ Purgers \subseteq Purging /\ Boot \notin Purgers
      /\ Savers \cap Readers = {} /\ exclusive \subseteq Purging
  BY IngestAssumption DEF TypeInv, TypeOK, Purging
<1>1. ASSUME UNCHANGED <<server, exclusive, purge, read>>,
             \/ shared' = shared
             \/ \E s \in Savers : shared' = shared \ {s}
             \/ exclusive = {} /\ \E s \in Savers : shared' = shared \cup {s}
      PROVE  LockInv'
  BY <1>0, <1>1 DEF LockInv, ReadersHold, DeletersHold, LocksApart
<1>2. ASSUME NEW s \in Savers,
             AcceptUnkeyed(s) \/ Claim(s) \/ SaveStep(s) \/ Refuse(s)
      PROVE  LockInv'
  <2>1. CASE SaveLibrary(s)
    <3>1. exclusive = {} /\ shared' = shared \cup {s} /\ UNCHANGED <<server, exclusive, purge, read>>
      BY <2>1 DEF SaveLibrary, SharedFree
    <3> QED BY <1>1, <3>1
  <2>2. CASE SaveUnlock(s)
    <3>1. shared' = shared \ {s} /\ UNCHANGED <<server, exclusive, purge, read>>
      BY <2>2 DEF SaveUnlock
    <3> QED BY <1>1, <3>1
  <2>3. CASE ~SaveLibrary(s) /\ ~SaveUnlock(s)
    <3>1. UNCHANGED <<server, shared, exclusive, purge, read>>
      BY <1>2, <2>3 DEF AcceptUnkeyed, Claim, SaveStep, Refuse, ReadReceipt, Replay, SaveAdmission,
         Spool, EarlyTransaction, Prepare, PutOriginal, PutPoster, Put, FinalTransaction, Cleanup,
         ReleaseClaim
    <3> QED BY <1>1, <3>1
  <2> QED BY <2>1, <2>2, <2>3
<1>3. ASSUME \/ \E slot \in Owners \X Keys : LeaseOrReceiptExpires(slot)
             \/ \E a \in Ids : Trash(a) \/ Restore(a)
             \/ Quiescent \/ UNCHANGED vars
      PROVE  LockInv'
  <2>1. UNCHANGED <<server, shared, exclusive, purge, read>>
    BY <1>3 DEF LeaseOrReceiptExpires, Trash, Restore, Quiescent, vars
  <2> QED BY <1>1, <2>1
<1>4. ASSUME UNCHANGED <<server, shared, exclusive, read>>, DeletionsKept PROVE LockInv'
  BY <1>0, <1>4 DEF LockInv, ReadersHold, DeletersHold, LocksApart, DeletionsKept
<1>5. ASSUME NEW p \in Purgers, BeginPurge(p) PROVE LockInv'
  <2>1. UNCHANGED <<server, shared, exclusive, read>>
    BY <1>5 DEF BeginPurge
  <2>2. PICK row : purge' = [purge EXCEPT ![p] = row] /\ row.pc = "admission"
    <3>1. PICK o \in Owners, a \in 1 .. nextId - 1 :
            purge' = [purge EXCEPT ![p] = [IdlePurge EXCEPT
                        !.pc = "admission", !.owner = o, !.id = a]]
      BY <1>5 DEF BeginPurge
    <3>2. [IdlePurge EXCEPT !.pc = "admission", !.owner = o, !.id = a].pc = "admission"
      BY DEF IdlePurge
    <3> QED BY <3>1, <3>2
  <2>3. "admission" \notin Deleting
    BY DEF Deleting
  <2> QED BY <1>0, <1>4, <2>1, <2>2, <2>3 DEF DeletionsKept
<1>6. ASSUME NEW p \in Purging, \/ PurgeAdmission(p) \/ Detach(p) \/ AbandonPurge(p) \/ FinishStep(p)
      PROVE  LockInv'
  <2>1. UNCHANGED <<server, shared, exclusive, read>> /\ purge[p].pc # "idle"
    BY <1>6 DEF PurgeAdmission, Detach, AbandonPurge, FinishStep, CheckReferenced,
       UnlinkOriginal, UnlinkPoster, Unlink, CompletePurge
  <2>2. {"library", "check", "original", "poster", "complete"} \subseteq PurgePc
    BY DEF PurgePc
  <2>3. CASE PurgeAdmission(p)
    <3>1. GoPurge(p, "library") /\ "library" \notin Deleting
      BY <2>3 DEF PurgeAdmission, Deleting
    <3> QED BY <1>4, <2>1, <2>2, <3>1, DeletionGoes
  <2>4. CASE Detach(p)
    <3>1. purge[p].pc \in Deleting
      BY <2>4 DEF Detach, Deleting
    <3>2. GoPurge(p, "check") \/ \E answer \in {"ok", "incomplete", "refused"} : LeavePurge(p, answer)
      BY <2>4 DEF Detach
    <3> QED BY <1>4, <2>1, <2>2, <3>1, <3>2, DeletionGoes
  <2>5. CASE AbandonPurge(p)
    <3>1. LeavePurge(p, "incomplete")
      BY <2>5 DEF AbandonPurge
    <3> QED BY <1>4, <2>1, <3>1, DeletionGoes
  <2>6. CASE FinishStep(p)
    <3>1. purge[p].pc \in Deleting
      BY <2>6 DEF FinishStep, CheckReferenced, UnlinkOriginal, UnlinkPoster, Unlink, CompletePurge,
         Deleting
    <3>2. \/ \E pc \in {"original", "poster", "complete"} : GoPurge(p, pc)
          \/ \E answer \in {"ok", "incomplete"} : LeavePurge(p, answer)
      BY <2>6 DEF FinishStep, CheckReferenced, UnlinkOriginal, UnlinkPoster, Unlink, CompletePurge,
         Interrupted
    <3> QED BY <1>4, <2>1, <2>2, <3>1, <3>2, DeletionGoes
  <2> QED BY <1>6, <2>3, <2>4, <2>5, <2>6
<1>7. ASSUME NEW p \in Purgers, PurgeLibrary(p) PROVE LockInv'
  <2>1. /\ UNCHANGED <<server, shared, read>> /\ shared = {} /\ exclusive' = exclusive \cup {p}
        /\ GoPurge(p, "detach") /\ "detach" \in PurgePc
    BY <1>7 DEF PurgeLibrary, ExclusiveFree, PurgePc
  <2>2. \A q \in Purging : q # p => purge'[q] = purge[q]
    BY <1>0, <2>1, GoPurgeFacts
  <2> QED BY <1>0, <2>1, <2>2 DEF LockInv, ReadersHold, DeletersHold, LocksApart
<1>8. ASSUME NEW p \in Purgers, PurgeUnlock(p) PROVE LockInv'
  <2>1. /\ UNCHANGED <<server, shared, read>> /\ exclusive' = exclusive \ {p}
        /\ GoPurge(p, "done") /\ "done" \in PurgePc /\ "done" \notin Deleting
    BY <1>8 DEF PurgeUnlock, PurgePc, Deleting
  <2>2. purge'[p].pc = "done" /\ \A q \in Purging : q # p => purge'[q] = purge[q]
    BY <1>0, <2>1, GoPurgeFacts
  <2> QED BY <1>0, <2>1, <2>2 DEF LockInv, ReadersHold, DeletersHold, LocksApart
<1>9. CASE StartServer
  <2>1. /\ UNCHANGED <<shared, purge, read>> /\ shared = {} /\ exclusive' = exclusive \cup {Boot}
        /\ server' = "booting"
    BY <1>9 DEF StartServer, ExclusiveFree
  <2> QED BY <1>0, <2>1 DEF LockInv, ReadersHold, DeletersHold, LocksApart
<1>10. CASE ResumePurge
  <2>1. UNCHANGED <<server, shared, exclusive, read>> /\ server = "booting"
    BY <1>10 DEF ResumePurge
  <2>2. \A q \in Purging : q # Boot => purge'[q] = purge[q]
    BY <1>0, <1>10 DEF ResumePurge
  <2> QED BY <1>0, <2>1, <2>2 DEF LockInv, ReadersHold, DeletersHold, LocksApart
<1>11. CASE Resumed
  <2>1. /\ UNCHANGED <<shared, read>>
        /\ UNCHANGED <<server, exclusive>> \/ (server' = "down" /\ exclusive' = exclusive \ {Boot})
        /\ purge' = [purge EXCEPT ![Boot] = IdlePurge] /\ IdlePurge.pc = "idle"
    BY <1>11 DEF Resumed, IdlePurge
  <2>2. purge'[Boot].pc = "idle" /\ \A q \in Purging : q # Boot => purge'[q] = purge[q]
    BY <1>0, <2>1
  <2> QED BY <1>0, <2>1, <2>2 DEF LockInv, ReadersHold, DeletersHold, LocksApart
<1>12. CASE Serve
  <2>1. /\ UNCHANGED <<shared, purge, read>> /\ exclusive' = exclusive \ {Boot}
        /\ server' = "serving" /\ purge[Boot].pc = "idle"
    BY <1>12 DEF Serve
  <2> QED BY <1>0, <2>1 DEF LockInv, ReadersHold, DeletersHold, LocksApart
<1>13. CASE Crash
  <2>1. /\ server' = "down" /\ exclusive' = {}
        /\ shared' = {r \in shared \cap Readers : read[r].kind = "backup"}
    BY <1>13 DEF Crash
  <2>2. purge'[Boot].pc = "idle" /\ \A p \in Purgers : purge'[p].pc \notin Deleting
    <3>1. purge' = [p \in Purging |-> IF p = Boot THEN IdlePurge
                                     ELSE IF purge[p].pc \in Ended THEN purge[p]
                                     ELSE [purge[p] EXCEPT !.pc = "lost"]]
      BY <1>13 DEF Crash
    <3>2. purge'[Boot].pc = "idle"
      BY <1>0, <3>1 DEF IdlePurge
    <3>3. ASSUME NEW p \in Purgers PROVE purge'[p].pc \notin Deleting
      <4>1. purge'[p] = IF purge[p].pc \in Ended THEN purge[p] ELSE [purge[p] EXCEPT !.pc = "lost"]
        BY <1>0, <3>1
      <4>2. purge[p] \in PurgeState
        BY <1>0
      <4>3. [purge[p] EXCEPT !.pc = "lost"].pc = "lost"
        BY <4>2 DEF PurgeState
      <4> QED BY <4>1, <4>3 DEF Ended, Deleting
    <3> QED BY <3>2, <3>3
  <2>3. ASSUME NEW r \in Readers, read'[r].pc \in Reading
        PROVE  r \in shared' /\ read'[r].kind \in {"open", "backup"}
    <3>1. read' = [q \in Readers |-> IF read[q].kind = "open"
                                    THEN [read[q] EXCEPT !.pc = "done"] ELSE read[q]]
      BY <1>13 DEF Crash
    <3>2. [read[r] EXCEPT !.pc = "done"].pc = "done" /\ "done" \notin Reading
      BY <1>0 DEF ReadState, Reading
    <3>3. read[r].kind # "open" /\ read'[r] = read[r]
      BY <2>3, <3>1, <3>2
    <3> QED BY <2>1, <2>3, <3>3 DEF LockInv, ReadersHold
  <2> QED BY <2>1, <2>2, <2>3 DEF LockInv, ReadersHold, DeletersHold, LocksApart
<1>14. ASSUME NEW r \in Readers, LockOpen(r) \/ LockBackup(r) PROVE LockInv'
  <2>1. PICK kind \in {"open", "backup"} : LockRead(r, kind)
    BY <1>14 DEF LockOpen, LockBackup
  <2>2. /\ UNCHANGED <<server, exclusive, purge>> /\ exclusive = {} /\ shared' = shared \cup {r}
        /\ read' = [read EXCEPT ![r].pc = "locked", ![r].kind = kind]
    BY <2>1 DEF LockRead, SharedFree
  <2>3. read'[r].kind = kind /\ \A q \in Readers : q # r => read'[q] = read[q]
    BY <1>0, <2>2 DEF ReadState
  <2> QED BY <1>0, <2>2, <2>3 DEF LockInv, ReadersHold, DeletersHold, LocksApart
<1>15. ASSUME NEW r \in Readers, ReadStep(r) PROVE LockInv'
  <2>1. PICK wanted : Reads(r, wanted) /\ read[r].pc = "locked"
    BY <1>15 DEF ReadStep, ReadRow, SnapshotRows
  <2>2. /\ UNCHANGED <<server, shared, exclusive, purge>>
        /\ read' = [read EXCEPT ![r].pc = "copying", ![r].wanted = wanted]
    BY <2>1 DEF Reads
  <2>3. read'[r].kind = read[r].kind /\ \A q \in Readers : q # r => read'[q] = read[q]
    BY <1>0, <2>2 DEF ReadState
  <2> QED BY <2>1, <2>2, <2>3 DEF LockInv, ReadersHold, DeletersHold, LocksApart, Reading
<1>16. ASSUME NEW r \in Readers, EndRead(r) PROVE LockInv'
  <2>1. /\ UNCHANGED <<server, exclusive, purge>> /\ shared' = shared \ {r}
        /\ read' = [read EXCEPT ![r].pc = "done"]
    BY <1>16 DEF EndRead
  <2>2. read'[r].pc = "done" /\ \A q \in Readers : q # r => read'[q] = read[q]
    BY <1>0, <2>1 DEF ReadState
  <2> QED BY <2>1, <2>2 DEF LockInv, ReadersHold, DeletersHold, LocksApart, Reading
<1> QED BY <1>0, <1>2, <1>3, <1>5, <1>6, <1>7, <1>8, <1>9, <1>10, <1>11, <1>12, <1>13, <1>14,
           <1>15, <1>16 DEF Next, PurgeStep, BootStep

(* A step that detaches a row is one of a deletion holding the lock. *)
LEMMA RetainedStays ==
    ASSUME TypeInv, MediaInv, TableStep, LockInv,
           NEW r \in Readers, read[r].pc \in Reading, NEW a \in Ids, Retained(a)
    PROVE  assets'[a].status # "absent"
<1>1. exclusive = {} /\ assets[a] \in AssetRow
  BY RowChanges DEF LockInv, ReadersHold, LocksApart
<1>2. ASSUME NEW p \in Purging, DetachedBy(p) PROVE FALSE
  <2>1. purge[p].pc \in Deleting /\ purge[p].pc # "idle"
    BY <1>2 DEF DetachedBy, Deleting
  <2> QED BY <1>1, <2>1 DEF LockInv, DeletersHold, Purging
<1>3. ASSUME NEW s \in Savers, Inserted(s) PROVE assets'[a].status # "absent"
  <2>1. /\ assets'[save[s].id] = [status |-> "live", owner |-> save[s].owner,
                                  content |-> save[s].content]
        /\ \A b \in Ids \ {save[s].id} : assets'[b] = assets[b]
    BY <1>3, RowChanges
  <2>2. assets'[save[s].id].status = "live"
    BY <2>1
  <2> QED BY <2>1, <2>2 DEF Retained
<1>4. ASSUME NEW b \in Ids, NEW from \in {"live", "trashed"}, NEW to \in {"live", "trashed"},
             Moved(b, from, to)
      PROVE  assets'[a].status # "absent"
  <2>0. assets \in [Ids -> AssetRow]
    BY RowChanges
  <2>1. /\ assets'[b] = [assets[b] EXCEPT !.status = to]
        /\ \A c \in Ids \ {b} : assets'[c] = assets[c]
    BY <1>4, <2>0 DEF Moved
  <2>2. assets'[b].status = to
    BY <2>0, <2>1 DEF AssetRow
  <2> QED BY <2>1, <2>2 DEF Retained
<1>5. ASSUME NEW p \in Purging, CompletedBy(p) PROVE assets'[a].status # "absent"
  BY <1>5 DEF CompletedBy, Retained
<1> QED BY <1>2, <1>3, <1>4, <1>5 DEF TableStep, Retained

LEMMA ReadingStep ==
    ASSUME TypeInv, [Next]_vars, NEW r \in Readers, read'[r].pc = "copying"
    PROVE  \/ read'[r] = read[r]
           \/ read'[r].wanted \subseteq {a \in Ids : Retained(a)} /\ UNCHANGED assets
<1> USE DEF process, locks, tables, disk, requests
<1>0. read \in [Readers -> ReadState]
  BY DEF TypeInv, TypeOK
<1>1. CASE UNCHANGED read
  BY <1>1
<1>2. ASSUME NEW q \in Readers, LockOpen(q) \/ LockBackup(q) \/ EndRead(q) PROVE read'[r] = read[r]
  <2>1. \A t \in Readers : t # q => read'[t] = read[t]
    BY <1>0, <1>2 DEF LockOpen, LockBackup, LockRead, EndRead
  <2>2. read'[q].pc \in {"locked", "done"}
    BY <1>0, <1>2 DEF LockOpen, LockBackup, LockRead, EndRead, ReadState
  <2> QED BY <2>1, <2>2
<1>3. ASSUME NEW q \in Readers, ReadStep(q)
      PROVE  \/ read'[r] = read[r]
             \/ read'[r].wanted \subseteq {a \in Ids : Retained(a)} /\ UNCHANGED assets
  <2>1. PICK wanted : Reads(q, wanted) /\ wanted \subseteq {a \in Ids : Retained(a)}
    BY <1>3 DEF ReadStep, ReadRow, SnapshotRows
  <2>2. read' = [read EXCEPT ![q].pc = "copying", ![q].wanted = wanted] /\ UNCHANGED assets
    BY <2>1 DEF Reads
  <2>3. read'[q].wanted = wanted /\ \A t \in Readers : t # q => read'[t] = read[t]
    BY <1>0, <2>2 DEF ReadState
  <2> QED BY <2>1, <2>2, <2>3
<1>4. CASE Crash
  <2>1. read' = [q \in Readers |-> IF read[q].kind = "open"
                                  THEN [read[q] EXCEPT !.pc = "done"] ELSE read[q]]
    BY <1>4 DEF Crash
  <2>2. [read[r] EXCEPT !.pc = "done"].pc = "done"
    BY <1>0 DEF ReadState
  <2> QED BY <2>1, <2>2
<1>5. \/ UNCHANGED read
      \/ \E q \in Readers : LockOpen(q) \/ LockBackup(q) \/ EndRead(q) \/ ReadStep(q)
      \/ Crash
  BY DEF Next, AcceptUnkeyed, Claim, SaveStep, Refuse, ReadReceipt, Replay, SaveAdmission,
     SaveLibrary, Spool, EarlyTransaction, Prepare, PutOriginal, PutPoster, Put, FinalTransaction,
     Cleanup, SaveUnlock, ReleaseClaim, LeaseOrReceiptExpires, Trash, Restore, BeginPurge, PurgeStep,
     PurgeAdmission, PurgeLibrary, Detach, FinishStep, CheckReferenced, UnlinkOriginal, UnlinkPoster,
     Unlink, CompletePurge, PurgeUnlock, AbandonPurge, BootStep, StartServer, ResumePurge, Resumed,
     Serve, Quiescent, vars
<1> QED BY <1>1, <1>2, <1>3, <1>4, <1>5

LEMMA RowsHeldStep ==
    TypeInv /\ MediaInv /\ TableStep /\ LockInv /\ [Next]_vars /\ RowsHeld => RowsHeld'
<1> SUFFICES ASSUME TypeInv, MediaInv, TableStep, LockInv, [Next]_vars, RowsHeld,
                    NEW r \in Readers, read'[r].pc = "copying", NEW a \in read'[r].wanted
             PROVE  assets'[a].status # "absent"
  BY DEF RowsHeld, Retained
<1>1. CASE read'[r].wanted \subseteq {b \in Ids : Retained(b)} /\ UNCHANGED assets
  BY <1>1 DEF Retained
<1>2. CASE read'[r] = read[r]
  <2>1. a \in Ids /\ Retained(a) /\ read[r].pc \in Reading
    BY <1>2 DEF RowsHeld, Reading, TypeInv, TypeOK, ReadState
  <2> QED BY <2>1, RetainedStays
<1> QED BY <1>1, <1>2, ReadingStep

(* Where the file system enforces the lock, no deletion, crash or cleanup    *)
(* takes a file of the rows a reader or a backup has read (medialock, library *)
(* OpenMedia, portable backup).                                              *)
THEOREM ReadersAreSafe == FlockExcludes => (Spec => []ReadersKeepTheirMedia)
<1> SUFFICES ASSUME FlockExcludes PROVE Spec => []ReadersKeepTheirMedia
  OBVIOUS
<1>1. TypeInv /\ MediaInv /\ RowsHeld => ReadersKeepTheirMedia
  <2> SUFFICES ASSUME TypeInv, MediaInv, RowsHeld, NEW r \in Readers, read[r].pc = "copying",
                      NEW a \in read[r].wanted
               PROVE  Media(a) \subseteq files
    BY DEF ReadersKeepTheirMedia
  <2>1. a \in Ids /\ Retained(a)
    BY DEF RowsHeld, TypeInv, TypeOK, ReadState
  <2> QED BY <2>1, MediaFacts DEF MediaInv, Whole
<1>2. TypeInv /\ [Next]_vars /\ LockInv => LockInv'
  BY LockStep
<1>3. TypeInv /\ MediaInv /\ LockInv /\ RowsHeld /\ [Next]_vars => RowsHeld'
  BY TableSteps, RowsHeldStep
<1> QED BY TypeInitially, TypeStep, MediaInitially, MediaStep, LocksInitially, <1>1, <1>2, <1>3,
           PTL DEF Spec

-----------------------------------------------------------------------------
(* Leftovers, where unlinks succeed.  A save has no identifier before it is  *)
(* prepared, and a commit it knows of is in the library or was purged since. *)
Early == {"idle", "receipt", "replay", "admission", "library", "spool", "early", "prepare"}
Left == {"unlock", "release", "done"}

EarlyUnnamed == \A s \in Savers : save[s].pc \in Early => save[s].id = NoAsset

CommittedKnown ==
    \A s \in Savers : save[s].outcome = "committed" /\ save[s].id # NoAsset =>
        Retained(save[s].id) \/ purges[save[s].id].status # "absent"

LeftoverInv == EarlyUnnamed /\ CommittedKnown /\ LeftoversExplained

LEMMA LeftoversInitially == Init => LeftoverInv
  BY DEF Init, LeftoverInv, EarlyUnnamed, CommittedKnown, LeftoversExplained, IdleSave

(* The ways a save goes: it may be on its way to a commit, publishing or     *)
(* through, refused before it had an identifier, or leaving.                 *)
Approaches(s) ==
    /\ save[s].pc \in Early /\ save'[s].pc \in Early
    /\ save'[s].id = NoAsset /\ save'[s].outcome # "committed"
Publishes(s) ==
    /\ save'[s].pc \in {"original", "poster", "final", "exit"}
    /\ save[s].pc = "prepare" \/ save'[s].id = save[s].id
    /\ save'[s].outcome = "committed" =>
         \/ save[s].outcome = "committed" /\ save'[s].id = save[s].id
         \/ save'[s].id = NoAsset
         \/ assets'[save'[s].id].status # "absent"
Declined(s) == save[s].pc \in Early /\ save'[s].id = save[s].id /\ save'[s].outcome = save[s].outcome
               /\ save'[s].pc = "done"
Leaves(s) ==
    /\ save'[s].id = save[s].id /\ save'[s].outcome = save[s].outcome
    /\ \/ save[s].pc = "exit" /\ Cleanup(s) /\ save'[s].pc = "unlock"
       \/ save[s].pc \in Left /\ save'[s].pc \in Left
SaveMove(s) ==
    /\ \A t \in Savers : t # s => save'[t] = save[t]
    /\ Approaches(s) \/ Publishes(s) \/ Declined(s) \/ Leaves(s)

LEMMA CommitIsKnown ==
    ASSUME TypeInv, NEW s \in Savers, save[s].pc = "final", InsertAsset(s)
    PROVE  save'[s].outcome = "committed" => assets'[save[s].id].status = "live"
<1>1. PICK commit \in Commits :
        /\ commit.applied =>
              assets' = [assets EXCEPT ![save[s].id] =
                [status |-> "live", owner |-> save[s].owner, content |-> save[s].content]]
        /\ LeaveSave(s, CommitOutcome[commit.acked],
                     IF commit.acked THEN save[s].id ELSE NoAsset)
  BY DEF InsertAsset
<1>2. /\ commit.acked \in BOOLEAN
      /\ commit.acked => commit.applied
      /\ save[s].id \in Ids /\ save \in [Savers -> SaveState] /\ assets \in [Ids -> AssetRow]
  BY CommitFacts DEF TypeInv, TypeOK, RequestsKnown
<1>3. CASE commit.acked
  BY <1>1, <1>2, <1>3
<1>4. CASE ~commit.acked
  <2>0. CommitOutcome[commit.acked] = "uncertain"
    BY <1>2, <1>4 DEF CommitOutcome
  <2>1. LeaveSave(s, "uncertain", NoAsset)
    BY <1>1, <1>4, <2>0
  <2>2. save'[s].outcome = "uncertain"
    BY <1>2, <2>1, LeaveSaveFacts
  <2> QED BY <2>2
<1> QED BY <1>2, <1>3, <1>4

LEMMA SaveMoves ==
    ASSUME TypeInv, MediaInv, EarlyUnnamed, NEW s \in Savers,
           AcceptUnkeyed(s) \/ Claim(s) \/ SaveStep(s) \/ Refuse(s)
    PROVE  SaveMove(s)
<1> USE DEF process, locks, tables, disk, requests
<1>0. save \in [Savers -> SaveState]
  BY DEF TypeInv, TypeOK
<1>u. save[s].pc \in Early \cup {"original", "poster", "final"} /\ save[s].pc # "idle" =>
        save[s].outcome = "uncommitted"
  BY DEF MediaInv, StagingUnowned, Unsettled, Early
<1>e. save[s].pc \in Early => save[s].id = NoAsset
  BY DEF EarlyUnnamed
<1>1. ASSUME NEW pc \in SavePc, GoSave(s, pc) \/ \E answer \in Ids \cup {NoAsset} : AnswerSave(s, pc, answer),
             \/ pc \in Early /\ save[s].pc \in Early /\ save[s].pc # "idle"
             \/ pc \in {"original", "poster", "final", "exit"}
             \/ pc = "done" /\ save[s].pc \in Early
             \/ pc = "unlock" /\ save[s].pc = "exit" /\ Cleanup(s)
             \/ pc \in Left /\ save[s].pc \in Left
      PROVE  SaveMove(s)
  <2>1. /\ save'[s].pc = pc /\ save'[s].id = save[s].id /\ save'[s].outcome = save[s].outcome
        /\ \A t \in Savers : t # s => save'[t] = save[t]
    BY <1>0, <1>1, GoSaveFacts, AnswerSaveFacts
  <2> QED BY <1>1, <1>u, <1>e, <2>1 DEF SaveMove, Approaches, Publishes, Declined, Leaves
<1>2. ASSUME AcceptUnkeyed(s) \/ Claim(s) PROVE SaveMove(s)
  <2>1. PICK o \in Owners, k \in Keys \cup {None}, c \in Contents, pc \in {"admission", "receipt"} :
          Accept(s, o, k, c, pc)
    BY <1>2 DEF AcceptUnkeyed, Claim
  <2>2. pc \in SavePc /\ pc \in Early /\ save[s].pc \in Early
    BY <1>2 DEF SavePc, Early, AcceptUnkeyed, Claim
  <2>3. /\ save'[s].pc = pc /\ save'[s].id = NoAsset /\ save'[s].outcome = "uncommitted"
        /\ \A t \in Savers : t # s => save'[t] = save[t]
    BY <1>0, <2>1, <2>2, AcceptFacts
  <2> QED BY <2>2, <2>3 DEF SaveMove, Approaches
<1>3. CASE ReadReceipt(s)
  <2>1. save[s].pc = "receipt" /\ {"replay", "done"} \subseteq SavePc
    BY <1>3 DEF ReadReceipt, SavePc
  <2>2. \/ GoSave(s, "done")
        \/ \E answer \in Ids \cup {NoAsset} : AnswerSave(s, "replay", answer)
    <3>1. CASE claims[Slot(s)].status = "completed"
      <4>1. claims[Slot(s)].receipt \in Ids \cup {NoAsset}
        BY <2>1 DEF Slot, TypeInv, TypeOK, RequestsKnown, ClaimRow
      <4> QED BY <1>3, <3>1, <4>1 DEF ReadReceipt
    <3> QED BY <1>3, <3>1 DEF ReadReceipt
  <2> QED BY <1>1, <2>1, <2>2 DEF Early
<1>4. CASE Replay(s)
  <2>1. save[s].pc = "replay" /\ "done" \in SavePc
    BY <1>4 DEF Replay, SavePc
  <2>2. PICK answer \in Ids \cup {NoAsset} : AnswerSave(s, "done", answer)
    BY <1>0, <1>4 DEF Replay, SaveState
  <2> QED BY <1>1, <2>1, <2>2 DEF Early
<1>5. CASE SaveAdmission(s) \/ SaveLibrary(s) \/ Spool(s)
  <2>1. PICK pc \in {"library", "spool", "early"} : GoSave(s, pc)
    BY <1>5 DEF SaveAdmission, SaveLibrary, Spool
  <2>2. pc \in SavePc /\ pc \in Early /\ save[s].pc \in Early /\ save[s].pc # "idle"
    BY <1>5 DEF SaveAdmission, SaveLibrary, Spool, SavePc, Early
  <2> QED BY <1>1, <2>1, <2>2
<1>6. CASE EarlyTransaction(s)
  <2>0. save[s].pc = "early" /\ save[s].id = NoAsset
    BY <1>6, <1>e DEF EarlyTransaction, Early
  <2>1. CASE \E pc \in {"prepare", "exit"} : GoSave(s, pc)
    <3>1. {"prepare", "exit"} \subseteq SavePc
      BY DEF SavePc
    <3> QED BY <1>1, <2>0, <2>1, <3>1 DEF Early
  <2>2. CASE SettleDuplicate(s, CommitOutcome)
    <3>1. CommitOutcome \in [BOOLEAN -> {"uncommitted", "uncertain", "committed"}]
      BY DEF CommitOutcome
    <3>2. /\ save'[s].pc = "exit" /\ save'[s].id = save[s].id
          /\ \A t \in Savers : t # s => save'[t] = save[t]
      BY <2>0, <2>2, <3>1, SettleDuplicateFacts
    <3> QED BY <2>0, <3>2 DEF SaveMove, Publishes
  <2> QED BY <1>6, <2>1, <2>2 DEF EarlyTransaction
<1>7. CASE Prepare(s)
  <2>1. CASE nextId \in Ids /\ save' = [save EXCEPT ![s].pc = "original", ![s].id = nextId]
    <3>1. /\ save'[s].pc = "original" /\ save'[s].outcome = save[s].outcome
          /\ \A t \in Savers : t # s => save'[t] = save[t]
      BY <1>0, <2>1, PrepareFacts
    <3>2. save[s].pc = "prepare" /\ save[s].outcome = "uncommitted"
      BY <1>7, <1>u DEF Prepare, Early
    <3> QED BY <3>1, <3>2 DEF SaveMove, Publishes
  <2>2. CASE GoSave(s, "exit")
    BY <1>1, <2>2 DEF SavePc
  <2> QED BY <1>7, <2>1, <2>2 DEF Prepare
<1>8. CASE PutOriginal(s) \/ PutPoster(s)
  <2>1. PICK pc \in {"poster", "final", "exit"} : GoSave(s, pc)
    BY <1>8 DEF PutOriginal, PutPoster, Put
  <2>2. pc \in SavePc
    BY DEF SavePc
  <2> QED BY <1>1, <2>1, <2>2
<1>9. CASE FinalTransaction(s)
  <2>0. save[s].pc = "final"
    BY <1>9 DEF FinalTransaction
  <2>1. CASE GoSave(s, "exit")
    BY <1>1, <2>1 DEF SavePc
  <2>2. CASE SettleDuplicate(s, StagedOutcome)
    <3>1. /\ StagedOutcome \in [BOOLEAN -> {"uncommitted", "uncertain", "committed"}]
          /\ StagedOutcome[TRUE] = "uncommitted" /\ StagedOutcome[FALSE] = "uncommitted"
      BY DEF StagedOutcome
    <3>2. /\ save'[s].pc = "exit" /\ save'[s].id = save[s].id /\ save'[s].outcome = "uncommitted"
          /\ \A t \in Savers : t # s => save'[t] = save[t]
      BY <2>0, <2>2, <3>1, SettleDuplicateFacts
    <3> QED BY <3>2 DEF SaveMove, Publishes
  <2>3. CASE InsertAsset(s)
    <3>1. /\ save'[s].pc = "exit" /\ save'[s].id = save[s].id
          /\ \A t \in Savers : t # s => save'[t] = save[t]
      BY <2>0, <2>3, InsertAssetFacts
    <3>2. save'[s].outcome = "committed" => assets'[save[s].id].status = "live"
      BY <2>0, <2>3, CommitIsKnown
    <3> QED BY <3>1, <3>2 DEF SaveMove, Publishes
  <2> QED BY <1>9, <2>1, <2>2, <2>3 DEF FinalTransaction
<1>10. CASE Cleanup(s)
  BY <1>1, <1>10 DEF Cleanup, SavePc
<1>11. CASE SaveUnlock(s) \/ ReleaseClaim(s)
  <2>1. PICK pc \in {"release", "done"} : GoSave(s, pc)
    BY <1>11 DEF SaveUnlock, ReleaseClaim
  <2>2. pc \in SavePc /\ pc \in Left /\ save[s].pc \in Left
    BY <1>11 DEF SaveUnlock, ReleaseClaim, SavePc, Left
  <2> QED BY <1>1, <2>1, <2>2
<1>12. CASE Refuse(s)
  <2>1. CASE GoSave(s, "exit")
    BY <1>1, <2>1 DEF SavePc
  <2>2. CASE save[s].pc \in {"receipt", "replay"} /\ AnswerSave(s, "done", NoAsset)
    BY <1>1, <2>2 DEF SavePc, Early
  <2> QED BY <1>12, <2>1, <2>2 DEF Refuse
<1> QED BY <1>2, <1>3, <1>4, <1>5, <1>6, <1>7, <1>8, <1>9, <1>10, <1>11, <1>12 DEF SaveStep

LEMMA SavesOrNot ==
    ASSUME [Next]_vars
    PROVE  \/ UNCHANGED <<save, files>>
           \/ UNCHANGED save /\ files' \subseteq files
           \/ Crash
           \/ \E s \in Savers : AcceptUnkeyed(s) \/ Claim(s) \/ SaveStep(s) \/ Refuse(s)
  BY DEF Next, LeaseOrReceiptExpires, Trash, Restore, BeginPurge, PurgeStep,
     PurgeAdmission, PurgeLibrary, Detach, FinishStep, CheckReferenced, UnlinkOriginal, UnlinkPoster,
     Unlink, CompletePurge, PurgeUnlock, AbandonPurge, BootStep, StartServer, ResumePurge, Resumed,
     Serve, LockOpen, LockBackup, LockRead, ReadStep, ReadRow, SnapshotRows, Reads, EndRead,
     Quiescent, vars, process, locks, tables, disk, requests

LEMMA FilesGrow ==
    ASSUME NEW s \in Savers, AcceptUnkeyed(s) \/ Claim(s) \/ SaveStep(s) \/ Refuse(s),
           NEW f \in files', f \notin files
    PROVE  f[1] = save[s].id /\ \E pc \in {"poster", "final", "exit"} : GoSave(s, pc)
<1>1. PutOriginal(s) \/ PutPoster(s)
  BY DEF AcceptUnkeyed, Claim, SaveStep, Refuse, ReadReceipt, Replay, SaveAdmission,
     SaveLibrary, Spool, EarlyTransaction, Prepare, FinalTransaction, Cleanup, SaveUnlock, ReleaseClaim,
     process, locks, tables, disk, requests
<1> QED BY <1>1 DEF PutOriginal, PutPoster, Put

(* A row that goes leaves an intent, an intent leaves a tombstone. *)
LEMMA RowsAccounted ==
    ASSUME TypeInv, MediaInv, TableStep, NEW a \in Ids
    PROVE  /\ Retained(a) => assets'[a].status # "absent" \/ purges'[a].status = "pending"
           /\ Pending(a) => purges'[a].status \in {"pending", "completed"}
           /\ purges[a].status # "absent" => purges'[a].status # "absent"
<1>0. /\ assets \in [Ids -> AssetRow] /\ purges \in [Ids -> PurgeRow]
      /\ assets[a] \in AssetRow /\ purges[a] \in PurgeRow
  BY RowChanges
<1>1. ASSUME NEW s \in Savers, Inserted(s)
      PROVE  purges' = purges /\ (assets'[a].status = "live" \/ assets'[a] = assets[a])
  BY <1>0, <1>1 DEF Inserted
<1>2. ASSUME NEW b \in Ids, NEW from \in {"live", "trashed"}, NEW to \in {"live", "trashed"},
             Moved(b, from, to)
      PROVE  purges' = purges /\ (assets'[a].status = to \/ assets'[a] = assets[a])
  BY <1>0, <1>2 DEF Moved, AssetRow
<1>3. ASSUME NEW p \in Purging, DetachedBy(p)
      PROVE  \/ purges'[a].status = "pending"
             \/ assets'[a] = assets[a] /\ purges'[a] = purges[a]
  <2>1. /\ purges'[purge[p].id] = [status |-> "pending", owner |-> purge[p].owner]
        /\ \A b \in Ids \ {purge[p].id} : assets'[b] = assets[b] /\ purges'[b] = purges[b]
    BY <1>3, RowChanges
  <2> QED BY <2>1
<1>4. ASSUME NEW p \in Purging, CompletedBy(p)
      PROVE  assets' = assets /\ (purges'[a].status = "completed" \/ purges'[a] = purges[a])
  BY <1>0, <1>4 DEF CompletedBy, PurgeRow
<1> QED BY <1>1, <1>2, <1>3, <1>4 DEF TableStep, Retained, Pending

LEMMA LeftoversStep ==
    ASSUME ~IOFaults, TypeInv, TypeInv', MediaInv, MediaInv', LeftoverInv, TableStep, [Next]_vars
    PROVE  LeftoverInv'
<1>0. /\ save \in [Savers -> SaveState] /\ purge \in [Purging -> PurgeState]
      /\ \A s \in Savers : save[s].id \in Ids \cup {NoAsset}
      /\ files \subseteq Ids \X Parts /\ files' \subseteq Ids \X Parts
  BY DEF TypeInv, TypeOK, SaveState
<1>1. \A f \in files' : purges'[f[1]].status # "completed"
  <2> SUFFICES ASSUME NEW f \in files', purges'[f[1]].status = "completed" PROVE FALSE
    OBVIOUS
  <2>1. f[1] \in Ids /\ (f = <<f[1], "original">> \/ f = <<f[1], "poster">>)
    BY <1>0 DEF Parts
  <2> QED BY <2>1 DEF MediaInv, Reclaimed
(* A file its row, or its intent, accounted for. *)
<1>2. ASSUME NEW f \in files', Retained(f[1]) \/ purges[f[1]].status # "absent"
      PROVE  assets'[f[1]].status # "absent" \/ purges'[f[1]].status = "pending"
  <2>1. f[1] \in Ids /\ purges'[f[1]] \in PurgeRow
    BY <1>0 DEF TypeInv, TypeOK
  <2> QED BY <1>1, <1>2, <2>1, RowsAccounted DEF PurgeRow
<1>3. /\ files' \subseteq files
      /\ \A s \in Savers :
           /\ save'[s].id = save[s].id /\ save'[s].outcome = save[s].outcome
           /\ save'[s].pc = save[s].pc \/ save'[s].pc = "lost"
      => LeftoverInv'
  <2> SUFFICES ASSUME /\ files' \subseteq files
                      /\ \A s \in Savers :
                           /\ save'[s].id = save[s].id /\ save'[s].outcome = save[s].outcome
                           /\ save'[s].pc = save[s].pc \/ save'[s].pc = "lost"
               PROVE  LeftoverInv'
    OBVIOUS
  <2>1. EarlyUnnamed'
    BY DEF LeftoverInv, EarlyUnnamed, Early
  <2>2. CommittedKnown'
    BY <1>0, RowsAccounted DEF LeftoverInv, CommittedKnown, Retained, Pending
  <2>3. LeftoversExplained'
    BY <1>2 DEF LeftoverInv, LeftoversExplained, Retained, Pending
  <2> QED BY <2>1, <2>2, <2>3 DEF LeftoverInv
<1>4. CASE UNCHANGED save /\ files' \subseteq files
  BY <1>3, <1>4
<1>5. CASE Crash
  <2>1. files' = files
    BY <1>5 DEF Crash, disk
  <2>2. \A s \in Savers :
          /\ save'[s].id = save[s].id /\ save'[s].outcome = save[s].outcome
          /\ save'[s].pc = save[s].pc \/ save'[s].pc = "lost"
    BY <1>0, <1>5, CrashFacts
  <2> QED BY <1>3, <1>5, <2>1, <2>2
<1>6. ASSUME NEW s \in Savers, AcceptUnkeyed(s) \/ Claim(s) \/ SaveStep(s) \/ Refuse(s)
      PROVE  LeftoverInv'
  <2>1. SaveMove(s)
    BY <1>6, SaveMoves DEF LeftoverInv
  <2>2. EarlyUnnamed'
    BY <2>1 DEF SaveMove, Approaches, Publishes, Declined, Leaves, LeftoverInv, EarlyUnnamed, Early, Left
  <2>3. \A t \in Savers : save'[t].id \in Ids \cup {NoAsset}
    BY DEF TypeInv, TypeOK, SaveState
  <2>4. ASSUME NEW t \in Savers, save'[t].outcome = "committed", save'[t].id # NoAsset
        PROVE  assets'[save'[t].id].status # "absent" \/ purges'[save'[t].id].status # "absent"
    <3>1. CASE save[t].outcome = "committed" /\ save'[t].id = save[t].id
      BY <1>0, <2>3, <2>4, <3>1, RowsAccounted DEF LeftoverInv, CommittedKnown, Retained, Pending
    <3>2. CASE ~(save[t].outcome = "committed" /\ save'[t].id = save[t].id)
      BY <2>1, <2>4, <3>2 DEF SaveMove, Approaches, Publishes, Declined, Leaves
    <3> QED BY <3>1, <3>2
  <2>5. ASSUME NEW f \in files', f \in files
        PROVE  \/ assets'[f[1]].status # "absent" \/ purges'[f[1]].status = "pending"
               \/ \E t \in Savers :
                     /\ save'[t].id = f[1]
                     /\ \/ save'[t].pc \notin {"unlock", "release", "done"}
                        \/ save'[t].outcome = "uncertain"
    <3>1. CASE Retained(f[1]) \/ purges[f[1]].status # "absent"
      BY <1>2, <3>1
    <3>2. ASSUME NEW t \in Savers, save[t].id = f[1],
                 save[t].pc \notin Left \/ save[t].outcome = "uncertain", t # s
          PROVE  save'[t].id = f[1] /\ (save'[t].pc \notin Left \/ save'[t].outcome = "uncertain")
      BY <2>1, <3>2 DEF SaveMove
    <3>3. ASSUME save[s].id = f[1], save[s].pc \notin Left \/ save[s].outcome = "uncertain",
                 ~Retained(f[1]), purges[f[1]].status = "absent"
          PROVE  save'[s].id = f[1] /\ (save'[s].pc \notin Left \/ save'[s].outcome = "uncertain")
      <4>1. f[1] \in Ids /\ f[1] # NoAsset
        BY <1>0 DEF Ids, NoAsset
      <4>2. save[s].pc \notin Early
        BY <3>3, <4>1 DEF LeftoverInv, EarlyUnnamed
      <4>3. ~Approaches(s)
        BY <4>2 DEF Approaches
      <4>4. CASE Publishes(s)
        BY <3>3, <4>2, <4>4 DEF Publishes, Early, Left
      <4>5. CASE Leaves(s) /\ ~(save[s].pc = "exit" /\ Cleanup(s))
        BY <3>3, <4>5 DEF Leaves
      <4>6. CASE Leaves(s) /\ save[s].pc = "exit" /\ Cleanup(s)
        <5>1. save[s].outcome \in {"uncommitted", "uncertain", "committed"}
          BY <1>0 DEF SaveState
        <5>2. save[s].outcome # "committed"
          BY <3>3, <4>1 DEF LeftoverInv, CommittedKnown
        <5>3. save[s].outcome # "uncommitted"
          <6> SUFFICES ASSUME save[s].outcome = "uncommitted" PROVE FALSE
            OBVIOUS
          <6>1. files' = files \ (files \cap Media(save[s].id))
            BY <4>6 DEF Cleanup, MayUnstage, Unlinked
          <6>2. f \in Media(save[s].id)
            <7>1. f \in Ids \X Parts
              BY <1>0
            <7> QED BY <3>3, <7>1 DEF Media
          <6> QED BY <2>5, <6>1, <6>2
        <5> QED BY <3>3, <4>6, <5>1, <5>2, <5>3 DEF Leaves
      <4> QED BY <2>1, <4>2, <4>3, <4>4, <4>5, <4>6 DEF SaveMove, Declined
    <3>4. CASE ~Retained(f[1]) /\ purges[f[1]].status = "absent"
      <4>1. PICK t \in Savers : /\ save[t].id = f[1]
                                /\ save[t].pc \notin Left \/ save[t].outcome = "uncertain"
        BY <2>5, <3>4 DEF LeftoverInv, LeftoversExplained, Pending, Left
      <4>2. save'[t].id = f[1] /\ (save'[t].pc \notin Left \/ save'[t].outcome = "uncertain")
        BY <3>2, <3>3, <3>4, <4>1
      <4> QED BY <4>2 DEF Left
    <3> QED BY <3>1, <3>4
  <2>6. ASSUME NEW f \in files', f \notin files
        PROVE  save'[s].id = f[1] /\ save'[s].pc \notin {"unlock", "release", "done"}
    <3>1. PICK pc \in {"poster", "final", "exit"} : GoSave(s, pc) /\ f[1] = save[s].id
      BY <1>6, <2>6, FilesGrow
    <3>2. pc \in SavePc
      BY DEF SavePc
    <3>3. save'[s].id = save[s].id /\ save'[s].pc = pc
      BY <1>0, <3>1, <3>2, GoSaveFacts
    <3> QED BY <3>1, <3>3
  <2>7. CommittedKnown' /\ LeftoversExplained'
    BY <2>4, <2>5, <2>6 DEF CommittedKnown, LeftoversExplained, Retained, Pending
  <2> QED BY <2>2, <2>7 DEF LeftoverInv
<1> QED BY <1>4, <1>5, <1>6, SavesOrNot

(* Where unlinks succeed, every file in the library directory is accounted   *)
(* for: by a row, by an intent, by a save still at it, or by one whose end a  *)
(* crash or an unacknowledged commit took away (service.go, cleanup).        *)
THEOREM LeftoversAccountedFor == ~IOFaults => (Spec => []LeftoversExplained)
<1> SUFFICES ASSUME ~IOFaults PROVE Spec => []LeftoversExplained
  OBVIOUS
<1>1. LeftoverInv => LeftoversExplained
  BY DEF LeftoverInv
<1>2. TypeInv /\ TypeInv' /\ MediaInv /\ MediaInv' /\ LeftoverInv /\ [Next]_vars => LeftoverInv'
  BY TableSteps, LeftoversStep
<1> QED BY TypeInitially, TypeStep, MediaInitially, MediaStep, LeftoversInitially, <1>1, <1>2,
           PTL DEF Spec
=============================================================================
