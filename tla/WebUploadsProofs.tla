--------------------------- MODULE WebUploadsProofs ---------------------------
(***************************************************************************)
(* Theorems about the captures of the web pages, for any tabs, accounts,   *)
(* files and links of one browser.                                          *)
(***************************************************************************)
EXTENDS WebUploadsRefinement, FiniteSetTheorems, TLAPS

States == {"none", "persisting", "unkept", "queued", "claiming", "claimed", "sending",
           "confirmed", "failing", "failed", "done"}
Record == [status: {"absent", "pending", "uploading", "failed"}, owner: Users \cup {NoUser},
           gen: 0..MaxClaims, live: BOOLEAN]
Page == [open: BOOLEAN, user: Users \cup {NoUser}, ended: BOOLEAN, leaving: BOOLEAN, listed: BOOLEAN]
Work == [st: States, seen: 0..MaxClaims, claim: 0..MaxClaims]
Message == [tab: Tabs, key: Captures, claim: 0..MaxClaims, session: Users \cup {NoUser},
            account: Users \cup {NoUser}, answer: {"none", "saved", "account-changed"}]

LEMMA Types ==
    TypeOK <=> /\ cookie \in Users \cup {NoUser}
               /\ store \in [Captures -> Record] /\ tab \in [Tabs -> Page]
               /\ job \in [Tabs -> [Captures -> Work]]
               /\ saved \in [Captures -> SUBSET Users]
               /\ fate \in [Captures -> {"none", "taken", "dropped"}]
  BY DEF TypeOK, Record, Page, Work, States

LEMMA Constants == NoRecord \in Record /\ NoJob \in Work /\ Closed \in Page
  BY WebUploadsAssumption DEF NoRecord, NoJob, Closed, Record, Work, Page, States

(* What is in a page's hands, in the store, on the wire or in a library is  *)
(* of an account.                                                           *)
Mention(i, u) ==
    \/ i \in Kept /\ store[i].owner = u
    \/ \E t \in Tabs : job[t][i].st # "none" /\ tab[t].user = u
    \/ \E m \in wire : m.key = i /\ m.account = u
    \/ u \in saved[i]

(* All of it, for one capture, is of the same.                              *)
OneAccount ==
    \A i \in Captures :
        /\ \A u, v \in Users \cup {NoUser} : Mention(i, u) /\ Mention(i, v) => u = v
        /\ fate[i] = "none" => \A u \in Users \cup {NoUser} : ~Mention(i, u)

(* Where a claim, a confirmation and an answer come from.                   *)
Grounded ==
    /\ \A i \in Captures : store[i].live => store[i].status = "uploading"
    /\ \A t \in Tabs, i \in Captures : job[t][i].st = "confirmed" => saved[i] # {}
    /\ \A m \in wire : m.answer = "saved" => saved[m.key] # {}

(* A closed page has no jobs, and one that is leaving no file in memory.    *)
PagesKnown ==
    \A t \in Tabs :
        /\ ~tab[t].open => \A i \in Captures : job[t][i].st = "none"
        /\ tab[t].leaving => tab[t].ended /\ tab[t].open /\ Memory(t) \cap Files = {}

InMemory(x) == x.st \in {"persisting", "unkept"}

(* A capture that was taken and has come no further than a page.            *)
Unkept(i) == fate[i] = "taken" /\ i \notin Kept /\ saved[i] = {}

(* What a page's memory holds nobody has anywhere else.                     *)
MemoryApart ==
    \A t \in Tabs, i \in Captures : InMemory(job[t][i]) =>
        Unkept(i) /\ \A s \in Tabs \ {t} : job[s][i].st = "none"

(* Only what the store has kept is sent: what is lost before that never     *)
(* arrives.                                                                 *)
Unsent ==
    \A i \in Captures : Unkept(i) =>
        /\ \A m \in wire : m.key # i
        /\ \A t \in Tabs : job[t][i].st = "none" \/ InMemory(job[t][i])

UploadsInv ==
    /\ TypeOK /\ wire \subseteq Message
    /\ OneAccount /\ Grounded /\ PagesKnown /\ FilesStayUntilSaved /\ MemoryApart /\ Unsent

(* What a step may make of a capture: the moves of an outbox.               *)
Moved(i) ==
    \/ Stage(i)' = Stage(i)
    \/ Stage(i) = "none" /\ Stage(i)' = "kept"
    \/ Stage(i) = "none" /\ Stage(i)' = "over" /\ i \notin Files
    \/ Stage(i) = "kept" /\ Stage(i)' \in {"sending", "over"}
    \/ Stage(i) = "sending" /\ Stage(i)' = "kept"
    \/ Stage(i) = "sending" /\ Stage(i)' = "over" /\ saved'[i] # {}
Progress == \A i \in Captures : Moved(i)

LEMMA Underway ==
    ASSUME NEW i \in Captures, Stage(i) \in {"kept", "sending"}, Stage(i)' \in {"kept", "sending"}
    PROVE  Moved(i)
<1>1. CASE Stage(i) = "kept" /\ Stage(i)' = "kept"
  BY <1>1 DEF Moved
<1>2. CASE Stage(i) = "sending" /\ Stage(i)' = "sending"
  BY <1>2 DEF Moved
<1>3. CASE Stage(i) = "kept" /\ Stage(i)' = "sending"
  BY <1>3 DEF Moved
<1>4. CASE Stage(i) = "sending" /\ Stage(i)' = "kept"
  BY <1>4 DEF Moved
<1> QED BY <1>1, <1>2, <1>3, <1>4

-----------------------------------------------------------------------------
(* Steps that concern one capture of one page.                             *)

LEMMA JobFacts ==
    ASSUME TypeOK, NEW t \in Tabs, NEW i \in Captures, NEW x \in Work, Job(t, i, x)
    PROVE  /\ job' \in [Tabs -> [Captures -> Work]] /\ job'[t][i] = x
           /\ \A s \in Tabs, j \in Captures : s # t \/ j # i => job'[s][j] = job[s][j]
<1>1. job \in [Tabs -> [Captures -> Work]]
  BY Types
<1> QED BY <1>1 DEF Job

(* A page works on a capture it has: it may put the capture into the store  *)
(* and on the wire, under the account of the page.                          *)
LEMMA JobStepKeeps ==
    ASSUME UploadsInv, NEW t \in Tabs, NEW i \in Captures, NEW x \in Work, Job(t, i, x),
           job[t][i].st # "none",
           InMemory(x) => InMemory(job[t][i]),
           x.st = "confirmed" => saved[i] # {},
           UNCHANGED <<cookie, saved>>,
           tab' \in [Tabs -> Page],
           \A s \in Tabs : /\ tab'[s].user = tab[s].user /\ tab'[s].open = tab[s].open
                           /\ tab'[s].leaving = tab[s].leaving
                           /\ tab[s].ended => tab'[s].ended,
           store' \in [Captures -> Record],
           \A j \in Captures : j # i => store'[j] = store[j],
           store'[i].live => store'[i].status = "uploading",
           i \in Kept' => \/ i \in Kept /\ store'[i].owner = store[i].owner
                          \/ store'[i].owner = tab[t].user,
           wire' \subseteq Message,
           \A m \in wire' : \/ m \in wire
                            \/ /\ m.key = i /\ m.account = tab[t].user /\ m.answer = "none"
                               /\ ~InMemory(job[t][i]),
           fate' \in [Captures -> {"none", "taken", "dropped"}],
           \A j \in Captures : j # i => fate'[j] = fate[j],
           fate'[i] = "none" => fate[i] = "none",
           fate'[i] = "taken" => \/ i \in Kept' \/ saved[i] # {} \/ InMemory(x)
                                 \/ fate[i] = "taken" /\ i \notin Kept /\ ~InMemory(job[t][i]),
           \/ /\ store'[i] = store[i] /\ fate'[i] = fate[i]
              /\ InMemory(x) <=> InMemory(job[t][i])
           \/ /\ ~InMemory(x) /\ i \in Kept' /\ fate'[i] = fate[i]
              /\ i \in Kept \/ (InMemory(job[t][i]) /\ ~store'[i].live)
           \/ /\ ~InMemory(x) /\ i \notin Kept' /\ fate'[i] = "dropped" /\ ~store[i].live
              /\ i \in Kept \/ InMemory(job[t][i])
           \/ ~InMemory(x) /\ i \notin Kept' /\ fate'[i] = fate[i] /\ store[i].live /\ saved[i] # {}
    PROVE  UploadsInv' /\ Progress
<1> USE DEF UploadsInv
<1>1. /\ job' \in [Tabs -> [Captures -> Work]] /\ job'[t][i] = x
      /\ \A s \in Tabs, j \in Captures : s # t \/ j # i => job'[s][j] = job[s][j]
  BY JobFacts
<1>2. TypeOK'
  BY <1>1, Types DEF TypeOK, Record, Page, Work, States
<1>3. \A j \in Captures : j # i => (j \in Kept' <=> j \in Kept)
  BY DEF Kept
<1>4. tab[t].open
  BY DEF PagesKnown
<1>5. OneAccount'
  <2>1. ASSUME NEW j \in Captures, NEW u \in Users \cup {NoUser}, Mention(j, u)' PROVE Mention(j, u)
    <3>1. CASE j \in Kept' /\ store'[j].owner = u
      BY <1>3, <3>1 DEF Mention
    <3>2. CASE \E s \in Tabs : job'[s][j].st # "none" /\ tab'[s].user = u
      BY <1>1, <3>2 DEF Mention
    <3>3. CASE \E m \in wire' : m.key = j /\ m.account = u
      BY <3>3 DEF Mention
    <3>4. CASE u \in saved'[j]
      BY <3>4 DEF Mention
    <3> QED BY <2>1, <3>1, <3>2, <3>3, <3>4 DEF Mention
  <2> QED BY <2>1 DEF OneAccount
<1>6. Grounded'
  <2>1. \A j \in Captures : store'[j].live => store'[j].status = "uploading"
    BY DEF Grounded
  <2>2. \A s \in Tabs, j \in Captures : job'[s][j].st = "confirmed" => saved[j] # {}
    BY <1>1 DEF Grounded
  <2>3. \A m \in wire' : m.answer = "saved" => saved[m.key] # {}
    BY DEF Grounded
  <2> QED BY <2>1, <2>2, <2>3 DEF Grounded
<1>7. PagesKnown'
  <2>1. \A s \in Tabs : tab[s].leaving => \A j \in Captures \cap Files : ~InMemory(job[s][j])
    BY DEF PagesKnown, Memory, InMemory
  <2>2. \A s \in Tabs : tab'[s].leaving => \A j \in Captures \cap Files : ~InMemory(job'[s][j])
    BY <1>1, <2>1
  <2>3. \A s \in Tabs : tab'[s].leaving =>
           tab'[s].ended /\ tab'[s].open /\ (Memory(s) \cap Files = {})'
    BY <2>2 DEF PagesKnown, Memory, InMemory
  <2>4. ASSUME NEW s \in Tabs, ~tab'[s].open, NEW j \in Captures PROVE job'[s][j].st = "none"
    <3>1. s # t /\ ~tab[s].open
      BY <1>4, <2>4
    <3> QED BY <1>1, <3>1 DEF PagesKnown
  <2> QED BY <2>3, <2>4 DEF PagesKnown
<1>8. FilesStayUntilSaved'
  <2>1. SUFFICES ASSUME NEW j \in Files, j \in Captures, fate'[j] = "taken"
                 PROVE  j \in Kept' \/ saved'[j] # {}
                        \/ \E s \in Tabs : tab'[s].open /\ InMemory(job'[s][j])
    BY WebUploadsAssumption DEF FilesStayUntilSaved, Held, Memory, InMemory
  <2>2. fate[j] = "taken" => j \in Kept \/ saved[j] # {}
                             \/ \E s \in Tabs : tab[s].open /\ InMemory(job[s][j])
    BY DEF FilesStayUntilSaved, Held, Memory, InMemory
  <2>3. CASE j # i
    BY <1>1, <1>3, <2>1, <2>2, <2>3
  <2>4. CASE j = i
    <3>1. CASE i \in Kept' \/ saved[i] # {} \/ InMemory(x)
      BY <1>1, <1>4, <2>4, <3>1
    <3>2. CASE fate[i] = "taken" /\ i \notin Kept /\ ~InMemory(job[t][i])
      BY <1>1, <2>2, <2>4, <3>2
    <3> QED BY <2>1, <2>4, <3>1, <3>2
  <2> QED BY <2>3, <2>4
<1>9. MemoryApart'
  <2>1. SUFFICES ASSUME NEW s \in Tabs, NEW j \in Captures, InMemory(job'[s][j])
                 PROVE  Unkept(j)' /\ \A r \in Tabs \ {s} : job'[r][j].st = "none"
    BY DEF MemoryApart
  <2>2. CASE j # i
    <3>1. InMemory(job[s][j]) /\ \A r \in Tabs : job'[r][j] = job[r][j]
      BY <1>1, <2>1, <2>2
    <3>2. Unkept(j) /\ \A r \in Tabs \ {s} : job[r][j].st = "none"
      BY <3>1 DEF MemoryApart
    <3> QED BY <1>3, <2>2, <3>1, <3>2 DEF Unkept
  <2>3. CASE j = i
    <3>1. InMemory(job[s][j])
      BY <1>1, <2>1, <2>3
    <3>2. s = t
      BY <2>3, <3>1 DEF MemoryApart
    <3>3. store'[i] = store[i] /\ fate'[i] = fate[i]
      BY <1>1, <2>1, <2>3, <3>2
    <3> QED BY <1>1, <2>3, <3>1, <3>2, <3>3 DEF MemoryApart, Unkept, Kept
  <2> QED BY <2>2, <2>3
<1>10. Unsent'
  <2>1. SUFFICES ASSUME NEW j \in Captures, Unkept(j)'
                 PROVE  /\ \A m \in wire' : m.key # j
                        /\ \A s \in Tabs : job'[s][j].st = "none" \/ InMemory(job'[s][j])
    BY DEF Unsent
  <2>2. CASE j # i
    <3>1. Unkept(j)
      BY <1>3, <2>1, <2>2 DEF Unkept
    <3> QED BY <1>1, <2>2, <3>1 DEF Unsent
  <2>3. CASE j = i
    <3>1. store'[i] = store[i] /\ fate'[i] = fate[i] /\ (InMemory(x) <=> InMemory(job[t][i]))
      BY <2>1, <2>3 DEF Unkept
    <3>2. Unkept(i)
      BY <2>1, <2>3, <3>1 DEF Unkept, Kept
    <3>3. InMemory(job[t][i])
      BY <3>2 DEF Unsent
    <3> QED BY <1>1, <2>3, <3>1, <3>2, <3>3 DEF Unsent
  <2> QED BY <2>2, <2>3
<1>11. ASSUME NEW j \in Captures, j # i PROVE Moved(j)
  <2>1. /\ store'[j] = store[j] /\ fate'[j] = fate[j] /\ saved'[j] = saved[j]
        /\ j \in Kept' <=> j \in Kept
    BY <1>3, <1>11
  <2>2. InPage(j)' <=> InPage(j)
    BY <1>1, <1>11 DEF InPage, Memory
  <2> QED BY <2>1, <2>2 DEF Moved, Stage
<1>12. Moved(i)
  <2> DEFINE Others == \E s \in Tabs \ {t} : InMemory(job[s][i])
  <2>1. InPage(i) <=> (Others \/ InMemory(job[t][i]))
    BY DEF InPage, Memory, InMemory
  <2>2. InPage(i)' <=> (Others \/ InMemory(x))
    BY <1>1 DEF InPage, Memory, InMemory
  <2>3. ~Others
    BY DEF MemoryApart, InMemory
  <2> HIDE DEF Others
  <2>4. store[i].live => store[i].status = "uploading" /\ i \in Kept
    BY DEF Grounded, Kept
  <2>5. store'[i].live => store'[i].status = "uploading" /\ i \in Kept'
    BY DEF Kept
  <2>6. InMemory(job[t][i]) => Unkept(i)
    BY DEF MemoryApart
  <2>7. fate[i] # "none" /\ fate'[i] # "none"
    <3>1. tab[t].user \in Users \cup {NoUser}
      BY Types DEF Page
    <3> QED BY <3>1 DEF OneAccount, Mention
  <2>8. Stage(i) = IF store[i].live THEN "sending"
                   ELSE IF i \in Kept \/ (i \in Files /\ InMemory(job[t][i])) THEN "kept"
                   ELSE IF fate[i] = "dropped" \/ saved[i] # {} THEN "over"
                   ELSE IF i \in Files THEN "lost" ELSE "none"
    BY <2>1, <2>3, <2>4, <2>7 DEF Stage
  <2>9. Stage(i)' = IF store'[i].live THEN "sending"
                    ELSE IF i \in Kept' \/ (i \in Files /\ InMemory(x)) THEN "kept"
                    ELSE IF fate'[i] = "dropped" \/ saved[i] # {} THEN "over"
                    ELSE IF i \in Files THEN "lost" ELSE "none"
    BY <2>2, <2>3, <2>5, <2>7 DEF Stage
  <2>10. store'[i] = store[i] => (i \in Kept' <=> i \in Kept)
    BY DEF Kept
  <2> HIDE DEF UploadsInv
  <2>11. CASE /\ store'[i] = store[i] /\ fate'[i] = fate[i]
              /\ InMemory(x) <=> InMemory(job[t][i])
    BY <2>8, <2>9, <2>10, <2>11 DEF Moved
  <2>12. CASE /\ ~InMemory(x) /\ i \in Kept' /\ fate'[i] = fate[i]
              /\ i \in Kept \/ (InMemory(job[t][i]) /\ ~store'[i].live)
    <3>1. Stage(i)' \in {"sending", "kept"}
      BY <2>9, <2>12
    <3>2. CASE i \in Kept \/ i \in Files
      <4>1. Stage(i) \in {"sending", "kept"}
        BY <2>8, <2>12, <3>2
      <4> QED BY <3>1, <4>1, Underway
    <3>3. CASE i \notin Kept /\ i \notin Files
      BY <2>4, <2>6, <2>8, <2>9, <2>12, <3>3 DEF Moved, Unkept
    <3> QED BY <3>2, <3>3
  <2>13. CASE /\ ~InMemory(x) /\ i \notin Kept' /\ fate'[i] = "dropped" /\ ~store[i].live
              /\ i \in Kept \/ InMemory(job[t][i])
    BY <2>4, <2>5, <2>6, <2>8, <2>9, <2>13 DEF Moved, Unkept
  <2>14. CASE ~InMemory(x) /\ i \notin Kept' /\ fate'[i] = fate[i] /\ store[i].live /\ saved[i] # {}
    BY <2>4, <2>5, <2>8, <2>9, <2>14 DEF Moved
  <2> QED BY <2>11, <2>12, <2>13, <2>14
<1> QED BY <1>2, <1>5, <1>6, <1>7, <1>8, <1>9, <1>10, <1>11, <1>12 DEF Progress

(* The steps of one capture of one page.                                   *)
LEMMA CaptureSteps ==
    ASSUME UploadsInv, NEW t \in Tabs, NEW i \in Captures,
           \/ PersistUpload(t, i) \/ Retry(t, i) \/ Remove(t, i) \/ StartUpload(t, i)
           \/ Claim(t, i) \/ Post(t, i) \/ AbortUpload(t, i) \/ Finish(t, i)
    PROVE  UploadsInv' /\ Progress
<1> USE DEF UploadsInv
<1>0. /\ store \in [Captures -> Record] /\ tab \in [Tabs -> Page] /\ job[t][i] \in Work
      /\ fate \in [Captures -> {"none", "taken", "dropped"}] /\ cookie \in Users \cup {NoUser}
      /\ wire \subseteq Message /\ NoJob \in Work /\ NoRecord \in Record
      /\ tab[t].user \in Users \cup {NoUser}
  BY Types, Constants DEF Page
<1>1. \A st \in States : [job[t][i] EXCEPT !.st = st] \in Work /\ [job[t][i] EXCEPT !.st = st].st = st
  BY <1>0 DEF Work
<1>2. store[i].live => store[i].status = "uploading"
  BY DEF Grounded
<1>3. CASE PersistUpload(t, i)
  <2>1. PICK st \in {"queued", "unkept"} :
          /\ Moves(t, i, st)
          /\ \/ /\ st = "queued" /\ i \notin Kept
                /\ store' = [store EXCEPT ![i] = [NoRecord EXCEPT !.status = "pending",
                                                                  !.owner = tab[t].user]]
             \/ st = "unkept" /\ store' = store
    BY <1>3 DEF PersistUpload
  <2>2. job[t][i].st = "persisting" /\ UNCHANGED <<cookie, tab, wire, saved, fate>>
    BY <1>3 DEF PersistUpload
  <2> DEFINE r == [NoRecord EXCEPT !.status = "pending", !.owner = tab[t].user]
  <2>3. r \in Record /\ r.status = "pending" /\ r.owner = tab[t].user /\ ~r.live
    BY <1>0 DEF Record, NoRecord
  <2> HIDE DEF r
  <2>4. /\ store' \in [Captures -> Record] /\ \A j \in Captures : j # i => store'[j] = store[j]
        /\ store'[i] = IF st = "queued" THEN r ELSE store[i]
    BY <1>0, <2>1, <2>3 DEF r
  <2> DEFINE x == [job[t][i] EXCEPT !.st = st]
  <2>5. x \in Work /\ x.st = st /\ Job(t, i, x)
    BY <1>1, <2>1 DEF Moves, States
  <2> HIDE DEF x
  <2>6. i \in Kept' => \/ i \in Kept /\ store'[i].owner = store[i].owner
                       \/ store'[i].owner = tab[t].user
    BY <2>3, <2>4 DEF Kept
  <2>7. fate'[i] = "taken" => i \in Kept' \/ InMemory(x)
    BY <2>1, <2>3, <2>4, <2>5 DEF Kept, InMemory
  <2>8. \/ store'[i] = store[i] /\ (InMemory(x) <=> InMemory(job[t][i]))
        \/ ~InMemory(x) /\ i \in Kept' /\ InMemory(job[t][i]) /\ ~store'[i].live
    BY <2>1, <2>2, <2>3, <2>4, <2>5 DEF Kept, InMemory
  <2> QED BY <1>0, <1>2, <2>2, <2>3, <2>4, <2>5, <2>6, <2>7, <2>8, JobStepKeeps DEF InMemory
<1>4. CASE Retry(t, i)
  <2> DEFINE x == [job[t][i] EXCEPT !.st = IF job[t][i].st = "failed" THEN "queued" ELSE "persisting"]
  <2>1. /\ job[t][i].st \in {"failed", "unkept"} /\ Job(t, i, x)
        /\ UNCHANGED <<cookie, store, tab, wire, saved, fate>>
    BY <1>4 DEF Retry, Moves
  <2>2. x \in Work /\ x.st = IF job[t][i].st = "failed" THEN "queued" ELSE "persisting"
    BY <1>1 DEF States
  <2> HIDE DEF x
  <2>3. InMemory(x) <=> InMemory(job[t][i])
    BY <2>1, <2>2 DEF InMemory
  <2>4. fate'[i] = "taken" => i \in Kept' \/ saved[i] # {} \/ InMemory(x)
                              \/ (fate[i] = "taken" /\ i \notin Kept /\ ~InMemory(job[t][i]))
    BY <2>1, <2>3 DEF Kept
  <2> QED BY <1>0, <1>2, <2>1, <2>2, <2>3, <2>4, JobStepKeeps DEF Kept
<1>5. CASE Remove(t, i)
  <2>1. job[t][i].st \in {"failed", "unkept"} /\ Job(t, i, NoJob) /\ UNCHANGED <<cookie, tab, wire, saved>>
    BY <1>5 DEF Remove
  <2>2. /\ store' \in [Captures -> Record] /\ \A j \in Captures : j # i => store'[j] = store[j]
        /\ store'[i] = store[i] \/ store'[i] = NoRecord
    BY <1>0, <1>5 DEF Remove
  <2>3. /\ fate' \in [Captures -> {"none", "taken", "dropped"}]
        /\ \A j \in Captures : j # i => fate'[j] = fate[j]
        /\ \/ fate'[i] = "dropped"
           \/ fate'[i] = fate[i] /\ i \notin Kept /\ job[t][i].st = "failed"
    BY <1>0, <1>5 DEF Remove
  <2>4. NoJob.st = "none" /\ NoRecord.status = "absent" /\ ~NoRecord.live
    BY DEF NoJob, NoRecord
  <2>5. InMemory(job[t][i]) => i \notin Kept
    BY DEF MemoryApart, Unkept
  <2>6. \/ store'[i] = store[i] /\ fate'[i] = fate[i] /\ ~InMemory(job[t][i])
        \/ /\ i \notin Kept' /\ fate'[i] = "dropped" /\ ~store[i].live
           /\ i \in Kept \/ InMemory(job[t][i])
    <3>1. CASE job[t][i].st = "unkept" /\ store' = store /\ fate' = [fate EXCEPT ![i] = "dropped"]
      BY <1>0, <1>2, <2>5, <3>1 DEF InMemory, Kept
    <3>2. CASE job[t][i].st = "failed" /\ store' = store /\ fate' = fate
      BY <3>2 DEF InMemory
    <3>3. CASE /\ i \in Kept /\ Removable(t, i) /\ store' = [store EXCEPT ![i] = NoRecord]
               /\ fate' = [fate EXCEPT ![i] = "dropped"]
      BY <1>0, <1>2, <2>4, <3>3 DEF Removable, Kept
    <3> QED BY <1>5, <3>1, <3>2, <3>3 DEF Remove
  <2>7. ~InMemory(NoJob)
    BY <2>4 DEF InMemory
  <2> QED BY <1>0, <1>2, <2>1, <2>2, <2>3, <2>4, <2>6, <2>7, JobStepKeeps DEF Kept
<1>6. CASE StartUpload(t, i)
  <2> DEFINE x == [job[t][i] EXCEPT !.st = IF tab[t].ended THEN "failed" ELSE "claiming"]
  <2>1. job[t][i].st = "queued" /\ Job(t, i, x) /\ UNCHANGED <<cookie, store, tab, wire, saved, fate>>
    BY <1>6 DEF StartUpload, Moves
  <2>2. x \in Work /\ x.st \in {"failed", "claiming"}
    BY <1>1 DEF States
  <2> HIDE DEF x
  <2> QED BY <1>0, <1>2, <2>1, <2>2, JobStepKeeps DEF InMemory, Kept
<1>7. CASE Claim(t, i)
  <2>1. job[t][i].st = "claiming" /\ UNCHANGED <<cookie, tab, wire, saved, fate>>
    BY <1>7 DEF Claim
  <2>2. CASE Claimable(t, i) /\ store[i].gen < MaxClaims
    <3> DEFINE g == store[i].gen + 1
               x == [st |-> "claimed", seen |-> g, claim |-> g]
    <3>1. store' = [store EXCEPT ![i].status = "uploading", ![i].live = TRUE, ![i].gen = @ + 1]
      BY <1>7, <2>2 DEF Claim
    <3>2. Job(t, i, x)
      BY <1>7, <2>2 DEF Claim
    <3>3. g \in 0..MaxClaims /\ i \in Kept /\ store[i].owner = tab[t].user
      BY <1>0, <2>2, WebUploadsAssumption DEF Record, Claimable
    <3>4. /\ store' \in [Captures -> Record] /\ \A j \in Captures : j # i => store'[j] = store[j]
          /\ store'[i].status = "uploading" /\ store'[i].owner = store[i].owner
      <4> DEFINE r == [store[i] EXCEPT !.status = "uploading", !.live = TRUE, !.gen = g]
      <4>1. store' = [store EXCEPT ![i] = r]
        BY <1>0, <3>1 DEF Record
      <4> HIDE DEF g
      <4>2. r \in Record /\ r.status = "uploading" /\ r.owner = store[i].owner
        BY <1>0, <3>3 DEF Record
      <4> HIDE DEF r
      <4> QED BY <1>0, <4>1, <4>2
    <3> HIDE DEF g
    <3>5. x \in Work /\ x.st = "claimed"
      BY <3>3 DEF Work, States
    <3> HIDE DEF x
    <3>6. i \in Kept'
      BY <3>4 DEF Kept
    <3> QED BY <1>0, <2>1, <3>2, <3>3, <3>4, <3>5, <3>6, JobStepKeeps DEF InMemory
  <2>3. CASE ~Claimable(t, i)
    <3> DEFINE x == [job[t][i] EXCEPT !.st = "failed"]
    <3>1. Job(t, i, x) /\ store' = store
      BY <1>7, <2>3 DEF Claim, Moves
    <3>2. x \in Work /\ x.st = "failed"
      BY <1>1 DEF States
    <3> HIDE DEF x
    <3> QED BY <1>0, <1>2, <2>1, <3>1, <3>2, JobStepKeeps DEF InMemory, Kept
  <2> QED BY <1>7, <2>2, <2>3 DEF Claim
<1>8. CASE Post(t, i)
  <2> DEFINE m == [tab |-> t, key |-> i, claim |-> job[t][i].claim, session |-> cookie,
                   account |-> tab[t].user, answer |-> "none"]
  <2>1. PICK st \in {"sending", "failing"} :
          Moves(t, i, st) /\ (wire' = wire \/ wire' = wire \cup {m})
    BY <1>8 DEF Post
  <2>2. job[t][i].st = "claimed" /\ UNCHANGED <<cookie, store, tab, saved, fate>>
    BY <1>8 DEF Post
  <2>3. m \in Message /\ m.key = i /\ m.account = tab[t].user /\ m.answer = "none"
    BY <1>0 DEF Message, Work
  <2> HIDE DEF m
  <2> DEFINE x == [job[t][i] EXCEPT !.st = st]
  <2>4. x \in Work /\ x.st = st /\ Job(t, i, x)
    BY <1>1, <2>1 DEF Moves, States
  <2> HIDE DEF x
  <2> QED BY <1>0, <1>2, <2>1, <2>2, <2>3, <2>4, JobStepKeeps DEF InMemory, Kept
<1>9. CASE AbortUpload(t, i)
  <2> DEFINE x == [job[t][i] EXCEPT !.st = "failing"]
  <2>1. /\ job[t][i].st = "sending" /\ Job(t, i, x) /\ wire' \subseteq wire
        /\ UNCHANGED <<cookie, store, tab, saved, fate>>
    BY <1>9 DEF AbortUpload, Moves
  <2>2. x \in Work /\ x.st = "failing"
    BY <1>1 DEF States
  <2> HIDE DEF x
  <2> QED BY <1>0, <1>2, <2>1, <2>2, JobStepKeeps DEF InMemory, Kept
<1>10. CASE Finish(t, i)
  <2> DEFINE x == [job[t][i] EXCEPT !.claim = 0,
                      !.st = IF job[t][i].st = "confirmed" THEN "done" ELSE "failed"]
             r == [store[i] EXCEPT !.status = "failed", !.live = FALSE]
  <2>1. /\ job[t][i].st \in {"confirmed", "failing"} /\ Job(t, i, x)
        /\ UNCHANGED <<cookie, tab, wire, saved, fate>>
    BY <1>10, Zenon DEF Finish
  <2>2. x \in Work /\ x.st \in {"done", "failed"}
    <3> DEFINE st == IF job[t][i].st = "confirmed" THEN "done" ELSE "failed"
    <3>1. 0 \in 0..MaxClaims /\ st \in {"done", "failed"}
      BY WebUploadsAssumption
    <3> HIDE DEF st
    <3>2. [job[t][i] EXCEPT !.claim = 0, !.st = st] \in Work
          /\ [job[t][i] EXCEPT !.claim = 0, !.st = st].st = st
      BY <1>0, <3>1 DEF Work, States
    <3> QED BY <3>1, <3>2 DEF st
  <2>3. r \in Record /\ r.status = "failed" /\ ~r.live /\ r.owner = store[i].owner
    BY <1>0 DEF Record
  <2>4. \/ store' = store
        \/ store' = [store EXCEPT ![i] = NoRecord] /\ job[t][i].st = "confirmed" /\ store[i].live
        \/ store' = [store EXCEPT ![i] = r] /\ i \in Kept
    <3>1. [store EXCEPT ![i].status = "failed", ![i].live = FALSE] = [store EXCEPT ![i] = r]
      BY <1>0 DEF Record
    <3>2. OwnsClaim(t, i) => i \in Kept /\ store[i].live
      BY DEF OwnsClaim, Kept
    <3> HIDE DEF r
    <3> QED BY <1>10, <3>1, <3>2 DEF Finish
  <2> HIDE DEF x, r
  <2>5. /\ store' \in [Captures -> Record] /\ \A j \in Captures : j # i => store'[j] = store[j]
        /\ \/ store'[i] = store[i]
           \/ store'[i] = NoRecord /\ job[t][i].st = "confirmed" /\ store[i].live
           \/ store'[i] = r /\ i \in Kept /\ i \in Kept'
    BY <1>0, <2>3, <2>4 DEF Kept
  <2>6. job[t][i].st = "confirmed" => saved[i] # {}
    BY DEF Grounded
  <2>7. ~NoRecord.live /\ NoRecord.status = "absent"
    BY DEF NoRecord
  <2> QED BY <1>0, <1>2, <2>1, <2>2, <2>3, <2>5, <2>6, <2>7, JobStepKeeps DEF InMemory, Kept
<1> QED BY <1>3, <1>4, <1>5, <1>6, <1>7, <1>8, <1>9, <1>10

(* The answer of the server reaches the page that waits for it.             *)
LEMMA ReceiveKeeps ==
    ASSUME UploadsInv, NEW m \in wire, Receive(m)
    PROVE  UploadsInv' /\ Progress
<1> USE DEF UploadsInv
<1>0. /\ store \in [Captures -> Record] /\ tab \in [Tabs -> Page] /\ job[m.tab][m.key] \in Work
      /\ fate \in [Captures -> {"none", "taken", "dropped"}]
      /\ wire \subseteq Message /\ m.tab \in Tabs /\ m.key \in Captures
  BY Types DEF Message
<1> DEFINE st == IF m.answer = "saved" THEN "confirmed" ELSE "failing"
           x == [job[m.tab][m.key] EXCEPT !.st = st]
<1>1. /\ job[m.tab][m.key].st = "sending" /\ Job(m.tab, m.key, x) /\ wire' \subseteq wire
      /\ tab' = [tab EXCEPT ![m.tab].ended = @ \/ m.answer = "account-changed"]
      /\ UNCHANGED <<cookie, store, saved, fate>>
  BY DEF Receive, Awaited, Moves
<1>2. x \in Work /\ x.st = st
  BY <1>0 DEF Work, States
<1>3. /\ tab' \in [Tabs -> Page]
      /\ \A s \in Tabs : /\ tab'[s].user = tab[s].user /\ tab'[s].open = tab[s].open
                         /\ tab'[s].leaving = tab[s].leaving
                         /\ tab[s].ended => tab'[s].ended
  BY <1>0, <1>1 DEF Page
<1>4. m.answer = "saved" => saved[m.key] # {}
  BY DEF Grounded
<1>5. store[m.key].live => store[m.key].status = "uploading"
  BY <1>0 DEF Grounded
<1> HIDE DEF x
<1> QED BY <1>0, <1>1, <1>2, <1>3, <1>4, <1>5, JobStepKeeps DEF InMemory, Kept
-----------------------------------------------------------------------------
(* Steps of a page and its session.                                        *)

LEMMA PageStepKeeps ==
    ASSUME UploadsInv, NEW t \in Tabs, UNCHANGED <<store, wire, saved>>,
           cookie' \in Users \cup {NoUser}, tab' \in [Tabs -> Page],
           job' \in [Tabs -> [Captures -> Work]],
           fate' \in [Captures -> {"none", "taken", "dropped"}],
           \A s \in Tabs : s # t => tab'[s] = tab[s] /\ job'[s] = job[s],
           \A i \in Captures : job'[t][i].st # "none" => tab'[t].open /\ Mention(i, tab'[t].user),
           \A i \in Captures : job'[t][i].st = "confirmed" => job[t][i].st = "confirmed",
           tab'[t].leaving => /\ tab'[t].ended /\ tab'[t].open
                              /\ \A i \in Captures \cap Files : ~InMemory(job'[t][i]),
           \A i \in Captures : job'[t][i].st # "none" => job[t][i].st # "none" \/ i \in Kept,
           \A i \in Captures :
               \/ fate'[i] = "dropped" /\ InMemory(job[t][i]) /\ ~InMemory(job'[t][i])
               \/ /\ fate'[i] = fate[i] /\ i \notin Files
                  /\ InMemory(job[t][i]) /\ job'[t][i].st = "none"
               \/ /\ fate'[i] = fate[i] /\ (InMemory(job[t][i]) <=> InMemory(job'[t][i]))
                  /\ InMemory(job[t][i]) => tab'[t].open
    PROVE  UploadsInv' /\ Progress
<1> USE DEF UploadsInv
<1>1. TypeOK'
  BY Types DEF TypeOK, Record, Page, Work, States
<1>2. OneAccount'
  <2>1. ASSUME NEW j \in Captures, NEW u \in Users \cup {NoUser}, Mention(j, u)' PROVE Mention(j, u)
    <3>1. CASE \E s \in Tabs : job'[s][j].st # "none" /\ tab'[s].user = u
      <4>1. PICK s \in Tabs : job'[s][j].st # "none" /\ tab'[s].user = u
        BY <3>1
      <4>2. CASE s = t
        BY <4>1, <4>2
      <4>3. CASE s # t
        BY <4>1, <4>3 DEF Mention
      <4> QED BY <4>2, <4>3
    <3>2. CASE ~\E s \in Tabs : job'[s][j].st # "none" /\ tab'[s].user = u
      BY <2>1, <3>2 DEF Mention, Kept
    <3> QED BY <3>1, <3>2
  <2>2. \A j \in Captures : fate'[j] = "none" => fate[j] = "none"
    OBVIOUS
  <2> QED BY <2>1, <2>2 DEF OneAccount
<1>3. Grounded'
  <2>1. \A s \in Tabs, j \in Captures : job'[s][j].st = "confirmed" => saved[j] # {}
    BY DEF Grounded
  <2> QED BY <2>1 DEF Grounded
<1>4. PagesKnown'
  <2>1. \A s \in Tabs : tab[s].leaving => \A j \in Captures \cap Files : ~InMemory(job[s][j])
    BY DEF PagesKnown, Memory, InMemory
  <2>2. \A s \in Tabs : tab'[s].leaving =>
           tab'[s].ended /\ tab'[s].open /\ \A j \in Captures \cap Files : ~InMemory(job'[s][j])
    BY <2>1 DEF PagesKnown
  <2>3. \A s \in Tabs : ~tab'[s].open => \A j \in Captures : job'[s][j].st = "none"
    BY DEF PagesKnown
  <2> QED BY <2>2, <2>3 DEF PagesKnown, Memory, InMemory
<1>5. FilesStayUntilSaved'
  <2>1. SUFFICES ASSUME NEW j \in Files, j \in Captures, fate'[j] = "taken"
                 PROVE  j \in Kept \/ saved[j] # {}
                        \/ \E s \in Tabs : tab'[s].open /\ InMemory(job'[s][j])
    BY WebUploadsAssumption DEF FilesStayUntilSaved, Held, Memory, InMemory, Kept
  <2>2. j \in Kept \/ saved[j] # {} \/ \E s \in Tabs : tab[s].open /\ InMemory(job[s][j])
    BY <2>1 DEF FilesStayUntilSaved, Held, Memory, InMemory
  <2> QED BY <2>1, <2>2
<1>6. Kept' = Kept
  BY DEF Kept
<1>7. ASSUME NEW j \in Captures, InMemory(job[t][j]), ~InMemory(job'[t][j]),
             fate'[j] = "dropped" \/ (fate'[j] = fate[j] /\ j \notin Files)
      PROVE  /\ \A s \in Tabs : ~InMemory(job'[s][j])
             /\ Moved(j)
  <2>1. Unkept(j) /\ \A s \in Tabs \ {t} : job[s][j].st = "none"
    BY <1>7 DEF MemoryApart
  <2>2. \A s \in Tabs : ~InMemory(job'[s][j])
    BY <1>7, <2>1 DEF InMemory
  <2>3. InPage(j) /\ ~InPage(j)' /\ store'[j] = store[j] /\ store[j].status = "absent"
    BY <1>7, <2>1, <2>2 DEF InPage, Memory, InMemory, Unkept, Kept
  <2>4. Stage(j) = IF j \in Files THEN "kept" ELSE "none"
    BY <1>6, <2>1, <2>3 DEF Stage, Unkept
  <2>5. CASE fate'[j] = "dropped"
    <3>1. Stage(j)' = "over"
      BY <1>6, <2>1, <2>3, <2>5 DEF Stage, Unkept
    <3> QED BY <2>2, <2>4, <2>5, <3>1 DEF Moved
  <2>6. CASE fate'[j] = fate[j] /\ j \notin Files
    <3>1. Stage(j)' = "none"
      BY <1>6, <2>1, <2>3, <2>6 DEF Stage, Unkept
    <3> QED BY <2>2, <2>4, <2>6, <3>1 DEF Moved
  <2> QED BY <1>7, <2>5, <2>6
<1>8. ASSUME NEW j \in Captures, fate'[j] = fate[j], InMemory(job[t][j]) <=> InMemory(job'[t][j])
      PROVE  /\ \A s \in Tabs : InMemory(job'[s][j]) <=> InMemory(job[s][j])
             /\ Moved(j)
  <2>1. \A s \in Tabs : InMemory(job'[s][j]) <=> InMemory(job[s][j])
    BY <1>8
  <2>2. InPage(j)' <=> InPage(j)
    BY <2>1 DEF InPage, Memory, InMemory
  <2> QED BY <1>6, <1>8, <2>1, <2>2 DEF Moved, Stage
<1>9. MemoryApart'
  <2>1. SUFFICES ASSUME NEW s \in Tabs, NEW j \in Captures, InMemory(job'[s][j])
                 PROVE  Unkept(j)' /\ \A r \in Tabs \ {s} : job'[r][j].st = "none"
    BY DEF MemoryApart
  <2>2. InMemory(job[s][j]) /\ fate'[j] = fate[j]
    <3>1. job'[t][j].st = "none" => ~InMemory(job'[t][j])
      BY DEF InMemory
    <3> QED BY <1>7, <1>8, <2>1, <3>1
  <2>3. Unkept(j) /\ \A r \in Tabs \ {s} : job[r][j].st = "none"
    BY <2>2 DEF MemoryApart
  <2> QED BY <1>6, <2>2, <2>3 DEF Unkept
<1>10. Unsent'
  <2>1. SUFFICES ASSUME NEW j \in Captures, Unkept(j)'
                 PROVE  /\ \A m \in wire' : m.key # j
                        /\ \A s \in Tabs : job'[s][j].st = "none" \/ InMemory(job'[s][j])
    BY DEF Unsent
  <2>2. Unkept(j) /\ fate'[j] # "dropped" /\ j \notin Kept
    BY <1>6, <2>1 DEF Unkept
  <2>3. job'[t][j].st = "none" \/ InMemory(job'[t][j])
    BY <2>2 DEF Unsent
  <2> QED BY <2>2, <2>3 DEF Unsent
<1> QED
  <2>1. ASSUME NEW j \in Captures PROVE Moved(j)
    <3>1. job'[t][j].st = "none" => ~InMemory(job'[t][j])
      BY DEF InMemory
    <3> QED BY <1>7, <1>8, <3>1
  <2> QED BY <1>1, <1>2, <1>3, <1>4, <1>5, <1>9, <1>10, <2>1 DEF Progress

LEMMA PageSteps ==
    ASSUME UploadsInv, NEW t \in Tabs,
           Load(t) \/ Close(t) \/ RecoverUploads(t) \/ NoticeSession(t) \/ SignOut(t) \/ SignedOut(t)
    PROVE  UploadsInv' /\ Progress
<1> USE DEF UploadsInv
<1>0. /\ tab \in [Tabs -> Page] /\ job \in [Tabs -> [Captures -> Work]] /\ NoJob \in Work /\ Closed \in Page
      /\ fate \in [Captures -> {"none", "taken", "dropped"}] /\ cookie \in Users \cup {NoUser}
      /\ store \in [Captures -> Record]
  BY Types, Constants
<1>1. NoJob.st = "none" /\ ~Closed.open /\ ~Closed.leaving
  BY DEF NoJob, Closed
<1>2. \A i \in Captures : job[t][i].st # "none" => tab[t].open /\ Mention(i, tab[t].user)
  BY DEF PagesKnown, Mention
<1>3. CASE Load(t)
  <2>1. [Closed EXCEPT !.open = TRUE, !.user = cookie] \in Page
        /\ ~[Closed EXCEPT !.open = TRUE, !.user = cookie].leaving
    BY <1>0, <1>1 DEF Page
  <2>2. /\ tab' \in [Tabs -> Page] /\ ~tab'[t].leaving /\ \A s \in Tabs : s # t => tab'[s] = tab[s]
        /\ UNCHANGED <<cookie, store, job, wire, saved, fate>>
    BY <1>0, <1>3, <2>1 DEF Load
  <2>3. \A i \in Captures : job[t][i].st = "none"
    BY <1>3 DEF Load, PagesKnown
  <2> QED BY <1>0, <2>2, <2>3, PageStepKeeps DEF InMemory
<1>4. CASE Close(t)
  <2>1. /\ tab' = [tab EXCEPT ![t] = Closed]
        /\ job' = [job EXCEPT ![t] = [i \in Captures |-> NoJob]]
        /\ UNCHANGED <<cookie, store, wire, saved>>
    BY <1>4 DEF Close
  <2>2. /\ tab' \in [Tabs -> Page] /\ job' \in [Tabs -> [Captures -> Work]]
        /\ ~tab'[t].leaving /\ \A i \in Captures : job'[t][i].st = "none"
        /\ \A s \in Tabs : s # t => tab'[s] = tab[s] /\ job'[s] = job[s]
    BY <1>0, <1>1, <2>1
  <2>3. /\ fate' \in [Captures -> {"none", "taken", "dropped"}]
        /\ \A i \in Captures : \/ fate'[i] = "dropped" /\ InMemory(job[t][i])
                               \/ fate'[i] = fate[i] /\ ~InMemory(job[t][i])
    BY <1>0, <1>4 DEF Close, Memory, InMemory
  <2> QED BY <1>0, <2>1, <2>2, <2>3, PageStepKeeps DEF InMemory
<1>5. CASE RecoverUploads(t)
  <2> DEFINE new == [i \in Captures |->
          IF job[t][i].st = "none" /\ store[i].status # "absent" /\ store[i].owner = tab[t].user
          THEN [NoJob EXCEPT !.st = "failed", !.seen = store[i].gen] ELSE job[t][i]]
  <2>1. /\ tab' = [tab EXCEPT ![t].listed = TRUE] /\ tab[t].open
        /\ job' = [job EXCEPT ![t] = new] /\ UNCHANGED <<cookie, store, wire, saved, fate>>
    BY <1>5 DEF RecoverUploads
  <2>2. \A i \in Captures : LET x == [NoJob EXCEPT !.st = "failed", !.seen = store[i].gen]
                           IN  x \in Work /\ x.st = "failed"
    BY <1>0 DEF Work, Record, States
  <2>3. /\ new \in [Captures -> Work]
        /\ \A i \in Captures :
             \/ new[i] = job[t][i]
             \/ new[i].st = "failed" /\ job[t][i].st = "none" /\ i \in Kept /\ store[i].owner = tab[t].user
    BY <1>0, <2>2 DEF Kept
  <2> HIDE DEF new
  <2>4. /\ tab' \in [Tabs -> Page] /\ job' \in [Tabs -> [Captures -> Work]] /\ job'[t] = new
        /\ \A s \in Tabs : s # t => tab'[s] = tab[s] /\ job'[s] = job[s]
        /\ tab'[t].user = tab[t].user /\ tab'[t].open /\ tab'[t].ended = tab[t].ended
        /\ tab'[t].leaving = tab[t].leaving
    BY <1>0, <2>1, <2>3 DEF Page
  <2>5. tab[t].leaving => tab[t].ended /\ \A i \in Captures \cap Files : ~InMemory(job[t][i])
    BY DEF PagesKnown, Memory, InMemory
  <2>6. \A i \in Captures : InMemory(new[i]) <=> InMemory(job[t][i])
    BY <2>3 DEF InMemory
  <2>7. \A i \in Captures : job'[t][i].st # "none" => Mention(i, tab'[t].user)
    BY <1>2, <2>3, <2>4 DEF Mention
  <2>8. \A i \in Captures : job'[t][i].st = "confirmed" => job[t][i].st = "confirmed"
    BY <2>3, <2>4
  <2>9. \A i \in Captures : job'[t][i].st # "none" => job[t][i].st # "none" \/ i \in Kept
    BY <2>3, <2>4
  <2> QED BY <1>0, <2>1, <2>4, <2>5, <2>6, <2>7, <2>8, <2>9, PageStepKeeps
<1>6. CASE NoticeSession(t) \/ SignOut(t)
  <2>1. /\ job' = [job EXCEPT ![t] = Aborted(job[t])]
        /\ UNCHANGED <<cookie, store, wire, saved, fate>> /\ tab[t].open /\ ~tab[t].ended
        /\ \/ tab' = [tab EXCEPT ![t].ended = TRUE]
           \/ tab' = [tab EXCEPT ![t].ended = TRUE, ![t].leaving = TRUE] /\ Memory(t) \cap Files = {}
    BY <1>6 DEF NoticeSession, SignOut
  <2>2. /\ Aborted(job[t]) \in [Captures -> Work]
        /\ \A i \in Captures : \/ Aborted(job[t])[i] = job[t][i]
                               \/ job[t][i].st = "sending" /\ Aborted(job[t])[i].st = "failing"
    <3>1. \A i \in Captures : [job[t][i] EXCEPT !.st = "failing"] \in Work
                           /\ [job[t][i] EXCEPT !.st = "failing"].st = "failing"
      BY <1>0 DEF Work, States
    <3> QED BY <1>0, <3>1 DEF Aborted
  <2>3. ~tab[t].leaving
    BY <2>1 DEF PagesKnown
  <2>4. /\ job' \in [Tabs -> [Captures -> Work]] /\ job'[t] = Aborted(job[t])
        /\ \A s \in Tabs : s # t => tab'[s] = tab[s] /\ job'[s] = job[s]
    BY <1>0, <2>1, <2>2
  <2>6. /\ tab' \in [Tabs -> Page] /\ tab'[t].user = tab[t].user /\ tab'[t].open /\ tab'[t].ended
        /\ tab'[t].leaving => Memory(t) \cap Files = {}
    <3>1. CASE tab' = [tab EXCEPT ![t].ended = TRUE]
      BY <1>0, <2>1, <2>3, <3>1 DEF Page
    <3>2. CASE tab' = [tab EXCEPT ![t].ended = TRUE, ![t].leaving = TRUE] /\ Memory(t) \cap Files = {}
      BY <1>0, <2>1, <3>2 DEF Page
    <3> QED BY <2>1, <3>1, <3>2
  <2>7. tab'[t].leaving => \A i \in Captures \cap Files : ~InMemory(job[t][i])
    BY <2>6 DEF Memory, InMemory
  <2>5. \A i \in Captures : /\ InMemory(job'[t][i]) <=> InMemory(job[t][i])
                            /\ job'[t][i].st = "confirmed" => job[t][i].st = "confirmed"
                            /\ job'[t][i].st # "none" => job[t][i].st # "none"
    BY <2>2, <2>4 DEF InMemory
  <2> QED BY <1>0, <1>2, <2>1, <2>4, <2>5, <2>6, <2>7, PageStepKeeps
<1>7. CASE SignedOut(t)
  <2>1. /\ tab[t].leaving /\ tab[t].ended /\ tab[t].open
        /\ \A i \in Captures \cap Files : ~InMemory(job[t][i])
    BY <1>7 DEF SignedOut, PagesKnown, Memory, InMemory
  <2>2. CASE /\ cookie' = NoUser /\ tab' = [tab EXCEPT ![t] = Closed]
             /\ job' = [job EXCEPT ![t] = [i \in Captures |-> NoJob]]
             /\ UNCHANGED <<store, wire, saved, fate>>
    <3>1. /\ tab' \in [Tabs -> Page] /\ job' \in [Tabs -> [Captures -> Work]]
          /\ ~tab'[t].leaving /\ \A i \in Captures : job'[t][i].st = "none"
          /\ \A s \in Tabs : s # t => tab'[s] = tab[s] /\ job'[s] = job[s]
      BY <1>0, <1>1, <2>2
    <3> QED BY <1>0, <2>1, <2>2, <3>1, PageStepKeeps DEF InMemory
  <2>3. ASSUME NEW locked \in BOOLEAN,
               tab' = [tab EXCEPT ![t].ended = locked, ![t].leaving = FALSE],
               UNCHANGED <<cookie, job, store, wire, saved, fate>>
        PROVE UploadsInv' /\ Progress
    <3>1. /\ tab' \in [Tabs -> Page] /\ ~tab'[t].leaving /\ tab'[t].open = tab[t].open
          /\ tab'[t].user = tab[t].user /\ \A s \in Tabs : s # t => tab'[s] = tab[s]
      BY <1>0, <2>3 DEF Page
    <3> QED BY <1>0, <1>2, <2>1, <2>3, <3>1, PageStepKeeps
  <2> QED BY <1>7, <2>2, <2>3 DEF SignedOut
<1> QED BY <1>3, <1>4, <1>5, <1>6, <1>7

(* A page takes a capture nobody has mentioned yet.                         *)
LEMMA EnqueueKeeps ==
    ASSUME UploadsInv, NEW t \in Tabs, NEW i \in Captures, EnqueueUpload(t, i)
    PROVE  UploadsInv' /\ Progress
<1> USE DEF UploadsInv
<1> DEFINE x == [job[t][i] EXCEPT !.st = "persisting"]
<1>0. /\ store \in [Captures -> Record] /\ tab \in [Tabs -> Page] /\ job[t][i] \in Work
      /\ fate \in [Captures -> {"none", "taken", "dropped"}]
      /\ tab[t].user \in Users \cup {NoUser}
  BY Types DEF Page
<1>1. /\ tab[t].open /\ ~tab[t].ended /\ fate[i] = "none" /\ fate' = [fate EXCEPT ![i] = "taken"]
      /\ Job(t, i, x) /\ UNCHANGED <<cookie, store, tab, wire, saved>>
  BY DEF EnqueueUpload, Moves
<1>2. x \in Work /\ x.st = "persisting"
  BY <1>0 DEF Work, States
<1> HIDE DEF x
<1>3. /\ job' \in [Tabs -> [Captures -> Work]] /\ job'[t][i] = x
      /\ \A s \in Tabs, j \in Captures : s # t \/ j # i => job'[s][j] = job[s][j]
  BY <1>1, <1>2, JobFacts
<1>4. \A u \in Users \cup {NoUser} : ~Mention(i, u)
  BY <1>1 DEF OneAccount
<1>5. TypeOK'
  BY <1>0, <1>1, <1>3, Types DEF TypeOK, Record, Page, Work, States
<1>6. OneAccount'
  <2>1. ASSUME NEW j \in Captures, NEW u \in Users \cup {NoUser}, Mention(j, u)'
        PROVE  Mention(j, u) \/ (j = i /\ u = tab[t].user)
    BY <1>1, <1>3, <2>1 DEF Mention, Kept
  <2>2. fate'[i] = "taken" /\ \A j \in Captures : j # i => fate'[j] = fate[j]
    BY <1>0, <1>1
  <2> QED BY <1>4, <2>1, <2>2 DEF OneAccount
<1>7. Grounded'
  BY <1>1, <1>2, <1>3 DEF Grounded
<1>8. PagesKnown'
  <2>1. ~tab[t].leaving
    BY <1>1 DEF PagesKnown
  <2> QED BY <1>1, <1>3, <2>1 DEF PagesKnown, Memory
<1>9. FilesStayUntilSaved'
  <2>1. SUFFICES ASSUME NEW j \in Files, j \in Captures, fate'[j] = "taken"
                 PROVE  j \in Kept \/ saved[j] # {}
                        \/ \E s \in Tabs : tab[s].open /\ InMemory(job'[s][j])
    BY <1>1, WebUploadsAssumption DEF FilesStayUntilSaved, Held, Memory, InMemory, Kept
  <2>2. CASE j = i
    BY <1>1, <1>2, <1>3, <2>2 DEF InMemory
  <2>3. CASE j # i
    <3>1. fate[j] = "taken"
      BY <1>0, <1>1, <2>1, <2>3
    <3>2. j \in Kept \/ saved[j] # {} \/ \E s \in Tabs : tab[s].open /\ InMemory(job[s][j])
      BY <3>1 DEF FilesStayUntilSaved, Held, Memory, InMemory
    <3> QED BY <1>3, <2>1, <2>3, <3>2
  <2> QED BY <2>2, <2>3
<1>10. /\ i \notin Kept /\ Kept' = Kept /\ saved[i] = {}
       /\ \A s \in Tabs : job[s][i].st = "none"
       /\ \A m \in wire : m.key # i
  <2>1. \A s \in Tabs : tab[s].user \in Users \cup {NoUser}
    BY <1>0 DEF Page
  <2>2. store[i].owner \in Users \cup {NoUser}
    BY <1>0 DEF Record
  <2>3. saved[i] \subseteq Users /\ \A m \in wire : m.account \in Users \cup {NoUser}
    BY Types DEF Message
  <2> QED BY <1>1, <1>4, <2>1, <2>2, <2>3 DEF Mention, Kept
<1>11. MemoryApart'
  <2>1. SUFFICES ASSUME NEW s \in Tabs, NEW j \in Captures, InMemory(job'[s][j])
                 PROVE  Unkept(j)' /\ \A r \in Tabs \ {s} : job'[r][j].st = "none"
    BY DEF MemoryApart
  <2>2. CASE j = i
    <3>1. s = t
      BY <1>3, <1>10, <2>1, <2>2 DEF InMemory
    <3> QED BY <1>0, <1>1, <1>3, <1>10, <2>2, <3>1 DEF Unkept
  <2>3. CASE j # i
    <3>1. InMemory(job[s][j]) /\ fate'[j] = fate[j] /\ \A r \in Tabs : job'[r][j] = job[r][j]
      BY <1>0, <1>1, <1>3, <2>1, <2>3
    <3>2. Unkept(j) /\ \A r \in Tabs \ {s} : job[r][j].st = "none"
      BY <3>1 DEF MemoryApart
    <3> QED BY <1>1, <1>10, <3>1, <3>2 DEF Unkept
  <2> QED BY <2>2, <2>3
<1>12. Unsent'
  <2>1. SUFFICES ASSUME NEW j \in Captures, Unkept(j)'
                 PROVE  /\ \A m \in wire : m.key # j
                        /\ \A s \in Tabs : job'[s][j].st = "none" \/ InMemory(job'[s][j])
    BY <1>1 DEF Unsent
  <2>2. CASE j = i
    BY <1>2, <1>3, <1>10, <2>2 DEF InMemory
  <2>3. CASE j # i
    <3>1. Unkept(j)
      BY <1>0, <1>1, <1>10, <2>1, <2>3 DEF Unkept
    <3> QED BY <1>3, <2>3, <3>1 DEF Unsent
  <2> QED BY <2>2, <2>3
<1>13. ASSUME NEW j \in Captures, j # i PROVE Moved(j)
  <2>1. fate'[j] = fate[j] /\ (InPage(j)' <=> InPage(j))
    BY <1>0, <1>1, <1>3, <1>13 DEF InPage, Memory
  <2> QED BY <1>1, <1>10, <2>1 DEF Moved, Stage
<1>14. Moved(i)
  <2>1. ~InPage(i) /\ InPage(i)'
    BY <1>2, <1>3, <1>10 DEF InPage, Memory
  <2>2. store[i].status = "absent" /\ store'[i] = store[i]
    BY <1>1, <1>10 DEF Kept
  <2>3. fate'[i] = "taken" /\ i \notin Kept' /\ saved'[i] = {}
    BY <1>0, <1>1, <1>10
  <2>4. Stage(i) = "none" /\ Stage(i)' = IF i \in Files THEN "kept" ELSE "none"
    BY <1>1, <2>1, <2>2, <2>3 DEF Stage
  <2> QED BY <2>4 DEF Moved
<1> QED BY <1>1, <1>5, <1>6, <1>7, <1>8, <1>9, <1>11, <1>12, <1>13, <1>14 DEF Progress

(* The server saves under the account of the session, which the request     *)
(* names, or refuses.                                                       *)
LEMMA ServeKeeps ==
    ASSUME UploadsInv, NEW m \in wire, Serve(m)
    PROVE  UploadsInv' /\ Progress
<1> USE DEF UploadsInv
<1>0. /\ m \in Message /\ m.key \in Captures /\ saved \in [Captures -> SUBSET Users]
      /\ wire \subseteq Message
  BY Types DEF Message
<1>1. UNCHANGED <<cookie, store, tab, job, fate>>
  BY DEF Serve
<1>2. PICK answer \in {"saved", "account-changed"} :
        /\ Answered(m, answer)
        /\ \/ /\ answer = "saved" /\ m.session = m.account /\ m.session # NoUser
              /\ saved' = [saved EXCEPT ![m.key] = @ \cup {m.session}]
           \/ answer = "account-changed" /\ saved' = saved
  BY DEF Serve, SameAccount
<1>3. /\ saved' \in [Captures -> SUBSET Users]
      /\ \A j \in Captures : saved[j] \subseteq saved'[j]
      /\ answer = "saved" => saved'[m.key] # {}
      /\ \A j \in Captures : \A u \in saved'[j] : u \in saved[j] \/ (j = m.key /\ u = m.account)
  <2>1. CASE answer = "account-changed"
    BY <1>0, <1>2, <2>1
  <2>2. CASE answer = "saved"
    <3>1. m.session \in Users
      BY <1>0, <1>2, <2>2 DEF Message
    <3> QED BY <1>0, <1>2, <2>2, <3>1
  <2> QED BY <2>1, <2>2
<1>4. \A n \in wire' : \/ n \in wire
                       \/ /\ n \in Message /\ n.key = m.key /\ n.account = m.account
                          /\ n.answer = answer
  <2> DEFINE a == [m EXCEPT !.answer = answer]
  <2>1. a \in Message /\ a.key = m.key /\ a.account = m.account /\ a.answer = answer
    BY <1>0 DEF Message
  <2>2. \A n \in wire' : n \in wire \/ n = a
    BY <1>2 DEF Answered
  <2> HIDE DEF a
  <2> QED BY <2>1, <2>2
<1>5. TypeOK'
  BY <1>1, <1>3, Types DEF TypeOK, Record, Page, Work, States
<1>6. OneAccount'
  <2>1. ASSUME NEW j \in Captures, NEW u \in Users \cup {NoUser}, Mention(j, u)' PROVE Mention(j, u)
    <3>1. CASE u \in saved'[j]
      BY <1>3, <3>1 DEF Mention
    <3>2. CASE \E n \in wire' : n.key = j /\ n.account = u
      BY <1>4, <3>2 DEF Mention
    <3>3. CASE ~(u \in saved'[j]) /\ ~\E n \in wire' : n.key = j /\ n.account = u
      BY <1>1, <2>1, <3>3 DEF Mention, Kept
    <3> QED BY <3>1, <3>2, <3>3
  <2> QED BY <1>1, <2>1 DEF OneAccount
<1>7. Grounded'
  <2>1. \A j \in Captures : saved[j] # {} => saved'[j] # {}
    BY <1>3
  <2>2. \A n \in wire' : n.answer = "saved" => saved'[n.key] # {}
    <3>1. SUFFICES ASSUME NEW n \in wire', n.answer = "saved" PROVE saved'[n.key] # {}
      OBVIOUS
    <3>2. CASE n \in wire
      <4>1. n.key \in Captures /\ saved[n.key] # {}
        BY <1>0, <3>1, <3>2 DEF Grounded, Message
      <4> QED BY <2>1, <4>1
    <3>3. CASE n.key = m.key /\ n.answer = answer
      BY <1>3, <3>1, <3>3
    <3> QED BY <1>4, <3>2, <3>3
  <2> QED BY <1>1, <2>1, <2>2 DEF Grounded
<1>8. PagesKnown'
  BY <1>1 DEF PagesKnown, Memory
<1>9. FilesStayUntilSaved'
  <2>1. SUFFICES ASSUME NEW j \in Files, j \in Captures, fate[j] = "taken"
                 PROVE  j \in Kept \/ saved'[j] # {} \/ \E s \in Tabs : tab[s].open /\ j \in Memory(s)
    BY <1>1, WebUploadsAssumption DEF FilesStayUntilSaved, Held, Memory, Kept
  <2> QED BY <1>3, <2>1 DEF FilesStayUntilSaved, Held
<1>10. ASSUME NEW j \in Captures, Unkept(j) \/ Unkept(j)'
       PROVE  Unkept(j) /\ Unkept(j)' /\ j # m.key /\ saved'[j] = saved[j]
  <2>1. Unkept(j)
    BY <1>1, <1>3, <1>10 DEF Unkept, Kept
  <2>2. j # m.key
    BY <2>1 DEF Unsent
  <2>3. saved'[j] = saved[j]
    BY <1>0, <1>2, <2>2
  <2> QED BY <1>1, <2>1, <2>2, <2>3 DEF Unkept, Kept
<1>11. MemoryApart' /\ Unsent'
  BY <1>1, <1>4, <1>10 DEF MemoryApart, Unsent
<1>12. ASSUME NEW j \in Captures PROVE Moved(j)
  <2>1. Kept' = Kept /\ (InPage(j)' <=> InPage(j))
    BY <1>1 DEF Kept, InPage, Memory
  <2>2. j \in Kept \/ saved[j] # {} \/ fate[j] \in {"none", "dropped"} \/ Unkept(j)
    BY Types DEF Unkept
  <2> QED BY <1>1, <1>3, <1>10, <2>1, <2>2 DEF Moved, Stage
<1> QED BY <1>0, <1>4, <1>5, <1>6, <1>7, <1>8, <1>9, <1>11, <1>12 DEF Progress

(* A lease that lapses, or another session in the browser, moves nothing.   *)
LEMMA AroundKeeps ==
    ASSUME UploadsInv, (\E u \in Users : SignIn(u)) \/ (\E i \in Captures : Lapse(i))
    PROVE  UploadsInv' /\ Progress
<1> USE DEF UploadsInv
<1>0. store \in [Captures -> Record] /\ cookie \in Users \cup {NoUser}
  BY Types
<1>1. /\ UNCHANGED <<tab, job, wire, saved, fate>> /\ cookie' \in Users \cup {NoUser}
      /\ store' \in [Captures -> Record]
      /\ \A j \in Captures : /\ store'[j].status = store[j].status /\ store'[j].owner = store[j].owner
                             /\ store'[j].live => store[j].live
  <2>1. CASE \E u \in Users : SignIn(u)
    BY <1>0, <2>1 DEF SignIn
  <2>2. ASSUME NEW i \in Captures, Lapse(i)
        PROVE  /\ UNCHANGED <<tab, job, wire, saved, fate>> /\ cookie' \in Users \cup {NoUser}
               /\ store' \in [Captures -> Record]
               /\ \A j \in Captures : /\ store'[j].status = store[j].status
                                      /\ store'[j].owner = store[j].owner
                                      /\ store'[j].live => store[j].live
    <3> DEFINE r == [store[i] EXCEPT !.live = FALSE]
    <3>1. r \in Record /\ r.status = store[i].status /\ r.owner = store[i].owner /\ ~r.live
      BY <1>0 DEF Record
    <3>2. store' = [store EXCEPT ![i] = r] /\ UNCHANGED <<cookie, tab, job, wire, saved, fate>>
      BY <1>0, <2>2 DEF Lapse
    <3> HIDE DEF r
    <3> QED BY <1>0, <3>1, <3>2
  <2> QED BY <2>1, <2>2
<1>2. TypeOK'
  BY <1>1, Types DEF TypeOK, Record, Page, Work, States
<1>3. OneAccount'
  <2>1. \A j \in Captures, u \in Users \cup {NoUser} : Mention(j, u)' => Mention(j, u)
    BY <1>1 DEF Mention, Kept
  <2>2. fate' = fate
    BY <1>1
  <2> QED BY <2>1, <2>2 DEF OneAccount
<1>4. Grounded' /\ PagesKnown' /\ FilesStayUntilSaved'
  BY <1>1, WebUploadsAssumption DEF Grounded, PagesKnown, FilesStayUntilSaved, Held, Memory, Kept
<1>5. MemoryApart' /\ Unsent'
  BY <1>1 DEF MemoryApart, Unsent, Unkept, Kept
<1>6. ASSUME NEW j \in Captures PROVE Moved(j)
  <2>1. Kept' = Kept /\ (InPage(j)' <=> InPage(j))
    BY <1>1 DEF Kept, InPage, Memory
  <2>2. CASE store'[j].live = store[j].live
    BY <1>1, <2>1, <2>2 DEF Moved, Stage
  <2>3. CASE store[j].live /\ ~store'[j].live
    <3>1. store[j].status = "uploading" /\ j \in Kept /\ fate[j] # "none"
      BY <1>0, <2>3 DEF Grounded, Kept, OneAccount, Mention, Record
    <3>2. Stage(j) = "sending" /\ Stage(j)' = "kept"
      BY <1>1, <2>1, <2>3, <3>1 DEF Stage
    <3> QED BY <3>2 DEF Moved
  <2>4. store[j].live \in BOOLEAN /\ store'[j].live \in BOOLEAN
    BY <1>0, <1>1 DEF Record
  <2> QED BY <1>1, <2>2, <2>3, <2>4
<1> QED BY <1>1, <1>2, <1>3, <1>4, <1>5, <1>6 DEF Progress
-----------------------------------------------------------------------------
LEMMA InitUploads == Init => UploadsInv
<1> SUFFICES ASSUME Init PROVE UploadsInv
  OBVIOUS
<1> USE DEF Init
<1>1. TypeOK
  BY Types, Constants, Zenon
<1>2. OneAccount
  BY DEF OneAccount, Mention, Kept, NoRecord, NoJob
<1>3. Grounded /\ PagesKnown /\ FilesStayUntilSaved /\ MemoryApart /\ Unsent
  BY WebUploadsAssumption DEF Grounded, PagesKnown, FilesStayUntilSaved, Held, MemoryApart, Unsent,
     Unkept, InMemory, Memory, NoRecord, NoJob, Closed
<1> QED BY <1>1, <1>2, <1>3 DEF UploadsInv

LEMMA NextKeeps == UploadsInv /\ [Next]_vars => UploadsInv' /\ Progress
<1> SUFFICES ASSUME UploadsInv, [Next]_vars PROVE UploadsInv' /\ Progress
  OBVIOUS
<1>1. CASE UNCHANGED vars
  <2> USE <1>1 DEF vars, UploadsInv
  <2>1. TypeOK'
    BY DEF TypeOK
  <2>2. OneAccount'
    <3>1. \A j \in Captures, u \in Users \cup {NoUser} : Mention(j, u)' => Mention(j, u)
      BY DEF Mention, Kept
    <3>2. fate' = fate
      OBVIOUS
    <3> QED BY <3>1, <3>2 DEF OneAccount
  <2>3. Grounded' /\ PagesKnown'
    BY DEF Grounded, PagesKnown, Memory
  <2>4. FilesStayUntilSaved'
    BY DEF FilesStayUntilSaved, Held, Kept, Memory
  <2>5. (wire \subseteq Message)'
    OBVIOUS
  <2>6. MemoryApart' /\ Unsent'
    BY DEF MemoryApart, Unsent, Unkept, Kept
  <2>7. Progress
    BY DEF Progress, Moved, Stage, InPage, Memory, Kept
  <2> QED BY <2>1, <2>2, <2>3, <2>4, <2>5, <2>6, <2>7
<1>2. ASSUME NEW t \in Tabs, TabStep(t) PROVE UploadsInv' /\ Progress
  BY <1>2, PageSteps, CaptureSteps, EnqueueKeeps DEF TabStep
<1>3. CASE \E m \in wire : Serve(m) \/ Receive(m)
  BY <1>3, ServeKeeps, ReceiveKeeps
<1> QED BY <1>1, <1>2, <1>3, AroundKeeps DEF Next

(* The inductive invariant: whatever mentions a capture is of one account,  *)
(* and a record, a page's memory or a library holds it until then.          *)
THEOREM UploadsInvariant == Spec => []UploadsInv
  BY InitUploads, NextKeeps, PTL DEF Spec

(* The variables keep their types.                                          *)
THEOREM TypeCorrect == Spec => []TypeOK
<1>1. UploadsInv => TypeOK
  BY DEF UploadsInv
<1> QED BY <1>1, UploadsInvariant, PTL

(* No file a page has taken is lost: sign-out, other tabs, late results and *)
(* lapsed leases leave it in the store, in a page or in a library           *)
(* (upload-store.js, app.js).  Of links this is not true.                   *)
THEOREM FilesAreKept == Spec => []FilesStayUntilSaved
<1>1. UploadsInv => FilesStayUntilSaved
  BY DEF UploadsInv
<1> QED BY <1>1, UploadsInvariant, PTL

(* Every capture is saved to the account whose page took it, whatever       *)
(* session the browser holds when its request is sent (app.js request).     *)
THEOREM OneAccountPerCapture == Spec => []LandsInOneAccount
<1>1. ASSUME UploadsInv PROVE LandsInOneAccount
  <2> USE <1>1 DEF UploadsInv
  <2>1. /\ store \in [Captures -> Record] /\ saved \in [Captures -> SUBSET Users]
        /\ wire \subseteq Message
    BY Types
  <2>2. SUFFICES ASSUME NEW i \in Captures
                 PROVE  /\ Cardinality(saved[i]) <= 1
                        /\ i \in Kept => saved[i] \subseteq {store[i].owner}
                        /\ \A m \in wire : m.key = i /\ i \in Kept => m.account = store[i].owner
    BY DEF LandsInOneAccount
  <2>3. \A u, v \in Users \cup {NoUser} : Mention(i, u) /\ Mention(i, v) => u = v
    BY DEF OneAccount
  <2>4. Cardinality(saved[i]) <= 1
    <3>1. CASE saved[i] = {}
      BY <3>1, FS_EmptySet
    <3>2. CASE saved[i] # {}
      <4>1. PICK u \in saved[i] : TRUE
        BY <3>2
      <4>2. \A v \in saved[i] : v = u
        BY <2>1, <2>3, <4>1 DEF Mention
      <4>3. saved[i] = {u}
        BY <4>1, <4>2
      <4>4. Cardinality(saved[i]) = 1
        BY <4>3, FS_Singleton
      <4> QED BY <4>4
    <3> QED BY <3>1, <3>2
  <2>5. i \in Kept => saved[i] \subseteq {store[i].owner}
    BY <2>1, <2>3 DEF Mention, Record
  <2>6. \A m \in wire : m.key = i /\ i \in Kept => m.account = store[i].owner
    BY <2>1, <2>3 DEF Mention, Record, Message
  <2> QED BY <2>4, <2>5, <2>6
<1> QED BY <1>1, UploadsInvariant, PTL

(* A live claim is the business of the attempt that holds it alone          *)
(* (upload-store.js claim, finish, remove and ownsClaim).                   *)
THEOREM ClaimsAreFenced == Spec => LiveClaimIsFenced
<1>1. ASSUME UploadsInv, [Next]_vars
      PROVE  [\A i \in Captures :
                 store[i].live /\ store'[i] # store[i] =>
                    \/ store'[i] = [store[i] EXCEPT !.live = FALSE]
                    \/ \E t \in Tabs : job[t][i].claim = store[i].gen /\ job'[t][i].claim = 0]_vars
  <2> USE <1>1 DEF UploadsInv
  <2>0. /\ store \in [Captures -> Record] /\ job \in [Tabs -> [Captures -> Work]]
        /\ \A i \in Captures : store[i].live => store[i].status = "uploading" /\ i \in Kept
    BY Types DEF Grounded, Kept
  <2>1. SUFFICES ASSUME NEW i \in Captures, store[i].live, store'[i] # store[i]
                 PROVE  \/ store'[i] = [store[i] EXCEPT !.live = FALSE]
                        \/ \E t \in Tabs : job[t][i].claim = store[i].gen /\ job'[t][i].claim = 0
    OBVIOUS
  <2>2. store[i].status = "uploading" /\ i \in Kept
    BY <2>0, <2>1
  <2>3. ASSUME NEW t \in Tabs, NEW j \in Captures, PersistUpload(t, j) PROVE FALSE
    <3>1. store' = store \/ (j \notin Kept /\ \E r : store' = [store EXCEPT ![j] = r])
      BY <2>3, Zenon DEF PersistUpload
    <3> QED BY <2>0, <2>1, <2>2, <3>1
  <2>4. ASSUME NEW t \in Tabs, NEW j \in Captures, Remove(t, j) PROVE FALSE
    <3>1. store' = store \/ (Removable(t, j) /\ store' = [store EXCEPT ![j] = NoRecord])
      BY <2>4, Zenon DEF Remove
    <3> QED BY <2>0, <2>1, <2>2, <3>1 DEF Removable
  <2>5. ASSUME NEW t \in Tabs, NEW j \in Captures, Claim(t, j) PROVE FALSE
    <3>1. j # i => store'[i] = store[i]
      BY <2>0, <2>5 DEF Claim
    <3>2. j = i => store' = store
      BY <2>1, <2>2, <2>5 DEF Claim, Claimable
    <3> QED BY <2>1, <3>1, <3>2
  <2>6. ASSUME NEW t \in Tabs, NEW j \in Captures, Finish(t, j)
        PROVE  job[t][i].claim = store[i].gen /\ job'[t][i].claim = 0
    <3>1. j = i /\ OwnsClaim(t, i)
      BY <2>0, <2>1, <2>6 DEF Finish
    <3> DEFINE st == IF job[t][j].st = "confirmed" THEN "done" ELSE "failed"
               x == [job[t][j] EXCEPT !.claim = 0, !.st = st]
    <3>2. Job(t, j, x)
      BY <2>6, Zenon DEF Finish
    <3> HIDE DEF st
    <3>3. x.claim = 0
      BY <2>0 DEF Work
    <3> HIDE DEF x
    <3>4. job'[t][i] = x
      BY <2>0, <3>1, <3>2 DEF Job
    <3> QED BY <3>1, <3>3, <3>4 DEF OwnsClaim
  <2>7. ASSUME NEW j \in Captures, Lapse(j) PROVE store'[i] = [store[i] EXCEPT !.live = FALSE]
    BY <2>0, <2>1, <2>7 DEF Lapse
  <2>8. store' # store
    BY <2>1
  <2>9. CASE \E t \in Tabs : TabStep(t)
    BY <2>3, <2>4, <2>5, <2>6, <2>8, <2>9
       DEF TabStep, Load, Close, RecoverUploads, NoticeSession, SignOut, SignedOut,
           EnqueueUpload, Retry, StartUpload, Post, AbortUpload
  <2> QED BY <1>1, <2>7, <2>8, <2>9 DEF Next, vars, SignIn, Serve, Receive
<1> QED BY <1>1, UploadsInvariant, PTL DEF Spec, LiveClaimIsFenced

(* The server's answers put a capture into one library, that of its page.   *)
LEMMA LandsOnce ==
    ASSUME UploadsInv, [Next]_vars, NEW i \in Captures
    PROVE  Outbox!Land(i) \/ saved'[i] = saved[i]
<1> USE DEF UploadsInv
<1>1. saved \in [Captures -> SUBSET Users] /\ wire \subseteq Message
  BY Types
<1>2. ASSUME NEW m \in wire, Serve(m), saved'[i] # saved[i] PROVE Outbox!Land(i)
  <2>1. m.key = i /\ m.session = m.account /\ m.session # NoUser /\ saved'[i] = saved[i] \cup {m.account}
    BY <1>1, <1>2 DEF Serve, SameAccount
  <2>2. m.account \in Users
    BY <1>1, <2>1 DEF Message
  <2>3. saved[i] \subseteq {m.account}
    BY <1>1, <2>1, <2>2 DEF OneAccount, Mention
  <2>4. fate[i] # "none"
    BY <2>1, <2>2 DEF OneAccount, Mention
  <2>5. ~Unkept(i)
    BY <1>2, <2>1 DEF Unsent
  <2>6. Stage(i) # "none"
    BY <2>4, <2>5, Types DEF Stage, Unkept
  <2> QED BY <2>1, <2>2, <2>3, <2>6 DEF Outbox!Land
<1>3. saved' = saved \/ \E m \in wire : Serve(m)
  <2>1. ASSUME NEW t \in Tabs, TabStep(t) PROVE saved' = saved
    BY <2>1 DEF TabStep, Load, Close, RecoverUploads, NoticeSession, SignOut, SignedOut, EnqueueUpload,
                PersistUpload, Retry, Remove, StartUpload, Claim, Post, AbortUpload, Finish
  <2>2. CASE UNCHANGED vars
    BY <2>2 DEF vars
  <2> QED BY <2>1, <2>2 DEF Next, SignIn, Receive, Lapse
<1> QED BY <1>2, <1>3

(* No stage of an outbox is unknown: no file is lost.                       *)
Known == \A i \in Captures : Stage(i) \in Outbox!Stages

LEMMA StagesKnown == UploadsInv => Known
<1> SUFFICES ASSUME UploadsInv, NEW i \in Captures PROVE Stage(i) \in Outbox!Stages
  BY DEF Known
<1>1. fate[i] \in {"none", "taken", "dropped"}
  BY Types DEF UploadsInv
<1>2. i \in Files /\ fate[i] = "taken" => i \in Kept \/ saved[i] # {} \/ InPage(i)
  BY DEF UploadsInv, FilesStayUntilSaved, Held, InPage
<1> QED BY <1>1, <1>2 DEF Stage, Outbox!Stages

LEMMA OutboxInitially == Init => Outbox!Init
<1> SUFFICES ASSUME Init, NEW i \in Captures PROVE Stage(i) = "none"
  BY DEF Init, Outbox!Init
<1> QED BY DEF Init, Stage, InPage, Memory, Kept, NoRecord, NoJob

LEMMA OutboxStep ==
    ASSUME UploadsInv, UploadsInv', Known', Progress, [Next]_vars
    PROVE  Outbox!Next
<1>1. saved' \in [Captures -> SUBSET Users]
  BY DEF UploadsInv, TypeOK
<1>2. \A i \in Captures : Stage(i)' \in Outbox!Stages
  BY DEF Known
<1>3. ASSUME NEW i \in Captures
      PROVE  \/ Outbox!Take(i) \/ Outbox!Send(i) \/ Outbox!PutBack(i) \/ Outbox!Settle(i)
             \/ Outbox!GiveUp(i) \/ Outbox!Decline(i) \/ Outbox!Rest(i)
  <2>1. Moved(i)
    BY DEF Progress
  <2> QED BY <2>1 DEF Moved, Outbox!Take, Outbox!Send, Outbox!PutBack, Outbox!Settle, Outbox!GiveUp,
                      Outbox!Decline, Outbox!Rest, Outbox!Moves
<1> QED BY <1>1, <1>2, <1>3, LandsOnce DEF Outbox!Next

(* The pending saves of the web pages implement an outbox, files from the   *)
(* moment a page takes them and links from the moment the store has them: a *)
(* capture under a live claim leaves the store only when a library has it,  *)
(* what a user removed or a library has never returns, and a link that is   *)
(* lost before it is stored never arrives (upload-store.js, app.js).        *)
THEOREM UploadsImplementOutbox == Spec => ImplementsOutbox
<1>1. UploadsInv /\ UploadsInv' /\ Known' /\ [Next]_vars => [Outbox!Next]_(Outbox!outboxVars)
  BY NextKeeps, OutboxStep
<1> QED BY <1>1, UploadsInvariant, StagesKnown, OutboxInitially, PTL DEF Spec, ImplementsOutbox, Outbox!Spec
=============================================================================
