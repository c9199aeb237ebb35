----------------------------- MODULE WebUploads ------------------------------
(***************************************************************************)
(* Saving files and links from the web pages: the queue every tab of one   *)
(* browser shares in IndexedDB (web/static/upload-store.js) and the tabs   *)
(* that keep, claim, send and finish captures (web/static/app.js), while   *)
(* accounts sign in and out in the same browser.  Every transaction of the *)
(* store is one step; between two of them other tabs run, a tab may be     *)
(* closed, a request may be aborted and still be served.                   *)
(*                                                                         *)
(* A capture is a file or a link, with its idempotency key: both go the    *)
(* same way, but only files are looked for before a page signs out, and    *)
(* only their bytes are read under the claim.                              *)
(*                                                                         *)
(* Abstracted: retry counts and ages, which only choose between the        *)
(* messages of a failed and a terminal record, are left out; a lease       *)
(* lapses at any moment, as in a tab that was suspended.  The server is    *)
(* external: it saves under the account of the session, or refuses (see    *)
(* Ingest for what it promises).                                           *)
(***************************************************************************)
EXTENDS Naturals, FiniteSets

CONSTANTS Tabs, Users, NoUser,
          Captures, Files, \* what pages may save; what is not a file is a link
          MaxEntries,      \* MAX_ENTRIES of the store
          MaxClaims,       \* bound on the claim generation of one capture
          MaxTaken         \* bound on the captures of one execution

ASSUME WebUploadsAssumption ==
    /\ MaxEntries \in Nat /\ MaxClaims \in Nat /\ MaxTaken \in Nat
    /\ NoUser \notin Users /\ Files \subseteq Captures

VARIABLES
    cookie,    \* the account whose session the browser holds, or NoUser
    store,     \* capture -> its record in IndexedDB
    tab,       \* tab -> the page's account, whether it is open, its session has ended
    job,       \* tab -> capture -> the job the page keeps for it
    wire,      \* requests sent, with the server's answer once there is one
    saved,     \* capture -> accounts whose library holds it
    fate       \* capture -> what its user did: nothing yet, took it, dropped it

vars == <<cookie, store, tab, job, wire, saved, fate>>

NoRecord == [status |-> "absent", owner |-> NoUser, gen |-> 0, live |-> FALSE]
NoJob == [st |-> "none", seen |-> 0, claim |-> 0]
Closed == [open |-> FALSE, user |-> NoUser, ended |-> FALSE, leaving |-> FALSE, listed |-> FALSE]

TypeOK ==
    /\ cookie \in Users \cup {NoUser}
    /\ store \in [Captures -> [status: {"absent", "pending", "uploading", "failed"},
                               owner: Users \cup {NoUser}, gen: 0..MaxClaims, live: BOOLEAN]]
    /\ tab \in [Tabs -> [open: BOOLEAN, user: Users \cup {NoUser}, ended: BOOLEAN,
                         leaving: BOOLEAN, listed: BOOLEAN]]
    /\ job \in [Tabs -> [Captures ->
          [st: {"none", "persisting", "unkept", "queued", "claiming", "claimed", "sending",
                "confirmed", "failing", "failed", "done"},
           seen: 0..MaxClaims, claim: 0..MaxClaims]]]
    /\ saved \in [Captures -> SUBSET Users]
    /\ fate \in [Captures -> {"none", "taken", "dropped"}]

Init ==
    /\ cookie \in Users
    /\ store = [i \in Captures |-> NoRecord]
    /\ tab = [t \in Tabs |-> Closed]
    /\ job = [t \in Tabs |-> [i \in Captures |-> NoJob]]
    /\ wire = {}
    /\ saved = [i \in Captures |-> {}]
    /\ fate = [i \in Captures |-> "none"]

Job(t, i, changes) == job' = [job EXCEPT ![t][i] = changes]
Moves(t, i, st) == Job(t, i, [job[t][i] EXCEPT !.st = st])
Running(t) == \E i \in Captures : job[t][i].st \in {"claiming", "claimed", "sending",
                                                     "confirmed", "failing"}
Memory(t) == {i \in Captures : job[t][i].st \in {"persisting", "unkept"}}

----------------------------------------------------------------------------
(* The page and its session.                                                *)

Load(t) ==
    /\ ~tab[t].open /\ cookie # NoUser
    /\ tab' = [tab EXCEPT ![t] = [Closed EXCEPT !.open = TRUE, !.user = cookie]]
    /\ UNCHANGED <<cookie, store, job, wire, saved, fate>>

(* Closing or reloading a tab forgets what only its memory holds; the page  *)
(* has told its user to keep it open until then.                            *)
Close(t) ==
    /\ tab[t].open
    /\ tab' = [tab EXCEPT ![t] = Closed]
    /\ job' = [job EXCEPT ![t] = [i \in Captures |-> NoJob]]
    /\ fate' = [i \in Captures |-> IF i \in Memory(t) THEN "dropped" ELSE fate[i]]
    /\ UNCHANGED <<cookie, store, wire, saved>>

(* recoverUploads: once per page, the records of the page's account.        *)
RecoverUploads(t) ==
    /\ tab[t].open /\ ~tab[t].listed
    /\ tab' = [tab EXCEPT ![t].listed = TRUE]
    /\ job' = [job EXCEPT ![t] = [i \in Captures |->
          IF job[t][i].st = "none" /\ store[i].status # "absent" /\ store[i].owner = tab[t].user
          THEN [NoJob EXCEPT !.st = "failed", !.seen = store[i].gen] ELSE job[t][i]]]
    /\ UNCHANGED <<cookie, store, wire, saved, fate>>

(* Another window of the browser signs in to an account.                    *)
SignIn(u) ==
    /\ cookie # u
    /\ cookie' = u
    /\ UNCHANGED <<store, tab, job, wire, saved, fate>>

(* sessionExpired: the page is locked and its request aborted.              *)
Aborted(jobs) == [i \in Captures |-> IF jobs[i].st = "sending"
                                     THEN [jobs[i] EXCEPT !.st = "failing"] ELSE jobs[i]]

(* checkSession, when a tab is told or comes back: the account changed.     *)
NoticeSession(t) ==
    /\ tab[t].open /\ ~tab[t].ended /\ cookie # tab[t].user
    /\ tab' = [tab EXCEPT ![t].ended = TRUE]
    /\ job' = [job EXCEPT ![t] = Aborted(job[t])]
    /\ UNCHANGED <<cookie, store, wire, saved, fate>>

(* Mutant: a page signs out without looking at what it holds. *)
SignOut_WithMemory(t) ==
    /\ tab[t].open /\ ~tab[t].ended
    /\ tab' = [tab EXCEPT ![t].ended = TRUE, ![t].leaving = TRUE]
    /\ job' = [job EXCEPT ![t] = Aborted(job[t])]
    /\ UNCHANGED <<cookie, store, wire, saved, fate>>

(* signOut waits for what is being stored, and refuses while a file is only *)
(* in memory: a job that has a file and no record.  A link that could not   *)
(* be kept does not stop it, nor one that was taken during that wait, for   *)
(* another capture which has just been stored or refused.  From here on the *)
(* page takes no capture.                                                   *)
SignOut(t) ==
    /\ tab[t].open /\ ~tab[t].ended
    /\ Memory(t) \cap Files = {}
    /\ \A i \in Captures : job[t][i].st = "persisting" =>
          \E j \in Captures \ {i} : job[t][j].st \in {"queued", "claiming", "unkept"}
    /\ tab' = [tab EXCEPT ![t].ended = TRUE, ![t].leaving = TRUE]
    /\ job' = [job EXCEPT ![t] = Aborted(job[t])]
    /\ UNCHANGED <<cookie, store, wire, saved, fate>>

(* The logout is confirmed and the page navigates away, with what it still  *)
(* holds, which nobody has asked its user about; or the logout fails, for   *)
(* the network or, which locks the page, because the session is no longer   *)
(* the page's (the logout names the page's account too).                    *)
SignedOut(t) ==
    /\ tab[t].leaving
    /\ \/ /\ cookie = tab[t].user /\ cookie' = NoUser
          /\ tab' = [tab EXCEPT ![t] = Closed]
          /\ job' = [job EXCEPT ![t] = [i \in Captures |-> NoJob]]
       \/ \E locked \in {FALSE, cookie # tab[t].user} :
             /\ tab' = [tab EXCEPT ![t].ended = locked, ![t].leaving = FALSE]
             /\ UNCHANGED <<cookie, job>>
    /\ UNCHANGED <<store, wire, saved, fate>>

----------------------------------------------------------------------------
(* Keeping a capture on the device.                                         *)

EnqueueUpload(t, i) ==
    /\ tab[t].open /\ ~tab[t].ended
    /\ fate[i] = "none" /\ Cardinality({j \in Captures : fate[j] # "none"}) < MaxTaken
    /\ fate' = [fate EXCEPT ![i] = "taken"]
    /\ Moves(t, i, "persisting")
    /\ UNCHANGED <<cookie, store, tab, wire, saved>>

(* add: one transaction counts the records of every account and inserts.    *)
Kept == {i \in Captures : store[i].status # "absent"}

PersistUpload(t, i) ==
    /\ job[t][i].st = "persisting"
    /\ \/ /\ i \notin Kept /\ Cardinality(Kept) < MaxEntries
          /\ store' = [store EXCEPT ![i] = [NoRecord EXCEPT !.status = "pending",
                                                            !.owner = tab[t].user]]
          /\ Moves(t, i, "queued")
       \/ Moves(t, i, "unkept") /\ UNCHANGED store   \* full, or the storage fails
    /\ UNCHANGED <<cookie, tab, wire, saved, fate>>

(* The buttons of a failed capture.                                         *)
Retry(t, i) ==
    /\ job[t][i].st \in {"failed", "unkept"}
    /\ Moves(t, i, IF job[t][i].st = "failed" THEN "queued" ELSE "persisting")
    /\ UNCHANGED <<cookie, store, tab, wire, saved, fate>>

(* Mutant: a live claim does not keep its record from being removed. *)
Removable_UnderClaim(t, i) == store[i].gen = job[t][i].seen

(* remove: refused under a live claim, or if the record changed since the   *)
(* page last saw it.                                                        *)
Removable(t, i) ==
    /\ store[i].gen = job[t][i].seen
    /\ ~(store[i].status = "uploading" /\ store[i].live)

Remove(t, i) ==
    /\ \/ /\ job[t][i].st = "unkept" /\ UNCHANGED store
          /\ fate' = [fate EXCEPT ![i] = "dropped"]
       \/ /\ job[t][i].st = "failed" /\ i \notin Kept
          /\ UNCHANGED <<store, fate>>
       \/ /\ job[t][i].st = "failed" /\ i \in Kept /\ Removable(t, i)
          /\ store' = [store EXCEPT ![i] = NoRecord]
          /\ fate' = [fate EXCEPT ![i] = "dropped"]
    /\ Job(t, i, NoJob)
    /\ UNCHANGED <<cookie, tab, wire, saved>>

----------------------------------------------------------------------------
(* One upload of a tab at a time: drainUploads and runUpload.               *)

StartUpload(t, i) ==
    /\ job[t][i].st = "queued" /\ ~Running(t)
    /\ Moves(t, i, IF tab[t].ended THEN "failed" ELSE "claiming")
    /\ UNCHANGED <<cookie, store, tab, wire, saved, fate>>

Claimable(t, i) ==
    /\ i \in Kept /\ store[i].owner = tab[t].user
    /\ ~(store[i].status = "uploading" /\ store[i].live)

Claim(t, i) ==
    /\ job[t][i].st = "claiming"
    /\ \/ /\ Claimable(t, i) /\ store[i].gen < MaxClaims
          /\ store' = [store EXCEPT ![i].status = "uploading", ![i].live = TRUE, ![i].gen = @ + 1]
          /\ Job(t, i, [st |-> "claimed", seen |-> store[i].gen + 1, claim |-> store[i].gen + 1])
       \/ /\ ~Claimable(t, i)
          /\ Moves(t, i, "failed") /\ UNCHANGED store
    /\ UNCHANGED <<cookie, tab, wire, saved, fate>>

(* Mutant: whoever finds the record may finish it. *)
OwnsClaim_AnyRecord(t, i) == i \in Kept

(* ownsClaim: the record still carries this attempt's generation and token, *)
(* and the lease has not run out.                                           *)
OwnsClaim(t, i) ==
    /\ store[i].status = "uploading" /\ store[i].owner = tab[t].user
    /\ store[i].gen = job[t][i].claim /\ store[i].live

(* The bytes of a file are read under the claim, a link needs none; they    *)
(* are posted with the page's account in a header, and the browser adds the *)
(* session it holds at that moment.                                         *)
Post(t, i) ==
    /\ job[t][i].st = "claimed"
    /\ IF (i \in Files => OwnsClaim(t, i)) /\ ~tab[t].ended
       THEN /\ wire' = wire \cup {[tab |-> t, key |-> i, claim |-> job[t][i].claim,
                                   session |-> cookie, account |-> tab[t].user,
                                   answer |-> "none"]}
            /\ Moves(t, i, "sending")
       ELSE UNCHANGED wire /\ Moves(t, i, "failing")
    /\ UNCHANGED <<cookie, store, tab, saved, fate>>

(* Mutant: any session will do. *)
SameAccount_Unchecked(m) == m.session # NoUser

(* The server: X-Sploot-User-ID must name the account of the session.       *)
SameAccount(m) == m.session # NoUser /\ m.session = m.account

Awaited(m) == job[m.tab][m.key].st = "sending" /\ job[m.tab][m.key].claim = m.claim
Answered(m, answer) ==
    wire' = (wire \ {m}) \cup (IF Awaited(m) THEN {[m EXCEPT !.answer = answer]} ELSE {})

Serve(m) ==
    /\ m.answer = "none"
    /\ IF SameAccount(m)
       THEN Answered(m, "saved") /\ saved' = [saved EXCEPT ![m.key] = @ \cup {m.session}]
       ELSE Answered(m, "account-changed") /\ UNCHANGED saved
    /\ UNCHANGED <<cookie, store, tab, job, fate>>

Receive(m) ==
    /\ m.answer # "none" /\ Awaited(m)
    /\ Moves(m.tab, m.key, IF m.answer = "saved" THEN "confirmed" ELSE "failing")
    /\ tab' = [tab EXCEPT ![m.tab].ended = @ \/ m.answer = "account-changed"]
    /\ wire' = wire \ {m}
    /\ UNCHANGED <<cookie, store, saved, fate>>

(* The request times out, its connection is lost or the server refuses it:  *)
(* it may have been served, it may be served later, it may never arrive.    *)
AbortUpload(t, i) ==
    /\ job[t][i].st = "sending"
    /\ Moves(t, i, "failing")
    /\ wire' \in {wire, {m \in wire : ~(m.tab = t /\ m.key = i /\ m.claim = job[t][i].claim)}}
    /\ UNCHANGED <<cookie, store, tab, saved, fate>>

(* finish: the claim's holder deletes the saved capture, or notes why it    *)
(* was not saved; anybody else leaves the record alone.                     *)
Finish(t, i) ==
    /\ job[t][i].st \in {"confirmed", "failing"}
    /\ store' = IF ~OwnsClaim(t, i) THEN store
                ELSE IF job[t][i].st = "confirmed" THEN [store EXCEPT ![i] = NoRecord]
                ELSE [store EXCEPT ![i].status = "failed", ![i].live = FALSE]
    /\ Job(t, i, [job[t][i] EXCEPT !.claim = 0,
                     !.st = IF job[t][i].st = "confirmed" THEN "done" ELSE "failed"])
    /\ UNCHANGED <<cookie, tab, wire, saved, fate>>

(* Two minutes pass over a claim.                                           *)
Lapse(i) ==
    /\ store[i].live
    /\ store' = [store EXCEPT ![i].live = FALSE]
    /\ UNCHANGED <<cookie, tab, job, wire, saved, fate>>

----------------------------------------------------------------------------
TabStep(t) ==
    \/ Load(t) \/ Close(t) \/ RecoverUploads(t) \/ NoticeSession(t) \/ SignOut(t) \/ SignedOut(t)
    \/ \E i \in Captures :
          \/ EnqueueUpload(t, i) \/ PersistUpload(t, i) \/ Retry(t, i) \/ Remove(t, i)
          \/ StartUpload(t, i) \/ Claim(t, i) \/ Post(t, i) \/ AbortUpload(t, i) \/ Finish(t, i)

Next ==
    \/ \E t \in Tabs : TabStep(t)
    \/ \E u \in Users : SignIn(u)
    \/ \E m \in wire : Serve(m) \/ Receive(m)
    \/ \E i \in Captures : Lapse(i)

Spec == Init /\ [][Next]_vars

----------------------------------------------------------------------------
Held(i) ==
    fate[i] = "taken" =>
        \/ i \in Kept \/ saved[i] # {}
        \/ \E t \in Tabs : tab[t].open /\ i \in Memory(t)

(* A file a page has taken is in the store, in the memory of an open page,  *)
(* or in a library, unless its user removed it or closed the page that said *)
(* it could not be kept; sign-out and stale attempts of other tabs lose     *)
(* none (upload-store.js finish and remove, app.js signOut).                *)
FilesStayUntilSaved == \A i \in Files : Held(i)

(* What the pages promise of every capture (templates/layout.html:80):      *)
(* kept in this browser until it is saved or explicitly removed.  app.js    *)
(* does not keep the promise for a link at sign-out.                        *)
CapturesStayUntilSaved == \A i \in Captures : Held(i)

(* A capture is only ever saved to the account whose page took it, although *)
(* the browser's session may change between any two steps (app.js request). *)
LandsInOneAccount ==
    \A i \in Captures :
        /\ Cardinality(saved[i]) <= 1
        /\ i \in Kept => saved[i] \subseteq {store[i].owner}
        /\ \A m \in wire : m.key = i /\ i \in Kept => m.account = store[i].owner

(* While an attempt holds a live claim nobody but that attempt changes or   *)
(* removes the record: a late result, a retry or a removal in another tab   *)
(* leaves it alone until the lease runs out (upload-store.js ownsClaim).    *)
LiveClaimIsFenced ==
    [][\A i \in Captures :
          store[i].live /\ store'[i] # store[i] =>
             \/ store'[i] = [store[i] EXCEPT !.live = FALSE]
             \/ \E t \in Tabs : job[t][i].claim = store[i].gen /\ job'[t][i].claim = 0]_vars
=============================================================================
