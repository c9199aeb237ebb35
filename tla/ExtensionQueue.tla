--------------------------- MODULE ExtensionQueue ---------------------------
(***************************************************************************)
(* The save queue of the browser extension                                  *)
(* (apps/extension/entrypoints/background/context-menu-save-queue.ts):      *)
(* captures are kept in the extension's local storage until the instance    *)
(* has them.  Everything runs on one thread and interleaves at each await.  *)
(* Storage calls take effect in the order in which they are issued, so a    *)
(* read belongs to the step that issues it and its result is used, possibly *)
(* stale, in a later one.                                                   *)
(*                                                                          *)
(* Two promise chains order the writers: the exclusive chain (a capture's   *)
(* admission, a recovery pass, a retry, a discard) and the mutation chain,  *)
(* which the save attempts of a recovery pass share with an attempt that    *)
(* timed out.  The storage calls themselves succeed here, and a save always *)
(* has its bytes.                                                           *)
(***************************************************************************)
EXTENDS Naturals, Sequences, FiniteSets

CONSTANTS
    Jobs,           (* captures, each made at most once                      *)
    Instances, Users,
    None,           (* no account, no job                                    *)
    Unknown,        (* the outcome of an account check that failed           *)
    First, Second,  (* the two workers of a recovery pass                    *)
    Late,           (* a save attempt that timed out and has yet to settle   *)
    Exclusive,      (* the operation at the head of the exclusive chain      *)
    MaxWaiting,     (* bound: operations waiting when the user asks for one  *)
    Scopes          (* the limits a behaviour may be held to                 *)

(* attempts: before a save fails; queue: saves kept at once.  The others    *)
(* are bounds: captures made, how often the browser ends, changes of the    *)
(* connected account, and whether attempts may time out, an account check   *)
(* fail and the seven days of retention pass.                               *)
Scope == [attempts : Nat \ {0}, queue : Nat \ {0}, captures : Nat, exits : Nat,
          sessions : Nat, timeouts : BOOLEAN, checks : BOOLEAN, ageing : BOOLEAN]

Workers == {First, Second}
Processes == Workers \cup {Late, Exclusive}
Accounts == Instances \X Users
Tokens == 1 .. 6

ASSUME ExtensionQueueAssumption ==
    /\ None \notin Jobs \cup Users \cup Processes /\ Cardinality(Processes) = 4
    /\ None \notin Instances \X (Users \cup {None}) /\ Unknown \notin Accounts \cup {None}
    /\ MaxWaiting \in Nat /\ Scopes \subseteq Scope

VARIABLES
    jobs,       (* the stored queue                                        *)
    alarm,      (* whether the wake-up alarm is set                        *)
    instance, user,     (* the stored connection                           *)
    worker,     (* the service worker: "up", "suspended" or "exited"       *)
    published,  (* whether it has told its listeners of the connection     *)
    requests,   (* operations waiting on the exclusive chain               *)
    prompting,  (* captures that wait for a sign-in                        *)
    x,          (* the operation at the head of the exclusive chain        *)
    w,          (* the workers' save attempts                              *)
    late,       (* the attempt that timed out                              *)
    chain,      (* who holds the mutation chain                            *)
    sched,      (* where each process is in scheduling the wake-up         *)
    capture,    (* the connection each capture was made under              *)
    kept,       (* history: captures acknowledged as durable               *)
    ended,      (* history: saves that landed, were discarded, were        *)
                (* evicted or expired, and were removed for it             *)
    begun,      (* history: attempts since the capture or its last retry   *)
    landed,     (* history: saves that reached an account                  *)
    exits, sessions,    (* counters                                        *)
    scope       (* the limits of this behaviour                            *)

stored == <<jobs, alarm>>
connection == <<instance, user, sessions>>
chains == <<published, requests, prompting>>
running == <<x, w, late, chain, sched>>
history == <<capture, kept, ended, begun, landed>>
bounds == <<exits, scope>>
vars == <<stored, connection, worker, bounds, chains, running, history>>

(* age: 0, then 1 once created seven days ago, then 2 once it ended seven   *)
(* days ago.  due: its backoff has passed or, processing, it is stale.      *)
Row == [state : {"absent", "awaiting-auth", "pending", "processing", "failed", "paused"},
        owner : Accounts \cup {None}, target : Instances \cup {None},
        attempts : Nat, due : BOOLEAN, token : Tokens \cup {0},
        settling : BOOLEAN, age : 0 .. 2]
NoRow == [state |-> "absent", owner |-> None, target |-> None, attempts |-> 0,
          due |-> FALSE, token |-> 0, settling |-> FALSE, age |-> 0]
Queue == [Jobs -> Row]
NoQueue == [j \in Jobs |-> NoRow]

Kinds == {"startup", "alarm", "enqueued", "enqueue", "retry", "discard"}
Request == [kind : Kinds, job : Jobs \cup {None}, owner : Accounts \cup {None}]
Ask(kind, j, o) == [kind |-> kind, job |-> j, owner |-> o]
Startup == Ask("startup", None, None)

(* known: the account a recovery pass read; left: the saves it has yet to   *)
(* attempt.                                                                 *)
Operation == [request : Request \cup {None},
              pc : {"idle", "account", "write", "work", "done"},
              known : Accounts \cup {None}, seen : Queue, left : SUBSET Jobs]
NoOperation == [request |-> None, pc |-> "idle", known |-> None, seen |-> NoQueue, left |-> {}]

Mutations == {"defer", "pause", "expire", "claim", "settle", "remove", "fail", "giveup"}
Upload == {"none", "check", "credential", "sent", "ok", "failed", "over"}
Attempt == [pc : {"idle", "check", "upload"} \cup Mutations, job : Jobs \cup {None},
            row : Row, seen : Queue, upload : Upload, account : Accounts \cup {None}]
NoAttempt == [pc |-> "idle", job |-> None, row |-> NoRow, seen |-> NoQueue,
              upload |-> "none", account |-> None]
LateAttempt == [pc : {"idle", "settling", "upload", "release"}, job : Jobs \cup {None},
                token : Tokens \cup {0}, seen : Queue, upload : Upload,
                account : Accounts \cup {None}]
NoLate == [pc |-> "idle", job |-> None, token |-> 0, seen |-> NoQueue,
           upload |-> "none", account |-> None]

(* A save that timed out, and one whose failure an exit cuts short, are      *)
(* still pending at the limit: a failed account check counts one more.      *)
TypeOK ==
    /\ jobs \in Queue /\ alarm \in BOOLEAN
    /\ \A j \in Jobs : jobs[j].state # "absent" =>
                        jobs[j].attempts <= scope.attempts + scope.exits + 1
    /\ instance \in Instances /\ user \in Users \cup {None}
    /\ worker \in {"up", "suspended", "exited"} /\ published \in BOOLEAN
    /\ requests \in Seq(Request) /\ prompting \subseteq Jobs
    /\ x \in Operation /\ w \in [Workers -> Attempt] /\ late \in LateAttempt
    /\ chain \in Workers \cup {Late, None}
    /\ sched \in [Processes -> {"no", "read", "arm", "clear"}]
    /\ capture \in [Jobs -> (Instances \X (Users \cup {None})) \cup {None}]
    /\ kept \subseteq Jobs /\ ended \subseteq Jobs
    /\ begun \in [Jobs -> Nat] /\ landed \subseteq Jobs \X Accounts
    /\ exits \in 0 .. scope.exits /\ sessions \in 0 .. scope.sessions

Init ==
    /\ jobs = NoQueue /\ alarm = FALSE
    /\ instance \in Instances /\ user \in Users \cup {None}
    /\ worker = "up" /\ published = FALSE /\ requests = <<Startup>> /\ prompting = {}
    /\ x = NoOperation /\ w = [p \in Workers |-> NoAttempt] /\ late = NoLate
    /\ chain = None /\ sched = [p \in Processes |-> "no"]
    /\ capture = [j \in Jobs |-> None] /\ kept = {} /\ ended = {}
    /\ begun = [j \in Jobs |-> 0] /\ landed = {}
    /\ exits = 0 /\ sessions = 0 /\ scope \in Scopes

-----------------------------------------------------------------------------
(* Rows.                                                                   *)

Authority == IF user = None THEN None ELSE <<instance, user>>

Present(queue) == {j \in Jobs : queue[j].state # "absent"}
Waking(queue) == {j \in Jobs : queue[j].state \in {"pending", "processing"}}
Terminal(row) == row.state \in {"failed", "paused"}
Expired(row) == Terminal(row) /\ row.age = 2
ExpiredIn(queue) == {j \in Jobs : Expired(queue[j])}

Exhausted(row) == row.attempts >= scope.attempts \/ row.age >= 1
Holds(row, token) == row.state = "processing" /\ row.token = token

(* A failed or paused save has no backoff, and its retention begins. *)
Ended(row, state) ==
    [row EXCEPT !.state = state, !.due = TRUE, !.token = 0, !.settling = FALSE,
                !.age = IF @ = 0 THEN 0 ELSE 1]
Backoff(row) ==
    [row EXCEPT !.state = "pending", !.token = 0, !.settling = FALSE, !.due = FALSE]

(* Generations are told apart by random tokens: here, by one not in use. *)
FreshToken(j) ==
    CHOOSE t \in Tokens :
        t \notin {jobs[j].token, x.seen[j].token, late.seen[j].token}
                  \cup (IF late.job = j THEN {late.token} ELSE {})
                  \cup {w[p].row.token : p \in {q \in Workers : w[q].job = j}}

-----------------------------------------------------------------------------
(* Writing the queue ends with a look at what is due, and the alarm.        *)

Ready(p) == worker = "up" /\ sched[p] = "no"
Reschedule(p) == sched' = [sched EXCEPT ![p] = "read"]

(* Mutant: a backoff is not waited for. *)
ScheduleRead_DueOnly(p) ==
    /\ worker = "up" /\ sched[p] = "read"
    /\ sched' = [sched EXCEPT ![p] =
                   IF \E j \in Waking(jobs) : jobs[j].due THEN "arm" ELSE "clear"]
    /\ UNCHANGED <<stored, connection, worker, bounds, chains, x, w, late, chain, history>>

(* What wakes the extension is read ... *)
ScheduleRead(p) ==
    /\ worker = "up" /\ sched[p] = "read"
    /\ sched' = [sched EXCEPT ![p] = IF Waking(jobs) # {} THEN "arm" ELSE "clear"]
    /\ UNCHANGED <<stored, connection, worker, bounds, chains, x, w, late, chain, history>>

(* ... and the alarm set or cleared for it; a mutation ends with that. *)
ScheduleAlarm(p) ==
    /\ worker = "up" /\ sched[p] \in {"arm", "clear"}
    /\ alarm' = (sched[p] = "arm")
    /\ sched' = [sched EXCEPT ![p] = "no"]
    /\ chain' = IF chain = p THEN None ELSE chain
    /\ UNCHANGED <<jobs, connection, worker, bounds, chains, x, w, late, history>>

(* The first read of the connection by a new service worker tells its       *)
(* listeners of it, and the queue's listener asks for a startup recovery.   *)
Publish(asked) ==
    /\ published' = TRUE
    /\ requests' = (IF ~published /\ user # None THEN Append(requests, Startup) ELSE requests)
                   \o asked

-----------------------------------------------------------------------------
(* One save attempt (processJob).                                          *)

Continue(p, attempt) ==
    /\ w' = [w EXCEPT ![p] = attempt]
    /\ UNCHANGED <<connection, worker, bounds, chains, x, capture, kept>>

(* A worker takes a save of its pass, and reads its row anew. *)
StartJob(p, j) ==
    /\ Ready(Exclusive) /\ Ready(p) /\ w[p].pc = "idle"
    /\ x.pc = "work" /\ j \in x.left
    /\ x' = [x EXCEPT !.left = @ \ {j}]
    /\ w' = IF jobs[j].state = "pending"
            THEN [w EXCEPT ![p] = [NoAttempt EXCEPT !.pc = "check", !.job = j, !.row = jobs[j]]]
            ELSE w
    /\ UNCHANGED <<stored, connection, worker, bounds, chains, late, chain, sched, history>>

(* The owner is checked before the backoff: a save that is not due is       *)
(* paused for the wrong account all the same.                               *)
Verdict(row, account) ==
    IF account = Unknown THEN IF row.due THEN "defer" ELSE "idle"
    ELSE IF row.owner # account THEN "pause"
    ELSE IF ~row.due THEN "idle"
    ELSE IF Exhausted(row) THEN "expire" ELSE "claim"

CheckAccount(p) ==
    /\ Ready(p) /\ w[p].pc = "check"
    /\ \E account \in {Authority} \cup (IF scope.checks THEN {Unknown} ELSE {}) :
         LET verdict == Verdict(w[p].row, account) IN
         /\ IF account = Unknown THEN UNCHANGED <<published, requests>> ELSE Publish(<<>>)
         /\ w' = [w EXCEPT ![p] = IF verdict = "idle" THEN NoAttempt
                                  ELSE [@ EXCEPT !.pc = verdict]]
    /\ UNCHANGED <<stored, connection, worker, bounds, prompting, x, late, chain, sched, history>>

(* The head of the mutation chain reads the queue. *)
Enter(p) ==
    /\ Ready(p) /\ w[p].pc \in Mutations /\ chain = None
    /\ chain' = p
    /\ Continue(p, [w[p] EXCEPT !.seen = jobs])
    /\ UNCHANGED <<stored, late, sched, ended, begun, landed>>

(* What it read decides whether it writes; the whole queue is written back. *)
Mutate(p, pc, applies, row, then) ==
    /\ Ready(p) /\ chain = p /\ w[p].pc = pc
    /\ IF applies
       THEN /\ jobs' = [w[p].seen EXCEPT ![w[p].job] = row]
            /\ Reschedule(p) /\ UNCHANGED chain
       ELSE chain' = None /\ UNCHANGED <<jobs, sched>>
    /\ Continue(p, then)
    /\ UNCHANGED <<alarm, landed>>

Latest(p) == w[p].seen[w[p].job]
StillPending(p) == Latest(p).state = "pending"
StillHeld(p) == Holds(Latest(p), w[p].row.token)
At(p, pc) == [w[p] EXCEPT !.pc = pc, !.seen = NoQueue, !.upload = "none"]

(* An account check that failed costs an attempt. *)
Deferred(row) == [row EXCEPT !.attempts = @ + 1, !.due = FALSE]
Defer(p) ==
    LET row == Deferred(w[p].row) IN
    /\ Mutate(p, "defer", StillPending(p), row,
              IF StillPending(p) /\ Exhausted(row) THEN At(p, "giveup") ELSE NoAttempt)
    /\ UNCHANGED <<late, ended, begun>>

Pause(p) ==
    /\ Mutate(p, "pause", StillPending(p), Ended(Latest(p), "paused"), NoAttempt)
    /\ UNCHANGED <<late, ended, begun>>

(* Too many attempts, or too old, before this one began. *)
Expire(p) ==
    /\ Mutate(p, "expire", StillPending(p), Ended(Latest(p), "failed"),
              IF StillPending(p) THEN NoAttempt ELSE At(p, "claim"))
    /\ UNCHANGED <<late, ended, begun>>

Claimed(row, token) ==
    [row EXCEPT !.state = "processing", !.attempts = @ + 1, !.token = token,
                !.settling = FALSE, !.due = FALSE]
Claim(p) ==
    LET j == w[p].job
        row == Claimed(w[p].row, FreshToken(j)) IN
    /\ Mutate(p, "claim", StillPending(p), row,
              IF StillPending(p)
              THEN [At(p, "upload") EXCEPT !.row = row, !.upload = "check"]
              ELSE NoAttempt)
    /\ begun' = IF StillPending(p) THEN [begun EXCEPT ![j] = @ + 1] ELSE begun
    /\ UNCHANGED <<late, ended>>

(* The upload (saveToSploot, uploadImage): the account is checked, then     *)
(* read again with its credential; the request is bound to what was read.   *)
CheckOwner(p) ==
    /\ Ready(p) /\ w[p].pc = "upload" /\ w[p].upload = "check"
    /\ \/ /\ Authority = w[p].row.owner
          /\ Continue(p, [w[p] EXCEPT !.upload = "credential"])
       \/ /\ scope.checks \/ Authority # w[p].row.owner
          /\ Continue(p, [w[p] EXCEPT !.upload = "failed"])
    /\ UNCHANGED <<stored, late, chain, sched, ended, begun, landed>>

(* Mutant: the credential of whoever is connected is used. *)
Credential_Unfenced(p) ==
    /\ Ready(p) /\ w[p].pc = "upload" /\ w[p].upload = "credential"
    /\ Continue(p, IF Authority # None
                   THEN [w[p] EXCEPT !.upload = "sent", !.account = Authority]
                   ELSE [w[p] EXCEPT !.upload = "failed"])
    /\ UNCHANGED <<stored, late, chain, sched, ended, begun, landed>>

Credential(p) ==
    /\ Ready(p) /\ w[p].pc = "upload" /\ w[p].upload = "credential"
    /\ Continue(p, IF Authority = w[p].row.owner
                   THEN [w[p] EXCEPT !.upload = "sent", !.account = Authority]
                   ELSE [w[p] EXCEPT !.upload = "failed"])
    /\ UNCHANGED <<stored, late, chain, sched, ended, begun, landed>>

(* An answer: the save landed and its receipt came, or did not; or it did   *)
(* not land.                                                                *)
Answer(p) ==
    /\ Ready(p) /\ w[p].pc = "upload" /\ w[p].upload = "sent"
    /\ \E answer \in {"ok", "failed"}, lands \in BOOLEAN :
         /\ answer = "ok" => lands
         /\ landed' = landed \cup (IF lands THEN {<<w[p].job, w[p].account>>} ELSE {})
         /\ Continue(p, [w[p] EXCEPT !.upload = answer])
    /\ UNCHANGED <<stored, late, chain, sched, ended, begun>>

(* The deadline passes: the attempt is aborted, and still under way, since  *)
(* a pairing or a revocation it began takes no signal.  Bound: one such     *)
(* attempt at a time.                                                       *)
Timeout(p) ==
    /\ scope.timeouts /\ Ready(p) /\ late = NoLate
    /\ w[p].pc = "upload" /\ w[p].upload \in {"check", "credential", "sent"}
    /\ late' = [pc |-> "settling", job |-> w[p].job, token |-> w[p].row.token,
                account |-> w[p].account, seen |-> NoQueue, upload |-> w[p].upload]
    /\ Continue(p, At(p, "settle"))
    /\ UNCHANGED <<stored, chain, sched, ended, begun, landed>>

(* The save is fenced until the attempt settles. *)
Settle(p) ==
    /\ Mutate(p, "settle", StillHeld(p), [Latest(p) EXCEPT !.settling = TRUE], NoAttempt)
    /\ late' = [late EXCEPT !.pc = "upload"]
    /\ UNCHANGED <<ended, begun>>

(* Mutant: a save is removed whatever the answer. *)
After_Unanswered(p) ==
    /\ Ready(p) /\ w[p].pc = "upload" /\ w[p].upload \in {"ok", "failed"}
    /\ LET active == jobs[w[p].job] IN
       Continue(p, IF ~Holds(active, w[p].row.token) THEN NoAttempt
                   ELSE [At(p, "remove") EXCEPT !.row = active])
    /\ UNCHANGED <<stored, late, chain, sched, ended, begun, landed>>

(* An answered attempt that no longer holds its save leaves it alone.  The  *)
(* row of a failure is made from this read.                                 *)
After(p) ==
    /\ Ready(p) /\ w[p].pc = "upload" /\ w[p].upload \in {"ok", "failed"}
    /\ LET active == jobs[w[p].job] IN
       Continue(p, IF ~Holds(active, w[p].row.token) THEN NoAttempt
                   ELSE [At(p, IF w[p].upload = "ok" THEN "remove" ELSE "fail")
                            EXCEPT !.row = active])
    /\ UNCHANGED <<stored, late, chain, sched, ended, begun, landed>>

Remove(p) ==
    /\ Mutate(p, "remove", StillHeld(p), NoRow, NoAttempt)
    /\ ended' = IF StillHeld(p) THEN ended \cup {w[p].job} ELSE ended
    /\ UNCHANGED <<late, begun>>

Fail(p) ==
    LET row == Backoff(w[p].row) IN
    /\ Mutate(p, "fail", StillHeld(p), row,
              IF Exhausted(row) THEN At(p, "giveup") ELSE NoAttempt)
    /\ UNCHANGED <<late, ended, begun>>

GiveUp(p) ==
    /\ Mutate(p, "giveup", StillPending(p), Ended(Latest(p), "failed"), NoAttempt)
    /\ UNCHANGED <<late, ended, begun>>

(* The attempt that timed out ends, landed or not ... *)
LateAnswer ==
    /\ worker = "up" /\ late.pc # "idle" /\ late.upload # "over"
    /\ late' = [late EXCEPT !.upload = "over"]
    /\ \E lands \in BOOLEAN :
         /\ lands => late.upload = "sent"
         /\ landed' = landed \cup (IF lands THEN {<<late.job, late.account>>} ELSE {})
    /\ UNCHANGED <<stored, connection, worker, bounds, chains, x, w, chain, sched, capture,
                   kept, ended, begun>>

(* ... and its save is released to be tried again: on the mutation chain,   *)
(* but outside the exclusive one.                                           *)
LateEnter ==
    /\ Ready(Late) /\ late.pc = "upload" /\ late.upload = "over" /\ chain = None
    /\ chain' = Late
    /\ late' = [late EXCEPT !.pc = "release", !.seen = jobs]
    /\ UNCHANGED <<stored, connection, worker, bounds, chains, x, w, sched, history>>

(* Mutant: put back from the attempt's own copy, whoever holds the save now. *)
LateRelease_Unfenced ==
    /\ Ready(Late) /\ chain = Late /\ late.pc = "release"
    /\ jobs' = [late.seen EXCEPT ![late.job] = Backoff(@)]
    /\ Reschedule(Late) /\ UNCHANGED chain
    /\ late' = NoLate
    /\ UNCHANGED <<alarm, connection, worker, bounds, chains, x, w, history>>

LateRelease ==
    /\ Ready(Late) /\ chain = Late /\ late.pc = "release"
    /\ LET row == late.seen[late.job] IN
       IF Holds(row, late.token) /\ row.settling
       THEN /\ jobs' = [late.seen EXCEPT ![late.job] = Backoff(row)]
            /\ Reschedule(Late) /\ UNCHANGED chain
       ELSE chain' = None /\ UNCHANGED <<jobs, sched>>
    /\ late' = NoLate
    /\ UNCHANGED <<alarm, connection, worker, bounds, chains, x, w, history>>

-----------------------------------------------------------------------------
(* The exclusive chain.                                                    *)

(* The next operation begins by reading the queue. *)
Take ==
    /\ Ready(Exclusive) /\ x.pc = "idle" /\ requests # <<>>
    /\ x' = [NoOperation EXCEPT !.request = Head(requests), !.seen = jobs,
                                !.pc = IF Head(requests).kind \in {"startup", "alarm", "enqueued"}
                                       THEN "account" ELSE "write"]
    /\ requests' = Tail(requests)
    /\ UNCHANGED <<stored, connection, worker, bounds, published, prompting, w, late, chain,
                   sched, history>>

Operate(kind) == Ready(Exclusive) /\ x.pc = "write" /\ x.request.kind = kind

Keep == UNCHANGED <<alarm, connection, worker, bounds, chains, w, late, chain, capture>>

Write(queue) == jobs' = queue /\ Reschedule(Exclusive) /\ x' = [x EXCEPT !.pc = "done"]
Leave == x' = [x EXCEPT !.pc = "done"] /\ UNCHANGED <<jobs, sched>>

(* Room for one save more: expired saves go first, then one that is another *)
(* account's and not being processed, a failed or paused one if there is.   *)
(* Bytes are counted in saves.                                              *)
Evictable(queue, owner) ==
    LET others == {j \in Present(queue) :
                     queue[j].state # "processing" /\ queue[j].owner # owner}
        over == {j \in others : Terminal(queue[j])} IN
    IF owner = None THEN {} ELSE IF over # {} THEN over ELSE others
Without(queue, gone) == [j \in Jobs |-> IF j \in gone THEN NoRow ELSE queue[j]]

Admitted(context) ==
    [NoRow EXCEPT !.target = context[1],
                  !.owner = IF context[2] = None THEN None ELSE context,
                  !.state = IF context[2] = None THEN "awaiting-auth" ELSE "pending",
                  !.due = TRUE]

Enqueue ==
    LET j == x.request.job
        owner == Admitted(capture[j]).owner
        retained == Without(x.seen, ExpiredIn(x.seen)) IN
    /\ Operate("enqueue")
    /\ \/ \E gone \in (IF Cardinality(Present(retained)) < scope.queue THEN {{}}
                       ELSE {{k} : k \in Evictable(retained, owner)}) :
            /\ Write([Without(retained, gone) EXCEPT ![j] = Admitted(capture[j])])
            /\ kept' = kept \cup {j}
            /\ ended' = ended \cup ExpiredIn(x.seen) \cup gone
       \/ /\ Cardinality(Present(retained)) >= scope.queue /\ Evictable(retained, owner) = {}
          /\ Leave /\ UNCHANGED <<kept, ended>>
    /\ Keep /\ UNCHANGED <<begun, landed>>

Retried(row) ==
    [row EXCEPT !.state = "pending", !.attempts = 0, !.due = TRUE, !.token = 0,
                !.settling = FALSE, !.age = 0]
Mine == LET row == x.seen[x.request.job] IN Terminal(row) /\ row.owner = x.request.owner

Retry ==
    LET j == x.request.job IN
    /\ Operate("retry")
    /\ \/ Mine /\ Write([x.seen EXCEPT ![j] = Retried(@)]) /\ begun' = [begun EXCEPT ![j] = 0]
       \/ ~Mine /\ Leave /\ UNCHANGED begun
    /\ Keep /\ UNCHANGED <<kept, ended, landed>>

Discard ==
    LET j == x.request.job IN
    /\ Operate("discard")
    /\ \/ Mine /\ Write([x.seen EXCEPT ![j] = NoRow]) /\ ended' = ended \cup {j}
       \/ ~Mine /\ Leave /\ UNCHANGED ended
    /\ Keep /\ UNCHANGED <<kept, begun, landed>>

(* A recovery pass reads the account after the queue; it does without if    *)
(* that fails.                                                              *)
ReadAccount ==
    /\ Ready(Exclusive) /\ x.pc = "account"
    /\ \/ x' = [x EXCEPT !.known = Authority, !.pc = "write"] /\ Publish(<<>>)
       \/ scope.checks /\ x' = [x EXCEPT !.pc = "write"] /\ UNCHANGED <<published, requests>>
    /\ UNCHANGED <<stored, connection, worker, bounds, prompting, w, late, chain, sched, history>>

(* Mutant: a recovery drops failed and paused saves of any age. *)
Recovered_WithoutTerminal(row, kind, account) ==
    IF Terminal(row) THEN NoRow
    ELSE IF row.state = "processing" /\ (kind = "startup" \/ row.due)
    THEN [row EXCEPT !.state = "pending", !.token = 0, !.due = TRUE]
    ELSE IF row.state = "awaiting-auth" /\ account # None /\ row.target = account[1]
    THEN [row EXCEPT !.state = "pending", !.owner = account, !.due = TRUE]
    ELSE row

(* Mutant: an interrupted attempt does not count. *)
Recovered_Uncounted(row, kind, account) ==
    IF Expired(row) THEN NoRow
    ELSE IF row.state = "processing" /\ (kind = "startup" \/ row.due)
    THEN [row EXCEPT !.state = "pending", !.token = 0, !.due = TRUE, !.attempts = 0]
    ELSE row

(* Saves whose attempt is over are pending again, those captured before the *)
(* pairing are adopted, and those of this account resume.                   *)
Recovered(row, kind, account) ==
    IF Expired(row) THEN NoRow
    ELSE IF row.state = "processing" /\ (kind = "startup" \/ row.due)
    THEN [row EXCEPT !.state = "pending", !.token = 0, !.due = TRUE]
    ELSE IF row.state = "awaiting-auth" /\ account # None /\ row.target = account[1]
    THEN [row EXCEPT !.state = "pending", !.owner = account, !.due = TRUE]
    ELSE IF row.state = "paused" /\ row.owner = account
    THEN [row EXCEPT !.state = "pending", !.due = TRUE]
    ELSE row

(* The queue is written back when it changed, and the wake-up set.  The     *)
(* pass of an enqueued save is only about that save.                        *)
Recover ==
    LET queue == [j \in Jobs |-> Recovered(x.seen[j], x.request.kind, x.known)] IN
    /\ Ready(Exclusive) /\ x.pc = "write"
    /\ x.request.kind \in {"startup", "alarm", "enqueued"}
    /\ jobs' = IF queue # x.seen THEN queue ELSE jobs
    /\ ended' = ended \cup ExpiredIn(x.seen)
    /\ x' = [x EXCEPT !.pc = "work",
                      !.left = {j \in Jobs : /\ queue[j].state = "pending"
                                             /\ x.request.kind = "enqueued" => j = x.request.job}]
    /\ Reschedule(Exclusive)
    /\ Keep /\ UNCHANGED <<kept, begun, landed>>

(* Both workers are done: the wake-up is set once more. *)
EndWork ==
    /\ Ready(Exclusive) /\ x.pc = "work" /\ x.left = {}
    /\ \A p \in Workers : w[p].pc = "idle" /\ sched[p] = "no"
    /\ x' = [x EXCEPT !.pc = "done"] /\ Reschedule(Exclusive)
    /\ UNCHANGED <<stored, connection, worker, bounds, chains, w, late, chain, history>>

(* A capture that is admitted goes on to the recovery of its save, once     *)
(* signed in.                                                               *)
Finish ==
    LET j == x.request.job
        admitted == x.request.kind = "enqueue" /\ j \in kept IN
    /\ Ready(Exclusive) /\ x.pc = "done"
    /\ x' = NoOperation
    /\ requests' = IF admitted /\ capture[j][2] # None
                   THEN Append(requests, Ask("enqueued", j, None)) ELSE requests
    /\ prompting' = IF admitted /\ capture[j][2] = None THEN prompting \cup {j} ELSE prompting
    /\ UNCHANGED <<stored, connection, worker, bounds, published, w, late, chain, sched, history>>

(* The sign-in came, or the minute of waiting for it has passed. *)
Prompted(j) ==
    /\ worker = "up" /\ j \in prompting
    /\ prompting' = prompting \ {j}
    /\ requests' = IF user # None THEN Append(requests, Ask("enqueued", j, None)) ELSE requests
    /\ UNCHANGED <<stored, connection, worker, bounds, published, running, history>>

-----------------------------------------------------------------------------
(* The user, the clock and the browser.                                    *)

Still == UNCHANGED <<running, kept, ended, begun, landed>>

CaptureSave(j) ==
    /\ worker = "up" /\ Len(requests) < MaxWaiting /\ capture[j] = None
    /\ Cardinality({k \in Jobs : capture[k] # None}) < scope.captures
    /\ capture' = [capture EXCEPT ![j] = <<instance, user>>]
    /\ requests' = Append(requests, Ask("enqueue", j, None))
    /\ Still /\ UNCHANGED <<stored, connection, worker, bounds, published, prompting>>

(* A failed or paused save retried or discarded in the popup. *)
AskFor(kind, j) ==
    /\ worker = "up" /\ Len(requests) < MaxWaiting /\ user # None /\ Terminal(jobs[j])
    /\ Publish(<<Ask(kind, j, Authority)>>)
    /\ Still /\ UNCHANGED <<stored, connection, worker, bounds, prompting, capture>>

Connect(i, u, asked) ==
    /\ worker = "up"
    /\ instance' = i /\ user' = u
    /\ published' = TRUE /\ requests' = asked
    /\ Still /\ UNCHANGED <<stored, worker, bounds, prompting, capture>>

SignIn(u) ==
    /\ user = None /\ sessions < scope.sessions /\ sessions' = sessions + 1
    /\ Connect(instance, u, Append(requests, Startup))
SignOut == user # None /\ Connect(instance, None, requests) /\ UNCHANGED sessions
SetInstance(i) ==
    /\ user = None /\ i # instance /\ sessions < scope.sessions /\ sessions' = sessions + 1
    /\ Connect(i, None, requests)

(* A backoff passes; or a save has been processing for five minutes, which  *)
(* an attempt, timed out or not, never takes.                               *)
Due(j) ==
    /\ j \in Waking(jobs) /\ ~jobs[j].due
    /\ jobs[j].state = "processing" => late.job # j /\ \A p \in Workers : w[p].job # j
    /\ jobs' = [jobs EXCEPT ![j].due = TRUE]
    /\ UNCHANGED <<alarm, connection, worker, bounds, chains, running, history>>

Age(j) ==
    /\ scope.ageing /\ j \in Present(jobs) /\ ~Expired(jobs[j])
    /\ jobs[j].age = 0 \/ Terminal(jobs[j])
    /\ jobs' = [jobs EXCEPT ![j].age = @ + 1]
    /\ UNCHANGED <<alarm, connection, worker, bounds, chains, running, history>>

(* The alarm fires once and wakes a suspended worker, which starts with a   *)
(* recovery of its own.  Bound: one alarm waits at a time.                  *)
AlarmFires ==
    LET wakeUp == Ask("alarm", None, None) IN
    /\ worker # "exited" /\ alarm /\ \E j \in Waking(jobs) : jobs[j].due
    /\ \A i \in DOMAIN requests : requests[i] # wakeUp
    /\ alarm' = FALSE /\ worker' = "up"
    /\ requests' = (IF worker = "up" THEN requests ELSE <<Startup>>) \o <<wakeUp>>
    /\ UNCHANGED <<jobs, connection, bounds, published, prompting, running, history>>

Forget ==
    /\ published' = FALSE /\ requests' = <<>> /\ prompting' = {}
    /\ x' = NoOperation /\ w' = [p \in Workers |-> NoAttempt] /\ late' = NoLate
    /\ chain' = None /\ sched' = [p \in Processes |-> "no"]

(* The browser suspends a worker that has nothing to do. *)
Suspend ==
    /\ worker = "up" /\ worker' = "suspended"
    /\ requests = <<>> /\ x.pc = "idle" /\ late.pc = "idle" /\ chain = None
    /\ \A p \in Processes : sched[p] = "no"
    /\ Forget /\ UNCHANGED <<stored, connection, bounds, history>>

(* The worker, or the browser, is ended at any point; what was sent may     *)
(* land.                                                                    *)
Exit ==
    LET sent == {<<a.job, a.account>> :
                   a \in {b \in {w[First], w[Second], late} : b.upload = "sent"}} IN
    /\ worker # "exited" /\ worker' = "exited"
    /\ exits < scope.exits /\ exits' = exits + 1
    /\ \E lands \in SUBSET sent : landed' = landed \cup lands
    /\ Forget /\ UNCHANGED <<stored, connection, scope, capture, kept, ended, begun>>

(* A suspended worker starts for any event; an ended one, with its browser. *)
StartWorker ==
    /\ worker # "up" /\ worker' = "up"
    /\ requests' = IF worker = "exited" THEN <<Startup, Startup>> ELSE <<Startup>>
    /\ UNCHANGED <<stored, connection, bounds, published, prompting, running, history>>

-----------------------------------------------------------------------------

AttemptStep(p) ==
    \/ \E j \in Jobs : StartJob(p, j)
    \/ CheckAccount(p) \/ Enter(p) \/ Defer(p) \/ Pause(p) \/ Expire(p) \/ Claim(p)
    \/ CheckOwner(p) \/ Credential(p) \/ Answer(p) \/ Settle(p) \/ After(p)
    \/ Remove(p) \/ Fail(p) \/ GiveUp(p)
LateStep == LateAnswer \/ LateEnter \/ LateRelease
ExclusiveStep ==
    \/ Take \/ ReadAccount \/ Recover \/ EndWork \/ Finish
    \/ Enqueue \/ Retry \/ Discard
Scheduling(p) == ScheduleRead(p) \/ ScheduleAlarm(p)

Next ==
    \/ ExclusiveStep \/ LateStep
    \/ \E p \in Workers : AttemptStep(p) \/ Timeout(p)
    \/ \E p \in Processes : Scheduling(p)
    \/ \E j \in Jobs : \/ Prompted(j) \/ CaptureSave(j) \/ Due(j) \/ Age(j)
                       \/ AskFor("retry", j) \/ AskFor("discard", j)
    \/ SignOut \/ \E u \in Users : SignIn(u) \/ \E i \in Instances : SetInstance(i)
    \/ AlarmFires \/ Suspend \/ Exit \/ StartWorker

Spec == Init /\ [][Next]_vars

-----------------------------------------------------------------------------
(* Properties.                                                             *)

(* A capture that was acknowledged stays in the queue until it landed, was  *)
(* discarded or was reclaimed: no write of a queue read earlier, no crash   *)
(* and no change of account loses it.                                       *)
CapturesKept == \A j \in kept \ ended : j \in Present(jobs)

(* A save that landed and was removed, or was discarded or reclaimed, is    *)
(* never written back by an attempt, its late settlement or a recovery that *)
(* read the queue while the save was still there.                           *)
NoResurrection == ended \cap Present(jobs) = {}

(* A save reaches one account at most, on the instance it was captured for, *)
(* and that of its capture if it was made signed in - whatever the          *)
(* connection was changed to between two reads of it.                       *)
LandsWhereCaptured ==
    \A a \in landed :
        /\ a[2][1] = capture[a[1]][1]
        /\ capture[a[1]][2] \in {None, a[2][2]}
        /\ \A b \in landed : a[1] = b[1] => a[2] = b[2]

(* No save is attempted more often than the limit between a capture and the *)
(* user's retry, however often the browser ends in the middle.              *)
AttemptsBounded == \A j \in Jobs : begun[j] <= scope.attempts

(* A suspended worker that has something to do will be woken. *)
AlarmArmed == worker = "suspended" /\ Waking(jobs) # {} => alarm
=============================================================================
