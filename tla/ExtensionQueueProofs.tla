------------------------ MODULE ExtensionQueueProofs ------------------------
(***************************************************************************)
(* Theorems about the save queue of the extension, for any captures,        *)
(* accounts and limits, however often the browser ends, the connection      *)
(* changes, an account check fails or an attempt times out: its types,      *)
(* where saves land, their attempts and the alarm; and, where no attempt    *)
(* times out or there is one capture, that captures are kept.               *)
(***************************************************************************)
EXTENDS ExtensionQueueRefinement, SequenceTheorems, FiniteSetTheorems, TLAPS

(* The four processes are told apart. *)
LEMMA ProcessesDiffer ==
    /\ First # Second /\ First # Late /\ First # Exclusive
    /\ Second # Late /\ Second # Exclusive /\ Late # Exclusive
    /\ None \notin Processes /\ First \in Workers /\ Second \in Workers
<1>0. /\ None \notin Processes /\ First \in Workers /\ Second \in Workers
      /\ Cardinality(Processes) = 4
  BY ExtensionQueueAssumption DEF Workers, Processes
<1>1. \A a, b, c : Cardinality({a, b, c}) # 4
  <2> TAKE a, b, c
  <2>1. IsFiniteSet({a}) /\ Cardinality({a}) = 1
    BY FS_Singleton
  <2>2. IsFiniteSet({a, b}) /\ Cardinality({a, b}) \in {1, 2}
    <3>1. {a} \cup {b} = {a, b}
      OBVIOUS
    <3> QED BY <2>1, <3>1, FS_AddElement
  <2>3. {a, b} \cup {c} = {a, b, c}
    OBVIOUS
  <2>4. Cardinality({a, b, c}) \in {1, 2, 3}
    BY <2>2, <2>3, FS_AddElement
  <2> QED BY <2>4
<1>2. Processes = {First, Second, Late, Exclusive}
  BY DEF Processes, Workers
<1>3. \A a, b, c : Processes # {a, b, c}
  BY <1>0, <1>1
<1>4. First # Second
  BY <1>0, <1>2, <1>3
<1>5. First # Late
  BY <1>0, <1>2, <1>3
<1>6. First # Exclusive
  BY <1>0, <1>2, <1>3
<1>7. Second # Late
  BY <1>0, <1>2, <1>3
<1>8. Second # Exclusive
  BY <1>0, <1>2, <1>3
<1>9. Late # Exclusive
  BY <1>0, <1>2, <1>3
<1> QED BY <1>0, <1>4, <1>5, <1>6, <1>7, <1>8, <1>9

-----------------------------------------------------------------------------
(* What the operators on rows make of a row.                                *)

States == {"absent", "awaiting-auth", "pending", "processing", "failed", "paused"}

LEMMA ScopeFacts ==
    ASSUME scope \in Scopes
    PROVE  /\ scope.attempts \in Nat /\ scope.attempts >= 1 /\ scope.exits \in Nat
           /\ scope.captures \in Nat /\ scope.sessions \in Nat /\ scope.queue \in Nat
           /\ scope.timeouts \in BOOLEAN /\ scope.checks \in BOOLEAN /\ scope.ageing \in BOOLEAN
  BY ExtensionQueueAssumption DEF Scope

LEMMA RowFields ==
    ASSUME NEW row \in Row
    PROVE  /\ row.state \in States /\ row.owner \in Accounts \cup {None}
           /\ row.target \in Instances \cup {None} /\ row.attempts \in Nat
           /\ row.due \in BOOLEAN /\ row.token \in Tokens \cup {0}
           /\ row.settling \in BOOLEAN /\ row.age \in 0 .. 2
  BY DEF Row, States

Like(made, row) == made.owner = row.owner /\ made.target = row.target

LEMMA NoRowMade == NoRow \in Row /\ NoRow.state = "absent" /\ NoRow.attempts = 0
  BY DEF NoRow, Row

LEMMA RowEnded ==
    ASSUME NEW row \in Row, NEW state \in States
    PROVE  /\ Ended(row, state) \in Row /\ Like(Ended(row, state), row)
           /\ Ended(row, state).state = state /\ Ended(row, state).attempts = row.attempts
<1> DEFINE age == IF row.age = 0 THEN 0 ELSE 1
           made == [row EXCEPT !.state = state, !.due = TRUE, !.token = 0,
                               !.settling = FALSE, !.age = age]
<1>1. age \in 0 .. 2
  OBVIOUS
<1>2. Ended(row, state) = made
  BY DEF Ended, Row
<1> HIDE DEF age
<1>3. made \in Row
  BY <1>1 DEF Row, States
<1>4. /\ Like(Ended(row, state), row)
      /\ Ended(row, state).state = state /\ Ended(row, state).attempts = row.attempts
  BY DEF Ended, Row, Like
<1> QED BY <1>2, <1>3, <1>4

LEMMA RowBackedOff ==
    ASSUME NEW row \in Row
    PROVE  /\ Backoff(row) \in Row /\ Like(Backoff(row), row)
           /\ Backoff(row).state = "pending" /\ Backoff(row).attempts = row.attempts
  BY DEF Backoff, Row, Like

LEMMA RowRetried ==
    ASSUME NEW row \in Row
    PROVE  /\ Retried(row) \in Row /\ Like(Retried(row), row)
           /\ Retried(row).state = "pending" /\ Retried(row).attempts = 0
<1>1. 0 \in 0 .. 2 /\ 0 \in Nat /\ 0 \in Tokens \cup {0}
  BY DEF Row, Tokens
<1>2. Retried(row) \in Row
  BY <1>1 DEF Retried, Row
<1>3. /\ Like(Retried(row), row)
      /\ Retried(row).state = "pending" /\ Retried(row).attempts = 0
  BY DEF Retried, Row, Like
<1> QED BY <1>2, <1>3

LEMMA RowDeferred ==
    ASSUME NEW row \in Row
    PROVE  /\ Deferred(row) \in Row /\ Like(Deferred(row), row)
           /\ Deferred(row).state = row.state /\ Deferred(row).attempts = row.attempts + 1
           /\ Deferred(row).age = row.age
<1>1. row.attempts + 1 \in Nat
  BY DEF Row, Tokens
<1>2. Deferred(row) \in Row
  BY <1>1 DEF Deferred, Row
<1>3. /\ Like(Deferred(row), row)
      /\ Deferred(row).state = row.state /\ Deferred(row).attempts = row.attempts + 1
      /\ Deferred(row).age = row.age
  BY DEF Deferred, Row, Like
<1> QED BY <1>2, <1>3

LEMMA RowClaimed ==
    ASSUME NEW row \in Row, NEW token \in Tokens
    PROVE  /\ Claimed(row, token) \in Row /\ Like(Claimed(row, token), row)
           /\ Claimed(row, token).state = "processing"
           /\ Claimed(row, token).attempts = row.attempts + 1
<1>1. row.attempts + 1 \in Nat /\ token \in Tokens \cup {0}
  BY DEF Row, Tokens
<1>2. Claimed(row, token) \in Row
  BY <1>1 DEF Claimed, Row
<1>3. /\ Like(Claimed(row, token), row)
      /\ Claimed(row, token).state = "processing"
      /\ Claimed(row, token).attempts = row.attempts + 1
  BY DEF Claimed, Row, Like
<1> QED BY <1>2, <1>3

(* Rows that differ by their clocks and their fence only. *)
Alike(made, row) ==
    Like(made, row) /\ made.state = row.state /\ made.attempts = row.attempts

LEMMA RowDue ==
    ASSUME NEW row \in Row
    PROVE  /\ [row EXCEPT !.due = TRUE] \in Row /\ Alike([row EXCEPT !.due = TRUE], row)
           /\ [row EXCEPT !.due = TRUE].token = row.token /\ [row EXCEPT !.due = TRUE].age = row.age
  BY DEF Row, Like, Alike

LEMMA RowAges ==
    ASSUME NEW row \in Row, row.age # 2
    PROVE  /\ [row EXCEPT !.age = @ + 1] \in Row /\ Alike([row EXCEPT !.age = @ + 1], row)
           /\ [row EXCEPT !.age = @ + 1].token = row.token
           /\ [row EXCEPT !.age = @ + 1].age = row.age + 1
  BY DEF Row, Like, Alike

LEMMA RowSettling ==
    ASSUME NEW row \in Row
    PROVE  [row EXCEPT !.settling = TRUE] \in Row /\ Alike([row EXCEPT !.settling = TRUE], row)
  BY DEF Row, Like, Alike

(* A recovery drops a row, keeps it, or makes it pending. *)
LEMMA RowRecovered ==
    ASSUME NEW row \in Row, NEW kind, NEW account \in Accounts \cup {None}
    PROVE  LET made == Recovered(row, kind, account) IN
           /\ made \in Row
           /\ \/ made = row
              \/ made = NoRow
              \/ /\ made.state = "pending" /\ row.state \in {"processing", "paused"}
                 /\ Like(made, row) /\ made.attempts = row.attempts
              \/ /\ made.state = "pending" /\ row.state = "awaiting-auth"
                 /\ account # None /\ row.target = account[1]
                 /\ made.owner = account /\ made.target = row.target
                 /\ made.attempts = row.attempts
<1>1. CASE Expired(row)
  BY <1>1, NoRowMade DEF Recovered
<1>2. CASE ~Expired(row) /\ row.state = "processing" /\ (kind = "startup" \/ row.due)
  BY <1>2, RowFields DEF Recovered, Row, Like
<1>3. CASE ~Expired(row) /\ row.state = "awaiting-auth" /\ account # None /\ row.target = account[1]
  BY <1>3, RowFields DEF Recovered, Row
<1>4. CASE ~Expired(row) /\ row.state = "paused" /\ row.owner = account
  BY <1>4, RowFields DEF Recovered, Row, Like
<1>5. CASE /\ ~Expired(row) /\ ~(row.state = "processing" /\ (kind = "startup" \/ row.due))
           /\ ~(row.state = "awaiting-auth" /\ account # None /\ row.target = account[1])
           /\ ~(row.state = "paused" /\ row.owner = account)
  <2>1. Recovered(row, kind, account) = row
    BY <1>5 DEF Recovered
  <2> QED BY <2>1
<1> QED BY <1>1, <1>2, <1>3, <1>4, <1>5

LEMMA RowAdmitted ==
    ASSUME NEW context \in Instances \X (Users \cup {None})
    PROVE  /\ Admitted(context) \in Row
           /\ Admitted(context).target = context[1] /\ Admitted(context).attempts = 0
           /\ context[2] = None => /\ Admitted(context).state = "awaiting-auth"
                                   /\ Admitted(context).owner = None
           /\ context[2] # None => /\ Admitted(context).state = "pending"
                                   /\ Admitted(context).owner = context
<1>1. context[1] \in Instances /\ context[2] \in Users \cup {None}
  OBVIOUS
<1>2. context[2] # None => context \in Accounts
  BY DEF Accounts
<1> DEFINE owner == IF context[2] = None THEN None ELSE context
           state == IF context[2] = None THEN "awaiting-auth" ELSE "pending"
           made == [NoRow EXCEPT !.target = context[1], !.owner = owner, !.state = state,
                                 !.due = TRUE]
<1>3. owner \in Accounts \cup {None} /\ state \in {"awaiting-auth", "pending"}
  BY <1>2
<1>4. Admitted(context) = made
  BY DEF Admitted
<1>5. context[2] = None => state = "awaiting-auth" /\ owner = None
  OBVIOUS
<1>6. context[2] # None => state = "pending" /\ owner = context
  OBVIOUS
<1> HIDE DEF owner, state
<1>7. made \in Row
  BY <1>1, <1>3, NoRowMade DEF Row
<1>8. made.state = state /\ made.owner = owner /\ made.target = context[1] /\ made.attempts = 0
  BY NoRowMade DEF Row
<1> QED BY <1>4, <1>5, <1>6, <1>7, <1>8
-----------------------------------------------------------------------------
(* Types and control.                                                       *)

(* A request of the user, and of a capture, names its capture. *)
Needing == {"enqueue", "retry", "discard", "enqueued"}
Good == {r \in Request : r.kind \in Needing => r.job \in Jobs}

(* What a worker has not claimed yet. *)
PreClaim == {"check", "defer", "pause", "expire", "claim"}

AttemptOK(a) ==
    /\ a.pc = "idle" => a = NoAttempt
    /\ a.pc # "idle" => a.job \in Jobs /\ a.row.state \in {"pending", "processing"}
    /\ a.pc \in PreClaim => a.row.state = "pending"
    /\ a.pc = "fail" => a.row.state = "processing"
    /\ a.upload = "sent" => a.pc = "upload" /\ a.account = a.row.owner

Contexts == Instances \X (Users \cup {None})

ConnectionTypes ==
    /\ alarm \in BOOLEAN /\ instance \in Instances /\ user \in Users \cup {None}
    /\ worker \in {"up", "suspended", "exited"} /\ published \in BOOLEAN
    /\ prompting \subseteq Jobs /\ requests \in Seq(Good)
    /\ exits \in 0 .. scope.exits /\ sessions \in 0 .. scope.sessions

RunningTypes ==
    /\ x \in Operation /\ w \in [Workers -> Attempt] /\ late \in LateAttempt
    /\ chain \in Workers \cup {Late, None}
    /\ sched \in [Processes -> {"no", "read", "arm", "clear"}]

HistoryTypes ==
    /\ capture \in [Jobs -> Contexts \cup {None}]
    /\ kept \subseteq Jobs /\ ended \subseteq Jobs
    /\ begun \in [Jobs -> Nat] /\ landed \subseteq Jobs \X (Accounts \cup {None})

(* A worker is active during a recovery pass only, with a save that the pass *)
(* has no longer to attempt, and holds the mutation chain to write.          *)
WorkerOK(p) ==
    /\ AttemptOK(w[p])
    /\ w[p].pc # "idle" \/ chain = p => x.pc = "work"
    /\ w[p].pc # "idle" => w[p].job \notin x.left
    /\ w[p].pc = "settle" => late.pc = "settling" /\ late.job = w[p].job
    /\ chain = p /\ sched[p] = "no" => w[p].pc \in Mutations

JobsDiffer ==
    w[First].pc # "idle" /\ w[Second].pc # "idle" => w[First].job # w[Second].job

LateOK ==
    /\ late.pc # "idle" \/ late.upload = "sent" => late.job \in Jobs
    /\ late.pc = "release" => chain = Late /\ sched[Late] = "no"

Control ==
    /\ x.pc # "idle" => x.request \in Good
    /\ \A p \in Workers : WorkerOK(p)
    /\ JobsDiffer /\ LateOK

FrameInv == scope \in Scopes /\ jobs \in Queue /\ ConnectionTypes /\ RunningTypes /\ HistoryTypes /\ Control

-----------------------------------------------------------------------------
(* Rows.                                                                    *)
Enqueues(r, j) == r.kind = "enqueue" /\ r.job = j
AskedIn(s, j) == \E i \in DOMAIN s : Enqueues(s[i], j)
OnceIn(s, j) == \A i, k \in DOMAIN s : Enqueues(s[i], j) /\ Enqueues(s[k], j) => i = k
Admitting(j) == x.pc \in {"account", "write"} /\ Enqueues(x.request, j)

(* A capture that is not in the queue yet. *)
Ahead(j) == capture[j] = None \/ AskedIn(requests, j) \/ Admitting(j)

(* The accounts a save has reached, or may yet reach. *)
Sending(a, j, account) == a.pc = "upload" /\ a.job = j /\ a.row.owner = account
Reaches(j, account) ==
    \/ <<j, account>> \in landed
    \/ \E p \in Workers : Sending(w[p], j, account)
    \/ late.upload = "sent" /\ late.job = j /\ late.account = account

GivingUp(j) == \E p \in Workers : w[p].pc = "giveup" /\ w[p].job = j

Fits(row, context) ==
    /\ row.target = context[1]
    /\ row.state = "awaiting-auth" => row.owner = None /\ context[2] = None
    /\ row.state # "awaiting-auth" =>
         /\ row.owner # None /\ row.owner[1] = row.target
         /\ context[2] \in {None, row.owner[2]}

(* A row's attempts cover those begun; they exceed the limit only by those  *)
(* an exit cut short, and by one that is about to fail or has failed.       *)
Bounded(j, row) ==
    \/ row.attempts <= scope.attempts + exits
    \/ /\ row.attempts <= scope.attempts + exits + 1
       /\ row.state = "failed" \/ (row.state = "pending" /\ GivingUp(j))

RowOK(j, row) ==
    row.state # "absent" =>
        /\ ~Ahead(j) /\ Fits(row, capture[j])
        /\ begun[j] <= row.attempts /\ Bounded(j, row)
        /\ \A a \in Accounts : Reaches(j, a) => row.owner = a

(* The copies of a row that may still be written. *)
Copy(j, row) ==
    \/ row = jobs[j]
    \/ x.pc \in {"account", "write"} /\ row = x.seen[j]
    \/ late.pc = "release" /\ row = late.seen[j]
    \/ \E p \in Workers : chain = p /\ row = w[p].seen[j]
    \/ \E p \in Workers : w[p].pc # "idle" /\ w[p].job = j /\ row = w[p].row

RowsOK ==
    \A j \in Jobs :
        /\ RowOK(j, jobs[j])
        /\ x.pc \in {"account", "write"} => RowOK(j, x.seen[j])
        /\ late.pc = "release" => RowOK(j, late.seen[j])
        /\ \A p \in Workers :
             /\ chain = p => RowOK(j, w[p].seen[j])
             /\ w[p].pc # "idle" /\ w[p].job = j => RowOK(j, w[p].row)

AsksOK ==
    \A j \in Jobs :
        /\ AskedIn(requests, j) \/ Admitting(j) => capture[j] # None
        /\ Admitting(j) => ~AskedIn(requests, j)
        /\ OnceIn(requests, j)

Early == \A j \in Jobs : Ahead(j) =>
            /\ begun[j] = 0 /\ j \notin kept \cup ended
            /\ \A a \in Accounts : ~Reaches(j, a)

ReachOK ==
    \A j \in Jobs, a \in Accounts : Reaches(j, a) =>
        /\ a[1] = capture[j][1] /\ capture[j][2] \in {None, a[2]}
        /\ \A b \in Accounts : Reaches(j, b) => a = b

LandedOK ==
    landed \subseteq Jobs \X Accounts /\ (late.upload = "sent" => late.account \in Accounts)

(* What a worker that may write has read is as it was, and a row that is     *)
(* claimed at the limit is not pending, so that its claim will not apply.   *)
SeenStates == \A p \in Workers : chain = p /\ sched[p] = "no" =>
                 \A j \in Jobs : w[p].seen[j].state = jobs[j].state
Unclaimed == \A p \in Workers :
    w[p].pc \in PreClaim /\ late.pc # "idle" /\ late.job = w[p].job =>
        jobs[w[p].job].state = "pending"
Spent == \A p \in Workers :
    w[p].pc = "claim" /\ w[p].row.attempts >= scope.attempts =>
        /\ jobs[w[p].job].state # "pending"
        /\ late.pc # "idle" => late.job # w[p].job
        /\ late.pc = "release" => late.seen[w[p].job].state # "pending"

QueueInv == RowsOK /\ AsksOK /\ Early /\ LandedOK /\ ReachOK /\ SeenStates /\ Unclaimed /\ Spent /\ AttemptsBounded
-----------------------------------------------------------------------------
(* Requests.  What a step leaves of them, but for a new capture's, asks for  *)
(* no admission that was not asked for before.                              *)
Calmer(t, s) ==
    /\ t \in Seq(Good)
    /\ \A j \in Jobs : (AskedIn(t, j) => AskedIn(s, j)) /\ (OnceIn(s, j) => OnceIn(t, j))

LEMMA AskGood ==
    ASSUME NEW kind \in Kinds, NEW j \in Jobs \cup {None}, NEW o \in Accounts \cup {None},
           kind \in Needing => j \in Jobs
    PROVE  Ask(kind, j, o) \in Good /\ Ask(kind, j, o).kind = kind /\ Ask(kind, j, o).job = j
  BY DEF Ask, Good, Request

LEMMA GoodFacts ==
    /\ Startup \in Good /\ Startup.kind = "startup"
    /\ Ask("alarm", None, None) \in Good /\ Ask("alarm", None, None).kind = "alarm"
<1>1. /\ Ask("startup", None, None) \in Good /\ Ask("startup", None, None).kind = "startup"
  BY AskGood DEF Kinds, Needing
<1>2. /\ Ask("alarm", None, None) \in Good /\ Ask("alarm", None, None).kind = "alarm"
  BY AskGood DEF Kinds, Needing
<1> QED BY <1>1, <1>2 DEF Startup

LEMMA CalmSame == ASSUME NEW s \in Seq(Good) PROVE Calmer(s, s)
  BY DEF Calmer

LEMMA AppendGood ==
    ASSUME NEW s \in Seq(Good), NEW r \in Good
    PROVE  /\ Append(s, r) \in Seq(Good)
           /\ \A j \in Jobs :
                /\ AskedIn(Append(s, r), j) => AskedIn(s, j) \/ Enqueues(r, j)
                /\ OnceIn(s, j) /\ ~(AskedIn(s, j) /\ Enqueues(r, j)) => OnceIn(Append(s, r), j)
<1>1. /\ Append(s, r) \in Seq(Good) /\ Len(Append(s, r)) = Len(s) + 1
      /\ \A i \in 1 .. Len(s) : Append(s, r)[i] = s[i]
      /\ Append(s, r)[Len(s) + 1] = r
  BY AppendProperties
<1>2. DOMAIN s = 1 .. Len(s) /\ Len(s) \in Nat
  BY LenProperties
<1>3. DOMAIN Append(s, r) = 1 .. Len(s) + 1
  BY <1>1, LenProperties
<1>4. \A i \in DOMAIN Append(s, r) : \/ i \in DOMAIN s /\ Append(s, r)[i] = s[i]
                                     \/ i = Len(s) + 1 /\ Append(s, r)[i] = r
  BY <1>1, <1>2, <1>3
<1>5. ASSUME NEW j \in Jobs, AskedIn(Append(s, r), j) PROVE AskedIn(s, j) \/ Enqueues(r, j)
  BY <1>4, <1>5 DEF AskedIn
<1>6. ASSUME NEW j \in Jobs, OnceIn(s, j), ~(AskedIn(s, j) /\ Enqueues(r, j))
      PROVE  OnceIn(Append(s, r), j)
  BY <1>4, <1>6 DEF OnceIn, AskedIn
<1> QED BY <1>1, <1>5, <1>6

LEMMA CalmAppend ==
    ASSUME NEW s \in Seq(Good), NEW r \in Good, r.kind # "enqueue"
    PROVE  Calmer(Append(s, r), s)
  BY AppendGood DEF Calmer, Enqueues

LEMMA TailGood ==
    ASSUME NEW s \in Seq(Good), s # <<>>
    PROVE  /\ Calmer(Tail(s), s) /\ Head(s) \in Good
           /\ \A j \in Jobs :
                Enqueues(Head(s), j) => AskedIn(s, j) /\ (OnceIn(s, j) => ~AskedIn(Tail(s), j))
<1>1. /\ Head(s) \in Good /\ Tail(s) \in Seq(Good) /\ Len(Tail(s)) = Len(s) - 1
      /\ \A i \in 1 .. Len(Tail(s)) : Tail(s)[i] = s[i + 1]
  BY HeadTailProperties
<1>2. /\ DOMAIN s = 1 .. Len(s) /\ Len(s) \in Nat /\ Len(s) >= 1 /\ Head(s) = s[1]
      /\ DOMAIN Tail(s) = 1 .. Len(Tail(s))
  BY <1>1, LenProperties, EmptySeq
<1>3. \A i \in DOMAIN Tail(s) : i + 1 \in DOMAIN s /\ Tail(s)[i] = s[i + 1] /\ i + 1 # 1 /\ i \in Nat
  BY <1>1, <1>2
<1>4. ASSUME NEW j \in Jobs, AskedIn(Tail(s), j) PROVE AskedIn(s, j)
  BY <1>3, <1>4 DEF AskedIn
<1>5. ASSUME NEW j \in Jobs, OnceIn(s, j) PROVE OnceIn(Tail(s), j)
  <2> SUFFICES ASSUME NEW i \in DOMAIN Tail(s), NEW k \in DOMAIN Tail(s),
                      Enqueues(Tail(s)[i], j), Enqueues(Tail(s)[k], j)
               PROVE  i = k
    BY DEF OnceIn
  <2>1. i + 1 = k + 1
    BY <1>3, <1>5 DEF OnceIn
  <2> QED BY <1>3, <2>1
<1>6. ASSUME NEW j \in Jobs, Enqueues(Head(s), j) PROVE AskedIn(s, j)
  BY <1>2, <1>6 DEF AskedIn
<1>7. ASSUME NEW j \in Jobs, Enqueues(Head(s), j), OnceIn(s, j) PROVE ~AskedIn(Tail(s), j)
  <2> SUFFICES ASSUME NEW i \in DOMAIN Tail(s), Enqueues(Tail(s)[i], j) PROVE FALSE
    BY DEF AskedIn
  <2>1. i + 1 = 1
    BY <1>2, <1>3, <1>7 DEF OnceIn
  <2> QED BY <1>3, <2>1
<1> QED BY <1>1, <1>4, <1>5, <1>6, <1>7 DEF Calmer

LEMMA CalmFresh ==
    ASSUME NEW s \in Seq(Good)
    PROVE  /\ Calmer(<<>>, s) /\ Calmer(<<Startup>>, s) /\ Calmer(<<Startup, Startup>>, s)
           /\ Calmer(<<Startup>> \o <<Ask("alarm", None, None)>>, s)
<1> DEFINE wake == Ask("alarm", None, None)
<1>1. Calmer(<<>>, s)
  BY DEF Calmer, AskedIn, OnceIn
<1>2. <<Startup>> = Append(<<>>, Startup)
  OBVIOUS
<1>3. <<Startup, Startup>> = Append(<<Startup>>, Startup)
  OBVIOUS
<1>4. <<Startup>> \o <<wake>> = Append(<<Startup>>, wake)
  OBVIOUS
<1>5. \A t, r : Calmer(t, s) /\ r \in Good /\ r.kind # "enqueue" => Calmer(Append(t, r), s)
  <2> TAKE t, r
  <2> HAVE Calmer(t, s) /\ r \in Good /\ r.kind # "enqueue"
  <2>1. Calmer(Append(t, r), t)
    BY CalmAppend DEF Calmer
  <2> QED BY <2>1 DEF Calmer
<1>6. Calmer(<<Startup>>, s)
  BY <1>1, <1>2, <1>5, GoodFacts
<1>7. Calmer(<<Startup, Startup>>, s)
  BY <1>3, <1>5, <1>6, GoodFacts
<1>8. Calmer(<<Startup>> \o <<wake>>, s)
  BY <1>4, <1>5, <1>6, GoodFacts
<1> QED BY <1>1, <1>6, <1>7, <1>8

LEMMA CalmTwice ==
    ASSUME NEW s \in Seq(Good), NEW r \in Good, r.kind # "enqueue",
           NEW q \in Good, q.kind # "enqueue"
    PROVE  Calmer(Append(Append(s, r), q), s)
<1>1. Calmer(Append(s, r), s)
  BY CalmAppend
<1>2. Calmer(Append(Append(s, r), q), Append(s, r))
  BY <1>1, CalmAppend DEF Calmer
<1> QED BY <1>1, <1>2 DEF Calmer

LEMMA PublishCalm ==
    ASSUME requests \in Seq(Good), NEW asked, Publish(asked),
           asked = <<>> \/ \E r \in Good : r.kind # "enqueue" /\ asked = <<r>>
    PROVE  Calmer(requests', requests) /\ published' \in BOOLEAN
<1> DEFINE base == IF ~published /\ user # None THEN Append(requests, Startup) ELSE requests
<1>1. published' \in BOOLEAN /\ requests' = base \o asked
  BY DEF Publish
<1>2. Calmer(base, requests) /\ base \in Seq(Good)
  BY CalmAppend, CalmSame, GoodFacts DEF Calmer
<1> HIDE DEF base
<1>3. CASE asked = <<>>
  <2>1. requests' = base
    BY <1>1, <1>2, <1>3, ConcatEmptySeq
  <2> QED BY <1>1, <1>2, <2>1
<1>4. ASSUME NEW r \in Good, r.kind # "enqueue", asked = <<r>> PROVE Calmer(requests', requests)
  <2>1. requests' = Append(base, r)
    BY <1>1, <1>2, <1>4, AppendIsConcat
  <2>2. Calmer(Append(base, r), base)
    BY <1>2, <1>4, CalmAppend
  <2> QED BY <1>2, <2>1, <2>2 DEF Calmer
<1> QED BY <1>1, <1>3, <1>4
-----------------------------------------------------------------------------
(* Nothing running. *)
LEMMA NothingTypes ==
    /\ NoQueue \in Queue /\ NoOperation \in Operation /\ NoAttempt \in Attempt
    /\ NoLate \in LateAttempt /\ AttemptOK(NoAttempt)
    /\ \A j \in Jobs : NoQueue[j] = NoRow
<1>1. NoQueue \in Queue /\ \A j \in Jobs : NoQueue[j] = NoRow
  BY NoRowMade DEF NoQueue, Queue
<1>2. NoOperation \in Operation
  BY <1>1 DEF NoOperation, Operation
<1>3. NoAttempt \in Attempt /\ AttemptOK(NoAttempt)
  BY <1>1, NoRowMade DEF NoAttempt, Attempt, Upload, AttemptOK, PreClaim
<1>4. NoLate \in LateAttempt
  BY <1>1 DEF NoLate, LateAttempt, Upload
<1> QED BY <1>1, <1>2, <1>3, <1>4

LEMMA IdleFacts ==
    /\ NoOperation.pc = "idle" /\ NoAttempt.pc = "idle" /\ NoAttempt.job = None
    /\ NoLate.pc = "idle" /\ NoLate.job = None /\ NoAttempt.upload = "none" /\ NoLate.upload = "none"
    /\ NoOperation.left = {} /\ NoAttempt.seen = NoQueue /\ NoAttempt.account = None
  BY DEF NoOperation, NoAttempt, NoLate

LEMMA InitFrame == Init => FrameInv
<1> SUFFICES ASSUME Init PROVE FrameInv
  OBVIOUS
<1>2. requests \in Seq(Good)
  <2>1. Startup \in Good /\ <<>> \in Seq(Good)
    BY GoodFacts, EmptySeq
  <2>2. Append(<<>>, Startup) \in Seq(Good)
    BY <2>1, AppendGood
  <2>3. <<Startup>> = Append(<<>>, Startup)
    OBVIOUS
  <2>4. requests = <<Startup>>
    BY DEF Init
  <2> QED BY <2>2, <2>3, <2>4
<1>1. scope \in Scopes /\ jobs \in Queue
  BY NothingTypes DEF Init
<1>3. ConnectionTypes
  <2>1. /\ alarm \in BOOLEAN /\ instance \in Instances /\ user \in Users \cup {None}
        /\ worker = "up" /\ published \in BOOLEAN /\ prompting \subseteq Jobs
        /\ exits = 0 /\ sessions = 0
    BY DEF Init
  <2> QED BY <1>1, <1>2, <2>1, ScopeFacts DEF ConnectionTypes
<1>4. RunningTypes
  BY NothingTypes DEF RunningTypes, Init
<1>5. HistoryTypes
  BY DEF HistoryTypes, Init
<1> USE DEF Init
<1>6. Control
  BY NothingTypes, IdleFacts, ProcessesDiffer DEF Control, WorkerOK, JobsDiffer, LateOK, Workers, Processes
<1> QED BY <1>1, <1>3, <1>4, <1>5, <1>6 DEF FrameInv

(* Steps outside the chains leave what runs, but for a look at what is due. *)
Turns ==
    \/ UNCHANGED <<chain, sched>>
    \/ \E q \in Processes, s \in {"no", "read", "arm", "clear"} :
          /\ sched[q] # "no" /\ sched' = [sched EXCEPT ![q] = s]
          /\ chain' = chain \/ (s = "no" /\ chain = q /\ chain' = None)
          /\ s = "no" => chain' # q

Outside ==
    /\ UNCHANGED <<x, w, late, kept, ended, begun, landed, exits, scope>>
    /\ jobs' \in Queue /\ \A j \in Jobs : Alike(jobs'[j], jobs[j])
    /\ ConnectionTypes' /\ HistoryTypes' /\ Turns

LEMMA OutsideFrame == FrameInv /\ Outside => FrameInv'
<1> SUFFICES ASSUME FrameInv, Outside PROVE FrameInv'
  OBVIOUS
<1> USE DEF FrameInv, Outside
<1>1. RunningTypes'
  BY DEF RunningTypes, Turns
<1>2. ASSUME NEW p \in Workers PROVE WorkerOK(p)'
  <2>1. chain' = p => chain = p
    BY ProcessesDiffer DEF Turns, Processes
  <2>2. chain' = p /\ sched'[p] = "no" => sched[p] = "no"
    BY DEF Turns, Processes, RunningTypes
  <2>3. WorkerOK(p)
    BY DEF Control
  <2> QED BY <2>1, <2>2, <2>3 DEF WorkerOK
<1>3. LateOK'
  <2>1. late.pc = "release" => chain' = Late /\ sched'[Late] = "no"
    BY DEF Turns, Control, LateOK, RunningTypes, Processes
  <2> QED BY <2>1 DEF Control, LateOK
<1>4. JobsDiffer' /\ (x'.pc # "idle" => x'.request \in Good)
  BY DEF Control, JobsDiffer
<1> QED BY <1>1, <1>2, <1>3, <1>4 DEF Control

LEMMA AuthorityType == ConnectionTypes => Authority \in Accounts \cup {None}
  BY DEF ConnectionTypes, Authority, Accounts

(* A worker's own step, and how it holds the chain and the attempt that      *)
(* timed out.                                                               *)
Holding(p, a) ==
    \/ UNCHANGED <<chain, sched>> /\ w[p].pc \notin Mutations
    \/ chain = None /\ chain' = p /\ sched' = sched /\ a.pc \in Mutations
    \/ chain = p /\ chain' = None /\ sched' = sched
    \/ chain = p /\ chain' = p /\ sched' = [sched EXCEPT ![p] = "read"]

Lateness(p, a) ==
    \/ late' = late /\ (a.pc = "settle" => w[p].pc = "settle")
    \/ /\ late.pc = "idle" /\ late' \in LateAttempt /\ late'.pc = "settling"
       /\ late'.job = w[p].job /\ a.pc = "settle"
    \/ w[p].pc = "settle" /\ late' = [late EXCEPT !.pc = "upload"] /\ a.pc = "idle"

Working(p, a) ==
    /\ w' = [w EXCEPT ![p] = a] /\ a \in Attempt /\ AttemptOK(a)
    /\ w[p].pc # "idle" /\ (a.pc # "idle" => a.job = w[p].job)
    /\ UNCHANGED <<x, scope>> /\ jobs' \in Queue
    /\ ConnectionTypes' /\ HistoryTypes' /\ Holding(p, a) /\ Lateness(p, a)

LEMMA WorkingFrame ==
    ASSUME FrameInv, NEW p \in Workers, NEW a, Working(p, a)
    PROVE  FrameInv'
<1> USE DEF FrameInv, Working
<1>0. /\ p \in Processes /\ p # Late /\ p # None /\ Late # None /\ None \notin Workers /\ Late \notin Workers
      /\ Workers = {First, Second}
  BY ProcessesDiffer DEF Processes, Workers
<1>1. late' \in LateAttempt
  BY DEF Lateness, LateAttempt, RunningTypes
<1>2. RunningTypes'
  BY <1>0, <1>1 DEF RunningTypes, Holding
<1>3. WorkerOK(p) /\ late.pc \in {"idle", "settling", "upload", "release"}
  BY DEF Control, RunningTypes, LateAttempt
<1>4. w'[p] = a /\ \A q \in Workers \ {p} : w'[q] = w[q]
  BY DEF RunningTypes
<1>5. WorkerOK(p)'
  <2>1. a.pc # "idle" => a.job = w[p].job /\ x.pc = "work" /\ a.job \notin x.left
    BY <1>3 DEF WorkerOK
  <2>2. chain' = p => x.pc = "work"
    BY <1>3 DEF WorkerOK
  <2>3. a.pc = "settle" => late'.pc = "settling" /\ late'.job = w[p].job
    BY <1>3 DEF WorkerOK, Lateness
  <2>4. chain' = p /\ sched'[p] = "no" => a.pc \in Mutations
    BY <1>0, <1>3 DEF Holding, WorkerOK, RunningTypes
  <2> QED BY <1>4, <2>1, <2>2, <2>3, <2>4 DEF WorkerOK, Mutations
<1>6. ASSUME NEW q \in Workers, q # p PROVE WorkerOK(q)'
  <2>1. WorkerOK(q) /\ w'[q] = w[q]
    BY <1>4, <1>6 DEF Control
  <2>2. w[q].pc = "settle" => late' = late
    <3>1. w[q].pc = "settle" /\ w[p].pc = "settle" => FALSE
      BY <1>0, <1>3, <1>6, <2>1 DEF WorkerOK, Control, JobsDiffer
    <3> QED BY <2>1, <3>1 DEF WorkerOK, Lateness
  <2>3. chain' = q => chain = q /\ sched'[q] = sched[q]
    BY <1>0, <1>6 DEF Holding, RunningTypes
  <2> QED BY <2>1, <2>2, <2>3 DEF WorkerOK
<1>7. JobsDiffer'
  BY <1>0, <1>4 DEF JobsDiffer, Control
<1>8. LateOK'
  <2>1. late'.pc = "release" => late' = late
    BY <1>1 DEF Lateness, LateAttempt, RunningTypes
  <2>2. late.pc = "release" => chain' = Late /\ sched'[Late] = "no"
    BY <1>0 DEF Holding, RunningTypes, Control, LateOK, Processes
  <2>3. late'.pc # "idle" \/ late'.upload = "sent" => late'.job \in Jobs
    BY <1>3 DEF Lateness, RunningTypes, LateAttempt, Control, LateOK, WorkerOK, AttemptOK
  <2> QED BY <2>1, <2>2, <2>3 DEF LateOK
<1>9. x'.pc # "idle" => x'.request \in Good
  BY DEF Control
<1> QED BY <1>2, <1>5, <1>6, <1>7, <1>8, <1>9 DEF Control
(* An operation on the exclusive chain is alone with it. *)
Operating ==
    /\ UNCHANGED <<w, late, chain, scope>>
    /\ x' \in Operation /\ (x'.pc # "idle" => x'.request \in Good)
    /\ jobs' \in Queue /\ ConnectionTypes' /\ HistoryTypes'
    /\ \A p \in Workers : w[p].pc = "idle" /\ chain # p
    /\ sched' = sched \/ sched' = [sched EXCEPT ![Exclusive] = "read"]

LEMMA OperatingFrame == FrameInv /\ Operating => FrameInv'
<1> SUFFICES ASSUME FrameInv, Operating PROVE FrameInv'
  OBVIOUS
<1> USE DEF FrameInv, Operating
<1>1. RunningTypes'
  BY DEF RunningTypes
<1>2. ASSUME NEW p \in Workers PROVE WorkerOK(p)'
  <2>1. WorkerOK(p)
    BY DEF Control
  <2> QED BY <2>1 DEF WorkerOK
<1>3. LateOK'
  BY ProcessesDiffer DEF LateOK, Control, RunningTypes, Processes
<1>4. JobsDiffer'
  BY DEF JobsDiffer, Control
<1> QED BY <1>1, <1>2, <1>3, <1>4 DEF Control

(* The attempt that timed out goes on. *)
LateMoves ==
    /\ UNCHANGED <<x, w, scope>> /\ jobs' \in Queue /\ ConnectionTypes' /\ HistoryTypes'
    /\ \/ late.pc # "idle" /\ late' = [late EXCEPT !.upload = "over"] /\ UNCHANGED <<chain, sched>>
       \/ /\ late.pc = "upload" /\ late' = [late EXCEPT !.pc = "release", !.seen = jobs]
          /\ chain = None /\ chain' = Late /\ sched' = sched /\ sched[Late] = "no"
       \/ /\ late.pc = "release" /\ late' = NoLate
          /\ \/ chain' = None /\ sched' = sched
             \/ chain' = chain /\ sched' = [sched EXCEPT ![Late] = "read"]

LEMMA LateFrame == FrameInv /\ LateMoves => FrameInv'
<1> SUFFICES ASSUME FrameInv, LateMoves PROVE FrameInv'
  OBVIOUS
<1> USE DEF FrameInv, LateMoves
<1>0. late.pc = "release" => chain = Late
  BY DEF Control, LateOK
<1>1. late' \in LateAttempt
  BY NothingTypes DEF LateAttempt, RunningTypes, Upload
<1>2. RunningTypes'
  BY <1>1 DEF RunningTypes
<1>3. ASSUME NEW p \in Workers PROVE WorkerOK(p)'
  <2>0. WorkerOK(p) /\ p # Late /\ p # None
    BY ProcessesDiffer DEF Control, Processes, Workers
  <2>1. w[p].pc = "settle" => late'.pc = "settling" /\ late'.job = w[p].job
    BY <2>0 DEF WorkerOK, LateAttempt, RunningTypes
  <2>2. chain' = p => chain = p /\ sched'[p] = sched[p]
    BY <1>0, <2>0 DEF RunningTypes
  <2> QED BY <2>0, <2>1, <2>2 DEF WorkerOK
<1>4. LateOK'
  BY <1>0, IdleFacts DEF LateOK, Control, RunningTypes, LateAttempt
<1>5. JobsDiffer' /\ (x'.pc # "idle" => x'.request \in Good)
  BY DEF JobsDiffer, Control
<1> QED BY <1>2, <1>3, <1>4, <1>5 DEF Control

Forgetting == Forget /\ UNCHANGED <<jobs, scope>> /\ ConnectionTypes' /\ HistoryTypes'

LEMMA ForgettingFrame == FrameInv /\ Forgetting => FrameInv'
<1> SUFFICES ASSUME FrameInv, Forgetting PROVE FrameInv'
  OBVIOUS
<1> USE DEF FrameInv, Forgetting, Forget
<1>1. RunningTypes'
  BY NothingTypes DEF RunningTypes
<1>2. \A p \in Workers : w'[p] = NoAttempt /\ chain' # p
  BY ProcessesDiffer DEF Processes
<1>3. ASSUME NEW p \in Workers PROVE WorkerOK(p)'
  BY <1>2, NothingTypes, IdleFacts DEF WorkerOK
<1>4. JobsDiffer' /\ LateOK' /\ (x'.pc # "idle" => x'.request \in Good)
  BY <1>2, IdleFacts, ProcessesDiffer DEF JobsDiffer, LateOK
<1> QED BY <1>1, <1>3, <1>4 DEF Control

LEMMA StartJobFrame ==
    ASSUME FrameInv, NEW p \in Workers, NEW j \in Jobs, StartJob(p, j)
    PROVE  /\ FrameInv' /\ chain # p
           /\ w' = [w EXCEPT ![p] = w'[p]] /\ w'[p].seen = NoQueue
           /\ (w'[p] = NoAttempt \/ (/\ w'[p].pc = "check" /\ w'[p].job = j /\ w'[p].row = jobs[j]
                                    /\ jobs[j].state = "pending"))
<1> USE DEF FrameInv, StartJob
<1> DEFINE a == [NoAttempt EXCEPT !.pc = "check", !.job = j, !.row = jobs[j]]
<1>1. jobs[j] \in Row
  BY DEF Queue
<1>2. /\ a \in Attempt /\ a.pc = "check" /\ a.job = j /\ a.row = jobs[j] /\ a.upload = "none"
      /\ a.seen = NoQueue
  BY <1>1, NothingTypes, IdleFacts DEF Attempt
<1> HIDE DEF a
<1>3. x' \in Operation /\ x'.pc = "work" /\ x'.request = x.request /\ x'.left = x.left \ {j}
      /\ j \in x.left
  BY DEF RunningTypes, Operation
<1>4. (w' = [w EXCEPT ![p] = a] /\ jobs[j].state = "pending") \/ w' = w
  BY DEF a
<1>5. /\ jobs' = jobs /\ scope' = scope /\ ConnectionTypes' /\ HistoryTypes'
      /\ late' = late /\ chain' = chain /\ sched' = sched
  BY DEF ConnectionTypes, HistoryTypes, stored, connection, bounds, chains, history
<1>6. RunningTypes'
  BY <1>2, <1>3, <1>4, <1>5 DEF RunningTypes
<1>7. WorkerOK(p) /\ w[p].pc = "idle" /\ sched[p] = "no"
  BY DEF Control, Ready
<1>8. chain # p
  BY <1>7 DEF WorkerOK, Mutations
<1>9. ASSUME w' = [w EXCEPT ![p] = a], jobs[j].state = "pending" PROVE WorkerOK(p)'
  <2>1. w'[p] = a
    BY <1>9 DEF RunningTypes
  <2>2. AttemptOK(a)
    BY <1>2, <1>9 DEF AttemptOK
  <2> QED BY <1>2, <1>3, <1>5, <1>8, <2>1, <2>2 DEF WorkerOK, Mutations
<1>10. ASSUME NEW q \in Workers, w'[q] = w[q] PROVE WorkerOK(q)'
  BY <1>3, <1>5, <1>10 DEF WorkerOK, Control
<1>11. ASSUME NEW q \in Workers PROVE WorkerOK(q)'
  <2>1. CASE w' = w
    BY <2>1, <1>10
  <2>2. CASE w' # w
    <3>1. CASE q = p
      BY <1>4, <1>9, <2>2, <3>1
    <3>2. CASE q # p
      BY <1>4, <1>10, <2>2, <3>2 DEF RunningTypes
    <3> QED BY <3>1, <3>2
  <2> QED BY <2>1, <2>2
<1>12. JobsDiffer'
  <2>1. \A q \in Workers \ {p} : w'[q] = w[q] /\ (w[q].pc # "idle" => w[q].job # j)
    BY <1>3, <1>4 DEF RunningTypes, Control, WorkerOK
  <2>2. w'[p] = a \/ w'[p].pc = "idle"
    BY <1>4, <1>7 DEF RunningTypes
  <2> QED BY <1>2, <2>1, <2>2, ProcessesDiffer DEF JobsDiffer, Workers
<1>13. LateOK' /\ (x'.pc # "idle" => x'.request \in Good)
  BY <1>3, <1>5 DEF LateOK, Control
<1>14. FrameInv'
  BY <1>5, <1>6, <1>11, <1>12, <1>13 DEF Control
<1>15. w' = [w EXCEPT ![p] = w'[p]]
  BY <1>4 DEF RunningTypes
<1>16. w[p] = NoAttempt
  BY <1>7 DEF WorkerOK, AttemptOK
<1>17. /\ w'[p] = NoAttempt \/ (w'[p] = a /\ jobs[j].state = "pending")
  BY <1>4, <1>16 DEF RunningTypes
<1> QED BY <1>2, <1>8, <1>14, <1>15, <1>17, IdleFacts
-----------------------------------------------------------------------------
(* The steps of a worker.  What reaches an account is what was sent.        *)
Sends(p) ==
    /\ landed' = landed \/ (w[p].upload = "sent"
                            /\ landed' = landed \cup {<<w[p].job, w[p].account>>})
    /\ \/ late'.upload = late.upload /\ late'.job = late.job /\ late'.account = late.account
       \/ late'.upload = w[p].upload /\ late'.job = w[p].job /\ late'.account = w[p].account

(* A step that neither reads nor writes the queue to write it back. *)
Thinking(p, a) ==
    /\ Working(p, a) /\ w[p].pc \in {"check", "upload"}
    /\ UNCHANGED <<jobs, chain, sched, capture, exits, kept, ended, begun>>
    /\ Calmer(requests', requests) /\ Sends(p)
    /\ a.pc # "idle" =>
         a.row = w[p].row \/ (w[p].pc = "upload" /\ a.row = jobs[w[p].job] /\ a.pc \in {"remove", "fail"})
    /\ a.pc = "upload" => w[p].pc = "upload" /\ a.row = w[p].row
    /\ a.pc \in PreClaim => w[p].pc = "check"
    /\ a.pc = "claim" => a.row.attempts < scope.attempts
    /\ a.pc # "giveup"

LEMMA AttemptFacts ==
    ASSUME FrameInv, NEW p \in Workers
    PROVE  /\ w[p] \in Attempt /\ w[p].row \in Row /\ w[p].seen \in Queue
           /\ w[p].pc \in {"idle", "check", "upload"} \cup Mutations /\ w[p].upload \in Upload
           /\ w[p].account \in Accounts \cup {None}
           /\ w[p].pc # "idle" => w[p].job \in Jobs /\ jobs[w[p].job] \in Row
           /\ AttemptOK(w[p]) /\ requests \in Seq(Good)
  BY DEF FrameInv, RunningTypes, Attempt, Control, WorkerOK, AttemptOK, Queue, ConnectionTypes

LEMMA WorkerChange ==
    ASSUME FrameInv, NEW p \in Workers, NEW a, w' = [w EXCEPT ![p] = a]
    PROVE  w'[p] = a /\ \A q \in Workers \ {p} : w'[q] = w[q]
  BY DEF FrameInv, RunningTypes

LEMMA AtFacts ==
    ASSUME NEW a \in Attempt, NEW pc \in Mutations \cup {"upload"},
           NEW p \in Workers, w[p] = a
    PROVE  /\ At(p, pc) \in Attempt /\ At(p, pc).pc = pc /\ At(p, pc).job = a.job
           /\ At(p, pc).row = a.row /\ At(p, pc).seen = NoQueue /\ At(p, pc).upload = "none"
           /\ At(p, pc).account = a.account
  BY NothingTypes DEF At, Attempt, Upload

LEMMA CheckAccountThinks ==
    ASSUME FrameInv, NEW p \in Workers, CheckAccount(p)
    PROVE  Thinking(p, w'[p])
<1>0. PICK account \in {Authority} \cup (IF scope.checks THEN {Unknown} ELSE {}) :
        /\ IF account = Unknown THEN UNCHANGED <<published, requests>> ELSE Publish(<<>>)
        /\ w' = [w EXCEPT ![p] = IF Verdict(w[p].row, account) = "idle" THEN NoAttempt
                                 ELSE [w[p] EXCEPT !.pc = Verdict(w[p].row, account)]]
  BY DEF CheckAccount
<1> DEFINE v == Verdict(w[p].row, account)
           a == IF v = "idle" THEN NoAttempt ELSE [w[p] EXCEPT !.pc = v]
<1>1. v \in {"defer", "idle", "pause", "expire", "claim"}
  BY DEF Verdict
<1>2. v = "claim" => w[p].row.attempts < scope.attempts
  BY AttemptFacts, RowFields, ScopeFacts DEF Verdict, Exhausted, FrameInv
<1>3. w[p].pc = "check" /\ w[p].upload # "sent" /\ w[p].row.state = "pending" /\ w[p].job \in Jobs
  BY AttemptFacts DEF CheckAccount, AttemptOK, PreClaim
<1>4. w' = [w EXCEPT ![p] = a]
  BY <1>0
<1> HIDE DEF v
<1>5. w'[p] = a
  BY <1>4, WorkerChange
<1>6. ASSUME v # "idle"
      PROVE  /\ a \in Attempt /\ a.pc = v /\ a.job = w[p].job /\ a.row = w[p].row
             /\ a.upload = w[p].upload
  BY <1>1, <1>6, AttemptFacts DEF Attempt, Mutations
<1>7. a \in Attempt /\ AttemptOK(a) /\ (a.pc # "idle" => a.job = w[p].job /\ a.row = w[p].row /\ a.pc = v)
  <2>1. CASE v = "idle"
    <3>1. a = NoAttempt
      BY <2>1
    <3> QED BY <3>1, NothingTypes, IdleFacts
  <2>2. CASE v # "idle"
    <3> HIDE DEF a
    <3>1. AttemptOK(a)
      BY <1>1, <1>3, <1>6, <2>2 DEF AttemptOK, PreClaim
    <3> QED BY <1>6, <2>2, <3>1
  <2> QED BY <2>1, <2>2
<1> HIDE DEF a
<1>8. Calmer(requests', requests) /\ published' \in BOOLEAN
  BY <1>0, PublishCalm, CalmSame, AttemptFacts DEF FrameInv, ConnectionTypes
<1>9. UNCHANGED <<jobs, alarm, instance, user, sessions, worker, exits, scope, prompting, x, late,
                  chain, sched, capture, kept, ended, begun, landed>>
  BY DEF CheckAccount, stored, connection, bounds, history
<1>10. ConnectionTypes' /\ HistoryTypes' /\ jobs' \in Queue
  BY <1>8, <1>9 DEF FrameInv, ConnectionTypes, HistoryTypes, Calmer
<1>11. Holding(p, a)
  BY <1>3, <1>9 DEF Holding, Mutations
<1>12. a.pc \in {"idle", "defer", "pause", "expire", "claim"}
  BY <1>1, <1>7
<1>13. Lateness(p, a)
  BY <1>9, <1>12 DEF Lateness
<1>14. Working(p, a)
  BY <1>3, <1>4, <1>7, <1>9, <1>10, <1>11, <1>13 DEF Working
<1>15. a.pc = "claim" => a.row.attempts < scope.attempts
  BY <1>2, <1>7
<1>16. Sends(p)
  BY <1>9 DEF Sends
<1> QED BY <1>3, <1>5, <1>7, <1>8, <1>9, <1>12, <1>14, <1>15, <1>16 DEF Thinking

LEMMA UploadingThinks ==
    ASSUME FrameInv, NEW p \in Workers, NEW a \in Attempt, w[p].pc = "upload",
           a.pc = "upload", a.job = w[p].job, a.row = w[p].row,
           a.upload = "sent" => a.account = a.row.owner, Continue(p, a),
           UNCHANGED <<stored, late, chain, sched, ended, begun>>,
           landed' = landed \/ (w[p].upload = "sent"
                                /\ landed' = landed \cup {<<w[p].job, w[p].account>>})
    PROVE  Thinking(p, w'[p])
<1>1. w' = [w EXCEPT ![p] = a] /\ w'[p] = a
  BY WorkerChange DEF Continue
<1>2. UNCHANGED <<jobs, alarm, instance, user, sessions, worker, exits, scope, prompting, published,
                  requests, x, late, chain, sched, capture, kept, ended, begun>>
  BY DEF Continue, stored, connection, bounds, chains
<1>3. AttemptOK(a) /\ w[p].job \in Jobs /\ w[p].account \in Accounts \cup {None}
  BY AttemptFacts DEF AttemptOK, PreClaim
<1>4. ConnectionTypes' /\ HistoryTypes' /\ jobs' \in Queue
  BY <1>2, <1>3 DEF FrameInv, ConnectionTypes, HistoryTypes
<1>5. Holding(p, a) /\ Lateness(p, a)
  BY <1>2 DEF Holding, Lateness, Mutations
<1>6. Working(p, a)
  BY <1>1, <1>2, <1>3, <1>4, <1>5 DEF Working
<1>7. Calmer(requests', requests)
  BY <1>2, AttemptFacts, CalmSame
<1>8. Sends(p)
  BY <1>2 DEF Sends
<1> QED BY <1>1, <1>2, <1>6, <1>7, <1>8 DEF Thinking, PreClaim

LEMMA CheckOwnerThinks ==
    ASSUME FrameInv, NEW p \in Workers, CheckOwner(p)
    PROVE  Thinking(p, w'[p])
<1>1. PICK u \in {"credential", "failed"} : Continue(p, [w[p] EXCEPT !.upload = u])
  BY DEF CheckOwner
<1> DEFINE a == [w[p] EXCEPT !.upload = u]
<1>2. /\ a \in Attempt /\ a.pc = w[p].pc /\ a.job = w[p].job /\ a.row = w[p].row
      /\ a.upload \in {"credential", "failed"}
  BY AttemptFacts DEF Attempt, Upload
<1>3. Continue(p, a)
  BY <1>1
<1> HIDE DEF a
<1>4. w[p].pc = "upload" /\ UNCHANGED <<stored, late, chain, sched, ended, begun, landed>>
  BY DEF CheckOwner
<1> QED BY <1>2, <1>3, <1>4, UploadingThinks

LEMMA CredentialThinks ==
    ASSUME FrameInv, NEW p \in Workers, Credential(p)
    PROVE  Thinking(p, w'[p])
<1> DEFINE a == IF Authority = w[p].row.owner
                THEN [w[p] EXCEPT !.upload = "sent", !.account = Authority]
                ELSE [w[p] EXCEPT !.upload = "failed"]
<1>0. Authority \in Accounts \cup {None}
  BY AuthorityType DEF FrameInv
<1>2. /\ a \in Attempt /\ a.pc = w[p].pc /\ a.job = w[p].job /\ a.row = w[p].row
      /\ a.upload = "sent" => a.account = a.row.owner
  <2>1. CASE Authority = w[p].row.owner
    BY <1>0, <2>1, AttemptFacts DEF Attempt, Upload
  <2>2. CASE Authority # w[p].row.owner
    BY <2>2, AttemptFacts DEF Attempt, Upload
  <2> QED BY <2>1, <2>2
<1>3. Continue(p, a)
  BY DEF Credential
<1> HIDE DEF a
<1>4. w[p].pc = "upload" /\ UNCHANGED <<stored, late, chain, sched, ended, begun, landed>>
  BY DEF Credential
<1> QED BY <1>2, <1>3, <1>4, UploadingThinks

LEMMA AnswerThinks ==
    ASSUME FrameInv, NEW p \in Workers, Answer(p)
    PROVE  Thinking(p, w'[p])
<1>1. PICK answer \in {"ok", "failed"}, lands \in BOOLEAN :
        /\ landed' = landed \cup (IF lands THEN {<<w[p].job, w[p].account>>} ELSE {})
        /\ Continue(p, [w[p] EXCEPT !.upload = answer])
  BY DEF Answer
<1> DEFINE a == [w[p] EXCEPT !.upload = answer]
<1>2. /\ a \in Attempt /\ a.pc = w[p].pc /\ a.job = w[p].job /\ a.row = w[p].row
      /\ a.upload \in {"ok", "failed"}
  BY AttemptFacts DEF Attempt, Upload
<1>3. Continue(p, a)
  BY <1>1
<1> HIDE DEF a
<1>4. /\ w[p].pc = "upload" /\ w[p].upload = "sent"
      /\ UNCHANGED <<stored, late, chain, sched, ended, begun>>
  BY DEF Answer
<1>5. landed' = landed \/ landed' = landed \cup {<<w[p].job, w[p].account>>}
  BY <1>1
<1> QED BY <1>2, <1>3, <1>4, <1>5, UploadingThinks

LEMMA AfterThinks ==
    ASSUME FrameInv, NEW p \in Workers, After(p)
    PROVE  Thinking(p, w'[p])
<1> DEFINE j == w[p].job
           pc == IF w[p].upload = "ok" THEN "remove" ELSE "fail"
           held == Holds(jobs[j], w[p].row.token)
           a == IF ~held THEN NoAttempt ELSE [At(p, pc) EXCEPT !.row = jobs[j]]
<1>0. w[p].pc = "upload" /\ j \in Jobs /\ jobs[j] \in Row /\ pc \in {"remove", "fail"}
  BY AttemptFacts DEF After
<1>1. Continue(p, a)
  BY DEF After
<1>2. /\ At(p, pc) \in Attempt /\ At(p, pc).pc = pc /\ At(p, pc).job = j
      /\ At(p, pc).upload = "none"
  BY <1>0, AttemptFacts, AtFacts DEF Mutations
<1> HIDE DEF pc
<1>3. a = NoAttempt \/ (/\ a \in Attempt /\ a.pc = pc /\ a.job = j /\ a.row = jobs[j]
                       /\ a.upload = "none" /\ jobs[j].state = "processing")
  BY <1>0, <1>2 DEF Attempt, Holds
<1> HIDE DEF a, held
<1>4. /\ a \in Attempt /\ AttemptOK(a) /\ (a.pc # "idle" => a.job = j /\ a.row = jobs[j])
      /\ a.pc \in {"idle", "remove", "fail"}
  <2>1. CASE a = NoAttempt
    BY <2>1, NothingTypes, IdleFacts
  <2>2. CASE a # NoAttempt
    <3>1. AttemptOK(a)
      BY <1>0, <1>3, <2>2 DEF AttemptOK, PreClaim
    <3> QED BY <1>0, <1>3, <2>2, <3>1
  <2> QED BY <2>1, <2>2
<1>5. w' = [w EXCEPT ![p] = a] /\ w'[p] = a
  BY <1>1, WorkerChange DEF Continue
<1>6. UNCHANGED <<jobs, alarm, instance, user, sessions, worker, exits, scope, prompting, published,
                  requests, x, late, chain, sched, capture, kept, ended, begun, landed>>
  BY <1>1 DEF After, Continue, stored, connection, bounds, chains
<1>7. ConnectionTypes' /\ HistoryTypes' /\ jobs' \in Queue
  BY <1>6 DEF FrameInv, ConnectionTypes, HistoryTypes
<1>8. Holding(p, a) /\ Lateness(p, a)
  BY <1>0, <1>4, <1>6 DEF Holding, Lateness, Mutations
<1>9. Working(p, a)
  BY <1>0, <1>4, <1>5, <1>6, <1>7, <1>8 DEF Working
<1>10. Calmer(requests', requests)
  BY <1>6, AttemptFacts, CalmSame
<1>11. Sends(p)
  BY <1>6 DEF Sends
<1> QED BY <1>0, <1>4, <1>5, <1>6, <1>9, <1>10, <1>11 DEF Thinking, PreClaim

LEMMA TimeoutThinks ==
    ASSUME FrameInv, NEW p \in Workers, Timeout(p)
    PROVE  Thinking(p, w'[p])
<1> DEFINE a == At(p, "settle")
           l == [pc |-> "settling", job |-> w[p].job, token |-> w[p].row.token,
                 account |-> w[p].account, seen |-> NoQueue, upload |-> w[p].upload]
<1>0. /\ w[p].pc = "upload" /\ w[p].job \in Jobs /\ late = NoLate
      /\ w[p].row.state \in {"pending", "processing"}
  BY AttemptFacts DEF Timeout, AttemptOK
<1>1. Continue(p, a) /\ late' = l
  BY DEF Timeout
<1>2. /\ a \in Attempt /\ a.pc = "settle" /\ a.job = w[p].job /\ a.row = w[p].row
      /\ a.upload = "none"
  BY <1>0, AttemptFacts, AtFacts DEF Mutations
<1>3. l \in LateAttempt
  BY <1>0, AttemptFacts, NothingTypes, RowFields DEF LateAttempt
<1>4. late'.pc = "settling" /\ late'.job = w[p].job /\ late'.account = w[p].account /\ late'.upload = w[p].upload
  BY <1>1
<1> HIDE DEF a, l
<1>5. AttemptOK(a)
  BY <1>0, <1>2 DEF AttemptOK, PreClaim
<1>6. w' = [w EXCEPT ![p] = a] /\ w'[p] = a
  BY <1>1, WorkerChange DEF Continue
<1>7. UNCHANGED <<jobs, alarm, instance, user, sessions, worker, exits, scope, prompting, published,
                  requests, x, chain, sched, capture, kept, ended, begun, landed>>
  BY <1>1 DEF Timeout, Continue, stored, connection, bounds, chains
<1>8. ConnectionTypes' /\ HistoryTypes' /\ jobs' \in Queue
  BY <1>7 DEF FrameInv, ConnectionTypes, HistoryTypes
<1>9. Holding(p, a) /\ Lateness(p, a)
  BY <1>0, <1>1, <1>2, <1>3, <1>4, <1>7, IdleFacts DEF Holding, Lateness, Mutations
<1>10. Working(p, a)
  BY <1>0, <1>2, <1>5, <1>6, <1>7, <1>8, <1>9 DEF Working
<1>11. Calmer(requests', requests)
  BY <1>7, AttemptFacts, CalmSame
<1>12. Sends(p)
  BY <1>4, <1>7 DEF Sends
<1> QED BY <1>0, <1>2, <1>6, <1>7, <1>10, <1>11, <1>12 DEF Thinking, PreClaim

(* The head of the mutation chain, and what it writes. *)
LEMMA EnterWorks ==
    ASSUME FrameInv, NEW p \in Workers, Enter(p)
    PROVE  /\ Working(p, w'[p]) /\ w'[p] = [w[p] EXCEPT !.seen = jobs]
           /\ chain = None /\ chain' = p /\ w[p].pc \in Mutations
           /\ UNCHANGED <<jobs, capture, exits, kept, ended, begun, landed, requests, late, sched>>
<1> DEFINE a == [w[p] EXCEPT !.seen = jobs]
<1>0. w[p].pc \in Mutations /\ w[p].pc # "idle" /\ w[p].job \in Jobs /\ chain = None
  BY AttemptFacts DEF Enter, Mutations
<1>1. Continue(p, a) /\ chain' = p
  BY DEF Enter
<1>2. /\ a \in Attempt /\ a.pc = w[p].pc /\ a.job = w[p].job /\ a.row = w[p].row
      /\ a.upload = w[p].upload /\ a.account = w[p].account
  BY AttemptFacts DEF Attempt, FrameInv
<1>3. a = [w[p] EXCEPT !.seen = jobs]
  OBVIOUS
<1> HIDE DEF a
<1>4. AttemptOK(a)
  BY <1>0, <1>2, AttemptFacts DEF AttemptOK
<1>5. w' = [w EXCEPT ![p] = a] /\ w'[p] = a
  BY <1>1, WorkerChange DEF Continue
<1>6. UNCHANGED <<jobs, alarm, instance, user, sessions, worker, exits, scope, prompting, published,
                  requests, x, late, sched, capture, kept, ended, begun, landed>>
  BY <1>1 DEF Enter, Continue, stored, connection, bounds, chains
<1>7. ConnectionTypes' /\ HistoryTypes' /\ jobs' \in Queue
  BY <1>6 DEF FrameInv, ConnectionTypes, HistoryTypes
<1>8. Holding(p, a) /\ Lateness(p, a)
  BY <1>0, <1>1, <1>2, <1>6 DEF Holding, Lateness
<1>9. Working(p, a)
  BY <1>0, <1>2, <1>4, <1>5, <1>6, <1>7, <1>8 DEF Working
<1> QED BY <1>0, <1>1, <1>3, <1>5, <1>6, <1>9

Writing(p, a) ==
    /\ Working(p, a) /\ chain = p /\ sched[p] = "no" /\ w[p].pc \in Mutations
    /\ a.seen = NoQueue /\ a.pc \in {"idle", "giveup", "claim", "upload"}
    /\ UNCHANGED <<capture, exits, kept, landed, requests>>
    /\ late' = late \/ (late.pc = "settling" /\ late' = [late EXCEPT !.pc = "upload"])
    /\ \/ jobs' = jobs /\ chain' = None /\ sched' = sched
       \/ /\ chain' = p /\ sched'[p] = "read"
          /\ \A k \in Jobs \ {w[p].job} : jobs'[k] = w[p].seen[k]

LEMMA MutationWrites ==
    ASSUME FrameInv, NEW p \in Workers, NEW pc \in Mutations, NEW applies, NEW row, NEW then,
           Mutate(p, pc, applies, row, then), applies => row \in Row,
           \/ then = NoAttempt
           \/ /\ then \in Attempt /\ AttemptOK(then) /\ then.job = w[p].job
              /\ then.seen = NoQueue /\ then.pc \in {"giveup", "claim", "upload"},
           begun' \in [Jobs -> Nat], ended' \subseteq Jobs,
           late' = late \/ (pc = "settle" /\ then = NoAttempt /\ late' = [late EXCEPT !.pc = "upload"])
    PROVE  /\ Writing(p, w'[p]) /\ w'[p] = then /\ w[p].pc = pc
           /\ applies => jobs'[w[p].job] = row /\ jobs' = [w[p].seen EXCEPT ![w[p].job] = row]
                         /\ chain' = p
           /\ ~applies => jobs' = jobs /\ chain' = None
<1>0. /\ w[p].pc = pc /\ pc # "idle" /\ w[p].job \in Jobs /\ chain = p /\ sched[p] = "no"
      /\ w[p].seen \in Queue
  BY AttemptFacts DEF Mutate, Ready, Mutations
<1>1. w' = [w EXCEPT ![p] = then] /\ w'[p] = then
  BY WorkerChange DEF Mutate, Continue
<1>2. UNCHANGED <<alarm, instance, user, sessions, worker, exits, scope, prompting, published,
                  requests, x, capture, kept, landed>>
  BY DEF Mutate, Continue, connection, bounds, chains
<1>3. then \in Attempt /\ AttemptOK(then) /\ then.seen = NoQueue
      /\ then.pc \in {"idle", "giveup", "claim", "upload"}
      /\ (then.pc # "idle" => then.job = w[p].job)
  BY NothingTypes, IdleFacts
<1>4. ConnectionTypes' /\ HistoryTypes'
  BY <1>2 DEF FrameInv, ConnectionTypes, HistoryTypes
<1>5. WorkerOK(p)
  BY DEF FrameInv, Control
<1>6. Lateness(p, then)
  BY <1>0, <1>3, IdleFacts DEF Lateness
<1>7. late' = late \/ (late.pc = "settling" /\ late' = [late EXCEPT !.pc = "upload"])
  BY <1>0, <1>5 DEF WorkerOK
<1>8. CASE applies
  <2>1. jobs' = [w[p].seen EXCEPT ![w[p].job] = row] /\ row \in Row /\ chain' = chain
        /\ sched' = [sched EXCEPT ![p] = "read"]
    BY <1>8 DEF Mutate, Reschedule
  <2>2. /\ jobs' \in Queue /\ jobs'[w[p].job] = row
        /\ \A k \in Jobs \ {w[p].job} : jobs'[k] = w[p].seen[k]
    BY <1>0, <2>1 DEF Queue
  <2>3. p \in Processes /\ sched'[p] = "read"
    BY <2>1, ProcessesDiffer DEF Processes, FrameInv, RunningTypes
  <2>4. Holding(p, then)
    BY <1>0, <2>1 DEF Holding
  <2>5. Working(p, then)
    BY <1>0, <1>1, <1>2, <1>3, <1>4, <1>6, <2>2, <2>4 DEF Working
  <2> QED BY <1>0, <1>1, <1>2, <1>3, <1>7, <1>8, <2>1, <2>2, <2>3, <2>5 DEF Writing
<1>9. CASE ~applies
  <2>1. jobs' = jobs /\ chain' = None /\ sched' = sched /\ jobs' \in Queue
    BY <1>9 DEF Mutate, FrameInv
  <2>2. Holding(p, then)
    BY <1>0, <2>1 DEF Holding
  <2>3. Working(p, then)
    BY <1>0, <1>1, <1>2, <1>3, <1>4, <1>6, <2>1, <2>2 DEF Working
  <2> QED BY <1>0, <1>1, <1>2, <1>3, <1>7, <1>9, <2>1, <2>3 DEF Writing
<1> QED BY <1>8, <1>9

LEMMA LatestFacts ==
    ASSUME FrameInv, NEW p \in Workers, w[p].pc # "idle"
    PROVE  Latest(p) \in Row /\ w[p].job \in Jobs /\ Latest(p) = w[p].seen[w[p].job]
  BY AttemptFacts DEF Latest, Queue

LEMMA AtOK ==
    ASSUME FrameInv, NEW p \in Workers, w[p].pc # "idle",
           NEW pc \in {"giveup", "claim"}, pc = "claim" => w[p].row.state = "pending"
    PROVE  /\ At(p, pc) \in Attempt /\ AttemptOK(At(p, pc)) /\ At(p, pc).job = w[p].job
           /\ At(p, pc).seen = NoQueue /\ At(p, pc).pc = pc /\ At(p, pc).row = w[p].row
<1>1. /\ At(p, pc) \in Attempt /\ At(p, pc).pc = pc /\ At(p, pc).job = w[p].job
      /\ At(p, pc).row = w[p].row /\ At(p, pc).seen = NoQueue /\ At(p, pc).upload = "none"
  BY AttemptFacts, AtFacts DEF Mutations
<1>2. w[p].job \in Jobs /\ w[p].row.state \in {"pending", "processing"}
  BY AttemptFacts DEF AttemptOK
<1>3. AttemptOK(At(p, pc))
  BY <1>1, <1>2 DEF AttemptOK, PreClaim
<1> QED BY <1>1, <1>3

LEMMA HistoryStays ==
    ASSUME FrameInv PROVE begun \in [Jobs -> Nat] /\ ended \subseteq Jobs
  BY DEF FrameInv, HistoryTypes

LEMMA DeferWrites ==
    ASSUME FrameInv, NEW p \in Workers, Defer(p)
    PROVE  /\ Writing(p, w'[p]) /\ w[p].pc = "defer" /\ begun' = begun /\ ended' = ended
           /\ StillPending(p) => jobs'[w[p].job] = Deferred(w[p].row) /\ chain' = p
           /\ ~StillPending(p) => jobs' = jobs /\ w'[p].pc = "idle"
           /\ w'[p].pc = "idle" \/ (w'[p].pc = "giveup" /\ w'[p].row = w[p].row)
           /\ StillPending(p) /\ w'[p].pc = "idle" => ~Exhausted(Deferred(w[p].row))
<1> DEFINE row == Deferred(w[p].row)
           then == IF StillPending(p) /\ Exhausted(row) THEN At(p, "giveup") ELSE NoAttempt
<1>0. w[p].pc = "defer" /\ w[p].row \in Row /\ row \in Row
  BY AttemptFacts, RowDeferred DEF Defer, Mutate
<1>1. Mutate(p, "defer", StillPending(p), row, then) /\ UNCHANGED <<late, ended, begun>>
  BY DEF Defer
<1>2. then = NoAttempt \/ (/\ then = At(p, "giveup") /\ StillPending(p) /\ then \in Attempt
                          /\ AttemptOK(then) /\ then.job = w[p].job /\ then.seen = NoQueue
                          /\ then.pc = "giveup" /\ then.row = w[p].row)
  BY <1>0, AtOK
<1>3. StillPending(p) /\ then = NoAttempt => ~Exhausted(row)
  <2>1. StillPending(p) /\ Exhausted(row) => then = At(p, "giveup") /\ At(p, "giveup").pc = "giveup"
    BY <1>0, AtOK
  <2> QED BY <2>1, IdleFacts
<1> HIDE DEF row, then
<1>4. Writing(p, w'[p]) /\ w'[p] = then
      /\ (StillPending(p) => jobs'[w[p].job] = row /\ chain' = p)
      /\ (~StillPending(p) => jobs' = jobs)
  BY <1>0, <1>1, <1>2, MutationWrites, HistoryStays DEF Mutations
<1> QED BY <1>0, <1>1, <1>2, <1>3, <1>4, IdleFacts DEF row

LEMMA PauseWrites ==
    ASSUME FrameInv, NEW p \in Workers, Pause(p)
    PROVE  /\ Writing(p, w'[p]) /\ w[p].pc = "pause" /\ begun' = begun /\ ended' = ended
           /\ StillPending(p) => jobs'[w[p].job] = Ended(Latest(p), "paused") /\ chain' = p
           /\ ~StillPending(p) => jobs' = jobs
           /\ w'[p].pc = "idle"
<1>0. w[p].pc = "pause" /\ Ended(Latest(p), "paused") \in Row
  BY AttemptFacts, LatestFacts, RowEnded DEF Pause, Mutate, States
<1>1. /\ Mutate(p, "pause", StillPending(p), Ended(Latest(p), "paused"), NoAttempt)
      /\ UNCHANGED <<late, ended, begun>>
  BY DEF Pause
<1>2. /\ Writing(p, w'[p]) /\ w'[p] = NoAttempt
      /\ (StillPending(p) => jobs'[w[p].job] = Ended(Latest(p), "paused") /\ chain' = p)
      /\ (~StillPending(p) => jobs' = jobs)
  BY <1>0, <1>1, MutationWrites, HistoryStays DEF Mutations
<1> QED BY <1>0, <1>1, <1>2, IdleFacts

LEMMA GiveUpWrites ==
    ASSUME FrameInv, NEW p \in Workers, GiveUp(p)
    PROVE  /\ Writing(p, w'[p]) /\ w[p].pc = "giveup" /\ begun' = begun /\ ended' = ended
           /\ StillPending(p) => jobs'[w[p].job] = Ended(Latest(p), "failed") /\ chain' = p
           /\ ~StillPending(p) => jobs' = jobs
           /\ w'[p].pc = "idle"
<1>0. w[p].pc = "giveup" /\ Ended(Latest(p), "failed") \in Row
  BY AttemptFacts, LatestFacts, RowEnded DEF GiveUp, Mutate, States
<1>1. /\ Mutate(p, "giveup", StillPending(p), Ended(Latest(p), "failed"), NoAttempt)
      /\ UNCHANGED <<late, ended, begun>>
  BY DEF GiveUp
<1>2. /\ Writing(p, w'[p]) /\ w'[p] = NoAttempt
      /\ (StillPending(p) => jobs'[w[p].job] = Ended(Latest(p), "failed") /\ chain' = p)
      /\ (~StillPending(p) => jobs' = jobs)
  BY <1>0, <1>1, MutationWrites, HistoryStays DEF Mutations
<1> QED BY <1>0, <1>1, <1>2, IdleFacts

LEMMA ExpireWrites ==
    ASSUME FrameInv, NEW p \in Workers, Expire(p)
    PROVE  /\ Writing(p, w'[p]) /\ w[p].pc = "expire" /\ begun' = begun /\ ended' = ended
           /\ StillPending(p) => /\ jobs'[w[p].job] = Ended(Latest(p), "failed") /\ chain' = p
                                 /\ w'[p].pc = "idle"
           /\ ~StillPending(p) => /\ jobs' = jobs /\ w'[p].pc = "claim" /\ w'[p].row = w[p].row
<1>0. /\ w[p].pc = "expire" /\ Ended(Latest(p), "failed") \in Row /\ w[p].row.state = "pending"
  BY AttemptFacts, LatestFacts, RowEnded DEF Expire, Mutate, States, AttemptOK, PreClaim
<1> DEFINE then == IF StillPending(p) THEN NoAttempt ELSE At(p, "claim")
<1>1. /\ Mutate(p, "expire", StillPending(p), Ended(Latest(p), "failed"), then)
      /\ UNCHANGED <<late, ended, begun>>
  BY DEF Expire
<1>2. /\ StillPending(p) => then = NoAttempt
      /\ ~StillPending(p) =>
           /\ then \in Attempt /\ AttemptOK(then) /\ then.job = w[p].job /\ then.seen = NoQueue
           /\ then.pc = "claim" /\ then.row = w[p].row
  BY <1>0, AtOK
<1> HIDE DEF then
<1>3. then = NoAttempt \/ (/\ then \in Attempt /\ AttemptOK(then) /\ then.job = w[p].job
                          /\ then.seen = NoQueue /\ then.pc = "claim")
  BY <1>2
<1>4. /\ Writing(p, w'[p]) /\ w'[p] = then
      /\ (StillPending(p) => jobs'[w[p].job] = Ended(Latest(p), "failed") /\ chain' = p)
      /\ (~StillPending(p) => jobs' = jobs)
  BY <1>0, <1>1, <1>3, MutationWrites, HistoryStays DEF Mutations
<1> QED BY <1>0, <1>1, <1>2, <1>4, IdleFacts

LEMMA SettleWrites ==
    ASSUME FrameInv, NEW p \in Workers, Settle(p)
    PROVE  /\ Writing(p, w'[p]) /\ w[p].pc = "settle" /\ begun' = begun /\ ended' = ended
           /\ StillHeld(p) => /\ jobs'[w[p].job] = [Latest(p) EXCEPT !.settling = TRUE]
                              /\ chain' = p
           /\ ~StillHeld(p) => jobs' = jobs
           /\ w'[p].pc = "idle"
<1>0. w[p].pc = "settle" /\ [Latest(p) EXCEPT !.settling = TRUE] \in Row
  BY AttemptFacts, LatestFacts, RowSettling DEF Settle, Mutate
<1>1. /\ Mutate(p, "settle", StillHeld(p), [Latest(p) EXCEPT !.settling = TRUE], NoAttempt)
      /\ late' = [late EXCEPT !.pc = "upload"] /\ UNCHANGED <<ended, begun>>
  BY DEF Settle
<1>2. /\ Writing(p, w'[p]) /\ w'[p] = NoAttempt
      /\ (StillHeld(p) => jobs'[w[p].job] = [Latest(p) EXCEPT !.settling = TRUE] /\ chain' = p)
      /\ (~StillHeld(p) => jobs' = jobs)
  BY <1>0, <1>1, MutationWrites, HistoryStays DEF Mutations
<1> QED BY <1>0, <1>1, <1>2, IdleFacts

LEMMA RemoveWrites ==
    ASSUME FrameInv, NEW p \in Workers, Remove(p)
    PROVE  /\ Writing(p, w'[p]) /\ w[p].pc = "remove" /\ begun' = begun
           /\ StillHeld(p) => /\ jobs'[w[p].job] = NoRow /\ ended' = ended \cup {w[p].job}
                              /\ chain' = p
           /\ ~StillHeld(p) => jobs' = jobs /\ ended' = ended
           /\ w'[p].pc = "idle"
<1>0. w[p].pc = "remove" /\ w[p].job \in Jobs
  BY AttemptFacts DEF Remove, Mutate
<1>1. /\ Mutate(p, "remove", StillHeld(p), NoRow, NoAttempt)
      /\ ended' = (IF StillHeld(p) THEN ended \cup {w[p].job} ELSE ended) /\ UNCHANGED <<late, begun>>
  BY DEF Remove
<1>2. ended' \subseteq Jobs
  BY <1>0, <1>1, HistoryStays
<1>3. /\ Writing(p, w'[p]) /\ w'[p] = NoAttempt
      /\ (StillHeld(p) => jobs'[w[p].job] = NoRow /\ chain' = p)
      /\ (~StillHeld(p) => jobs' = jobs)
  BY <1>0, <1>1, <1>2, MutationWrites, HistoryStays, NoRowMade DEF Mutations
<1> QED BY <1>0, <1>1, <1>3, IdleFacts

LEMMA FailWrites ==
    ASSUME FrameInv, NEW p \in Workers, Fail(p)
    PROVE  /\ Writing(p, w'[p]) /\ w[p].pc = "fail" /\ begun' = begun /\ ended' = ended
           /\ StillHeld(p) => jobs'[w[p].job] = Backoff(w[p].row) /\ chain' = p
           /\ ~StillHeld(p) => jobs' = jobs
           /\ w'[p].pc = "idle" \/ (w'[p].pc = "giveup" /\ w'[p].row = w[p].row)
<1> DEFINE row == Backoff(w[p].row)
           then == IF Exhausted(row) THEN At(p, "giveup") ELSE NoAttempt
<1>0. w[p].pc = "fail" /\ w[p].row \in Row /\ row \in Row
  BY AttemptFacts, RowBackedOff DEF Fail, Mutate
<1>1. Mutate(p, "fail", StillHeld(p), row, then) /\ UNCHANGED <<late, ended, begun>>
  BY DEF Fail
<1>2. then = NoAttempt \/ (/\ then \in Attempt
                          /\ AttemptOK(then) /\ then.job = w[p].job /\ then.seen = NoQueue
                          /\ then.pc = "giveup" /\ then.row = w[p].row)
  BY <1>0, AtOK
<1> HIDE DEF row, then
<1>4. Writing(p, w'[p]) /\ w'[p] = then
      /\ (StillHeld(p) => jobs'[w[p].job] = row /\ chain' = p)
      /\ (~StillHeld(p) => jobs' = jobs)
  BY <1>0, <1>1, <1>2, MutationWrites, HistoryStays DEF Mutations
<1> QED BY <1>0, <1>1, <1>2, <1>4, IdleFacts DEF row

(* Among the tokens is one that no copy of the row and no attempt has. *)
LEMMA FreshTokenIs ==
    ASSUME FrameInv, NEW p \in Workers, w[p].pc # "idle"
    PROVE  FreshToken(w[p].job) \in Tokens
<1> DEFINE j == w[p].job
           used == {jobs[j].token, x.seen[j].token, late.seen[j].token}
                     \cup (IF late.job = j THEN {late.token} ELSE {})
                     \cup {w[q].row.token : q \in {r \in Workers : w[r].job = j}}
<1>1. \A q \in Workers : w[q].job = j => q = p
  <2> SUFFICES ASSUME NEW q \in Workers, w[q].job = j, q # p PROVE FALSE
    OBVIOUS
  <2>1. j \in Jobs /\ j # None
    BY AttemptFacts, ExtensionQueueAssumption
  <2>2. w[q].pc # "idle"
    BY <2>1, AttemptFacts, IdleFacts DEF AttemptOK
  <2> QED BY <2>2, ProcessesDiffer DEF FrameInv, Control, JobsDiffer, Workers
<1>2. used \subseteq {jobs[j].token, x.seen[j].token, late.seen[j].token, late.token, w[p].row.token}
  BY <1>1
<1>3. \A a, b, c, d, e : \E t \in 1 .. 6 : t \notin {a, b, c, d, e}
  <2> TAKE a, b, c, d, e
  <2> SUFFICES ASSUME \A t \in 1 .. 6 : t \in {a, b, c, d, e} PROVE FALSE
    OBVIOUS
  <2>1. /\ 1 \in {a, b, c, d, e} /\ 2 \in {a, b, c, d, e} /\ 3 \in {a, b, c, d, e}
        /\ 4 \in {a, b, c, d, e} /\ 5 \in {a, b, c, d, e} /\ 6 \in {a, b, c, d, e}
    OBVIOUS
  <2> QED BY <2>1
<1>4. \E t \in Tokens : t \notin used
  BY <1>2, <1>3 DEF Tokens
<1>5. FreshToken(j) = CHOOSE t \in Tokens : t \notin used
  BY DEF FreshToken
<1> HIDE DEF used
<1> QED BY <1>4, <1>5

LEMMA ClaimWrites ==
    ASSUME FrameInv, NEW p \in Workers, Claim(p)
    PROVE  /\ Writing(p, w'[p]) /\ w[p].pc = "claim" /\ ended' = ended
           /\ StillPending(p) =>
                /\ begun' = [begun EXCEPT ![w[p].job] = @ + 1] /\ chain' = p
                /\ \E token \in Tokens :
                     /\ jobs'[w[p].job] = Claimed(w[p].row, token)
                     /\ w'[p].row = Claimed(w[p].row, token)
                /\ w'[p].pc = "upload" /\ w'[p].job = w[p].job
           /\ ~StillPending(p) => jobs' = jobs /\ begun' = begun /\ w'[p].pc = "idle"
<1> DEFINE j == w[p].job
           row == Claimed(w[p].row, FreshToken(j))
           a == [At(p, "upload") EXCEPT !.row = row, !.upload = "check"]
           then == IF StillPending(p) THEN a ELSE NoAttempt
<1>0. w[p].pc = "claim" /\ j \in Jobs /\ w[p].row \in Row
  BY AttemptFacts DEF Claim, Mutate
<1>1. FreshToken(j) \in Tokens
  BY <1>0, FreshTokenIs
<1>2. row \in Row /\ row.state = "processing"
  BY <1>0, <1>1, RowClaimed
<1>3. /\ Mutate(p, "claim", StillPending(p), row, then) /\ UNCHANGED <<late, ended>>
      /\ begun' = IF StillPending(p) THEN [begun EXCEPT ![j] = @ + 1] ELSE begun
  BY DEF Claim
<1>4. row = Claimed(w[p].row, FreshToken(j))
  OBVIOUS
<1> HIDE DEF row
<1>5. /\ At(p, "upload") \in Attempt /\ At(p, "upload").pc = "upload"
      /\ At(p, "upload").job = w[p].job /\ At(p, "upload").seen = NoQueue
  BY AttemptFacts, AtFacts
<1>6. /\ a \in Attempt /\ a.pc = "upload" /\ a.job = j /\ a.seen = NoQueue /\ a.row = row
      /\ a.upload = "check"
  BY <1>2, <1>5 DEF Attempt, Upload
<1> HIDE DEF a
<1>7. AttemptOK(a)
  BY <1>0, <1>2, <1>6 DEF AttemptOK, PreClaim
<1>8. /\ StillPending(p) => then = a
      /\ ~StillPending(p) => then = NoAttempt
  OBVIOUS
<1> HIDE DEF then
<1>9. then = NoAttempt \/ (/\ then \in Attempt /\ AttemptOK(then) /\ then.job = j
                          /\ then.seen = NoQueue /\ then.pc = "upload")
  BY <1>6, <1>7, <1>8
<1>10. begun' \in [Jobs -> Nat] /\ ended' \subseteq Jobs
  BY <1>0, <1>3, HistoryStays
<1>11. /\ Writing(p, w'[p]) /\ w'[p] = then
       /\ (StillPending(p) => jobs'[j] = row /\ chain' = p)
       /\ (~StillPending(p) => jobs' = jobs)
  BY <1>0, <1>2, <1>3, <1>9, <1>10, MutationWrites DEF Mutations
<1> QED BY <1>0, <1>1, <1>3, <1>4, <1>6, <1>8, <1>11, IdleFacts

-----------------------------------------------------------------------------
(* The attempt that timed out. *)
LEMMA LateAnswerMoves ==
    ASSUME FrameInv, LateAnswer
    PROVE  /\ LateMoves /\ late.pc # "idle" /\ late' = [late EXCEPT !.upload = "over"]
           /\ landed' = landed \/ (late.upload = "sent"
                                   /\ landed' = landed \cup {<<late.job, late.account>>})
           /\ UNCHANGED <<jobs, requests, x, w, chain, sched, capture, kept, ended, begun, exits>>
<1>1. /\ late.pc # "idle" /\ late' = [late EXCEPT !.upload = "over"]
      /\ UNCHANGED <<jobs, alarm, instance, user, sessions, worker, exits, scope, published, requests,
                     prompting, x, w, chain, sched, capture, kept, ended, begun>>
  BY DEF LateAnswer, stored, connection, bounds, chains
<1>2. landed' = landed \/ (late.upload = "sent" /\ landed' = landed \cup {<<late.job, late.account>>})
  <2>1. PICK lands \in BOOLEAN : /\ lands => late.upload = "sent"
                                 /\ landed' = landed \cup (IF lands THEN {<<late.job, late.account>>} ELSE {})
    BY DEF LateAnswer
  <2> QED BY <2>1
<1>3. late.job \in Jobs /\ late.account \in Accounts \cup {None}
  BY <1>1 DEF FrameInv, Control, LateOK, RunningTypes, LateAttempt
<1>4. ConnectionTypes' /\ HistoryTypes' /\ jobs' \in Queue
  BY <1>1, <1>2, <1>3 DEF FrameInv, ConnectionTypes, HistoryTypes
<1> QED BY <1>1, <1>2, <1>4 DEF LateMoves

LEMMA LateEnterMoves ==
    ASSUME FrameInv, LateEnter
    PROVE  /\ LateMoves /\ late' = [late EXCEPT !.pc = "release", !.seen = jobs]
           /\ late.pc = "upload" /\ late.upload = "over" /\ chain = None /\ chain' = Late
           /\ UNCHANGED <<jobs, requests, x, w, sched, capture, kept, ended, begun, exits, landed>>
<1>1. /\ late.pc = "upload" /\ late.upload = "over" /\ chain = None /\ chain' = Late
      /\ late' = [late EXCEPT !.pc = "release", !.seen = jobs] /\ sched[Late] = "no"
      /\ UNCHANGED <<jobs, alarm, instance, user, sessions, worker, exits, scope, published, requests,
                     prompting, x, w, sched, capture, kept, ended, begun, landed>>
  BY DEF LateEnter, stored, connection, bounds, chains, history, Ready
<1>2. ConnectionTypes' /\ HistoryTypes' /\ jobs' \in Queue
  BY <1>1 DEF FrameInv, ConnectionTypes, HistoryTypes
<1> QED BY <1>1, <1>2 DEF LateMoves

LEMMA LateReleaseMoves ==
    ASSUME FrameInv, LateRelease
    PROVE  /\ LateMoves /\ late' = NoLate /\ late.pc = "release" /\ chain = Late /\ late.job \in Jobs
           /\ \/ jobs' = jobs
              \/ /\ jobs' = [late.seen EXCEPT ![late.job] = Backoff(late.seen[late.job])]
                 /\ sched'[Late] = "read" /\ late.seen[late.job].state = "processing"
           /\ sched' = sched \/ sched' = [sched EXCEPT ![Late] = "read"]
           /\ chain' = Late \/ chain' = None
           /\ UNCHANGED <<requests, x, w, capture, kept, ended, begun, exits, landed>>
<1> DEFINE row == late.seen[late.job]
<1>1. /\ late.pc = "release" /\ late' = NoLate /\ chain = Late
      /\ UNCHANGED <<alarm, instance, user, sessions, worker, exits, scope, published, requests,
                     prompting, x, w, capture, kept, ended, begun, landed>>
  BY DEF LateRelease, connection, bounds, chains, history
<1>2. late.job \in Jobs /\ late.seen \in Queue /\ row \in Row
  BY <1>1 DEF FrameInv, Control, LateOK, RunningTypes, LateAttempt, Queue
<1>3. Backoff(row) \in Row
  BY <1>2, RowBackedOff
<1> HIDE DEF row
<1>4. \/ chain' = None /\ jobs' = jobs /\ sched' = sched
      \/ /\ jobs' = [late.seen EXCEPT ![late.job] = Backoff(row)] /\ chain' = chain
         /\ sched' = [sched EXCEPT ![Late] = "read"] /\ row.state = "processing"
  BY DEF LateRelease, Reschedule, Holds, row
<1>5. jobs' \in Queue
  BY <1>2, <1>3, <1>4 DEF Queue, FrameInv
<1>6. ConnectionTypes' /\ HistoryTypes'
  BY <1>1 DEF FrameInv, ConnectionTypes, HistoryTypes
<1>7. sched' = [sched EXCEPT ![Late] = "read"] => sched'[Late] = "read"
  BY DEF FrameInv, RunningTypes, Processes
<1> QED BY <1>1, <1>2, <1>4, <1>5, <1>6, <1>7 DEF LateMoves, row

-----------------------------------------------------------------------------
(* The exclusive chain. *)
LEMMA OperationFacts ==
    ASSUME FrameInv
    PROVE  /\ x \in Operation /\ x.seen \in Queue /\ x.known \in Accounts \cup {None}
           /\ x.left \subseteq Jobs /\ x.pc \in {"idle", "account", "write", "work", "done"}
           /\ x.pc # "idle" => /\ x.request \in Good
                               /\ x.request.kind \in Needing => x.request.job \in Jobs
           /\ x.pc # "work" => \A p \in Workers : w[p].pc = "idle" /\ chain # p
           /\ requests \in Seq(Good)
  BY DEF FrameInv, RunningTypes, Operation, Control, Good, WorkerOK, ConnectionTypes

LEMMA GoodIsRequest == Good \subseteq Request
  BY DEF Good

LEMMA TakeOperates ==
    ASSUME FrameInv, Take
    PROVE  /\ Operating /\ x.pc = "idle" /\ requests # <<>> /\ requests' = Tail(requests)
           /\ x'.seen = jobs /\ x'.request = Head(requests) /\ x'.pc \in {"account", "write"}
           /\ x'.pc = "write" => x'.request.kind \notin {"startup", "alarm", "enqueued"}
           /\ UNCHANGED <<jobs, sched, capture, kept, ended, begun, landed, exits>>
<1>1. /\ x.pc = "idle" /\ requests # <<>> /\ requests' = Tail(requests)
      /\ x' = [NoOperation EXCEPT !.request = Head(requests), !.seen = jobs,
                                  !.pc = IF Head(requests).kind \in {"startup", "alarm", "enqueued"}
                                         THEN "account" ELSE "write"]
      /\ UNCHANGED <<jobs, alarm, instance, user, sessions, worker, exits, scope, published,
                     prompting, w, late, chain, sched, capture, kept, ended, begun, landed>>
  BY DEF Take, stored, connection, bounds, history
<1>2. Head(requests) \in Good /\ Tail(requests) \in Seq(Good)
  BY <1>1, TailGood, OperationFacts DEF Calmer
<1> DEFINE pc == IF Head(requests).kind \in {"startup", "alarm", "enqueued"} THEN "account" ELSE "write"
<1>3. pc \in {"account", "write"}
      /\ (pc = "write" => Head(requests).kind \notin {"startup", "alarm", "enqueued"})
  OBVIOUS
<1>4. x' = [NoOperation EXCEPT !.request = Head(requests), !.seen = jobs, !.pc = pc]
  BY <1>1
<1> HIDE DEF pc
<1>5. /\ x' \in Operation /\ x'.request = Head(requests) /\ x'.seen = jobs /\ x'.pc = pc
  BY <1>2, <1>3, <1>4, NothingTypes, GoodIsRequest DEF Operation, FrameInv
<1>6. ConnectionTypes' /\ HistoryTypes' /\ jobs' \in Queue
  BY <1>1, <1>2 DEF FrameInv, ConnectionTypes, HistoryTypes
<1>7. \A p \in Workers : w[p].pc = "idle" /\ chain # p
  BY <1>1, OperationFacts
<1> QED BY <1>1, <1>2, <1>3, <1>5, <1>6, <1>7 DEF Operating

LEMMA ReadAccountOperates ==
    ASSUME FrameInv, ReadAccount
    PROVE  /\ Operating /\ x.pc = "account" /\ x'.pc = "write" /\ x'.seen = x.seen
           /\ x'.request = x.request /\ Calmer(requests', requests)
           /\ UNCHANGED <<jobs, sched, capture, kept, ended, begun, landed, exits>>
<1>1. /\ x.pc = "account"
      /\ UNCHANGED <<jobs, alarm, instance, user, sessions, worker, exits, scope, prompting,
                     w, late, chain, sched, capture, kept, ended, begun, landed>>
  BY DEF ReadAccount, stored, connection, bounds, history
<1>2. /\ x' \in Operation /\ x'.pc = "write" /\ x'.seen = x.seen /\ x'.request = x.request
  <2>1. Authority \in Accounts \cup {None}
    BY AuthorityType DEF FrameInv
  <2>2. CASE x' = [x EXCEPT !.known = Authority, !.pc = "write"]
    BY <2>1, <2>2, OperationFacts DEF Operation
  <2>3. CASE x' = [x EXCEPT !.pc = "write"]
    BY <2>3, OperationFacts DEF Operation
  <2> QED BY <2>2, <2>3 DEF ReadAccount
<1>3. Calmer(requests', requests) /\ published' \in BOOLEAN
  <2>1. CASE Publish(<<>>)
    BY <2>1, PublishCalm, OperationFacts
  <2>2. CASE UNCHANGED <<published, requests>>
    BY <2>2, CalmSame, OperationFacts DEF FrameInv, ConnectionTypes
  <2> QED BY <2>1, <2>2 DEF ReadAccount
<1>4. ConnectionTypes' /\ HistoryTypes' /\ jobs' \in Queue
  BY <1>1, <1>3 DEF FrameInv, ConnectionTypes, HistoryTypes, Calmer
<1>5. \A p \in Workers : w[p].pc = "idle" /\ chain # p
  BY <1>1, OperationFacts
<1>6. x'.request \in Good
  BY <1>1, <1>2, OperationFacts
<1> QED BY <1>1, <1>2, <1>3, <1>4, <1>5, <1>6 DEF Operating

LEMMA EndWorkOperates ==
    ASSUME FrameInv, EndWork
    PROVE  /\ Operating /\ x.pc = "work" /\ x'.pc = "done" /\ x'.request = x.request
           /\ sched' = [sched EXCEPT ![Exclusive] = "read"]
           /\ UNCHANGED <<jobs, capture, kept, ended, begun, landed, exits, requests>>
<1>1. /\ x.pc = "work" /\ x' = [x EXCEPT !.pc = "done"]
      /\ sched' = [sched EXCEPT ![Exclusive] = "read"]
      /\ \A p \in Workers : w[p].pc = "idle" /\ sched[p] = "no"
      /\ UNCHANGED <<jobs, alarm, instance, user, sessions, worker, exits, scope, prompting, published,
                     requests, w, late, chain, capture, kept, ended, begun, landed>>
  BY DEF EndWork, Reschedule, stored, connection, bounds, chains, history
<1>2. /\ x' \in Operation /\ x'.pc = "done" /\ x'.request = x.request
  BY <1>1, OperationFacts DEF Operation
<1>3. ConnectionTypes' /\ HistoryTypes' /\ jobs' \in Queue
  BY <1>1 DEF FrameInv, ConnectionTypes, HistoryTypes
<1>4. \A p \in Workers : w[p].pc = "idle" /\ chain # p
  BY <1>1 DEF FrameInv, Control, WorkerOK, Mutations
<1>5. x'.request \in Good
  BY <1>1, <1>2, OperationFacts
<1> QED BY <1>1, <1>2, <1>3, <1>4, <1>5 DEF Operating

LEMMA FinishOperates ==
    ASSUME FrameInv, Finish
    PROVE  /\ Operating /\ x.pc = "done" /\ x'.pc = "idle" /\ Calmer(requests', requests)
           /\ UNCHANGED <<jobs, sched, capture, kept, ended, begun, landed, exits>>
<1> DEFINE j == x.request.job
           r == Ask("enqueued", j, None)
           admitted == x.request.kind = "enqueue" /\ j \in kept
<1>1. /\ x.pc = "done" /\ x' = NoOperation
      /\ requests' = IF admitted /\ capture[j][2] # None THEN Append(requests, r) ELSE requests
      /\ prompting' = IF admitted /\ capture[j][2] = None THEN prompting \cup {j} ELSE prompting
      /\ UNCHANGED <<jobs, alarm, instance, user, sessions, worker, exits, scope, published,
                     w, late, chain, sched, capture, kept, ended, begun, landed>>
  BY DEF Finish, stored, connection, bounds, history
<1>2. j \in kept => j \in Jobs
  BY DEF FrameInv, HistoryTypes
<1>3. j \in Jobs => r \in Good /\ r.kind = "enqueued"
  BY AskGood DEF Kinds
<1>4. Calmer(requests', requests)
  <2>1. CASE admitted /\ capture[j][2] # None
    <3>1. requests' = Append(requests, r)
      BY <1>1, <2>1
    <3>2. r \in Good /\ r.kind # "enqueue"
      BY <1>2, <1>3, <2>1
    <3> HIDE DEF r
    <3> QED BY <3>1, <3>2, CalmAppend, OperationFacts
  <2>2. CASE ~(admitted /\ capture[j][2] # None)
    <3>1. requests' = requests
      BY <1>1, <2>2
    <3> QED BY <3>1, CalmSame, OperationFacts
  <2> QED BY <2>1, <2>2
<1>5. prompting' \subseteq Jobs
  BY <1>1, <1>2 DEF FrameInv, ConnectionTypes
<1>6. ConnectionTypes' /\ HistoryTypes' /\ jobs' \in Queue
  <2>1. requests' \in Seq(Good)
    BY <1>4 DEF Calmer
  <2>2. UNCHANGED <<jobs, alarm, instance, user, sessions, worker, exits, scope, published,
                    capture, kept, ended, begun, landed>>
    BY <1>1
  <2> QED BY <1>5, <2>1, <2>2 DEF FrameInv, ConnectionTypes, HistoryTypes
<1>7. \A p \in Workers : w[p].pc = "idle" /\ chain # p
  BY <1>1, OperationFacts
<1>8. x' \in Operation /\ x'.pc = "idle"
  BY <1>1, NothingTypes, IdleFacts
<1>9. UNCHANGED <<w, late, chain, scope, jobs, sched, capture, kept, ended, begun, landed, exits>>
  BY <1>1
<1>10. x.pc = "done"
  BY <1>1
<1> QED BY <1>4, <1>6, <1>7, <1>8, <1>9, <1>10 DEF Operating

(* What an operation that writes the queue leaves alone. *)
Unmoved == UNCHANGED <<alarm, instance, user, sessions, worker, exits, scope, published, requests,
                       prompting, w, late, chain, capture, landed>>

LEMMA WriteOperates ==
    ASSUME FrameInv, x.pc = "write", x' \in Operation, x'.request = x.request, Unmoved,
           jobs' \in Queue, kept' \subseteq Jobs, ended' \subseteq Jobs, begun' \in [Jobs -> Nat],
           sched' = sched \/ sched' = [sched EXCEPT ![Exclusive] = "read"]
    PROVE  Operating
<1>1. ConnectionTypes' /\ HistoryTypes'
  BY DEF FrameInv, ConnectionTypes, HistoryTypes, Unmoved
<1>2. \A p \in Workers : w[p].pc = "idle" /\ chain # p
  BY OperationFacts
<1>3. x'.request \in Good
  BY OperationFacts
<1> QED BY <1>1, <1>2, <1>3 DEF Operating, Unmoved

LEMMA DoneFacts ==
    ASSUME FrameInv, x' = [x EXCEPT !.pc = "done"]
    PROVE  x' \in Operation /\ x'.pc = "done" /\ x'.request = x.request
  BY OperationFacts DEF Operation

(* An admission writes the new row, drops some rows and keeps the others. *)
Admits(gone) ==
    /\ jobs'[x.request.job] = Admitted(capture[x.request.job])
    /\ \A k \in Jobs \ {x.request.job} :
         \/ k \in gone /\ jobs'[k] = NoRow
         \/ k \notin gone /\ jobs'[k] = x.seen[k]
    /\ gone \subseteq Present(x.seen)
    /\ kept' = kept \cup {x.request.job} /\ ended' = ended \cup gone
    /\ sched' = [sched EXCEPT ![Exclusive] = "read"]

LEMMA EnqueueOperates ==
    ASSUME FrameInv, AsksOK, Enqueue
    PROVE  /\ Operating /\ x.pc = "write" /\ x.request.kind = "enqueue" /\ x.request.job \in Jobs
           /\ capture[x.request.job] \in Contexts /\ x'.pc = "done"
           /\ UNCHANGED <<begun, landed, capture, exits, requests>>
           /\ \/ UNCHANGED <<jobs, sched, kept, ended>>
              \/ \E gone \in SUBSET Jobs : Admits(gone)
<1> DEFINE j == x.request.job
           new == Admitted(capture[j])
           old == ExpiredIn(x.seen)
           retained == Without(x.seen, old)
<1>1. x.pc = "write" /\ x.request.kind = "enqueue" /\ Keep /\ UNCHANGED <<begun, landed>>
  BY DEF Enqueue, Operate
<1>2. j \in Jobs /\ Admitting(j)
  BY <1>1, OperationFacts DEF Needing, Admitting, Enqueues
<1>3. capture[j] \in Contexts
  BY <1>2 DEF AsksOK, FrameInv, HistoryTypes
<1>4. new \in Row
  BY <1>3, RowAdmitted DEF Contexts
<1>5. Unmoved /\ x' = [x EXCEPT !.pc = "done"] /\ begun' \in [Jobs -> Nat]
  BY <1>1, HistoryStays DEF Enqueue, Keep, Unmoved, Write, Leave, connection, bounds, chains
<1>6. ASSUME NEW gone0, gone0 \in (IF Cardinality(Present(retained)) < scope.queue THEN {{}}
                                  ELSE {{k} : k \in Evictable(retained, new.owner)}),
             Write([Without(retained, gone0) EXCEPT ![j] = new]),
             kept' = kept \cup {j}, ended' = ended \cup old \cup gone0
      PROVE  /\ \E gone \in SUBSET Jobs : Admits(gone)
             /\ jobs' \in Queue /\ kept' \subseteq Jobs /\ ended' \subseteq Jobs
  <2>1. gone0 \subseteq Present(retained)
    BY <1>6 DEF Evictable
  <2>2. /\ old \subseteq Present(x.seen)
        /\ \A k \in Jobs : retained[k] = IF k \in old THEN NoRow ELSE x.seen[k]
    BY DEF ExpiredIn, Expired, Terminal, Present, Without
  <2>3. Present(retained) \subseteq Present(x.seen) /\ Present(x.seen) \subseteq Jobs
    BY <2>2, NoRowMade DEF Present
  <2> DEFINE gone == old \cup gone0
  <2>4. gone \in SUBSET Jobs /\ gone \subseteq Present(x.seen)
    BY <2>1, <2>2, <2>3
  <2>5. \A k \in Jobs : Without(retained, gone0)[k] = IF k \in gone THEN NoRow ELSE x.seen[k]
    BY <2>2 DEF Without
  <2>6. jobs' = [Without(retained, gone0) EXCEPT ![j] = new]
        /\ sched' = [sched EXCEPT ![Exclusive] = "read"]
    BY <1>6 DEF Write, Reschedule
  <2>7. Without(retained, gone0) \in [Jobs -> Row]
    <3>1. \A k \in Jobs : Without(retained, gone0)[k] \in Row
      BY <2>5, NoRowMade, OperationFacts DEF Queue
    <3> QED BY <3>1 DEF Without
  <2>8. /\ jobs' \in Queue /\ jobs'[j] = new
        /\ \A k \in Jobs \ {j} : jobs'[k] = Without(retained, gone0)[k]
    BY <1>2, <1>4, <2>6, <2>7 DEF Queue
  <2>9. kept' \subseteq Jobs /\ ended' \subseteq Jobs
    BY <1>2, <1>6, <2>4 DEF FrameInv, HistoryTypes
  <2>10. ended' = ended \cup gone
    BY <1>6
  <2> HIDE DEF gone, new, old, retained
  <2>11. Admits(gone)
    BY <1>6, <2>4, <2>5, <2>6, <2>8, <2>10 DEF Admits, new
  <2> QED BY <2>4, <2>8, <2>9, <2>11
<1>7. CASE UNCHANGED <<jobs, sched, kept, ended>>
  <2>1. jobs' \in Queue /\ kept' \subseteq Jobs /\ ended' \subseteq Jobs
    BY <1>7 DEF FrameInv, HistoryTypes
  <2> QED BY <1>1, <1>2, <1>3, <1>5, <1>7, <2>1, DoneFacts, WriteOperates DEF Unmoved
<1>8. ASSUME NEW gone0, gone0 \in (IF Cardinality(Present(retained)) < scope.queue THEN {{}}
                                  ELSE {{k} : k \in Evictable(retained, new.owner)}),
             Write([Without(retained, gone0) EXCEPT ![j] = new]),
             kept' = kept \cup {j}, ended' = ended \cup old \cup gone0
      PROVE  /\ Operating /\ x'.pc = "done" /\ UNCHANGED <<capture, exits, requests>>
             /\ \E gone \in SUBSET Jobs : Admits(gone)
  <2>1. sched' = [sched EXCEPT ![Exclusive] = "read"]
    BY <1>8 DEF Write, Reschedule
  <2>2. /\ \E gone \in SUBSET Jobs : Admits(gone)
        /\ jobs' \in Queue /\ kept' \subseteq Jobs /\ ended' \subseteq Jobs
    BY <1>6, <1>8
  <2> HIDE DEF j, new, old, retained
  <2> QED BY <1>1, <1>5, <2>1, <2>2, DoneFacts, WriteOperates DEF Unmoved
<1> QED BY <1>1, <1>2, <1>3, <1>7, <1>8 DEF Enqueue, Leave

LEMMA RetryOperates ==
    ASSUME FrameInv, Retry
    PROVE  /\ Operating /\ x.pc = "write" /\ x'.pc = "done" /\ x.request.job \in Jobs
           /\ x.request.kind = "retry"
           /\ UNCHANGED <<kept, ended, landed, capture, exits, requests>>
           /\ \/ UNCHANGED <<jobs, sched, begun>>
              \/ /\ jobs' = [x.seen EXCEPT ![x.request.job] = Retried(x.seen[x.request.job])]
                 /\ begun' = [begun EXCEPT ![x.request.job] = 0]
                 /\ Terminal(x.seen[x.request.job]) /\ sched' = [sched EXCEPT ![Exclusive] = "read"]
<1> DEFINE j == x.request.job
<1>1. /\ x.pc = "write" /\ x.request.kind = "retry" /\ Keep /\ UNCHANGED <<kept, ended, landed>>
      /\ x' = [x EXCEPT !.pc = "done"]
  BY DEF Retry, Operate, Write, Leave
<1>2. j \in Jobs /\ x.seen \in Queue /\ Retried(x.seen[j]) \in Row
  BY <1>1, OperationFacts, RowRetried DEF Needing, Queue
<1>3. Unmoved
  BY <1>1 DEF Keep, Unmoved, connection, bounds, chains
<1>4. \/ UNCHANGED <<jobs, sched, begun>>
      \/ /\ jobs' = [x.seen EXCEPT ![j] = Retried(x.seen[j])] /\ begun' = [begun EXCEPT ![j] = 0]
         /\ Terminal(x.seen[j]) /\ sched' = [sched EXCEPT ![Exclusive] = "read"]
  BY DEF Retry, Mine, Write, Leave, Reschedule
<1>5. jobs' \in Queue /\ begun' \in [Jobs -> Nat]
  BY <1>2, <1>4, HistoryStays DEF FrameInv, Queue
<1>6. kept' \subseteq Jobs /\ ended' \subseteq Jobs
  BY <1>1 DEF FrameInv, HistoryTypes
<1>7. sched' = sched \/ sched' = [sched EXCEPT ![Exclusive] = "read"]
  BY <1>4
<1>8. Operating
  BY <1>1, <1>3, <1>5, <1>6, <1>7, DoneFacts, WriteOperates
<1> QED BY <1>1, <1>2, <1>3, <1>4, <1>8, DoneFacts DEF Unmoved

LEMMA DiscardOperates ==
    ASSUME FrameInv, Discard
    PROVE  /\ Operating /\ x.pc = "write" /\ x'.pc = "done" /\ x.request.job \in Jobs
           /\ x.request.kind = "discard"
           /\ UNCHANGED <<kept, begun, landed, capture, exits, requests>>
           /\ \/ UNCHANGED <<jobs, sched, ended>>
              \/ /\ jobs' = [x.seen EXCEPT ![x.request.job] = NoRow]
                 /\ ended' = ended \cup {x.request.job}
                 /\ Terminal(x.seen[x.request.job]) /\ sched' = [sched EXCEPT ![Exclusive] = "read"]
<1> DEFINE j == x.request.job
<1>1. /\ x.pc = "write" /\ x.request.kind = "discard" /\ Keep /\ UNCHANGED <<kept, begun, landed>>
      /\ x' = [x EXCEPT !.pc = "done"]
  BY DEF Discard, Operate, Write, Leave
<1>2. j \in Jobs /\ x.seen \in Queue
  BY <1>1, OperationFacts DEF Needing
<1>3. Unmoved
  BY <1>1 DEF Keep, Unmoved, connection, bounds, chains
<1>4. \/ UNCHANGED <<jobs, sched, ended>>
      \/ /\ jobs' = [x.seen EXCEPT ![j] = NoRow] /\ ended' = ended \cup {j}
         /\ Terminal(x.seen[j]) /\ sched' = [sched EXCEPT ![Exclusive] = "read"]
  BY DEF Discard, Mine, Write, Leave, Reschedule
<1>5. jobs' \in Queue /\ ended' \subseteq Jobs
  BY <1>2, <1>4, HistoryStays, NoRowMade DEF FrameInv, Queue
<1>6. kept' \subseteq Jobs /\ begun' \in [Jobs -> Nat]
  BY <1>1, HistoryStays DEF FrameInv, HistoryTypes
<1>7. sched' = sched \/ sched' = [sched EXCEPT ![Exclusive] = "read"]
  BY <1>4
<1>8. Operating
  BY <1>1, <1>3, <1>5, <1>6, <1>7, DoneFacts, WriteOperates
<1> QED BY <1>1, <1>2, <1>3, <1>4, <1>8, DoneFacts DEF Unmoved

(* A pass writes what a recovery makes of the rows it read, unless nothing   *)
(* changed.                                                                 *)
RecoveredQueue == [k \in Jobs |-> Recovered(x.seen[k], x.request.kind, x.known)]

LEMMA RecoverOperates ==
    ASSUME FrameInv, Recover
    PROVE  /\ Operating /\ x.pc = "write" /\ x'.pc = "work"
           /\ x.request.kind \in {"startup", "alarm", "enqueued"}
           /\ UNCHANGED <<kept, begun, landed, capture, exits, requests>>
           /\ jobs' = (IF RecoveredQueue # x.seen THEN RecoveredQueue ELSE jobs)
           /\ ended' = ended \cup ExpiredIn(x.seen)
           /\ sched' = [sched EXCEPT ![Exclusive] = "read"]
           /\ RecoveredQueue \in Queue
<1>1. /\ x.pc = "write" /\ x.request.kind \in {"startup", "alarm", "enqueued"}
      /\ jobs' = (IF RecoveredQueue # x.seen THEN RecoveredQueue ELSE jobs)
      /\ ended' = ended \cup ExpiredIn(x.seen)
      /\ x' = [x EXCEPT !.pc = "work",
                        !.left = {j \in Jobs : /\ RecoveredQueue[j].state = "pending"
                                               /\ x.request.kind = "enqueued" => j = x.request.job}]
      /\ sched' = [sched EXCEPT ![Exclusive] = "read"]
      /\ Keep /\ UNCHANGED <<kept, begun, landed>>
  BY DEF Recover, RecoveredQueue, Reschedule
<1>2. x.seen \in Queue /\ x.known \in Accounts \cup {None} /\ x \in Operation
  BY OperationFacts
<1>3. RecoveredQueue \in Queue
  <2>1. \A k \in Jobs : Recovered(x.seen[k], x.request.kind, x.known) \in Row
    BY <1>2, RowRecovered DEF Queue
  <2> QED BY <2>1 DEF RecoveredQueue, Queue
<1>4. x' \in Operation /\ x'.pc = "work" /\ x'.request = x.request
  BY <1>1, <1>2 DEF Operation
<1>5. Unmoved
  BY <1>1 DEF Keep, Unmoved, connection, bounds, chains
<1>6. jobs' \in Queue /\ ended' \subseteq Jobs /\ kept' \subseteq Jobs /\ begun' \in [Jobs -> Nat]
  BY <1>1, <1>3, HistoryStays DEF FrameInv, HistoryTypes, ExpiredIn
<1>7. Operating
  BY <1>1, <1>4, <1>5, <1>6, WriteOperates
<1> QED BY <1>1, <1>3, <1>4, <1>5, <1>7 DEF Unmoved

-----------------------------------------------------------------------------
(* Outside the chains: the wake-up, the user, the clock and the browser. *)
Around == Outside /\ Calmer(requests', requests) /\ capture' = capture

LEMMA AroundFrom ==
    ASSUME FrameInv, UNCHANGED <<x, w, late, capture, kept, ended, begun, landed, exits, scope>>,
           jobs' \in Queue, \A j \in Jobs : Alike(jobs'[j], jobs[j]),
           Calmer(requests', requests), alarm' \in BOOLEAN, instance' \in Instances,
           user' \in Users \cup {None}, worker' \in {"up", "suspended", "exited"},
           published' \in BOOLEAN, prompting' \subseteq Jobs,
           sessions' \in 0 .. scope.sessions, Turns
    PROVE  Around
<1>1. ConnectionTypes' /\ HistoryTypes'
  BY DEF FrameInv, ConnectionTypes, HistoryTypes, Calmer
<1> QED BY <1>1 DEF Around, Outside

LEMMA OutsideFacts ==
    ASSUME FrameInv
    PROVE  /\ jobs \in Queue /\ \A j \in Jobs : Alike(jobs[j], jobs[j]) /\ jobs[j] \in Row
           /\ requests \in Seq(Good) /\ Calmer(requests, requests)
           /\ alarm \in BOOLEAN /\ instance \in Instances /\ user \in Users \cup {None}
           /\ worker \in {"up", "suspended", "exited"} /\ published \in BOOLEAN
           /\ prompting \subseteq Jobs /\ sessions \in 0 .. scope.sessions
           /\ sessions \in Nat /\ scope.sessions \in Nat /\ scope.exits \in Nat
  BY CalmSame, ScopeFacts DEF FrameInv, ConnectionTypes, Alike, Like, Queue

LEMMA ScheduleReadAround ==
    ASSUME FrameInv, NEW p \in Processes, ScheduleRead(p)
    PROVE  Around
<1>1. /\ sched[p] = "read"
      /\ \E s \in {"arm", "clear"} : sched' = [sched EXCEPT ![p] = s]
      /\ UNCHANGED <<jobs, alarm, instance, user, sessions, worker, exits, scope, published, requests,
                     prompting, x, w, late, chain, capture, kept, ended, begun, landed>>
  BY DEF ScheduleRead, stored, connection, bounds, chains, history
<1>2. Turns
  BY <1>1 DEF Turns
<1> QED BY <1>1, <1>2, AroundFrom, OutsideFacts

LEMMA ScheduleAlarmAround ==
    ASSUME FrameInv, NEW p \in Processes, ScheduleAlarm(p)
    PROVE  Around
<1>1. /\ sched[p] # "no" /\ sched' = [sched EXCEPT ![p] = "no"] /\ alarm' \in BOOLEAN
      /\ chain' = (IF chain = p THEN None ELSE chain)
      /\ UNCHANGED <<jobs, instance, user, sessions, worker, exits, scope, published, requests,
                     prompting, x, w, late, capture, kept, ended, begun, landed>>
  BY DEF ScheduleAlarm, connection, bounds, chains, history
<1>2. Turns
  BY <1>1, ProcessesDiffer DEF Turns
<1> QED BY <1>1, <1>2, AroundFrom, OutsideFacts

LEMMA PromptedAround ==
    ASSUME FrameInv, NEW j \in Jobs, Prompted(j)
    PROVE  Around
<1> DEFINE r == Ask("enqueued", j, None)
<1>1. /\ prompting' = prompting \ {j}
      /\ requests' = IF user # None THEN Append(requests, r) ELSE requests
      /\ UNCHANGED <<jobs, alarm, instance, user, sessions, worker, exits, scope, published,
                     x, w, late, chain, sched, capture, kept, ended, begun, landed>>
  BY DEF Prompted, stored, connection, bounds, running, history
<1>2. r \in Good /\ r.kind # "enqueue"
  BY AskGood DEF Kinds
<1> HIDE DEF r
<1>3. Calmer(requests', requests)
  BY <1>1, <1>2, CalmAppend, OutsideFacts
<1>4. Turns
  BY <1>1 DEF Turns
<1> QED BY <1>1, <1>3, <1>4, AroundFrom, OutsideFacts

LEMMA AskForAround ==
    ASSUME FrameInv, NEW kind \in {"retry", "discard"}, NEW j \in Jobs, AskFor(kind, j)
    PROVE  Around
<1> DEFINE r == Ask(kind, j, Authority)
<1>1. /\ Publish(<<r>>)
      /\ UNCHANGED <<jobs, alarm, instance, user, sessions, worker, exits, scope, prompting,
                     x, w, late, chain, sched, capture, kept, ended, begun, landed>>
  BY DEF AskFor, Still, stored, connection, bounds, running
<1>2. r \in Good /\ r.kind # "enqueue"
  BY AskGood, AuthorityType DEF Kinds, FrameInv
<1> HIDE DEF r
<1>3. Calmer(requests', requests) /\ published' \in BOOLEAN
  BY <1>1, <1>2, PublishCalm, OutsideFacts
<1>4. Turns
  BY <1>1 DEF Turns
<1> QED BY <1>1, <1>3, <1>4, AroundFrom, OutsideFacts

LEMMA ConnectAround ==
    ASSUME FrameInv, NEW i \in Instances, NEW u \in Users \cup {None}, NEW asked,
           Connect(i, u, asked), Calmer(asked, requests), sessions' \in 0 .. scope.sessions
    PROVE  Around
<1>1. /\ instance' = i /\ user' = u /\ published' = TRUE /\ requests' = asked
      /\ UNCHANGED <<jobs, alarm, worker, exits, scope, prompting,
                     x, w, late, chain, sched, capture, kept, ended, begun, landed>>
  BY DEF Connect, Still, stored, bounds, running
<1>2. Turns
  BY <1>1 DEF Turns
<1> QED BY <1>1, <1>2, AroundFrom, OutsideFacts

LEMMA SignInAround ==
    ASSUME FrameInv, NEW u \in Users, SignIn(u)
    PROVE  Around
<1>1. sessions' \in 0 .. scope.sessions
  BY OutsideFacts DEF SignIn
<1>2. Calmer(Append(requests, Startup), requests)
  BY CalmAppend, GoodFacts, OutsideFacts
<1> QED BY <1>1, <1>2, ConnectAround, OutsideFacts DEF SignIn

LEMMA SignOutAround ==
    ASSUME FrameInv, SignOut
    PROVE  Around
  BY ConnectAround, OutsideFacts DEF SignOut

LEMMA SetInstanceAround ==
    ASSUME FrameInv, NEW i \in Instances, SetInstance(i)
    PROVE  Around
<1>1. sessions' \in 0 .. scope.sessions
  BY OutsideFacts DEF SetInstance
<1> QED BY <1>1, ConnectAround, OutsideFacts DEF SetInstance

LEMMA DueAround ==
    ASSUME FrameInv, NEW j \in Jobs, Due(j)
    PROVE  Around
<1>1. /\ jobs' = [jobs EXCEPT ![j].due = TRUE]
      /\ UNCHANGED <<alarm, instance, user, sessions, worker, exits, scope, published, requests,
                     prompting, x, w, late, chain, sched, capture, kept, ended, begun, landed>>
  BY DEF Due, connection, bounds, chains, running, history
<1> DEFINE row == [jobs[j] EXCEPT !.due = TRUE]
<1>2. row \in Row /\ Alike(row, jobs[j])
  BY RowDue, OutsideFacts
<1>3. jobs' = [jobs EXCEPT ![j] = row]
  BY <1>1
<1> HIDE DEF row
<1>4. jobs' \in Queue /\ \A k \in Jobs : Alike(jobs'[k], jobs[k])
  BY <1>2, <1>3, OutsideFacts DEF Queue
<1>5. Turns
  BY <1>1 DEF Turns
<1> QED BY <1>1, <1>4, <1>5, AroundFrom, OutsideFacts

LEMMA AgeAround ==
    ASSUME FrameInv, NEW j \in Jobs, Age(j)
    PROVE  Around
<1>1. /\ jobs' = [jobs EXCEPT ![j].age = @ + 1]
      /\ ~Expired(jobs[j]) /\ (jobs[j].age = 0 \/ Terminal(jobs[j]))
      /\ UNCHANGED <<alarm, instance, user, sessions, worker, exits, scope, published, requests,
                     prompting, x, w, late, chain, sched, capture, kept, ended, begun, landed>>
  BY DEF Age, connection, bounds, chains, running, history
<1> DEFINE row == [jobs[j] EXCEPT !.age = @ + 1]
<1>2. row \in Row /\ Alike(row, jobs[j])
  <2>1. jobs[j].age # 2
    BY <1>1 DEF Expired
  <2> QED BY <2>1, RowAges, OutsideFacts
<1>3. jobs' = [jobs EXCEPT ![j] = row]
  BY <1>1
<1> HIDE DEF row
<1>4. jobs' \in Queue /\ \A k \in Jobs : Alike(jobs'[k], jobs[k])
  BY <1>2, <1>3, OutsideFacts DEF Queue
<1>5. Turns
  BY <1>1 DEF Turns
<1> QED BY <1>1, <1>4, <1>5, AroundFrom, OutsideFacts

LEMMA AlarmFiresAround ==
    ASSUME FrameInv, AlarmFires
    PROVE  Around
<1> DEFINE r == Ask("alarm", None, None)
<1>1. /\ alarm' = FALSE /\ worker' = "up"
      /\ requests' = (IF worker = "up" THEN requests ELSE <<Startup>>) \o <<r>>
      /\ UNCHANGED <<jobs, instance, user, sessions, exits, scope, published,
                     prompting, x, w, late, chain, sched, capture, kept, ended, begun, landed>>
  BY DEF AlarmFires, connection, bounds, running, history
<1>2. r \in Good /\ r.kind # "enqueue"
  BY GoodFacts
<1>3. Calmer(requests', requests)
  <2>1. CASE worker = "up"
    <3>1. requests' = requests \o <<r>>
      BY <1>1, <2>1
    <3> HIDE DEF r
    <3>2. requests' = Append(requests, r)
      BY <1>2, <3>1, OutsideFacts, AppendIsConcat
    <3> QED BY <1>2, <3>2, CalmAppend, OutsideFacts
  <2>2. CASE worker # "up"
    BY <1>1, <2>2, CalmFresh, OutsideFacts
  <2> QED BY <2>1, <2>2
<1>4. Turns
  BY <1>1 DEF Turns
<1> HIDE DEF r
<1> QED BY <1>1, <1>3, <1>4, AroundFrom, OutsideFacts

LEMMA StartWorkerAround ==
    ASSUME FrameInv, StartWorker
    PROVE  Around
<1>1. /\ worker' = "up"
      /\ requests' = IF worker = "exited" THEN <<Startup, Startup>> ELSE <<Startup>>
      /\ UNCHANGED <<jobs, alarm, instance, user, sessions, exits, scope, published,
                     prompting, x, w, late, chain, sched, capture, kept, ended, begun, landed>>
  BY DEF StartWorker, stored, connection, bounds, running, history
<1>2. Calmer(requests', requests)
  BY <1>1, CalmFresh, OutsideFacts
<1>3. Turns
  BY <1>1 DEF Turns
<1> QED BY <1>1, <1>2, <1>3, AroundFrom, OutsideFacts

(* A capture asks for its admission, once. *)
LEMMA CaptureOutside ==
    ASSUME FrameInv, NEW j \in Jobs, CaptureSave(j)
    PROVE  /\ Outside /\ capture[j] = None /\ capture'[j] \in Contexts /\ capture'[j] # None
           /\ \A k \in Jobs \ {j} : capture'[k] = capture[k]
           /\ requests' = Append(requests, Ask("enqueue", j, None))
           /\ Ask("enqueue", j, None) \in Good
           /\ Enqueues(Ask("enqueue", j, None), j)
           /\ \A k \in Jobs : Enqueues(Ask("enqueue", j, None), k) => k = j
           /\ UNCHANGED <<jobs, chain, sched>>
<1> DEFINE r == Ask("enqueue", j, None)
<1>1. /\ capture[j] = None /\ capture' = [capture EXCEPT ![j] = <<instance, user>>]
      /\ requests' = Append(requests, r)
      /\ UNCHANGED <<jobs, alarm, instance, user, sessions, worker, exits, scope, published,
                     prompting, x, w, late, chain, sched, kept, ended, begun, landed>>
  BY DEF CaptureSave, Still, stored, connection, bounds, running
<1>2. r \in Good /\ r.kind = "enqueue" /\ r.job = j
  BY AskGood DEF Kinds
<1> HIDE DEF r
<1>3. requests' \in Seq(Good)
  BY <1>1, <1>2, AppendGood, OutsideFacts
<1>4. <<instance, user>> \in Contexts
  BY OutsideFacts DEF Contexts
<1>5. capture'[j] = <<instance, user>> /\ (\A k \in Jobs \ {j} : capture'[k] = capture[k])
      /\ capture' \in [Jobs -> Contexts \cup {None}]
  BY <1>1, <1>4 DEF FrameInv, HistoryTypes
<1>6. ConnectionTypes' /\ HistoryTypes'
  BY <1>1, <1>3, <1>5 DEF FrameInv, ConnectionTypes, HistoryTypes
<1>7. <<instance, user>> # None
  BY <1>4, ExtensionQueueAssumption DEF Contexts
<1>8. Outside
  BY <1>1, <1>6, OutsideFacts DEF Outside, Turns
<1> QED BY <1>1, <1>2, <1>4, <1>5, <1>7, <1>8 DEF Enqueues, r

LEMMA SuspendForgets ==
    ASSUME FrameInv, Suspend
    PROVE  /\ Forgetting /\ landed' = landed /\ exits' = exits
           /\ \A p \in Workers : w[p].pc = "idle"
           /\ UNCHANGED <<capture, kept, ended, begun>>
<1>1. /\ Forget /\ x.pc = "idle" /\ worker' = "suspended"
      /\ UNCHANGED <<jobs, alarm, instance, user, sessions, exits, scope, capture, kept, ended, begun,
                     landed>>
  BY DEF Suspend, stored, connection, bounds, history
<1>2. /\ published' \in BOOLEAN /\ prompting' \subseteq Jobs /\ requests' \in Seq(Good)
  BY <1>1, CalmFresh, OutsideFacts DEF Forget, Calmer
<1>3. ConnectionTypes' /\ HistoryTypes'
  BY <1>1, <1>2 DEF FrameInv, ConnectionTypes, HistoryTypes
<1>4. \A p \in Workers : w[p].pc = "idle"
  BY <1>1, OperationFacts
<1> QED BY <1>1, <1>3, <1>4 DEF Forgetting

(* What an exit cuts short may have been sent. *)
LEMMA ExitForgets ==
    ASSUME FrameInv, Exit
    PROVE  /\ Forgetting /\ exits' = exits + 1 /\ exits \in Nat
           /\ \A a \in landed' \ landed :
                \/ \E p \in Workers : w[p].upload = "sent" /\ a = <<w[p].job, w[p].account>>
                \/ late.upload = "sent" /\ a = <<late.job, late.account>> /\ late.job \in Jobs
           /\ UNCHANGED <<capture, kept, ended, begun>>
<1>1. /\ Forget /\ exits < scope.exits /\ exits' = exits + 1 /\ worker' = "exited"
      /\ UNCHANGED <<jobs, alarm, instance, user, sessions, scope, capture, kept, ended, begun>>
  BY DEF Exit, stored, connection
<1>2. /\ published' \in BOOLEAN /\ prompting' \subseteq Jobs /\ requests' \in Seq(Good)
  BY <1>1, CalmFresh, OutsideFacts DEF Forget, Calmer
<1>3. exits \in Nat /\ exits' \in 0 .. scope.exits
  BY <1>1, OutsideFacts DEF FrameInv, ConnectionTypes
<1>4. \A b \in {w[First], w[Second], late} : b.upload = "sent" =>
        <<b.job, b.account>> \in Jobs \X (Accounts \cup {None})
  <2>1. \A p \in Workers : w[p].upload = "sent" => w[p].job \in Jobs /\ w[p].account \in Accounts \cup {None}
    BY AttemptFacts DEF AttemptOK
  <2>2. late.upload = "sent" => late.job \in Jobs /\ late.account \in Accounts \cup {None}
    BY DEF FrameInv, Control, LateOK, RunningTypes, LateAttempt
  <2> QED BY <2>1, <2>2, ProcessesDiffer
<1>5. \A a \in landed' \ landed : \E b \in {w[First], w[Second], late} :
        b.upload = "sent" /\ a = <<b.job, b.account>>
  BY DEF Exit
<1>6. landed' \subseteq Jobs \X (Accounts \cup {None})
  BY <1>4, <1>5 DEF FrameInv, HistoryTypes
<1>7. ConnectionTypes' /\ HistoryTypes'
  BY <1>1, <1>2, <1>3, <1>6 DEF FrameInv, ConnectionTypes, HistoryTypes
<1>8. \A a \in landed' \ landed :
        \/ \E p \in Workers : w[p].upload = "sent" /\ a = <<w[p].job, w[p].account>>
        \/ late.upload = "sent" /\ a = <<late.job, late.account>> /\ late.job \in Jobs
  BY <1>4, <1>5, ProcessesDiffer
<1> QED BY <1>1, <1>3, <1>7, <1>8 DEF Forgetting

-----------------------------------------------------------------------------
(* Rows from one step to the next.                                          *)
Inv == FrameInv /\ QueueInv

LEMMA CopiesOK ==
    ASSUME RowsOK, NEW j \in Jobs, NEW row, Copy(j, row)
    PROVE  RowOK(j, row)
  BY DEF RowsOK, Copy

LEMMA RowsFromCopies ==
    ASSUME \A j \in Jobs : \A row : Copy(j, row)' => RowOK(j, row)'
    PROVE  RowsOK'
<1> SUFFICES ASSUME NEW j \in Jobs
             PROVE  (/\ RowOK(j, jobs[j])
                     /\ x.pc \in {"account", "write"} => RowOK(j, x.seen[j])
                     /\ late.pc = "release" => RowOK(j, late.seen[j])
                     /\ \A p \in Workers :
                          /\ chain = p => RowOK(j, w[p].seen[j])
                          /\ w[p].pc # "idle" /\ w[p].job = j => RowOK(j, w[p].row))'
  BY DEF RowsOK
<1>1. RowOK(j, jobs[j])'
  <2>1. ASSUME NEW row, row = jobs'[j] PROVE RowOK(j, row)'
    BY <2>1 DEF Copy
  <2> QED BY <2>1 DEF RowOK, Fits, Bounded
<1>2. (x.pc \in {"account", "write"} => RowOK(j, x.seen[j]))'
  <2>1. ASSUME NEW row, row = x'.seen[j], x'.pc \in {"account", "write"} PROVE RowOK(j, row)'
    BY <2>1 DEF Copy
  <2> QED BY <2>1 DEF RowOK, Fits, Bounded
<1>3. (late.pc = "release" => RowOK(j, late.seen[j]))'
  <2>1. ASSUME NEW row, row = late'.seen[j], late'.pc = "release" PROVE RowOK(j, row)'
    BY <2>1 DEF Copy
  <2> QED BY <2>1 DEF RowOK, Fits, Bounded
<1>4. ASSUME NEW p \in Workers, chain' = p PROVE RowOK(j, w[p].seen[j])'
  <2>1. ASSUME NEW row, row = w'[p].seen[j] PROVE RowOK(j, row)'
    BY <1>4, <2>1 DEF Copy
  <2> QED BY <2>1 DEF RowOK, Fits, Bounded
<1>5. ASSUME NEW p \in Workers, w'[p].pc # "idle", w'[p].job = j PROVE RowOK(j, w[p].row)'
  <2>1. ASSUME NEW row, row = w'[p].row PROVE RowOK(j, row)'
    BY <1>5, <2>1 DEF Copy
  <2> QED BY <2>1 DEF RowOK, Fits, Bounded
<1> QED BY <1>1, <1>2, <1>3, <1>4, <1>5

(* A step that neither admits a capture nor sends it anywhere else ...      *)
Steady(j) ==
    /\ capture'[j] = capture[j] /\ (Ahead(j)' => Ahead(j))
    /\ \A a \in Accounts : Reaches(j, a)' => Reaches(j, a)
    /\ exits \in Nat /\ exits' \in Nat /\ exits' >= exits /\ scope' = scope
    /\ scope.attempts \in Nat

(* ... nor counts its attempts anew, or forgets that it is given up.        *)
Quiet(j) ==
    /\ Steady(j) /\ begun[j] \in Nat /\ begun'[j] \in Nat /\ begun'[j] <= begun[j]
    /\ GivingUp(j) => GivingUp(j)' \/ exits' >= exits + 1

LEMMA RowKept ==
    ASSUME NEW j \in Jobs, Quiet(j), NEW row \in Row, RowOK(j, row)
    PROVE  RowOK(j, row)'
<1> SUFFICES ASSUME row.state # "absent" PROVE RowOK(j, row)'
  BY DEF RowOK
<1>1. ~Ahead(j)' /\ Fits(row, capture'[j]) /\ (\A a \in Accounts : Reaches(j, a)' => row.owner = a)
  BY DEF RowOK, Quiet, Steady
<1>2. begun'[j] <= row.attempts
  BY RowFields DEF RowOK, Quiet
<1>3. Bounded(j, row)'
  <2>1. row.attempts \in Nat
    BY RowFields
  <2> QED BY <2>1 DEF RowOK, Quiet, Steady, Bounded
<1> QED BY <1>1, <1>2, <1>3 DEF RowOK

LEMMA RowAlike ==
    ASSUME NEW j \in Jobs, NEW row, RowOK(j, row), NEW made, Alike(made, row)
    PROVE  RowOK(j, made)
  BY DEF RowOK, Alike, Like, Fits, Bounded

(* A row in the queue that changes, its owner and target kept. *)
LEMMA RowBecomes ==
    ASSUME NEW j \in Jobs, Steady(j), NEW row, RowOK(j, row), NEW made, Like(made, row),
           row.state \notin {"absent", "awaiting-auth"}, made.state # "awaiting-auth",
           begun'[j] <= made.attempts, Bounded(j, made)'
    PROVE  RowOK(j, made)'
<1>1. /\ ~Ahead(j)' /\ Fits(made, capture'[j])
      /\ \A a \in Accounts : Reaches(j, a)' => made.owner = a
  BY DEF RowOK, Steady, Like, Fits
<1> QED BY <1>1 DEF RowOK

LEMMA AbsentOK ==
    ASSUME NEW j \in Jobs, NEW row, row.state = "absent"
    PROVE  RowOK(j, row) /\ RowOK(j, row)'
  BY DEF RowOK

LEMMA CopyIsRow ==
    ASSUME FrameInv, NEW j \in Jobs, NEW row, Copy(j, row)
    PROVE  row \in Row
<1>1. x.seen \in Queue /\ late.seen \in Queue /\ jobs \in Queue
  BY DEF FrameInv, RunningTypes, Operation, LateAttempt
<1>2. \A p \in Workers : w[p].seen \in Queue /\ w[p].row \in Row
  BY AttemptFacts
<1> QED BY <1>1, <1>2 DEF Copy, Queue

(* Where every save is quiet and no new copy is made, the rows stay as they  *)
(* should.                                                                  *)
LEMMA QuietRows ==
    ASSUME Inv, \A j \in Jobs : Quiet(j),
           \A j \in Jobs : \A row : Copy(j, row)' =>
               row.state = "absent" \/ \E old : Copy(j, old) /\ row \in Row /\ Alike(row, old)
    PROVE  RowsOK'
<1> SUFFICES ASSUME NEW j \in Jobs, NEW row, Copy(j, row)'
             PROVE  RowOK(j, row)'
  BY RowsFromCopies
<1>1. CASE row.state = "absent"
  BY <1>1, AbsentOK
<1>2. ASSUME NEW old, Copy(j, old), row \in Row, Alike(row, old) PROVE RowOK(j, row)'
  <2>1. RowOK(j, row)
    BY <1>2, CopiesOK, RowAlike DEF Inv, QueueInv
  <2> QED BY <1>2, <2>1, RowKept
<1> QED BY <1>1, <1>2

LEMMA AlikeSelf == \A row : Alike(row, row)
  BY DEF Alike, Like

-----------------------------------------------------------------------------
(* Each kind of step keeps the invariant.                                   *)
LEMMA CountsAre ==
    ASSUME FrameInv
    PROVE  /\ exits \in Nat /\ scope.attempts \in Nat /\ scope.attempts >= 1
           /\ \A j \in Jobs : begun[j] \in Nat
  BY ScopeFacts DEF FrameInv, ConnectionTypes, HistoryTypes

LEMMA CountsAreAfter ==
    ASSUME FrameInv'
    PROVE  exits' \in Nat /\ \A j \in Jobs : begun'[j] \in Nat
<1>1. scope' \in Scopes /\ exits' \in 0 .. scope'.exits /\ begun' \in [Jobs -> Nat]
  BY DEF FrameInv, ConnectionTypes, HistoryTypes
<1>2. scope'.exits \in Nat
  BY <1>1, ExtensionQueueAssumption DEF Scope
<1> QED BY <1>1, <1>2

LEMMA QuietFrom ==
    ASSUME FrameInv, FrameInv', scope' = scope, NEW j \in Jobs, capture'[j] = capture[j],
           AskedIn(requests, j)' => Ahead(j), Admitting(j)' => Ahead(j),
           \A a \in Accounts : Reaches(j, a)' => Reaches(j, a),
           begun'[j] <= begun[j],
           \/ exits' = exits /\ (GivingUp(j) => GivingUp(j)')
           \/ exits' = exits + 1
    PROVE  Quiet(j)
<1>1. Ahead(j)' => Ahead(j)
  BY DEF Ahead
<1>2. exits' >= exits /\ exits' \in Nat /\ exits \in Nat
  BY CountsAre, CountsAreAfter
<1>3. Steady(j)
  BY <1>1, <1>2, CountsAre DEF Steady
<1>4. GivingUp(j) => GivingUp(j)' \/ exits' >= exits + 1
  BY <1>2
<1> QED BY <1>3, <1>4, CountsAre, CountsAreAfter DEF Quiet

(* What the rest of the invariant asks where the captures are quiet. *)
LEMMA QuietHistory ==
    ASSUME Inv, FrameInv', scope' = scope, \A j \in Jobs : Quiet(j), ended' = ended, kept' = kept
    PROVE  Early' /\ ReachOK' /\ AttemptsBounded'
<1>1. Early'
  <2> SUFFICES ASSUME NEW j \in Jobs, Ahead(j)'
               PROVE  /\ begun'[j] = 0 /\ j \notin kept' \cup ended'
                      /\ \A a \in Accounts : ~Reaches(j, a)'
    BY DEF Early
  <2>1. Ahead(j)
    BY DEF Quiet, Steady
  <2> QED BY <2>1 DEF Inv, QueueInv, Early, Quiet, Steady
<1>2. ReachOK'
  <2> SUFFICES ASSUME NEW j \in Jobs, NEW a \in Accounts, Reaches(j, a)'
               PROVE  /\ a[1] = capture'[j][1] /\ capture'[j][2] \in {None, a[2]}
                      /\ \A b \in Accounts : Reaches(j, b)' => a = b
    BY DEF ReachOK
  <2>1. capture'[j] = capture[j] /\ Reaches(j, a)
        /\ \A b \in Accounts : Reaches(j, b)' => Reaches(j, b)
    BY DEF Quiet, Steady
  <2> QED BY <2>1 DEF Inv, QueueInv, ReachOK
<1>3. AttemptsBounded'
  <2>1. \A j \in Jobs : begun'[j] <= begun[j] /\ begun[j] <= scope.attempts /\ begun'[j] \in Nat /\ begun[j] \in Nat
    BY DEF Quiet, Inv, QueueInv, AttemptsBounded
  <2>2. scope'.attempts = scope.attempts /\ scope.attempts \in Nat
    BY CountsAre DEF Inv
  <2> QED BY <2>1, <2>2 DEF AttemptsBounded
<1> QED BY <1>1, <1>2, <1>3

LEMMA CalmAsks ==
    ASSUME AsksOK, Calmer(requests', requests), capture' = capture,
           \A j \in Jobs : Admitting(j)' => Admitting(j)
    PROVE  AsksOK' /\ \A j \in Jobs : AskedIn(requests, j)' => Ahead(j)
<1>1. \A j \in Jobs : /\ AskedIn(requests', j) => AskedIn(requests, j)
                      /\ OnceIn(requests, j) => OnceIn(requests', j)
  BY DEF Calmer
<1> QED BY <1>1 DEF AsksOK, Ahead

LEMMA AroundKeeps == Inv /\ Around => Inv'
<1> SUFFICES ASSUME Inv, Around PROVE Inv'
  OBVIOUS
<1>1. FrameInv /\ FrameInv'
  BY OutsideFrame DEF Inv, Around
<1>2. /\ UNCHANGED <<x, w, late, kept, ended, begun, landed, exits, scope, capture>>
      /\ jobs' \in Queue /\ (\A j \in Jobs : Alike(jobs'[j], jobs[j])) /\ Turns
      /\ Calmer(requests', requests)
  BY DEF Around, Outside
<1>3. \A j \in Jobs : Admitting(j)' => Admitting(j)
  BY <1>2 DEF Admitting
<1>4. AsksOK' /\ \A j \in Jobs : AskedIn(requests, j)' => Ahead(j)
  BY <1>2, <1>3, CalmAsks DEF Inv, QueueInv
<1>5. \A j \in Jobs : /\ GivingUp(j) => GivingUp(j)'
                      /\ \A a \in Accounts : Reaches(j, a)' => Reaches(j, a)
  BY <1>2 DEF GivingUp, Reaches
<1>6. ASSUME NEW j \in Jobs PROVE Quiet(j)
  <2>1. begun'[j] <= begun[j] /\ capture'[j] = capture[j] /\ (Admitting(j)' => Ahead(j))
    BY <1>1, <1>2, <1>3, CountsAre DEF Ahead
  <2> QED BY <1>1, <1>2, <1>4, <1>5, <2>1, QuietFrom
<1>7. \A p \in Workers : (chain' = p => chain = p)
                         /\ (chain' = p /\ sched'[p] = "no" => sched[p] = "no")
  BY <1>1, <1>2, ProcessesDiffer DEF Turns, Processes, FrameInv, RunningTypes
<1>8. \A j \in Jobs : \A row : Copy(j, row)' =>
        \E old : Copy(j, old) /\ row \in Row /\ Alike(row, old)
  <2> TAKE j \in Jobs
  <2> TAKE row
  <2> HAVE Copy(j, row)'
  <2>1. CASE row = jobs'[j]
    BY <1>2, <2>1 DEF Copy, Queue
  <2>2. CASE Copy(j, row)
    BY <1>1, <2>2, CopyIsRow, AlikeSelf
  <2>3. row = jobs'[j] \/ Copy(j, row)
    BY <1>2, <1>7 DEF Copy
  <2> QED BY <2>1, <2>2, <2>3
<1>9. RowsOK'
  BY <1>6, <1>8, QuietRows
<1>10. Early' /\ ReachOK' /\ AttemptsBounded'
  BY <1>1, <1>2, <1>6, QuietHistory
<1>11. LandedOK'
  BY <1>2 DEF Inv, QueueInv, LandedOK
<1>12. \A j \in Jobs : jobs'[j].state = jobs[j].state
  BY <1>2 DEF Alike
<1>13. SeenStates'
  BY <1>2, <1>7, <1>12 DEF Inv, QueueInv, SeenStates
<1>14. \A p \in Workers : w[p].pc \in PreClaim => w[p].job \in Jobs
  BY <1>1, AttemptFacts DEF PreClaim
<1>15. Unclaimed'
  BY <1>2, <1>12, <1>14 DEF Inv, QueueInv, Unclaimed
<1>16. Spent'
  BY <1>2, <1>12, <1>14 DEF Inv, QueueInv, Spent, PreClaim
<1> QED BY <1>1, <1>4, <1>9, <1>10, <1>11, <1>13, <1>15, <1>16 DEF Inv, QueueInv

LEMMA CaptureKeeps ==
    ASSUME Inv, NEW j \in Jobs, CaptureSave(j)
    PROVE  Inv'
<1> DEFINE r == Ask("enqueue", j, None)
<1>1. FrameInv /\ FrameInv'
  BY OutsideFrame, CaptureOutside DEF Inv
<1>2. /\ UNCHANGED <<x, w, late, kept, ended, begun, landed, exits, scope, jobs, chain, sched>>
      /\ capture[j] = None /\ capture'[j] # None /\ \A k \in Jobs \ {j} : capture'[k] = capture[k]
      /\ requests' = Append(requests, r) /\ r \in Good
      /\ Enqueues(r, j) /\ \A k \in Jobs : Enqueues(r, k) => k = j
  BY <1>1, CaptureOutside DEF Outside
<1> HIDE DEF r
<1>3. Ahead(j) /\ ~AskedIn(requests, j) /\ ~Admitting(j)
  BY <1>2 DEF Ahead, Inv, QueueInv, AsksOK
<1>4. \A k \in Jobs : /\ Admitting(k)' <=> Admitting(k)
                      /\ GivingUp(k)' <=> GivingUp(k)
                      /\ \A a \in Accounts : Reaches(k, a)' <=> Reaches(k, a)
                      /\ \A row : Copy(k, row)' <=> Copy(k, row)
  BY <1>2 DEF Admitting, GivingUp, Reaches, Copy
<1>5. \A k \in Jobs : /\ AskedIn(requests', k) => AskedIn(requests, k) \/ k = j
                      /\ OnceIn(requests, k) /\ ~(AskedIn(requests, k) /\ k = j) => OnceIn(requests', k)
  BY <1>1, <1>2, OutsideFacts, AppendGood
<1>6. AsksOK'
  BY <1>2, <1>3, <1>4, <1>5 DEF Inv, QueueInv, AsksOK
<1>7. ASSUME NEW k \in Jobs, k # j PROVE Quiet(k)
  <2>1. AskedIn(requests, k)' => Ahead(k)
    BY <1>5, <1>7 DEF Ahead
  <2>2. begun'[k] <= begun[k] /\ capture'[k] = capture[k] /\ (Admitting(k)' => Ahead(k))
    BY <1>1, <1>2, <1>4, <1>7, CountsAre DEF Ahead
  <2> QED BY <1>1, <1>2, <1>4, <2>1, <2>2, QuietFrom
<1>8. RowsOK'
  <2> SUFFICES ASSUME NEW k \in Jobs, NEW row, Copy(k, row)' PROVE RowOK(k, row)'
    BY RowsFromCopies
  <2>1. Copy(k, row) /\ RowOK(k, row) /\ row \in Row
    BY <1>1, <1>4, CopiesOK, CopyIsRow DEF Inv, QueueInv
  <2>2. CASE k # j
    BY <1>7, <2>1, <2>2, RowKept
  <2>3. CASE k = j
    BY <1>3, <2>1, <2>3 DEF RowOK
  <2> QED BY <2>2, <2>3
<1>9. \A a \in Accounts : ~Reaches(j, a)'
  BY <1>3, <1>4 DEF Inv, QueueInv, Early
<1>10. Early'
  <2> SUFFICES ASSUME NEW k \in Jobs, Ahead(k)'
               PROVE  /\ begun'[k] = 0 /\ k \notin kept' \cup ended'
                      /\ \A a \in Accounts : ~Reaches(k, a)'
    BY DEF Early
  <2>1. Ahead(k)
    BY <1>3, <1>7 DEF Quiet, Steady
  <2> QED BY <1>2, <1>4, <2>1 DEF Inv, QueueInv, Early
<1>11. ReachOK'
  <2> SUFFICES ASSUME NEW k \in Jobs, NEW a \in Accounts, Reaches(k, a)'
               PROVE  /\ a[1] = capture'[k][1] /\ capture'[k][2] \in {None, a[2]}
                      /\ \A b \in Accounts : Reaches(k, b)' => a = b
    BY DEF ReachOK
  <2>1. k # j /\ capture'[k] = capture[k]
    BY <1>2, <1>9
  <2> QED BY <1>4, <2>1 DEF Inv, QueueInv, ReachOK
<1>12. LandedOK' /\ SeenStates' /\ Unclaimed' /\ Spent' /\ AttemptsBounded'
  BY <1>2 DEF Inv, QueueInv, LandedOK, SeenStates, Unclaimed, Spent, AttemptsBounded
<1> QED BY <1>1, <1>6, <1>8, <1>10, <1>11, <1>12 DEF Inv, QueueInv

(* A save that is sent goes to the account that owns it. *)
LEMMA SentReaches ==
    ASSUME Inv, NEW p \in Workers, w[p].upload = "sent"
    PROVE  /\ w[p].job \in Jobs /\ w[p].account \in Accounts
           /\ w[p].pc = "upload" /\ w[p].account = w[p].row.owner
           /\ Reaches(w[p].job, w[p].account)
<1>1. /\ w[p].pc = "upload" /\ w[p].account = w[p].row.owner /\ w[p].job \in Jobs
      /\ w[p].row.state \in {"pending", "processing"} /\ w[p].row.owner \in Accounts \cup {None}
  BY AttemptFacts, RowFields DEF Inv, AttemptOK
<1>2. RowOK(w[p].job, w[p].row)
  BY <1>1 DEF Inv, QueueInv, RowsOK
<1>3. w[p].row.owner \in Accounts
  BY <1>1, <1>2 DEF RowOK, Fits
<1> QED BY <1>1, <1>3 DEF Reaches, Sending

LEMMA ForgettingKeeps ==
    ASSUME Inv, Forgetting, UNCHANGED <<capture, kept, ended, begun>>,
           \A j \in Jobs, a \in Accounts : <<j, a>> \in landed' => Reaches(j, a),
           landed' \subseteq Jobs \X Accounts,
           \/ exits' = exits /\ \A p \in Workers : w[p].pc = "idle"
           \/ exits' = exits + 1
    PROVE  Inv'
<1>1. FrameInv /\ FrameInv'
  BY ForgettingFrame DEF Inv
<1>2. /\ jobs' = jobs /\ scope' = scope /\ requests' = <<>> /\ x' = NoOperation
      /\ late' = NoLate /\ chain' = None
      /\ \A p \in Workers : w'[p] = NoAttempt
  BY DEF Forgetting, Forget
<1>3. Calmer(requests', requests) /\ \A j \in Jobs : Admitting(j)' => Admitting(j)
  BY <1>1, <1>2, CalmFresh, OutsideFacts, IdleFacts DEF Admitting
<1>4. AsksOK' /\ \A j \in Jobs : AskedIn(requests, j)' => Ahead(j)
  BY <1>3, CalmAsks DEF Inv, QueueInv
<1>5. \A j \in Jobs, a \in Accounts : Reaches(j, a)' => Reaches(j, a)
  BY <1>2, IdleFacts DEF Reaches, Sending
<1>6. ASSUME NEW j \in Jobs PROVE Quiet(j)
  <2>1. begun'[j] <= begun[j] /\ capture'[j] = capture[j] /\ (Admitting(j)' => Ahead(j))
    BY <1>1, <1>3, CountsAre DEF Ahead
  <2>2. (exits' = exits /\ (GivingUp(j) => GivingUp(j)')) \/ exits' = exits + 1
    BY DEF GivingUp
  <2> QED BY <1>1, <1>2, <1>4, <1>5, <2>1, <2>2, QuietFrom
<1>7. \A j \in Jobs : \A row : Copy(j, row)' =>
        \E old : Copy(j, old) /\ row \in Row /\ Alike(row, old)
  <2> SUFFICES ASSUME NEW j \in Jobs, NEW row, Copy(j, row)' PROVE Copy(j, row)
    BY <1>1, CopyIsRow, AlikeSelf
  <2>1. row = jobs[j]
    BY <1>2, IdleFacts, ProcessesDiffer DEF Copy, Processes
  <2> QED BY <2>1 DEF Copy
<1>8. RowsOK'
  BY <1>6, <1>7, QuietRows
<1>9. Early' /\ ReachOK' /\ AttemptsBounded'
  BY <1>1, <1>2, <1>6, QuietHistory
<1>10. LandedOK'
  BY <1>2, IdleFacts DEF LandedOK
<1>11. SeenStates' /\ Unclaimed' /\ Spent'
  BY <1>2, IdleFacts, ProcessesDiffer DEF SeenStates, Unclaimed, Spent, PreClaim, Processes
<1> QED BY <1>1, <1>4, <1>8, <1>9, <1>10, <1>11 DEF Inv, QueueInv

LEMMA SuspendKeeps == Inv /\ Suspend => Inv'
<1> SUFFICES ASSUME Inv, Suspend PROVE Inv'
  OBVIOUS
<1>1. /\ Forgetting /\ UNCHANGED <<capture, kept, ended, begun>> /\ landed' = landed
      /\ exits' = exits /\ \A p \in Workers : w[p].pc = "idle"
  BY SuspendForgets DEF Inv
<1>2. \A j \in Jobs, a \in Accounts : <<j, a>> \in landed' => Reaches(j, a)
  BY <1>1 DEF Reaches
<1>3. landed' \subseteq Jobs \X Accounts
  BY <1>1 DEF Inv, QueueInv, LandedOK
<1> QED BY <1>1, <1>2, <1>3, ForgettingKeeps

LEMMA ExitKeeps == Inv /\ Exit => Inv'
<1> SUFFICES ASSUME Inv, Exit PROVE Inv'
  OBVIOUS
<1>1. /\ Forgetting /\ UNCHANGED <<capture, kept, ended, begun>> /\ exits' = exits + 1
      /\ \A a \in landed' \ landed :
           \/ \E p \in Workers : w[p].upload = "sent" /\ a = <<w[p].job, w[p].account>>
           \/ late.upload = "sent" /\ a = <<late.job, late.account>> /\ late.job \in Jobs
  BY ExitForgets DEF Inv
<1>2. landed \subseteq Jobs \X Accounts /\ (late.upload = "sent" => late.account \in Accounts)
  BY DEF Inv, QueueInv, LandedOK
<1>3. \A j \in Jobs, a \in Accounts : <<j, a>> \in landed' => Reaches(j, a)
  <2> SUFFICES ASSUME NEW j \in Jobs, NEW a \in Accounts, <<j, a>> \in landed' \ landed
               PROVE  Reaches(j, a)
    BY DEF Reaches
  <2>1. ASSUME NEW p \in Workers, w[p].upload = "sent", <<j, a>> = <<w[p].job, w[p].account>>
        PROVE  Reaches(j, a)
    BY <2>1, SentReaches
  <2>2. CASE late.upload = "sent" /\ <<j, a>> = <<late.job, late.account>>
    BY <2>2 DEF Reaches
  <2> QED BY <1>1, <2>1, <2>2
<1>4. landed' \subseteq Jobs \X Accounts
  BY <1>1, <1>2, SentReaches
<1> QED BY <1>1, <1>3, <1>4, ForgettingKeeps

(* Two workers that are both active have different saves. *)
LEMMA OtherJobs ==
    ASSUME FrameInv, NEW p \in Workers, NEW q \in Workers, q # p,
           w[p].pc # "idle", w[q].pc # "idle"
    PROVE  w[q].job # w[p].job
  BY ProcessesDiffer DEF FrameInv, Control, JobsDiffer, Workers

LEMMA ThinkingKeeps ==
    ASSUME Inv, NEW p \in Workers, Thinking(p, w'[p]), sched[p] = "no"
    PROVE  Inv'
<1> DEFINE a == w'[p]
<1>1. FrameInv /\ FrameInv'
  BY WorkingFrame DEF Inv, Thinking
<1>2. /\ UNCHANGED <<jobs, chain, sched, capture, exits, kept, ended, begun, x, scope>>
      /\ w[p].pc \in {"check", "upload"} /\ w[p].job \in Jobs
      /\ \A q \in Workers \ {p} : w'[q] = w[q]
      /\ a.pc # "idle" => a.job = w[p].job
  BY <1>1, AttemptFacts, WorkerChange DEF Thinking, Working
<1>3. chain # p
  <2>1. w[p].pc \notin Mutations
    BY <1>2 DEF Mutations
  <2> QED BY <1>1, <2>1 DEF FrameInv, Control, WorkerOK
<1>4. Calmer(requests', requests) /\ \A j \in Jobs : Admitting(j)' => Admitting(j)
  BY <1>2 DEF Thinking, Admitting
<1>5. AsksOK' /\ \A j \in Jobs : AskedIn(requests, j)' => Ahead(j)
  BY <1>2, <1>4, CalmAsks DEF Inv, QueueInv
<1>6. w[p].upload = "sent" => w[p].account \in Accounts /\ Reaches(w[p].job, w[p].account)
  BY SentReaches
<1>7. ASSUME NEW j \in Jobs, NEW b \in Accounts, Reaches(j, b)' PROVE Reaches(j, b)
  <2>1. CASE <<j, b>> \in landed'
    BY <1>6, <2>1 DEF Thinking, Sends, Reaches
  <2>2. ASSUME NEW q \in Workers, Sending(w'[q], j, b) PROVE Reaches(j, b)
    <3>1. CASE q = p
      <4>1. Sending(w[p], j, b)
        BY <1>2, <2>2, <3>1 DEF Thinking, Sending
      <4> QED BY <4>1 DEF Reaches
    <3>2. CASE q # p
      BY <1>2, <2>2, <3>2 DEF Reaches
    <3> QED BY <3>1, <3>2
  <2>3. CASE late'.upload = "sent" /\ late'.job = j /\ late'.account = b
    BY <1>6, <2>3 DEF Thinking, Sends, Reaches
  <2>4. \/ <<j, b>> \in landed' \/ \E q \in Workers : Sending(w'[q], j, b)
        \/ late'.upload = "sent" /\ late'.job = j /\ late'.account = b
    BY <1>7 DEF Reaches
  <2> QED BY <2>1, <2>2, <2>3, <2>4
<1>8. \A j \in Jobs : GivingUp(j) => GivingUp(j)'
  BY <1>2 DEF GivingUp
<1>9. ASSUME NEW j \in Jobs PROVE Quiet(j)
  <2>1. begun'[j] <= begun[j] /\ capture'[j] = capture[j] /\ (Admitting(j)' => Ahead(j))
    BY <1>1, <1>2, <1>4, CountsAre DEF Ahead
  <2> QED BY <1>1, <1>2, <1>5, <1>7, <1>8, <2>1, QuietFrom
<1>10. late'.pc = "release" => late' = late
  BY <1>1, <1>2 DEF Thinking, Working, Lateness, LateAttempt, FrameInv, RunningTypes
<1>11. ASSUME NEW j \in Jobs, NEW row, Copy(j, row)' PROVE Copy(j, row)
  <2>1. a.pc # "idle" /\ a.job = j /\ row = a.row => Copy(j, row)
    BY <1>2 DEF Thinking, Copy
  <2>2. \A q \in Workers : chain' = q => chain = q /\ w'[q] = w[q]
    BY <1>2, <1>3
  <2>3. \A q \in Workers : w'[q].pc # "idle" /\ w'[q].job = j /\ row = w'[q].row => Copy(j, row)
    BY <1>2, <2>1 DEF Copy
  <2> HIDE DEF a
  <2> QED BY <1>2, <1>10, <1>11, <2>2, <2>3 DEF Copy
<1>12. RowsOK'
  <2>1. \A j \in Jobs : \A row : Copy(j, row)' =>
          \E old : Copy(j, old) /\ row \in Row /\ Alike(row, old)
    BY <1>1, <1>11, CopyIsRow, AlikeSelf
  <2> QED BY <1>9, <2>1, QuietRows
<1>13. Early' /\ ReachOK' /\ AttemptsBounded'
  BY <1>1, <1>2, <1>9, QuietHistory
<1>14. LandedOK'
  BY <1>2, <1>6 DEF Thinking, Sends, Inv, QueueInv, LandedOK
<1>15. SeenStates'
  BY <1>2, <1>3 DEF Inv, QueueInv, SeenStates
<1>16. late' = late \/ (late'.pc = "settling" /\ late'.job = w[p].job /\ a.pc = "settle")
  BY <1>2 DEF Thinking, Working, Lateness
<1>17. Unclaimed'
  <2> SUFFICES ASSUME NEW q \in Workers, w'[q].pc \in PreClaim, late'.pc # "idle",
                      late'.job = w'[q].job
               PROVE  jobs'[w'[q].job].state = "pending"
    BY DEF Unclaimed
  <2>1. CASE q = p
    <3>1. late' = late /\ a.pc # "idle" /\ w[p].pc = "check"
      BY <1>16, <2>1 DEF Thinking, PreClaim
    <3> QED BY <1>2, <2>1, <3>1 DEF Inv, QueueInv, Unclaimed, PreClaim
  <2>2. CASE q # p
    <3>1. w'[q] = w[q] /\ w[q].pc # "idle"
      BY <1>2, <2>2 DEF PreClaim
    <3>2. late' = late
      BY <1>1, <1>2, <1>16, <2>2, <3>1, OtherJobs
    <3> QED BY <1>2, <3>1, <3>2 DEF Inv, QueueInv, Unclaimed
  <2> QED BY <2>1, <2>2
<1>18. Spent'
  <2> SUFFICES ASSUME NEW q \in Workers, w'[q].pc = "claim", w'[q].row.attempts >= scope.attempts
               PROVE  /\ jobs'[w'[q].job].state # "pending"
                      /\ late'.pc # "idle" => late'.job # w'[q].job
                      /\ late'.pc = "release" => late'.seen[w'[q].job].state # "pending"
    BY <1>2 DEF Spent
  <2>1. q # p
    <3>1. CASE q = p
      <4>1. w'[p].row.attempts < scope.attempts
        BY <3>1 DEF Thinking
      <4>2. w'[p].row.attempts \in Nat /\ scope.attempts \in Nat
        BY <1>1, CountsAre, RowFields DEF FrameInv, RunningTypes, Attempt
      <4> QED BY <3>1, <4>1, <4>2
    <3> QED BY <3>1
  <2>2. w'[q] = w[q] /\ w[q].pc # "idle"
    BY <1>2, <2>1
  <2>3. w[q].job # w[p].job
    BY <1>1, <1>2, <2>1, <2>2, OtherJobs
  <2>4. late' = late \/ (late'.pc = "settling" /\ late'.job # w[q].job)
    BY <1>16, <2>3
  <2> QED BY <1>2, <2>2, <2>4 DEF Inv, QueueInv, Spent
<1> QED BY <1>1, <1>5, <1>12, <1>13, <1>14, <1>15, <1>17, <1>18 DEF Inv, QueueInv

LEMMA EnterKeeps ==
    ASSUME Inv, NEW p \in Workers, Enter(p)
    PROVE  Inv'
<1>1. FrameInv /\ FrameInv'
  BY EnterWorks, WorkingFrame DEF Inv
<1>2. /\ UNCHANGED <<jobs, capture, exits, kept, ended, begun, landed, requests, late, sched, x, scope>>
      /\ chain = None /\ chain' = p /\ w'[p] = [w[p] EXCEPT !.seen = jobs]
      /\ w[p].pc # "idle" /\ w[p].job \in Jobs
      /\ \A q \in Workers \ {p} : w'[q] = w[q]
  BY <1>1, EnterWorks, AttemptFacts, WorkerChange DEF Working, Mutations
<1>3. /\ w'[p].pc = w[p].pc /\ w'[p].job = w[p].job /\ w'[p].row = w[p].row /\ w'[p].seen = jobs
  BY <1>1, <1>2, AttemptFacts DEF Attempt
<1>4. \A q \in Workers : /\ w'[q].pc = w[q].pc /\ w'[q].job = w[q].job /\ w'[q].row = w[q].row
  BY <1>2, <1>3
<1>5. AsksOK' /\ \A j \in Jobs : AskedIn(requests, j)' => Ahead(j)
  <2>1. Calmer(requests', requests) /\ \A j \in Jobs : Admitting(j)' => Admitting(j)
    BY <1>1, <1>2, OutsideFacts DEF Admitting
  <2> QED BY <1>2, <2>1, CalmAsks DEF Inv, QueueInv
<1>6. ASSUME NEW j \in Jobs PROVE Quiet(j)
  <2>1. \A b \in Accounts : Reaches(j, b)' => Reaches(j, b)
    BY <1>2, <1>4 DEF Reaches, Sending
  <2>2. GivingUp(j) => GivingUp(j)'
    BY <1>4 DEF GivingUp
  <2>3. begun'[j] <= begun[j] /\ capture'[j] = capture[j] /\ (Admitting(j)' => Ahead(j))
    BY <1>1, <1>2, CountsAre DEF Ahead, Admitting
  <2> QED BY <1>1, <1>2, <1>5, <2>1, <2>2, <2>3, QuietFrom
<1>7. ASSUME NEW j \in Jobs, NEW row, Copy(j, row)' PROVE Copy(j, row)
  BY <1>2, <1>3, <1>4, <1>7 DEF Copy
<1>8. RowsOK'
  <2>1. \A j \in Jobs : \A row : Copy(j, row)' =>
          \E old : Copy(j, old) /\ row \in Row /\ Alike(row, old)
    BY <1>1, <1>7, CopyIsRow, AlikeSelf
  <2> QED BY <1>6, <2>1, QuietRows
<1>9. Early' /\ ReachOK' /\ AttemptsBounded'
  BY <1>1, <1>2, <1>6, QuietHistory
<1>10. LandedOK' /\ SeenStates'
  BY <1>2, <1>3 DEF Inv, QueueInv, LandedOK, SeenStates
<1>11. Unclaimed' /\ Spent'
  BY <1>2, <1>4 DEF Inv, QueueInv, Unclaimed, Spent
<1> QED BY <1>1, <1>5, <1>8, <1>9, <1>10, <1>11 DEF Inv, QueueInv

LEMMA StartJobKeeps ==
    ASSUME Inv, NEW p \in Workers, NEW j \in Jobs, StartJob(p, j)
    PROVE  Inv'
<1>1. FrameInv /\ FrameInv'
  BY StartJobFrame DEF Inv
<1>2. /\ chain # p /\ w[p].pc = "idle"
      /\ \A q \in Workers \ {p} : w'[q] = w[q]
      /\ \/ w'[p] = NoAttempt
         \/ /\ w'[p].pc = "check" /\ w'[p].job = j /\ w'[p].row = jobs[j]
            /\ jobs[j].state = "pending"
  BY <1>1, StartJobFrame, WorkerChange DEF StartJob
<1>3. /\ UNCHANGED <<jobs, capture, exits, kept, ended, begun, landed, requests, late, chain, sched,
                     scope>>
      /\ x.pc = "work" /\ x'.pc = "work"
  BY <1>1 DEF StartJob, stored, bounds, chains, history, FrameInv, RunningTypes, Operation
<1>4. AsksOK' /\ \A k \in Jobs : AskedIn(requests, k)' => Ahead(k)
  <2>1. Calmer(requests', requests) /\ \A k \in Jobs : Admitting(k)' => Admitting(k)
    BY <1>1, <1>3, OutsideFacts DEF Admitting
  <2> QED BY <1>3, <2>1, CalmAsks DEF Inv, QueueInv
<1>5. ASSUME NEW k \in Jobs PROVE Quiet(k)
  <2>1. \A b \in Accounts : Reaches(k, b)' => Reaches(k, b)
    <3>1. \A q \in Workers : \A b \in Accounts : Sending(w'[q], k, b) => Sending(w[q], k, b)
      BY <1>2, IdleFacts DEF Sending
    <3> QED BY <1>3, <3>1 DEF Reaches
  <2>2. GivingUp(k) => GivingUp(k)'
    BY <1>2 DEF GivingUp
  <2>3. begun'[k] <= begun[k] /\ capture'[k] = capture[k] /\ (Admitting(k)' => Ahead(k))
    BY <1>1, <1>3, CountsAre DEF Ahead, Admitting
  <2> QED BY <1>1, <1>3, <1>4, <2>1, <2>2, <2>3, QuietFrom
<1>6. ASSUME NEW k \in Jobs, NEW row, Copy(k, row)' PROVE Copy(k, row)
  <2>1. \A q \in Workers : w'[q].pc # "idle" /\ w'[q].job = k /\ row = w'[q].row => Copy(k, row)
    BY <1>2, IdleFacts DEF Copy
  <2>2. \A q \in Workers : chain' = q => chain = q /\ w'[q] = w[q]
    BY <1>2, <1>3
  <2> QED BY <1>3, <1>6, <2>1, <2>2 DEF Copy
<1>7. RowsOK'
  <2>1. \A k \in Jobs : \A row : Copy(k, row)' =>
          \E old : Copy(k, old) /\ row \in Row /\ Alike(row, old)
    BY <1>1, <1>6, CopyIsRow, AlikeSelf
  <2> QED BY <1>5, <2>1, QuietRows
<1>8. Early' /\ ReachOK' /\ AttemptsBounded'
  BY <1>1, <1>3, <1>5, QuietHistory
<1>9. LandedOK' /\ SeenStates'
  BY <1>2, <1>3 DEF Inv, QueueInv, LandedOK, SeenStates
<1>10. Unclaimed' /\ Spent'
  BY <1>2, <1>3, IdleFacts DEF Inv, QueueInv, Unclaimed, Spent, PreClaim
<1> QED BY <1>1, <1>4, <1>7, <1>8, <1>9, <1>10 DEF Inv, QueueInv

(* The row a worker works from. *)
LEMMA AttemptRow ==
    ASSUME Inv, NEW p \in Workers, w[p].pc # "idle"
    PROVE  /\ w[p].job \in Jobs /\ w[p].row \in Row /\ RowOK(w[p].job, w[p].row)
           /\ w[p].row.state \in {"pending", "processing"}
           /\ ~Ahead(w[p].job) /\ w[p].row.owner \in Accounts
           /\ w[p].row.owner[1] = capture[w[p].job][1]
           /\ capture[w[p].job][2] \in {None, w[p].row.owner[2]}
           /\ \A a \in Accounts : Reaches(w[p].job, a) => w[p].row.owner = a
<1>1. /\ w[p].job \in Jobs /\ w[p].row \in Row /\ w[p].row.state \in {"pending", "processing"}
      /\ w[p].row.owner \in Accounts \cup {None}
  BY AttemptFacts, RowFields DEF Inv, AttemptOK
<1>2. RowOK(w[p].job, w[p].row)
  BY <1>1 DEF Inv, QueueInv, RowsOK
<1> QED BY <1>1, <1>2 DEF RowOK, Fits

(* A step that leaves the requests and the captures. *)
LEMMA SteadyFrom ==
    ASSUME FrameInv, FrameInv', scope' = scope, NEW j \in Jobs, UNCHANGED <<capture, requests, exits>>,
           Admitting(j)' => Admitting(j), \A a \in Accounts : Reaches(j, a)' => Reaches(j, a)
    PROVE  Steady(j)
<1>1. Ahead(j)' => Ahead(j)
  BY DEF Ahead
<1>2. exits' >= exits /\ exits' \in Nat /\ exits \in Nat
  BY CountsAre
<1> QED BY <1>1, <1>2, CountsAre DEF Steady

(* What a write leaves of the other saves, and of whom it may send to. *)
LEMMA WritingFacts ==
    ASSUME Inv, NEW p \in Workers, Writing(p, w'[p])
    PROVE  /\ FrameInv /\ FrameInv' /\ scope' = scope /\ scope.attempts \in Nat
           /\ w[p].pc # "idle" /\ w[p].job \in Jobs
           /\ chain = p /\ sched[p] = "no" /\ p # Late /\ x.pc = "work" /\ x' = x
           /\ chain' = p \/ chain' = None
           /\ (chain' = p => sched'[p] = "read")
           /\ \A q \in Workers \ {p} : w'[q] = w[q]
           /\ (w'[p].pc # "idle" => w'[p].job = w[p].job)
           /\ late.pc # "release" /\ late'.pc # "release"
           /\ late'.job = late.job /\ late'.upload = late.upload /\ late'.account = late.account
           /\ late'.pc # "idle" => late.pc # "idle"
           /\ \A k \in Jobs : w[p].seen[k].state = jobs[k].state
           /\ \A k \in Jobs \ {w[p].job} : jobs'[k] = jobs[k] \/ jobs'[k] = w[p].seen[k]
           /\ \A k \in Jobs : GivingUp(k) => GivingUp(k)' \/ k = w[p].job
           /\ \A k \in Jobs, b \in Accounts :
                Reaches(k, b)' => \/ Reaches(k, b)
                                  \/ k = w[p].job /\ w'[p].pc = "upload" /\ w'[p].row.owner = b
           /\ \A k \in Jobs : \A row : Copy(k, row)' =>
                \/ row = NoRow \/ row = jobs'[k]
                \/ k = w[p].job /\ w'[p].pc # "idle" /\ row = w'[p].row
                \/ k # w[p].job /\ Copy(k, row)
<1>1. FrameInv /\ FrameInv' /\ scope' = scope
  BY WorkingFrame DEF Inv, Writing, Working
<1>2. /\ w[p].pc # "idle" /\ w[p].job \in Jobs /\ chain = p /\ sched[p] = "no" /\ x' = x
      /\ chain' = p \/ chain' = None
      /\ (chain' = p => sched'[p] = "read")
      /\ \A q \in Workers \ {p} : w'[q] = w[q]
      /\ (w'[p].pc # "idle" => w'[p].job = w[p].job)
  BY <1>1, AttemptFacts, WorkerChange, ProcessesDiffer DEF Writing, Working, Mutations, Processes
<1>3. p # Late /\ p # None
  BY ProcessesDiffer DEF Workers, Processes
<1>4. x.pc = "work" /\ late.pc # "release"
  BY <1>1, <1>2, <1>3 DEF FrameInv, Control, WorkerOK, LateOK
<1>5. /\ late'.pc # "release" /\ late'.job = late.job /\ late'.upload = late.upload
      /\ late'.account = late.account /\ (late'.pc # "idle" => late.pc # "idle")
  BY <1>1, <1>4 DEF Writing, FrameInv, RunningTypes, LateAttempt
<1>6. \A k \in Jobs : w[p].seen[k].state = jobs[k].state
  BY <1>2 DEF Inv, QueueInv, SeenStates
<1>7. \A k \in Jobs \ {w[p].job} : jobs'[k] = jobs[k] \/ jobs'[k] = w[p].seen[k]
  BY DEF Writing
<1>8. \A k \in Jobs : GivingUp(k) => GivingUp(k)' \/ k = w[p].job
  BY <1>2 DEF GivingUp
<1>9. ASSUME NEW k \in Jobs, NEW b \in Accounts, Reaches(k, b)', ~Reaches(k, b)
      PROVE  k = w[p].job /\ w'[p].pc = "upload" /\ w'[p].row.owner = b
  <2>1. PICK q \in Workers : Sending(w'[q], k, b)
    BY <1>5, <1>9 DEF Reaches, Writing
  <2>2. q = p
    BY <1>2, <1>9, <2>1 DEF Reaches
  <2> QED BY <1>2, <2>1, <2>2 DEF Sending
<1>10. ASSUME NEW k \in Jobs, NEW row, Copy(k, row)'
       PROVE  \/ row = NoRow \/ row = jobs'[k]
              \/ k = w[p].job /\ w'[p].pc # "idle" /\ row = w'[p].row
              \/ k # w[p].job /\ Copy(k, row)
  <2>1. CASE row = jobs'[k]
    BY <2>1
  <2>2. ASSUME NEW q \in Workers, chain' = q, row = w'[q].seen[k] PROVE row = NoRow
    <3>1. q = p
      BY <1>2, <2>2, ProcessesDiffer DEF Processes
    <3>2. row = NoQueue[k]
      BY <2>2, <3>1 DEF Writing
    <3> QED BY <3>2, NothingTypes
  <2>3. ASSUME NEW q \in Workers, w'[q].pc # "idle", w'[q].job = k, row = w'[q].row
        PROVE  \/ k = w[p].job /\ w'[p].pc # "idle" /\ row = w'[p].row
               \/ k # w[p].job /\ Copy(k, row)
    <3>1. CASE q = p
      BY <1>2, <2>3, <3>1
    <3>2. CASE q # p
      <4>1. w'[q] = w[q]
        BY <1>2, <3>2
      <4>2. k # w[p].job
        BY <1>1, <1>2, <2>3, <3>2, <4>1, OtherJobs
      <4> QED BY <2>3, <4>1, <4>2 DEF Copy
    <3> QED BY <3>1, <3>2
  <2>4. ~(x'.pc \in {"account", "write"}) /\ late'.pc # "release"
    BY <1>2, <1>4, <1>5
  <2> QED BY <1>10, <2>1, <2>2, <2>3, <2>4 DEF Copy
<1> QED BY <1>1, <1>2, <1>3, <1>4, <1>5, <1>6, <1>7, <1>8, <1>9, <1>10, CountsAre

(* A write keeps the invariant if what it makes of its save does. *)
LEMMA WritingKeeps ==
    ASSUME Inv, NEW p \in Workers, Writing(p, w'[p]), NEW j \in Jobs, j = w[p].job,
           \A row : row = jobs'[j] \/ (w'[p].pc # "idle" /\ row = w'[p].row) => RowOK(j, row)',
           \A k \in Jobs \ {j} : begun'[k] = begun[k], begun'[j] <= scope.attempts,
           ended' \subseteq ended \cup {j},
           w'[p].pc = "upload" => w'[p].row.owner = w[p].row.owner,
           w'[p].pc = "claim" => /\ ~(late.pc # "idle" /\ late.job = j)
                                 /\ jobs'[j].state # "pending"
    PROVE  Inv'
<1>1. /\ FrameInv /\ FrameInv' /\ scope' = scope /\ scope.attempts \in Nat
      /\ w[p].pc # "idle" /\ chain = p /\ sched[p] = "no" /\ p # Late /\ x.pc = "work" /\ x' = x
      /\ chain' = p \/ chain' = None
      /\ (chain' = p => sched'[p] = "read")
      /\ \A q \in Workers \ {p} : w'[q] = w[q]
      /\ (w'[p].pc # "idle" => w'[p].job = j)
      /\ late.pc # "release" /\ late'.pc # "release"
      /\ late'.job = late.job /\ late'.upload = late.upload /\ late'.account = late.account
      /\ late'.pc # "idle" => late.pc # "idle"
      /\ \A k \in Jobs : w[p].seen[k].state = jobs[k].state
      /\ \A k \in Jobs \ {j} : jobs'[k] = jobs[k] \/ jobs'[k] = w[p].seen[k]
      /\ \A k \in Jobs : GivingUp(k) => GivingUp(k)' \/ k = j
  BY WritingFacts
<1>2. UNCHANGED <<capture, exits, kept, landed, requests>>
  BY DEF Writing
<1>3. AsksOK' /\ \A k \in Jobs : AskedIn(requests, k)' => Ahead(k)
  <2>1. Calmer(requests', requests) /\ \A k \in Jobs : Admitting(k)' => Admitting(k)
    BY <1>1, <1>2, OutsideFacts DEF Admitting
  <2> QED BY <1>2, <2>1, CalmAsks DEF Inv, QueueInv
<1>4. ASSUME NEW k \in Jobs, k # j PROVE Quiet(k)
  <2>1. \A b \in Accounts : Reaches(k, b)' => Reaches(k, b)
    BY <1>4, WritingFacts
  <2>2. GivingUp(k) => GivingUp(k)'
    BY <1>1, <1>4
  <2>3. begun'[k] <= begun[k] /\ capture'[k] = capture[k] /\ (Admitting(k)' => Ahead(k))
    BY <1>1, <1>2, <1>4, CountsAre DEF Ahead, Admitting
  <2> QED BY <1>1, <1>2, <1>3, <2>1, <2>2, <2>3, QuietFrom
<1>5. RowsOK'
  <2> SUFFICES ASSUME NEW k \in Jobs, NEW row, Copy(k, row)' PROVE RowOK(k, row)'
    BY RowsFromCopies
  <2>1. CASE row = NoRow
    BY <2>1, AbsentOK, NoRowMade
  <2>2. CASE k = j /\ row = jobs'[k]
    BY <2>2
  <2>3. CASE k = j /\ w'[p].pc # "idle" /\ row = w'[p].row
    BY <2>3
  <2>4. CASE k # j /\ Copy(k, row)
    BY <1>1, <1>4, <2>4, CopiesOK, CopyIsRow, RowKept DEF Inv, QueueInv
  <2>5. CASE k # j /\ row = jobs'[k]
    <3>1. Copy(k, row)
      BY <1>1, <2>5 DEF Copy
    <3> QED BY <2>4, <2>5, <3>1
  <2> QED BY <2>1, <2>2, <2>3, <2>4, <2>5, WritingFacts
<1>6. ~Ahead(j) /\ ~Ahead(j)'
  <2>1. Ahead(j)' => Ahead(j)
    BY <1>1, <1>2 DEF Ahead, Admitting
  <2> QED BY <1>1, <2>1, AttemptRow
<1>7. Early'
  <2> SUFFICES ASSUME NEW k \in Jobs, Ahead(k)'
               PROVE  /\ begun'[k] = 0 /\ k \notin kept' \cup ended'
                      /\ \A a \in Accounts : ~Reaches(k, a)'
    BY DEF Early
  <2>1. k # j /\ Quiet(k) /\ Ahead(k)
    BY <1>4, <1>6 DEF Quiet, Steady
  <2> QED BY <1>2, <2>1 DEF Inv, QueueInv, Early, Quiet, Steady
<1>8. ReachOK'
  <2> SUFFICES ASSUME NEW k \in Jobs, NEW a \in Accounts, Reaches(k, a)'
               PROVE  /\ a[1] = capture'[k][1] /\ capture'[k][2] \in {None, a[2]}
                      /\ \A b \in Accounts : Reaches(k, b)' => a = b
    BY DEF ReachOK
  <2>1. CASE k # j
    <3>1. capture'[k] = capture[k] /\ Reaches(k, a)
          /\ \A b \in Accounts : Reaches(k, b)' => Reaches(k, b)
      BY <1>4, <2>1 DEF Quiet, Steady
    <3> QED BY <3>1 DEF Inv, QueueInv, ReachOK
  <2>2. CASE k = j
    <3>1. \A b \in Accounts : Reaches(j, b)' => Reaches(j, b) \/ b = w[p].row.owner
      BY WritingFacts
    <3>2. \A b \in Accounts : Reaches(j, b)' => b = w[p].row.owner
      BY <1>1, <3>1, AttemptRow
    <3> QED BY <1>1, <1>2, <2>2, <3>2, AttemptRow
  <2> QED BY <2>1, <2>2
<1>9. LandedOK'
  BY <1>1, <1>2 DEF Inv, QueueInv, LandedOK
<1>10. SeenStates'
  BY <1>1, ProcessesDiffer DEF SeenStates, Processes
<1>11. \A k \in Jobs \ {j} : jobs'[k].state = jobs[k].state
  BY <1>1
<1>12. ASSUME NEW q \in Workers, q # p, w'[q].pc \in PreClaim
       PROVE  w'[q] = w[q] /\ w[q].job \in Jobs \ {j}
  <2>1. w'[q] = w[q] /\ w[q].pc # "idle"
    BY <1>1, <1>12 DEF PreClaim
  <2> QED BY <1>1, <1>12, <2>1, OtherJobs, AttemptFacts
<1>13. w'[p].pc \in PreClaim => w'[p].pc = "claim" /\ w'[p].job = j
  BY <1>1 DEF Writing, PreClaim
<1>14. Unclaimed'
  <2> SUFFICES ASSUME NEW q \in Workers, w'[q].pc \in PreClaim, late'.pc # "idle",
                      late'.job = w'[q].job
               PROVE  jobs'[w'[q].job].state = "pending"
    BY DEF Unclaimed
  <2>1. q # p
    BY <1>1, <1>13
  <2>2. w'[q] = w[q] /\ w[q].job \in Jobs \ {j} /\ w[q].pc \in PreClaim
    BY <1>12, <2>1
  <2>3. late.pc # "idle" /\ late.job = w[q].job
    BY <1>1, <2>2
  <2>4. jobs[w[q].job].state = "pending"
    BY <2>2, <2>3 DEF Inv, QueueInv, Unclaimed
  <2> QED BY <1>11, <2>2, <2>4
<1>15. Spent'
  <2> SUFFICES ASSUME NEW q \in Workers, w'[q].pc = "claim", w'[q].row.attempts >= scope.attempts
               PROVE  /\ jobs'[w'[q].job].state # "pending"
                      /\ late'.pc # "idle" => late'.job # w'[q].job
                      /\ late'.pc = "release" => late'.seen[w'[q].job].state # "pending"
    BY <1>1 DEF Spent
  <2>1. CASE q = p
    BY <1>1, <1>13, <2>1 DEF PreClaim
  <2>2. CASE q # p
    <3>1. w'[q] = w[q] /\ w[q].job \in Jobs \ {j} /\ w[q].pc = "claim"
      BY <1>12, <2>2 DEF PreClaim
    <3> QED BY <1>1, <1>11, <3>1 DEF Inv, QueueInv, Spent
  <2> QED BY <2>1, <2>2
<1>16. AttemptsBounded'
  BY <1>1 DEF Inv, QueueInv, AttemptsBounded
<1> QED BY <1>1, <1>3, <1>5, <1>7, <1>8, <1>9, <1>10, <1>14, <1>15, <1>16 DEF Inv, QueueInv

(* A row that stays while nobody gives its save up. *)
LEMMA RowStays ==
    ASSUME NEW j \in Jobs, Steady(j), NEW row \in Row, RowOK(j, row), begun[j] \in Nat,
           begun'[j] = begun[j], row.attempts <= scope.attempts + exits \/ row.state = "failed"
    PROVE  RowOK(j, row)'
<1> SUFFICES ASSUME row.state # "absent" PROVE RowOK(j, row)'
  BY DEF RowOK
<1>1. ~Ahead(j)' /\ Fits(row, capture'[j]) /\ (\A a \in Accounts : Reaches(j, a)' => row.owner = a)
  BY DEF RowOK, Steady
<1>2. begun'[j] <= row.attempts
  BY DEF RowOK
<1>3. Bounded(j, row)'
  BY RowFields DEF RowOK, Steady, Bounded
<1> QED BY <1>1, <1>2, <1>3 DEF RowOK

LEMMA Within ==
    ASSUME NEW j \in Jobs, NEW row, RowOK(j, row), row.state # "absent",
           row.state = "pending" => ~GivingUp(j)
    PROVE  row.attempts <= scope.attempts + exits \/ row.state = "failed"
  BY DEF RowOK, Bounded

(* What a write of a worker's own save starts from. *)
LEMMA OwnFacts ==
    ASSUME Inv, NEW p \in Workers, Writing(p, w'[p]), NEW j \in Jobs, j = w[p].job,
           w'[p].pc # "upload"
    PROVE  /\ Steady(j) /\ begun[j] \in Nat
           /\ jobs[j] \in Row /\ Latest(p) \in Row /\ Latest(p).state = jobs[j].state
           /\ RowOK(j, jobs[j]) /\ RowOK(j, Latest(p))
           /\ GivingUp(j) => w[p].pc = "giveup"
           /\ exits' = exits /\ exits \in Nat /\ scope' = scope /\ scope.attempts \in Nat
<1>1. /\ FrameInv /\ FrameInv' /\ scope' = scope /\ w[p].pc # "idle" /\ chain = p /\ x' = x
      /\ \A k \in Jobs : w[p].seen[k].state = jobs[k].state
  BY WritingFacts
<1>2. Steady(j)
  <2>1. \A b \in Accounts : Reaches(j, b)' => Reaches(j, b)
    BY WritingFacts
  <2>2. Admitting(j)' => Admitting(j)
    BY <1>1 DEF Admitting
  <2> QED BY <1>1, <2>1, <2>2, SteadyFrom DEF Writing
<1>3. jobs[j] \in Row /\ Latest(p) \in Row /\ Latest(p) = w[p].seen[j]
  BY <1>1, OutsideFacts, LatestFacts
<1>4. RowOK(j, jobs[j]) /\ RowOK(j, Latest(p))
  BY <1>1, <1>3 DEF Inv, QueueInv, RowsOK
<1>5. GivingUp(j) => w[p].pc = "giveup"
  BY <1>1, OtherJobs DEF GivingUp
<1> QED BY <1>1, <1>2, <1>3, <1>4, <1>5, CountsAre DEF Writing

LEMMA DeferKeeps ==
    ASSUME Inv, NEW p \in Workers, Defer(p)
    PROVE  Inv'
<1>a. PICK j : j = w[p].job
  OBVIOUS
<1>b. PICK old : old = w[p].row
  OBVIOUS
<1>c. PICK made : made = Deferred(old)
  OBVIOUS
<1>d. PICK now : now = jobs[j]
  OBVIOUS
<1>1. /\ Writing(p, w'[p]) /\ w[p].pc = "defer" /\ begun' = begun /\ ended' = ended
      /\ StillPending(p) => jobs'[j] = made
      /\ ~StillPending(p) => jobs' = jobs /\ w'[p].pc = "idle"
      /\ w'[p].pc = "idle" \/ (w'[p].pc = "giveup" /\ w'[p].row = old)
      /\ StillPending(p) /\ w'[p].pc = "idle" => ~Exhausted(made)
  BY <1>a, <1>b, <1>c, DeferWrites DEF Inv
<1>2. /\ j \in Jobs /\ old \in Row /\ RowOK(j, old) /\ old.state = "pending"
  BY <1>a, <1>b, <1>1, AttemptRow, AttemptFacts DEF Inv, AttemptOK, PreClaim
<1>3. /\ Steady(j) /\ begun[j] \in Nat /\ now \in Row /\ RowOK(j, now) /\ ~GivingUp(j)
      /\ exits' = exits /\ exits \in Nat /\ scope' = scope /\ scope.attempts \in Nat
      /\ begun[j] <= scope.attempts
  BY <1>a, <1>d, <1>1, <1>2, OwnFacts DEF Inv, QueueInv, AttemptsBounded
<1>4. /\ made \in Row /\ Like(made, old) /\ made.state = "pending"
      /\ made.attempts = old.attempts + 1
  BY <1>c, <1>2, RowDeferred
<1>5. old.attempts <= scope.attempts + exits /\ old.attempts \in Nat
  BY <1>2, <1>3, Within, RowFields
<1>6. w'[p].pc = "giveup" => GivingUp(j)'
  BY <1>a, <1>1, WritingFacts DEF GivingUp
<1>7. ASSUME StillPending(p) PROVE RowOK(j, made)'
  <2>1. Bounded(j, made)'
    <3>1. CASE w'[p].pc = "giveup"
      BY <1>3, <1>4, <1>5, <1>6, <3>1 DEF Bounded
    <3>2. CASE w'[p].pc = "idle"
      BY <1>1, <1>3, <1>4, <1>5, <1>7, <3>2 DEF Bounded, Exhausted
    <3> QED BY <1>1, <3>1, <3>2
  <2>2. begun'[j] <= made.attempts
    BY <1>1, <1>2, <1>3, <1>4, <1>5 DEF RowOK
  <2> QED BY <1>2, <1>3, <1>4, <2>1, <2>2, RowBecomes
<1>8. RowOK(j, old)'
  BY <1>1, <1>2, <1>3, <1>5, RowStays
<1>9. RowOK(j, now)'
  <2>1. CASE now.state = "absent"
    BY <2>1, AbsentOK, <1>2
  <2>2. CASE now.state # "absent"
    BY <1>1, <1>2, <1>3, <2>2, Within, RowStays
  <2> QED BY <2>1, <2>2
<1>10. \A row : row = jobs'[j] \/ (w'[p].pc # "idle" /\ row = w'[p].row) => RowOK(j, row)'
  BY <1>d, <1>1, <1>7, <1>8, <1>9
<1>11. /\ \A k \in Jobs \ {j} : begun'[k] = begun[k]
       /\ begun'[j] <= scope.attempts /\ ended' \subseteq ended \cup {j}
  BY <1>1, <1>2, <1>3
<1> QED BY <1>a, <1>1, <1>2, <1>10, <1>11, WritingKeeps

(* A write that leaves what was begun, and the row the attempt works from. *)
LEMMA OwnKeeps ==
    ASSUME Inv, NEW p \in Workers, Writing(p, w'[p]), NEW j, j = w[p].job, NEW now, now = jobs[j],
           w'[p].pc # "upload", begun' = begun, ended' \subseteq ended \cup {j},
           \/ jobs'[j] = now /\ (w[p].pc = "giveup" => now.state # "pending")
           \/ \E made : jobs'[j] = made /\ RowOK(j, made)',
           w'[p].pc = "idle" \/ (w'[p].row = w[p].row /\ w[p].pc # "giveup"),
           w'[p].pc = "claim" => /\ ~(late.pc # "idle" /\ late.job = j)
                                 /\ jobs'[j].state # "pending"
    PROVE  Inv'
<1>b. PICK old : old = w[p].row
  OBVIOUS
<1>1. w[p].pc # "idle"
  BY WritingFacts
<1>2. /\ j \in Jobs /\ old \in Row /\ RowOK(j, old) /\ old.state \in {"pending", "processing"}
  BY <1>b, <1>1, AttemptRow
<1>3. /\ Steady(j) /\ begun[j] \in Nat /\ now \in Row /\ RowOK(j, now)
      /\ GivingUp(j) => w[p].pc = "giveup"
      /\ exits' = exits /\ exits \in Nat /\ scope' = scope /\ scope.attempts \in Nat
      /\ begun[j] <= scope.attempts
  BY <1>2, OwnFacts DEF Inv, QueueInv, AttemptsBounded
<1>4. w[p].pc # "giveup" => RowOK(j, old)'
  BY <1>2, <1>3, Within, RowStays
<1>5. ASSUME w[p].pc = "giveup" => now.state # "pending" PROVE RowOK(j, now)'
  <2>1. CASE now.state = "absent"
    BY <2>1, AbsentOK, <1>2
  <2>2. CASE now.state # "absent"
    BY <1>2, <1>3, <1>5, <2>2, Within, RowStays
  <2> QED BY <2>1, <2>2
<1>6. \A row : row = jobs'[j] \/ (w'[p].pc # "idle" /\ row = w'[p].row) => RowOK(j, row)'
  BY <1>b, <1>4, <1>5
<1>7. /\ \A k \in Jobs \ {j} : begun'[k] = begun[k]
      /\ begun'[j] <= scope.attempts
  BY <1>2, <1>3
<1> QED BY <1>2, <1>6, <1>7, WritingKeeps

(* A row made from a copy that is in the queue, and within its attempts. *)
LEMMA OwnMade ==
    ASSUME Inv, NEW p \in Workers, Writing(p, w'[p]), NEW j, j = w[p].job, begun' = begun,
           w'[p].pc # "upload", NEW row \in Row, RowOK(j, row),
           row.state \in {"pending", "processing"}, NEW made \in Row, Like(made, row),
           made.attempts = row.attempts, made.state # "awaiting-auth",
           w[p].pc = "giveup" => made.state = "failed"
    PROVE  RowOK(j, made)'
<1>1. j \in Jobs
  BY WritingFacts
<1>2. /\ Steady(j) /\ begun[j] \in Nat
      /\ GivingUp(j) => w[p].pc = "giveup"
      /\ exits' = exits /\ exits \in Nat /\ scope' = scope /\ scope.attempts \in Nat
  BY <1>1, OwnFacts
<1>3. /\ row.attempts \in Nat /\ begun[j] <= row.attempts
      /\ row.attempts <= scope.attempts + exits + 1
      /\ w[p].pc # "giveup" => row.attempts <= scope.attempts + exits
  BY <1>1, <1>2, RowFields DEF RowOK, Bounded
<1>4. Bounded(j, made)'
  BY <1>2, <1>3 DEF Bounded
<1> QED BY <1>1, <1>2, <1>3, <1>4, RowBecomes

LEMMA PauseKeeps ==
    ASSUME Inv, NEW p \in Workers, Pause(p)
    PROVE  Inv'
<1>a. PICK j : j = w[p].job
  OBVIOUS
<1>b. PICK now : now = jobs[j]
  OBVIOUS
<1>c. PICK row : row = Latest(p)
  OBVIOUS
<1>d. PICK made : made = Ended(row, "paused")
  OBVIOUS
<1>1. /\ Writing(p, w'[p]) /\ w[p].pc = "pause" /\ begun' = begun /\ ended' = ended
      /\ StillPending(p) => jobs'[j] = made
      /\ ~StillPending(p) => jobs' = jobs
      /\ w'[p].pc = "idle"
  BY <1>a, <1>c, <1>d, PauseWrites DEF Inv
<1>2. j \in Jobs
  BY <1>a, <1>1, WritingFacts
<1>3. row \in Row /\ RowOK(j, row)
  BY <1>a, <1>c, <1>1, <1>2, OwnFacts
<1>4. /\ made \in Row /\ Like(made, row) /\ made.state = "paused" /\ made.attempts = row.attempts
  BY <1>d, <1>3, RowEnded DEF States
<1>5. StillPending(p) => RowOK(j, made)'
  BY <1>a, <1>c, <1>1, <1>3, <1>4, OwnMade DEF StillPending
<1> QED BY <1>a, <1>b, <1>1, <1>5, OwnKeeps

LEMMA GiveUpKeeps ==
    ASSUME Inv, NEW p \in Workers, GiveUp(p)
    PROVE  Inv'
<1>a. PICK j : j = w[p].job
  OBVIOUS
<1>b. PICK now : now = jobs[j]
  OBVIOUS
<1>c. PICK row : row = Latest(p)
  OBVIOUS
<1>d. PICK made : made = Ended(row, "failed")
  OBVIOUS
<1>1. /\ Writing(p, w'[p]) /\ w[p].pc = "giveup" /\ begun' = begun /\ ended' = ended
      /\ StillPending(p) => jobs'[j] = made
      /\ ~StillPending(p) => jobs' = jobs
      /\ w'[p].pc = "idle"
  BY <1>a, <1>c, <1>d, GiveUpWrites DEF Inv
<1>2. j \in Jobs
  BY <1>a, <1>1, WritingFacts
<1>3. row \in Row /\ RowOK(j, row) /\ row.state = now.state
  BY <1>a, <1>b, <1>c, <1>1, <1>2, OwnFacts
<1>4. /\ made \in Row /\ Like(made, row) /\ made.state = "failed" /\ made.attempts = row.attempts
  BY <1>d, <1>3, RowEnded DEF States
<1>5. StillPending(p) => RowOK(j, made)'
  BY <1>a, <1>c, <1>1, <1>3, <1>4, OwnMade DEF StillPending
<1>6. ~StillPending(p) => now.state # "pending"
  BY <1>c, <1>3 DEF StillPending
<1> QED BY <1>a, <1>b, <1>1, <1>5, <1>6, OwnKeeps

LEMMA ExpireKeeps ==
    ASSUME Inv, NEW p \in Workers, Expire(p)
    PROVE  Inv'
<1>a. PICK j : j = w[p].job
  OBVIOUS
<1>b. PICK now : now = jobs[j]
  OBVIOUS
<1>c. PICK row : row = Latest(p)
  OBVIOUS
<1>d. PICK made : made = Ended(row, "failed")
  OBVIOUS
<1>1. /\ Writing(p, w'[p]) /\ w[p].pc = "expire" /\ begun' = begun /\ ended' = ended
      /\ StillPending(p) => jobs'[j] = made /\ w'[p].pc = "idle"
      /\ ~StillPending(p) => jobs' = jobs /\ w'[p].pc = "claim" /\ w'[p].row = w[p].row
  BY <1>a, <1>c, <1>d, ExpireWrites DEF Inv
<1>2. j \in Jobs
  BY <1>a, <1>1, WritingFacts
<1>3. row \in Row /\ RowOK(j, row) /\ row.state = now.state
  BY <1>a, <1>b, <1>c, <1>1, <1>2, OwnFacts
<1>4. /\ made \in Row /\ Like(made, row) /\ made.state = "failed" /\ made.attempts = row.attempts
  BY <1>d, <1>3, RowEnded DEF States
<1>5. StillPending(p) => RowOK(j, made)'
  BY <1>a, <1>c, <1>1, <1>3, <1>4, OwnMade DEF StillPending
<1>6. ~StillPending(p) => now.state # "pending"
  BY <1>c, <1>3 DEF StillPending
<1>7. ~StillPending(p) => ~(late.pc # "idle" /\ late.job = j)
  BY <1>a, <1>b, <1>1, <1>6 DEF Inv, QueueInv, Unclaimed, PreClaim
<1>8. StillPending(p) => w'[p].pc # "claim" /\ w'[p].pc # "upload"
  BY <1>1
<1> QED BY <1>a, <1>b, <1>1, <1>5, <1>6, <1>7, <1>8, OwnKeeps

LEMMA SettleKeeps ==
    ASSUME Inv, NEW p \in Workers, Settle(p)
    PROVE  Inv'
<1>a. PICK j : j = w[p].job
  OBVIOUS
<1>b. PICK now : now = jobs[j]
  OBVIOUS
<1>c. PICK row : row = Latest(p)
  OBVIOUS
<1>d. PICK made : made = [row EXCEPT !.settling = TRUE]
  OBVIOUS
<1>1. /\ Writing(p, w'[p]) /\ w[p].pc = "settle" /\ begun' = begun /\ ended' = ended
      /\ StillHeld(p) => jobs'[j] = made
      /\ ~StillHeld(p) => jobs' = jobs
      /\ w'[p].pc = "idle"
  BY <1>a, <1>c, <1>d, SettleWrites DEF Inv
<1>2. j \in Jobs
  BY <1>a, <1>1, WritingFacts
<1>3. row \in Row /\ RowOK(j, row)
  BY <1>a, <1>c, <1>1, <1>2, OwnFacts
<1>4. /\ made \in Row /\ Like(made, row) /\ made.state = row.state /\ made.attempts = row.attempts
  BY <1>d, <1>3, RowSettling DEF Alike
<1>5. StillHeld(p) => RowOK(j, made)'
  BY <1>a, <1>c, <1>1, <1>3, <1>4, OwnMade DEF StillHeld, Holds
<1> QED BY <1>a, <1>b, <1>1, <1>5, OwnKeeps

LEMMA RemoveKeeps ==
    ASSUME Inv, NEW p \in Workers, Remove(p)
    PROVE  Inv'
<1>a. PICK j : j = w[p].job
  OBVIOUS
<1>b. PICK now : now = jobs[j]
  OBVIOUS
<1>1. /\ Writing(p, w'[p]) /\ w[p].pc = "remove" /\ begun' = begun /\ ended' \subseteq ended \cup {j}
      /\ StillHeld(p) => jobs'[j] = NoRow
      /\ ~StillHeld(p) => jobs' = jobs
      /\ w'[p].pc = "idle"
  BY <1>a, RemoveWrites DEF Inv
<1>2. j \in Jobs
  BY <1>a, <1>1, WritingFacts
<1>3. RowOK(j, NoRow)'
  BY <1>2, AbsentOK, NoRowMade
<1> QED BY <1>a, <1>b, <1>1, <1>3, OwnKeeps

LEMMA FailKeeps ==
    ASSUME Inv, NEW p \in Workers, Fail(p)
    PROVE  Inv'
<1>a. PICK j : j = w[p].job
  OBVIOUS
<1>b. PICK now : now = jobs[j]
  OBVIOUS
<1>c. PICK row : row = w[p].row
  OBVIOUS
<1>d. PICK made : made = Backoff(row)
  OBVIOUS
<1>1. /\ Writing(p, w'[p]) /\ w[p].pc = "fail" /\ begun' = begun /\ ended' = ended
      /\ StillHeld(p) => jobs'[j] = made
      /\ ~StillHeld(p) => jobs' = jobs
      /\ w'[p].pc = "idle" \/ (w'[p].pc = "giveup" /\ w'[p].row = w[p].row)
  BY <1>a, <1>c, <1>d, FailWrites DEF Inv
<1>2. j \in Jobs /\ row \in Row /\ RowOK(j, row) /\ row.state = "processing"
  BY <1>a, <1>c, <1>1, AttemptRow, AttemptFacts DEF Inv, AttemptOK
<1>3. /\ made \in Row /\ Like(made, row) /\ made.state = "pending" /\ made.attempts = row.attempts
  BY <1>d, <1>2, RowBackedOff
<1>4. RowOK(j, made)'
  BY <1>a, <1>1, <1>2, <1>3, OwnMade
<1> QED BY <1>a, <1>b, <1>1, <1>4, OwnKeeps

LEMMA ClaimKeeps ==
    ASSUME Inv, NEW p \in Workers, Claim(p)
    PROVE  Inv'
<1>a. PICK j : j = w[p].job
  OBVIOUS
<1>b. PICK now : now = jobs[j]
  OBVIOUS
<1>c. PICK old : old = w[p].row
  OBVIOUS
<1>1. /\ Writing(p, w'[p]) /\ w[p].pc = "claim" /\ ended' = ended
      /\ StillPending(p) =>
           /\ begun' = [begun EXCEPT ![j] = @ + 1]
           /\ \E token \in Tokens : /\ jobs'[j] = Claimed(old, token)
                                    /\ w'[p].row = Claimed(old, token)
           /\ w'[p].pc = "upload"
      /\ ~StillPending(p) => jobs' = jobs /\ begun' = begun /\ w'[p].pc = "idle"
  BY <1>a, <1>c, ClaimWrites DEF Inv
<1>2. /\ j \in Jobs /\ old \in Row /\ RowOK(j, old) /\ old.state = "pending"
      /\ ~Ahead(j) /\ old.owner \in Accounts /\ \A a \in Accounts : Reaches(j, a) => old.owner = a
  BY <1>a, <1>c, <1>1, AttemptRow, AttemptFacts DEF Inv, AttemptOK, PreClaim
<1>3. CASE ~StillPending(p)
  BY <1>a, <1>b, <1>1, <1>3, OwnKeeps
<1>4. CASE StillPending(p)
  <2>1. PICK made : jobs'[j] = made /\ w'[p].row = made /\ \E token \in Tokens : made = Claimed(old, token)
    BY <1>1, <1>4
  <2>2. /\ made \in Row /\ Like(made, old) /\ made.state = "processing"
        /\ made.attempts = old.attempts + 1
    BY <1>2, <2>1, RowClaimed
  <2>3. /\ FrameInv /\ FrameInv' /\ scope' = scope /\ scope.attempts \in Nat /\ x' = x
        /\ now.state = "pending" /\ exits' = exits /\ exits \in Nat /\ begun[j] \in Nat
        /\ capture' = capture /\ requests' = requests
    BY <1>a, <1>b, <1>1, <1>2, <1>4, WritingFacts, CountsAre DEF StillPending, Latest, Writing
  <2>4. old.attempts < scope.attempts
    <3>1. ~(old.attempts >= scope.attempts)
      BY <1>a, <1>b, <1>c, <1>1, <2>3 DEF Inv, QueueInv, Spent
    <3> QED BY <1>2, <2>3, <3>1, RowFields
  <2>5. /\ begun'[j] = begun[j] + 1 /\ \A k \in Jobs \ {j} : begun'[k] = begun[k]
    BY <1>1, <1>2, <1>4, <2>3 DEF FrameInv, HistoryTypes
  <2>6. begun[j] <= old.attempts /\ old.attempts \in Nat
    BY <1>2, RowFields DEF RowOK
  <2>7. begun'[j] <= made.attempts /\ begun'[j] <= scope.attempts
    BY <2>2, <2>3, <2>4, <2>5, <2>6
  <2>8. Bounded(j, made)'
    BY <2>2, <2>3, <2>4, <2>6 DEF Bounded
  <2>9. ~Ahead(j)'
    BY <1>2, <2>3 DEF Ahead, Admitting
  <2>10. \A a \in Accounts : Reaches(j, a)' => made.owner = a
    <3>1. \A b \in Accounts : Reaches(j, b)' => Reaches(j, b) \/ b = made.owner
      BY <1>1, <1>2, <2>1, WritingFacts
    <3> QED BY <1>2, <2>2, <3>1 DEF Like
  <2>11. Fits(made, capture'[j])
    BY <1>2, <2>2, <2>3 DEF RowOK, Fits, Like
  <2>12. RowOK(j, made)'
    BY <2>7, <2>8, <2>9, <2>10, <2>11 DEF RowOK
  <2>13. \A row : row = jobs'[j] \/ (w'[p].pc # "idle" /\ row = w'[p].row) => RowOK(j, row)'
    BY <2>1, <2>12
  <2>14. w'[p].row.owner = w[p].row.owner /\ w'[p].pc # "claim"
    BY <1>c, <1>1, <1>4, <2>1, <2>2 DEF Like
  <2>15. ended' \subseteq ended \cup {j}
    BY <1>1
  <2> QED BY <1>a, <1>1, <1>2, <2>5, <2>7, <2>13, <2>14, <2>15, WritingKeeps
<1> QED BY <1>3, <1>4

(* The attempt that timed out. *)
LEMMA LateFacts ==
    ASSUME Inv, LateMoves, UNCHANGED <<requests, x, w, capture, kept, ended, begun, exits>>,
           \A j \in Jobs, a \in Accounts : Reaches(j, a)' => Reaches(j, a)
    PROVE  /\ FrameInv /\ FrameInv' /\ scope' = scope /\ AsksOK'
           /\ \A j \in Jobs : Quiet(j)
           /\ Early' /\ ReachOK' /\ AttemptsBounded'
<1>1. FrameInv /\ FrameInv' /\ scope' = scope
  BY LateFrame DEF Inv, LateMoves
<1>2. AsksOK' /\ \A j \in Jobs : AskedIn(requests, j)' => Ahead(j)
  <2>1. Calmer(requests', requests) /\ \A j \in Jobs : Admitting(j)' => Admitting(j)
    BY <1>1, OutsideFacts DEF Admitting
  <2> QED BY <2>1, CalmAsks DEF Inv, QueueInv
<1>3. ASSUME NEW j \in Jobs PROVE Quiet(j)
  <2>1. begun'[j] <= begun[j] /\ capture'[j] = capture[j] /\ (Admitting(j)' => Ahead(j))
    BY <1>1, CountsAre DEF Ahead, Admitting
  <2>2. GivingUp(j) => GivingUp(j)'
    BY DEF GivingUp
  <2> QED BY <1>1, <1>2, <2>1, <2>2, QuietFrom
<1>4. Early' /\ ReachOK' /\ AttemptsBounded'
  BY <1>1, <1>3, QuietHistory
<1> QED BY <1>1, <1>2, <1>3, <1>4

LEMMA LateAnswerKeeps == Inv /\ LateAnswer => Inv'
<1> SUFFICES ASSUME Inv, LateAnswer PROVE Inv'
  OBVIOUS
<1>1. /\ LateMoves /\ late.pc # "idle" /\ late' = [late EXCEPT !.upload = "over"]
      /\ landed' = landed \/ (late.upload = "sent"
                              /\ landed' = landed \cup {<<late.job, late.account>>})
      /\ UNCHANGED <<jobs, requests, x, w, chain, sched, capture, kept, ended, begun, exits>>
  BY LateAnswerMoves DEF Inv
<1>2. late \in LateAttempt /\ late.job \in Jobs
  BY <1>1 DEF Inv, FrameInv, RunningTypes, Control, LateOK
<1>3. /\ late'.pc = late.pc /\ late'.job = late.job /\ late'.seen = late.seen
      /\ late'.upload = "over"
  BY <1>1, <1>2 DEF LateAttempt
<1>4. \A j \in Jobs, a \in Accounts : Reaches(j, a)' => Reaches(j, a)
  BY <1>1, <1>3 DEF Reaches
<1>5. /\ FrameInv /\ FrameInv' /\ scope' = scope /\ AsksOK'
      /\ \A j \in Jobs : Quiet(j)
      /\ Early' /\ ReachOK' /\ AttemptsBounded'
  BY <1>1, <1>4, LateFacts
<1>6. RowsOK'
  <2>1. \A j \in Jobs : \A row : Copy(j, row)' => Copy(j, row)
    BY <1>1, <1>3 DEF Copy
  <2>2. \A j \in Jobs : \A row : Copy(j, row)' =>
          \E old : Copy(j, old) /\ row \in Row /\ Alike(row, old)
    BY <1>5, <2>1, CopyIsRow, AlikeSelf
  <2> QED BY <1>5, <2>2, QuietRows
<1>7. LandedOK'
  BY <1>1, <1>2, <1>3 DEF Inv, QueueInv, LandedOK
<1>8. SeenStates' /\ Unclaimed' /\ Spent'
  BY <1>1, <1>3, <1>5 DEF Inv, QueueInv, SeenStates, Unclaimed, Spent
<1> QED BY <1>5, <1>6, <1>7, <1>8 DEF Inv, QueueInv

LEMMA LateEnterKeeps == Inv /\ LateEnter => Inv'
<1> SUFFICES ASSUME Inv, LateEnter PROVE Inv'
  OBVIOUS
<1>1. /\ LateMoves /\ late' = [late EXCEPT !.pc = "release", !.seen = jobs]
      /\ late.pc = "upload" /\ late.upload = "over" /\ chain = None /\ chain' = Late
      /\ UNCHANGED <<jobs, requests, x, w, sched, capture, kept, ended, begun, exits, landed>>
  BY LateEnterMoves DEF Inv
<1>2. late \in LateAttempt
  BY <1>1 DEF Inv, FrameInv, RunningTypes
<1>3. /\ late'.pc = "release" /\ late'.job = late.job /\ late'.seen = jobs
      /\ late'.upload = "over"
  BY <1>1, <1>2 DEF LateAttempt
<1>4. \A j \in Jobs, a \in Accounts : Reaches(j, a)' => Reaches(j, a)
  BY <1>1, <1>3 DEF Reaches
<1>5. /\ FrameInv /\ FrameInv' /\ scope' = scope /\ AsksOK'
      /\ \A j \in Jobs : Quiet(j)
      /\ Early' /\ ReachOK' /\ AttemptsBounded'
  BY <1>1, <1>4, LateFacts
<1>6. \A p \in Workers : p # Late /\ p # None
  BY ProcessesDiffer DEF Workers, Processes
<1>7. RowsOK'
  <2>1. \A j \in Jobs : \A row : Copy(j, row)' => Copy(j, row)
    BY <1>1, <1>3, <1>6 DEF Copy
  <2>2. \A j \in Jobs : \A row : Copy(j, row)' =>
          \E old : Copy(j, old) /\ row \in Row /\ Alike(row, old)
    BY <1>5, <2>1, CopyIsRow, AlikeSelf
  <2> QED BY <1>5, <2>2, QuietRows
<1>8. LandedOK' /\ SeenStates'
  BY <1>1, <1>3, <1>6 DEF Inv, QueueInv, LandedOK, SeenStates
<1>9. Unclaimed' /\ Spent'
  BY <1>1, <1>3, <1>5 DEF Inv, QueueInv, Unclaimed, Spent
<1> QED BY <1>5, <1>7, <1>8, <1>9 DEF Inv, QueueInv

LEMMA LateReleaseKeeps == Inv /\ LateRelease => Inv'
<1> SUFFICES ASSUME Inv, LateRelease PROVE Inv'
  OBVIOUS
<1>a. PICK j : j = late.job
  OBVIOUS
<1>b. PICK row : row = late.seen[j]
  OBVIOUS
<1>c. PICK made : made = Backoff(row)
  OBVIOUS
<1>1. /\ LateMoves /\ late' = NoLate /\ late.pc = "release" /\ chain = Late /\ j \in Jobs
      /\ \/ jobs' = jobs
         \/ jobs' = [late.seen EXCEPT ![j] = made] /\ row.state = "processing"
      /\ chain' = Late \/ chain' = None
      /\ UNCHANGED <<requests, x, w, capture, kept, ended, begun, exits, landed>>
  BY <1>a, <1>b, <1>c, LateReleaseMoves DEF Inv
<1>2. late.seen \in Queue /\ late'.pc = "idle" /\ late'.upload = "none"
  BY <1>1, IdleFacts DEF Inv, FrameInv, RunningTypes, LateAttempt
<1>3. \A k \in Jobs, a \in Accounts : Reaches(k, a)' => Reaches(k, a)
  BY <1>1, <1>2 DEF Reaches
<1>4. /\ FrameInv /\ FrameInv' /\ scope' = scope /\ AsksOK'
      /\ \A k \in Jobs : Quiet(k)
      /\ Early' /\ ReachOK' /\ AttemptsBounded'
  BY <1>1, <1>3, LateFacts
<1>5. \A p \in Workers : p # Late /\ p # None
  BY ProcessesDiffer DEF Workers, Processes
<1>6. /\ jobs' # jobs => jobs'[j] = made /\ row.state = "processing"
      /\ \A k \in Jobs : jobs'[k] = jobs[k] \/ jobs'[k] = late.seen[k] \/ k = j
  BY <1>1, <1>2 DEF Queue
<1>7. row \in Row /\ RowOK(j, row)
  BY <1>b, <1>1, <1>2 DEF Inv, QueueInv, RowsOK, Queue
<1>8. /\ made \in Row /\ Like(made, row) /\ made.state = "pending" /\ made.attempts = row.attempts
  BY <1>c, <1>7, RowBackedOff
<1>9. row.state = "processing" => RowOK(j, made)
  BY <1>7, <1>8 DEF RowOK, Like, Fits, Bounded
<1>10. ASSUME NEW k \in Jobs, NEW r, Copy(k, r)', ~Copy(k, r)
       PROVE  k = j /\ r = made /\ row.state = "processing"
  <2>1. r = jobs'[k]
    BY <1>1, <1>2, <1>5, <1>10 DEF Copy
  <2> QED BY <1>1, <1>6, <1>10, <2>1 DEF Copy
<1>11. RowsOK'
  <2> SUFFICES ASSUME NEW k \in Jobs, NEW r, Copy(k, r)' PROVE RowOK(k, r)'
    BY RowsFromCopies
  <2>1. r \in Row /\ RowOK(k, r)
    BY <1>4, <1>8, <1>9, <1>10, CopiesOK, CopyIsRow DEF Inv, QueueInv
  <2> QED BY <1>4, <2>1, RowKept
<1>12. LandedOK' /\ SeenStates' /\ Unclaimed'
  BY <1>1, <1>2, <1>5 DEF Inv, QueueInv, LandedOK, SeenStates, Unclaimed
<1>13. Spent'
  <2> SUFFICES ASSUME NEW q \in Workers, w[q].pc = "claim", w[q].row.attempts >= scope.attempts
               PROVE  jobs'[w[q].job].state # "pending"
    BY <1>1, <1>2, <1>4 DEF Spent
  <2>1. /\ jobs[w[q].job].state # "pending" /\ late.job # w[q].job
        /\ late.seen[w[q].job].state # "pending" /\ w[q].job \in Jobs
    BY <1>1, <1>4, AttemptFacts DEF Inv, QueueInv, Spent
  <2> QED BY <1>a, <1>6, <2>1
<1> QED BY <1>4, <1>11, <1>12, <1>13 DEF Inv, QueueInv

(* An operation on the exclusive chain: no worker is active. *)
LEMMA OperatingFacts ==
    ASSUME Inv, Operating, UNCHANGED <<capture, landed, exits>>
    PROVE  /\ FrameInv /\ FrameInv' /\ scope' = scope
           /\ SeenStates' /\ Unclaimed' /\ Spent' /\ LandedOK'
           /\ \A j \in Jobs : ~GivingUp(j) /\ \A a \in Accounts : Reaches(j, a)' => Reaches(j, a)
           /\ \A j \in Jobs : \A row : Copy(j, row)' =>
                \/ row = jobs'[j]
                \/ x'.pc \in {"account", "write"} /\ row = x'.seen[j]
                \/ Copy(j, row)
<1>1. FrameInv /\ FrameInv'
  BY OperatingFrame DEF Inv
<1>2. /\ UNCHANGED <<w, late, chain, scope>> /\ \A p \in Workers : w[p].pc = "idle" /\ chain # p
  BY DEF Operating
<1>3. SeenStates' /\ Unclaimed' /\ Spent' /\ LandedOK'
  BY <1>2 DEF SeenStates, Unclaimed, Spent, PreClaim, Inv, QueueInv, LandedOK
<1>4. \A j \in Jobs : ~GivingUp(j) /\ \A a \in Accounts : Reaches(j, a)' => Reaches(j, a)
  BY <1>2 DEF GivingUp, Reaches
<1>5. \A j \in Jobs : \A row : Copy(j, row)' =>
                \/ row = jobs'[j]
                \/ x'.pc \in {"account", "write"} /\ row = x'.seen[j]
                \/ Copy(j, row)
  BY <1>2 DEF Copy
<1> QED BY <1>1, <1>2, <1>3, <1>4, <1>5

(* One that leaves the queue. *)
LEMMA ReadingKeeps ==
    ASSUME Inv, Operating, UNCHANGED <<jobs, capture, kept, ended, begun, landed, exits>>,
           Calmer(requests', requests), AsksOK', \A j \in Jobs : Admitting(j)' => Ahead(j),
           x'.pc \in {"account", "write"} =>
             x'.seen = jobs \/ (x.pc \in {"account", "write"} /\ x'.seen = x.seen)
    PROVE  Inv'
<1>1. /\ FrameInv /\ FrameInv' /\ scope' = scope
      /\ SeenStates' /\ Unclaimed' /\ Spent' /\ LandedOK'
      /\ \A j \in Jobs : ~GivingUp(j) /\ \A a \in Accounts : Reaches(j, a)' => Reaches(j, a)
  BY OperatingFacts
<1>2. ASSUME NEW j \in Jobs PROVE Quiet(j)
  <2>1. begun'[j] <= begun[j] /\ capture'[j] = capture[j]
    BY <1>1, CountsAre
  <2>2. AskedIn(requests, j)' => Ahead(j)
    BY DEF Calmer, Ahead
  <2> QED BY <1>1, <2>1, <2>2, QuietFrom
<1>3. \A j \in Jobs : \A row : Copy(j, row)' => Copy(j, row)
  <2>1. ASSUME NEW j \in Jobs, NEW row,
               \/ row = jobs'[j]
               \/ x'.pc \in {"account", "write"} /\ row = x'.seen[j]
        PROVE  Copy(j, row)
    BY <2>1 DEF Copy
  <2> QED BY <2>1, OperatingFacts
<1>4. RowsOK'
  <2>1. \A j \in Jobs : \A row : Copy(j, row)' =>
          \E old : Copy(j, old) /\ row \in Row /\ Alike(row, old)
    BY <1>1, <1>3, CopyIsRow, AlikeSelf
  <2> QED BY <1>2, <2>1, QuietRows
<1>5. Early' /\ ReachOK' /\ AttemptsBounded'
  BY <1>1, <1>2, QuietHistory
<1> QED BY <1>1, <1>4, <1>5 DEF Inv, QueueInv

LEMMA TakeKeeps == Inv /\ Take => Inv'
<1> SUFFICES ASSUME Inv, Take PROVE Inv'
  OBVIOUS
<1>1. /\ Operating /\ x.pc = "idle" /\ requests # <<>> /\ requests' = Tail(requests)
      /\ x'.seen = jobs /\ x'.request = Head(requests)
      /\ UNCHANGED <<jobs, capture, kept, ended, begun, landed, exits>>
  BY TakeOperates DEF Inv
<1>2. /\ Calmer(requests', requests)
      /\ \A j \in Jobs : Enqueues(Head(requests), j) =>
           AskedIn(requests, j) /\ (OnceIn(requests, j) => ~AskedIn(requests', j))
  BY <1>1, OutsideFacts, TailGood DEF Inv
<1>3. ASSUME NEW j \in Jobs, Admitting(j)'
      PROVE  AskedIn(requests, j) /\ (OnceIn(requests, j) => ~AskedIn(requests', j))
  <2>1. Enqueues(Head(requests), j)
    BY <1>1, <1>3 DEF Admitting
  <2> QED BY <1>2, <2>1
<1>4. AsksOK'
  <2> SUFFICES ASSUME NEW j \in Jobs
               PROVE  /\ AskedIn(requests', j) \/ Admitting(j)' => capture'[j] # None
                      /\ Admitting(j)' => ~AskedIn(requests', j)
                      /\ OnceIn(requests', j)
    BY DEF AsksOK
  <2>1. /\ AskedIn(requests, j) => capture[j] # None
        /\ OnceIn(requests, j)
    BY DEF Inv, QueueInv, AsksOK
  <2> QED BY <1>1, <1>2, <1>3, <2>1 DEF Calmer
<1>5. \A j \in Jobs : Admitting(j)' => Ahead(j)
  BY <1>3 DEF Ahead
<1> QED BY <1>1, <1>2, <1>4, <1>5, ReadingKeeps

LEMMA ReadAccountKeeps == Inv /\ ReadAccount => Inv'
<1> SUFFICES ASSUME Inv, ReadAccount PROVE Inv'
  OBVIOUS
<1>1. /\ Operating /\ x.pc = "account" /\ x'.pc = "write" /\ x'.seen = x.seen
      /\ x'.request = x.request /\ Calmer(requests', requests)
      /\ UNCHANGED <<jobs, capture, kept, ended, begun, landed, exits>>
  BY ReadAccountOperates DEF Inv
<1>2. \A j \in Jobs : Admitting(j)' => Admitting(j)
  BY <1>1 DEF Admitting
<1>3. AsksOK' /\ \A j \in Jobs : Admitting(j)' => Ahead(j)
  BY <1>1, <1>2, CalmAsks DEF Inv, QueueInv, Ahead
<1> QED BY <1>1, <1>3, ReadingKeeps

LEMMA EndWorkKeeps == Inv /\ EndWork => Inv'
<1> SUFFICES ASSUME Inv, EndWork PROVE Inv'
  OBVIOUS
<1>1. /\ Operating /\ x'.pc = "done"
      /\ UNCHANGED <<jobs, capture, kept, ended, begun, landed, exits, requests>>
  BY EndWorkOperates DEF Inv
<1>2. Calmer(requests', requests) /\ \A j \in Jobs : ~Admitting(j)'
  BY <1>1, OutsideFacts DEF Admitting, Inv
<1>3. AsksOK'
  BY <1>1, <1>2, CalmAsks DEF Inv, QueueInv
<1> QED BY <1>1, <1>2, <1>3, ReadingKeeps

LEMMA FinishKeeps == Inv /\ Finish => Inv'
<1> SUFFICES ASSUME Inv, Finish PROVE Inv'
  OBVIOUS
<1>1. /\ Operating /\ x'.pc = "idle" /\ Calmer(requests', requests)
      /\ UNCHANGED <<jobs, capture, kept, ended, begun, landed, exits>>
  BY FinishOperates DEF Inv
<1>2. \A j \in Jobs : ~Admitting(j)'
  BY <1>1 DEF Admitting
<1>3. AsksOK'
  BY <1>1, <1>2, CalmAsks DEF Inv, QueueInv
<1> QED BY <1>1, <1>2, <1>3, ReadingKeeps

(* One that writes it: the captures stay quiet, but for those of the         *)
(* attempts that a retry forgets. *)
LEMMA WriteQuiet ==
    ASSUME Inv, Operating, x.pc = "write", x'.pc \in {"done", "work"},
           UNCHANGED <<capture, landed, exits, requests>>, \A j \in Jobs : begun'[j] <= begun[j]
    PROVE  /\ AsksOK' /\ \A j \in Jobs : Quiet(j) /\ ~Admitting(j)' /\ RowOK(j, x.seen[j]) /\ x.seen[j] \in Row
           /\ exits' = exits /\ exits \in Nat /\ scope' = scope /\ scope.attempts \in Nat
           /\ \A j \in Jobs : ~GivingUp(j)
<1>1. /\ FrameInv /\ FrameInv' /\ scope' = scope
      /\ \A j \in Jobs : ~GivingUp(j) /\ \A a \in Accounts : Reaches(j, a)' => Reaches(j, a)
  BY OperatingFacts
<1>2. Calmer(requests', requests) /\ \A j \in Jobs : ~Admitting(j)'
  BY <1>1, OutsideFacts DEF Admitting
<1>3. AsksOK' /\ \A j \in Jobs : AskedIn(requests, j)' => Ahead(j)
  BY <1>2, CalmAsks DEF Inv, QueueInv
<1>4. \A j \in Jobs : Quiet(j)
  BY <1>1, <1>2, <1>3, QuietFrom
<1>5. \A j \in Jobs : RowOK(j, x.seen[j]) /\ x.seen[j] \in Row
  BY <1>1, OperationFacts DEF Inv, QueueInv, RowsOK, Queue
<1> QED BY <1>1, <1>2, <1>3, <1>4, <1>5, CountsAre

LEMMA WriteKeeps ==
    ASSUME Inv, Operating, x.pc = "write", x'.pc \in {"done", "work"},
           UNCHANGED <<capture, landed, exits, requests>>, \A j \in Jobs : begun'[j] <= begun[j],
           \A j \in Jobs : \A row : row = jobs'[j] => RowOK(j, row)',
           \A j \in Jobs : Ahead(j)' => /\ j \in kept' \cup ended' => j \in kept \cup ended
                                        /\ begun'[j] = begun[j]
    PROVE  Inv'
<1>1. /\ FrameInv /\ FrameInv' /\ scope' = scope
      /\ SeenStates' /\ Unclaimed' /\ Spent' /\ LandedOK'
  BY OperatingFacts
<1>2. AsksOK' /\ (\A j \in Jobs : Quiet(j)) /\ scope.attempts \in Nat
  BY WriteQuiet
<1>3. RowsOK'
  <2> SUFFICES ASSUME NEW j \in Jobs, NEW row, Copy(j, row)' PROVE RowOK(j, row)'
    BY RowsFromCopies
  <2>1. CASE row = jobs'[j]
    BY <2>1
  <2>2. CASE Copy(j, row)
    BY <1>1, <1>2, <2>2, CopiesOK, CopyIsRow, RowKept DEF Inv, QueueInv
  <2> QED BY <2>1, <2>2, OperatingFacts
<1>4. Early'
  <2> SUFFICES ASSUME NEW j \in Jobs, Ahead(j)'
               PROVE  /\ begun'[j] = 0 /\ j \notin kept' \cup ended'
                      /\ \A a \in Accounts : ~Reaches(j, a)'
    BY DEF Early
  <2>1. Ahead(j)
    BY <1>2 DEF Quiet, Steady
  <2> QED BY <1>2, <2>1 DEF Inv, QueueInv, Early, Quiet, Steady
<1>5. ReachOK'
  <2> SUFFICES ASSUME NEW j \in Jobs, NEW a \in Accounts, Reaches(j, a)'
               PROVE  /\ a[1] = capture'[j][1] /\ capture'[j][2] \in {None, a[2]}
                      /\ \A b \in Accounts : Reaches(j, b)' => a = b
    BY DEF ReachOK
  <2>1. capture'[j] = capture[j] /\ Reaches(j, a)
        /\ \A b \in Accounts : Reaches(j, b)' => Reaches(j, b)
    BY <1>2 DEF Quiet, Steady
  <2> QED BY <2>1 DEF Inv, QueueInv, ReachOK
<1>6. AttemptsBounded'
  <2>1. \A j \in Jobs : begun'[j] <= begun[j] /\ begun[j] <= scope.attempts /\ begun'[j] \in Nat /\ begun[j] \in Nat
    BY <1>2 DEF Quiet, Inv, QueueInv, AttemptsBounded
  <2> QED BY <1>1, <1>2, <2>1 DEF AttemptsBounded
<1> QED BY <1>1, <1>2, <1>3, <1>4, <1>5, <1>6 DEF Inv, QueueInv

(* The row that was in the queue is kept. *)
LEMMA QueueRow ==
    ASSUME Inv, NEW j \in Jobs, Quiet(j), NEW row, row = jobs[j]
    PROVE  RowOK(j, row)'
<1>1. row \in Row /\ RowOK(j, row)
  BY OutsideFacts DEF Inv, QueueInv, RowsOK
<1> QED BY <1>1, RowKept

LEMMA RetryKeeps == Inv /\ Retry => Inv'
<1> SUFFICES ASSUME Inv, Retry PROVE Inv'
  OBVIOUS
<1>a. PICK j : j = x.request.job
  OBVIOUS
<1>b. PICK old : old = x.seen[j]
  OBVIOUS
<1>c. PICK made : made = Retried(old)
  OBVIOUS
<1>1. /\ Operating /\ x.pc = "write" /\ x'.pc = "done" /\ j \in Jobs
      /\ UNCHANGED <<kept, ended, landed, capture, exits, requests>>
      /\ \/ UNCHANGED <<jobs, begun>>
         \/ /\ jobs' = [x.seen EXCEPT ![j] = made] /\ begun' = [begun EXCEPT ![j] = 0]
            /\ Terminal(old)
  BY <1>a, <1>b, <1>c, RetryOperates DEF Inv
<1>2. x.seen \in Queue /\ begun \in [Jobs -> Nat]
  BY OperationFacts DEF Inv, FrameInv, HistoryTypes
<1>3. \A k \in Jobs : begun'[k] <= begun[k]
  BY <1>1, <1>2
<1>4. /\ \A k \in Jobs : Quiet(k) /\ RowOK(k, x.seen[k]) /\ x.seen[k] \in Row
      /\ exits \in Nat /\ scope.attempts \in Nat /\ exits' = exits /\ scope' = scope
  BY <1>1, <1>3, WriteQuiet
<1>5. /\ made \in Row /\ Like(made, old) /\ made.state = "pending" /\ made.attempts = 0
  BY <1>b, <1>c, <1>1, <1>4, RowRetried
<1>6. ASSUME Terminal(old), begun' = [begun EXCEPT ![j] = 0] PROVE RowOK(j, made)'
  <2>1. Bounded(j, made)'
    BY <1>4, <1>5 DEF Bounded
  <2>2. begun'[j] <= made.attempts
    BY <1>1, <1>2, <1>5, <1>6
  <2>3. Steady(j) /\ RowOK(j, old)
    BY <1>b, <1>1, <1>4 DEF Quiet
  <2> QED BY <1>1, <1>5, <1>6, <2>1, <2>2, <2>3, RowBecomes DEF Terminal
<1>7. \A k \in Jobs : \A row : row = jobs'[k] => RowOK(k, row)'
  <2> SUFFICES ASSUME NEW k \in Jobs, NEW row, row = jobs'[k] PROVE RowOK(k, row)'
    OBVIOUS
  <2>1. CASE jobs' = jobs
    BY <1>4, <2>1, QueueRow
  <2>2. CASE jobs' # jobs /\ k = j
    BY <1>1, <1>2, <1>6, <2>2 DEF Queue
  <2>3. CASE jobs' # jobs /\ k # j
    <3>1. row = x.seen[k]
      BY <1>1, <1>2, <2>3 DEF Queue
    <3> QED BY <1>4, <3>1, RowKept
  <2> QED BY <2>1, <2>2, <2>3
<1>8. \A k \in Jobs : Ahead(k)' => begun'[k] = begun[k]
  <2> SUFFICES ASSUME NEW k \in Jobs, Ahead(k)', begun'[k] # begun[k] PROVE FALSE
    OBVIOUS
  <2>1. k = j /\ Terminal(old)
    BY <1>1, <1>2
  <2>2. RowOK(j, old) /\ Ahead(j)
    BY <1>b, <1>1, <1>4, <2>1 DEF Quiet, Steady
  <2> QED BY <2>1, <2>2 DEF RowOK, Terminal
<1> QED BY <1>1, <1>3, <1>7, <1>8, WriteKeeps

LEMMA DiscardKeeps == Inv /\ Discard => Inv'
<1> SUFFICES ASSUME Inv, Discard PROVE Inv'
  OBVIOUS
<1>a. PICK j : j = x.request.job
  OBVIOUS
<1>b. PICK old : old = x.seen[j]
  OBVIOUS
<1>1. /\ Operating /\ x.pc = "write" /\ x'.pc = "done" /\ j \in Jobs
      /\ UNCHANGED <<kept, begun, landed, capture, exits, requests>>
      /\ \/ UNCHANGED <<jobs, ended>>
         \/ /\ jobs' = [x.seen EXCEPT ![j] = NoRow] /\ ended' = ended \cup {j}
            /\ Terminal(old)
  BY <1>a, <1>b, DiscardOperates DEF Inv
<1>2. x.seen \in Queue /\ begun \in [Jobs -> Nat]
  BY OperationFacts DEF Inv, FrameInv, HistoryTypes
<1>3. \A k \in Jobs : begun'[k] <= begun[k]
  BY <1>1, <1>2
<1>4. \A k \in Jobs : Quiet(k) /\ RowOK(k, x.seen[k]) /\ x.seen[k] \in Row
  BY <1>1, <1>3, WriteQuiet
<1>5. \A k \in Jobs : \A row : row = jobs'[k] => RowOK(k, row)'
  <2> SUFFICES ASSUME NEW k \in Jobs, NEW row, row = jobs'[k] PROVE RowOK(k, row)'
    OBVIOUS
  <2>1. CASE jobs' = jobs
    BY <1>4, <2>1, QueueRow
  <2>2. CASE jobs' # jobs /\ k = j
    <3>1. row = NoRow
      BY <1>1, <1>2, <2>2 DEF Queue
    <3> QED BY <3>1, AbsentOK, NoRowMade
  <2>3. CASE jobs' # jobs /\ k # j
    <3>1. row = x.seen[k]
      BY <1>1, <1>2, <2>3 DEF Queue
    <3> QED BY <1>4, <3>1, RowKept
  <2> QED BY <2>1, <2>2, <2>3
<1>6. \A k \in Jobs : Ahead(k)' => /\ k \in kept' \cup ended' => k \in kept \cup ended
                                   /\ begun'[k] = begun[k]
  <2> SUFFICES ASSUME NEW k \in Jobs, Ahead(k)', k \in ended' \ ended PROVE FALSE
    BY <1>1
  <2>1. k = j /\ Terminal(old)
    BY <1>1
  <2>2. RowOK(j, old) /\ Ahead(j)
    BY <1>b, <1>1, <1>4, <2>1 DEF Quiet, Steady
  <2> QED BY <2>1, <2>2 DEF RowOK, Terminal
<1> QED BY <1>1, <1>3, <1>5, <1>6, WriteKeeps

LEMMA RecoverKeeps == Inv /\ Recover => Inv'
<1> SUFFICES ASSUME Inv, Recover PROVE Inv'
  OBVIOUS
<1>1. /\ Operating /\ x.pc = "write" /\ x'.pc = "work"
      /\ UNCHANGED <<kept, begun, landed, capture, exits, requests>>
      /\ jobs' = jobs \/ jobs' = RecoveredQueue
      /\ ended' = ended \cup ExpiredIn(x.seen)
  BY RecoverOperates DEF Inv
<1>2. x.seen \in Queue /\ begun \in [Jobs -> Nat] /\ x.known \in Accounts \cup {None}
  BY OperationFacts DEF Inv, FrameInv, HistoryTypes
<1>3. \A k \in Jobs : begun'[k] <= begun[k]
  BY <1>1, <1>2
<1>4. /\ \A k \in Jobs : Quiet(k) /\ RowOK(k, x.seen[k]) /\ x.seen[k] \in Row
      /\ exits \in Nat /\ scope.attempts \in Nat /\ exits' = exits /\ scope' = scope
      /\ \A k \in Jobs : ~GivingUp(k)
  BY <1>1, <1>3, WriteQuiet
<1>5. ASSUME NEW k \in Jobs, NEW made, made = Recovered(x.seen[k], x.request.kind, x.known)
      PROVE  RowOK(k, made)'
  <2>a. PICK old : old = x.seen[k]
    OBVIOUS
  <2>b. PICK account : account = x.known
    OBVIOUS
  <2>1. old \in Row /\ RowOK(k, old) /\ Quiet(k) /\ Steady(k) /\ begun[k] \in Nat
    BY <1>2, <1>4, <2>a DEF Quiet
  <2>2. /\ made \in Row /\ account \in Accounts \cup {None}
        /\ \/ made = old
           \/ made = NoRow
           \/ /\ made.state = "pending" /\ old.state \in {"processing", "paused"}
              /\ Like(made, old) /\ made.attempts = old.attempts
           \/ /\ made.state = "pending" /\ old.state = "awaiting-auth"
              /\ account # None /\ old.target = account[1]
              /\ made.owner = account /\ made.target = old.target
              /\ made.attempts = old.attempts
    BY <1>2, <1>5, <2>1, <2>a, <2>b, RowRecovered
  <2>3. CASE made = old
    BY <2>1, <2>3, RowKept
  <2>4. CASE made = NoRow
    BY <2>4, AbsentOK, NoRowMade
  <2>5. ASSUME old.state \in {"awaiting-auth", "processing", "paused"}, made.attempts = old.attempts
        PROVE  begun'[k] <= made.attempts /\ Bounded(k, made)'
    <3>1. old.attempts <= scope.attempts + exits /\ begun[k] <= old.attempts
      BY <2>1, <2>5, Within DEF RowOK
    <3> QED BY <1>1, <1>4, <2>5, <3>1 DEF Bounded
  <2>6. CASE /\ made.state = "pending" /\ old.state \in {"processing", "paused"}
             /\ Like(made, old) /\ made.attempts = old.attempts
    <3>1. begun'[k] <= made.attempts /\ Bounded(k, made)'
      BY <2>5, <2>6
    <3> QED BY <2>1, <2>6, <3>1, RowBecomes
  <2>7. CASE /\ made.state = "pending" /\ old.state = "awaiting-auth"
             /\ account # None /\ old.target = account[1]
             /\ made.owner = account /\ made.target = old.target
             /\ made.attempts = old.attempts
    <3>1. begun'[k] <= made.attempts /\ Bounded(k, made)'
      BY <2>5, <2>7
    <3>2. /\ ~Ahead(k) /\ old.owner = None /\ old.target = capture[k][1] /\ capture[k][2] = None
          /\ \A a \in Accounts : Reaches(k, a) => old.owner = a
      BY <2>1, <2>7 DEF RowOK, Fits
    <3>3. \A a \in Accounts : ~Reaches(k, a)
      BY <3>2, ExtensionQueueAssumption DEF Accounts
    <3>4. ~Ahead(k)' /\ capture'[k] = capture[k] /\ \A a \in Accounts : ~Reaches(k, a)'
      BY <2>1, <3>2, <3>3 DEF Steady
    <3>5. Fits(made, capture'[k])
      BY <2>7, <3>2, <3>4 DEF Fits
    <3> QED BY <3>1, <3>4, <3>5 DEF RowOK
  <2> QED BY <2>2, <2>3, <2>4, <2>6, <2>7
<1>6. \A k \in Jobs : \A row : row = jobs'[k] => RowOK(k, row)'
  <2> SUFFICES ASSUME NEW k \in Jobs, NEW row, row = jobs'[k] PROVE RowOK(k, row)'
    OBVIOUS
  <2>1. CASE jobs' = jobs
    BY <1>4, <2>1, QueueRow
  <2>2. CASE jobs' # jobs
    <3>1. row = Recovered(x.seen[k], x.request.kind, x.known)
      BY <1>1, <2>2 DEF RecoveredQueue
    <3> QED BY <1>5, <3>1
  <2> QED BY <2>1, <2>2
<1>7. \A k \in Jobs : Ahead(k)' => /\ k \in kept' \cup ended' => k \in kept \cup ended
                                   /\ begun'[k] = begun[k]
  <2> SUFFICES ASSUME NEW k \in Jobs, Ahead(k)', k \in ExpiredIn(x.seen) PROVE FALSE
    BY <1>1
  <2>1. RowOK(k, x.seen[k]) /\ Ahead(k)
    BY <1>4 DEF Quiet, Steady
  <2> QED BY <2>1 DEF RowOK, Terminal, ExpiredIn, Expired
<1> QED BY <1>1, <1>3, <1>6, <1>7, WriteKeeps

LEMMA EnqueueKeeps == Inv /\ Enqueue => Inv'
<1> SUFFICES ASSUME Inv, Enqueue PROVE Inv'
  OBVIOUS
<1>a. PICK j : j = x.request.job
  OBVIOUS
<1>b. PICK context : context = capture[j]
  OBVIOUS
<1>1. /\ Operating /\ x.pc = "write" /\ x.request.kind = "enqueue" /\ j \in Jobs
      /\ context \in Contexts /\ x'.pc = "done"
      /\ UNCHANGED <<begun, landed, capture, exits, requests>>
      /\ \/ UNCHANGED <<jobs, kept, ended>>
         \/ \E gone \in SUBSET Jobs : Admits(gone)
  BY <1>a, <1>b, EnqueueOperates DEF Inv, QueueInv
<1>2. \A k \in Jobs : begun'[k] <= begun[k]
  BY <1>1, CountsAre DEF Inv
<1>3. /\ \A k \in Jobs : Quiet(k) /\ ~Admitting(k)' /\ RowOK(k, x.seen[k]) /\ x.seen[k] \in Row
      /\ exits \in Nat /\ scope.attempts \in Nat /\ exits' = exits /\ scope' = scope
  BY <1>1, <1>2, WriteQuiet
<1>4. Admitting(j) /\ Ahead(j)
  BY <1>a, <1>1 DEF Admitting, Enqueues, Ahead
<1>5. /\ ~Ahead(j)' /\ capture'[j] = context /\ context # None
      /\ begun'[j] = 0 /\ \A a \in Accounts : ~Reaches(j, a)'
  <2>1. ~AskedIn(requests, j) /\ capture[j] # None
    BY <1>1, <1>4 DEF Inv, QueueInv, AsksOK
  <2>2. begun[j] = 0 /\ \A a \in Accounts : ~Reaches(j, a)
    BY <1>1, <1>4 DEF Inv, QueueInv, Early
  <2>3. Steady(j)
    BY <1>1, <1>3 DEF Quiet
  <2> QED BY <1>b, <1>1, <1>3, <2>1, <2>2, <2>3 DEF Ahead, Steady
<1>6. ASSUME NEW made, made = Admitted(context) PROVE RowOK(j, made)'
  <2>1. /\ made.target = context[1] /\ made.attempts = 0
        /\ context[2] = None => made.state = "awaiting-auth" /\ made.owner = None
        /\ context[2] # None => made.state = "pending" /\ made.owner = context
    BY <1>1, <1>6, RowAdmitted DEF Contexts
  <2>2. context[2] # None => context \in Accounts
    BY <1>1 DEF Contexts, Accounts
  <2>3. Fits(made, context)
    <3>1. None \notin Accounts
      BY ExtensionQueueAssumption DEF Accounts
    <3> QED BY <2>1, <2>2, <3>1 DEF Fits
  <2>4. Bounded(j, made)'
    BY <1>3, <2>1 DEF Bounded
  <2>5. begun'[j] <= made.attempts
    BY <1>5, <2>1
  <2> QED BY <1>5, <2>3, <2>4, <2>5 DEF RowOK
<1>7. CASE UNCHANGED <<jobs, kept, ended>>
  <2>1. \A k \in Jobs : \A row : row = jobs'[k] => RowOK(k, row)'
    BY <1>3, <1>7, QueueRow
  <2> QED BY <1>1, <1>2, <1>7, <2>1, WriteKeeps
<1>8. ASSUME NEW gone \in SUBSET Jobs, Admits(gone) PROVE Inv'
  <2>1. /\ jobs'[j] = Admitted(context)
        /\ \A k \in Jobs \ {j} : jobs'[k] = NoRow \/ jobs'[k] = x.seen[k]
        /\ gone \subseteq Present(x.seen)
        /\ kept' = kept \cup {j} /\ ended' = ended \cup gone
    BY <1>a, <1>b, <1>8 DEF Admits
  <2>2. \A k \in Jobs : \A row : row = jobs'[k] => RowOK(k, row)'
    <3> SUFFICES ASSUME NEW k \in Jobs, NEW row, row = jobs'[k] PROVE RowOK(k, row)'
      OBVIOUS
    <3>1. CASE k = j
      BY <1>6, <2>1, <3>1
    <3>2. CASE row = NoRow
      BY <3>2, AbsentOK, NoRowMade
    <3>3. CASE row = x.seen[k]
      BY <1>3, <3>3, RowKept
    <3> QED BY <2>1, <3>1, <3>2, <3>3
  <2>3. \A k \in Jobs : Ahead(k)' => /\ k \in kept' \cup ended' => k \in kept \cup ended
                                     /\ begun'[k] = begun[k]
    <3> SUFFICES ASSUME NEW k \in Jobs, Ahead(k)', k \in (kept' \cup ended') \ (kept \cup ended)
                 PROVE  FALSE
      BY <1>1
    <3>1. k # j
      BY <1>5
    <3>2. k \in Present(x.seen)
      BY <2>1, <3>1
    <3>3. RowOK(k, x.seen[k]) /\ Ahead(k)
      BY <1>3 DEF Quiet, Steady
    <3> QED BY <3>2, <3>3 DEF RowOK, Present
  <2> QED BY <1>1, <1>2, <2>2, <2>3, WriteKeeps
<1> QED BY <1>1, <1>7, <1>8
-----------------------------------------------------------------------------
(* The whole specification.                                                 *)
LEMMA InitKeeps == Init => Inv
<1> SUFFICES ASSUME Init PROVE Inv
  OBVIOUS
<1>1. FrameInv
  BY InitFrame
<1>2. /\ jobs = NoQueue /\ requests = <<Startup>> /\ x = NoOperation
      /\ w = [p \in Workers |-> NoAttempt] /\ late = NoLate /\ chain = None
      /\ capture = [j \in Jobs |-> None] /\ kept = {} /\ ended = {}
      /\ begun = [j \in Jobs |-> 0] /\ landed = {}
  BY DEF Init
<1>3. /\ x.pc = "idle" /\ late.pc = "idle" /\ late.upload = "none"
      /\ \A p \in Workers : w[p].pc = "idle" /\ chain # p
  BY <1>2, ProcessesDiffer DEF NoOperation, NoLate, NoAttempt, Processes
<1>4. \A j \in Jobs : jobs[j].state = "absent" /\ begun[j] = 0 /\ capture[j] = None
  BY <1>2, NoRowMade DEF NoQueue
<1>5. RowsOK
  BY <1>3, <1>4, AbsentOK DEF RowsOK
<1>6. \A j \in Jobs : ~AskedIn(requests, j) /\ OnceIn(requests, j) /\ ~Admitting(j)
  BY <1>2, <1>3, GoodFacts DEF AskedIn, OnceIn, Admitting, Enqueues
<1>7. AsksOK
  BY <1>6 DEF AsksOK
<1>8. \A j \in Jobs, a \in Accounts : ~Reaches(j, a)
  BY <1>2, <1>3 DEF Reaches, Sending
<1>9. Early /\ ReachOK
  BY <1>2, <1>4, <1>8 DEF Early, ReachOK
<1>10. LandedOK
  BY <1>2, <1>3 DEF LandedOK
<1>11. SeenStates /\ Unclaimed /\ Spent
  BY <1>3 DEF SeenStates, Unclaimed, Spent
<1>12. AttemptsBounded
  BY <1>1, <1>4, ScopeFacts DEF AttemptsBounded, FrameInv
<1> QED BY <1>1, <1>5, <1>7, <1>9, <1>10, <1>11, <1>12 DEF Inv, QueueInv

LEMMA StutterKeeps == Inv /\ UNCHANGED vars => Inv'
<1> SUFFICES ASSUME Inv, UNCHANGED vars PROVE Inv'
  OBVIOUS
<1>1. /\ UNCHANGED <<jobs, alarm, instance, user, sessions, worker, exits, scope, published, requests,
                     prompting, x, w, late, chain, sched, capture, kept, ended, begun, landed>>
  BY DEF vars, stored, connection, bounds, chains, running, history
<1>2. FrameInv /\ Turns
  BY <1>1 DEF Turns, Inv
<1> QED BY <1>1, <1>2, AroundFrom, OutsideFacts, AroundKeeps

LEMMA AttemptKeeps ==
    ASSUME Inv, NEW p \in Workers, AttemptStep(p) \/ Timeout(p)
    PROVE  Inv'
<1>1. FrameInv
  BY DEF Inv
<1>2. ASSUME CheckAccount(p) \/ CheckOwner(p) \/ Credential(p) \/ Answer(p) \/ After(p) \/ Timeout(p)
      PROVE  Inv'
  <2>1. Thinking(p, w'[p])
    BY <1>1, <1>2, CheckAccountThinks, CheckOwnerThinks, CredentialThinks, AnswerThinks,
       AfterThinks, TimeoutThinks
  <2>2. sched[p] = "no"
    BY <1>2 DEF CheckAccount, CheckOwner, Credential, Answer, After, Timeout, Ready
  <2> QED BY <2>1, <2>2, ThinkingKeeps
<1>3. ASSUME NEW j \in Jobs, StartJob(p, j) PROVE Inv'
  BY <1>3, StartJobKeeps
<1>4. CASE Enter(p) \/ Defer(p) \/ Pause(p) \/ Expire(p) \/ Claim(p)
  BY <1>4, EnterKeeps, DeferKeeps, PauseKeeps, ExpireKeeps, ClaimKeeps
<1>5. CASE Settle(p) \/ Remove(p) \/ Fail(p) \/ GiveUp(p)
  BY <1>5, SettleKeeps, RemoveKeeps, FailKeeps, GiveUpKeeps
<1> QED BY <1>2, <1>3, <1>4, <1>5 DEF AttemptStep

LEMMA SurroundingKeeps ==
    ASSUME Inv,
           \/ \E p \in Processes : Scheduling(p)
           \/ \E j \in Jobs : Prompted(j) \/ CaptureSave(j) \/ Due(j) \/ Age(j)
                              \/ AskFor("retry", j) \/ AskFor("discard", j)
           \/ SignOut \/ (\E u \in Users : SignIn(u)) \/ \E i \in Instances : SetInstance(i)
    PROVE  Inv'
<1>1. FrameInv
  BY DEF Inv
<1>2. ASSUME NEW p \in Processes, Scheduling(p) PROVE Inv'
  BY <1>1, <1>2, ScheduleReadAround, ScheduleAlarmAround, AroundKeeps DEF Scheduling
<1>3. ASSUME NEW j \in Jobs, CaptureSave(j) PROVE Inv'
  BY <1>3, CaptureKeeps
<1>4. ASSUME NEW j \in Jobs, Prompted(j) \/ Due(j) \/ Age(j) PROVE Inv'
  BY <1>1, <1>4, PromptedAround, DueAround, AgeAround, AroundKeeps
<1>5. ASSUME NEW j \in Jobs, AskFor("retry", j) \/ AskFor("discard", j) PROVE Inv'
  BY <1>1, <1>5, AskForAround, AroundKeeps
<1>6. ASSUME SignOut PROVE Inv'
  BY <1>1, <1>6, SignOutAround, AroundKeeps
<1>7. ASSUME NEW u \in Users, SignIn(u) PROVE Inv'
  BY <1>1, <1>7, SignInAround, AroundKeeps
<1>8. ASSUME NEW i \in Instances, SetInstance(i) PROVE Inv'
  BY <1>1, <1>8, SetInstanceAround, AroundKeeps
<1> QED BY <1>2, <1>3, <1>4, <1>5, <1>6, <1>7, <1>8

(* Every step of the queue, of its workers and of its surroundings keeps the *)
(* invariant.                                                                *)
LEMMA NextKeeps == Inv /\ [Next]_vars => Inv'
<1> SUFFICES ASSUME Inv, [Next]_vars PROVE Inv'
  OBVIOUS
<1>1. CASE ExclusiveStep
  BY <1>1, TakeKeeps, ReadAccountKeeps, RecoverKeeps, EndWorkKeeps, FinishKeeps, EnqueueKeeps,
     RetryKeeps, DiscardKeeps DEF ExclusiveStep
<1>2. CASE LateStep
  BY <1>2, LateAnswerKeeps, LateEnterKeeps, LateReleaseKeeps DEF LateStep
<1>3. ASSUME NEW p \in Workers, AttemptStep(p) \/ Timeout(p) PROVE Inv'
  BY <1>3, AttemptKeeps
<1>4. CASE \/ \E p \in Processes : Scheduling(p)
           \/ \E j \in Jobs : Prompted(j) \/ CaptureSave(j) \/ Due(j) \/ Age(j)
                              \/ AskFor("retry", j) \/ AskFor("discard", j)
           \/ SignOut \/ (\E u \in Users : SignIn(u)) \/ \E i \in Instances : SetInstance(i)
  BY <1>4, SurroundingKeeps
<1>5. CASE AlarmFires \/ StartWorker
  BY <1>5, AlarmFiresAround, StartWorkerAround, AroundKeeps DEF Inv
<1>6. CASE Suspend \/ Exit
  BY <1>6, SuspendKeeps, ExitKeeps
<1>7. CASE UNCHANGED vars
  BY <1>7, StutterKeeps
<1> QED BY <1>1, <1>2, <1>3, <1>4, <1>5, <1>6, <1>7 DEF Next

LEMMA InvHolds == Spec => []Inv
<1> QED BY InitKeeps, NextKeeps, PTL DEF Spec

LEMMA InvTypes == Inv => TypeOK
<1> SUFFICES ASSUME Inv PROVE TypeOK
  OBVIOUS
<1>1. FrameInv /\ RowsOK /\ LandedOK
  BY DEF Inv, QueueInv
<1>2. requests \in Seq(Request)
  <2>1. requests \in Seq(Good) /\ Good \subseteq Request
    BY <1>1 DEF FrameInv, ConnectionTypes, Good
  <2>2. Seq(Good) \subseteq Seq(Request)
    BY <2>1
  <2> QED BY <2>1, <2>2
<1>3. ASSUME NEW j \in Jobs, jobs[j].state # "absent"
      PROVE  jobs[j].attempts <= scope.attempts + scope.exits + 1
  <2>1. Bounded(j, jobs[j])
    BY <1>1, <1>3 DEF RowsOK, RowOK
  <2>2. jobs[j] \in Row
    BY <1>1 DEF FrameInv, Queue
  <2>3. jobs[j].attempts \in Nat
    BY <2>2, RowFields
  <2>4. exits \in 0 .. scope.exits /\ scope.exits \in Nat /\ scope.attempts \in Nat
    BY <1>1, ScopeFacts DEF FrameInv, ConnectionTypes
  <2> QED BY <2>1, <2>3, <2>4 DEF Bounded
<1>4. /\ jobs \in Queue /\ alarm \in BOOLEAN
      /\ instance \in Instances /\ user \in Users \cup {None}
      /\ worker \in {"up", "suspended", "exited"} /\ published \in BOOLEAN /\ prompting \subseteq Jobs
      /\ exits \in 0 .. scope.exits /\ sessions \in 0 .. scope.sessions
  BY <1>1 DEF FrameInv, ConnectionTypes
<1>5. /\ x \in Operation /\ w \in [Workers -> Attempt] /\ late \in LateAttempt
      /\ chain \in Workers \cup {Late, None}
      /\ sched \in [Processes -> {"no", "read", "arm", "clear"}]
  BY <1>1 DEF FrameInv, RunningTypes
<1>6. /\ capture \in [Jobs -> (Instances \X (Users \cup {None})) \cup {None}]
      /\ kept \subseteq Jobs /\ ended \subseteq Jobs
      /\ begun \in [Jobs -> Nat] /\ landed \subseteq Jobs \X Accounts
  BY <1>1 DEF FrameInv, HistoryTypes, LandedOK, Contexts
<1> QED BY <1>2, <1>3, <1>4, <1>5, <1>6 DEF TypeOK

LEMMA InvLands == Inv => LandsWhereCaptured
<1> SUFFICES ASSUME Inv, NEW a \in landed
             PROVE  /\ a[2][1] = capture[a[1]][1]
                    /\ capture[a[1]][2] \in {None, a[2][2]}
                    /\ \A b \in landed : a[1] = b[1] => a[2] = b[2]
  BY DEF LandsWhereCaptured
<1>1. landed \subseteq Jobs \X Accounts /\ ReachOK
  BY DEF Inv, QueueInv, LandedOK
<1>2. \A b \in landed : b[1] \in Jobs /\ b[2] \in Accounts /\ Reaches(b[1], b[2])
  <2> TAKE b \in landed
  <2>1. b[1] \in Jobs /\ b[2] \in Accounts /\ b = <<b[1], b[2]>>
    BY <1>1
  <2> QED BY <2>1 DEF Reaches
<1>3. a[1] \in Jobs /\ a[2] \in Accounts /\ Reaches(a[1], a[2])
  BY <1>2
<1>4. /\ a[2][1] = capture[a[1]][1] /\ capture[a[1]][2] \in {None, a[2][2]}
      /\ \A account \in Accounts : Reaches(a[1], account) => a[2] = account
  BY <1>1, <1>3 DEF ReachOK
<1> QED BY <1>2, <1>4

(* The types of the queue, its rows, its operations and its attempts.  A     *)
(* save's stored attempts exceed the limit by no more than the exits that    *)
(* cut an attempt short and one failed account check.                        *)
THEOREM TypeCorrect == Spec => []TypeOK
<1> QED BY InvHolds, InvTypes, PTL

(* However the connection changes between an attempt's reads of it, and      *)
(* whichever of two attempts, a late answer or an exit decides it, a save    *)
(* reaches one account at most: that of its capture.                         *)
THEOREM SavesLandWhereCaptured == Spec => []LandsWhereCaptured
<1> QED BY InvHolds, InvLands, PTL

(* No save is begun more often than the limit between its capture and the    *)
(* user's retry, though an attempt can time out and its save be released     *)
(* while the next one is under way, and the browser end in the middle of it. *)
THEOREM AttemptsAreBounded == Spec => []AttemptsBounded
<1>1. Inv => AttemptsBounded
  BY DEF Inv, QueueInv
<1> QED BY <1>1, InvHolds, PTL
-----------------------------------------------------------------------------
(* The wake-up.  Whoever is setting the alarm holds the chain it wrote the   *)
(* queue on; a save that waits keeps waiting until a worker's mutation ends  *)
(* its wait, so that neither the exclusive chain nor a late release can       *)
(* clear an alarm that the other has set.                                     *)
Turned ==
    /\ \A p \in Workers \cup {Late} : sched[p] # "no" => chain = p
    /\ sched[Exclusive] # "no" => /\ x.pc \in {"work", "done"}
                                  /\ \A p \in Workers : w[p].pc = "idle" /\ chain # p

Releasing == late.pc = "release" /\ late.seen[late.job].state = "processing"
LateWakes ==
    /\ sched[Late] # "clear"
    /\ sched[Late] # "no" \/ Releasing => Waking(jobs) # {}

Alive(queue) == \A j \in Jobs : queue[j].state = jobs[j].state
Followed ==
    x.pc \in {"account", "write"} =>
        \/ Alive(x.seen)
        \/ late.pc = "idle" /\ Waking(x.seen) # {} /\ Waking(jobs) # {}

Recoveries == {"startup", "alarm", "enqueued"}
RecoveryIn(s) == \E i \in DOMAIN s : s[i].kind \in Recoveries

(* What will set the alarm for a save that waits, before the worker rests.   *)
Recovering ==
    \/ RecoveryIn(requests) \/ x.pc \in {"account", "work"}
    \/ x.pc = "write" /\ x.request.kind \in Recoveries
Minded ==
    \/ alarm \/ \E q \in Processes : sched[q] \in {"read", "arm"}
    \/ worker = "up" /\ Recovering

Armed ==
    /\ x.pc = "account" => x.request.kind \in Recoveries
    /\ worker # "up" => \A q \in Processes : sched[q] = "no"
    /\ \A q \in Processes : sched[q] = "clear" => Waking(jobs) = {}
    /\ worker # "exited" /\ Waking(jobs) # {} => Minded

Awake == Turned /\ LateWakes /\ Followed /\ Armed

(* Where no attempt times out, every queue that may be written back has its  *)
(* saves in the states they are in.  Where there is one capture, it may wait *)
(* in the one and be processed in the other; a release finds it waiting.     *)
Waits(row) == row.state \in {"pending", "processing"}
Close(queue) == \A j \in Jobs :
    queue[j].state = jobs[j].state \/ (Waits(queue[j]) /\ Waits(jobs[j]))

Kept == CapturesKept /\ NoResurrection
Whole ==
    /\ Kept
    /\ x.pc \in {"account", "write"} => Close(x.seen)
    /\ Releasing => Waits(jobs[late.job])

Lone == \A j, k \in Jobs : capture[j] # None /\ capture[k] # None => j = k
Apart ==
    /\ ~scope.timeouts => late.pc = "idle"
    /\ scope.captures <= 1 => Lone

Separate == ~scope.timeouts \/ scope.captures <= 1
Untangled == Apart /\ (Separate => Whole)
(* A step that leaves every save in its state loses and revives none.       *)
LEMMA StatesKeep ==
    ASSUME \A j \in Jobs : jobs'[j].state = jobs[j].state
    PROVE  /\ Waking(jobs') = Waking(jobs) /\ Present(jobs') = Present(jobs)
           /\ Kept /\ kept' = kept /\ ended' = ended => Kept'
<1>1. Waking(jobs') = Waking(jobs)
  BY DEF Waking
<1>2. Present(jobs') = Present(jobs)
  BY DEF Present
<1> QED BY <1>1, <1>2 DEF Kept, CapturesKept, NoResurrection

(* A recovery that was asked for still is when more is asked for.           *)
LEMMA AppendAsks ==
    ASSUME NEW s \in Seq(Good), NEW r \in Good
    PROVE  /\ RecoveryIn(s) => RecoveryIn(Append(s, r))
           /\ r.kind \in Recoveries => RecoveryIn(Append(s, r))
<1>1. /\ DOMAIN s = 1 .. Len(s) /\ DOMAIN Append(s, r) = 1 .. (Len(s) + 1) /\ Len(s) \in Nat
      /\ Append(s, r)[Len(s) + 1] = r /\ \A i \in 1 .. Len(s) : Append(s, r)[i] = s[i]
  OBVIOUS
<1>2. Len(s) + 1 \in DOMAIN Append(s, r) /\ \A i \in DOMAIN s : i \in DOMAIN Append(s, r)
  BY <1>1
<1> QED BY <1>1, <1>2 DEF RecoveryIn

LEMMA PublishAsks ==
    ASSUME requests \in Seq(Good), NEW asked, Publish(asked), asked = <<>> \/ \E r \in Good : asked = <<r>>
    PROVE  RecoveryIn(requests) => RecoveryIn(requests')
<1> DEFINE base == IF ~published /\ user # None THEN Append(requests, Startup) ELSE requests
<1>1. base \in Seq(Good) /\ (RecoveryIn(requests) => RecoveryIn(base))
  BY AppendAsks, AppendGood, GoodFacts
<1>2. requests' = base \o asked
  BY DEF Publish
<1> HIDE DEF base
<1>3. CASE asked = <<>>
  <2>1. base \o <<>> = base
    BY <1>1
  <2> QED BY <1>1, <1>2, <1>3, <2>1
<1>4. ASSUME NEW r \in Good, asked = <<r>>
      PROVE  RecoveryIn(requests) => RecoveryIn(requests')
  <2>1. base \o <<r>> = Append(base, r)
    BY <1>1
  <2> QED BY <1>1, <1>2, <1>4, <2>1, AppendAsks
<1> QED BY <1>3, <1>4

(* A step that leaves the wake-up, the operation and the worker, and every   *)
(* save in its state.                                                        *)
LEMMA AskingArmed ==
    ASSUME Armed, UNCHANGED <<alarm, sched, x, worker>>,
           \A j \in Jobs : jobs'[j].state = jobs[j].state,
           RecoveryIn(requests) => RecoveryIn(requests')
    PROVE  Armed'
<1>1. Waking(jobs') = Waking(jobs)
  BY StatesKeep
<1> QED BY <1>1 DEF Armed, Minded, Recovering

LEMMA ProcessFacts ==
    ASSUME FrameInv
    PROVE  /\ sched \in [Processes -> {"no", "read", "arm", "clear"}]
           /\ Late \in Processes /\ Exclusive \in Processes /\ Late # Exclusive /\ Late # None
           /\ \A p \in Workers : p \in Processes /\ p # None /\ p # Late /\ p # Exclusive
           /\ Processes = Workers \cup {Late, Exclusive}
  BY ProcessesDiffer DEF FrameInv, RunningTypes, Processes, Workers

LEMMA OutsideAwake ==
    ASSUME FrameInv, Turned, LateWakes, Followed, Outside, sched'[Late] # "clear"
    PROVE  Turned' /\ LateWakes' /\ Followed'
<1>1. /\ UNCHANGED <<x, w, late>> /\ \A j \in Jobs : jobs'[j].state = jobs[j].state
      /\ Turns
  BY DEF Outside, Alike
<1>2. Waking(jobs') = Waking(jobs)
  BY <1>1, StatesKeep
<1>3. sched'[Late] # "no" => sched[Late] # "no"
  BY <1>1, ProcessFacts DEF Turns
<1>4. LateWakes'
  BY <1>1, <1>2, <1>3 DEF LateWakes, Releasing
<1>5. Followed'
  BY <1>1, <1>2 DEF Followed, Alive
<1>6. Turned'
  <2>1. ASSUME NEW p \in Workers \cup {Late}, sched'[p] # "no" PROVE chain' = p
    BY <1>1, <2>1, ProcessFacts DEF Turned, Turns
  <2>2. ASSUME sched'[Exclusive] # "no"
        PROVE  x'.pc \in {"work", "done"} /\ \A p \in Workers : w'[p].pc = "idle" /\ chain' # p
    BY <1>1, <2>2, ProcessFacts DEF Turned, Turns
  <2> QED BY <2>1, <2>2 DEF Turned
<1> QED BY <1>4, <1>5, <1>6

(* A step of a worker under a recovery pass, which will set the alarm.       *)
LEMMA WorkingAwake ==
    ASSUME FrameInv, Awake, NEW p \in Workers, Working(p, w'[p]), Ready(p),
           UNCHANGED <<alarm, worker>>, jobs' = jobs \/ (chain = p /\ sched'[p] = "read")
    PROVE  Awake'
<1>1. /\ worker = "up" /\ worker' = "up" /\ sched[p] = "no" /\ x' = x /\ w[p].pc # "idle"
      /\ \/ UNCHANGED <<chain, sched>>
         \/ chain = None /\ chain' = p /\ sched' = sched
         \/ chain = p /\ chain' = None /\ sched' = sched
         \/ chain = p /\ chain' = p /\ sched' = [sched EXCEPT ![p] = "read"]
  BY DEF Ready, Working, Holding
<1>2. x.pc = "work" /\ sched[Exclusive] = "no"
  BY <1>1 DEF FrameInv, Control, WorkerOK, Awake, Turned
<1>3. Turned'
  <2>1. ASSUME NEW q \in Workers \cup {Late}, sched'[q] # "no" PROVE chain' = q
    BY <1>1, <2>1, ProcessFacts DEF Awake, Turned
  <2>2. sched'[Exclusive] = "no"
    BY <1>1, <1>2, ProcessFacts
  <2> QED BY <2>1, <2>2 DEF Turned
<1>4. sched'[Late] = sched[Late] /\ (sched[Late] # "no" => chain = Late)
  BY <1>1, ProcessFacts DEF Awake, Turned
<1>5. Releasing' => Releasing /\ chain = Late
  <2>1. late'.pc = "release" => late' = late
    <3>1. \/ late' = late \/ late'.pc = "settling" \/ late' = [late EXCEPT !.pc = "upload"]
      BY DEF Working, Lateness
    <3>2. late \in LateAttempt
      BY DEF FrameInv, RunningTypes
    <3> QED BY <3>1, <3>2 DEF LateAttempt
  <2> QED BY <2>1 DEF Releasing, FrameInv, Control, LateOK
<1>6. LateWakes'
  <2>1. CASE jobs' = jobs
    BY <1>4, <1>5, <2>1 DEF Awake, LateWakes
  <2>2. CASE chain = p
    BY <1>4, <1>5, <2>2, ProcessFacts DEF Awake, LateWakes
  <2> QED BY <2>1, <2>2
<1>7. Followed'
  BY <1>1, <1>2 DEF Followed
<1>8. ASSUME NEW q \in Processes, sched'[q] = "clear" PROVE Waking(jobs') = {}
  <2>1. q # p /\ sched[q] = "clear"
    BY <1>1, <1>8, ProcessFacts
  <2>2. q \in Workers /\ chain = q
    BY <1>2, <2>1, ProcessFacts DEF Awake, Turned, LateWakes
  <2> QED BY <2>1, <2>2 DEF Awake, Armed
<1>9. Armed'
  BY <1>1, <1>2, <1>8 DEF Awake, Armed, Minded, Recovering
<1> QED BY <1>3, <1>6, <1>7, <1>9 DEF Awake

(* A step of the exclusive chain writes, and looks at what is due, or leaves *)
(* what was asked for to be done.                                            *)
LEMMA OperatingAwake ==
    ASSUME FrameInv, Awake, Operating, Ready(Exclusive), UNCHANGED <<alarm, worker>>,
           x'.pc = "account" => x'.request.kind \in Recoveries,
           \/ /\ sched' = [sched EXCEPT ![Exclusive] = "read"] /\ x'.pc \in {"work", "done"}
              /\ Waking(jobs) # {} => Waking(jobs') # {}
           \/ /\ jobs' = jobs /\ sched' = sched /\ (Recovering => Recovering')
              /\ x'.pc \in {"account", "write"} =>
                   x'.seen = jobs \/ (x.pc \in {"account", "write"} /\ x'.seen = x.seen)
    PROVE  Awake'
<1>1. /\ UNCHANGED <<w, late, chain>> /\ \A p \in Workers : w[p].pc = "idle" /\ chain # p
      /\ worker = "up" /\ worker' = "up" /\ sched[Exclusive] = "no"
  BY DEF Operating, Ready
<1>2. \A q \in Processes : sched[q] = "no" \/ (q = Late /\ chain = Late /\ sched[q] # "clear")
  BY <1>1, ProcessFacts DEF Awake, Turned, LateWakes
<1>3. CASE /\ sched' = [sched EXCEPT ![Exclusive] = "read"] /\ x'.pc \in {"work", "done"}
           /\ Waking(jobs) # {} => Waking(jobs') # {}
  <2>1. /\ sched'[Exclusive] = "read" /\ sched'[Late] = sched[Late]
        /\ \A p \in Workers : sched'[p] = "no" /\ chain' # p /\ w'[p].pc = "idle"
    BY <1>1, <1>2, <1>3, ProcessFacts
  <2>2. Turned'
    BY <1>1, <1>2, <1>3, <2>1, ProcessFacts DEF Turned
  <2>3. LateWakes'
    BY <1>1, <1>3, <2>1 DEF Awake, LateWakes, Releasing
  <2>4. Followed'
    BY <1>3 DEF Followed
  <2>5. \A q \in Processes : sched'[q] # "clear"
    BY <1>2, <2>1, ProcessFacts
  <2>6. Armed'
    BY <1>1, <1>3, <2>1, <2>5, ProcessFacts DEF Armed, Minded
  <2> QED BY <2>2, <2>3, <2>4, <2>6 DEF Awake
<1>4. CASE /\ jobs' = jobs /\ sched' = sched /\ (Recovering => Recovering')
           /\ x'.pc \in {"account", "write"} =>
                x'.seen = jobs \/ (x.pc \in {"account", "write"} /\ x'.seen = x.seen)
  <2>1. Turned'
    BY <1>1, <1>4 DEF Awake, Turned
  <2>2. LateWakes'
    BY <1>1, <1>4 DEF Awake, LateWakes, Releasing
  <2>3. Followed'
    BY <1>1, <1>4 DEF Awake, Followed, Alive
  <2>4. Armed'
    BY <1>1, <1>4 DEF Awake, Armed, Minded
  <2> QED BY <2>1, <2>2, <2>3, <2>4 DEF Awake
<1> QED BY <1>3, <1>4

(* The acting worker, of a save it holds, writes what it read a moment ago   *)
(* but for that save.                                                        *)
Replaces(j) ==
    /\ \A k \in Jobs \ {j} : jobs'[k].state = jobs[k].state
    /\ \/ ended' = ended /\ (jobs'[j].state = "absent" <=> jobs[j].state = "absent")
       \/ ended' = ended \cup {j} /\ jobs'[j].state = "absent"

LEMMA ReplacingKept ==
    ASSUME NEW j \in Jobs, Kept, Replaces(j), kept' = kept
    PROVE  Kept'
<1>1. \A k \in Jobs \ {j} : k \in Present(jobs') <=> k \in Present(jobs)
  BY DEF Replaces, Present
<1>2. \/ ended' = ended /\ (j \in Present(jobs') <=> j \in Present(jobs))
      \/ ended' = ended \cup {j} /\ j \notin Present(jobs')
  BY DEF Replaces, Present
<1>3. Present(jobs') \subseteq Jobs
  BY DEF Present
<1>4. CapturesKept'
  <2> SUFFICES ASSUME NEW k \in kept' \ ended' PROVE k \in Present(jobs')
    BY DEF CapturesKept
  <2>1. k \in Present(jobs) /\ k \in Jobs
    BY <1>2 DEF Kept, CapturesKept, Present
  <2> QED BY <1>1, <1>2, <2>1
<1>5. NoResurrection'
  BY <1>1, <1>2, <1>3 DEF Kept, NoResurrection
<1> QED BY <1>4, <1>5 DEF Kept

(* The steps of an attempt.                                                 *)
(* A mutation sets no alarm of its own and needs a worker that is up.       *)
LEMMA MutationStays ==
    ASSUME NEW p \in Workers, NEW pc, NEW applies, NEW row, NEW then, Mutate(p, pc, applies, row, then)
    PROVE  Ready(p) /\ UNCHANGED <<alarm, worker>>
  BY DEF Mutate, Continue

LEMMA PresentRows ==
    ASSUME FrameInv, NEW p \in Workers, w[p].pc # "idle"
    PROVE  /\ w[p].row.state # "absent" /\ w[p].row \in Row
           /\ StillPending(p) => w[p].seen[w[p].job].state # "absent"
           /\ StillHeld(p) => w[p].seen[w[p].job].state # "absent"
  BY AttemptFacts DEF AttemptOK, StillPending, StillHeld, Latest, Holds

LEMMA AttemptAwake ==
    ASSUME FrameInv, Awake, NEW p \in Workers, AttemptStep(p) \/ Timeout(p)
    PROVE  Awake'
<1>1. ASSUME CheckAccount(p) \/ CheckOwner(p) \/ Credential(p) \/ Answer(p) \/ After(p) \/ Timeout(p)
      PROVE  Awake'
  <2>1. Thinking(p, w'[p])
    BY <1>1, CheckAccountThinks, CheckOwnerThinks, CredentialThinks, AnswerThinks, AfterThinks, TimeoutThinks
  <2>2. Ready(p) /\ UNCHANGED <<alarm, worker>>
    BY <1>1 DEF CheckAccount, CheckOwner, Credential, Answer, After, Timeout, stored, Continue
  <2> QED BY <2>1, <2>2, WorkingAwake DEF Thinking
<1>2. ASSUME NEW j \in Jobs, StartJob(p, j) PROVE Awake'
  <2>1. /\ UNCHANGED <<jobs, alarm, worker, requests, late, chain, sched>>
        /\ sched[Exclusive] = "no" /\ x.pc = "work" /\ worker = "up"
        /\ x' = [x EXCEPT !.left = @ \ {j}]
    BY <1>2 DEF StartJob, stored, chains, Ready
  <2>2. x'.pc = "work"
    BY <2>1, OperationFacts DEF Operation
  <2>3. Turned' /\ LateWakes' /\ Followed'
    BY <2>1, <2>2 DEF Awake, Turned, LateWakes, Releasing, Followed
  <2>4. Armed'
    BY <2>1, <2>2 DEF Awake, Armed, Minded, Recovering
  <2> QED BY <2>3, <2>4 DEF Awake
<1>3. CASE Enter(p)
  <2>1. Working(p, w'[p]) /\ jobs' = jobs
    BY <1>3, EnterWorks
  <2>2. Ready(p) /\ UNCHANGED <<alarm, worker>>
    BY <1>3 DEF Enter, stored, Continue
  <2> QED BY <2>1, <2>2, WorkingAwake
<1>4. ASSUME Writing(p, w'[p]), Ready(p), UNCHANGED <<alarm, worker>> PROVE Awake'
  BY <1>4, WorkingAwake DEF Writing
<1>5. CASE Defer(p)
  BY <1>4, <1>5, DeferWrites, MutationStays DEF Defer
<1>6. CASE Pause(p)
  BY <1>4, <1>6, PauseWrites, MutationStays DEF Pause
<1>7. CASE Expire(p)
  BY <1>4, <1>7, ExpireWrites, MutationStays DEF Expire
<1>8. CASE Claim(p)
  BY <1>4, <1>8, ClaimWrites, MutationStays DEF Claim
<1>9. CASE Settle(p)
  BY <1>4, <1>9, SettleWrites, MutationStays DEF Settle
<1>10. CASE Remove(p)
  BY <1>4, <1>10, RemoveWrites, MutationStays DEF Remove
<1>11. CASE Fail(p)
  BY <1>4, <1>11, FailWrites, MutationStays DEF Fail
<1>12. CASE GiveUp(p)
  BY <1>4, <1>12, GiveUpWrites, MutationStays DEF GiveUp
<1> QED BY <1>1, <1>2, <1>3, <1>5, <1>6, <1>7, <1>8, <1>9, <1>10, <1>11, <1>12 DEF AttemptStep

(* What the steps on the mutation chain make of their own save.             *)
Mutates(p) ==
    Defer(p) \/ Pause(p) \/ Expire(p) \/ Claim(p) \/ Settle(p) \/ Remove(p) \/ Fail(p) \/ GiveUp(p)

Mutated(p, j) ==
    \/ jobs' = jobs /\ ended' = ended
    \/ /\ w[p].seen[j].state # "absent"
       /\ \/ ended' = ended /\ jobs'[j].state # "absent"
          \/ w[p].pc = "remove" /\ ended' = ended \cup {j} /\ jobs'[j].state = "absent"

LEMMA MutationsWrite ==
    ASSUME FrameInv, NEW p \in Workers, Mutates(p), NEW j, j = w[p].job
    PROVE  Writing(p, w'[p]) /\ Mutated(p, j)
<1>1. FrameInv /\ j = w[p].job
  OBVIOUS
<1>2. CASE Defer(p)
  <2>1. /\ Writing(p, w'[p]) /\ w[p].pc = "defer" /\ ended' = ended
        /\ StillPending(p) => jobs'[j] = Deferred(w[p].row)
        /\ ~StillPending(p) => jobs' = jobs
    BY <1>1, <1>2, DeferWrites
  <2>2. w[p].row.state # "absent" /\ Deferred(w[p].row).state = w[p].row.state
    BY <1>1, <2>1, PresentRows, RowDeferred
  <2> QED BY <1>1, <2>1, <2>2, PresentRows DEF Mutated
<1>3. CASE Pause(p)
  <2>1. /\ Writing(p, w'[p]) /\ w[p].pc = "pause" /\ ended' = ended
        /\ StillPending(p) => jobs'[j] = Ended(Latest(p), "paused")
        /\ ~StillPending(p) => jobs' = jobs
    BY <1>1, <1>3, PauseWrites
  <2>2. Ended(Latest(p), "paused").state = "paused"
    BY <1>1, <2>1, LatestFacts, RowEnded DEF States
  <2> QED BY <1>1, <2>1, <2>2, PresentRows DEF Mutated
<1>4. CASE GiveUp(p)
  <2>1. /\ Writing(p, w'[p]) /\ w[p].pc = "giveup" /\ ended' = ended
        /\ StillPending(p) => jobs'[j] = Ended(Latest(p), "failed")
        /\ ~StillPending(p) => jobs' = jobs
    BY <1>1, <1>4, GiveUpWrites
  <2>2. Ended(Latest(p), "failed").state = "failed"
    BY <1>1, <2>1, LatestFacts, RowEnded DEF States
  <2> QED BY <1>1, <2>1, <2>2, PresentRows DEF Mutated
<1>5. CASE Expire(p)
  <2>1. /\ Writing(p, w'[p]) /\ w[p].pc = "expire" /\ ended' = ended
        /\ StillPending(p) => jobs'[j] = Ended(Latest(p), "failed")
        /\ ~StillPending(p) => jobs' = jobs
    BY <1>1, <1>5, ExpireWrites
  <2>2. Ended(Latest(p), "failed").state = "failed"
    BY <1>1, <2>1, LatestFacts, RowEnded DEF States
  <2> QED BY <1>1, <2>1, <2>2, PresentRows DEF Mutated
<1>6. CASE Claim(p)
  <2>1. /\ Writing(p, w'[p]) /\ w[p].pc = "claim" /\ ended' = ended
        /\ StillPending(p) => \E token \in Tokens : jobs'[j] = Claimed(w[p].row, token)
        /\ ~StillPending(p) => jobs' = jobs
    BY <1>1, <1>6, ClaimWrites
  <2>2. \A token \in Tokens : Claimed(w[p].row, token).state = "processing"
    BY <1>1, <2>1, PresentRows, RowClaimed
  <2>3. StillPending(p) => jobs'[j].state = "processing"
    BY <2>1, <2>2
  <2> QED BY <1>1, <2>1, <2>3, PresentRows DEF Mutated
<1>7. CASE Settle(p)
  <2>1. /\ Writing(p, w'[p]) /\ w[p].pc = "settle" /\ ended' = ended
        /\ StillHeld(p) => jobs'[j] = [Latest(p) EXCEPT !.settling = TRUE]
        /\ ~StillHeld(p) => jobs' = jobs
    BY <1>1, <1>7, SettleWrites
  <2>2. Latest(p) \in Row /\ Latest(p) = w[p].seen[j]
    BY <1>1, <2>1, LatestFacts
  <2>3. [Latest(p) EXCEPT !.settling = TRUE].state = Latest(p).state
    BY <2>2 DEF Row
  <2>4. StillHeld(p) => w[p].seen[j].state # "absent" /\ jobs'[j].state # "absent"
    BY <1>1, <2>1, <2>2, <2>3, PresentRows
  <2> QED BY <1>1, <2>1, <2>4 DEF Mutated
<1>8. CASE Remove(p)
  <2>1. /\ Writing(p, w'[p]) /\ w[p].pc = "remove"
        /\ StillHeld(p) => jobs'[j] = NoRow /\ ended' = ended \cup {j}
        /\ ~StillHeld(p) => jobs' = jobs /\ ended' = ended
    BY <1>1, <1>8, RemoveWrites
  <2> QED BY <1>1, <2>1, NoRowMade, PresentRows DEF Mutated
<1>9. CASE Fail(p)
  <2>1. /\ Writing(p, w'[p]) /\ w[p].pc = "fail" /\ ended' = ended
        /\ StillHeld(p) => jobs'[j] = Backoff(w[p].row)
        /\ ~StillHeld(p) => jobs' = jobs
    BY <1>1, <1>9, FailWrites
  <2>2. Backoff(w[p].row).state = "pending"
    BY <1>1, <2>1, PresentRows, RowBackedOff
  <2> QED BY <1>1, <2>1, <2>2, PresentRows DEF Mutated
<1> QED BY <1>2, <1>3, <1>4, <1>5, <1>6, <1>7, <1>8, <1>9 DEF Mutates

(* A worker writes back what it read, but for its save.                     *)
LEMMA WritingWhole ==
    ASSUME Inv, Whole, NEW p \in Workers, Writing(p, w'[p]), NEW j, j = w[p].job,
           \/ jobs' = jobs /\ ended' = ended
           \/ /\ w[p].seen[j].state # "absent"
              /\ \/ ended' = ended /\ jobs'[j].state # "absent"
                 \/ ended' = ended \cup {j} /\ jobs'[j].state = "absent"
    PROVE  Whole'
<1>1. /\ FrameInv /\ chain = p /\ sched[p] = "no" /\ kept' = kept /\ w[p].pc # "idle" /\ x' = x
      /\ jobs' = jobs \/ \A k \in Jobs \ {j} : jobs'[k] = w[p].seen[k]
      /\ late' = late \/ late' = [late EXCEPT !.pc = "upload"]
  BY DEF Inv, Writing, Working
<1>2. j \in Jobs /\ x.pc = "work"
  BY <1>1, AttemptFacts DEF FrameInv, Control, WorkerOK
<1>3. \A k \in Jobs : w[p].seen[k].state = jobs[k].state
  BY <1>1 DEF Inv, QueueInv, SeenStates
<1>4. Replaces(j)
  BY <1>1, <1>2, <1>3 DEF Replaces
<1>5. Kept'
  BY <1>1, <1>2, <1>4, ReplacingKept DEF Whole
<1>6. ~Releasing'
  <2>1. late \in LateAttempt /\ late.pc # "release"
    BY <1>1, ProcessFacts DEF FrameInv, RunningTypes, Control, LateOK
  <2> QED BY <1>1, <2>1 DEF Releasing, LateAttempt
<1> QED BY <1>1, <1>2, <1>5, <1>6 DEF Whole

LEMMA AttemptWhole ==
    ASSUME Inv, Whole, NEW p \in Workers, AttemptStep(p) \/ Timeout(p)
    PROVE  Whole'
<1>1. FrameInv
  BY DEF Inv
<1>2. ASSUME UNCHANGED <<jobs, kept, ended>>, x.pc = "work", x'.pc = "work",
             late' = late \/ late'.pc # "release"
      PROVE  Whole'
  <2>1. Kept' /\ (Releasing' => Releasing /\ late' = late)
    BY <1>2, StatesKeep DEF Whole, Releasing
  <2> QED BY <1>2, <2>1 DEF Whole
<1>3. ASSUME w[p].pc # "idle" PROVE x.pc = "work"
  BY <1>1, <1>3 DEF FrameInv, Control, WorkerOK
<1>4. ASSUME CheckAccount(p) \/ CheckOwner(p) \/ Credential(p) \/ Answer(p) \/ After(p) \/ Timeout(p)
      PROVE  Whole'
  <2>1. Thinking(p, w'[p])
    BY <1>1, <1>4, CheckAccountThinks, CheckOwnerThinks, CredentialThinks, AnswerThinks, AfterThinks,
       TimeoutThinks
  <2>2. late' = late \/ late'.pc # "release"
    BY <1>4 DEF CheckAccount, CheckOwner, Credential, Answer, After, Timeout
  <2> QED BY <1>2, <1>3, <2>1, <2>2 DEF Thinking, Working
<1>5. ASSUME NEW j \in Jobs, StartJob(p, j) PROVE Whole'
  <2>1. UNCHANGED <<jobs, late, kept, ended>> /\ x.pc = "work" /\ x' = [x EXCEPT !.left = @ \ {j}]
    BY <1>5 DEF StartJob, stored, history
  <2>2. x'.pc = "work"
    BY <1>1, <2>1, OperationFacts DEF Operation
  <2> QED BY <1>2, <2>1, <2>2
<1>6. CASE Enter(p)
  <2>1. Working(p, w'[p]) /\ UNCHANGED <<jobs, kept, ended, late>>
    BY <1>1, <1>6, EnterWorks
  <2> QED BY <1>2, <1>3, <2>1 DEF Working
<1>7. ASSUME Mutates(p) PROVE Whole'
  BY <1>1, <1>7, MutationsWrite, WritingWhole DEF Mutated
<1> QED BY <1>4, <1>5, <1>6, <1>7 DEF AttemptStep, Mutates
(* The operations of the exclusive chain.                                   *)
Rewrites(gone, made) ==
    /\ gone \subseteq Jobs /\ made \subseteq Jobs /\ made \cap (ended \cup gone) = {}
    /\ ended' = ended \cup gone /\ kept' = kept \cup made
    /\ \A k \in gone : jobs'[k].state = "absent"
    /\ \A k \in made : jobs'[k].state # "absent"
    /\ \A k \in Jobs \ (gone \cup made) : jobs'[k].state = "absent" <=> jobs[k].state = "absent"

LEMMA RewritingKept ==
    ASSUME Kept, NEW gone, NEW made, Rewrites(gone, made)
    PROVE  Kept'
<1> USE DEF Rewrites
<1>1. CapturesKept'
  <2> SUFFICES ASSUME NEW k \in kept' \ ended' PROVE k \in Present(jobs')
    BY DEF CapturesKept
  <2>1. CASE k \in made
    BY <2>1 DEF Present
  <2>2. CASE k \notin made
    <3>1. k \in kept \ ended /\ k \notin gone
      BY <2>2
    <3>2. k \in Present(jobs)
      BY <3>1 DEF Kept, CapturesKept
    <3> QED BY <2>2, <3>1, <3>2 DEF Present
  <2> QED BY <2>1, <2>2
<1>2. NoResurrection'
  <2> SUFFICES ASSUME NEW k \in ended', k \in Present(jobs') PROVE FALSE
    BY DEF NoResurrection
  <2>1. k \in Jobs /\ jobs'[k].state # "absent" /\ k \notin gone /\ k \in ended
    BY DEF Present
  <2>2. k \in Present(jobs)
    BY <2>1 DEF Present
  <2> QED BY <2>1, <2>2 DEF Kept, NoResurrection
<1> QED BY <1>1, <1>2 DEF Kept

LEMMA TakeAwake ==
    ASSUME FrameInv, Awake, Take
    PROVE  Awake'
<1>1. /\ Operating /\ x.pc = "idle" /\ requests # <<>> /\ requests' = Tail(requests)
      /\ x'.seen = jobs /\ x'.request = Head(requests) /\ x'.pc \in {"account", "write"}
      /\ UNCHANGED <<jobs, sched, kept, ended>>
  BY TakeOperates
<1>2. /\ Ready(Exclusive) /\ UNCHANGED <<alarm, worker>>
      /\ x' = [NoOperation EXCEPT !.request = Head(requests), !.seen = jobs,
                                  !.pc = IF Head(requests).kind \in Recoveries
                                         THEN "account" ELSE "write"]
  BY DEF Take, stored, Recoveries
<1>3. x'.pc = IF Head(requests).kind \in Recoveries THEN "account" ELSE "write"
  BY <1>2 DEF NoOperation
<1>4. Recovering => Recovering'
  <2> SUFFICES ASSUME Recovering, x'.pc # "account" PROVE RecoveryIn(requests')
    BY DEF Recovering
  <2>1. PICK i \in DOMAIN requests : requests[i].kind \in Recoveries
    BY <1>1 DEF Recovering, RecoveryIn
  <2>2. requests \in Seq(Good) /\ requests # <<>>
    BY <1>1, OutsideFacts
  <2>3. /\ DOMAIN requests = 1 .. Len(requests) /\ Len(requests) \in Nat /\ Head(requests) = requests[1]
        /\ Len(Tail(requests)) = Len(requests) - 1 /\ DOMAIN Tail(requests) = 1 .. Len(Tail(requests))
        /\ \A k \in 1 .. Len(Tail(requests)) : Tail(requests)[k] = requests[k + 1]
    BY <2>2
  <2>4. i # 1
    BY <1>3, <2>1, <2>3
  <2>5. i - 1 \in 1 .. Len(Tail(requests)) /\ (i - 1) + 1 = i
    BY <2>1, <2>3, <2>4
  <2>6. Tail(requests)[i - 1] = requests[i] /\ i - 1 \in DOMAIN Tail(requests)
    BY <2>3, <2>5
  <2> QED BY <1>1, <2>1, <2>6 DEF RecoveryIn
<1> QED BY <1>1, <1>2, <1>3, <1>4, OperatingAwake

LEMMA ReadAccountAwake ==
    ASSUME FrameInv, Awake, ReadAccount
    PROVE  Awake'
<1>1. /\ Operating /\ x.pc = "account" /\ x'.pc = "write" /\ x'.seen = x.seen
      /\ x'.request = x.request /\ UNCHANGED <<jobs, sched>>
  BY ReadAccountOperates
<1>2. Ready(Exclusive) /\ UNCHANGED <<alarm, worker>>
  BY DEF ReadAccount, stored
<1>3. Recovering'
  BY <1>1 DEF Awake, Armed, Recovering
<1> QED BY <1>1, <1>2, <1>3, OperatingAwake

LEMMA EndWorkAwake ==
    ASSUME FrameInv, Awake, EndWork
    PROVE  Awake'
<1>1. /\ Operating /\ x'.pc = "done" /\ sched' = [sched EXCEPT ![Exclusive] = "read"]
      /\ jobs' = jobs
  BY EndWorkOperates
<1>2. Ready(Exclusive) /\ UNCHANGED <<alarm, worker>>
  BY DEF EndWork, stored
<1> QED BY <1>1, <1>2, OperatingAwake

LEMMA FinishAwake ==
    ASSUME FrameInv, Awake, Finish
    PROVE  Awake'
<1>1. /\ Operating /\ x.pc = "done" /\ x'.pc = "idle" /\ UNCHANGED <<jobs, sched>>
  BY FinishOperates
<1>2. Ready(Exclusive) /\ UNCHANGED <<alarm, worker>>
  BY DEF Finish, stored
<1>3. RecoveryIn(requests) => RecoveryIn(requests')
  <2> DEFINE j == x.request.job
             r == Ask("enqueued", j, None)
  <2>1. /\ requests \in Seq(Good)
        /\ requests' = requests \/ (j \in kept /\ requests' = Append(requests, r))
    BY OutsideFacts DEF Finish
  <2>2. j \in kept => r \in Good
    BY AskGood DEF Kinds, FrameInv, HistoryTypes
  <2> HIDE DEF r
  <2> QED BY <2>1, <2>2, AppendAsks
<1>4. Recovering => Recovering'
  BY <1>1, <1>3 DEF Recovering
<1> QED BY <1>1, <1>2, <1>4, OperatingAwake

(* A write of what the operation read, or none.  What it read waits if what  *)
(* is stored does, though it may be older than a late release.               *)
LEMMA WriteAwake ==
    ASSUME FrameInv, Awake, Operating, Ready(Exclusive), UNCHANGED <<alarm, worker>>,
           x'.pc \in {"work", "done"}, x.pc = "write",
           \/ /\ sched' = [sched EXCEPT ![Exclusive] = "read"]
              /\ Waking(x.seen) # {} => Waking(jobs') # {}
           \/ jobs' = jobs /\ sched' = sched /\ requests' = requests /\ x.request.kind \notin Recoveries
    PROVE  Awake'
<1>1. Waking(jobs) # {} => Waking(x.seen) # {}
  BY DEF Awake, Followed, Alive, Waking
<1>2. requests' = requests /\ x.request.kind \notin Recoveries /\ Recovering => Recovering'
  BY DEF Recovering
<1> QED BY <1>1, <1>2, OperatingAwake

LEMMA RetryAwake ==
    ASSUME FrameInv, Awake, Retry
    PROVE  Awake'
<1>1. PICK j : j = x.request.job
  OBVIOUS
<1>2. /\ Operating /\ x.pc = "write" /\ x'.pc = "done" /\ j \in Jobs
      /\ x.request.kind = "retry" /\ requests' = requests
      /\ \/ UNCHANGED <<jobs, sched>>
         \/ /\ jobs' = [x.seen EXCEPT ![j] = Retried(x.seen[j])]
            /\ sched' = [sched EXCEPT ![Exclusive] = "read"]
  BY <1>1, RetryOperates
<1>3. Ready(Exclusive) /\ UNCHANGED <<alarm, worker>>
  BY DEF Retry, Operate, Keep
<1>4. ASSUME jobs' = [x.seen EXCEPT ![j] = Retried(x.seen[j])] PROVE Waking(jobs') # {}
  <2>1. x.seen \in Queue /\ x.seen[j] \in Row
    BY <1>2, OperationFacts DEF Queue
  <2>2. jobs'[j].state = "pending"
    BY <1>2, <1>4, <2>1, RowRetried DEF Queue
  <2> QED BY <1>2, <2>2 DEF Waking
<1> QED BY <1>2, <1>3, <1>4, WriteAwake DEF Recoveries

LEMMA DiscardAwake ==
    ASSUME FrameInv, Awake, Discard
    PROVE  Awake'
<1>1. PICK j : j = x.request.job
  OBVIOUS
<1>2. /\ Operating /\ x.pc = "write" /\ x'.pc = "done" /\ j \in Jobs
      /\ x.request.kind = "discard" /\ requests' = requests
      /\ \/ UNCHANGED <<jobs, sched>>
         \/ /\ jobs' = [x.seen EXCEPT ![j] = NoRow] /\ Terminal(x.seen[j])
            /\ sched' = [sched EXCEPT ![Exclusive] = "read"]
  BY <1>1, DiscardOperates
<1>3. Ready(Exclusive) /\ UNCHANGED <<alarm, worker>>
  BY DEF Discard, Operate, Keep
<1>4. ASSUME jobs' = [x.seen EXCEPT ![j] = NoRow], Terminal(x.seen[j])
      PROVE  Waking(x.seen) \subseteq Waking(jobs')
  <2>1. x.seen \in Queue
    BY OperationFacts
  <2>2. \A k \in Jobs \ {j} : jobs'[k] = x.seen[k]
    BY <1>2, <1>4, <2>1 DEF Queue
  <2> QED BY <1>2, <1>4, <2>2 DEF Waking, Terminal
<1> QED BY <1>2, <1>3, <1>4, WriteAwake DEF Recoveries

(* An admission evicts for a save of an account alone, and that save waits.  *)
LEMMA EnqueueWakes ==
    ASSUME FrameInv, Enqueue, NEW j \in Jobs, j = x.request.job, capture[j] \in Contexts,
           x.seen[j].state = "absent", jobs' # jobs, Waking(x.seen) # {}
    PROVE  Waking(jobs') # {}
<1> DEFINE owner == Admitted(capture[j]).owner
           retained == Without(x.seen, ExpiredIn(x.seen))
           made == Admitted(capture[j])
<1>1. PICK gone \in (IF Cardinality(Present(retained)) < scope.queue THEN {{}}
                     ELSE {{k} : k \in Evictable(retained, owner)}) :
           jobs' = [Without(retained, gone) EXCEPT ![j] = made]
  BY DEF Enqueue, Write, Leave
<1>2. CASE capture[j][2] = None
  <2>1. owner = None
    BY <1>2, RowAdmitted DEF Contexts
  <2>2. gone = {}
    BY <1>1, <2>1 DEF Evictable
  <2>3. PICK k \in Jobs : x.seen[k].state \in {"pending", "processing"}
    BY DEF Waking
  <2>4. k # j /\ k \notin ExpiredIn(x.seen)
    BY <2>3 DEF ExpiredIn, Expired, Terminal
  <2>5. retained[k] = x.seen[k]
    BY <2>4 DEF Without
  <2>6. Without(retained, gone)[k] = x.seen[k]
    BY <2>2, <2>5 DEF Without
  <2>7. jobs'[k] = x.seen[k]
    BY <1>1, <2>4, <2>6 DEF Without
  <2> QED BY <2>3, <2>7 DEF Waking
<1>3. CASE capture[j][2] # None
  <2>1. made.state = "pending"
    BY <1>3, RowAdmitted DEF Contexts
  <2>2. jobs'[j] = made
    BY <1>1 DEF Without
  <2> QED BY <2>1, <2>2 DEF Waking
<1> QED BY <1>2, <1>3

LEMMA EnqueueAwake ==
    ASSUME Inv, Awake, Enqueue
    PROVE  Awake'
<1>0. FrameInv /\ AsksOK
  BY DEF Inv, QueueInv
<1>1. PICK j : j = x.request.job
  OBVIOUS
<1>2. /\ Operating /\ x.pc = "write" /\ x'.pc = "done" /\ j \in Jobs /\ capture[j] \in Contexts
      /\ x.request.kind = "enqueue" /\ UNCHANGED requests
      /\ \/ UNCHANGED <<jobs, sched>>
         \/ sched' = [sched EXCEPT ![Exclusive] = "read"]
  BY <1>0, <1>1, EnqueueOperates DEF Admits
<1>3. Ready(Exclusive) /\ UNCHANGED <<alarm, worker>>
  BY DEF Enqueue, Operate, Keep
<1>4. x.seen[j].state = "absent"
  <2>1. Ahead(j)
    BY <1>1, <1>2 DEF Admitting, Enqueues, Ahead
  <2> QED BY <1>2, <2>1 DEF Inv, QueueInv, RowsOK, RowOK
<1>5. Waking(x.seen) # {} /\ jobs' # jobs => Waking(jobs') # {}
  BY <1>0, <1>1, <1>2, <1>4, EnqueueWakes
<1>6. Waking(jobs) # {} => Waking(jobs') # {}
  <2>1. Waking(jobs) # {} => Waking(x.seen) # {}
    BY <1>2 DEF Awake, Followed, Alive, Waking
  <2>2. jobs' = jobs => Waking(jobs') = Waking(jobs)
    OBVIOUS
  <2> QED BY <1>5, <2>1, <2>2
<1>7. UNCHANGED <<jobs, sched>> => (Recovering => Recovering')
  BY <1>2 DEF Recovering, Recoveries
<1> QED BY <1>0, <1>2, <1>3, <1>6, <1>7, OperatingAwake

LEMMA RecoverAwake ==
    ASSUME FrameInv, Awake, Recover
    PROVE  Awake'
<1>1. /\ Operating /\ x.pc = "write" /\ x'.pc = "work"
      /\ jobs' = (IF RecoveredQueue # x.seen THEN RecoveredQueue ELSE jobs)
      /\ sched' = [sched EXCEPT ![Exclusive] = "read"]
  BY RecoverOperates
<1>2. Ready(Exclusive) /\ UNCHANGED <<alarm, worker>>
  BY DEF Recover, Keep
<1>3. Waking(x.seen) \subseteq Waking(RecoveredQueue)
  <2> SUFFICES ASSUME NEW k \in Jobs, x.seen[k].state \in {"pending", "processing"}
               PROVE  RecoveredQueue[k].state \in {"pending", "processing"}
    BY DEF Waking
  <2>1. x.seen[k] \in Row /\ ~Expired(x.seen[k])
    BY OperationFacts DEF Queue, Expired, Terminal
  <2>2. ASSUME NEW row \in Row, row.state \in {"pending", "processing"}, ~Expired(row)
        PROVE  Recovered(row, x.request.kind, x.known).state \in {"pending", "processing"}
    BY <2>2 DEF Recovered, Row
  <2> QED BY <2>1, <2>2 DEF RecoveredQueue
<1>4. Waking(jobs) # {} => Waking(x.seen) # {}
  BY <1>1 DEF Awake, Followed, Alive, Waking
<1>5. Waking(jobs) # {} => Waking(jobs') # {}
  <2>1. RecoveredQueue = x.seen => jobs' = jobs
    BY <1>1
  <2>2. RecoveredQueue # x.seen => jobs' = RecoveredQueue
    BY <1>1
  <2>3. jobs' = jobs => Waking(jobs') = Waking(jobs)
    OBVIOUS
  <2>4. jobs' = RecoveredQueue => Waking(jobs') = Waking(RecoveredQueue)
    BY DEF Waking
  <2> QED BY <1>3, <1>4, <2>1, <2>2, <2>3, <2>4
<1> QED BY <1>1, <1>2, <1>5, OperatingAwake
(* A late release writes a save that waits, and no one who clears the alarm  *)
(* has read the queue before it: the save waited already.                    *)
LEMMA LateAwake ==
    ASSUME FrameInv, Awake, LateStep
    PROVE  Awake'
<1>1. CASE LateAnswer
  <2>1. late' = [late EXCEPT !.upload = "over"] /\ UNCHANGED <<jobs, requests, x, w, chain, sched, alarm, worker>>
    BY <1>1, LateAnswerMoves DEF LateAnswer, stored
  <2>2. late \in LateAttempt
    BY DEF FrameInv, RunningTypes
  <2>3. late'.pc = late.pc /\ late'.seen = late.seen /\ late'.job = late.job
    BY <2>1, <2>2 DEF LateAttempt
  <2>4. Turned' /\ LateWakes' /\ Followed'
    BY <2>1, <2>3 DEF Awake, Turned, LateWakes, Releasing, Followed, Alive
  <2>5. Armed'
    BY <2>1 DEF Awake, Armed, Minded, Recovering
  <2> QED BY <2>4, <2>5 DEF Awake
<1>2. CASE LateEnter
  <2>1. /\ late' = [late EXCEPT !.pc = "release", !.seen = jobs] /\ late.pc = "upload"
        /\ chain = None /\ chain' = Late /\ UNCHANGED <<jobs, requests, x, w, sched, alarm, worker>>
    BY <1>2, LateEnterMoves DEF LateEnter, stored
  <2>2. late \in LateAttempt /\ late.job \in Jobs
    BY <2>1 DEF FrameInv, RunningTypes, Control, LateOK
  <2>3. late'.seen = jobs /\ late'.job = late.job /\ sched[Late] = "no"
    BY <1>2, <2>1, <2>2 DEF LateAttempt, LateEnter, Ready
  <2>4. Turned'
    BY <2>1, <2>3, ProcessFacts DEF Awake, Turned
  <2>5. LateWakes'
    BY <2>1, <2>2, <2>3 DEF LateWakes, Releasing, Waking
  <2>6. Followed'
    BY <2>1 DEF Awake, Followed, Alive
  <2>7. Armed'
    BY <2>1 DEF Awake, Armed, Minded, Recovering
  <2> QED BY <2>4, <2>5, <2>6, <2>7 DEF Awake
<1>3. CASE LateRelease
  <2>1. /\ late' = NoLate /\ late.pc = "release" /\ chain = Late /\ late.job \in Jobs
        /\ UNCHANGED <<requests, x, w, alarm, worker>> /\ worker = "up" /\ sched[Late] = "no"
        /\ \/ jobs' = jobs /\ chain' = None /\ sched' = sched
           \/ /\ jobs' = [late.seen EXCEPT ![late.job] = Backoff(late.seen[late.job])]
              /\ Releasing /\ sched' = [sched EXCEPT ![Late] = "read"] /\ chain' = chain
    BY <1>3, LateReleaseMoves DEF LateRelease, Ready, Holds, Releasing, Reschedule, chains
  <2>2. late'.pc = "idle"
    BY <2>1 DEF NoLate
  <2>3. CASE jobs' = jobs /\ chain' = None /\ sched' = sched
    <3>1. \A p \in Workers : sched[p] = "no"
      BY <2>1, ProcessFacts DEF Awake, Turned
    <3>2. Turned'
      BY <2>1, <2>3, <3>1, ProcessFacts DEF Awake, Turned
    <3>3. LateWakes'
      BY <2>1, <2>2, <2>3 DEF LateWakes, Releasing
    <3>4. Followed'
      BY <2>1, <2>2, <2>3 DEF Awake, Followed, Alive
    <3>5. Armed'
      BY <2>1, <2>3 DEF Awake, Armed, Minded, Recovering
    <3> QED BY <3>2, <3>3, <3>4, <3>5 DEF Awake
  <2>4. CASE /\ jobs' = [late.seen EXCEPT ![late.job] = Backoff(late.seen[late.job])]
             /\ Releasing /\ sched' = [sched EXCEPT ![Late] = "read"] /\ chain' = chain
    <3>1. late.seen \in Queue /\ late.seen[late.job] \in Row
      BY <2>1 DEF FrameInv, RunningTypes, LateAttempt, Queue
    <3>2. jobs'[late.job].state = "pending"
      BY <2>1, <2>4, <3>1, RowBackedOff DEF Queue
    <3>3. Waking(jobs') # {} /\ Waking(jobs) # {}
      BY <2>1, <2>4, <3>2 DEF Awake, LateWakes, Waking
    <3>4. sched'[Late] = "read" /\ \A q \in Processes \ {Late} : sched'[q] = sched[q]
      BY <2>4, ProcessFacts
    <3>5. Turned'
      BY <2>1, <2>4, <3>4, ProcessFacts DEF Awake, Turned
    <3>6. LateWakes'
      BY <3>3, <3>4 DEF LateWakes
    <3>7. Followed'
      BY <2>1, <2>2, <3>3 DEF Awake, Followed, Alive, Waking
    <3>8. \A q \in Processes : sched'[q] # "clear"
      BY <3>3, <3>4 DEF Awake, Armed
    <3>9. Armed'
      BY <2>1, <3>4, <3>8, ProcessFacts DEF Awake, Armed, Minded
    <3> QED BY <3>5, <3>6, <3>7, <3>9 DEF Awake
  <2> QED BY <2>1, <2>3, <2>4
<1> QED BY <1>1, <1>2, <1>3 DEF LateStep

(* The wake-up, the user, the clock and the browser.                        *)
LEMMA ScheduleReadArmed ==
    ASSUME FrameInv, Armed, NEW p \in Processes, ScheduleRead(p)
    PROVE  Armed'
<1>1. /\ UNCHANGED <<jobs, alarm, worker, requests, x>> /\ worker = "up"
      /\ sched' = [sched EXCEPT ![p] = IF Waking(jobs) # {} THEN "arm" ELSE "clear"]
  BY DEF ScheduleRead, stored, chains
<1>2. sched \in [Processes -> {"no", "read", "arm", "clear"}] /\ Waking(jobs') = Waking(jobs)
  BY <1>1 DEF FrameInv, RunningTypes
<1>3. \A q \in Processes : sched'[q] = "clear" => Waking(jobs) = {}
  BY <1>1, <1>2 DEF Armed
<1>4. Waking(jobs) # {} => sched'[p] = "arm"
  BY <1>1, <1>2
<1> QED BY <1>1, <1>2, <1>3, <1>4 DEF Armed, Minded

LEMMA ScheduleAlarmArmed ==
    ASSUME FrameInv, Armed, NEW p \in Processes, ScheduleAlarm(p)
    PROVE  Armed'
<1>1. /\ UNCHANGED <<jobs, worker, requests, x>> /\ worker = "up"
      /\ sched[p] \in {"arm", "clear"} /\ alarm' = (sched[p] = "arm")
      /\ sched' = [sched EXCEPT ![p] = "no"]
  BY DEF ScheduleAlarm, chains
<1>2. sched \in [Processes -> {"no", "read", "arm", "clear"}] /\ Waking(jobs') = Waking(jobs)
  BY <1>1 DEF FrameInv, RunningTypes
<1>3. \A q \in Processes : sched'[q] = "clear" => Waking(jobs) = {}
  BY <1>1, <1>2 DEF Armed
<1>4. Waking(jobs) # {} => alarm'
  BY <1>1 DEF Armed
<1> QED BY <1>1, <1>2, <1>3, <1>4 DEF Armed, Minded

(* What the user, the clock or a prompt does wakes nothing and asks for more. *)
LEMMA AskedArmed ==
    ASSUME FrameInv, Armed,
           \/ \E j \in Jobs : Prompted(j) \/ CaptureSave(j) \/ Due(j) \/ Age(j)
                              \/ AskFor("retry", j) \/ AskFor("discard", j)
           \/ SignOut \/ (\E u \in Users : SignIn(u)) \/ \E i \in Instances : SetInstance(i)
    PROVE  Armed'
<1>1. requests \in Seq(Good) /\ jobs \in Queue
  BY OutsideFacts
<1>2. ASSUME NEW j \in Jobs, Prompted(j) PROVE Armed'
  <2> DEFINE r == Ask("enqueued", j, None)
  <2>1. /\ UNCHANGED <<jobs, alarm, sched, x, worker>>
        /\ requests' = requests \/ requests' = Append(requests, r)
    BY <1>2 DEF Prompted, stored, running
  <2>2. r \in Good
    BY AskGood DEF Kinds
  <2> HIDE DEF r
  <2>3. RecoveryIn(requests) => RecoveryIn(requests')
    BY <1>1, <2>1, <2>2, AppendAsks
  <2> QED BY <2>1, <2>3, AskingArmed
<1>3. ASSUME NEW j \in Jobs, CaptureSave(j) PROVE Armed'
  <2> DEFINE r == Ask("enqueue", j, None)
  <2>1. /\ UNCHANGED <<jobs, alarm, sched, x, worker>> /\ requests' = Append(requests, r)
    BY <1>3 DEF CaptureSave, Still, stored, running
  <2>2. r \in Good
    BY AskGood DEF Kinds
  <2> HIDE DEF r
  <2>3. RecoveryIn(requests) => RecoveryIn(requests')
    BY <1>1, <2>1, <2>2, AppendAsks
  <2> QED BY <2>1, <2>3, AskingArmed
<1>4. ASSUME NEW j \in Jobs, Due(j) \/ Age(j) PROVE Armed'
  <2>1. UNCHANGED <<alarm, sched, x, worker, requests>>
    BY <1>4 DEF Due, Age, chains, running
  <2>2. \A k \in Jobs : jobs'[k].state = jobs[k].state
    <3>1. Around
      BY <1>4, DueAround, AgeAround
    <3> QED BY <3>1 DEF Around, Outside, Alike
  <2> QED BY <2>1, <2>2, AskingArmed
<1>5. ASSUME NEW kind \in {"retry", "discard"}, NEW j \in Jobs, AskFor(kind, j) PROVE Armed'
  <2> DEFINE r == Ask(kind, j, Authority)
  <2>1. UNCHANGED <<jobs, alarm, sched, x, worker>> /\ Publish(<<r>>)
    BY <1>5 DEF AskFor, Still, stored, running
  <2>2. r \in Good
    <3>1. Authority \in Accounts \cup {None}
      BY OutsideFacts DEF Authority, Accounts
    <3> QED BY <3>1, AskGood DEF Kinds
  <2> HIDE DEF r
  <2>3. RecoveryIn(requests) => RecoveryIn(requests')
    BY <1>1, <2>1, <2>2, PublishAsks
  <2> QED BY <2>1, <2>3, AskingArmed
<1>6. ASSUME NEW i, NEW u, NEW asked, Connect(i, u, asked),
             RecoveryIn(requests) => RecoveryIn(asked)
      PROVE  Armed'
  <2>1. UNCHANGED <<jobs, alarm, sched, x, worker>> /\ requests' = asked
    BY <1>6 DEF Connect, Still, stored, running
  <2> QED BY <1>6, <2>1, AskingArmed
<1>7. RecoveryIn(requests) => RecoveryIn(Append(requests, Startup))
  BY <1>1, GoodFacts, AppendAsks
<1>8. ASSUME SignOut PROVE Armed'
  BY <1>6, <1>8 DEF SignOut
<1>9. ASSUME NEW u \in Users, SignIn(u) PROVE Armed'
  BY <1>6, <1>7, <1>9 DEF SignIn
<1>10. ASSUME NEW i \in Instances, SetInstance(i) PROVE Armed'
  BY <1>6, <1>10 DEF SetInstance
<1> QED BY <1>2, <1>3, <1>4, <1>5, <1>8, <1>9, <1>10

LEMMA WakingArmed ==
    ASSUME FrameInv, Armed, AlarmFires \/ StartWorker
    PROVE  Armed'
<1>1. UNCHANGED <<jobs, sched, x>> /\ worker' = "up"
  BY DEF AlarmFires, StartWorker, stored, running
<1>2. RecoveryIn(requests')
  <2>1. CASE StartWorker
    <3>1. requests' = <<Startup, Startup>> \/ requests' = <<Startup>>
      BY <2>1 DEF StartWorker
    <3>2. 1 \in DOMAIN requests' /\ requests'[1] = Startup
      BY <3>1
    <3> QED BY <3>2, GoodFacts DEF RecoveryIn, Recoveries
  <2>2. CASE AlarmFires
    <3> DEFINE base == IF worker = "up" THEN requests ELSE <<Startup>>
               r == Ask("alarm", None, None)
    <3>1. requests' = base \o <<r>>
      BY <2>2 DEF AlarmFires
    <3>2. r \in Good /\ r.kind = "alarm"
      BY GoodFacts
    <3>3. base \in Seq(Good)
      <4>1. Startup \in Good
        BY GoodFacts
      <4>2. <<Startup>> \in Seq(Good)
        BY <4>1
      <4> QED BY <4>2, OutsideFacts
    <3> HIDE DEF base, r
    <3>4. base \o <<r>> = Append(base, r)
      BY <3>2, <3>3
    <3> QED BY <3>1, <3>2, <3>3, <3>4, AppendAsks DEF Recoveries
  <2> QED BY <2>1, <2>2
<1> QED BY <1>1, <1>2 DEF Armed, Minded, Recovering

LEMMA AskedOutside ==
    ASSUME FrameInv,
           \/ \E j \in Jobs : Prompted(j) \/ CaptureSave(j) \/ Due(j) \/ Age(j)
                              \/ AskFor("retry", j) \/ AskFor("discard", j)
           \/ SignOut \/ (\E u \in Users : SignIn(u)) \/ \E i \in Instances : SetInstance(i)
    PROVE  Outside
<1>1. ASSUME NEW j \in Jobs, Prompted(j) \/ Due(j) \/ Age(j) PROVE Outside
  BY <1>1, PromptedAround, DueAround, AgeAround DEF Around
<1>2. ASSUME NEW j \in Jobs, CaptureSave(j) PROVE Outside
  BY <1>2, CaptureOutside
<1>3. ASSUME NEW j \in Jobs, AskFor("retry", j) \/ AskFor("discard", j) PROVE Outside
  BY <1>3, AskForAround DEF Around
<1>4. ASSUME SignOut PROVE Outside
  BY <1>4, SignOutAround DEF Around
<1>5. ASSUME NEW u \in Users, SignIn(u) PROVE Outside
  BY <1>5, SignInAround DEF Around
<1>6. ASSUME NEW i \in Instances, SetInstance(i) PROVE Outside
  BY <1>6, SetInstanceAround DEF Around
<1> QED BY <1>1, <1>2, <1>3, <1>4, <1>5, <1>6

(* A worker that is suspended or ended forgets what it was doing, but the    *)
(* queue and the alarm stay; one that is suspended had nothing to do.        *)
LEMMA ForgottenFacts ==
    ASSUME Suspend \/ Exit
    PROVE  /\ UNCHANGED <<jobs, alarm, kept, ended>> /\ x'.pc = "idle" /\ late'.pc = "idle"
           /\ \A q \in Processes : sched'[q] = "no"
<1>1. /\ UNCHANGED <<jobs, alarm, kept, ended>> /\ x' = NoOperation /\ late' = NoLate
      /\ sched' = [p \in Processes |-> "no"]
  BY DEF Suspend, Exit, Forget, stored, history
<1> QED BY <1>1 DEF NoOperation, NoLate

LEMMA ForgettingAwake ==
    ASSUME FrameInv, Awake, Suspend \/ Exit
    PROVE  Awake'
<1>1. /\ UNCHANGED <<jobs, alarm>> /\ x'.pc = "idle" /\ late'.pc = "idle"
      /\ \A q \in Processes : sched'[q] = "no"
  BY ForgottenFacts
<1>2. Turned' /\ LateWakes' /\ Followed'
  BY <1>1, ProcessFacts DEF Turned, LateWakes, Releasing, Followed
<1>3. worker' = "exited" \/ (Waking(jobs) # {} => alarm)
  <2>1. CASE Exit
    BY <2>1 DEF Exit
  <2>2. CASE Suspend
    <3>1. /\ worker = "up" /\ requests = <<>> /\ x.pc = "idle" /\ \A p \in Processes : sched[p] = "no"
      BY <2>2 DEF Suspend
    <3>2. ~RecoveryIn(requests)
      BY <3>1 DEF RecoveryIn
    <3> QED BY <3>1, <3>2 DEF Awake, Armed, Minded, Recovering
  <2> QED BY <2>1, <2>2
<1>4. Armed'
  BY <1>1, <1>3 DEF Armed, Minded
<1> QED BY <1>2, <1>4 DEF Awake

LEMMA InitAwake == Init => Awake
<1> SUFFICES ASSUME Init PROVE Awake
  OBVIOUS
<1>1. /\ jobs = NoQueue /\ x = NoOperation /\ late = NoLate /\ worker = "up"
      /\ sched = [p \in Processes |-> "no"]
  BY DEF Init
<1>2. x.pc = "idle" /\ late.pc = "idle" /\ FrameInv
  BY <1>1, InitFrame DEF NoOperation, NoLate
<1>3. \A q \in Processes : sched[q] = "no"
  BY <1>1
<1>4. Waking(jobs) = {}
  BY <1>1, NoRowMade DEF Waking, NoQueue
<1> QED BY <1>1, <1>2, <1>3, <1>4, ProcessFacts DEF Awake, Turned, LateWakes, Releasing, Followed, Armed

LEMMA NextAwake == Inv /\ Awake /\ [Next]_vars => Awake'
<1> SUFFICES ASSUME Inv, Awake, [Next]_vars PROVE Awake'
  OBVIOUS
<1>1. FrameInv /\ Turned /\ LateWakes /\ Followed /\ Armed
  BY DEF Inv, Awake
<1>2. CASE ExclusiveStep
  BY <1>1, <1>2, TakeAwake, ReadAccountAwake, RecoverAwake, EndWorkAwake, FinishAwake, EnqueueAwake,
     RetryAwake, DiscardAwake DEF ExclusiveStep
<1>3. CASE LateStep
  BY <1>1, <1>3, LateAwake
<1>4. ASSUME NEW p \in Workers, AttemptStep(p) \/ Timeout(p) PROVE Awake'
  BY <1>1, <1>4, AttemptAwake
<1>5. ASSUME NEW p \in Processes, Scheduling(p) PROVE Awake'
  <2>1. Outside
    BY <1>1, <1>5, ScheduleReadAround, ScheduleAlarmAround DEF Scheduling, Around
  <2>2. Armed'
    BY <1>1, <1>5, ScheduleReadArmed, ScheduleAlarmArmed DEF Scheduling
  <2>3. sched'[Late] # "clear"
    BY <1>1, <1>5, ProcessFacts DEF Scheduling, ScheduleRead, ScheduleAlarm, LateWakes
  <2> QED BY <1>1, <2>1, <2>2, <2>3, OutsideAwake DEF Awake
<1>6. ASSUME \/ \E j \in Jobs : Prompted(j) \/ CaptureSave(j) \/ Due(j) \/ Age(j)
                                \/ AskFor("retry", j) \/ AskFor("discard", j)
             \/ SignOut \/ (\E u \in Users : SignIn(u)) \/ \E i \in Instances : SetInstance(i)
      PROVE  Awake'
  <2>1. Outside
    BY <1>1, <1>6, AskedOutside
  <2>2. Armed'
    BY <1>1, <1>6, AskedArmed
  <2>3. sched' = sched
    BY <1>6 DEF Prompted, CaptureSave, Due, Age, AskFor, SignOut, SignIn, SetInstance, Connect, Still, running
  <2> QED BY <1>1, <2>1, <2>2, <2>3, OutsideAwake DEF Awake, LateWakes
<1>7. CASE AlarmFires \/ StartWorker
  <2>1. Outside
    BY <1>1, <1>7, AlarmFiresAround, StartWorkerAround DEF Around
  <2>2. sched' = sched
    BY <1>7 DEF AlarmFires, StartWorker, running
  <2> QED BY <1>1, <1>7, <2>1, <2>2, OutsideAwake, WakingArmed DEF Awake, LateWakes
<1>8. CASE Suspend \/ Exit
  BY <1>1, <1>8, ForgettingAwake
<1>9. CASE UNCHANGED vars
  <2>1. UNCHANGED <<jobs, alarm, worker, requests, x, w, late, chain, sched>>
    BY <1>9 DEF vars, stored, chains, running
  <2>2. Armed'
    BY <1>1, <2>1, AskingArmed
  <2> QED BY <1>1, <2>1, <2>2 DEF Awake, Turned, LateWakes, Releasing, Followed, Alive
<1> QED BY <1>2, <1>3, <1>4, <1>5, <1>6, <1>7, <1>8, <1>9 DEF Next

LEMMA AwakeHolds == Spec => []Awake
<1> QED BY InvHolds, InitAwake, NextAwake, PTL DEF Spec

(* A worker is never suspended with a save that waits and no alarm to wake   *)
(* it: whoever clears the alarm has seen that nothing waits, nobody else can *)
(* make a save wait before it does, and whoever asks for a recovery keeps    *)
(* the worker up until that recovery has set the alarm.                      *)
THEOREM TheAlarmIsArmed == Spec => []AlarmArmed
<1>1. Awake => AlarmArmed
  BY DEF Awake, Armed, Minded, AlarmArmed
<1> QED BY <1>1, AwakeHolds, PTL
(* What is written back where attempts keep apart.                          *)
LEMMA StatesWhole ==
    ASSUME FrameInv, Whole, UNCHANGED <<late, kept, ended>>,
           \A j \in Jobs : jobs'[j].state = jobs[j].state,
           x'.pc \in {"account", "write"} =>
               x'.seen = jobs \/ (x.pc \in {"account", "write"} /\ x'.seen = x.seen)
    PROVE  Whole'
<1>1. Kept'
  BY StatesKeep DEF Whole
<1>2. Releasing' => Waits(jobs'[late'.job])
  BY DEF Whole, Releasing, Waits, FrameInv, Control, LateOK
<1>3. x'.pc \in {"account", "write"} => Close(x.seen)'
  BY DEF Whole, Close, Waits
<1> QED BY <1>1, <1>2, <1>3 DEF Whole

LEMMA RestingWhole ==
    ASSUME FrameInv, Whole, Take \/ ReadAccount \/ EndWork \/ Finish
    PROVE  Whole'
<1>1. CASE Take
  BY <1>1, TakeOperates, StatesWhole DEF Operating
<1>2. CASE ReadAccount
  BY <1>2, ReadAccountOperates, StatesWhole DEF Operating
<1>3. CASE EndWork
  BY <1>3, EndWorkOperates, StatesWhole DEF Operating
<1>4. CASE Finish
  BY <1>4, FinishOperates, StatesWhole DEF Operating
<1> QED BY <1>1, <1>2, <1>3, <1>4

(* An operation writes back what it read: a save that was released late, and *)
(* one about to be, waits in it as well.                                     *)
LEMMA RewritingWhole ==
    ASSUME Whole, Operating, x'.pc \in {"work", "done"}, NEW gone, NEW made, Rewrites(gone, made),
           Releasing => Waits(jobs'[late.job])
    PROVE  Whole'
<1>1. Kept'
  BY RewritingKept DEF Whole
<1> QED BY <1>1 DEF Whole, Operating, Releasing

LEMMA SeenClose ==
    ASSUME FrameInv, Whole, x.pc = "write"
    PROVE  /\ \A k \in Jobs : /\ x.seen[k] \in Row
                              /\ x.seen[k].state = "absent" <=> jobs[k].state = "absent"
           /\ Releasing => late.job \in Jobs /\ Waits(x.seen[late.job])
<1>1. \A k \in Jobs : x.seen[k] \in Row
  BY OperationFacts DEF Queue
<1>2. Close(x.seen)
  BY DEF Whole
<1>3. Releasing => late.job \in Jobs /\ Waits(jobs[late.job])
  BY DEF Whole, Releasing, FrameInv, Control, LateOK
<1> QED BY <1>1, <1>2, <1>3 DEF Close, Waits

LEMMA RetryWhole ==
    ASSUME FrameInv, Whole, Retry
    PROVE  Whole'
<1>1. PICK j : j = x.request.job
  OBVIOUS
<1>2. /\ Operating /\ x.pc = "write" /\ x'.pc = "done" /\ j \in Jobs /\ UNCHANGED <<kept, ended>>
      /\ \/ jobs' = jobs
         \/ jobs' = [x.seen EXCEPT ![j] = Retried(x.seen[j])] /\ Terminal(x.seen[j])
  BY <1>1, RetryOperates
<1>3. CASE jobs' = jobs
  BY <1>2, <1>3, StatesWhole DEF Operating
<1>4. CASE jobs' = [x.seen EXCEPT ![j] = Retried(x.seen[j])] /\ Terminal(x.seen[j])
  <2>1. /\ x.seen \in Queue /\ Retried(x.seen[j]).state = "pending"
        /\ x.seen[j].state # "absent" /\ ~Waits(x.seen[j])
    BY <1>2, <1>4, SeenClose, OperationFacts, RowRetried DEF Terminal, Waits
  <2>2. \A k \in Jobs : jobs'[k].state = "absent" <=> jobs[k].state = "absent"
    BY <1>2, <1>4, <2>1, SeenClose DEF Queue
  <2>3. Rewrites({}, {})
    BY <1>2, <2>2 DEF Rewrites
  <2>4. Releasing => Waits(jobs'[late.job])
    BY <1>2, <1>4, <2>1, SeenClose DEF Queue
  <2> QED BY <1>2, <2>3, <2>4, RewritingWhole
<1> QED BY <1>2, <1>3, <1>4

LEMMA DiscardWhole ==
    ASSUME FrameInv, Whole, Discard
    PROVE  Whole'
<1>1. PICK j : j = x.request.job
  OBVIOUS
<1>2. /\ Operating /\ x.pc = "write" /\ x'.pc = "done" /\ j \in Jobs /\ kept' = kept
      /\ \/ UNCHANGED <<jobs, ended>>
         \/ /\ jobs' = [x.seen EXCEPT ![j] = NoRow] /\ ended' = ended \cup {j}
            /\ Terminal(x.seen[j])
  BY <1>1, DiscardOperates
<1>3. CASE UNCHANGED <<jobs, ended>>
  BY <1>2, <1>3, StatesWhole DEF Operating
<1>4. CASE /\ jobs' = [x.seen EXCEPT ![j] = NoRow] /\ ended' = ended \cup {j}
           /\ Terminal(x.seen[j])
  <2>1. x.seen \in Queue /\ ~Waits(x.seen[j])
    BY <1>4, OperationFacts DEF Terminal, Waits
  <2>2. /\ jobs'[j].state = "absent"
        /\ \A k \in Jobs \ {j} : jobs'[k].state = "absent" <=> jobs[k].state = "absent"
    BY <1>2, <1>4, <2>1, SeenClose, NoRowMade DEF Queue
  <2>3. Rewrites({j}, {})
    BY <1>2, <1>4, <2>2 DEF Rewrites
  <2>4. Releasing => Waits(jobs'[late.job])
    BY <1>2, <1>4, <2>1, SeenClose DEF Queue
  <2> QED BY <1>2, <2>3, <2>4, RewritingWhole
<1> QED BY <1>2, <1>3, <1>4

(* What an admission makes of the queue.                                    *)
LEMMA AdmissionRewrites ==
    ASSUME Inv, Whole, Enqueue, NEW j, j = x.request.job, NEW gone \in SUBSET Jobs, Admits(gone)
    PROVE  Rewrites(gone, {j}) /\ jobs'[j].state \notin {"absent", "processing"}
<1>0. FrameInv /\ AsksOK
  BY DEF Inv, QueueInv
<1>1. /\ x.pc = "write" /\ j \in Jobs /\ capture[j] \in Contexts /\ x.request.kind = "enqueue"
  BY <1>0, EnqueueOperates
<1>2. Ahead(j)
  BY <1>1 DEF Admitting, Enqueues, Ahead
<1>3. j \notin ended /\ x.seen[j].state = "absent"
  BY <1>1, <1>2 DEF Inv, QueueInv, Early, RowsOK, RowOK
<1>4. jobs'[j].state \notin {"absent", "processing"}
  BY <1>1, RowAdmitted DEF Admits, Contexts
<1>5. j \notin gone /\ \A k \in gone : jobs'[k].state = "absent"
  BY <1>3, NoRowMade DEF Admits, Present
<1>6. \A k \in Jobs \ (gone \cup {j}) : jobs'[k].state = "absent" <=> jobs[k].state = "absent"
  BY <1>0, <1>1, SeenClose DEF Admits
<1>7. kept' = kept \cup {j} /\ ended' = ended \cup gone
  BY DEF Admits
<1> QED BY <1>1, <1>3, <1>4, <1>5, <1>6, <1>7 DEF Rewrites

(* An admission may evict a save that waits, but never the only capture's.  *)
LEMMA EnqueueWhole ==
    ASSUME Inv, Whole, late.pc = "idle" \/ Lone, Enqueue
    PROVE  Whole'
<1>0. FrameInv /\ AsksOK
  BY DEF Inv, QueueInv
<1>1. PICK j : j = x.request.job
  OBVIOUS
<1>2. /\ Operating /\ x.pc = "write" /\ x'.pc = "done" /\ j \in Jobs /\ capture[j] \in Contexts
      /\ x.request.kind = "enqueue"
      /\ \/ UNCHANGED <<jobs, kept, ended>>
         \/ \E gone \in SUBSET Jobs : Admits(gone)
  BY <1>0, <1>1, EnqueueOperates
<1>3. Admitting(j) /\ Ahead(j)
  BY <1>1, <1>2 DEF Admitting, Enqueues, Ahead
<1>4. j \notin ended /\ x.seen[j].state = "absent"
  BY <1>2, <1>3 DEF Inv, QueueInv, Early, RowsOK, RowOK
<1>5. ~Releasing
  <2> SUFFICES ASSUME Releasing PROVE FALSE
    OBVIOUS
  <2>1. PICK l : l = late.job
    OBVIOUS
  <2>2. l \in Jobs /\ Waits(x.seen[l]) /\ Lone
    BY <1>0, <1>2, <2>1, SeenClose DEF Releasing
  <2>3. capture[l] # None
    BY <1>2, <2>2 DEF Waits, Inv, QueueInv, RowsOK, RowOK, Ahead
  <2>4. capture[j] # None
    BY <1>2, ExtensionQueueAssumption DEF Contexts
  <2>5. l = j
    BY <1>2, <2>2, <2>3, <2>4 DEF Lone
  <2> QED BY <1>4, <2>2, <2>5 DEF Waits
<1>6. CASE UNCHANGED <<jobs, kept, ended>>
  BY <1>0, <1>2, <1>6, StatesWhole DEF Operating
<1>7. ASSUME NEW gone \in SUBSET Jobs, Admits(gone) PROVE Whole'
  <2>1. Rewrites(gone, {j})
    BY <1>1, <1>7, AdmissionRewrites
  <2> QED BY <1>2, <1>5, <2>1, RewritingWhole
<1> QED BY <1>2, <1>6, <1>7

(* What a recovery makes of it: it drops what has expired.                  *)
LEMMA RecoveryRewrites ==
    ASSUME FrameInv, Whole, Recover
    PROVE  Rewrites(ExpiredIn(x.seen), {})
<1>1. /\ Operating /\ x.pc = "write" /\ x'.pc = "work" /\ kept' = kept
      /\ jobs' = (IF RecoveredQueue # x.seen THEN RecoveredQueue ELSE jobs)
      /\ ended' = ended \cup ExpiredIn(x.seen)
  BY RecoverOperates
<1>2. \A k \in Jobs : /\ x.seen[k] \in Row
                      /\ x.seen[k].state = "absent" <=> jobs[k].state = "absent"
  BY <1>1, SeenClose
<1>3. ASSUME NEW k \in Jobs
      PROVE  /\ k \in ExpiredIn(x.seen) => RecoveredQueue[k].state = "absent" /\ x.seen[k].state # "absent"
             /\ k \notin ExpiredIn(x.seen) =>
                  (RecoveredQueue[k].state = "absent" <=> x.seen[k].state = "absent")
  <2>1. RecoveredQueue[k] = Recovered(x.seen[k], x.request.kind, x.known)
    BY DEF RecoveredQueue
  <2>2. k \in ExpiredIn(x.seen) <=> Expired(x.seen[k])
    BY DEF ExpiredIn
  <2>3. Expired(x.seen[k]) => x.seen[k].state # "absent"
    BY DEF Expired, Terminal
  <2>4. ASSUME NEW row \in Row, ~Expired(row)
        PROVE  Recovered(row, x.request.kind, x.known).state = "absent" <=> row.state = "absent"
    BY <2>4 DEF Recovered, Row
  <2>5. Expired(x.seen[k]) => RecoveredQueue[k] = NoRow
    BY <2>1 DEF Recovered
  <2> QED BY <1>2, <2>1, <2>2, <2>3, <2>4, <2>5, NoRowMade
<1>4. ExpiredIn(x.seen) \in SUBSET Jobs
  BY DEF ExpiredIn
<1>5. /\ \A k \in ExpiredIn(x.seen) : jobs'[k].state = "absent"
      /\ \A k \in Jobs \ ExpiredIn(x.seen) : jobs'[k].state = "absent" <=> jobs[k].state = "absent"
  <2>1. CASE RecoveredQueue # x.seen
    <3>1. jobs' = RecoveredQueue
      BY <1>1, <2>1
    <3> QED BY <1>2, <1>3, <1>4, <3>1
  <2>2. CASE RecoveredQueue = x.seen
    <3>1. jobs' = jobs /\ ExpiredIn(x.seen) = {}
      BY <1>1, <1>3, <1>4, <2>2
    <3> QED BY <3>1
  <2> QED BY <2>1, <2>2
<1> QED BY <1>1, <1>4, <1>5 DEF Rewrites

LEMMA RecoverWhole ==
    ASSUME FrameInv, Whole, Recover
    PROVE  Whole'
<1>1. /\ Operating /\ x.pc = "write" /\ x'.pc = "work" /\ kept' = kept
      /\ jobs' = (IF RecoveredQueue # x.seen THEN RecoveredQueue ELSE jobs)
      /\ ended' = ended \cup ExpiredIn(x.seen)
  BY RecoverOperates
<1>2. \A k \in Jobs : /\ x.seen[k] \in Row
                      /\ x.seen[k].state = "absent" <=> jobs[k].state = "absent"
  BY <1>1, SeenClose
<1>3. Releasing => Waits(jobs'[late.job])
  <2> SUFFICES ASSUME Releasing PROVE Waits(jobs'[late.job])
    OBVIOUS
  <2>1. PICK l : l = late.job
    OBVIOUS
  <2>2. l \in Jobs /\ x.seen[l] \in Row /\ Waits(x.seen[l]) /\ Waits(jobs[l])
    BY <1>1, <1>2, <2>1, SeenClose DEF Whole
  <2>3. ~Expired(x.seen[l])
    BY <2>2 DEF Expired, Terminal, Waits
  <2>4. Waits(Recovered(x.seen[l], x.request.kind, x.known))
    <3>1. ASSUME NEW row \in Row, Waits(row), ~Expired(row)
          PROVE  Waits(Recovered(row, x.request.kind, x.known))
      BY <3>1 DEF Recovered, Row, Waits
    <3> QED BY <2>2, <2>3, <3>1
  <2>5. RecoveredQueue[l] = Recovered(x.seen[l], x.request.kind, x.known)
    BY <2>2 DEF RecoveredQueue
  <2>6. Waits(jobs'[l])
    BY <1>1, <2>2, <2>4, <2>5
  <2> QED BY <2>1, <2>6
<1> QED BY <1>1, <1>3, RecoveryRewrites, RewritingWhole

(* The release of the only capture finds it waiting, and nothing else there. *)
LEMMA LoneRelease ==
    ASSUME Inv, Whole, Lone, LateRelease
    PROVE  \/ jobs' = jobs
           \/ \E l \in Jobs :
                /\ Waits(jobs[l]) /\ jobs'[l].state = "pending"
                /\ \A k \in Jobs \ {l} :
                     /\ jobs[k].state = "absent" /\ jobs'[k].state = "absent"
                     /\ x.pc \in {"account", "write"} => x.seen[k].state = "absent"
<1>0. FrameInv /\ late \in LateAttempt
  BY DEF Inv, FrameInv, RunningTypes
<1>1. PICK l : l = late.job
  OBVIOUS
<1>2. /\ late.pc = "release" /\ l \in Jobs
      /\ \/ jobs' = jobs
         \/ jobs' = [late.seen EXCEPT ![l] = Backoff(late.seen[l])] /\ late.seen[l].state = "processing"
  BY <1>0, <1>1, LateReleaseMoves
<1>3. SUFFICES ASSUME jobs' = [late.seen EXCEPT ![l] = Backoff(late.seen[l])],
                      late.seen[l].state = "processing"
               PROVE  /\ Waits(jobs[l]) /\ jobs'[l].state = "pending"
                      /\ \A k \in Jobs \ {l} :
                           /\ jobs[k].state = "absent" /\ jobs'[k].state = "absent"
                           /\ x.pc \in {"account", "write"} => x.seen[k].state = "absent"
  BY <1>2
<1>4. Waits(jobs[l])
  BY <1>1, <1>2, <1>3 DEF Whole, Releasing
<1>5. capture[l] # None
  BY <1>2, <1>4 DEF Waits, Inv, QueueInv, RowsOK, RowOK, Ahead
<1>6. late.seen \in Queue /\ late.seen[l] \in Row
  BY <1>0, <1>2 DEF LateAttempt, Queue
<1>7. jobs'[l].state = "pending"
  BY <1>2, <1>3, <1>6, RowBackedOff DEF Queue
<1>8. ASSUME NEW k \in Jobs \ {l}
      PROVE  /\ jobs[k].state = "absent" /\ jobs'[k].state = "absent"
             /\ x.pc \in {"account", "write"} => x.seen[k].state = "absent"
  <2>1. Ahead(k)
    BY <1>2, <1>5 DEF Lone, Ahead
  <2>2. jobs'[k] = late.seen[k]
    BY <1>2, <1>3, <1>6 DEF Queue
  <2> QED BY <1>2, <2>1, <2>2 DEF Inv, QueueInv, RowsOK, RowOK
<1> QED BY <1>4, <1>7, <1>8

LEMMA LateWhole ==
    ASSUME Inv, Whole, late.pc = "idle" \/ Lone, LateStep
    PROVE  Whole'
<1>1. FrameInv /\ late \in LateAttempt
  BY DEF Inv, FrameInv, RunningTypes
<1>2. ASSUME UNCHANGED <<jobs, x, kept, ended>>, Releasing' => Waits(jobs[late'.job]) PROVE Whole'
  <2>1. Kept'
    BY <1>2, StatesKeep DEF Whole
  <2> QED BY <1>2, <2>1 DEF Whole, Close
<1>3. CASE LateAnswer
  <2>1. late' = [late EXCEPT !.upload = "over"] /\ UNCHANGED <<jobs, x, kept, ended>>
    BY <1>1, <1>3, LateAnswerMoves
  <2>2. late'.pc = late.pc /\ late'.seen = late.seen /\ late'.job = late.job
    BY <1>1, <2>1 DEF LateAttempt
  <2> QED BY <1>2, <2>1, <2>2 DEF Whole, Releasing
<1>4. CASE LateEnter
  <2>1. late' = [late EXCEPT !.pc = "release", !.seen = jobs] /\ UNCHANGED <<jobs, x, kept, ended>>
    BY <1>1, <1>4, LateEnterMoves
  <2>2. late'.seen = jobs
    BY <1>1, <2>1 DEF LateAttempt
  <2> QED BY <1>2, <2>1, <2>2 DEF Releasing, Waits
<1>5. CASE LateRelease
  <2>1. late' = NoLate /\ UNCHANGED <<x, kept, ended>>
    BY <1>1, <1>5, LateReleaseMoves
  <2>2. ~Releasing'
    BY <2>1 DEF Releasing, NoLate
  <2>3. CASE jobs' = jobs
    BY <1>2, <2>1, <2>2, <2>3
  <2>4. ASSUME NEW k \in Jobs, Waits(jobs[k]), jobs'[k].state = "pending",
               \A i \in Jobs \ {k} :
                  /\ jobs[i].state = "absent" /\ jobs'[i].state = "absent"
                  /\ x.pc \in {"account", "write"} => x.seen[i].state = "absent"
        PROVE  Whole'
    <3>1. Rewrites({}, {})
      BY <2>1, <2>4 DEF Rewrites, Waits
    <3>2. Kept'
      BY <3>1, RewritingKept DEF Whole
    <3>3. x.pc \in {"account", "write"} => Close(x.seen)'
      <4>1. ASSUME x.pc \in {"account", "write"} PROVE Waits(x.seen[k])
        BY <2>4, <4>1 DEF Whole, Close, Waits
      <4> QED BY <2>1, <2>4, <4>1 DEF Close, Waits
    <3> QED BY <2>1, <2>2, <3>2, <3>3 DEF Whole
  <2>5. late.pc # "idle"
    BY <1>5 DEF LateRelease
  <2> QED BY <1>5, <2>3, <2>4, <2>5, LoneRelease
<1> QED BY <1>3, <1>4, <1>5 DEF LateStep
LEMMA OutsideWhole ==
    ASSUME FrameInv, Whole, Outside
    PROVE  Whole'
<1>1. UNCHANGED <<x, late, kept, ended>> /\ \A j \in Jobs : jobs'[j].state = jobs[j].state
  BY DEF Outside, Alike
<1> QED BY <1>1, StatesWhole

(* The limits of a behaviour are fixed, and only a capture adds one.        *)
LEMMA ScopeStays ==
    ASSUME [Next]_vars
    PROVE  scope' = scope /\ (capture' = capture \/ \E j \in Jobs : CaptureSave(j))
<1>1. UNCHANGED vars => UNCHANGED <<scope, capture>>
  BY DEF vars, bounds, history
<1>2. ASSUME NEW p \in Workers, AttemptStep(p) \/ Timeout(p) PROVE UNCHANGED <<scope, capture>>
  BY <1>2 DEF AttemptStep, Timeout, StartJob, CheckAccount, Enter, Defer, Pause, Expire, Claim, CheckOwner,
              Credential, Answer, Settle, After, Remove, Fail, GiveUp, Mutate, Continue, bounds, history
<1>3. ExclusiveStep => UNCHANGED <<scope, capture>>
  BY DEF ExclusiveStep, Take, ReadAccount, Recover, EndWork, Finish, Enqueue, Retry, Discard, Keep, bounds,
         history
<1>4. LateStep => UNCHANGED <<scope, capture>>
  BY DEF LateStep, LateAnswer, LateEnter, LateRelease, bounds, history
<1>5. ASSUME NEW p \in Processes, Scheduling(p) PROVE UNCHANGED <<scope, capture>>
  BY <1>5 DEF Scheduling, ScheduleRead, ScheduleAlarm, bounds, history
<1>6. ASSUME NEW j \in Jobs, Prompted(j) \/ Due(j) \/ Age(j) \/ AskFor("retry", j) \/ AskFor("discard", j)
      PROVE  UNCHANGED <<scope, capture>>
  BY <1>6 DEF Prompted, Due, Age, AskFor, bounds, history
<1>7. ASSUME NEW j \in Jobs, CaptureSave(j) PROVE scope' = scope
  BY <1>7 DEF CaptureSave, bounds
<1>8. SignOut \/ (\E u \in Users : SignIn(u)) \/ (\E i \in Instances : SetInstance(i))
        => UNCHANGED <<scope, capture>>
  BY DEF SignOut, SignIn, SetInstance, Connect, bounds
<1>9. AlarmFires \/ Suspend \/ Exit \/ StartWorker => UNCHANGED <<scope, capture>>
  BY DEF AlarmFires, Suspend, Exit, StartWorker, bounds, history
<1> QED BY <1>1, <1>2, <1>3, <1>4, <1>5, <1>6, <1>7, <1>8, <1>9 DEF Next

(* A capture is made while there are fewer than allowed.                    *)
LEMMA CaptureAlone ==
    ASSUME FrameInv, scope.captures <= 1, Lone, NEW j \in Jobs, CaptureSave(j)
    PROVE  Lone'
<1> DEFINE made == {k \in Jobs : capture[k] # None}
<1>1. Cardinality(made) < scope.captures /\ scope.captures \in Nat
  BY ScopeFacts DEF CaptureSave, FrameInv
<1>2. ASSUME NEW k \in made PROVE FALSE
  <2>1. made = {k}
    BY <1>2 DEF Lone
  <2>2. Cardinality(made) = 1
    BY <2>1, FS_Singleton
  <2> QED BY <1>1, <2>2
<1>3. \A k \in Jobs \ {j} : capture'[k] = None
  BY <1>2, CaptureOutside
<1> QED BY <1>3 DEF Lone

LEMMA NextApart ==
    ASSUME Inv, Apart, [Next]_vars
    PROVE  Apart'
<1>1. FrameInv /\ scope' = scope /\ (capture' = capture \/ \E j \in Jobs : CaptureSave(j))
  BY ScopeStays DEF Inv
<1>2. scope.captures <= 1 => Lone'
  BY <1>1, CaptureAlone DEF Apart, Lone
<1>3. ASSUME late.pc = "idle", ~scope.timeouts PROVE late'.pc = "idle"
  <2>1. UNCHANGED vars => late' = late
    BY DEF vars, running
  <2>2. ASSUME NEW p \in Workers, AttemptStep(p) \/ Timeout(p) PROVE late' = late
    <3>1. w[p].pc # "settle" /\ ~Timeout(p)
      BY <1>1, <1>3 DEF Timeout, FrameInv, Control, WorkerOK
    <3> QED BY <2>2, <3>1 DEF AttemptStep, StartJob, CheckAccount, Enter, Defer, Pause, Expire, Claim,
               CheckOwner, Credential, Answer, Settle, After, Remove, Fail, GiveUp, Mutate
  <2>3. ExclusiveStep => late' = late
    BY DEF ExclusiveStep, Take, ReadAccount, Recover, EndWork, Finish, Enqueue, Retry, Discard, Keep
  <2>4. ~LateStep
    BY <1>3 DEF LateStep, LateAnswer, LateEnter, LateRelease
  <2>5. ASSUME NEW p \in Processes, Scheduling(p) PROVE late' = late
    BY <2>5 DEF Scheduling, ScheduleRead, ScheduleAlarm
  <2>6. ASSUME NEW j \in Jobs, \/ Prompted(j) \/ CaptureSave(j) \/ Due(j) \/ Age(j)
                               \/ AskFor("retry", j) \/ AskFor("discard", j)
        PROVE  late' = late
    BY <2>6 DEF Prompted, CaptureSave, Due, Age, AskFor, Still, running
  <2>7. SignOut \/ (\E u \in Users : SignIn(u)) \/ (\E i \in Instances : SetInstance(i)) => late' = late
    BY DEF SignOut, SignIn, SetInstance, Connect, Still, running
  <2>8. AlarmFires \/ StartWorker => late' = late
    BY DEF AlarmFires, StartWorker, running
  <2>9. Suspend \/ Exit => late'.pc = "idle"
    BY ForgottenFacts
  <2> QED BY <1>3, <2>1, <2>2, <2>3, <2>4, <2>5, <2>6, <2>7, <2>8, <2>9 DEF Next
<1> QED BY <1>1, <1>2, <1>3 DEF Apart

LEMMA InitUntangled == Init => Untangled
<1> SUFFICES ASSUME Init PROVE Untangled
  OBVIOUS
<1>1. x = NoOperation /\ late = NoLate /\ kept = {} /\ ended = {} /\ capture = [j \in Jobs |-> None]
  BY DEF Init
<1>2. x.pc = "idle" /\ late.pc = "idle" /\ Lone
  BY <1>1 DEF NoOperation, NoLate, Lone
<1> QED BY <1>1, <1>2 DEF Untangled, Apart, Whole, Releasing, Kept, CapturesKept, NoResurrection

LEMMA NextUntangled == Inv /\ Untangled /\ [Next]_vars => Untangled'
<1> SUFFICES ASSUME Inv, Untangled, [Next]_vars PROVE Untangled'
  OBVIOUS
<1>0. Apart' /\ scope' = scope
  BY NextApart, ScopeStays DEF Untangled
<1> SUFFICES ASSUME Separate PROVE Whole'
  BY <1>0 DEF Untangled, Separate
<1>1. FrameInv /\ Whole /\ (late.pc = "idle" \/ Lone)
  BY DEF Inv, Untangled, Separate, Apart
<1>2. CASE ExclusiveStep
  BY <1>1, <1>2, RestingWhole, RecoverWhole, EnqueueWhole, RetryWhole, DiscardWhole DEF ExclusiveStep
<1>3. CASE LateStep
  BY <1>1, <1>3, LateWhole
<1>4. ASSUME NEW p \in Workers, AttemptStep(p) \/ Timeout(p) PROVE Whole'
  BY <1>1, <1>4, AttemptWhole
<1>5. ASSUME NEW p \in Processes, Scheduling(p) PROVE Whole'
  <2>1. Outside
    BY <1>1, <1>5, ScheduleReadAround, ScheduleAlarmAround DEF Scheduling, Around
  <2> QED BY <1>1, <2>1, OutsideWhole
<1>6. ASSUME \/ \E j \in Jobs : Prompted(j) \/ CaptureSave(j) \/ Due(j) \/ Age(j)
                                \/ AskFor("retry", j) \/ AskFor("discard", j)
             \/ SignOut \/ (\E u \in Users : SignIn(u)) \/ \E i \in Instances : SetInstance(i)
      PROVE  Whole'
  <2>1. Outside
    BY <1>1, <1>6, AskedOutside
  <2> QED BY <1>1, <2>1, OutsideWhole
<1>7. CASE AlarmFires \/ StartWorker
  <2>1. Outside
    BY <1>1, <1>7, AlarmFiresAround, StartWorkerAround DEF Around
  <2> QED BY <1>1, <2>1, OutsideWhole
<1>8. CASE Suspend \/ Exit
  <2>1. UNCHANGED <<jobs, kept, ended>> /\ x'.pc = "idle" /\ late'.pc = "idle"
    BY <1>8, ForgottenFacts
  <2>2. Kept'
    BY <1>1, <2>1, StatesKeep DEF Whole
  <2> QED BY <2>1, <2>2 DEF Whole, Releasing
<1>9. CASE UNCHANGED vars
  <2>1. UNCHANGED <<jobs, x, late, kept, ended>>
    BY <1>9 DEF vars, stored, running, history
  <2> QED BY <1>1, <2>1, StatesWhole
<1> QED BY <1>2, <1>3, <1>4, <1>5, <1>6, <1>7, <1>8, <1>9 DEF Next

LEMMA UntangledHolds == Spec => []Untangled
<1> QED BY InvHolds, InitUntangled, NextUntangled, PTL DEF Spec

(* Where no attempt times out, or there is one capture, no acknowledged      *)
(* capture leaves the queue but by landing, discarding or reclaiming: every  *)
(* write of the queue is made of saves that are there still, however stale   *)
(* their copies.  Two captures and a late release, and one may be lost.      *)
THEOREM CapturesAreKept ==
    Spec => [](~scope.timeouts \/ scope.captures <= 1 => CapturesKept)
<1>1. Untangled => (~scope.timeouts \/ scope.captures <= 1 => CapturesKept)
  BY DEF Untangled, Separate, Whole, Kept
<1> QED BY <1>1, UntangledHolds, PTL

(* Nor is a save that is over ever written back.                             *)
THEOREM NothingResurrected ==
    Spec => [](~scope.timeouts \/ scope.captures <= 1 => NoResurrection)
<1>1. Untangled => (~scope.timeouts \/ scope.captures <= 1 => NoResurrection)
  BY DEF Untangled, Separate, Whole, Kept
<1> QED BY <1>1, UntangledHolds, PTL

-----------------------------------------------------------------------------
(* The outbox.  Everything that is at work on a save is at work on one that  *)
(* was acknowledged, an attempt that removes it has its receipt, and where   *)
(* no attempt times out an operation has read the states that are stored.    *)
Acknowledged ==
    /\ Present(jobs) \subseteq kept
    /\ \A p \in Workers : w[p].pc # "idle" => w[p].job \in kept
    /\ late.pc # "idle" \/ late.upload = "sent" => late.job \in kept
Landed(j) == \E a \in Accounts : <<j, a>> \in landed
Receipted == \A p \in Workers : w[p].pc = "remove" \/ w[p].upload = "ok" => Landed(w[p].job)
Current == ~scope.timeouts /\ x.pc \in {"account", "write"} => Alive(x.seen)
Traced == Acknowledged /\ Receipted /\ Current

(* How a step may move a save, and what may land in it.                     *)
Stays(j) ==
    /\ jobs'[j].state = "absent" <=> jobs[j].state = "absent"
    /\ j \in kept' <=> j \in kept
    /\ j \in ended' <=> j \in ended
Leaves(j) ==
    /\ jobs[j].state # "absent" /\ jobs'[j].state = "absent"
    /\ j \in ended' /\ (j \in kept' <=> j \in kept)
    /\ jobs[j].state = "processing" => Landed(j)
Enters(j) ==
    /\ jobs[j].state = "absent" /\ jobs'[j].state \notin {"absent", "processing"}
    /\ j \notin kept \cup ended /\ j \in kept' /\ j \notin ended'
Moved(j) == Stays(j) \/ Leaves(j) \/ Enters(j)
Arrives ==
    /\ landed \subseteq landed'
    /\ \A a \in landed' \ landed : a[1] \in kept
Progress == kept \subseteq kept' /\ Arrives /\ \A j \in Jobs : Moved(j)

(* A save is only stored once it was acknowledged.                          *)
LEMMA StoredIsKept ==
    ASSUME Acknowledged, Progress
    PROVE  Present(jobs') \subseteq kept'
<1> SUFFICES ASSUME NEW j \in Jobs, jobs'[j].state # "absent" PROVE j \in kept'
  BY DEF Present
<1>1. CASE jobs[j].state # "absent"
  <2>1. j \in kept
    BY <1>1 DEF Acknowledged, Present
  <2> QED BY <2>1 DEF Progress
<1>2. CASE jobs[j].state = "absent"
  <2>1. Enters(j)
    BY <1>2 DEF Progress, Moved, Stays, Leaves
  <2> QED BY <2>1 DEF Enters
<1> QED BY <1>1, <1>2

NowLanded(j) == \E a \in Accounts : <<j, a>> \in landed'

LEMMA LandedStays == Arrives => \A j : Landed(j) => NowLanded(j)
  BY DEF Arrives, Landed, NowLanded

(* A step that moves no save, and sends nothing new.                        *)
LEMMA StatesStay ==
    ASSUME \A j \in Jobs : jobs'[j].state = jobs[j].state, UNCHANGED <<kept, ended>>, Arrives
    PROVE  Progress
  BY DEF Progress, Moved, Stays

LEMMA SameLanded == landed' = landed => Arrives
  BY DEF Arrives

(* Steps that leave the attempts alone.                                     *)
LEMMA AttemptsTraced ==
    ASSUME Traced, Progress, UNCHANGED <<w, late>>
    PROVE  Acknowledged' /\ Receipted'
<1>1. Present(jobs') \subseteq kept' /\ kept \subseteq kept'
  BY StoredIsKept DEF Traced, Progress
<1>2. Acknowledged'
  BY <1>1 DEF Traced, Acknowledged
<1>3. Receipted'
  BY LandedStays DEF Traced, Receipted, Progress, Landed, NowLanded
<1> QED BY <1>2, <1>3

LEMMA OutsideTraced ==
    ASSUME Traced, Outside
    PROVE  Traced' /\ Progress
<1>1. /\ UNCHANGED <<x, w, late, kept, ended, landed, scope>>
      /\ \A j \in Jobs : jobs'[j].state = jobs[j].state
  BY DEF Outside, Alike
<1>2. Progress
  BY <1>1, StatesStay, SameLanded
<1>3. Current'
  BY <1>1 DEF Traced, Current, Alive
<1> QED BY <1>1, <1>2, <1>3, AttemptsTraced DEF Traced

(* An operation reads the queue as it is, and nobody writes it meanwhile.   *)
LEMMA RestingTraced ==
    ASSUME FrameInv, Traced, Take \/ ReadAccount \/ EndWork \/ Finish
    PROVE  Traced' /\ Progress
<1>1. /\ Operating /\ UNCHANGED <<jobs, kept, ended, landed, w, late, scope>>
      /\ x'.pc \in {"account", "write"} =>
            x'.seen = jobs \/ (x.pc \in {"account", "write"} /\ x'.seen = x.seen)
  <2>1. CASE Take
    BY <2>1, TakeOperates DEF Operating
  <2>2. CASE ReadAccount
    BY <2>2, ReadAccountOperates DEF Operating
  <2>3. CASE EndWork
    BY <2>3, EndWorkOperates DEF Operating
  <2>4. CASE Finish
    BY <2>4, FinishOperates DEF Operating
  <2> QED BY <2>1, <2>2, <2>3, <2>4
<1>2. Progress
  BY <1>1, StatesStay, SameLanded
<1>3. Current'
  BY <1>1 DEF Traced, Current, Alive
<1> QED BY <1>1, <1>2, <1>3, AttemptsTraced DEF Traced

(* An operation's write: what it drops was not being saved.                 *)
LEMMA RewritingTraced ==
    ASSUME Traced, Operating, x'.pc \in {"work", "done"}, landed' = landed,
           NEW gone, NEW made, Rewrites(gone, made),
           \A k \in gone : jobs[k].state \notin {"absent", "processing"},
           \A k \in made : /\ jobs[k].state = "absent" /\ k \notin kept
                           /\ jobs'[k].state # "processing"
    PROVE  Traced' /\ Progress
<1>1. ASSUME NEW k \in Jobs PROVE Moved(k)
  <2>1. CASE k \in gone
    BY <2>1 DEF Rewrites, Moved, Leaves
  <2>2. CASE k \in made
    BY <2>2 DEF Rewrites, Moved, Enters
  <2>3. CASE k \notin gone \cup made
    BY <2>3 DEF Rewrites, Moved, Stays
  <2> QED BY <2>1, <2>2, <2>3
<1>2. Progress
  BY <1>1, SameLanded DEF Progress, Rewrites
<1>3. Acknowledged' /\ Receipted'
  BY <1>2, AttemptsTraced DEF Operating
<1> QED BY <1>2, <1>3 DEF Traced, Current

(* Only a save that is over is a failed or paused one for another reader.   *)
LEMMA SeenTerminal ==
    ASSUME FrameInv, Whole, x.pc = "write", NEW k \in Jobs, Terminal(x.seen[k])
    PROVE  jobs[k].state \notin {"absent", "processing"}
<1>1. Close(x.seen)
  BY DEF Whole
<1>2. jobs[k].state = x.seen[k].state
  BY <1>1 DEF Close, Terminal, Waits
<1> QED BY <1>2 DEF Terminal

LEMMA RetryTraced ==
    ASSUME FrameInv, Whole, Traced, Retry
    PROVE  Traced' /\ Progress
<1>1. PICK j : j = x.request.job
  OBVIOUS
<1>2. /\ Operating /\ x.pc = "write" /\ x'.pc = "done" /\ j \in Jobs /\ UNCHANGED <<kept, ended, landed>>
      /\ \/ jobs' = jobs
         \/ jobs' = [x.seen EXCEPT ![j] = Retried(x.seen[j])] /\ Terminal(x.seen[j])
  BY <1>1, RetryOperates
<1>3. \A k \in Jobs : jobs'[k].state = "absent" <=> jobs[k].state = "absent"
  <2>1. CASE jobs' = jobs
    BY <2>1
  <2>2. CASE jobs' = [x.seen EXCEPT ![j] = Retried(x.seen[j])] /\ Terminal(x.seen[j])
    <3>1. /\ x.seen \in Queue /\ Retried(x.seen[j]).state = "pending" /\ x.seen[j].state # "absent"
      BY <1>2, <2>2, SeenClose, OperationFacts, RowRetried DEF Terminal
    <3> QED BY <1>2, <2>2, <3>1, SeenClose DEF Queue
  <2> QED BY <1>2, <2>1, <2>2
<1>4. Rewrites({}, {})
  BY <1>2, <1>3 DEF Rewrites
<1> QED BY <1>2, <1>4, RewritingTraced

LEMMA DiscardTraced ==
    ASSUME FrameInv, Whole, Traced, Discard
    PROVE  Traced' /\ Progress
<1>1. PICK j : j = x.request.job
  OBVIOUS
<1>2. /\ Operating /\ x.pc = "write" /\ x'.pc = "done" /\ j \in Jobs /\ UNCHANGED <<kept, landed>>
      /\ \/ UNCHANGED <<jobs, ended>>
         \/ /\ jobs' = [x.seen EXCEPT ![j] = NoRow] /\ ended' = ended \cup {j}
            /\ Terminal(x.seen[j])
  BY <1>1, DiscardOperates
<1>3. CASE UNCHANGED <<jobs, ended>>
  <2>1. Rewrites({}, {})
    BY <1>2, <1>3 DEF Rewrites
  <2> QED BY <1>2, <2>1, RewritingTraced
<1>4. CASE /\ jobs' = [x.seen EXCEPT ![j] = NoRow] /\ ended' = ended \cup {j}
           /\ Terminal(x.seen[j])
  <2>1. x.seen \in Queue
    BY OperationFacts
  <2>2. /\ jobs'[j].state = "absent"
        /\ \A k \in Jobs \ {j} : jobs'[k].state = "absent" <=> jobs[k].state = "absent"
    BY <1>2, <1>4, <2>1, SeenClose, NoRowMade DEF Queue
  <2>3. Rewrites({j}, {})
    BY <1>2, <1>4, <2>2 DEF Rewrites
  <2>4. jobs[j].state \notin {"absent", "processing"}
    BY <1>2, <1>4, SeenTerminal
  <2> QED BY <1>2, <2>3, <2>4, RewritingTraced
<1> QED BY <1>2, <1>3, <1>4

(* A recovery drops what has expired.                                       *)
LEMMA RecoverTraced ==
    ASSUME FrameInv, Whole, Traced, Recover
    PROVE  Traced' /\ Progress
<1>1. Operating /\ x.pc = "write" /\ x'.pc = "work" /\ landed' = landed
  BY RecoverOperates
<1>2. \A k \in ExpiredIn(x.seen) : k \in Jobs /\ Terminal(x.seen[k])
  BY DEF ExpiredIn, Expired
<1>3. \A k \in ExpiredIn(x.seen) : jobs[k].state \notin {"absent", "processing"}
  BY <1>1, <1>2, SeenTerminal
<1> QED BY <1>1, <1>3, RecoveryRewrites, RewritingTraced

(* Nothing that was read as being saved is evicted.                         *)
LEMMA EvictionSpares ==
    ASSUME Enqueue, NEW k \in ended' \ ended
    PROVE  k \in Jobs => x.seen[k].state # "processing"
<1> DEFINE retained == Without(x.seen, ExpiredIn(x.seen))
           owner == Admitted(capture[x.request.job]).owner
<1>1. \/ k \in ExpiredIn(x.seen)
      \/ \E gone \in {{}} \cup {{l} : l \in Evictable(retained, owner)} : k \in gone
  BY DEF Enqueue
<1>2. ASSUME k \notin ExpiredIn(x.seen), k \in Evictable(retained, owner), k \in Jobs
      PROVE  x.seen[k].state # "processing"
  <2>1. retained[k].state # "processing"
    BY <1>2 DEF Evictable
  <2>2. retained[k] = x.seen[k]
    BY <1>2 DEF Without
  <2> QED BY <2>1, <2>2
<1>3. ASSUME k \in ExpiredIn(x.seen) PROVE x.seen[k].state # "processing"
  BY <1>3 DEF ExpiredIn, Expired, Terminal
<1> QED BY <1>1, <1>2, <1>3

(* An admission's queue, and what it drops: with one capture, nothing.      *)
LEMMA EnqueueTraced ==
    ASSUME Inv, Whole, Traced, ~scope.timeouts \/ Lone, Enqueue
    PROVE  Traced' /\ Progress
<1>0. FrameInv /\ AsksOK
  BY DEF Inv, QueueInv
<1>1. PICK j : j = x.request.job
  OBVIOUS
<1>2. /\ Operating /\ x.pc = "write" /\ x'.pc = "done" /\ j \in Jobs /\ capture[j] \in Contexts
      /\ x.request.kind = "enqueue" /\ landed' = landed
      /\ \/ UNCHANGED <<jobs, kept, ended>>
         \/ \E gone \in SUBSET Jobs : Admits(gone)
  BY <1>0, <1>1, EnqueueOperates
<1>3. Admitting(j) /\ Ahead(j)
  BY <1>1, <1>2 DEF Admitting, Enqueues, Ahead
<1>4. /\ j \notin kept \cup ended /\ x.seen[j].state = "absent" /\ jobs[j].state = "absent"
      /\ capture[j] # None
  BY <1>2, <1>3, ExtensionQueueAssumption DEF Inv, QueueInv, Early, RowsOK, RowOK, AsksOK
<1>5. CASE UNCHANGED <<jobs, kept, ended>>
  <2>1. Rewrites({}, {})
    BY <1>2, <1>5 DEF Rewrites
  <2> QED BY <1>2, <2>1, RewritingTraced
<1>6. ASSUME NEW gone \in SUBSET Jobs, Admits(gone) PROVE Traced' /\ Progress
  <2>1. jobs'[j].state \notin {"absent", "processing"}
    BY <1>1, <1>2, <1>6, RowAdmitted DEF Admits, Contexts
  <2>2. gone \subseteq Present(x.seen) /\ j \notin gone
    BY <1>1, <1>4, <1>6 DEF Admits, Present
  <2>3. Rewrites(gone, {j})
    BY <1>1, <1>2, <1>4, <1>6, <2>1, <2>2, AdmissionRewrites
  <2>4. ASSUME NEW k \in gone PROVE jobs[k].state \notin {"absent", "processing"}
    <3>1. k \in Jobs /\ x.seen[k].state # "absent" /\ jobs[k].state # "absent"
      BY <1>0, <1>2, <2>2, <2>4, SeenClose DEF Present
    <3>2. k \in ended' \ ended
      BY <1>6, <2>4, <3>1 DEF Whole, Kept, NoResurrection, Present, Admits
    <3>3. CASE ~scope.timeouts
      <4>1. jobs[k].state = x.seen[k].state
        BY <1>2, <3>1, <3>3 DEF Traced, Current, Alive
      <4> QED BY <3>1, <3>2, <4>1, EvictionSpares
    <3>4. CASE Lone
      <4>1. capture[k] # None
        BY <1>2, <3>1 DEF Inv, QueueInv, RowsOK, RowOK, Ahead
      <4> QED BY <1>2, <1>4, <2>2, <2>4, <3>1, <3>4, <4>1 DEF Lone
    <3> QED BY <3>3, <3>4
  <2> QED BY <1>2, <1>4, <2>1, <2>3, <2>4, RewritingTraced
<1> QED BY <1>2, <1>5, <1>6

(* The steps of an attempt.  One that was answered has its save landed.     *)
LEMMA AnswersLanded ==
    ASSUME Inv, Receipted, NEW p \in Workers, Arrives,
           \/ CheckAccount(p) \/ CheckOwner(p) \/ Credential(p) \/ Answer(p) \/ After(p)
           \/ Timeout(p) \/ Mutates(p),
           w'[p].pc = "remove" \/ w'[p].upload = "ok"
    PROVE  NowLanded(w[p].job)
<1>0. /\ FrameInv /\ w[p] \in Attempt
      /\ NoAttempt.pc = "idle" /\ NoAttempt.upload = "none"
      /\ \A a : w' = [w EXCEPT ![p] = a] => w'[p] = a
  <2>1. FrameInv
    BY DEF Inv
  <2> QED BY <2>1, AttemptFacts DEF NoAttempt, FrameInv, RunningTypes
<1>1. w[p].pc = "remove" \/ w[p].upload = "ok" => NowLanded(w[p].job)
  BY LandedStays DEF Receipted
<1>2. CASE CheckAccount(p)
  <2>1. PICK verdict \in {"defer", "idle", "pause", "expire", "claim"} :
           w'[p] = IF verdict = "idle" THEN NoAttempt ELSE [w[p] EXCEPT !.pc = verdict]
    BY <1>0, <1>2 DEF CheckAccount, Verdict
  <2>2. w'[p] = [w[p] EXCEPT !.pc = verdict] /\ verdict # "remove"
    BY <1>0, <2>1
  <2>3. w'[p].pc = verdict /\ w'[p].upload = w[p].upload
    BY <1>0, <2>2 DEF Attempt
  <2> QED BY <1>1, <2>2, <2>3
<1>3. CASE CheckOwner(p)
  <2>1. PICK u \in {"credential", "failed"} : w'[p] = [w[p] EXCEPT !.upload = u]
    BY <1>0, <1>3 DEF CheckOwner, Continue
  <2>2. w'[p].upload # "ok" /\ w'[p].pc = w[p].pc
    BY <1>0, <2>1 DEF Attempt
  <2> QED BY <1>1, <2>2
<1>4. CASE Credential(p)
  <2>1. \/ w'[p] = [w[p] EXCEPT !.upload = "sent", !.account = Authority]
        \/ w'[p] = [w[p] EXCEPT !.upload = "failed"]
    BY <1>0, <1>4 DEF Credential, Continue
  <2>2. w'[p].upload # "ok" /\ w'[p].pc = w[p].pc
    BY <1>0, <2>1 DEF Attempt
  <2> QED BY <1>1, <2>2
<1>5. CASE Answer(p)
  <2>1. PICK answer \in {"ok", "failed"} :
           /\ w'[p] = [w[p] EXCEPT !.upload = answer] /\ w[p].pc = "upload" /\ w[p].upload = "sent"
           /\ answer = "ok" => <<w[p].job, w[p].account>> \in landed'
    BY <1>0, <1>5 DEF Answer, Continue
  <2>2. w'[p].upload = answer /\ w'[p].pc = "upload"
    BY <1>0, <2>1 DEF Attempt
  <2>3. w[p].account \in Accounts
    BY <2>1, SentReaches
  <2> QED BY <2>1, <2>2, <2>3 DEF NowLanded
<1>6. CASE After(p)
  <2>1. \/ w'[p] = NoAttempt
        \/ w'[p] = [At(p, "remove") EXCEPT !.row = jobs[w[p].job]] /\ w[p].upload = "ok"
        \/ w'[p] = [At(p, "fail") EXCEPT !.row = jobs[w[p].job]]
    BY <1>0, <1>6 DEF After, Continue
  <2>2. \A pc \in {"remove", "fail"} : At(p, pc) \in Attempt /\ At(p, pc).pc = pc /\ At(p, pc).upload = "none"
    BY <1>0, AtFacts DEF Mutations
  <2>3. w'[p].upload # "ok" /\ (w'[p].pc = "remove" => w[p].upload = "ok")
    BY <1>0, <2>1, <2>2 DEF Attempt
  <2> QED BY <1>1, <2>3
<1>7. CASE Timeout(p)
  <2>1. w'[p] = At(p, "settle")
    BY <1>0, <1>7 DEF Timeout, Continue
  <2>2. At(p, "settle").pc = "settle" /\ At(p, "settle").upload = "none"
    BY <1>0, AtFacts DEF Mutations
  <2> QED BY <2>1, <2>2
<1>8. CASE Mutates(p)
  <2>1. /\ \A pc \in {"giveup", "claim", "upload"} :
             At(p, pc) \in Attempt /\ At(p, pc).pc = pc /\ At(p, pc).upload = "none"
    BY <1>0, AtFacts DEF Mutations
  <2>2. \A row : /\ [At(p, "upload") EXCEPT !.row = row, !.upload = "check"].pc = "upload"
                 /\ [At(p, "upload") EXCEPT !.row = row, !.upload = "check"].upload = "check"
    BY <2>1 DEF Attempt
  <2>3. \/ w'[p] = NoAttempt \/ w'[p] = At(p, "giveup") \/ w'[p] = At(p, "claim")
        \/ \E row : w'[p] = [At(p, "upload") EXCEPT !.row = row, !.upload = "check"]
    BY <1>0, <1>8 DEF Mutates, Mutate, Continue, Defer, Pause, Expire, Claim, Settle, Remove, Fail, GiveUp
  <2> QED BY <1>0, <2>1, <2>2, <2>3
<1> QED BY <1>2, <1>3, <1>4, <1>5, <1>6, <1>7, <1>8

(* A step of an attempt, in which its save may land.                        *)
LEMMA WorkingTraced ==
    ASSUME FrameInv, Traced, Progress, NEW p \in Workers, Working(p, w'[p]),
           w'[p].pc = "remove" \/ w'[p].upload = "ok" => NowLanded(w[p].job),
           late'.upload = "sent" => \/ late'.job = w[p].job
                                    \/ late.upload = "sent" /\ late'.job = late.job
    PROVE  Traced'
<1>1. /\ w' = [w EXCEPT ![p] = w'[p]] /\ AttemptOK(w'[p]) /\ w[p].pc # "idle" /\ x' = x
      /\ (w'[p].pc # "idle" => w'[p].job = w[p].job) /\ scope' = scope
  BY DEF Working
<1>2. /\ \A q \in Workers \ {p} : w'[q] = w[q]
      /\ x.pc = "work" /\ kept \subseteq kept' /\ Arrives /\ Present(jobs') \subseteq kept'
  BY <1>1, WorkerChange, StoredIsKept DEF Progress, Traced, FrameInv, Control, WorkerOK
<1>3. w[p].job \in kept
  BY <1>1 DEF Traced, Acknowledged
<1>4. late'.pc # "idle" => late'.job = w[p].job \/ (late.pc # "idle" /\ late'.job = late.job)
  <2>1. late \in LateAttempt /\ (w[p].pc = "settle" => late.pc = "settling")
    BY DEF FrameInv, RunningTypes, Control, WorkerOK
  <2>2. [late EXCEPT !.pc = "upload"].job = late.job
    BY <2>1 DEF LateAttempt
  <2> QED BY <2>1, <2>2 DEF Working, Lateness
<1>5. Acknowledged'
  BY <1>1, <1>2, <1>3, <1>4 DEF Traced, Acknowledged
<1>6. Receipted'
  <2>1. w'[p].pc = "idle" => w'[p].upload # "ok"
    BY <1>1 DEF AttemptOK, NoAttempt
  <2>2. w'[p].pc = "remove" \/ w'[p].upload = "ok" => NowLanded(w'[p].job)
    BY <1>1, <2>1
  <2>3. \A q \in Workers \ {p} : w[q].pc = "remove" \/ w[q].upload = "ok" => NowLanded(w[q].job)
    BY <1>2, LandedStays DEF Traced, Receipted
  <2> QED BY <1>2, <2>2, <2>3 DEF Receipted, Landed, NowLanded
<1>7. Current'
  BY <1>1, <1>2 DEF Current
<1> QED BY <1>5, <1>6, <1>7 DEF Traced

LEMMA ThinkingTraced ==
    ASSUME Inv, Traced, NEW p \in Workers,
           CheckAccount(p) \/ CheckOwner(p) \/ Credential(p) \/ Answer(p) \/ After(p) \/ Timeout(p)
    PROVE  Traced' /\ Progress
<1>1. FrameInv /\ Thinking(p, w'[p])
  BY CheckAccountThinks, CheckOwnerThinks, CredentialThinks, AnswerThinks, AfterThinks, TimeoutThinks
     DEF Inv
<1>2. /\ Working(p, w'[p]) /\ UNCHANGED <<jobs, kept, ended>> /\ w[p].pc # "idle"
      /\ late'.upload = "sent" => \/ late'.job = w[p].job
                                  \/ late.upload = "sent" /\ late'.job = late.job
  BY <1>1 DEF Thinking, Sends, Working
<1>3. w[p].job \in kept
  BY <1>2 DEF Traced, Acknowledged
<1>4. Arrives
  BY <1>1, <1>3 DEF Arrives, Thinking, Sends
<1>5. Progress
  BY <1>2, <1>4, StatesStay
<1>6. w'[p].pc = "remove" \/ w'[p].upload = "ok" => NowLanded(w[p].job)
  BY <1>4, AnswersLanded DEF Traced
<1> QED BY <1>1, <1>2, <1>5, <1>6, WorkingTraced

(* What is removed had its receipt.                                         *)
LEMMA MutatingTraced ==
    ASSUME Inv, Traced, NEW p \in Workers, Mutates(p)
    PROVE  Traced' /\ Progress
<1>0. PICK j : j = w[p].job
  OBVIOUS
<1>1. /\ FrameInv /\ Writing(p, w'[p]) /\ Mutated(p, j)
  BY <1>0, MutationsWrite DEF Inv
<1>2. /\ chain = p /\ sched[p] = "no" /\ UNCHANGED <<kept, landed>> /\ Working(p, w'[p])
      /\ jobs' = jobs \/ \A k \in Jobs \ {j} : jobs'[k] = w[p].seen[k]
      /\ late' = late \/ late' = [late EXCEPT !.pc = "upload"]
  BY <1>0, <1>1 DEF Writing
<1>3. \A k \in Jobs : w[p].seen[k].state = jobs[k].state
  BY <1>2 DEF Inv, QueueInv, SeenStates
<1>4. Arrives
  BY <1>2, SameLanded
<1>5. ASSUME NEW k \in Jobs \ {j} PROVE Moved(k)
  <2>1. jobs'[k].state = jobs[k].state
    BY <1>2, <1>3
  <2>2. k \in ended' <=> k \in ended
    BY <1>1 DEF Mutated
  <2> QED BY <1>2, <2>1, <2>2 DEF Moved, Stays
<1>6. ASSUME j \in Jobs PROVE Moved(j)
  <2>1. CASE jobs' = jobs /\ ended' = ended
    BY <1>2, <2>1 DEF Moved, Stays
  <2>2. CASE w[p].seen[j].state # "absent" /\ ended' = ended /\ jobs'[j].state # "absent"
    BY <1>2, <1>3, <1>6, <2>2 DEF Moved, Stays
  <2>3. CASE /\ w[p].seen[j].state # "absent" /\ w[p].pc = "remove"
             /\ ended' = ended \cup {j} /\ jobs'[j].state = "absent"
    <3>1. Landed(j)
      BY <1>0, <2>3 DEF Traced, Receipted
    <3> QED BY <1>2, <1>3, <1>6, <2>3, <3>1 DEF Moved, Leaves
  <2> QED BY <1>1, <2>1, <2>2, <2>3 DEF Mutated
<1>7. Progress
  BY <1>2, <1>4, <1>5, <1>6 DEF Progress
<1>8. late'.upload = late.upload /\ late'.job = late.job
  <2>1. late \in LateAttempt
    BY <1>1 DEF FrameInv, RunningTypes
  <2> QED BY <1>2, <2>1 DEF LateAttempt
<1>9. w'[p].pc = "remove" \/ w'[p].upload = "ok" => NowLanded(w[p].job)
  BY <1>4, AnswersLanded DEF Traced
<1> QED BY <1>1, <1>2, <1>7, <1>8, <1>9, WorkingTraced

LEMMA AttemptTraced ==
    ASSUME Inv, Traced, NEW p \in Workers, AttemptStep(p) \/ Timeout(p)
    PROVE  Traced' /\ Progress
<1>0. FrameInv
  BY DEF Inv
<1>1. ASSUME NEW j \in Jobs, StartJob(p, j) PROVE Traced' /\ Progress
  <2>1. /\ UNCHANGED <<jobs, late, kept, ended, landed>> /\ x.pc = "work"
        /\ x' = [x EXCEPT !.left = @ \ {j}]
        /\ \/ w' = w
           \/ /\ jobs[j].state = "pending"
              /\ w' = [w EXCEPT ![p] = [NoAttempt EXCEPT !.pc = "check", !.job = j, !.row = jobs[j]]]
    BY <1>1 DEF StartJob, stored, history
  <2>2. x'.pc = "work"
    BY <1>0, <2>1, OperationFacts DEF Operation
  <2>3. Progress
    BY <2>1, StatesStay, SameLanded
  <2>4. CASE w' = w
    BY <2>1, <2>2, <2>3, <2>4, AttemptsTraced DEF Traced, Current
  <2>5. CASE /\ jobs[j].state = "pending"
             /\ w' = [w EXCEPT ![p] = [NoAttempt EXCEPT !.pc = "check", !.job = j, !.row = jobs[j]]]
    <3>1. j \in kept
      BY <2>5 DEF Traced, Acknowledged, Present
    <3>2. w'[p].job = j /\ w'[p].upload = "none" /\ w'[p].pc = "check"
      BY <1>0, <2>5 DEF FrameInv, RunningTypes, NoAttempt
    <3>3. \A q \in Workers \ {p} : w'[q] = w[q]
      BY <1>0, <2>5, WorkerChange
    <3>4. Acknowledged'
      BY <2>1, <3>1, <3>2, <3>3 DEF Traced, Acknowledged
    <3>5. Receipted'
      BY <2>1, <3>2, <3>3 DEF Traced, Receipted, Landed
    <3> QED BY <2>2, <2>3, <3>4, <3>5 DEF Traced, Current
  <2> QED BY <2>1, <2>4, <2>5
<1>2. CASE Enter(p)
  <2>1. /\ Working(p, w'[p]) /\ w'[p] = [w[p] EXCEPT !.seen = jobs]
        /\ UNCHANGED <<jobs, kept, ended, landed, late>>
    BY <1>0, <1>2, EnterWorks
  <2>2. w'[p].pc = w[p].pc /\ w'[p].upload = w[p].upload
    BY <1>0, <2>1, AttemptFacts DEF Attempt
  <2>3. Progress
    BY <2>1, StatesStay, SameLanded
  <2>4. w'[p].pc = "remove" \/ w'[p].upload = "ok" => NowLanded(w[p].job)
    BY <2>1, <2>2 DEF Traced, Receipted, Landed, NowLanded
  <2> QED BY <1>0, <2>1, <2>3, <2>4, WorkingTraced
<1> QED BY <1>1, <1>2, ThinkingTraced, MutatingTraced DEF AttemptStep, Mutates

(* An attempt that timed out may land, and puts its save back.              *)
LEMMA LateTraced ==
    ASSUME Inv, Whole, Traced, scope.timeouts, Lone, LateStep
    PROVE  Traced' /\ Progress
<1>0. FrameInv /\ late \in LateAttempt
  BY DEF Inv, FrameInv, RunningTypes
<1>1. ASSUME Progress, UNCHANGED <<w, x, scope>>, late' = NoLate \/ (late.pc # "idle" /\ late'.job = late.job)
      PROVE  Traced' /\ Progress
  <2>1. Present(jobs') \subseteq kept' /\ kept \subseteq kept' /\ Arrives
    BY <1>1, StoredIsKept DEF Traced, Progress
  <2>2. NoLate.pc = "idle" /\ NoLate.upload = "none"
    BY DEF NoLate
  <2>3. Acknowledged'
    BY <1>1, <2>1, <2>2 DEF Traced, Acknowledged
  <2>4. Receipted'
    BY <1>1, <2>1, LandedStays DEF Traced, Receipted, Landed, NowLanded
  <2> QED BY <1>1, <2>3, <2>4 DEF Traced, Current
<1>2. CASE LateAnswer
  <2>1. /\ LateMoves /\ late.pc # "idle" /\ late' = [late EXCEPT !.upload = "over"]
        /\ UNCHANGED <<jobs, x, w, kept, ended>>
        /\ landed' = landed \/ landed' = landed \cup {<<late.job, late.account>>}
    BY <1>0, <1>2, LateAnswerMoves
  <2>2. late'.job = late.job /\ late.job \in kept
    BY <1>0, <2>1 DEF LateAttempt, Traced, Acknowledged
  <2>3. Arrives
    BY <2>1, <2>2 DEF Arrives
  <2>4. Progress
    BY <2>1, <2>3, StatesStay
  <2> QED BY <1>1, <2>1, <2>2, <2>4 DEF LateMoves
<1>3. CASE LateEnter
  <2>1. /\ LateMoves /\ late.pc = "upload" /\ late' = [late EXCEPT !.pc = "release", !.seen = jobs]
        /\ UNCHANGED <<jobs, x, w, kept, ended, landed>>
    BY <1>0, <1>3, LateEnterMoves
  <2>2. late'.job = late.job
    BY <1>0, <2>1 DEF LateAttempt
  <2>3. Progress
    BY <2>1, SameLanded, StatesStay
  <2> QED BY <1>1, <2>1, <2>2, <2>3 DEF LateMoves
<1>4. CASE LateRelease
  <2>1. LateMoves /\ late' = NoLate /\ UNCHANGED <<x, w, kept, ended, landed>>
    BY <1>0, <1>4, LateReleaseMoves
  <2>2. ASSUME NEW j \in Jobs PROVE Moved(j)
    <3>1. jobs'[j].state = "absent" <=> jobs[j].state = "absent"
      BY <1>4, LoneRelease DEF Waits
    <3> QED BY <2>1, <3>1 DEF Moved, Stays
  <2>3. Progress
    BY <2>1, <2>2, SameLanded DEF Progress
  <2> QED BY <1>1, <2>1, <2>3 DEF LateMoves
<1> QED BY <1>2, <1>3, <1>4 DEF LateStep

(* What an exit interrupts was acknowledged, and may still land.            *)
LEMMA ForgottenTraced ==
    ASSUME FrameInv, Traced, Suspend \/ Exit
    PROVE  Traced' /\ Progress
<1>1. /\ UNCHANGED <<jobs, kept, ended>> /\ x'.pc = "idle"
      /\ late' = NoLate /\ w' = [p \in Workers |-> NoAttempt]
  BY ForgottenFacts DEF Suspend, Exit, Forget
<1>2. Arrives
  <2>1. CASE Suspend
    BY <2>1, SuspendForgets, SameLanded
  <2>2. CASE Exit
    <3>1. landed \subseteq landed'
      BY <2>2 DEF Exit
    <3>2. ASSUME NEW a \in landed' \ landed PROVE a[1] \in kept
      <4>1. CASE \E p \in Workers : w[p].upload = "sent" /\ a = <<w[p].job, w[p].account>>
        <5>1. \A p \in Workers : w[p].upload = "sent" => w[p].pc # "idle"
          BY AttemptFacts DEF AttemptOK
        <5> QED BY <4>1, <5>1 DEF Traced, Acknowledged
      <4>2. CASE late.upload = "sent" /\ a = <<late.job, late.account>>
        BY <4>2 DEF Traced, Acknowledged
      <4> QED BY <2>2, <3>2, <4>1, <4>2, ExitForgets
    <3> QED BY <3>1, <3>2 DEF Arrives
  <2> QED BY <2>1, <2>2
<1>3. Progress
  BY <1>1, <1>2, StatesStay
<1>4. Traced'
  BY <1>1 DEF Traced, Acknowledged, Receipted, Current, NoLate, NoAttempt
<1> QED BY <1>3, <1>4

LEMMA NextTraced ==
    ASSUME Inv, Untangled, Separate, Traced, [Next]_vars
    PROVE  Traced' /\ Progress
<1>1. FrameInv /\ Whole /\ Apart /\ (~scope.timeouts \/ Lone)
  BY DEF Inv, Untangled, Separate, Apart
<1>2. CASE ExclusiveStep
  BY <1>1, <1>2, RestingTraced, RecoverTraced, EnqueueTraced, RetryTraced, DiscardTraced DEF ExclusiveStep
<1>3. CASE LateStep
  <2>1. late.pc # "idle"
    BY <1>3 DEF LateStep, LateAnswer, LateEnter, LateRelease
  <2>2. scope.timeouts /\ Lone
    BY <1>1, <2>1 DEF Apart
  <2> QED BY <1>1, <1>3, <2>2, LateTraced
<1>4. ASSUME NEW p \in Workers, AttemptStep(p) \/ Timeout(p) PROVE Traced' /\ Progress
  BY <1>4, AttemptTraced
<1>5. ASSUME NEW p \in Processes, Scheduling(p) PROVE Traced' /\ Progress
  <2>1. Outside
    BY <1>1, <1>5, ScheduleReadAround, ScheduleAlarmAround DEF Scheduling, Around
  <2> QED BY <2>1, OutsideTraced
<1>6. ASSUME \/ \E j \in Jobs : Prompted(j) \/ CaptureSave(j) \/ Due(j) \/ Age(j)
                                \/ AskFor("retry", j) \/ AskFor("discard", j)
             \/ SignOut \/ (\E u \in Users : SignIn(u)) \/ \E i \in Instances : SetInstance(i)
      PROVE  Traced' /\ Progress
  <2>1. Outside
    BY <1>1, <1>6, AskedOutside
  <2> QED BY <2>1, OutsideTraced
<1>7. CASE AlarmFires \/ StartWorker
  <2>1. Outside
    BY <1>1, <1>7, AlarmFiresAround, StartWorkerAround DEF Around
  <2> QED BY <2>1, OutsideTraced
<1>8. CASE Suspend \/ Exit
  BY <1>1, <1>8, ForgottenTraced
<1>9. CASE UNCHANGED vars
  <2>1. UNCHANGED <<jobs, x, w, late, kept, ended, landed, scope>>
    BY <1>9 DEF vars, stored, running, history, bounds
  <2>2. Progress
    BY <2>1, SameLanded, StatesStay
  <2> QED BY <2>1, <2>2, AttemptsTraced DEF Traced, Current, Alive
<1> QED BY <1>2, <1>3, <1>4, <1>5, <1>6, <1>7, <1>8, <1>9 DEF Next

LEMMA InitTraced == Init => Traced
<1> SUFFICES ASSUME Init PROVE Traced
  OBVIOUS
<1>1. jobs = NoQueue /\ x = NoOperation /\ late = NoLate /\ w = [p \in Workers |-> NoAttempt]
  BY DEF Init
<1>2. Present(jobs) = {}
  BY <1>1, NoRowMade DEF Present, NoQueue
<1> QED BY <1>1, <1>2 DEF Traced, Acknowledged, Receipted, Current, NoOperation, NoLate, NoAttempt

(* The stages of a save that is neither lost nor revived.                   *)
LEMMA StageIs ==
    Kept => \A j \in Jobs :
        /\ jobs[j].state = "absent" /\ j \in ended => Stage(j) = "over"
        /\ jobs[j].state = "absent" /\ j \notin ended => Stage(j) = "none" /\ j \notin kept
        /\ jobs[j].state = "processing" => Stage(j) = "sending"
        /\ jobs[j].state \notin {"absent", "processing"} => Stage(j) = "kept"
        /\ jobs[j].state # "absent" => j \notin ended
  BY DEF Stage, Kept, CapturesKept, NoResurrection, Present

LEMMA StageMoves ==
    ASSUME Kept, Kept', Progress, NEW j \in Jobs
    PROVE  \/ Outbox!Take(j) \/ Outbox!Send(j) \/ Outbox!PutBack(j) \/ Outbox!Settle(j)
           \/ Outbox!GiveUp(j) \/ Outbox!Rest(j)
<1> USE DEF Outbox!Take, Outbox!Send, Outbox!PutBack, Outbox!Settle, Outbox!GiveUp, Outbox!Rest,
            Outbox!Moves
<1>1. /\ jobs'[j].state = "absent" /\ j \in ended' => Stage(j)' = "over"
      /\ jobs'[j].state = "absent" /\ j \notin ended' => Stage(j)' = "none"
      /\ jobs'[j].state = "processing" => Stage(j)' = "sending"
      /\ jobs'[j].state \notin {"absent", "processing"} => Stage(j)' = "kept"
  BY DEF Stage, Kept, CapturesKept, NoResurrection, Present
<1>2. CASE Stays(j)
  BY <1>1, <1>2, StageIs DEF Stays
<1>3. CASE Leaves(j)
  <2>1. jobs[j].state = "processing" => NowLanded(j)
    BY <1>3, LandedStays DEF Progress, Leaves
  <2> QED BY <1>1, <1>3, <2>1, StageIs DEF Leaves, NowLanded
<1>4. CASE Enters(j)
  BY <1>1, <1>4, StageIs DEF Enters
<1> QED BY <1>2, <1>3, <1>4 DEF Progress, Moved

(* A save reaches one account, and only once it is acknowledged.            *)
LEMMA StageLands ==
    ASSUME Kept, Inv', Progress, NEW j \in Jobs
    PROVE  Outbox!Land(j) \/ [i \in Jobs |-> {a \in Accounts : <<i, a>> \in landed}]'[j]
                              = [i \in Jobs |-> {a \in Accounts : <<i, a>> \in landed}][j]
<1> DEFINE before == {a \in Accounts : <<j, a>> \in landed}
           after == {a \in Accounts : <<j, a>> \in landed'}
<1>1. before \subseteq after
  BY DEF Progress, Arrives
<1>2. ASSUME NEW a \in after \ before PROVE Outbox!Land(j)
  <2>1. j \in kept
    BY <1>2 DEF Progress, Arrives
  <2>2. Stage(j) # "none"
    BY <2>1, StageIs DEF Stage, Kept, CapturesKept, Present
  <2>3. \A b \in after : a = b
    BY <1>2 DEF Inv, QueueInv, ReachOK, Reaches
  <2>4. after = {a} /\ before \subseteq {a} /\ a \in Accounts
    BY <1>1, <1>2, <2>3
  <2> QED BY <2>2, <2>4 DEF Outbox!Land
<1> QED BY <1>1, <1>2

LEMMA OutboxInitially == Init => Outbox!Init
<1> SUFFICES ASSUME Init, NEW j \in Jobs PROVE Stage(j) = "none"
  BY DEF Init, Outbox!Init
<1>1. jobs[j].state = "absent"
  BY NoRowMade DEF Init, NoQueue
<1> QED BY <1>1 DEF Init, Stage, Present

LEMMA OutboxStep ==
    ASSUME Kept, Kept', Inv', Progress
    PROVE  Outbox!Next
<1>1. ASSUME NEW j \in Jobs PROVE Stage(j)' \in Outbox!Stages
  <2>1. Stage(j)' \in {"none", "kept", "sending", "over"}
    BY DEF Stage, Kept, CapturesKept, NoResurrection, Present
  <2> QED BY <2>1 DEF Outbox!Stages
<1> QED BY <1>1, StageMoves, StageLands DEF Outbox!Next

(* Where no attempt times out, or there is one capture, the queue implements *)
(* an outbox: whatever is evicted, recovered, interrupted or interleaved, a  *)
(* save that is being sent leaves only once it landed, what is over never    *)
(* returns, and each lands with one account (context-menu-save-queue.ts).    *)
THEOREM QueueImplementsOutbox ==
    Spec /\ (~scope.timeouts \/ scope.captures <= 1) => ImplementsOutbox
<1>1. [Next]_vars /\ Separate => Separate'
  BY ScopeStays DEF Separate
<1>2. Spec /\ Separate => []Separate
  BY <1>1, PTL DEF Spec
<1>3. Spec /\ Separate => []Traced
  BY <1>2, InvHolds, UntangledHolds, InitTraced, NextTraced, PTL DEF Spec
<1>4. Untangled /\ Separate => Kept
  BY DEF Untangled, Whole
<1>5. Inv /\ Inv' /\ Untangled /\ Separate /\ Traced /\ Kept /\ Kept' /\ [Next]_vars
        => [Outbox!Next]_(Outbox!outboxVars)
  BY NextTraced, OutboxStep
<1> QED BY <1>2, <1>3, <1>4, <1>5, InvHolds, UntangledHolds, OutboxInitially, PTL
      DEF Spec, Separate, ImplementsOutbox, Outbox!Spec
=============================================================================
