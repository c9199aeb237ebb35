-------------------------- MODULE ComputeAdmission --------------------------
(***************************************************************************)
(* The one execution slot for local inference                               *)
(* (apps/server/internal/embedding/admission.go), shared by searches, which *)
(* wait in a bounded queue, and by the indexing executor, which waits in a  *)
(* place of its own.  Every section under the mutex is one action; a        *)
(* context may be cancelled between any two of them.                        *)
(***************************************************************************)
EXTENDS Naturals, Sequences, FiniteSets

CONSTANTS
    Queries,      (* interactive callers                                   *)
    Executors,    (* background callers; the service runs one              *)
    None,         (* no waiting executor                                   *)
    QueueLimit,   (* interactiveQueueLimit                                 *)
    MaxBurst      (* maxInteractiveBurst                                   *)

ASSUME AdmissionAssumption ==
    /\ Queries \cap Executors = {}
    /\ None \notin Queries \cup Executors
    /\ QueueLimit \in Nat /\ MaxBurst \in Nat

VARIABLES
    active,       (* the slot is taken                                     *)
    queue,        (* waiting queries, the oldest first                     *)
    background,   (* the waiting executor                                  *)
    burst,        (* queries granted since that executor began to wait     *)
    pc,           (* where each caller is                                  *)
    cancelled,    (* callers whose context ended                           *)
    overtaken     (* history: how often a query was granted the slot while *)
                  (* the same executor was waiting for it                  *)

vars == <<active, queue, background, burst, pc, cancelled, overtaken>>

Callers == Queries \cup Executors

(* "granted" is a waiter whose channel was closed and which has not run yet; *)
(* "entering" has the slot and has still to look at its context.             *)
Pc == {"idle", "waiting", "granted", "entering", "holding"}

(* Types of the variables. *)
TypeOK ==
    /\ active \in BOOLEAN
    /\ queue \in Seq(Queries)
    /\ background \in Executors \cup {None}
    /\ burst \in Nat
    /\ pc \in [Callers -> Pc]
    /\ cancelled \subseteq Callers
    /\ overtaken \in Nat

Init ==
    /\ active = FALSE /\ queue = <<>> /\ background = None /\ burst = 0
    /\ pc = [c \in Callers |-> "idle"]
    /\ cancelled = {} /\ overtaken = 0

Go(c, to) == pc' = [pc EXCEPT ![c] = to]

(* A context ends: a client goes away, a query's wait expires, the service  *)
(* shuts down.                                                              *)
Cancel(c) ==
    /\ pc[c] # "idle" /\ c \notin cancelled
    /\ cancelled' = cancelled \cup {c}
    /\ UNCHANGED <<active, queue, background, burst, pc, overtaken>>

(* acquire, first section: take the slot, or queue up. *)
TakeFree(c) ==
    /\ pc[c] = "idle" /\ ~active
    /\ active' = TRUE
    /\ Go(c, "entering")
    /\ cancelled' = cancelled \ {c}
    /\ UNCHANGED <<queue, background, burst, overtaken>>

EnqueueQuery(c) ==
    /\ c \in Queries /\ pc[c] = "idle" /\ active /\ Len(queue) < QueueLimit
    /\ queue' = Append(queue, c)
    /\ Go(c, "waiting")
    /\ cancelled' = cancelled \ {c}
    /\ UNCHANGED <<active, background, burst, overtaken>>

RegisterExecutor(c) ==
    /\ c \in Executors /\ pc[c] = "idle" /\ active /\ background = None
    /\ background' = c /\ burst' = 0 /\ overtaken' = 0
    /\ Go(c, "waiting")
    /\ cancelled' = cancelled \ {c}
    /\ UNCHANGED <<active, queue>>

(* A full queue, or an executor waiting already: the caller is told so.     *)
Busy(c) ==
    /\ pc[c] = "idle" /\ active
    /\ \/ c \in Queries /\ Len(queue) >= QueueLimit
       \/ c \in Executors /\ background # None
    /\ UNCHANGED vars

(* copy(queries[i:], queries[i+1:]) *)
RemoveQuery(i) ==
    [j \in 1 .. Len(queue) - 1 |-> IF j < i THEN queue[j] ELSE queue[j + 1]]

(* Mutants: one query too many overtakes; or the last of them waits. *)
PrefersQuery_OneMore == Len(queue) > 0 /\ (background = None \/ burst <= MaxBurst)
PrefersQuery_NotTheLast == Len(queue) > 1 /\ (background = None \/ burst < MaxBurst)

(* release: whom the slot passes to. *)
PrefersQuery == Len(queue) > 0 /\ (background = None \/ burst < MaxBurst)

(* c leaves the slot; its waiter, if any is next, is granted. *)
PassOn(c) ==
    \/ /\ PrefersQuery
       /\ queue' = RemoveQuery(1)
       /\ pc' = [pc EXCEPT ![c] = "idle", ![queue[1]] = "granted"]
       /\ burst' = IF background # None THEN burst + 1 ELSE burst
       /\ overtaken' = IF background # None THEN overtaken + 1 ELSE overtaken
       /\ UNCHANGED <<active, background>>
    \/ /\ ~PrefersQuery /\ background # None
       /\ pc' = [pc EXCEPT ![c] = "idle", ![background] = "granted"]
       /\ background' = None /\ burst' = 0 /\ overtaken' = 0
       /\ UNCHANGED <<active, queue>>
    \/ /\ ~PrefersQuery /\ background = None
       /\ active' = FALSE
       /\ Go(c, "idle")
       /\ UNCHANGED <<queue, background, burst, overtaken>>

(* acquire, second section, after the grant or the end of the context. *)
WakeGranted(c) ==
    /\ pc[c] = "granted"
    /\ Go(c, "entering")
    /\ UNCHANGED <<active, queue, background, burst, cancelled, overtaken>>

WithdrawQuery(c) ==
    /\ c \in Queries /\ pc[c] = "waiting" /\ c \in cancelled
    /\ \E i \in DOMAIN queue : queue[i] = c /\ queue' = RemoveQuery(i)
    /\ Go(c, "idle")
    /\ UNCHANGED <<active, background, burst, cancelled, overtaken>>

WithdrawExecutor(c) ==
    /\ c \in Executors /\ pc[c] = "waiting" /\ c \in cancelled
    /\ background' = IF background = c THEN None ELSE background
    /\ Go(c, "idle")
    /\ UNCHANGED <<active, queue, burst, cancelled, overtaken>>

(* The caller that took or was granted the slot looks at its context once   *)
(* more and gives the slot back if it ended meanwhile.                      *)
Enter(c) ==
    /\ pc[c] = "entering" /\ c \notin cancelled
    /\ Go(c, "holding")
    /\ UNCHANGED <<active, queue, background, burst, cancelled, overtaken>>

GiveBack(c) ==
    /\ pc[c] = "entering" /\ c \in cancelled
    /\ PassOn(c)
    /\ UNCHANGED cancelled

Release(c) ==
    /\ pc[c] = "holding"
    /\ PassOn(c)
    /\ UNCHANGED cancelled

Acquire(c) == TakeFree(c) \/ EnqueueQuery(c) \/ RegisterExecutor(c) \/ Busy(c)
Proceed(c) == WakeGranted(c) \/ WithdrawQuery(c) \/ WithdrawExecutor(c)
              \/ Enter(c) \/ GiveBack(c) \/ Release(c)

Next == \E c \in Callers : Acquire(c) \/ Cancel(c) \/ Proceed(c)

Spec == Init /\ [][Next]_vars

(* Inference is bounded by a deadline and goroutines are scheduled: a caller *)
(* in the slot leaves it and a woken waiter runs.  Nobody has to call.       *)
FairSpec == Spec /\ \A c \in Callers : WF_vars(Proceed(c))

-----------------------------------------------------------------------------

(* Callers the slot belongs to, from the grant to the release. *)
Occupies(c) == pc[c] \in {"granted", "entering", "holding"}

(* Two native inferences never run at once. *)
MutualExclusion == \A c, d \in Callers : Occupies(c) /\ Occupies(d) => c = d

(* The slot is never lost: while it is taken somebody will release it, also  *)
(* when a grant and the end of the granted caller's context coincide.        *)
SlotNeverLost == active <=> \E c \in Callers : Occupies(c)

(* Every waiting caller can be found by a release, and nobody else is: a     *)
(* caller that gave up leaves no ghost to be granted the slot.               *)
WaitersQueued ==
    /\ \A c \in Queries : pc[c] = "waiting" <=> \E i \in DOMAIN queue : queue[i] = c
    /\ \A i, j \in DOMAIN queue : queue[i] = queue[j] => i = j
    /\ \A c \in Executors : pc[c] = "waiting" <=> background = c

(* The slot is not idle while anybody waits for it. *)
WorkConserving == ~active => queue = <<>> /\ background = None

(* A waiting executor is overtaken by four queries and no more. *)
BoundedOvertaking == background # None => overtaken <= MaxBurst

(* A continuous stream of queries does not starve saved media, nor the      *)
(* executor a query.                                                        *)
EveryWaiterGetsTurn ==
    \A c \in Callers : pc[c] = "waiting" ~> (pc[c] \in {"granted", "entering"} \/ c \in cancelled)
=============================================================================
