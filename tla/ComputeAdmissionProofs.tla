----------------------- MODULE ComputeAdmissionProofs -----------------------
(***************************************************************************)
(* The compute admission is safe for every number of callers, queue limit   *)
(* and burst: one inference at a time, no lost slot, no ghost waiter, and a *)
(* waiting executor overtaken by at most MaxBurst queries.                  *)
(***************************************************************************)
EXTENDS Service, SequenceTheorems, TLAPS

(* A lemma of the queue: removing a position keeps the type and shifts the *)
(* later entries down (computeAdmission.removeQuery).                      *)
LEMMA RemoveQueryType ==
    ASSUME queue \in Seq(Queries), NEW i \in DOMAIN queue
    PROVE  /\ RemoveQuery(i) \in Seq(Queries)
           /\ Len(RemoveQuery(i)) = Len(queue) - 1
           /\ DOMAIN RemoveQuery(i) = 1 .. Len(queue) - 1
           /\ \A j \in 1 .. Len(queue) - 1 :
                RemoveQuery(i)[j] = IF j < i THEN queue[j] ELSE queue[j + 1]
  <1>1. Len(queue) \in Nat /\ Len(queue) >= 1 /\ i \in 1 .. Len(queue)
    OBVIOUS
  <1>2. \A j \in 1 .. Len(queue) - 1 : queue[j] \in Queries /\ queue[j + 1] \in Queries
    BY <1>1
  <1>3. \A j \in 1 .. Len(queue) - 1 : (IF j < i THEN queue[j] ELSE queue[j + 1]) \in Queries
    BY <1>2
  <1>4. Len(queue) - 1 \in Nat
    BY <1>1
  <1>5. RemoveQuery(i) \in [1 .. Len(queue) - 1 -> Queries]
    BY <1>3 DEF RemoveQuery
  <1>6. RemoveQuery(i) \in Seq(Queries) /\ Len(RemoveQuery(i)) = Len(queue) - 1
    BY <1>4, <1>5, LenProperties, SeqDef
  <1> QED
    BY <1>5, <1>6 DEF RemoveQuery

(* Every step keeps the variables in their types. *)
LEMMA TypePreserved == TypeOK /\ [Next]_vars => TypeOK'
  <1> SUFFICES ASSUME TypeOK, [Next]_vars PROVE TypeOK'
    OBVIOUS
  <1> USE DEF TypeOK, Callers, Pc, Go
  <1>1. ASSUME NEW c \in Callers, PassOn(c), cancelled' = cancelled PROVE TypeOK'
    <2>1. CASE PrefersQuery
      <3>1. 1 \in DOMAIN queue /\ queue[1] \in Queries
        BY <2>1 DEF PrefersQuery
      <3>2. RemoveQuery(1) \in Seq(Queries)
        BY <3>1, RemoveQueryType
      <3> QED
        BY <1>1, <2>1, <3>1, <3>2 DEF PassOn
    <2>2. CASE ~PrefersQuery /\ background # None
      <3>1. background \in Callers
        BY <2>2
      <3> QED
        BY <1>1, <2>2, <3>1 DEF PassOn
    <2>3. CASE ~PrefersQuery /\ background = None
      BY <1>1, <2>3 DEF PassOn
    <2> QED
      BY <2>1, <2>2, <2>3
  <1>2. ASSUME NEW c \in Callers, Acquire(c) PROVE TypeOK'
    <2>1. CASE EnqueueQuery(c)
      <3>1. queue' \in Seq(Queries)
        BY <2>1, AppendProperties DEF EnqueueQuery
      <3> QED
        BY <2>1, <3>1 DEF EnqueueQuery
    <2>2. CASE TakeFree(c)
      BY <2>2 DEF TakeFree
    <2>3. CASE RegisterExecutor(c)
      BY <2>3 DEF RegisterExecutor
    <2>4. CASE Busy(c)
      BY <2>4 DEF Busy, vars
    <2> QED
      BY <1>2, <2>1, <2>2, <2>3, <2>4 DEF Acquire
  <1>3. ASSUME NEW c \in Callers, Cancel(c) PROVE TypeOK'
    BY <1>3 DEF Cancel
  <1>4. ASSUME NEW c \in Callers, WithdrawQuery(c) PROVE TypeOK'
    <2>1. PICK i \in DOMAIN queue : queue' = RemoveQuery(i)
      BY <1>4 DEF WithdrawQuery
    <2>2. queue' \in Seq(Queries)
      BY <2>1, RemoveQueryType
    <2> QED
      BY <1>4, <2>2 DEF WithdrawQuery
  <1>5. ASSUME NEW c \in Callers, Proceed(c), ~WithdrawQuery(c) PROVE TypeOK'
    BY <1>1, <1>5 DEF Proceed, WakeGranted, WithdrawExecutor, Enter, GiveBack, Release
  <1>6. CASE UNCHANGED vars
    BY <1>6 DEF vars
  <1> QED
    BY <1>2, <1>3, <1>4, <1>5, <1>6 DEF Next

(* The variables keep their types in every behaviour. *)
THEOREM TypeCorrect == Spec => []TypeOK
  <1>1. Init => TypeOK
    <2>1. <<>> \in Seq(Queries)
      BY EmptySeq
    <2>2. Init => queue \in Seq(Queries)
      BY <2>1, Zenon DEF Init
    <2>3. Init => burst \in Nat /\ overtaken \in Nat /\ pc \in [Callers -> Pc]
      BY DEF Init, Callers, Pc
    <2>4. Init => active \in BOOLEAN /\ background \in Executors \cup {None} /\ cancelled \subseteq Callers
      BY DEF Init
    <2> QED
      BY <2>2, <2>3, <2>4 DEF TypeOK
  <1> QED
    BY <1>1, TypePreserved, PTL DEF Spec

-----------------------------------------------------------------------------
(* The slot and its waiters.                                               *)

Distinct(q) == \A i, j \in DOMAIN q : q[i] = q[j] => i = j
Among(d, q) == \E i \in DOMAIN q : q[i] = d

(* A removed query leaves the queue, the others stay, and none is doubled. *)
LEMMA RemoveQueryMembers ==
    ASSUME queue \in Seq(Queries), NEW i \in DOMAIN queue, Distinct(queue)
    PROVE  /\ Distinct(RemoveQuery(i))
           /\ \A d : Among(d, RemoveQuery(i)) <=> Among(d, queue) /\ d # queue[i]
  <1> DEFINE q == RemoveQuery(i)
             n == Len(queue)
  <1>1. /\ n \in Nat /\ DOMAIN queue = 1 .. n /\ i \in 1 .. n
        /\ DOMAIN q = 1 .. n - 1
        /\ \A j \in 1 .. n - 1 : q[j] = IF j < i THEN queue[j] ELSE queue[j + 1]
    <2>1. n \in Nat /\ DOMAIN queue = 1 .. n /\ i \in 1 .. n
      OBVIOUS
    <2>2. q = [j \in 1 .. n - 1 |-> IF j < i THEN queue[j] ELSE queue[j + 1]]
      BY DEF RemoveQuery
    <2> HIDE DEF q, n
    <2> QED
      BY <2>1, <2>2
  <1> HIDE DEF q, n
  <1>2. Distinct(q)
    <2>1. SUFFICES ASSUME NEW j \in 1 .. n - 1, NEW k \in 1 .. n - 1, q[j] = q[k]
                   PROVE  j = k
      BY <1>1 DEF Distinct
    <2> DEFINE up(m) == IF m < i THEN m ELSE m + 1
    <2>2. up(j) \in 1 .. n /\ up(k) \in 1 .. n
      BY <1>1
    <2>3. q[j] = queue[up(j)] /\ q[k] = queue[up(k)]
      BY <1>1
    <2>4. up(j) = up(k)
      BY <1>1, <2>1, <2>2, <2>3 DEF Distinct
    <2> QED
      BY <1>1, <2>4
  <1>3. ASSUME NEW d, Among(d, q) PROVE Among(d, queue) /\ d # queue[i]
    <2>1. PICK j \in 1 .. n - 1 : q[j] = d
      BY <1>1, <1>3 DEF Among
    <2>2. CASE j < i
      BY <1>1, <2>1, <2>2 DEF Among, Distinct
    <2>3. CASE ~(j < i)
      <3>1. j + 1 \in 1 .. n /\ d = queue[j + 1] /\ j + 1 # i
        BY <1>1, <2>1, <2>3
      <3> QED
        BY <1>1, <3>1 DEF Among, Distinct
    <2> QED
      BY <2>2, <2>3
  <1>4. ASSUME NEW d, Among(d, queue), d # queue[i] PROVE Among(d, q)
    <2>1. PICK j \in 1 .. n : queue[j] = d
      BY <1>1, <1>4 DEF Among
    <2>2. CASE j < i
      <3>1. j \in 1 .. n - 1 /\ q[j] = d
        BY <1>1, <2>1, <2>2
      <3> QED
        BY <1>1, <3>1 DEF Among
    <2>3. CASE j > i
      <3>1. j - 1 \in 1 .. n - 1 /\ ~(j - 1 < i) /\ (j - 1) + 1 = j
        BY <1>1, <2>3
      <3>2. q[j - 1] = d
        BY <1>1, <2>1, <3>1
      <3> QED
        BY <1>1, <3>1, <3>2 DEF Among
    <2>4. j # i
      BY <1>4, <2>1
    <2> QED
      BY <1>1, <2>2, <2>3, <2>4
  <1> QED
    BY <1>2, <1>3, <1>4 DEF q

(* The inductive invariant: the mutual exclusion needs to know that nobody *)
(* holds a free slot, the slot that a waiter is where a release looks.     *)
SlotInv == MutualExclusion /\ SlotNeverLost /\ WaitersQueued /\ WorkConserving

(* Passing the slot on keeps the invariant, whoever is next.               *)
LEMMA PassOnPreservesSlot ==
    ASSUME TypeOK, SlotInv, NEW c \in Callers, Occupies(c), PassOn(c)
    PROVE  SlotInv'
  <1> USE DEF TypeOK, Callers, Pc, Occupies
  <1>1. active /\ \A d \in Callers : Occupies(d) => d = c
    BY DEF SlotInv, MutualExclusion, SlotNeverLost
  <1>2. Distinct(queue) /\ \A d \in Queries : pc[d] = "waiting" <=> Among(d, queue)
    BY DEF SlotInv, WaitersQueued, Distinct, Among
  <1>3. \A d \in Executors : pc[d] = "waiting" <=> background = d
    BY DEF SlotInv, WaitersQueued
  <1>4. CASE PrefersQuery
    <2>1. 1 \in DOMAIN queue /\ queue[1] \in Queries
      BY <1>4 DEF PrefersQuery
    <2> DEFINE next == queue[1]
    <2>2. /\ queue' = RemoveQuery(1)
          /\ pc' = [pc EXCEPT ![c] = "idle", ![next] = "granted"]
          /\ active' = active /\ background' = background
      BY <1>4 DEF PassOn
    <2>3. /\ Distinct(queue')
          /\ \A d : Among(d, queue') <=> Among(d, queue) /\ d # next
      BY <1>2, <2>1, <2>2, RemoveQueryMembers
    <2>4. pc[next] = "waiting" /\ next \in Callers /\ next # c
      BY <1>2, <2>1 DEF Among
    <2> HIDE DEF next
    <2>5. \A d \in Callers : pc'[d] = IF d = next THEN "granted"
                                      ELSE IF d = c THEN "idle" ELSE pc[d]
      BY <2>2, <2>4
    <2>6. MutualExclusion' /\ SlotNeverLost' /\ WorkConserving'
      BY <1>1, <2>2, <2>4, <2>5 DEF MutualExclusion, SlotNeverLost, WorkConserving
    <2>7. \A d \in Queries : pc'[d] = "waiting" <=> Among(d, queue')
      BY <1>2, <2>3, <2>4, <2>5
    <2>8. \A d \in Executors : pc'[d] = "waiting" <=> background' = d
      BY <1>3, <2>1, <2>2, <2>5, AdmissionAssumption DEF next
    <2> QED
      BY <2>3, <2>6, <2>7, <2>8 DEF SlotInv, WaitersQueued, Distinct, Among
  <1>5. CASE ~PrefersQuery /\ background # None
    <2>1. /\ pc' = [pc EXCEPT ![c] = "idle", ![background] = "granted"]
          /\ background' = None /\ active' = active /\ queue' = queue
          /\ background \in Executors /\ pc[background] = "waiting" /\ background # c
      BY <1>3, <1>5 DEF PassOn
    <2>2. \A d \in Callers : pc'[d] = IF d = background THEN "granted"
                                      ELSE IF d = c THEN "idle" ELSE pc[d]
      BY <2>1
    <2>3. MutualExclusion' /\ SlotNeverLost' /\ WorkConserving'
      BY <1>1, <2>1, <2>2 DEF MutualExclusion, SlotNeverLost, WorkConserving
    <2>4. \A d \in Queries : pc'[d] = "waiting" <=> Among(d, queue')
      <3>1. \A d \in Queries : d # background
        BY <2>1, AdmissionAssumption
      <3> QED
        BY <1>2, <2>1, <2>2, <3>1
    <2>5. \A d \in Executors : pc'[d] = "waiting" <=> background' = d
      BY <1>3, <2>1, <2>2, AdmissionAssumption
    <2> QED
      BY <1>2, <2>1, <2>3, <2>4, <2>5 DEF SlotInv, WaitersQueued, Distinct, Among
  <1>6. CASE ~PrefersQuery /\ background = None
    <2>1. /\ pc' = [pc EXCEPT ![c] = "idle"] /\ ~active'
          /\ background' = None /\ queue' = queue
      BY <1>6 DEF PassOn, Go
    <2>2. queue = <<>>
      <3>1. Len(queue) = 0
        BY <1>6, LenProperties DEF PrefersQuery
      <3> QED
        BY <3>1, EmptySeq
    <2>3. MutualExclusion' /\ SlotNeverLost'
      BY <1>1, <2>1 DEF MutualExclusion, SlotNeverLost
    <2>4. WorkConserving'
      BY <2>1, <2>2 DEF WorkConserving
    <2>5. \A d \in Queries : pc'[d] = "waiting" <=> Among(d, queue')
      BY <1>2, <2>1
    <2>6. \A d \in Executors : pc'[d] = "waiting" <=> background' = d
      BY <1>3, <1>6, <2>1
    <2> QED
      BY <1>2, <2>1, <2>3, <2>4, <2>5, <2>6 DEF SlotInv, WaitersQueued, Distinct, Among
  <1> QED
    BY <1>4, <1>5, <1>6

(* One inference at a time, no slot lost, every waiter findable: preserved. *)
LEMMA SlotPreserved == TypeOK /\ SlotInv /\ [Next]_vars => SlotInv'
  <1> SUFFICES ASSUME TypeOK, SlotInv, [Next]_vars PROVE SlotInv'
    OBVIOUS
  <1> USE DEF TypeOK, Callers, Pc, Occupies, Go
  <1>1. Distinct(queue) /\ \A d \in Queries : pc[d] = "waiting" <=> Among(d, queue)
    BY DEF SlotInv, WaitersQueued, Distinct, Among
  <1>2. \A d \in Executors : pc[d] = "waiting" <=> background = d
    BY DEF SlotInv, WaitersQueued
  <1>3. MutualExclusion /\ SlotNeverLost /\ WorkConserving
    BY DEF SlotInv
  <1>4. ASSUME NEW c \in Callers, pc[c] \in {"idle", "granted", "entering"},
               pc' = [pc EXCEPT ![c] = IF pc[c] = "granted" THEN "entering"
                                       ELSE IF pc[c] = "entering" THEN "holding" ELSE "entering"],
               pc[c] = "idle" => ~active, active' = TRUE,
               queue' = queue, background' = background
        PROVE  SlotInv'
    <2>1. MutualExclusion' /\ SlotNeverLost' /\ WorkConserving'
      BY <1>3, <1>4 DEF MutualExclusion, SlotNeverLost, WorkConserving
    <2>2. \A d \in Queries : pc'[d] = "waiting" <=> Among(d, queue')
      BY <1>1, <1>4
    <2>3. \A d \in Executors : pc'[d] = "waiting" <=> background' = d
      BY <1>2, <1>4
    <2> QED
      BY <1>1, <1>4, <2>1, <2>2, <2>3 DEF SlotInv, WaitersQueued, Distinct, Among
  <1>5. ASSUME NEW c \in Callers, TakeFree(c) PROVE SlotInv'
    BY <1>4, <1>5 DEF TakeFree
  <1>6. ASSUME NEW c \in Callers, EnqueueQuery(c) PROVE SlotInv'
    <2>1. /\ c \in Queries /\ pc[c] = "idle" /\ active
          /\ queue' = Append(queue, c) /\ pc' = [pc EXCEPT ![c] = "waiting"]
          /\ active' = active /\ background' = background
      BY <1>6 DEF EnqueueQuery
    <2>2. /\ Len(queue') = Len(queue) + 1 /\ Len(queue) \in Nat
          /\ DOMAIN queue = 1 .. Len(queue) /\ DOMAIN queue' = 1 .. Len(queue) + 1
          /\ \A i \in 1 .. Len(queue) : queue'[i] = queue[i]
          /\ queue'[Len(queue) + 1] = c
      BY <2>1, AppendProperties, LenProperties
    <2>3. ~Among(c, queue)
      BY <1>1, <2>1
    <2>4. Distinct(queue')
      BY <1>1, <2>2, <2>3 DEF Distinct, Among
    <2>5. \A d : Among(d, queue') <=> Among(d, queue) \/ d = c
      BY <2>2 DEF Among
    <2>6. \A d \in Queries : pc'[d] = "waiting" <=> Among(d, queue')
      BY <1>1, <2>1, <2>5
    <2>7. \A d \in Executors : pc'[d] = "waiting" <=> background' = d
      BY <1>2, <2>1, AdmissionAssumption
    <2>8. MutualExclusion' /\ SlotNeverLost' /\ WorkConserving'
      BY <1>3, <2>1 DEF MutualExclusion, SlotNeverLost, WorkConserving
    <2> QED
      BY <2>4, <2>6, <2>7, <2>8 DEF SlotInv, WaitersQueued, Distinct, Among
  <1>7. ASSUME NEW c \in Callers, RegisterExecutor(c) PROVE SlotInv'
    <2>1. /\ c \in Executors /\ pc[c] = "idle" /\ active /\ background = None
          /\ background' = c /\ pc' = [pc EXCEPT ![c] = "waiting"]
          /\ active' = active /\ queue' = queue
      BY <1>7 DEF RegisterExecutor
    <2>2. MutualExclusion' /\ SlotNeverLost' /\ WorkConserving'
      BY <1>3, <2>1 DEF MutualExclusion, SlotNeverLost, WorkConserving
    <2>3. \A d \in Queries : pc'[d] = "waiting" <=> Among(d, queue')
      BY <1>1, <2>1, AdmissionAssumption
    <2>4. \A d \in Executors : pc'[d] = "waiting" <=> background' = d
      BY <1>2, <2>1, AdmissionAssumption
    <2> QED
      BY <1>1, <2>1, <2>2, <2>3, <2>4 DEF SlotInv, WaitersQueued, Distinct, Among
  <1>8. ASSUME NEW c \in Callers, WakeGranted(c) \/ Enter(c) PROVE SlotInv'
    <2>1. active
      BY <1>3, <1>8 DEF SlotNeverLost, WakeGranted, Enter
    <2> QED
      BY <1>4, <1>8, <2>1 DEF WakeGranted, Enter
  <1>9. ASSUME NEW c \in Callers, WithdrawQuery(c) PROVE SlotInv'
    <2>1. /\ c \in Queries /\ pc[c] = "waiting" /\ pc' = [pc EXCEPT ![c] = "idle"]
          /\ active' = active /\ background' = background
      BY <1>9 DEF WithdrawQuery
    <2>2. PICK i \in DOMAIN queue : queue[i] = c /\ queue' = RemoveQuery(i)
      BY <1>9 DEF WithdrawQuery
    <2>3. Distinct(queue') /\ \A d : Among(d, queue') <=> Among(d, queue) /\ d # c
      BY <1>1, <2>2, RemoveQueryMembers
    <2>4. active
      BY <1>3, <2>2, EmptySeq DEF WorkConserving
    <2>5. MutualExclusion' /\ SlotNeverLost' /\ WorkConserving'
      BY <1>3, <2>1, <2>4 DEF MutualExclusion, SlotNeverLost, WorkConserving
    <2>6. \A d \in Queries : pc'[d] = "waiting" <=> Among(d, queue')
      BY <1>1, <2>1, <2>3
    <2>7. \A d \in Executors : pc'[d] = "waiting" <=> background' = d
      BY <1>2, <2>1, AdmissionAssumption
    <2> QED
      BY <2>3, <2>5, <2>6, <2>7 DEF SlotInv, WaitersQueued, Distinct, Among
  <1>10. ASSUME NEW c \in Callers, WithdrawExecutor(c) PROVE SlotInv'
    <2>1. /\ c \in Executors /\ pc[c] = "waiting" /\ pc' = [pc EXCEPT ![c] = "idle"]
          /\ background = c /\ background' = None /\ active' = active /\ queue' = queue
      BY <1>2, <1>10 DEF WithdrawExecutor
    <2>2. MutualExclusion' /\ SlotNeverLost' /\ WorkConserving'
      BY <1>3, <2>1 DEF MutualExclusion, SlotNeverLost, WorkConserving
    <2>3. \A d \in Queries : pc'[d] = "waiting" <=> Among(d, queue')
      BY <1>1, <2>1, AdmissionAssumption
    <2>4. \A d \in Executors : pc'[d] = "waiting" <=> background' = d
      BY <1>2, <2>1, AdmissionAssumption
    <2> QED
      BY <1>1, <2>1, <2>2, <2>3, <2>4 DEF SlotInv, WaitersQueued, Distinct, Among
  <1>11. ASSUME NEW c \in Callers, GiveBack(c) \/ Release(c) PROVE SlotInv'
    BY <1>11, PassOnPreservesSlot DEF GiveBack, Release
  <1>12. CASE \/ UNCHANGED vars
              \/ \E c \in Callers : Cancel(c) \/ Busy(c)
    <2>1. UNCHANGED <<active, queue, background, pc>>
      BY <1>12 DEF vars, Cancel, Busy
    <2>2. MutualExclusion' /\ SlotNeverLost' /\ WorkConserving'
      BY <1>3, <2>1 DEF MutualExclusion, SlotNeverLost, WorkConserving
    <2>3. WaitersQueued'
      BY <2>1 DEF SlotInv, WaitersQueued
    <2> QED
      BY <2>2, <2>3 DEF SlotInv
  <1> QED
    BY <1>5, <1>6, <1>7, <1>8, <1>9, <1>10, <1>11, <1>12 DEF Next, Acquire, Proceed

(* The slot is safe in every behaviour of any number of callers. *)
THEOREM SlotSafety ==
    Spec => [](MutualExclusion /\ SlotNeverLost /\ WaitersQueued /\ WorkConserving)
  <1>1. Init => SlotInv
    <2>1. Init => MutualExclusion /\ SlotNeverLost /\ WorkConserving
      BY DEF Init, MutualExclusion, SlotNeverLost, WorkConserving, Occupies, Callers
    <2>2. Init => \A d \in Queries : pc[d] # "waiting"
      BY DEF Init, Callers
    <2>3. Init => \A d \in Executors : pc[d] # "waiting" /\ background # d
      BY AdmissionAssumption DEF Init, Callers
    <2>4. Init => DOMAIN queue = {}
      BY DEF Init
    <2> QED
      BY <2>1, <2>2, <2>3, <2>4 DEF SlotInv, WaitersQueued
  <1>2. SlotInv => MutualExclusion /\ SlotNeverLost /\ WaitersQueued /\ WorkConserving
    BY DEF SlotInv
  <1> QED
    BY <1>1, <1>2, TypeCorrect, SlotPreserved, PTL DEF Spec

(* The history counter is the burst the code keeps.                        *)
BurstInv == background # None => overtaken = burst /\ burst <= MaxBurst

(* While an executor waits at most MaxBurst queries are granted the slot.  *)
THEOREM OvertakingIsBounded == Spec => []BoundedOvertaking
  <1>1. Init => BurstInv
    BY DEF Init, BurstInv
  <1>2. TypeOK /\ BurstInv /\ [Next]_vars => BurstInv'
    <2> SUFFICES ASSUME TypeOK, BurstInv, [Next]_vars PROVE BurstInv'
      OBVIOUS
    <2> USE AdmissionAssumption DEF TypeOK, BurstInv
    <2>1. ASSUME NEW c \in Callers, GiveBack(c) \/ Release(c) PROVE BurstInv'
      BY <2>1 DEF GiveBack, Release, PassOn, PrefersQuery
    <2>2. ASSUME NEW c \in Callers, Acquire(c) PROVE BurstInv'
      BY <2>2 DEF Acquire, TakeFree, EnqueueQuery, RegisterExecutor, Busy, vars
    <2>3. ASSUME NEW c \in Callers, WithdrawQuery(c) \/ WithdrawExecutor(c) PROVE BurstInv'
      BY <2>3 DEF WithdrawQuery, WithdrawExecutor
    <2>4. CASE \/ UNCHANGED vars
               \/ \E c \in Callers : Cancel(c) \/ WakeGranted(c) \/ Enter(c)
      BY <2>4 DEF vars, Cancel, WakeGranted, Enter
    <2> QED
      BY <2>1, <2>2, <2>3, <2>4 DEF Next, Proceed
  <1>3. TypeOK /\ BurstInv => BoundedOvertaking
    BY DEF TypeOK, BurstInv, BoundedOvertaking
  <1> QED
    BY <1>1, <1>2, <1>3, TypeCorrect, PTL DEF Spec

-----------------------------------------------------------------------------
(***************************************************************************)
(* One run of the server, for any number of request handlers and executors *)
(* and any limits of the admission.                                        *)
(***************************************************************************)
(* The slot is used by whoever searches or indexes, and the native engine   *)
(* by the holder of the slot.                                               *)
Placed ==
    /\ at \in [Callers -> {"out", "in", "searching", "native"}]
    /\ \A c \in Callers :
         /\ at[c] \in {"out", "in"} => pc[c] = "idle"
         /\ at[c] = "native" => pc[c] = "holding"

(* What the main goroutine has waited for by the time it gets so far. *)
Joined ==
    /\ worker # "running" => \A e \in Executors : at[e] = "out"
    /\ main \in {"shutdown", "prepare", "worker", "requests", "engine", "returned"} => ~accepting
    /\ main \in {"worker", "requests", "engine", "returned"} => prep = "joined"
    /\ main \in {"requests", "engine", "returned"} => worker # "running"
    /\ main \in {"engine", "returned"} => \A q \in Queries : at[q] = "out"
    /\ main = "returned" => engine # "open"

-----------------------------------------------------------------------------
(* What the service does to the admission is what the admission's callers   *)
(* may do.                                                                  *)
LEMMA ServiceStepIsAdmission == [ServiceNext]_allVars => [Next]_vars
<1> SUFFICES ASSUME [ServiceNext]_allVars PROVE [Next]_vars
  OBVIOUS
<1>1. ASSUME NEW q \in Queries, Arrive(q) \/ Search(q) \/ Respond(q) \/ Abandon(q) PROVE [Next]_vars
  BY <1>1 DEF Arrive, Search, Respond, Abandon, Next, Acquire, Callers
<1>2. ASSUME NEW c \in Callers, Propagate(c) \/ Work(c) PROVE [Next]_vars
  BY <1>2 DEF Propagate, Work, Await, EnterNative, Compute, Next, Proceed
<1>3. ASSUME NEW e \in Executors, Index(e) PROVE [Next]_vars
  BY <1>3 DEF Index, Next, Acquire, Callers
<1>4. ASSUME EndIndexing \/ Prepared \/ Stop \/ Lifecycle PROVE UNCHANGED vars
  BY <1>4 DEF EndIndexing, Prepared, Stop, Lifecycle, TakeEngine, WorkerEnded, Leave, Seal, Shutdown,
     JoinPreparation, JoinWorker, JoinRequests, CloseEngine
<1> QED BY <1>1, <1>2, <1>3, <1>4 DEF ServiceNext, allVars

(* The service implements its admission's specification, so that what is    *)
(* proved of the admission holds in the running service: the slot is never  *)
(* lost, two inferences never run at once, and a waiting executor is        *)
(* overtaken a bounded number of times.                                     *)
THEOREM ServiceImplementsAdmission == ServiceSpec => Spec
<1>1. ServiceInit => Init
  BY DEF ServiceInit
<1> QED BY <1>1, ServiceStepIsAdmission, PTL DEF ServiceSpec, Spec

-----------------------------------------------------------------------------
(* The caller that leaves the slot becomes idle, and a waiter, if any, is   *)
(* granted it.                                                              *)
LEMMA PassOnFacts ==
    ASSUME TypeOK, SlotInv, NEW c \in Callers, Occupies(c), PassOn(c)
    PROVE  /\ pc' \in [Callers -> Pc] /\ pc'[c] = "idle"
           /\ \A d \in Callers :
                d # c => (pc'[d] = pc[d] \/ (pc[d] = "waiting" /\ pc'[d] = "granted"))
<1>0. pc \in [Callers -> Pc] /\ queue \in Seq(Queries) /\ background \in Executors \cup {None}
  BY DEF TypeOK
<1>1. pc[c] # "waiting" /\ "idle" \in Pc /\ "granted" \in Pc
  BY DEF Occupies, Pc
<1>2. ASSUME NEW next \in Callers, pc[next] = "waiting", pc' = [pc EXCEPT ![c] = "idle", ![next] = "granted"]
      PROVE  /\ pc' \in [Callers -> Pc] /\ pc'[c] = "idle"
             /\ \A d \in Callers :
                d # c => (pc'[d] = pc[d] \/ (pc[d] = "waiting" /\ pc'[d] = "granted"))
  BY <1>0, <1>1, <1>2
<1>3. CASE PrefersQuery
  <2>1. 1 \in DOMAIN queue /\ queue[1] \in Queries
    BY <1>0, <1>3 DEF PrefersQuery
  <2>2. pc[queue[1]] = "waiting" /\ queue[1] \in Callers
    BY <2>1 DEF SlotInv, WaitersQueued, Callers
  <2>3. pc' = [pc EXCEPT ![c] = "idle", ![queue[1]] = "granted"]
    BY <1>3 DEF PassOn
  <2> QED BY <1>2, <2>2, <2>3
<1>4. CASE ~PrefersQuery /\ background # None
  <2>1. background \in Executors
    BY <1>0, <1>4
  <2>2. background \in Callers /\ pc[background] = "waiting"
    BY <2>1 DEF SlotInv, WaitersQueued, Callers
  <2>3. pc' = [pc EXCEPT ![c] = "idle", ![background] = "granted"]
    BY <1>4 DEF PassOn
  <2> QED BY <1>2, <2>2, <2>3
<1>5. CASE ~PrefersQuery /\ background = None
  <2>1. pc' = [pc EXCEPT ![c] = "idle"]
    BY <1>5 DEF PassOn, Go
  <2> QED BY <1>0, <1>1, <2>1
<1> QED BY <1>3, <1>4, <1>5

LEMMA PlacedInitially == ServiceInit => Placed /\ Joined
  BY DEF ServiceInit, Init, Placed, Joined, Callers

LEMMA PlacedStep == TypeOK /\ SlotInv /\ Placed /\ [ServiceNext]_allVars => Placed'
<1> SUFFICES ASSUME TypeOK, SlotInv, Placed, [ServiceNext]_allVars PROVE Placed'
  OBVIOUS
<1>0. pc \in [Callers -> Pc]
  BY DEF TypeOK
<1> USE DEF Placed
<1>1. ASSUME NEW q \in Queries, Arrive(q) \/ Respond(q) PROVE Placed'
  BY <1>1 DEF Arrive, Respond, Moves, vars, Callers
<1>2. ASSUME NEW q \in Queries, Search(q) PROVE Placed'
  BY <1>0, <1>2 DEF Search, Moves, TakeFree, EnqueueQuery, Busy, Go, vars, Callers
<1>3. ASSUME NEW c \in Callers, Cancel(c), UNCHANGED serviceVars PROVE Placed'
  BY <1>3 DEF Cancel, serviceVars
<1>4. ASSUME NEW c \in Callers, Await(c) PROVE Placed'
  <2>1. CASE GiveBack(c)
    <3>1. PassOn(c) /\ Occupies(c) /\ pc[c] = "entering" /\ at' = at
      BY <1>4, <2>1 DEF Await, GiveBack, Occupies, serviceVars
    <3> QED BY <3>1, PassOnFacts
  <2>2. CASE WakeGranted(c) \/ WithdrawQuery(c) \/ WithdrawExecutor(c) \/ Enter(c)
    BY <1>0, <1>4, <2>2 DEF Await, WakeGranted, WithdrawQuery, WithdrawExecutor, Enter, Go, serviceVars
  <2> QED BY <1>4, <2>1, <2>2 DEF Await
<1>5. ASSUME NEW c \in Callers, EnterNative(c) PROVE Placed'
  BY <1>5 DEF EnterNative, Moves, vars
<1>6. ASSUME NEW c \in Callers, Compute(c) PROVE Placed'
  <2>1. PassOn(c) /\ Occupies(c) /\ at' = [at EXCEPT ![c] = "searching"]
    BY <1>6 DEF Compute, Release, Occupies, Moves
  <2> QED BY <2>1, PassOnFacts
<1>7. ASSUME NEW e \in Executors, Index(e) PROVE Placed'
  BY <1>0, <1>7 DEF Index, Moves, TakeFree, RegisterExecutor, Go, Callers
<1>8. ASSUME EndIndexing PROVE Placed'
  BY <1>8 DEF EndIndexing, vars
<1>9. ASSUME Prepared \/ Stop \/ Lifecycle \/ UNCHANGED allVars PROVE Placed'
  <2>1. UNCHANGED <<pc, at>>
    BY <1>9 DEF Prepared, Stop, Lifecycle, TakeEngine, WorkerEnded, Leave, Seal, Shutdown,
       JoinPreparation, JoinWorker, JoinRequests, CloseEngine, allVars, vars, serviceVars
  <2> QED BY <2>1
<1> QED BY <1>1, <1>2, <1>3, <1>4, <1>5, <1>6, <1>7, <1>8, <1>9 DEF ServiceNext, Work, Abandon, Propagate, Callers

LEMMA JoinedStep == Placed /\ Joined /\ [ServiceNext]_allVars => Joined'
<1> SUFFICES ASSUME Placed, Joined, [ServiceNext]_allVars PROVE Joined'
  OBVIOUS
<1> USE AdmissionAssumption DEF Placed, Joined
<1>1. ASSUME NEW q \in Queries, Arrive(q) \/ Search(q) \/ Respond(q) PROVE Joined'
  <2>1. UNCHANGED Handlers /\ main \notin {"engine", "returned"}
    BY <1>1 DEF Arrive, Search, Respond, Handlers
  <2>2. \A e \in Executors : at'[e] = at[e]
    BY <1>1 DEF Arrive, Search, Respond, Moves, Callers
  <2> QED BY <2>1, <2>2 DEF Handlers
<1>2. ASSUME UNCHANGED serviceVars PROVE Joined'
  BY <1>2 DEF serviceVars
<1>3. ASSUME NEW c \in Callers, EnterNative(c) \/ Compute(c) PROVE Joined'
  <2>1. UNCHANGED Handlers /\ at[c] \in {"searching", "native"} /\ \A d \in Callers : d # c => at'[d] = at[d]
    BY <1>3 DEF EnterNative, Compute, Moves
  <2>2. c \in Queries => main \notin {"engine", "returned"}
    BY <2>1
  <2>3. c \in Executors => worker = "running"
    BY <2>1
  <2> QED BY <2>1, <2>2, <2>3 DEF Handlers, Callers
<1>4. ASSUME NEW e \in Executors, Index(e) PROVE Joined'
  BY <1>4 DEF Index, Moves, Handlers, Callers
<1>5. ASSUME EndIndexing PROVE Joined'
  BY <1>5 DEF EndIndexing, Callers
<1>6. ASSUME Prepared \/ Stop PROVE Joined'
  BY <1>6 DEF Prepared, Stop
<1>7. ASSUME TakeEngine \/ WorkerEnded \/ Leave \/ Seal \/ Shutdown PROVE Joined'
  BY <1>7 DEF TakeEngine, WorkerEnded, Leave, Seal, Shutdown
<1>8. ASSUME JoinPreparation \/ JoinWorker \/ JoinRequests \/ CloseEngine PROVE Joined'
  BY <1>8 DEF JoinPreparation, JoinWorker, JoinRequests, CloseEngine
<1> QED BY <1>1, <1>2, <1>3, <1>4, <1>5, <1>6, <1>7, <1>8
        DEF ServiceNext, Work, Await, Abandon, Propagate, Lifecycle, allVars

(* The process returns, and closes its database, with nobody of it left: no *)
(* handler, no executor, no preparation, and no engine open.                *)
THEOREM ReturnsAlways == ServiceSpec => []ReturnsAlone
<1>1. ServiceSpec => [](TypeOK /\ SlotInv)
  <2>1. MutualExclusion /\ SlotNeverLost /\ WaitersQueued /\ WorkConserving => SlotInv
    BY DEF SlotInv
  <2> QED BY <2>1, ServiceImplementsAdmission, TypeCorrect, SlotSafety, PTL
<1>2. SlotInv /\ Placed /\ Joined => ReturnsAlone
  <2> SUFFICES ASSUME SlotInv, Placed, Joined, main = "returned" PROVE ReturnsAlone
    BY DEF ReturnsAlone
  <2>1. \A c \in Callers : at[c] = "out" /\ pc[c] = "idle"
    BY DEF Placed, Joined, Callers
  <2>2. ~active
    BY <2>1 DEF SlotInv, SlotNeverLost, Occupies
  <2> QED BY <2>1, <2>2 DEF ReturnsAlone, Joined
<1> QED BY <1>1, <1>2, PlacedInitially, PlacedStep, JoinedStep, PTL DEF ServiceSpec
=============================================================================
