------------------------------- MODULE Service -------------------------------
(***************************************************************************)
(* One run of the server (cmd/sploot/main.go, serve): model preparation,   *)
(* request handlers that search, the indexing executor and the shutdown    *)
(* that joins them, composed with the admission they compute under         *)
(* (ComputeAdmission) and the native engine they share                     *)
(* (internal/inference/engine.go).                                         *)
(*                                                                         *)
(* Abstracted: a handler that does not search only comes and goes; a query *)
(* vector found in the cache is one way of not computing; what the         *)
(* executor claims and stores is Indexing's.                               *)
(***************************************************************************)
EXTENDS ComputeAdmission

VARIABLES
    main,      \* how far serve has come
    ctx,       \* the service context: live, or cancelled by a signal or a failure
    accepting, \* request admission
    prep,      \* the goroutine that prepares the model
    engine,    \* the native sessions and buffers
    status,    \* what the embedding service says of its model
    worker,    \* the indexing goroutine
    at         \* caller -> where its handler, or its iteration, is

serviceVars == <<main, ctx, accepting, prep, engine, status, worker, at>>
allVars == <<vars, serviceVars>>

ServiceTypeOK ==
    /\ TypeOK
    /\ main \in {"serving", "sealing", "shutdown", "prepare", "worker", "requests", "engine",
                 "returned"}
    /\ ctx \in {"live", "cancelled"} /\ accepting \in BOOLEAN
    /\ prep \in {"running", "ready", "failed", "joined"}
    /\ engine \in {"none", "open", "closed"}
    /\ status \in {"loading", "ready", "unavailable"}
    /\ worker \in {"none", "running", "ended", "joined"}
    /\ at \in [Callers -> {"out", "in", "searching", "native"}]

ServiceInit ==
    /\ Init
    /\ main = "serving" /\ ctx = "live" /\ accepting = TRUE
    /\ prep = "running" /\ engine = "none" /\ status = "loading" /\ worker = "none"
    /\ at = [c \in Callers |-> "out"]

Moves(c, to) == at' = [at EXCEPT ![c] = to]
Handlers == <<main, ctx, accepting, prep, engine, status, worker>>

----------------------------------------------------------------------------
(* Requests.                                                                *)

(* Counted under the mutex that also seals admission.                       *)
Arrive(q) ==
    /\ q \in Queries /\ at[q] = "out" /\ accepting
    /\ Moves(q, "in")
    /\ UNCHANGED <<vars, Handlers>>

(* queryVector: an available model, then the slot or a place in the queue.  *)
Search(q) ==
    /\ q \in Queries /\ at[q] = "in" /\ status = "ready"
    /\ TakeFree(q) \/ EnqueueQuery(q) \/ Busy(q)
    /\ Moves(q, "searching")
    /\ UNCHANGED Handlers

(* Anything else a handler does: no search, a cached vector, an unavailable *)
(* model; or the end of the search.                                         *)
Respond(q) ==
    /\ q \in Queries /\ pc[q] = "idle" /\ at[q] \in {"in", "searching"}
    /\ Moves(q, "out")
    /\ UNCHANGED <<vars, Handlers>>

(* A client leaves or a wait expires; a request's context is also a child   *)
(* of the service's, the executor's is nothing else.                        *)
Abandon(q) ==
    /\ q \in Queries /\ Cancel(q)
    /\ UNCHANGED serviceVars
Propagate(c) ==
    /\ ctx = "cancelled" /\ Cancel(c)
    /\ UNCHANGED serviceVars

(* Waiting for the slot, as in ComputeAdmission.                            *)
Await(c) ==
    /\ WakeGranted(c) \/ WithdrawQuery(c) \/ WithdrawExecutor(c) \/ Enter(c) \/ GiveBack(c)
    /\ UNCHANGED serviceVars

(* Engine.Text or Engine.Image under the slot; a run cannot be interrupted. *)
EnterNative(c) ==
    /\ pc[c] = "holding" /\ at[c] = "searching" /\ c \notin cancelled
    /\ engine = "open"
    /\ Moves(c, "native")
    /\ UNCHANGED <<vars, Handlers>>

Compute(c) ==
    /\ pc[c] = "holding"
    /\ \/ at[c] = "native"
       \/ at[c] = "searching"      \* cached meanwhile, cancelled, or unavailable
    /\ Release(c)
    /\ Moves(c, "searching")
    /\ UNCHANGED Handlers

----------------------------------------------------------------------------
(* The indexing goroutine.                                                  *)

Index(e) ==
    /\ e \in Executors /\ worker = "running" /\ pc[e] = "idle" /\ ctx = "live"
    /\ TakeFree(e) \/ RegisterExecutor(e)
    /\ Moves(e, "searching")
    /\ UNCHANGED Handlers

EndIndexing ==
    /\ worker = "running" /\ \A e \in Executors : pc[e] = "idle"
    /\ worker' = "ended"
    /\ at' = [c \in Callers |-> IF c \in Executors THEN "out" ELSE at[c]]
    /\ UNCHANGED <<vars, main, ctx, accepting, prep, engine, status>>

----------------------------------------------------------------------------
(* serve: its loop ...                                                      *)

Prepared ==
    /\ prep = "running"
    /\ \/ prep' = "ready" /\ engine' = "open"
       \/ prep' = "failed" /\ UNCHANGED engine
    /\ UNCHANGED <<vars, main, ctx, accepting, status, worker, at>>

TakeEngine ==
    /\ main = "serving" /\ ctx = "live" /\ prep \in {"ready", "failed"}
    /\ prep' = "joined"
    /\ IF prep = "ready" THEN status' = "ready" /\ worker' = "running"
       ELSE status' = "unavailable" /\ UNCHANGED worker
    /\ UNCHANGED <<vars, main, ctx, accepting, engine, at>>

WorkerEnded ==
    /\ main = "serving" /\ ctx = "live" /\ worker = "ended"
    /\ worker' = "joined" /\ status' = "unavailable"
    /\ UNCHANGED <<vars, main, ctx, accepting, prep, engine, at>>

(* A signal, or the listener fails.                                         *)
Stop ==
    /\ ctx = "live"
    /\ ctx' = "cancelled"
    /\ UNCHANGED <<vars, main, accepting, prep, engine, status, worker, at>>

Leave ==
    /\ main = "serving" /\ ctx = "cancelled"
    /\ main' = "sealing"
    /\ UNCHANGED <<vars, ctx, accepting, prep, engine, status, worker, at>>

(* ... and its end: every join waits for what it names.                     *)
Seal ==
    /\ main = "sealing"
    /\ accepting' = FALSE /\ main' = "shutdown"
    /\ UNCHANGED <<vars, ctx, prep, engine, status, worker, at>>

(* Shutdown waits twenty seconds for the handlers and then does not.        *)
Shutdown ==
    /\ main = "shutdown" /\ main' = "prepare"
    /\ UNCHANGED <<vars, ctx, accepting, prep, engine, status, worker, at>>

JoinPreparation ==
    /\ main = "prepare" /\ prep # "running"
    /\ prep' = "joined" /\ main' = "worker"
    /\ UNCHANGED <<vars, ctx, accepting, engine, status, worker, at>>

(* Mutant: the executor is waited for although there is none. *)
JoinWorker_Always ==
    /\ main = "worker" /\ worker = "ended"
    /\ main' = "requests"
    /\ UNCHANGED <<vars, ctx, accepting, prep, engine, status, worker, at>>

JoinWorker ==
    /\ main = "worker" /\ worker # "running"
    /\ main' = "requests"
    /\ UNCHANGED <<vars, ctx, accepting, prep, engine, status, worker, at>>

(* Mutant: a handler that outlives the shutdown's deadline is left behind. *)
JoinRequests_NotJoined ==
    /\ main = "requests" /\ main' = "engine"
    /\ UNCHANGED <<vars, ctx, accepting, prep, engine, status, worker, at>>

JoinRequests ==
    /\ main = "requests" /\ \A q \in Queries : at[q] = "out"
    /\ main' = "engine"
    /\ UNCHANGED <<vars, ctx, accepting, prep, engine, status, worker, at>>

(* Engine.Close waits for the native gate, then frees the buffers.          *)
CloseEngine ==
    /\ main = "engine" /\ \A c \in Callers : at[c] # "native"
    /\ engine' = IF engine = "open" THEN "closed" ELSE engine
    /\ main' = "returned"
    /\ UNCHANGED <<vars, ctx, accepting, prep, status, worker, at>>

----------------------------------------------------------------------------
Work(c) == Await(c) \/ EnterNative(c) \/ Compute(c)
Lifecycle == \/ TakeEngine \/ WorkerEnded \/ Leave \/ Seal \/ Shutdown
             \/ JoinPreparation \/ JoinWorker \/ JoinRequests \/ CloseEngine

ServiceNext ==
    \/ \E q \in Queries : Arrive(q) \/ Search(q) \/ Respond(q) \/ Abandon(q)
    \/ \E c \in Callers : Propagate(c) \/ Work(c)
    \/ \E e \in Executors : Index(e)
    \/ EndIndexing \/ Prepared \/ Stop \/ Lifecycle

ServiceSpec == ServiceInit /\ [][ServiceNext]_allVars

(* Goroutines are scheduled, native runs and preparation end (both are      *)
(* bounded by deadlines), handlers return, contexts reach their children,   *)
(* and an executor whose context ended returns.  Nobody has to call, to     *)
(* leave early or to stop the service.                                      *)
ServiceFairSpec ==
    /\ ServiceSpec
    /\ WF_allVars(Prepared) /\ WF_allVars(Lifecycle)
    /\ WF_allVars(ctx = "cancelled" /\ EndIndexing)
    /\ \A c \in Callers : WF_allVars(Work(c) \/ Propagate(c) \/ Respond(c))

----------------------------------------------------------------------------
(* serve returns, and its caller closes the database, only when nobody of   *)
(* the service is left to use it: no handler, no executor, no preparation;  *)
(* and a prepared engine is closed, also one prepared after the signal      *)
(* (main.go:127 and the joins at its end).                                  *)
ReturnsAlone ==
    main = "returned" =>
        /\ \A c \in Callers : at[c] = "out" /\ pc[c] = "idle"
        /\ prep = "joined" /\ worker # "running" /\ engine # "open"
        /\ ~accepting /\ ~active

(* A cancelled service returns: whoever waits in the admission's queue      *)
(* gives up, and no join waits for somebody who waits for another.          *)
ShutdownCompletes == ctx = "cancelled" ~> main = "returned"
=============================================================================
