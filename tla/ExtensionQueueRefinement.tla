---------------------- MODULE ExtensionQueueRefinement ----------------------
(* The save queue of the extension implements an outbox. *)
EXTENDS ExtensionQueue

(* A capture is the queue's once it was acknowledged; one that is neither   *)
(* stored nor over has no place in an outbox.                               *)
Stage(j) ==
    IF jobs[j].state = "processing" THEN "sending"
    ELSE IF j \in Present(jobs) THEN "kept"
    ELSE IF j \in ended THEN "over"
    ELSE IF j \in kept THEN "lost" ELSE "none"

Outbox == INSTANCE Outbox WITH
    Captures <- Jobs, Promised <- Jobs, stage <- [j \in Jobs |-> Stage(j)],
    landed <- [j \in Jobs |-> {a \in Accounts : <<j, a>> \in landed}]

(* Whatever the worker, the connection and the copies of the queue do, each *)
(* capture is kept, sent and settled: one that is being saved leaves the    *)
(* queue only after it landed, and none that left comes back.               *)
ImplementsOutbox == Outbox!Spec
=============================================================================
