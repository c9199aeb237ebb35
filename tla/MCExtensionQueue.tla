-------------------------- MODULE MCExtensionQueue --------------------------
EXTENDS ExtensionQueueRefinement, TLC

Symmetry ==
    Permutations(Jobs) \cup Permutations(Instances) \cup Permutations(Users)

(* Two captures and a worker that is ended among their saves. *)
Crashes == [attempts |-> 1, queue |-> 2, captures |-> 2, exits |-> 1, sessions |-> 0,
            timeouts |-> FALSE, checks |-> FALSE, ageing |-> FALSE]

(* Two captures that compete for one place, and one change of account. *)
Contest == [attempts |-> 1, queue |-> 1, captures |-> 2, exits |-> 0, sessions |-> 1,
            timeouts |-> FALSE, checks |-> FALSE, ageing |-> FALSE]

(* One capture, and two changes: to the other instance, and a user there. *)
Moves == [attempts |-> 1, queue |-> 1, captures |-> 1, exits |-> 0, sessions |-> 2,
          timeouts |-> FALSE, checks |-> FALSE, ageing |-> FALSE]

(* One capture, retried and ended by the browser. *)
Failures == [attempts |-> 2, queue |-> 1, captures |-> 1, exits |-> 1, sessions |-> 0,
             timeouts |-> FALSE, checks |-> FALSE, ageing |-> FALSE]

(* One capture that is checked in vain and grows old, in the queue or after
   it has failed. *)
Ages == [attempts |-> 1, queue |-> 1, captures |-> 1, exits |-> 0, sessions |-> 0,
         timeouts |-> FALSE, checks |-> TRUE, ageing |-> TRUE]

(* One capture whose attempts may time out. *)
Delays == [attempts |-> 2, queue |-> 1, captures |-> 1, exits |-> 0, sessions |-> 0,
           timeouts |-> TRUE, checks |-> FALSE, ageing |-> FALSE]

(* One attempt that may time out, and an end of the worker. *)
Delayed == [Delays EXCEPT !.attempts = 1, !.exits = 1]

(* Two captures, whose attempts may time out. *)
Overlaps == [attempts |-> 2, queue |-> 2, captures |-> 2, exits |-> 0, sessions |-> 0,
             timeouts |-> TRUE, checks |-> FALSE, ageing |-> FALSE]

SeveralScopes == {Crashes, Contest, Moves, Failures, Ages, Delays, Delayed}
OverlapsOnly == {Overlaps}
=============================================================================
