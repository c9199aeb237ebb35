------------------------ MODULE WebUploadsRefinement ------------------------
(* The pending saves of the web pages are an outbox. *)
EXTENDS WebUploads

InPage(i) == \E t \in Tabs : i \in Memory(t)

(* Under a live claim a capture is being sent; otherwise the store keeps    *)
(* it, and a page keeps a file.  A link that no store has taken yet is not  *)
(* the outbox's: sign-out may discard it.                                   *)
Stage(i) ==
    IF fate[i] = "none" THEN "none"
    ELSE IF store[i].status = "uploading" /\ store[i].live THEN "sending"
    ELSE IF i \in Kept \/ (i \in Files /\ InPage(i)) THEN "kept"
    ELSE IF fate[i] = "dropped" \/ saved[i] # {} THEN "over"
    ELSE IF i \in Files THEN "lost" ELSE "none"

Outbox == INSTANCE Outbox WITH
    Accounts <- Users, Promised <- Files, stage <- [i \in Captures |-> Stage(i)], landed <- saved

(* Whatever the tabs, the sessions and the server's answers do, a capture   *)
(* under a live claim is removed only when it is in a library, and one that *)
(* was removed, by whichever page, is never written back.                   *)
ImplementsOutbox == Outbox!Spec
=============================================================================
