---------------------------- MODULE OwnedLibrary ----------------------------
(***************************************************************************)
(* What the server promises about an owner's media, without requests,       *)
(* locks, receipts, files or crashes: saving, trashing, restoring and       *)
(* purging each happen at one moment; an asset is readable from the moment  *)
(* it is saved to the moment it is purged; a purge is final.                *)
(***************************************************************************)
CONSTANTS Ids, Owners, Contents, Nobody

VARIABLES
    state,      (* "none", "live", "trashed" or "purged", for every identifier *)
    identity,   (* owner and content of a retained asset                       *)
    readable    (* assets whose original and poster can be read back           *)

libraryVars == <<state, identity, readable>>

Kept(a) == state[a] \in {"live", "trashed"}

Init ==
    /\ state = [a \in Ids |-> "none"]
    /\ identity = [a \in Ids |-> <<Nobody, Nobody>>]
    /\ readable = {}

(* Content an owner already keeps, in trash or not, is not saved again. *)
Save(a, o, c) ==
    /\ state[a] = "none"
    /\ \A b \in Ids : Kept(b) => identity[b] # <<o, c>>
    /\ state' = [state EXCEPT ![a] = "live"]
    /\ identity' = [identity EXCEPT ![a] = <<o, c>>]
    /\ readable' = readable \cup {a}

Trash(a) ==
    /\ state[a] = "live"
    /\ state' = [state EXCEPT ![a] = "trashed"]
    /\ UNCHANGED <<identity, readable>>

Restore(a) ==
    /\ state[a] = "trashed"
    /\ state' = [state EXCEPT ![a] = "live"]
    /\ UNCHANGED <<identity, readable>>

(* Only trash is purged. *)
Purge(a) ==
    /\ state[a] = "trashed"
    /\ state' = [state EXCEPT ![a] = "purged"]
    /\ identity' = [identity EXCEPT ![a] = <<Nobody, Nobody>>]
    /\ readable' = readable \ {a}

Next ==
    \E a \in Ids :
        \/ \E o \in Owners, c \in Contents : Save(a, o, c)
        \/ Trash(a) \/ Restore(a) \/ Purge(a)

Spec == Init /\ [][Next]_libraryVars
=============================================================================
