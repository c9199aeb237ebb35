------------------------------- MODULE Outbox -------------------------------
(***************************************************************************)
(* What a client that saves captures for its user promises, without pages,  *)
(* workers, claims, accounts that change, timeouts or crashes: a capture it *)
(* has taken is kept, or is being sent, until it is over; while it is being *)
(* sent it is over only by having landed, and what is over stays over.      *)
(* Whatever is sent, twice or late, lands with one account.  Captures move  *)
(* independently of each other, several of them at once if need be.         *)
(***************************************************************************)
CONSTANTS
    Captures, Accounts,
    Promised    \* of them, those that are kept from the moment they are taken

VARIABLES
    stage,      (* "none" before it is taken, "kept", "sending" or "over"   *)
    landed      (* the accounts that have it                                *)

outboxVars == <<stage, landed>>

Stages == {"none", "kept", "sending", "over"}

Init ==
    /\ stage = [c \in Captures |-> "none"]
    /\ landed = [c \in Captures |-> {}]

Moves(c, from, to) == stage[c] = from /\ stage'[c] = to

Take(c) == Moves(c, "none", "kept")

(* An attempt has a capture to itself, until it is given up or interrupted. *)
Send(c) == Moves(c, "kept", "sending")
PutBack(c) == Moves(c, "sending", "kept")

(* Only what has landed is settled. *)
Settle(c) == Moves(c, "sending", "over") /\ landed'[c] # {}

(* Its user drops it, or its place is reclaimed. *)
GiveUp(c) == Moves(c, "kept", "over")

(* Its user drops what could not be kept and was not promised. *)
Decline(c) == Moves(c, "none", "over") /\ c \notin Promised

Rest(c) == stage'[c] = stage[c]

(* An answer may never have come, and a request may arrive at any time. *)
Land(c) ==
    /\ stage[c] # "none"
    /\ \E a \in Accounts : landed[c] \subseteq {a} /\ landed'[c] = {a}

Next ==
    /\ stage' \in [Captures -> Stages] /\ landed' \in [Captures -> SUBSET Accounts]
    /\ \A c \in Captures :
         /\ Rest(c) \/ Take(c) \/ Send(c) \/ PutBack(c) \/ Settle(c) \/ GiveUp(c)
            \/ Decline(c)
         /\ landed'[c] = landed[c] \/ Land(c)

Spec == Init /\ [][Next]_outboxVars
=============================================================================
