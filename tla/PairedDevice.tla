---------------------------- MODULE PairedDevice ----------------------------
(* The accounts of a server together with one browser extension that pairs  *)
(* with it, polls, is disconnected and may be suspended at any point        *)
(* (apps/extension/entrypoints/background/auth-manager.ts).                 *)
(*                                                                          *)
(* Operations of the extension run one at a time (exclusively). A request   *)
(* outlives the operation that sent it: the server may handle it after the  *)
(* operation's deadline or after its worker ended, and its answer is then   *)
(* lost.                                                                    *)
EXTENDS Accounts

VARIABLES
    conn,       \* the stored connection: a pending pairing, or a session
    x,          \* the operation at the head of the exclusive chain
    sent,       \* requests the server has yet to handle
    delivered   \* history: sessions the connection has held

device == <<conn, x, sent, delivered>>
allVars == <<vars, device>>

NoConnection == [pending |-> None, session |-> 0]
AtRest == [pc |-> "idle", about |-> None, answer |-> "none"]

(* x.about is the pairing or the session the operation asked about. *)
DeviceTypeOK ==
    /\ conn \in [pending: Pairings \cup {None}, session: 0..Len(minted)]
    /\ x.pc \in {"idle", "pairing", "poll", "disconnect"}
    /\ x.answer \in {"none", "ok", "wait", "ended"}
    /\ delivered \subseteq DOMAIN minted

Waits(pc, about) == x.pc = pc /\ x.about = about /\ x.answer = "none"

Ask(pc, about) ==
    /\ x' = [pc |-> pc, about |-> about, answer |-> "none"]
    /\ sent' = sent \cup {<<pc, about>>}

(* The server has handled a request; the answer reaches the operation that  *)
(* sent it, if that is still waiting, or nobody.                            *)
Handled(pc, about, answer) ==
    /\ sent' = sent \ {<<pc, about>>}
    /\ \/ Waits(pc, about) /\ x' = [x EXCEPT !.answer = answer]
       \/ UNCHANGED x
    /\ UNCHANGED <<conn, delivered>>

Done(c) ==
    /\ conn' = c
    /\ x' = AtRest
    /\ UNCHANGED <<vars, sent>>

(***************************************************************************)
(* The extension                                                           *)
(***************************************************************************)
StartPairing(p) ==
    /\ x.pc = "idle" /\ conn = NoConnection
    /\ pair[p].state = "none" /\ <<"pairing", p>> \notin sent
    /\ Ask("pairing", p)
    /\ UNCHANGED <<vars, conn, delivered>>

SavePairing ==
    /\ x.pc = "pairing" /\ x.answer = "ok"
    /\ Done([NoConnection EXCEPT !.pending = x.about])
    /\ UNCHANGED delivered

StartPoll ==
    /\ x.pc = "idle" /\ conn.pending # None
    /\ Ask("poll", conn.pending)
    /\ UNCHANGED <<vars, conn, delivered>>

(* The credential was minted for this pairing. *)
CredentialOf(p) == {i \in DOMAIN minted : minted[i].grant.pairing = p}

SaveSession ==
    /\ x.pc = "poll" /\ x.answer = "ok"
    /\ \E i \in CredentialOf(x.about) :
          /\ Done([NoConnection EXCEPT !.session = i])
          /\ delivered' = delivered \cup {i}

PollAgain == x.pc = "poll" /\ x.answer = "wait" /\ Done(conn) /\ UNCHANGED delivered

(* Denied or expired at the server. *)
PollEnded == x.pc = "poll" /\ x.answer = "ended" /\ Done(NoConnection) /\ UNCHANGED delivered

(* The code's own lifetime or its number of polls is over. *)
PairingOver ==
    /\ x.pc = "idle" /\ conn.pending # None
    /\ Done(NoConnection) /\ UNCHANGED delivered

(* Cancelling a pairing asks nobody; disconnecting asks the server first,   *)
(* and forgets the session only when the server says it is gone.            *)
Cancel ==
    /\ x.pc = "idle" /\ conn.session = 0 /\ conn.pending # None
    /\ Done(NoConnection) /\ UNCHANGED delivered

StartDisconnect ==
    /\ x.pc = "idle" /\ conn.session # 0
    /\ Ask("disconnect", conn.session)
    /\ UNCHANGED <<vars, conn, delivered>>

(* Mutant: the session is forgotten whatever the server said of it. *)
Disconnected_Unanswered ==
    /\ x.pc = "disconnect"
    /\ Done(NoConnection) /\ UNCHANGED delivered

Disconnected ==
    /\ x.pc = "disconnect" /\ x.answer \in {"ok", "ended"}
    /\ Done(NoConnection) /\ UNCHANGED delivered

(* A deadline, an unreachable server, an answer that is neither, or the end *)
(* of the worker before an answer was saved. The connection stays as it is. *)
RequestFails ==
    /\ x.pc # "idle"
    /\ Done(conn) /\ UNCHANGED delivered

(* A request of the session was answered 401, at the start of a worker or   *)
(* to an upload, or the session's lifetime is over by the clock.            *)
Invalidate ==
    /\ x.pc = "idle" /\ conn.session # 0 /\ conn.session \notin live
    /\ Done(NoConnection) /\ UNCHANGED delivered

(***************************************************************************)
(* The server's handlers of its requests                                   *)
(***************************************************************************)
HandlePairing(p) ==
    /\ <<"pairing", p>> \in sent
    /\ RequestDevice(p)
    /\ Handled("pairing", p, "ok")

HandlePoll(p) ==
    /\ <<"poll", p>> \in sent
    /\ \/ PollDevice(p) /\ Handled("poll", p, "ok")
       \/ /\ pair[p].state \in {"open", "approved"}
          /\ UNCHANGED vars /\ Handled("poll", p, "wait")
       \/ /\ pair[p].state \in {"denied", "consumed", "expired"}
          /\ UNCHANGED vars /\ Handled("poll", p, "ended")

HandleDisconnect(i) ==
    /\ <<"disconnect", i>> \in sent
    /\ \/ DisconnectDevice(i) /\ Handled("disconnect", i, "ok")
       \/ i \notin live /\ UNCHANGED vars /\ Handled("disconnect", i, "ended")

(***************************************************************************)
(* The specification                                                       *)
(***************************************************************************)
AllInit ==
    /\ Init
    /\ conn = NoConnection /\ x = AtRest
    /\ sent = {} /\ delivered = {}

ExtensionStep ==
    \/ \E p \in Pairings : StartPairing(p)
    \/ SavePairing \/ StartPoll \/ SaveSession \/ PollAgain \/ PollEnded \/ PairingOver
    \/ Cancel \/ StartDisconnect \/ Disconnected \/ RequestFails \/ Invalidate

HandlerStep ==
    \/ \E p \in Pairings : HandlePairing(p) \/ HandlePoll(p)
    \/ \E i \in DOMAIN minted : HandleDisconnect(i)

AllNext ==
    \/ ExtensionStep \/ HandlerStep
    \/ (BrowserStep \/ OperatorStep \/ TimeStep) /\ UNCHANGED device

AllSpec == AllInit /\ [][AllNext]_allVars

(***************************************************************************)
(* Properties                                                              *)
(***************************************************************************)
(* A session the extension has held and no longer holds has no authority    *)
(* left at the server: a disconnection whose answer was lost, or a 401 that *)
(* arrives late, never leaves a live credential nobody remembers            *)
(* (auth-manager.ts, disconnectDevice and invalidateAuthToken).             *)
ForgottenIsRevoked == \A i \in delivered : conn.session = i \/ i \notin live
=============================================================================
