------------------------------ MODULE Accounts ------------------------------
(* Accounts and their credentials (apps/server/internal/auth): browser      *)
(* sessions, paired devices, tokens, one-use invitations, and changes of a  *)
(* password, which end every other authority.                               *)
(*                                                                          *)
(* Requests verify passwords and resolve credentials outside the            *)
(* transaction that acts on them. Each is two steps or more, and everything *)
(* else may happen between; transactions are immediate and so one step      *)
(* each.                                                                    *)
EXTENDS Naturals, Sequences, FiniteSets

CONSTANTS
    Users,
    Tabs, Browsers,   \* Tabs send requests, those of one browser share a cookie
    Pairings,         \* device codes that may be asked for
    None,
    MaxBrowserSessions, MaxDevices, MaxTokens,
    MaxMinted,        \* bound of the model: credentials ever created
    MaxEpoch,         \* bound of the model: passwords of one account
    MaxInvitations    \* bound of the model: links issued for one account

ASSUME AccountsAssumption ==
    /\ MaxBrowserSessions \in Nat \ {0}
    /\ MaxEpoch \in Nat \ {0}
    /\ {MaxDevices, MaxTokens, MaxMinted, MaxInvitations} \subseteq Nat
    /\ None \notin Users \cup Tabs \cup Browsers \cup Pairings

VARIABLES
    invited,   \* users imported without a password; the others may register
    epoch,     \* users.password_hash: 0 is UnclaimedPassword, each change is new
    minted,    \* auth_sessions and upload_tokens ever inserted, in that order
    live,      \* those with authority: not deleted, revoked or expired
    pair,      \* device_requests
    link,      \* account_invitations: the last link issued and whether it is usable
    browser,   \* whose cookie a tab sends
    cookie,    \* the session cookie of a browser
    req        \* the request of a tab between its reads and its transaction

vars == <<invited, epoch, minted, live, pair, link, browser, cookie, req>>

Unclaimed == 0

Kinds == {"browser", "device", "token"}

(* How a credential came to be: by a password, from a session, or by a      *)
(* grant that is meant to be used once, a pairing or the number-th link.    *)
Grants == [by: {"password", "session", "pairing", "invitation"},
           pairing: Pairings \cup {None}, number: 0..MaxInvitations]

By(way) == [by |-> way, pairing |-> None, number |-> 0]

Credential == [user: Users, kind: Kinds, epoch: 0..MaxEpoch, grant: Grants]

NoPairing == [state |-> "none", owner |-> None, epoch |-> 0]

Idle == [pc |-> "idle", user |-> None, session |-> 0, seen |-> 0, cookie |-> 0]

TypeOK ==
    /\ invited \subseteq Users
    /\ epoch \in [Users -> 0..MaxEpoch]
    /\ minted \in Seq(Credential) /\ Len(minted) <= MaxMinted
    /\ live \subseteq DOMAIN minted
    /\ pair \in [Pairings -> [state: {"none", "open", "approved", "denied",
                                      "consumed", "expired"},
                              owner: Users \cup {None}, epoch: 0..MaxEpoch]]
    /\ link \in [Users -> [number: 0..MaxInvitations, usable: BOOLEAN]]
    /\ browser \in [Tabs -> Browsers]
    /\ cookie \in [Browsers -> 0..Len(minted)]
    /\ req \in [Tabs -> [pc: {"idle", "resolved", "login", "change", "claim"},
                         user: Users \cup {None}, session: 0..Len(minted),
                         seen: 0..(MaxEpoch + MaxInvitations),
                         cookie: 0..Len(minted)]]

(***************************************************************************)
(* Credentials                                                             *)
(***************************************************************************)
OfKind(u, kind) == {i \in live : minted[i].user = u /\ minted[i].kind = kind}

IsLive(i, kind) == i \in live /\ minted[i].kind = kind

Room == Len(minted) < MaxMinted

Mint(u, kind, e, grant) ==
    minted' = Append(minted, [user |-> u, kind |-> kind, epoch |-> e, grant |-> grant])

Fresh == Len(minted) + 1

(* The browser sessions of u but the newest n, counted among those left. *)
Oldest(u, kept, n) ==
    {i \in OfKind(u, "browser") \cap kept :
        Cardinality({j \in OfKind(u, "browser") \cap kept : j > i}) >= n}

(* The session the request's cookie named ends, whoever's it was, and the   *)
(* oldest sessions of the user make room for the new one.                   *)
newBrowserSession(u, e, grant, previous) ==
    LET kept == {i \in live : ~ (i = previous /\ minted[i].kind = "browser")}
    IN  /\ Room
        /\ Mint(u, "browser", e, grant)
        /\ live' = (kept \ Oldest(u, kept, MaxBrowserSessions - 1)) \cup {Fresh}

(* The answer that carries the new cookie arrives, or is lost. *)
Answered(t) ==
    \/ cookie' = [cookie EXCEPT ![browser[t]] = Fresh]
    \/ UNCHANGED cookie

(***************************************************************************)
(* Requests of a browser                                                   *)
(***************************************************************************)
End(t) == req' = [req EXCEPT ![t] = Idle]

(* A request may end at any point without its transaction. *)
Abandon(t) ==
    /\ req[t].pc # "idle"
    /\ End(t)
    /\ UNCHANGED <<invited, epoch, minted, live, pair, link, browser, cookie>>

Register(t, u) ==
    /\ req[t].pc = "idle"
    /\ u \notin invited /\ epoch[u] = 0
    /\ epoch' = [epoch EXCEPT ![u] = 1]
    /\ newBrowserSession(u, 1, By("password"), cookie[browser[t]])
    /\ Answered(t)
    /\ UNCHANGED <<invited, pair, link, browser, req>>

(* The hash is read and verified. No password verifies against an unclaimed *)
(* account.                                                                 *)
VerifyLogin(t, u) ==
    /\ req[t].pc = "idle"
    /\ epoch[u] # Unclaimed
    /\ req' = [req EXCEPT ![t] = [Idle EXCEPT !.pc = "login", !.user = u,
                                  !.seen = epoch[u], !.cookie = cookie[browser[t]]]]
    /\ UNCHANGED <<invited, epoch, minted, live, pair, link, browser, cookie>>

(* Mutant: what was verified before the transaction is trusted in it. *)
HashCurrent_Trusted(u, seen) == TRUE

HashCurrent(u, seen) == epoch[u] = seen

Login(t) ==
    LET r == req[t] IN
    /\ r.pc = "login"
    /\ HashCurrent(r.user, r.seen)
    /\ newBrowserSession(r.user, r.seen, By("password"), r.cookie)
    /\ Answered(t)
    /\ End(t)
    /\ UNCHANGED <<invited, epoch, pair, link, browser>>

(* A handler starts by resolving the cookie to a principal. *)
Resolve(t) ==
    LET i == cookie[browser[t]] IN
    /\ req[t].pc = "idle"
    /\ IsLive(i, "browser")
    /\ req' = [req EXCEPT ![t] = [Idle EXCEPT !.pc = "resolved", !.session = i,
                                  !.user = minted[i].user, !.cookie = i]]
    /\ UNCHANGED <<invited, epoch, minted, live, pair, link, browser, cookie>>

(* What a privileged transaction looks at again. *)
activeBrowserSession(r) == IsLive(r.session, "browser")

VerifyChange(t) ==
    /\ req[t].pc = "resolved"
    /\ req' = [req EXCEPT ![t].pc = "change", ![t].seen = epoch[req[t].user]]
    /\ UNCHANGED <<invited, epoch, minted, live, pair, link, browser, cookie>>

(* Every other session, every token and every approved pairing of the user  *)
(* ends with the old password.                                              *)
EndOtherAuthority(u, session) ==
    /\ live' = {i \in live : minted[i].user # u \/ i = session}
    /\ pair' = [p \in Pairings |->
                   IF pair[p].state = "approved" /\ pair[p].owner = u
                   THEN [pair[p] EXCEPT !.state = "denied"] ELSE pair[p]]

ChangePassword(t) ==
    LET r == req[t] IN
    /\ r.pc = "change"
    /\ HashCurrent(r.user, r.seen)
    /\ activeBrowserSession(r)
    /\ epoch[r.user] < MaxEpoch
    /\ epoch' = [epoch EXCEPT ![r.user] = @ + 1]
    /\ minted' = [minted EXCEPT ![r.session].epoch = epoch[r.user] + 1]
    /\ EndOtherAuthority(r.user, r.session)
    /\ End(t)
    /\ UNCHANGED <<invited, link, browser, cookie>>

Logout(t) ==
    /\ req[t].pc = "resolved"
    /\ live' = live \ {req[t].session}
    /\ cookie' = [cookie EXCEPT ![browser[t]] = 0]
    /\ End(t)
    /\ UNCHANGED <<invited, epoch, minted, pair, link, browser>>

MintToken(t) ==
    LET r == req[t] IN
    /\ r.pc = "resolved"
    /\ activeBrowserSession(r)
    /\ Cardinality(OfKind(r.user, "token")) < MaxTokens
    /\ Room
    /\ Mint(r.user, "token", minted[r.session].epoch, By("session"))
    /\ live' = live \cup {Fresh}
    /\ End(t)
    /\ UNCHANGED <<invited, epoch, pair, link, browser, cookie>>

(* RevokeToken and RevokeDevice: of a credential of the caller's own. *)
Revoke(t, i) ==
    /\ req[t].pc = "resolved"
    /\ i \in live /\ minted[i].user = req[t].user /\ minted[i].kind # "browser"
    /\ live' = live \ {i}
    /\ End(t)
    /\ UNCHANGED <<invited, epoch, minted, pair, link, browser, cookie>>

(***************************************************************************)
(* Pairing                                                                 *)
(***************************************************************************)
RequestDevice(p) ==
    /\ pair[p].state = "none"
    /\ pair' = [pair EXCEPT ![p].state = "open"]
    /\ UNCHANGED <<invited, epoch, minted, live, link, browser, cookie, req>>

(* A pairing belongs to the first account that answers it. The approval may *)
(* be repeated, or withdrawn while it is not consumed.                      *)
ApproveDevice(t, p, approve) ==
    LET r == req[t] IN
    /\ r.pc = "resolved"
    /\ activeBrowserSession(r)
    /\ \/ pair[p].state = "open"
       \/ pair[p].state = "approved" /\ pair[p].owner = r.user
    /\ pair' = [pair EXCEPT ![p] =
                   [state |-> IF approve THEN "approved" ELSE "denied",
                    owner |-> r.user, epoch |-> minted[r.session].epoch]]
    /\ End(t)
    /\ UNCHANGED <<invited, epoch, minted, live, link, browser, cookie>>

(* Mutant: the pairing stays approved. *)
Consume_Left(p) == UNCHANGED pair

(* The transaction of a poll that finds its pairing approved and consumes   *)
(* it; any other poll changes nothing.                                      *)
Consume(p) == pair' = [pair EXCEPT ![p].state = "consumed"]

PollDevice(p) ==
    LET u == pair[p].owner IN
    /\ pair[p].state = "approved"
    /\ Cardinality(OfKind(u, "device")) < MaxDevices
    /\ Room
    /\ Mint(u, "device", pair[p].epoch, [By("pairing") EXCEPT !.pairing = p])
    /\ live' = live \cup {Fresh}
    /\ Consume(p)
    /\ UNCHANGED <<invited, epoch, link, browser, cookie, req>>

(* A device ends its own session. *)
DisconnectDevice(i) ==
    /\ IsLive(i, "device")
    /\ live' = live \ {i}
    /\ UNCHANGED <<invited, epoch, minted, pair, link, browser, cookie, req>>

(***************************************************************************)
(* Invitations, issued by the operator's process                           *)
(***************************************************************************)
IssueInvitation(u) ==
    /\ u \in invited /\ epoch[u] = Unclaimed
    /\ link[u].number < MaxInvitations
    /\ link' = [link EXCEPT ![u] = [number |-> @.number + 1, usable |-> TRUE]]
    /\ UNCHANGED <<invited, epoch, minted, live, pair, browser, cookie, req>>

LinkUsable(u, n) == epoch[u] = Unclaimed /\ link[u].number = n /\ link[u].usable

(* A browser signed in to another account is refused. *)
VerifyClaim(t, u) ==
    LET i == cookie[browser[t]] IN
    /\ req[t].pc = "idle"
    /\ IsLive(i, "browser") => minted[i].user = u
    /\ LinkUsable(u, link[u].number)
    /\ req' = [req EXCEPT ![t] = [Idle EXCEPT !.pc = "claim", !.user = u,
                                  !.seen = link[u].number, !.cookie = i]]
    /\ UNCHANGED <<invited, epoch, minted, live, pair, link, browser, cookie>>

ClaimInvitation(t) ==
    LET r == req[t] IN
    /\ r.pc = "claim"
    /\ LinkUsable(r.user, r.seen)
    /\ epoch' = [epoch EXCEPT ![r.user] = 1]
    /\ link' = [link EXCEPT ![r.user].usable = FALSE]
    /\ newBrowserSession(r.user, 1, [By("invitation") EXCEPT !.number = r.seen], r.cookie)
    /\ Answered(t)
    /\ End(t)
    /\ UNCHANGED <<invited, pair, browser>>

(***************************************************************************)
(* Time                                                                    *)
(***************************************************************************)
SessionExpires(i) ==
    /\ i \in live /\ minted[i].kind # "token"
    /\ live' = live \ {i}
    /\ UNCHANGED <<invited, epoch, minted, pair, link, browser, cookie, req>>

PairingExpires(p) ==
    /\ pair[p].state \in {"open", "approved"}
    /\ pair' = [pair EXCEPT ![p].state = "expired"]
    /\ UNCHANGED <<invited, epoch, minted, live, link, browser, cookie, req>>

LinkExpires(u) ==
    /\ link[u].usable
    /\ link' = [link EXCEPT ![u].usable = FALSE]
    /\ UNCHANGED <<invited, epoch, minted, live, pair, browser, cookie, req>>

(***************************************************************************)
(* The specification                                                       *)
(***************************************************************************)
Init ==
    /\ invited \in SUBSET Users
    /\ epoch = [u \in Users |-> 0]
    /\ minted = <<>> /\ live = {}
    /\ pair = [p \in Pairings |-> NoPairing]
    /\ link = [u \in Users |-> [number |-> 0, usable |-> FALSE]]
    /\ browser \in [Tabs -> Browsers]
    /\ cookie = [b \in Browsers |-> 0]
    /\ req = [t \in Tabs |-> Idle]

BrowserStep ==
    \E t \in Tabs :
        \/ Abandon(t) \/ Resolve(t) \/ Login(t) \/ VerifyChange(t) \/ ChangePassword(t)
        \/ Logout(t) \/ MintToken(t) \/ ClaimInvitation(t)
        \/ \E u \in Users : Register(t, u) \/ VerifyLogin(t, u) \/ VerifyClaim(t, u)
        \/ \E i \in live : Revoke(t, i)
        \/ \E p \in Pairings, approve \in BOOLEAN : ApproveDevice(t, p, approve)

OperatorStep == \E u \in Users : IssueInvitation(u)

TimeStep ==
    \/ \E i \in live : SessionExpires(i)
    \/ \E p \in Pairings : PairingExpires(p)
    \/ \E u \in Users : LinkExpires(u)

DeviceStep ==
    \/ \E p \in Pairings : RequestDevice(p) \/ PollDevice(p)
    \/ \E i \in live : DisconnectDevice(i)

Next == BrowserStep \/ OperatorStep \/ TimeStep \/ DeviceStep

Spec == Init /\ [][Next]_vars

(***************************************************************************)
(* Properties                                                              *)
(***************************************************************************)
(* A change of password ends all authority that rests on the old one, also  *)
(* what was on its way when it happened: a login or a claim that had        *)
(* verified the old password, a token or an approval asked for by a session *)
(* it ended, a poll of a pairing approved before. Whatever may act for an   *)
(* account, or may still become a credential of it, rests on its current    *)
(* password (accounts.go, Login and ChangePassword).                        *)
AuthorityIsCurrent ==
    /\ \A i \in live : minted[i].epoch = epoch[minted[i].user]
    /\ \A p \in Pairings :
           pair[p].state = "approved" => pair[p].epoch = epoch[pair[p].owner]

(* A grant meant for one use yields one credential: two polls of one        *)
(* approved pairing, or two claims of one invitation, or of a link and the  *)
(* one it was rotated to, never both succeed; and a claim succeeds only     *)
(* with the last link issued (devices.go, PollDevice; invitations.go).      *)
GrantsUsedOnce ==
    \A i \in DOMAIN minted :
        /\ minted[i].grant.by = "pairing" =>
               \A j \in DOMAIN minted : minted[i].grant = minted[j].grant => i = j
        /\ minted[i].grant.by = "invitation" =>
               /\ minted[i].grant.number = link[minted[i].user].number
               /\ \A j \in DOMAIN minted :
                      minted[i].grant = minted[j].grant /\ minted[i].user = minted[j].user
                        => i = j
=============================================================================
