---------------------------- MODULE AccountsProofs ----------------------------
(***************************************************************************)
(* Theorems about accounts and the extension paired with them, for any      *)
(* users, browsers, tabs, pairings and limits.                              *)
(***************************************************************************)
EXTENDS PairedDevice, SequenceTheorems, TLAPS

(* A request knows its user, a login verified a password, and the session a *)
(* request resolved its cookie to is one of the user's.                     *)
RequestsKnown ==
    \A t \in Tabs :
        /\ req[t].pc # "idle" => req[t].user \in Users
        /\ req[t].pc = "login" => req[t].seen # 0
        /\ req[t].pc \in {"resolved", "change"} =>
              /\ req[t].session \in DOMAIN minted
              /\ minted[req[t].session].user = req[t].user

(* Credentials and approvals are of accounts that have a password. *)
Claimed ==
    /\ \A i \in DOMAIN minted : epoch[minted[i].user] # 0
    /\ \A p \in Pairings : pair[p].state = "approved" =>
           pair[p].owner \in Users /\ epoch[pair[p].owner] # 0

(* A pairing that yielded a credential is consumed. *)
Spent ==
    \A i \in DOMAIN minted : minted[i].grant.by = "pairing" =>
        /\ minted[i].grant.pairing \in Pairings
        /\ pair[minted[i].grant.pairing].state = "consumed"

AccountsInv ==
    TypeOK /\ RequestsKnown /\ Claimed /\ Spent /\ AuthorityIsCurrent /\ GrantsUsedOnce

-----------------------------------------------------------------------------
(* How a step changes the credentials.                                      *)

(* Nothing is minted, and what has authority still has it, or less. *)
Narrows == minted' = minted /\ live' \subseteq live

LEMMA Elements ==
    ASSUME NEW S, NEW s \in Seq(S)
    PROVE  /\ Len(s) \in Nat /\ DOMAIN s = 1..Len(s)
           /\ \A i \in DOMAIN s : s[i] \in S
  OBVIOUS

LEMMA OwnersAreUsers ==
    ASSUME minted \in Seq(Credential)
    PROVE  \A i \in DOMAIN minted : minted[i].user \in Users
<1>1. \A i \in DOMAIN minted : minted[i] \in Credential
  BY Elements
<1> QED BY <1>1 DEF Credential

LEMMA MintFacts ==
    ASSUME minted \in Seq(Credential), NEW u \in Users, NEW kind \in Kinds,
           NEW e \in 0..MaxEpoch, NEW grant \in Grants, Mint(u, kind, e, grant)
    PROVE  /\ minted' \in Seq(Credential)
           /\ Len(minted') = Len(minted) + 1
           /\ DOMAIN minted' = DOMAIN minted \cup {Fresh}
           /\ Fresh \notin DOMAIN minted
           /\ \A i \in DOMAIN minted : minted'[i] = minted[i]
           /\ minted'[Fresh] = [user |-> u, kind |-> kind, epoch |-> e, grant |-> grant]
<1> DEFINE c == [user |-> u, kind |-> kind, epoch |-> e, grant |-> grant]
<1>1. c \in Credential
  BY DEF Credential
<1> HIDE DEF c
<1>2. minted' = Append(minted, c)
  BY DEF Mint, c
<1>3. /\ minted' \in Seq(Credential) /\ Len(minted') = Len(minted) + 1
      /\ \A i \in 1..Len(minted) : minted'[i] = minted[i]
      /\ minted'[Len(minted) + 1] = c
  BY <1>1, <1>2
<1>4. DOMAIN minted = 1..Len(minted) /\ DOMAIN minted' = 1..Len(minted') /\ Len(minted) \in Nat
  BY <1>3
<1> QED BY <1>3, <1>4 DEF Fresh, c

LEMMA GrantTypes ==
    /\ By("password") \in Grants /\ By("session") \in Grants
    /\ \A p \in Pairings : [By("pairing") EXCEPT !.pairing = p] \in Grants
    /\ \A n \in 0..MaxInvitations : [By("invitation") EXCEPT !.number = n] \in Grants
  BY AccountsAssumption DEF By, Grants

LEMMA AccountsInitially == Init => AccountsInv
<1> SUFFICES ASSUME Init PROVE AccountsInv
  OBVIOUS
<1>1. minted \in Seq(Credential) /\ Len(minted) = 0 /\ DOMAIN minted = {}
  BY DEF Init
<1>2. TypeOK
  BY <1>1, AccountsAssumption DEF Init, TypeOK, NoPairing, Idle
<1>3. RequestsKnown /\ Claimed /\ Spent /\ AuthorityIsCurrent /\ GrantsUsedOnce
  BY <1>1 DEF Init, NoPairing, Idle, RequestsKnown, Claimed, Spent, AuthorityIsCurrent, GrantsUsedOnce
<1> QED BY <1>2, <1>3 DEF AccountsInv

LEMMA MintStep ==
    ASSUME AccountsInv, NEW u \in Users, NEW kind \in Kinds, NEW e \in 0..MaxEpoch,
           NEW grant \in Grants, Mint(u, kind, e, grant),
           live' \subseteq live \cup {Fresh},
           e # 0, epoch[u] \in {0, e}, epoch' = [epoch EXCEPT ![u] = e],
           \A p \in Pairings : pair'[p] = pair[p] \/ pair'[p].state = "consumed",
           \A v \in Users : link'[v].number = link[v].number,
           grant.by = "pairing" =>
               /\ grant.pairing \in Pairings
               /\ pair[grant.pairing].state # "consumed"
               /\ pair'[grant.pairing].state = "consumed",
           grant.by = "invitation" => epoch[u] = 0 /\ link[u].number = grant.number
    PROVE  Claimed' /\ Spent' /\ AuthorityIsCurrent' /\ GrantsUsedOnce'
<1>0. /\ minted \in Seq(Credential) /\ epoch \in [Users -> 0..MaxEpoch] /\ live \subseteq DOMAIN minted
      /\ Claimed /\ Spent /\ AuthorityIsCurrent /\ GrantsUsedOnce
  BY DEF AccountsInv, TypeOK
<1>1. /\ minted' \in Seq(Credential)
      /\ DOMAIN minted' = DOMAIN minted \cup {Fresh} /\ Fresh \notin DOMAIN minted
      /\ \A i \in DOMAIN minted : minted'[i] = minted[i]
      /\ minted'[Fresh].user = u /\ minted'[Fresh].epoch = e /\ minted'[Fresh].grant = grant
  <2> DEFINE c == [user |-> u, kind |-> kind, epoch |-> e, grant |-> grant]
  <2>1. c.user = u /\ c.epoch = e /\ c.grant = grant
    OBVIOUS
  <2>2. /\ minted' \in Seq(Credential)
        /\ DOMAIN minted' = DOMAIN minted \cup {Fresh} /\ Fresh \notin DOMAIN minted
        /\ \A i \in DOMAIN minted : minted'[i] = minted[i]
        /\ minted'[Fresh] = c
    BY <1>0, MintFacts
  <2> QED BY <2>1, <2>2
<1>2. \A i \in DOMAIN minted : minted[i].user \in Users
  BY <1>0, OwnersAreUsers
<1>3. /\ \A i \in DOMAIN minted : minted[i].user = u => epoch[u] = e
      /\ \A p \in Pairings : pair[p].state = "approved" /\ pair[p].owner = u => epoch[u] = e
  BY <1>0 DEF Claimed
<1>4. epoch'[u] = e /\ \A v \in Users : v # u => epoch'[v] = epoch[v]
  BY <1>0
<1>5. Claimed'
  BY <1>0, <1>1, <1>2, <1>4 DEF Claimed
<1>6. Spent'
  BY <1>0, <1>1 DEF Spent
<1>7. AuthorityIsCurrent'
  BY <1>0, <1>1, <1>2, <1>3, <1>4 DEF AuthorityIsCurrent, Claimed
<1>8. GrantsUsedOnce'
  <2>1. \A i \in DOMAIN minted : minted[i].grant.by = "pairing" => minted[i].grant # grant
    BY <1>0 DEF Spent
  <2>2. grant.by = "invitation" => \A i \in DOMAIN minted : minted[i].user # u
    BY <1>0 DEF Claimed
  <2> QED BY <1>0, <1>1, <1>2, <2>1, <2>2 DEF GrantsUsedOnce
<1> QED BY <1>5, <1>6, <1>7, <1>8

LEMMA NarrowStep ==
    ASSUME AccountsInv, Narrows, epoch' = epoch,
           \A p \in Pairings : pair'[p].state = "approved" =>
               \/ pair'[p] = pair[p]
               \/ /\ pair'[p].owner \in Users /\ epoch[pair'[p].owner] # 0
                  /\ pair'[p].epoch = epoch[pair'[p].owner],
           \A p \in Pairings : pair[p].state = "consumed" => pair'[p].state = "consumed",
           \A u \in Users : link'[u].number = link[u].number \/ epoch[u] = 0
    PROVE  Claimed' /\ Spent' /\ AuthorityIsCurrent' /\ GrantsUsedOnce'
<1>0. /\ minted \in Seq(Credential) /\ Claimed /\ Spent /\ AuthorityIsCurrent /\ GrantsUsedOnce
  BY DEF AccountsInv, TypeOK
<1>1. \A i \in DOMAIN minted : minted[i].user \in Users
  BY <1>0, OwnersAreUsers
<1>2. Claimed' /\ Spent'
  BY <1>0 DEF Claimed, Spent, Narrows
<1>3. AuthorityIsCurrent'
  BY <1>0 DEF AuthorityIsCurrent, Narrows
<1>4. GrantsUsedOnce'
  BY <1>0, <1>1 DEF GrantsUsedOnce, Narrows, Claimed
<1> QED BY <1>2, <1>3, <1>4

(* The request of one tab changes, and nobody's credential does. *)
LEMMA RequestStep ==
    ASSUME TypeOK, RequestsKnown, NEW t,
           DOMAIN minted \subseteq DOMAIN minted',
           \A i \in DOMAIN minted : minted'[i].user = minted[i].user,
           \A s \in Tabs : s # t => req'[s] = req[s],
           req'[t].pc # "idle" => req'[t].user \in Users,
           req'[t].pc = "login" => req'[t].seen # 0,
           req'[t].pc \in {"resolved", "change"} =>
               req'[t].session \in DOMAIN minted /\ minted[req'[t].session].user = req'[t].user
    PROVE  RequestsKnown'
  BY DEF RequestsKnown

-----------------------------------------------------------------------------
(* Types. The numbers of a cookie and of a request are of credentials that  *)
(* were minted before.                                                      *)
Pairing == [state: {"none", "open", "approved", "denied", "consumed", "expired"},
            owner: Users \cup {None}, epoch: 0..MaxEpoch]

Request(n) == [pc: {"idle", "resolved", "login", "change", "claim"},
               user: Users \cup {None}, session: 0..n,
               seen: 0..(MaxEpoch + MaxInvitations), cookie: 0..n]

LEMMA TypeMint ==
    ASSUME TypeOK, NEW u \in Users, NEW kind \in Kinds, NEW e \in 0..MaxEpoch,
           NEW grant \in Grants, Mint(u, kind, e, grant), Room,
           live' \subseteq live \cup {Fresh},
           UNCHANGED <<invited, browser>>,
           epoch' \in [Users -> 0..MaxEpoch],
           pair' \in [Pairings -> Pairing],
           link' \in [Users -> [number: 0..MaxInvitations, usable: BOOLEAN]],
           cookie' \in [Browsers -> 0..Fresh],
           req' \in [Tabs -> Request(Len(minted))]
    PROVE  TypeOK'
<1>1. /\ minted' \in Seq(Credential) /\ Len(minted') = Fresh /\ Len(minted) \in Nat
      /\ DOMAIN minted' = DOMAIN minted \cup {Fresh} /\ Fresh = Len(minted) + 1
  <2>1. minted \in Seq(Credential) /\ Len(minted) \in Nat
    BY Elements DEF TypeOK
  <2> QED BY <2>1, MintFacts DEF Fresh
<1>2. Len(minted') <= MaxMinted
  BY <1>1, AccountsAssumption DEF Room
<1>3. 0..Len(minted) \subseteq 0..Fresh
  BY <1>1
<1>4. req' \in [Tabs -> Request(Fresh)]
  BY <1>3 DEF Request
<1> QED BY <1>1, <1>2, <1>4 DEF TypeOK, Pairing, Request

LEMMA TypeNarrow ==
    ASSUME TypeOK, Narrows,
           UNCHANGED <<invited, epoch, browser>>,
           pair' \in [Pairings -> Pairing],
           link' \in [Users -> [number: 0..MaxInvitations, usable: BOOLEAN]],
           cookie' \in [Browsers -> 0..Len(minted)],
           req' \in [Tabs -> Request(Len(minted))]
    PROVE  TypeOK'
  BY DEF TypeOK, Narrows, Pairing, Request

(* What TypeOK says, in the words of the two lemmas. *)
LEMMA TypeFacts ==
    ASSUME TypeOK
    PROVE  /\ minted \in Seq(Credential) /\ Len(minted) \in Nat /\ DOMAIN minted = 1..Len(minted)
           /\ live \subseteq DOMAIN minted
           /\ epoch \in [Users -> 0..MaxEpoch] /\ pair \in [Pairings -> Pairing]
           /\ link \in [Users -> [number: 0..MaxInvitations, usable: BOOLEAN]]
           /\ browser \in [Tabs -> Browsers] /\ cookie \in [Browsers -> 0..Len(minted)]
           /\ cookie \in [Browsers -> 0..Fresh]
           /\ req \in [Tabs -> Request(Len(minted))]
           /\ Idle \in Request(Len(minted)) /\ Fresh = Len(minted) + 1
           /\ \A i \in DOMAIN minted :
                 minted[i].user \in Users /\ minted[i].epoch \in 0..MaxEpoch
<1>1. /\ minted \in Seq(Credential) /\ Len(minted) \in Nat /\ DOMAIN minted = 1..Len(minted)
      /\ \A i \in DOMAIN minted : minted[i] \in Credential
  BY Elements DEF TypeOK
<1>2. \A i \in DOMAIN minted : minted[i].user \in Users /\ minted[i].epoch \in 0..MaxEpoch
  BY <1>1 DEF Credential
<1>3. Fresh = Len(minted) + 1 /\ 0..Len(minted) \subseteq 0..Fresh
  BY <1>1 DEF Fresh
<1>4. 0 \in 0..(MaxEpoch + MaxInvitations) /\ 0 \in 0..Len(minted)
  BY <1>1, AccountsAssumption
<1> QED BY <1>1, <1>2, <1>3, <1>4 DEF TypeOK, Pairing, Request, Idle

(* The new session of a browser, and the answer that may bring its cookie. *)
LEMMA NewSessionFacts ==
    ASSUME TypeOK, NEW u \in Users, NEW e \in 0..MaxEpoch, NEW grant \in Grants,
           NEW previous, NEW t \in Tabs, newBrowserSession(u, e, grant, previous), Answered(t)
    PROVE  /\ Mint(u, "browser", e, grant) /\ "browser" \in Kinds /\ Room
           /\ live' \subseteq live \cup {Fresh}
           /\ cookie' \in [Browsers -> 0..Fresh]
<1>1. Mint(u, "browser", e, grant) /\ "browser" \in Kinds /\ Room
  BY DEF newBrowserSession, Kinds
<1>2. live' \subseteq live \cup {Fresh}
  BY DEF newBrowserSession
<1>3. cookie' \in [Browsers -> 0..Fresh]
  <2>1. cookie \in [Browsers -> 0..Fresh] /\ Fresh \in 0..Fresh
    BY TypeFacts
  <2> QED BY <2>1 DEF Answered
<1> QED BY <1>1, <1>2, <1>3

-----------------------------------------------------------------------------
(* Every action keeps the invariant.                                        *)
LEMMA AccountsStep == AccountsInv /\ [Next]_vars => AccountsInv'
<1> SUFFICES ASSUME AccountsInv, [Next]_vars PROVE AccountsInv'
  OBVIOUS
<1>0. TypeOK /\ RequestsKnown /\ Claimed /\ Spent /\ AuthorityIsCurrent /\ GrantsUsedOnce
  BY DEF AccountsInv
<1>1. ASSUME NEW t \in Tabs, Abandon(t) PROVE AccountsInv'
  <2>1. TypeOK'
    BY <1>0, <1>1, TypeFacts, TypeNarrow DEF Abandon, End, Narrows
  <2>2. RequestsKnown'
    BY <1>0, <1>1, TypeFacts, RequestStep DEF Abandon, End, Idle
  <2> QED BY <1>1, <2>1, <2>2, NarrowStep DEF Abandon, Narrows, AccountsInv
<1>2. ASSUME NEW t \in Tabs, NEW u \in Users, Register(t, u) PROVE AccountsInv'
  <2>1. /\ Mint(u, "browser", 1, By("password")) /\ "browser" \in Kinds /\ Room
        /\ live' \subseteq live \cup {Fresh} /\ cookie' \in [Browsers -> 0..Fresh]
        /\ 1 \in 0..MaxEpoch /\ By("password") \in Grants /\ By("password").by = "password"
    BY <1>0, <1>2, NewSessionFacts, GrantTypes, AccountsAssumption DEF Register, By
  <2>2. epoch[u] = 0 /\ epoch' = [epoch EXCEPT ![u] = 1]
        /\ UNCHANGED <<invited, pair, link, browser, req>>
    BY <1>2 DEF Register
  <2>3. TypeOK'
    BY <1>0, <2>1, <2>2, TypeFacts, TypeMint
  <2>4. RequestsKnown'
    BY <1>0, <2>1, <2>2, TypeFacts, MintFacts DEF RequestsKnown
  <2>5. Claimed' /\ Spent' /\ AuthorityIsCurrent' /\ GrantsUsedOnce'
    <3>1. 1 # 0 /\ epoch[u] \in {0, 1}
      BY <2>2
    <3> DEFINE e == 1  grant == By("password")
    <3>2. /\ e \in 0..MaxEpoch /\ e # 0 /\ epoch[u] \in {0, e} /\ epoch' = [epoch EXCEPT ![u] = e]
          /\ Mint(u, "browser", e, grant) /\ grant \in Grants /\ grant.by = "password"
      BY <2>1, <2>2, <3>1
    <3> HIDE DEF e, grant
    <3> QED BY <2>1, <2>2, <3>2, MintStep
  <2> QED BY <2>3, <2>4, <2>5 DEF AccountsInv
<1>3. ASSUME NEW t \in Tabs, NEW u \in Users, VerifyLogin(t, u) \/ VerifyClaim(t, u) PROVE AccountsInv'
  <2>1. PICK pc \in {"login", "claim"}, seen \in 0..(MaxEpoch + MaxInvitations) :
           /\ req' = [req EXCEPT ![t] = [Idle EXCEPT !.pc = pc, !.user = u, !.seen = seen,
                                                     !.cookie = cookie[browser[t]]]]
           /\ pc = "login" => seen # 0
    <3>1. /\ epoch[u] \in 0..(MaxEpoch + MaxInvitations)
          /\ link[u].number \in 0..(MaxEpoch + MaxInvitations)
      BY <1>0, TypeFacts, AccountsAssumption
    <3> QED BY <1>3, <3>1 DEF VerifyLogin, VerifyClaim, Unclaimed
  <2>2. Narrows /\ UNCHANGED <<invited, epoch, pair, link, browser, cookie>>
    BY <1>3 DEF VerifyLogin, VerifyClaim, Narrows
  <2>3. TypeOK'
    <3>1. [Idle EXCEPT !.pc = pc, !.user = u, !.seen = seen, !.cookie = cookie[browser[t]]]
            \in Request(Len(minted))
      BY <1>0, TypeFacts DEF Idle, Request
    <3> QED BY <1>0, <2>1, <2>2, <3>1, TypeFacts, TypeNarrow
  <2>4. RequestsKnown'
    BY <1>0, <2>1, <2>2, TypeFacts, RequestStep DEF Idle, Narrows
  <2> QED BY <2>2, <2>3, <2>4, NarrowStep DEF AccountsInv
<1>4. ASSUME NEW t \in Tabs, Login(t) PROVE AccountsInv'
  <2> DEFINE u == req[t].user
  <2>1. u \in Users /\ epoch[u] = req[t].seen /\ epoch[u] \in 0..MaxEpoch /\ epoch[u] # 0
    BY <1>0, <1>4, TypeFacts DEF RequestsKnown, Login, HashCurrent
  <2>2. /\ newBrowserSession(u, epoch[u], By("password"), req[t].cookie) /\ Answered(t)
        /\ UNCHANGED <<invited, epoch, pair, link, browser>> /\ req' = [req EXCEPT ![t] = Idle]
    BY <1>4, <2>1 DEF Login, End
  <2> HIDE DEF u
  <2>3. /\ Mint(u, "browser", epoch[u], By("password")) /\ "browser" \in Kinds /\ Room
        /\ live' \subseteq live \cup {Fresh} /\ cookie' \in [Browsers -> 0..Fresh]
        /\ By("password") \in Grants /\ By("password").by = "password"
    BY <1>0, <2>1, <2>2, NewSessionFacts, GrantTypes DEF By
  <2>4. TypeOK'
    BY <1>0, <2>1, <2>2, <2>3, TypeFacts, TypeMint
  <2>5. RequestsKnown'
    BY <1>0, <2>1, <2>2, <2>3, TypeFacts, MintFacts DEF RequestsKnown, Idle
  <2>6. Claimed' /\ Spent' /\ AuthorityIsCurrent' /\ GrantsUsedOnce'
    <3>1. epoch' = [epoch EXCEPT ![u] = epoch[u]]
      BY <1>0, <2>2, TypeFacts
    <3> QED BY <2>1, <2>2, <2>3, <3>1, MintStep
  <2> QED BY <2>4, <2>5, <2>6 DEF AccountsInv
<1>5. ASSUME NEW t \in Tabs, Resolve(t) PROVE AccountsInv'
  <2>1. Narrows /\ UNCHANGED <<invited, epoch, pair, link, browser, cookie>>
    BY <1>5 DEF Resolve, Narrows
  <2>2. PICK i \in DOMAIN minted :
           /\ i \in 0..Len(minted) /\ minted[i].user \in Users
           /\ req' = [req EXCEPT ![t] = [Idle EXCEPT !.pc = "resolved", !.session = i,
                                         !.user = minted[i].user, !.cookie = i]]
    BY <1>0, <1>5, TypeFacts DEF Resolve, IsLive
  <2>3. [Idle EXCEPT !.pc = "resolved", !.session = i, !.user = minted[i].user, !.cookie = i]
           \in Request(Len(minted))
    BY <1>0, <2>2, TypeFacts DEF Idle, Request
  <2>4. TypeOK'
    BY <1>0, <2>1, <2>2, <2>3, TypeFacts, TypeNarrow
  <2>5. RequestsKnown'
    BY <1>0, <2>1, <2>2, TypeFacts, RequestStep DEF Idle, Narrows
  <2> QED BY <2>1, <2>4, <2>5, NarrowStep DEF AccountsInv
<1>6. ASSUME NEW t \in Tabs, VerifyChange(t) PROVE AccountsInv'
  <2>1. /\ Narrows /\ UNCHANGED <<invited, epoch, pair, link, browser, cookie>>
        /\ req' = [req EXCEPT ![t].pc = "change", ![t].seen = epoch[req[t].user]]
    BY <1>6 DEF VerifyChange, Narrows
  <2>2. req[t].user \in Users /\ req[t].session \in DOMAIN minted
        /\ minted[req[t].session].user = req[t].user
    BY <1>0, <1>6 DEF VerifyChange, RequestsKnown
  <2>3. req' \in [Tabs -> Request(Len(minted))]
    <3>1. epoch[req[t].user] \in 0..(MaxEpoch + MaxInvitations)
      BY <1>0, <2>2, TypeFacts, AccountsAssumption
    <3> QED BY <1>0, <2>1, <3>1, TypeFacts DEF Request
  <2>4. TypeOK'
    BY <1>0, <2>1, <2>3, TypeFacts, TypeNarrow
  <2>5. RequestsKnown'
    <3>1. /\ req'[t].user = req[t].user /\ req'[t].session = req[t].session /\ req'[t].pc = "change"
          /\ \A s \in Tabs : s # t => req'[s] = req[s]
      BY <1>0, <2>1, TypeFacts DEF Request
    <3> QED BY <1>0, <2>1, <2>2, <3>1, RequestStep DEF Narrows
  <2> QED BY <2>1, <2>4, <2>5, NarrowStep DEF AccountsInv
<1>7. ASSUME NEW t \in Tabs, ChangePassword(t) PROVE AccountsInv'
  <2> DEFINE u == req[t].user  i == req[t].session  e == epoch[u] + 1
  <2>1. /\ u \in Users /\ i \in live /\ minted[i].user = u /\ i \in DOMAIN minted
    BY <1>0, <1>7, TypeFacts DEF RequestsKnown, ChangePassword, activeBrowserSession, IsLive
  <2>2. e \in 0..MaxEpoch /\ e # 0
    BY <1>0, <1>7, <2>1, TypeFacts, AccountsAssumption DEF ChangePassword
  <2>3. /\ epoch' = [epoch EXCEPT ![u] = e] /\ minted' = [minted EXCEPT ![i].epoch = e]
        /\ EndOtherAuthority(u, i) /\ req' = [req EXCEPT ![t] = Idle]
        /\ UNCHANGED <<invited, link, browser, cookie>>
    <3>1. epoch' = [epoch EXCEPT ![u] = e]
      BY <1>0, <1>7, <2>1, TypeFacts DEF ChangePassword
    <3> QED BY <1>7, <3>1 DEF ChangePassword, End
  <2> HIDE DEF u, i, e
  <2>4. /\ minted' \in Seq(Credential) /\ Len(minted') = Len(minted) /\ DOMAIN minted' = DOMAIN minted
        /\ minted'[i].epoch = e
        /\ \A j \in DOMAIN minted : minted'[j].user = minted[j].user /\ minted'[j].grant = minted[j].grant
        /\ \A j \in DOMAIN minted : j # i => minted'[j] = minted[j]
    <3>1. \A j \in DOMAIN minted : minted[j] \in Credential
      BY <1>0, TypeFacts, Elements
    <3>2. [minted[i] EXCEPT !.epoch = e] \in Credential
      BY <2>1, <2>2, <3>1 DEF Credential
    <3>3. /\ [minted[i] EXCEPT !.epoch = e].user = minted[i].user
          /\ [minted[i] EXCEPT !.epoch = e].grant = minted[i].grant
          /\ [minted[i] EXCEPT !.epoch = e].epoch = e
      BY <2>1, <3>1 DEF Credential
    <3> DEFINE c == [minted[i] EXCEPT !.epoch = e]
    <3>4. minted' = [minted EXCEPT ![i] = c]
      BY <2>3
    <3> HIDE DEF c
    <3>5. c \in Credential /\ c.user = minted[i].user /\ c.grant = minted[i].grant /\ c.epoch = e
      BY <3>2, <3>3 DEF c
    <3>6. minted' \in Seq(Credential) /\ Len(minted') = Len(minted)
      BY <1>0, <2>1, <3>4, <3>5, TypeFacts, ExceptSeq
    <3>7. DOMAIN minted' = DOMAIN minted
      BY <3>4
    <3> QED BY <1>0, <2>1, <3>4, <3>5, <3>6, <3>7, TypeFacts
  <2>5. /\ live' \subseteq live /\ \A j \in live' : minted[j].user # u \/ j = i
        /\ pair' \in [Pairings -> Pairing]
        /\ \A p \in Pairings : pair'[p].state = "approved" => pair'[p] = pair[p] /\ pair[p].owner # u
        /\ \A p \in Pairings : pair[p].state = "consumed" => pair'[p].state = "consumed"
    BY <1>0, <2>3, TypeFacts DEF EndOtherAuthority, Pairing
  <2>6. epoch' \in [Users -> 0..MaxEpoch] /\ epoch'[u] = e /\ \A v \in Users : v # u => epoch'[v] = epoch[v]
    BY <1>0, <2>1, <2>2, <2>3, TypeFacts
  <2>7. TypeOK'
    <3>1. req' \in [Tabs -> Request(Len(minted))]
      BY <1>0, <2>3, TypeFacts
    <3> QED BY <1>0, <2>3, <2>4, <2>5, <2>6, <3>1 DEF TypeOK, Pairing, Request
  <2>8. RequestsKnown'
    BY <1>0, <2>3, <2>4, TypeFacts, RequestStep DEF Idle
  <2>9. Claimed' /\ Spent'
    <3>1. \A j \in DOMAIN minted : minted[j].user \in Users
      BY <1>0, TypeFacts
    <3>2. Claimed'
      BY <1>0, <2>2, <2>4, <2>5, <2>6, <3>1 DEF Claimed
    <3>3. Spent'
      BY <1>0, <2>4, <2>5 DEF Spent
    <3> QED BY <3>2, <3>3
  <2>10. AuthorityIsCurrent'
    <3>0. live \subseteq DOMAIN minted /\ \A j \in DOMAIN minted : minted[j].user \in Users
      BY <1>0, TypeFacts
    <3>1. \A j \in live' : minted'[j].epoch = epoch'[minted'[j].user]
      <4> TAKE j \in live'
      <4>1. CASE j = i
        BY <2>1, <2>4, <2>6, <4>1
      <4>2. CASE j # i
        BY <1>0, <2>4, <2>5, <2>6, <3>0, <4>2 DEF AuthorityIsCurrent
      <4> QED BY <4>1, <4>2
    <3>2. \A p \in Pairings : pair'[p].state = "approved" => pair'[p].epoch = epoch'[pair'[p].owner]
      BY <1>0, <2>5, <2>6 DEF AuthorityIsCurrent, Claimed
    <3> QED BY <3>1, <3>2 DEF AuthorityIsCurrent
  <2>11. GrantsUsedOnce'
    BY <1>0, <2>3, <2>4 DEF GrantsUsedOnce
  <2> QED BY <2>7, <2>8, <2>9, <2>10, <2>11 DEF AccountsInv
<1>8. ASSUME NEW t \in Tabs, Logout(t) PROVE AccountsInv'
  <2>1. /\ Narrows /\ UNCHANGED <<invited, epoch, pair, link, browser>>
        /\ cookie' = [cookie EXCEPT ![browser[t]] = 0] /\ req' = [req EXCEPT ![t] = Idle]
    BY <1>8 DEF Logout, Narrows, End
  <2>2. TypeOK'
    BY <1>0, <2>1, TypeFacts, TypeNarrow
  <2>3. RequestsKnown'
    BY <1>0, <2>1, TypeFacts, RequestStep DEF Idle, Narrows
  <2> QED BY <2>1, <2>2, <2>3, NarrowStep DEF AccountsInv
<1>9. ASSUME NEW t \in Tabs, MintToken(t) PROVE AccountsInv'
  <2> DEFINE u == req[t].user
  <2>1. /\ u \in Users /\ req[t].session \in live /\ minted[req[t].session].user = u
        /\ req[t].session \in DOMAIN minted
    BY <1>0, <1>9, TypeFacts DEF RequestsKnown, MintToken, activeBrowserSession, IsLive
  <2>2. /\ minted[req[t].session].epoch = epoch[u] /\ epoch[u] \in 0..MaxEpoch /\ epoch[u] # 0
    BY <1>0, <2>1, TypeFacts DEF AuthorityIsCurrent, Claimed
  <2>3. /\ Mint(u, "token", epoch[u], By("session")) /\ "token" \in Kinds /\ Room
        /\ live' \subseteq live \cup {Fresh}
        /\ By("session") \in Grants /\ By("session").by = "session"
        /\ UNCHANGED <<invited, epoch, pair, link, browser, cookie>> /\ req' = [req EXCEPT ![t] = Idle]
    BY <1>9, <2>2, GrantTypes DEF MintToken, Kinds, By, End
  <2> HIDE DEF u
  <2>4. TypeOK'
    BY <1>0, <2>1, <2>2, <2>3, TypeFacts, TypeMint
  <2>5. RequestsKnown'
    BY <1>0, <2>1, <2>2, <2>3, TypeFacts, MintFacts DEF RequestsKnown, Idle
  <2>6. Claimed' /\ Spent' /\ AuthorityIsCurrent' /\ GrantsUsedOnce'
    <3>1. epoch' = [epoch EXCEPT ![u] = epoch[u]]
      BY <1>0, <2>3, TypeFacts
    <3> QED BY <2>1, <2>2, <2>3, <3>1, MintStep
  <2> QED BY <2>4, <2>5, <2>6 DEF AccountsInv
<1>10. ASSUME NEW t \in Tabs, NEW i \in live, Revoke(t, i) PROVE AccountsInv'
  <2>1. /\ Narrows /\ UNCHANGED <<invited, epoch, pair, link, browser, cookie>>
        /\ req' = [req EXCEPT ![t] = Idle]
    BY <1>10 DEF Revoke, Narrows, End
  <2>2. TypeOK'
    BY <1>0, <2>1, TypeFacts, TypeNarrow
  <2>3. RequestsKnown'
    BY <1>0, <2>1, TypeFacts, RequestStep DEF Idle, Narrows
  <2> QED BY <2>1, <2>2, <2>3, NarrowStep DEF AccountsInv
<1>11. ASSUME NEW p \in Pairings, RequestDevice(p) \/ PairingExpires(p) PROVE AccountsInv'
  <2>1. PICK state \in {"open", "expired"} : pair' = [pair EXCEPT ![p].state = state]
    BY <1>11 DEF RequestDevice, PairingExpires
  <2>2. Narrows /\ UNCHANGED <<invited, epoch, link, browser, cookie, req>> /\ pair[p].state # "consumed"
    BY <1>11 DEF RequestDevice, PairingExpires, Narrows
  <2>3. pair' \in [Pairings -> Pairing]
    BY <1>0, <2>1, TypeFacts DEF Pairing
  <2>4. TypeOK'
    BY <1>0, <2>2, <2>3, TypeFacts, TypeNarrow
  <2>5. RequestsKnown'
    BY <1>0, <2>2 DEF RequestsKnown, Narrows
  <2>6. /\ pair'[p].state \in {"open", "expired"}
        /\ \A q \in Pairings : q # p => pair'[q] = pair[q]
    BY <1>0, <2>1, TypeFacts DEF Pairing
  <2> QED BY <2>2, <2>4, <2>5, <2>6, NarrowStep DEF AccountsInv
<1>12. ASSUME NEW t \in Tabs, NEW p \in Pairings, NEW approve \in BOOLEAN, ApproveDevice(t, p, approve)
       PROVE AccountsInv'
  <2> DEFINE u == req[t].user
             answer == [state |-> IF approve THEN "approved" ELSE "denied", owner |-> u,
                        epoch |-> minted[req[t].session].epoch]
  <2>1. /\ u \in Users /\ req[t].session \in live /\ minted[req[t].session].user = u
        /\ req[t].session \in DOMAIN minted
    BY <1>0, <1>12, TypeFacts DEF RequestsKnown, ApproveDevice, activeBrowserSession, IsLive
  <2>2. /\ minted[req[t].session].epoch = epoch[u] /\ epoch[u] \in 0..MaxEpoch /\ epoch[u] # 0
    BY <1>0, <2>1, TypeFacts DEF AuthorityIsCurrent, Claimed
  <2>3. /\ Narrows /\ UNCHANGED <<invited, epoch, link, browser, cookie>>
        /\ req' = [req EXCEPT ![t] = Idle] /\ pair[p].state # "consumed"
        /\ pair' = [pair EXCEPT ![p] = answer]
    BY <1>12 DEF ApproveDevice, Narrows, End
  <2>4. answer \in Pairing /\ answer.owner = u /\ answer.epoch = epoch[u]
    BY <2>1, <2>2 DEF Pairing
  <2> HIDE DEF u, answer
  <2>5. TypeOK'
    BY <1>0, <2>3, <2>4, TypeFacts, TypeNarrow
  <2>6. RequestsKnown'
    BY <1>0, <2>3, TypeFacts, RequestStep DEF Idle, Narrows
  <2>7. pair'[p] = answer /\ \A q \in Pairings : q # p => pair'[q] = pair[q]
    BY <1>0, <2>3, TypeFacts
  <2> QED BY <2>1, <2>2, <2>3, <2>4, <2>5, <2>6, <2>7, NarrowStep DEF AccountsInv
<1>13. ASSUME NEW p \in Pairings, PollDevice(p) PROVE AccountsInv'
  <2> DEFINE u == pair[p].owner
             grant == [By("pairing") EXCEPT !.pairing = p]
  <2>1. u \in Users /\ epoch[u] # 0 /\ pair[p].epoch = epoch[u] /\ epoch[u] \in 0..MaxEpoch
    BY <1>0, <1>13, TypeFacts DEF Claimed, AuthorityIsCurrent, PollDevice
  <2>2. /\ Mint(u, "device", epoch[u], grant) /\ "device" \in Kinds /\ Room
        /\ live' \subseteq live \cup {Fresh} /\ pair[p].state = "approved"
        /\ pair' = [pair EXCEPT ![p].state = "consumed"]
        /\ UNCHANGED <<invited, epoch, link, browser, cookie, req>>
    BY <1>13, <2>1 DEF PollDevice, Consume, Kinds
  <2>3. grant \in Grants /\ grant.by = "pairing" /\ grant.pairing = p
    BY GrantTypes DEF By
  <2>4. /\ pair' \in [Pairings -> Pairing] /\ pair'[p].state = "consumed"
        /\ \A q \in Pairings : q # p => pair'[q] = pair[q]
    BY <1>0, <2>2, TypeFacts DEF Pairing
  <2> HIDE DEF u, grant
  <2>5. TypeOK'
    BY <1>0, <2>1, <2>2, <2>3, <2>4, TypeFacts, TypeMint
  <2>6. RequestsKnown'
    BY <1>0, <2>1, <2>2, <2>3, TypeFacts, MintFacts DEF RequestsKnown
  <2>7. Claimed' /\ Spent' /\ AuthorityIsCurrent' /\ GrantsUsedOnce'
    <3>1. epoch' = [epoch EXCEPT ![u] = epoch[u]]
      BY <1>0, <2>2, TypeFacts
    <3> QED BY <2>1, <2>2, <2>3, <2>4, <3>1, MintStep
  <2> QED BY <2>5, <2>6, <2>7 DEF AccountsInv
<1>14. ASSUME NEW i \in live, DisconnectDevice(i) \/ SessionExpires(i) PROVE AccountsInv'
  <2>1. Narrows /\ UNCHANGED <<invited, epoch, pair, link, browser, cookie, req>>
    BY <1>14 DEF DisconnectDevice, SessionExpires, Narrows
  <2>2. TypeOK'
    BY <1>0, <2>1, TypeFacts, TypeNarrow
  <2>3. RequestsKnown'
    BY <1>0, <2>1 DEF RequestsKnown, Narrows
  <2> QED BY <2>1, <2>2, <2>3, NarrowStep DEF AccountsInv
<1>15. ASSUME NEW u \in Users, IssueInvitation(u) \/ LinkExpires(u) PROVE AccountsInv'
  <2>1. Narrows /\ UNCHANGED <<invited, epoch, pair, browser, cookie, req>>
    BY <1>15 DEF IssueInvitation, LinkExpires, Narrows
  <2>2. /\ link' \in [Users -> [number: 0..MaxInvitations, usable: BOOLEAN]]
        /\ \A v \in Users : link'[v].number = link[v].number \/ epoch[v] = 0
    <3> DEFINE Link == [number: 0..MaxInvitations, usable: BOOLEAN]
    <3>1. PICK row \in Link :
             link' = [link EXCEPT ![u] = row] /\ (row.number = link[u].number \/ epoch[u] = 0)
      <4>1. link[u] \in Link
        BY <1>0, TypeFacts
      <4>2. CASE IssueInvitation(u)
        <5>1. [number |-> link[u].number + 1, usable |-> TRUE] \in Link
          BY <4>1, <4>2, AccountsAssumption DEF IssueInvitation
        <5>2. link' = [link EXCEPT ![u] = [number |-> link[u].number + 1, usable |-> TRUE]]
          BY <1>0, <4>2, TypeFacts DEF IssueInvitation
        <5>3. epoch[u] = 0
          BY <4>2 DEF IssueInvitation, Unclaimed
        <5> QED BY <5>1, <5>2, <5>3
      <4>3. CASE LinkExpires(u)
        <5>1. /\ [link[u] EXCEPT !.usable = FALSE] \in Link
              /\ [link[u] EXCEPT !.usable = FALSE].number = link[u].number
          BY <4>1
        <5>2. link' = [link EXCEPT ![u] = [link[u] EXCEPT !.usable = FALSE]]
          BY <4>3 DEF LinkExpires
        <5> QED BY <5>1, <5>2
      <4> QED BY <1>15, <4>2, <4>3
    <3> QED BY <1>0, <3>1, TypeFacts
  <2>3. TypeOK'
    BY <1>0, <2>1, <2>2, TypeFacts, TypeNarrow
  <2>4. RequestsKnown'
    BY <1>0, <2>1 DEF RequestsKnown, Narrows
  <2> QED BY <2>1, <2>2, <2>3, <2>4, NarrowStep DEF AccountsInv
<1>16. ASSUME NEW t \in Tabs, ClaimInvitation(t) PROVE AccountsInv'
  <2> DEFINE u == req[t].user  e == 1  grant == [By("invitation") EXCEPT !.number = req[t].seen]
  <2>1. u \in Users /\ epoch[u] = 0 /\ link[u].number = req[t].seen /\ req[t].seen \in 0..MaxInvitations
    BY <1>0, <1>16, TypeFacts DEF RequestsKnown, ClaimInvitation, LinkUsable, Unclaimed
  <2>2. grant \in Grants /\ grant.by = "invitation" /\ grant.number = link[u].number
    BY <2>1, GrantTypes DEF By
  <2>3. e \in 0..MaxEpoch /\ e # 0 /\ epoch[u] \in {0, e}
    BY <2>1, AccountsAssumption
  <2>4. /\ newBrowserSession(u, e, grant, req[t].cookie) /\ Answered(t)
        /\ epoch' = [epoch EXCEPT ![u] = e] /\ link' = [link EXCEPT ![u].usable = FALSE]
        /\ UNCHANGED <<invited, pair, browser>> /\ req' = [req EXCEPT ![t] = Idle]
    BY <1>16 DEF ClaimInvitation, End
  <2> HIDE DEF u, e, grant
  <2>5. /\ Mint(u, "browser", e, grant) /\ "browser" \in Kinds /\ Room
        /\ live' \subseteq live \cup {Fresh} /\ cookie' \in [Browsers -> 0..Fresh]
    BY <1>0, <2>1, <2>2, <2>3, <2>4, NewSessionFacts
  <2>6. /\ link' \in [Users -> [number: 0..MaxInvitations, usable: BOOLEAN]]
        /\ \A v \in Users : link'[v].number = link[v].number
    BY <1>0, <2>4, TypeFacts
  <2>7. epoch' \in [Users -> 0..MaxEpoch]
    BY <1>0, <2>3, <2>4, TypeFacts
  <2>8. TypeOK'
    BY <1>0, <2>1, <2>2, <2>3, <2>4, <2>5, <2>6, <2>7, TypeFacts, TypeMint
  <2>9. RequestsKnown'
    <3>1. /\ DOMAIN minted \subseteq DOMAIN minted'
          /\ \A i \in DOMAIN minted : minted'[i] = minted[i]
      BY <1>0, <2>1, <2>2, <2>3, <2>5, TypeFacts, MintFacts
    <3>2. req'[t].pc = "idle" /\ \A s \in Tabs : s # t => req'[s] = req[s]
      BY <1>0, <2>4, TypeFacts DEF Idle
    <3> QED BY <1>0, <3>1, <3>2, RequestStep
  <2>10. Claimed' /\ Spent' /\ AuthorityIsCurrent' /\ GrantsUsedOnce'
    BY <2>1, <2>2, <2>3, <2>4, <2>5, <2>6, MintStep
  <2> QED BY <2>8, <2>9, <2>10 DEF AccountsInv
<1>17. CASE UNCHANGED vars
  <2>1. Narrows /\ UNCHANGED <<invited, epoch, pair, link, browser, cookie, req>>
    BY <1>17 DEF vars, Narrows
  <2>2. TypeOK'
    BY <1>0, <2>1, TypeFacts, TypeNarrow
  <2>3. RequestsKnown'
    BY <1>0, <2>1 DEF RequestsKnown, Narrows
  <2> QED BY <2>1, <2>2, <2>3, NarrowStep DEF AccountsInv
<1> QED
  BY <1>1, <1>2, <1>3, <1>4, <1>5, <1>6, <1>7, <1>8, <1>9, <1>10, <1>11, <1>12, <1>13, <1>14,
     <1>15, <1>16, <1>17
  DEF Next, BrowserStep, OperatorStep, TimeStep, DeviceStep

(* Every variable of the accounts keeps its type. *)
THEOREM TypeCorrect == Spec => []TypeOK
<1>1. AccountsInv => TypeOK
  BY DEF AccountsInv
<1> QED BY AccountsInitially, AccountsStep, <1>1, PTL DEF Spec

(* No interleaving of logins, claims, approvals, polls and changes of a     *)
(* password leaves authority that rests on an old password.                 *)
THEOREM AuthorityStaysCurrent == Spec => []AuthorityIsCurrent
<1>1. AccountsInv => AuthorityIsCurrent
  BY DEF AccountsInv
<1> QED BY AccountsInitially, AccountsStep, <1>1, PTL DEF Spec

(* No pairing and no invitation yields two credentials. *)
THEOREM GrantsAreUsedOnce == Spec => []GrantsUsedOnce
<1>1. AccountsInv => GrantsUsedOnce
  BY DEF AccountsInv
<1> QED BY AccountsInitially, AccountsStep, <1>1, PTL DEF Spec

-----------------------------------------------------------------------------
(* The accounts together with a paired extension.                           *)

LEMMA PairedStep == [AllNext]_allVars => [Next]_vars
<1>1. ASSUME ExtensionStep PROVE UNCHANGED vars
  BY <1>1 DEF ExtensionStep, StartPairing, SavePairing, StartPoll, SaveSession, PollAgain,
     PollEnded, PairingOver, Cancel, StartDisconnect, Disconnected, RequestFails, Invalidate, Done
<1>2. ASSUME HandlerStep PROVE [Next]_vars
  <2>1. ASSUME NEW p \in Pairings, HandlePairing(p) \/ HandlePoll(p) PROVE [Next]_vars
    BY <2>1 DEF HandlePairing, HandlePoll, Next, DeviceStep
  <2>2. ASSUME NEW i \in DOMAIN minted, HandleDisconnect(i) PROVE [Next]_vars
    <3>1. DisconnectDevice(i) => i \in live
      BY DEF DisconnectDevice, IsLive
    <3> QED BY <2>2, <3>1 DEF HandleDisconnect, Next, DeviceStep
  <2> QED BY <1>2, <2>1, <2>2 DEF HandlerStep
<1> QED BY <1>1, <1>2 DEF AllNext, allVars, Next

(* What a paired extension and its server do is what the accounts do, so    *)
(* that the theorems about them hold of both together.                      *)
THEOREM PairedImplementsAccounts == AllSpec => Spec
<1>1. AllInit => Init
  BY DEF AllInit
<1> QED BY <1>1, PairedStep, PTL DEF AllSpec, Spec

(* A step of the accounts gives authority to no credential there was. *)
LEMMA NoRevival ==
    ASSUME TypeOK, [Next]_vars
    PROVE  /\ DOMAIN minted \subseteq DOMAIN minted'
           /\ \A i \in DOMAIN minted : i \in live' => i \in live
<1>0. Fresh \notin DOMAIN minted
  BY TypeFacts
<1> DEFINE Grows == \/ minted' = minted /\ live' \subseteq live
                    \/ /\ \E c : minted' = Append(minted, c)
                       /\ live' \subseteq live \cup {Fresh}
                    \/ /\ \E i, e : minted' = [minted EXCEPT ![i].epoch = e]
                       /\ live' \subseteq live
<1>1. ASSUME BrowserStep PROVE Grows
  <2>1. ASSUME NEW u, NEW e, NEW grant, NEW previous, newBrowserSession(u, e, grant, previous) PROVE Grows
    BY <2>1 DEF newBrowserSession, Mint
  <2>2. ASSUME NEW t \in Tabs, ChangePassword(t) PROVE Grows
    BY <2>2 DEF ChangePassword, EndOtherAuthority
  <2>3. ASSUME NEW t \in Tabs, MintToken(t) PROVE Grows
    BY <2>3 DEF MintToken, Mint
  <2>4. ASSUME NEW t \in Tabs,
               \/ Abandon(t) \/ Resolve(t) \/ VerifyChange(t) \/ Logout(t)
               \/ \E u \in Users : VerifyLogin(t, u) \/ VerifyClaim(t, u)
               \/ \E i \in live : Revoke(t, i)
               \/ \E p \in Pairings, approve \in BOOLEAN : ApproveDevice(t, p, approve)
        PROVE  Grows
    BY <2>4 DEF Abandon, Resolve, VerifyChange, Logout, VerifyLogin, VerifyClaim, Revoke, ApproveDevice
  <2> HIDE DEF Grows
  <2> QED BY <1>1, <2>1, <2>2, <2>3, <2>4 DEF BrowserStep, Login, ClaimInvitation, Register
<1>2. ASSUME OperatorStep \/ TimeStep \/ DeviceStep \/ UNCHANGED vars PROVE Grows
  BY <1>2 DEF OperatorStep, TimeStep, DeviceStep, IssueInvitation, SessionExpires, PairingExpires,
     LinkExpires, RequestDevice, PollDevice, DisconnectDevice, Mint, vars
<1>3. Grows
  BY <1>1, <1>2 DEF Next, BrowserStep
<1>4. ASSUME NEW c, minted' = Append(minted, c) PROVE DOMAIN minted \subseteq DOMAIN minted'
  <2>1. minted \in Seq(Credential \cup {c})
    BY DEF TypeOK
  <2> QED BY <1>4, <2>1, Elements
<1> QED BY <1>0, <1>3, <1>4

(* The operation in progress asked about what the connection holds, and an  *)
(* answer to a disconnection means that the session is gone.                *)
Asked ==
    /\ x = [pc |-> x.pc, about |-> x.about, answer |-> x.answer]
    /\ conn = [pending |-> conn.pending, session |-> conn.session]
    /\ conn.session # 0 => conn.pending = None /\ conn.session \in DOMAIN minted
    /\ x.pc = "pairing" => conn = NoConnection
    /\ x.pc = "poll" => conn.session = 0
    /\ x.pc = "disconnect" =>
          /\ conn.session # 0 /\ x.about = conn.session
          /\ x.answer \in {"ok", "ended"} => x.about \notin live

DeviceInv == Asked /\ delivered \subseteq DOMAIN minted /\ ForgottenIsRevoked

LEMMA DeviceInitially == AllInit => DeviceInv
  BY DEF AllInit, DeviceInv, Asked, ForgottenIsRevoked, NoConnection, AtRest

(* What the accounts do by themselves disturbs nothing of it. *)
LEMMA AccountsAside ==
    ASSUME TypeOK, DeviceInv, [Next]_vars, UNCHANGED <<conn, x, delivered>>
    PROVE  DeviceInv'
  BY NoRevival DEF DeviceInv, Asked, ForgottenIsRevoked

LEMMA DeviceStepKeeps == TypeOK /\ DeviceInv /\ [AllNext]_allVars => DeviceInv'
<1> SUFFICES ASSUME TypeOK, DeviceInv, [AllNext]_allVars PROVE DeviceInv'
  OBVIOUS
<1>0. 0 \notin DOMAIN minted /\ [Next]_vars
  BY TypeFacts, PairedStep
<1>1. ASSUME NEW p \in Pairings, StartPairing(p) PROVE DeviceInv'
  BY <1>1 DEF StartPairing, Ask, DeviceInv, Asked, ForgottenIsRevoked, NoConnection, vars
<1>2. ASSUME SavePairing \/ PollAgain \/ RequestFails PROVE DeviceInv'
  BY <1>2 DEF SavePairing, PollAgain, RequestFails, Done, AtRest, DeviceInv, Asked, ForgottenIsRevoked,
     NoConnection, vars
<1>3. ASSUME StartPoll PROVE DeviceInv'
  BY <1>3 DEF StartPoll, Ask, DeviceInv, Asked, ForgottenIsRevoked, NoConnection, vars
<1>4. ASSUME SaveSession PROVE DeviceInv'
  BY <1>0, <1>4 DEF SaveSession, CredentialOf, Done, AtRest, DeviceInv, Asked, ForgottenIsRevoked,
     NoConnection, vars
<1>5. ASSUME PollEnded \/ PairingOver \/ Cancel PROVE DeviceInv'
  BY <1>0, <1>5 DEF PollEnded, PairingOver, Cancel, Done, AtRest, DeviceInv, Asked, ForgottenIsRevoked,
     NoConnection, vars
<1>6. ASSUME StartDisconnect PROVE DeviceInv'
  BY <1>6 DEF StartDisconnect, Ask, DeviceInv, Asked, ForgottenIsRevoked, vars
<1>7. ASSUME Disconnected \/ Invalidate PROVE DeviceInv'
  BY <1>0, <1>7 DEF Disconnected, Invalidate, Done, AtRest, DeviceInv, Asked, ForgottenIsRevoked,
     NoConnection, vars
<1>8. ASSUME NEW p \in Pairings, HandlePairing(p) PROVE DeviceInv'
  BY <1>0, <1>8, NoRevival DEF HandlePairing, Handled, Waits, DeviceInv, Asked, ForgottenIsRevoked
<1>9. ASSUME NEW p \in Pairings, HandlePoll(p) PROVE DeviceInv'
  BY <1>0, <1>9, NoRevival DEF HandlePoll, Handled, Waits, DeviceInv, Asked, ForgottenIsRevoked
<1>10. ASSUME NEW i \in DOMAIN minted, HandleDisconnect(i) PROVE DeviceInv'
  <2>1. i \notin live'
    BY <1>10 DEF HandleDisconnect, DisconnectDevice, vars
  <2>2. PICK answer \in {"ok", "ended"} : Handled("disconnect", i, answer)
    BY <1>10 DEF HandleDisconnect
  <2> QED BY <1>0, <2>1, <2>2, NoRevival DEF Handled, Waits, DeviceInv, Asked, ForgottenIsRevoked
<1>11. ASSUME UNCHANGED device PROVE DeviceInv'
  BY <1>0, <1>11, AccountsAside DEF device
<1> QED
  BY <1>1, <1>2, <1>3, <1>4, <1>5, <1>6, <1>7, <1>8, <1>9, <1>10, <1>11
  DEF AllNext, ExtensionStep, HandlerStep, allVars, device

(* A session the extension forgot has no authority left, whatever answers   *)
(* were lost and whenever its worker ended.                                 *)
THEOREM ForgottenStaysRevoked == AllSpec => []ForgottenIsRevoked
<1>1. AccountsInv => TypeOK
  BY DEF AccountsInv
<1>2. AllSpec => []AccountsInv
  BY PairedImplementsAccounts, AccountsInitially, AccountsStep, PTL DEF Spec
<1>3. DeviceInv => ForgottenIsRevoked
  BY DEF DeviceInv
<1> QED BY <1>1, <1>2, <1>3, DeviceInitially, DeviceStepKeeps, PTL DEF AllSpec

(* With the extension, too, authority rests on current passwords only and   *)
(* grants are used once.                                                    *)
THEOREM PairedAuthorityIsCurrent == AllSpec => [](AuthorityIsCurrent /\ GrantsUsedOnce)
<1>1. AccountsInv => AuthorityIsCurrent /\ GrantsUsedOnce
  BY DEF AccountsInv
<1> QED BY PairedImplementsAccounts, AccountsInitially, AccountsStep, <1>1, PTL DEF Spec
=============================================================================
