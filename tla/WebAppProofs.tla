---------------------------- MODULE WebAppProofs ----------------------------
(***************************************************************************)
(* The invariants of the browser tab, for any number of users, clients,    *)
(* attempts to connect and failures: no refresher is left behind; whoever  *)
(* a tab is signed in as, and every token it holds, is of a member unless  *)
(* a crash cut the creation of the account short; and the renewal of the   *)
(* token in use never depends on luck.                                     *)
(*                                                                         *)
(* The second argument follows the membership from the hook to the token:  *)
(* a user without it has an unfinished registration, so no passkey, no     *)
(* session, no answer to a check and no token can be hers.  The third      *)
(* follows the margin: an armed timer keeps it between its own end and     *)
(* the token's, and a request that replaces the timer was sent with it.    *)
(***************************************************************************)
EXTENDS WebApp, SequenceTheorems, TLAPS

Known == members \cup cut
Good(t) == t.claim \/ t.of \in cut
Sound(t) == Good(t) \/ (t.of = Nobody /\ ~t.claim /\ t.left = 0)
Tok == [of : Users \cup {Nobody}, claim : BOOLEAN, left : Nat]

Accounts ==
  /\ signup \in [user : Users \cup {Nobody}, step : {"none", "created", "verify"}]
  /\ \A u \in users : u \in Known \/ (signup.step = "created" /\ signup.user = u)
  /\ signup.step = "verify" => signup.user \in Known
  /\ signup.step # "none" => signup.user \in Users
  /\ members \subseteq Users /\ cut \subseteq Users
  /\ keys \subseteq Known
  /\ cookie \in Known \cup {Nobody}

Tab ==
  /\ checks \in Seq(Known \cup {Nobody})
  /\ client \in Known \cup {Nobody}

Attempts ==
  /\ connects \in [Connects -> [step : {"idle", "token", "connecting"}, token : Tok]]
  /\ \A c \in Connects : /\ Sound(connects[c].token)
                         /\ connects[c].step = "connecting" => Good(connects[c].token)

Held ==
  /\ token \in [Clients -> Tok]
  /\ \A r \in Clients : Sound(token[r])

MemberInv == Accounts /\ Tab /\ Attempts /\ Held

-----------------------------------------------------------------------------
LEMMA MintSound ==
  ASSUME Accounts
  PROVE  /\ Mint \in Tok /\ Sound(Mint) /\ (Mint # NoToken => Good(Mint))
         /\ NoToken \in Tok /\ Sound(NoToken)
<1>1. NoToken \in Tok /\ Sound(NoToken)
  BY DEF NoToken, Tok, Sound
<1>2. CASE Principal = Nobody
  BY <1>1, <1>2 DEF Mint
<1>3. CASE Principal # Nobody
  <2>1. cookie \in Known /\ cookie \in Users
    BY <1>3 DEF Accounts, Known, Principal
  <2>2. Mint = [of |-> cookie, claim |-> cookie \in members, left |-> Life]
    BY <1>3 DEF Mint, Principal, Claim
  <2>3. Mint.of = cookie /\ Mint.claim = (cookie \in members)
    BY <2>2
  <2>4. Mint \in Tok
    BY <2>1, <2>2, RefreshAssumption DEF Tok
  <2>5. Good(Mint)
    BY <2>1, <2>3 DEF Good, Known
  <2> QED
    BY <1>1, <2>4, <2>5 DEF Sound
<1> QED
  BY <1>2, <1>3

LEMMA LeftSound ==
  ASSUME NEW t \in Tok, NEW left \in Nat
  PROVE  /\ [t EXCEPT !.left = left] \in Tok
         /\ Good(t) => Good([t EXCEPT !.left = left])
         /\ Sound(t) /\ left <= t.left => Sound([t EXCEPT !.left = left])
BY DEF Tok, Good, Sound

LEMMA RemoveAtSeq ==
  ASSUME NEW S, NEW s \in Seq(S), NEW i \in DOMAIN s
  PROVE  RemoveAt(s, i) \in Seq(S)
BY DEF RemoveAt

\* What the server knows only grows, and what the tab holds stays sound.
LEMMA Grown ==
  ASSUME MemberInv, Known \subseteq Known', cut \subseteq cut'
  PROVE  /\ checks \in Seq(Known' \cup {Nobody}) /\ client \in Known' \cup {Nobody}
         /\ cookie \in Known' \cup {Nobody}
         /\ UNCHANGED connects => Attempts'
         /\ UNCHANGED token => Held'
<1>1. \A t : (Good(t) => t.claim \/ t.of \in cut')
  BY DEF Good
<1>2. Seq(Known \cup {Nobody}) \subseteq Seq(Known' \cup {Nobody})
  OBVIOUS
<1>3. checks \in Seq(Known' \cup {Nobody}) /\ client \in Known' \cup {Nobody}
      /\ cookie \in Known' \cup {Nobody}
  BY <1>2 DEF MemberInv, Tab, Accounts
<1>4. UNCHANGED connects => Attempts'
  BY <1>1 DEF MemberInv, Attempts, Sound, Good
<1>5. UNCHANGED token => Held'
  BY <1>1 DEF MemberInv, Held, Sound, Good
<1> QED
  BY <1>3, <1>4, <1>5

-----------------------------------------------------------------------------
(* The accounts *)

LEMMA ServerKeeps ==
  ASSUME MemberInv
  PROVE  /\ \A u \in Users : ResolveUser(u) => Accounts' /\ UNCHANGED <<Known, cut>>
         /\ OnUserCreated => Accounts' /\ Known \subseteq Known' /\ cut' = cut
         /\ Verified => Accounts' /\ UNCHANGED <<Known, cut>>
         /\ SignUpFails => Accounts' /\ Known \subseteq Known' /\ cut \subseteq cut'
         /\ \A u \in Users : SignedIn(u) => Accounts' /\ UNCHANGED <<Known, cut>>
         /\ SignedOut => Accounts' /\ UNCHANGED <<Known, cut>>
<1> USE DEF MemberInv, Accounts, Known
<1>1. ASSUME NEW u \in Users, ResolveUser(u) PROVE Accounts' /\ UNCHANGED <<Known, cut>>
  BY <1>1 DEF ResolveUser, NoSignup
<1>2. OnUserCreated => Accounts' /\ Known \subseteq Known' /\ cut' = cut
  <2> SUFFICES ASSUME OnUserCreated PROVE Accounts' /\ Known \subseteq Known' /\ cut' = cut
    OBVIOUS
  <2>1. /\ signup'.user = signup.user /\ signup'.step = "verify" /\ signup.step = "created"
        /\ signup' \in [user : Users \cup {Nobody}, step : {"none", "created", "verify"}]
    BY DEF OnUserCreated
  <2> QED
    BY <2>1 DEF OnUserCreated
<1>3. Verified => Accounts' /\ UNCHANGED <<Known, cut>>
  BY DEF Verified, NoSignup
<1>4. SignUpFails => Accounts' /\ Known \subseteq Known' /\ cut \subseteq cut'
  BY DEF SignUpFails, NoSignup
<1>5. ASSUME NEW u \in Users, SignedIn(u) PROVE Accounts' /\ UNCHANGED <<Known, cut>>
  BY <1>5 DEF SignedIn
<1>6. SignedOut => Accounts' /\ UNCHANGED <<Known, cut>>
  BY DEF SignedOut
<1> QED
  BY <1>1, <1>2, <1>3, <1>4, <1>5, <1>6

-----------------------------------------------------------------------------
(* The tab *)

LEMMA SameServer ==
  ASSUME MemberInv, UNCHANGED identity
  PROVE  Accounts' /\ UNCHANGED <<Known, cut, cookie>> /\ Known' = Known
BY DEF MemberInv, Accounts, Known, identity

LEMMA EffectKeeps ==
  ASSUME MemberInv, NEW u, Effect(u), UNCHANGED cut
  PROVE  Attempts'
<1>1. CASE UNCHANGED connects
  BY <1>1, Grown DEF MemberInv, Attempts, Sound, Good
<1>2. CASE \E c \in Connects : connects' = [connects EXCEPT ![c] = [step |-> "token", token |-> Mint]]
  <2>1. PICK c \in Connects : connects' = [connects EXCEPT ![c] = [step |-> "token", token |-> Mint]]
    BY <1>2
  <2>2. Mint \in Tok /\ Sound(Mint)
    BY MintSound DEF MemberInv
  <2> QED
    BY <2>1, <2>2 DEF MemberInv, Attempts, Sound, Good
<1> QED
  BY <1>1, <1>2 DEF Effect

LEMMA CheckedKeeps == ASSUME MemberInv, NEW i, Checked(i) PROVE MemberInv'
<1>1. PICK u \in {checks[i], Principal} :
        Effect(u) /\ client' = IF u # Nobody /\ client = Nobody THEN u ELSE client
  BY DEF Checked
<1>2. /\ i \in DOMAIN checks /\ checks' = RemoveAt(checks, i)
      /\ UNCHANGED <<identity, refreshers>>
  BY DEF Checked
<1>3. Accounts' /\ cut' = cut /\ Known' = Known /\ token' = token
  BY <1>2, SameServer DEF identity, refreshers
<1>4. u \in Known \cup {Nobody}
  BY <1>1, <1>2 DEF MemberInv, Accounts, Tab, Principal
<1>5. Tab'
  BY <1>1, <1>2, <1>3, <1>4, RemoveAtSeq DEF MemberInv, Tab
<1> QED
  BY <1>1, <1>3, <1>5, EffectKeeps, Grown DEF MemberInv

LEMMA ChecksKeep == ASSUME MemberInv, (\E i \in 1..MaxChecks : CheckFails(i)) \/ Recheck PROVE MemberInv'
<1>1. UNCHANGED <<identity, refreshers, client, connects>>
      /\ \/ \E i \in DOMAIN checks : checks' = RemoveAt(checks, i)
         \/ checks' = Append(checks, Principal)
  BY DEF CheckFails, Recheck, model
<1>2. Accounts' /\ cut' = cut /\ Known' = Known /\ token' = token
  BY <1>1, SameServer DEF identity, refreshers
<1>3. checks \in Seq(Known \cup {Nobody}) /\ Principal \in Known \cup {Nobody}
  BY DEF MemberInv, Tab, Accounts, Principal
<1>4. checks' \in Seq(Known \cup {Nobody})
  <2>1. ASSUME NEW i \in DOMAIN checks, checks' = RemoveAt(checks, i) PROVE checks' \in Seq(Known \cup {Nobody})
    BY <1>3, <2>1, RemoveAtSeq
  <2>2. CASE checks' = Append(checks, Principal)
    BY <1>3, <2>2
  <2> QED
    BY <1>1, <2>1, <2>2
<1>5. Tab'
  BY <1>1, <1>2, <1>4 DEF MemberInv, Tab
<1> QED
  BY <1>1, <1>2, <1>5, Grown DEF MemberInv

LEMMA TokenKeeps == ASSUME MemberInv, NEW c \in Connects, Token(c) PROVE MemberInv'
<1>1. PICK t \in {connects[c].token, Mint} :
        \/ t # NoToken /\ connects' = [connects EXCEPT ![c] = [step |-> "connecting", token |-> t]]
        \/ connects' = [connects EXCEPT ![c] = Idle]
  BY DEF Token
<1>2. UNCHANGED <<identity, refreshers, client, checks>>
  BY DEF Token, session
<1>3. Accounts' /\ cut' = cut /\ Known' = Known /\ token' = token
  BY <1>2, SameServer DEF identity, refreshers
<1>4. NoToken \in Tok /\ Sound(NoToken) /\ t \in Tok /\ Sound(t)
  BY <1>1, MintSound DEF MemberInv, Attempts
<1>5. t # NoToken => Good(t)
  BY <1>4 DEF Sound, Tok, NoToken
<1>6. Attempts'
  BY <1>1, <1>3, <1>4, <1>5 DEF MemberInv, Attempts, Sound, Good, Idle
<1>7. Tab' /\ Held'
  BY <1>2, <1>3, Grown DEF MemberInv, Tab
<1> QED
  BY <1>3, <1>6, <1>7 DEF MemberInv

LEMMA StartKeeps ==
  ASSUME MemberInv, NEW r \in Clients, NEW old, NEW t \in Tok, Good(t), Start(r, old, t), UNCHANGED cut
  PROVE  Held'
<1>1. token' = [c \in Clients |-> IF c = r THEN t ELSE IF c = old THEN [t EXCEPT !.left = 0] ELSE token[c]]
  BY DEF Start
<1>2. [t EXCEPT !.left = 0] \in Tok /\ Good([t EXCEPT !.left = 0])
  BY LeftSound
<1> QED
  BY <1>1, <1>2 DEF MemberInv, Held, Sound, Good

LEMMA ConnectedKeeps == ASSUME MemberInv, NEW c \in Connects, Connected(c) PROVE MemberInv'
<1>1. PICK r \in Clients, left \in 0..Life :
        Start(r, stopper, [connects[c].token EXCEPT !.left = left])
  BY DEF Connected
<1>2. /\ connects[c].step = "connecting" /\ connects' = [connects EXCEPT ![c] = Idle]
      /\ UNCHANGED <<identity, client, checks>>
  BY DEF Connected, session
<1>3. Accounts' /\ cut' = cut /\ Known' = Known
  BY <1>2, SameServer
<1>4. connects[c].token \in Tok /\ Good(connects[c].token) /\ NoToken \in Tok /\ Sound(NoToken)
  BY <1>2, MintSound DEF MemberInv, Attempts
<1>5. left \in Nat
  BY RefreshAssumption
<1>6. [connects[c].token EXCEPT !.left = left] \in Tok /\ Good([connects[c].token EXCEPT !.left = left])
  BY <1>4, <1>5, LeftSound
<1>7. Held'
  BY <1>1, <1>3, <1>6, StartKeeps
<1>8. Attempts'
  BY <1>2, <1>3, <1>4 DEF MemberInv, Attempts, Sound, Good, Idle
<1>9. Tab'
  BY <1>2, <1>3 DEF MemberInv, Tab
<1> QED
  BY <1>3, <1>7, <1>8, <1>9 DEF MemberInv

LEMMA ConnectFailsKeeps == ASSUME MemberInv, NEW c \in Connects, ConnectFails(c) PROVE MemberInv'
<1>1. connects' = [connects EXCEPT ![c] = Idle] /\ UNCHANGED <<identity, refreshers, client, checks>>
  BY DEF ConnectFails, session
<1>2. Accounts' /\ cut' = cut /\ Known' = Known /\ token' = token
  BY <1>1, SameServer DEF identity, refreshers
<1>3. Attempts'
  BY <1>1, <1>2, MintSound DEF MemberInv, Attempts, Sound, Good, Idle
<1> QED
  BY <1>1, <1>2, <1>3, Grown DEF MemberInv, Tab

LEMMA RetryKeeps == ASSUME MemberInv, Retry PROVE MemberInv'
<1>1. Effect(user) /\ UNCHANGED <<identity, refreshers, client, checks>>
  BY DEF Retry, session
<1>2. Accounts' /\ cut' = cut /\ Known' = Known /\ token' = token
  BY <1>1, SameServer DEF identity, refreshers
<1> QED
  BY <1>1, <1>2, EffectKeeps, Grown DEF MemberInv, Tab

-----------------------------------------------------------------------------
(* The refreshers *)

\* A step that leaves the server and the rest of the tab alone.
LEMMA RefresherKeeps ==
  ASSUME MemberInv, UNCHANGED <<identity, checks, client, connects>>, Held'
  PROVE  MemberInv'
<1>1. Accounts' /\ cut' = cut /\ Known' = Known
  BY SameServer DEF identity
<1> QED
  BY <1>1, Grown DEF MemberInv, Tab

LEMMA TokenLandsKeeps == ASSUME MemberInv, NEW r \in Clients, NEW i, TokenLands(r, i) PROVE MemberInv'
<1>1. PICK left \in 0..Life : Renewed(r, i, [Mint EXCEPT !.left = left])
  BY DEF TokenLands
<1>2. Mint # NoToken /\ UNCHANGED <<identity, checks, client, connects>> /\ left \in Nat
  BY RefreshAssumption DEF TokenLands, session, model
<1>3. Mint \in Tok /\ Good(Mint)
  BY <1>2, MintSound DEF MemberInv
<1>4. [Mint EXCEPT !.left = left] \in Tok /\ Good([Mint EXCEPT !.left = left])
  BY <1>2, <1>3, LeftSound
<1>5. token' = [token EXCEPT ![r] = [Mint EXCEPT !.left = left]] \/ token' = token
  BY <1>1 DEF Renewed
<1>6. Held'
  BY <1>2, <1>4, <1>5 DEF MemberInv, Held, Sound, Good, identity
<1> QED
  BY <1>2, <1>6, RefresherKeeps

LEMMA ElapseKeeps == ASSUME MemberInv, Elapse, UNCHANGED cut PROVE Held'
<1>1. token' = [r \in Clients |-> IF state[r] = "on"
                                  THEN [r2 \in Clients |-> [token[r2] EXCEPT !.left = Down(@)]][r]
                                  ELSE token[r]]
  BY DEF Elapse
<1>2. ASSUME NEW r \in Clients
      PROVE  token'[r] = token[r] \/ token'[r] = [token[r] EXCEPT !.left = Down(@)]
  BY <1>1
<1>3. ASSUME NEW r \in Clients PROVE token'[r] \in Tok /\ Sound(token'[r])
  <2>1. token[r] \in Tok /\ Sound(token[r]) /\ token[r].left \in Nat
    BY DEF MemberInv, Held, Tok
  <2>2. Down(token[r].left) \in Nat /\ Down(token[r].left) <= token[r].left
    BY <2>1 DEF Down
  <2>3. /\ [token[r] EXCEPT !.left = Down(token[r].left)] \in Tok
        /\ Sound([token[r] EXCEPT !.left = Down(token[r].left)])
    BY <2>1, <2>2, LeftSound
  <2> QED
    BY <1>2, <2>1, <2>3
<1> QED
  BY <1>1, <1>3 DEF Held, Sound, Good

LEMMA StopKeeps == ASSUME MemberInv, Stop(stopper), UNCHANGED cut PROVE Held'
<1>1. CASE stopper \in Clients
  <2>1. token' = [token EXCEPT ![stopper].left = 0]
    BY <1>1 DEF Stop, Stopped
  <2>2. token[stopper] \in Tok /\ Sound(token[stopper]) /\ 0 <= token[stopper].left
    BY <1>1 DEF MemberInv, Held, Tok
  <2>3. [token[stopper] EXCEPT !.left = 0] \in Tok /\ Sound([token[stopper] EXCEPT !.left = 0])
    BY <2>2, LeftSound
  <2>4. token' = [token EXCEPT ![stopper] = [token[stopper] EXCEPT !.left = 0]]
    BY <2>1
  <2> QED
    BY <1>1, <2>3, <2>4 DEF MemberInv, Held, Sound, Good
<1>2. CASE stopper \notin Clients
  BY <1>2, Grown DEF Stop, refreshers, MemberInv, Held, Sound, Good
<1> QED
  BY <1>1, <1>2

\* A step that leaves the tokens alone too.
LEMMA OthersKeep ==
  ASSUME MemberInv, UNCHANGED <<identity, checks, client, connects, token>>
  PROVE  MemberInv'
<1>1. Held'
  BY DEF MemberInv, Held, Sound, Good, identity
<1> QED
  BY <1>1, RefresherKeeps

LEMMA TimesKeep ==
  ASSUME MemberInv, Time \/ (\E r \in Clients : Timer(r))
                    \/ (\E r \in Clients, i \in 1..MaxFlights : TokenRefused(r, i))
  PROVE  MemberInv'
<1>1. UNCHANGED <<identity, checks, client, connects>>
  BY DEF Time, Timer, TokenRefused, session, model
<1>2. Elapse \/ UNCHANGED token
  BY DEF Time, Timer, TokenRefused, Fire, Visible, Refused, Tick, Doze
<1> QED
  BY <1>1, <1>2, ElapseKeeps, RefresherKeeps, OthersKeep DEF identity

-----------------------------------------------------------------------------
(* Signing up, in and out *)

\* A step of the server, after which the tab may check or forget the session.
LEMMA SessionKeeps ==
  ASSUME MemberInv, Accounts', Known \subseteq Known', cut \subseteq cut',
         UNCHANGED <<connects, token>>,
         checks' = checks \/ checks' = Append(checks, cookie'),
         client' = client \/ client' = Nobody
  PROVE  MemberInv'
<1>1. /\ checks \in Seq(Known' \cup {Nobody}) /\ client \in Known' \cup {Nobody}
      /\ Attempts' /\ Held'
  BY Grown
<1>2. cookie' \in Known' \cup {Nobody}
  BY DEF Accounts
<1>3. Tab'
  BY <1>1, <1>2 DEF Tab
<1> QED
  BY <1>1, <1>3 DEF MemberInv

LEMMA AuthKeeps ==
  ASSUME MemberInv, Submit("signin") \/ Submit("signup") \/ Ceremony \/ Authed \/ AuthFails
  PROVE  MemberInv'
<1>1. /\ UNCHANGED <<connects, token, client>>
      /\ checks' = checks \/ checks' = Append(checks, cookie')
  BY DEF Submit, Ceremony, Authed, AuthFails, Others, refreshers, model
<1>2. \/ UNCHANGED identity
      \/ \E u \in Users : ResolveUser(u) \/ SignedIn(u)
      \/ OnUserCreated \/ Verified \/ SignUpFails
  BY DEF Submit, Ceremony, Authed, AuthFails
<1>3. Accounts' /\ Known \subseteq Known' /\ cut \subseteq cut'
  BY <1>2, ServerKeeps, SameServer
<1> QED
  BY <1>1, <1>3, SessionKeeps

LEMMA LogoutKeeps == ASSUME MemberInv, Logout \/ LoggedOut \/ LogoutFails PROVE MemberInv'
<1>1. CASE Logout
  <2>1. UNCHANGED <<identity, checks, client, connects>> /\ Stop(stopper)
    BY <1>1 DEF Logout, session
  <2> QED
    BY <2>1, StopKeeps, RefresherKeeps DEF identity
<1>2. CASE LoggedOut
  <2>1. UNCHANGED <<connects, token, checks>> /\ client' = Nobody /\ (SignedOut \/ UNCHANGED identity)
    BY <1>2 DEF LoggedOut, refreshers, model
  <2>2. Accounts' /\ Known \subseteq Known' /\ cut \subseteq cut'
    BY <2>1, ServerKeeps, SameServer
  <2> QED
    BY <2>1, <2>2, SessionKeeps
<1>3. CASE LogoutFails
  BY <1>3, OthersKeep DEF LogoutFails, session, model, refreshers
<1> QED
  BY <1>1, <1>2, <1>3

-----------------------------------------------------------------------------
(* The theorems *)

\* Membership, from the hook that grants it to the tokens of the tab.
THEOREM MembershipInductive == Spec => []MemberInv
<1>1. Init => MemberInv
  <2> SUFFICES ASSUME Init PROVE MemberInv
    OBVIOUS
  <2>1. Accounts
    BY DEF Init, IdentityInit, NoSignup, Accounts, Known
  <2>2. NoToken \in Tok /\ Sound(NoToken)
    BY <2>1, MintSound
  <2>3. Tab
    BY DEF Init, Tab
  <2>4. Attempts
    BY <2>2 DEF Init, Attempts, Idle
  <2>5. Held
    BY <2>2 DEF Init, RefreshInit, Held
  <2> QED
    BY <2>1, <2>3, <2>4, <2>5 DEF MemberInv
<1>2. MemberInv /\ [Next]_vars => MemberInv'
  <2> SUFFICES ASSUME MemberInv, [Next]_vars PROVE MemberInv'
    OBVIOUS
  <2>1. CASE Next
    BY <2>1, CheckedKeeps, ChecksKeep, TokenKeeps, ConnectedKeeps, ConnectFailsKeeps, RetryKeeps,
       TokenLandsKeeps, TimesKeep, AuthKeeps, LogoutKeeps DEF Next
  <2>2. CASE UNCHANGED vars
    BY <2>2, OthersKeep DEF vars, session, model, refreshers
  <2> QED
    BY <2>1, <2>2
<1> QED
  BY <1>1, <1>2, PTL DEF Spec

\* A tab's client, and every token it holds, is of a member or of a user whose
\* creation a crash cut short, for any number of users and tokens.
THEOREM MembersRead == Spec => []ReadersAreMembers
<1>1. MemberInv => ReadersAreMembers
  <2> SUFFICES ASSUME MemberInv PROVE ReadersAreMembers
    OBVIOUS
  <2>1. client # Nobody => client \in members \cup cut
    BY DEF MemberInv, Tab, Known
  <2>2. ASSUME NEW r \in Clients, token[r] # NoToken PROVE token[r].claim \/ token[r].of \in cut
    <3>1. token[r] \in Tok /\ Sound(token[r])
      BY DEF MemberInv, Held
    <3> QED
      BY <2>2, <3>1 DEF Sound, Good, Tok, NoToken
  <2> QED
    BY <2>1, <2>2 DEF ReadersAreMembers
<1> QED
  BY <1>1, MembershipInductive, PTL

StopperInv ==
  /\ state \in [Clients -> {"off", "on", "stopped"}]
  /\ signOuts \in Nat
  /\ OneRefresher

\* The tab can stop every refresher that is on, and until the first sign-out it
\* is the one of the client in use, however attempts to connect overlap.
THEOREM NoRefresherLeft == Spec => []OneRefresher
<1>1. Init => StopperInv
  BY DEF Init, RefreshInit, StopperInv, OneRefresher
<1>2. StopperInv /\ [Next]_vars => StopperInv'
  <2> SUFFICES ASSUME StopperInv, [Next]_vars PROVE StopperInv'
    OBVIOUS
  <2>1. ASSUME NEW c \in Connects, Connected(c) PROVE StopperInv'
    <3>1. PICK r \in Clients :
            /\ jazz' = r /\ stopper' = r /\ UNCHANGED signOuts
            /\ \E t : Start(r, stopper, t)
      BY <2>1 DEF Connected
    <3>2. state' = [q \in Clients |-> IF q = r THEN "on" ELSE IF q = stopper THEN "stopped" ELSE state[q]]
      BY <3>1 DEF Start
    <3> QED
      BY <3>1, <3>2 DEF StopperInv, OneRefresher
  <2>2. CASE Logout
    <3>1. Stop(stopper) /\ stopper' = 0 /\ signOuts' = signOuts + 1
      BY <2>2 DEF Logout
    <3>2. state' = state \/ state' = [state EXCEPT ![stopper] = "stopped"]
      BY <3>1 DEF Stop, Stopped, refreshers
    <3>3. stopper \notin Clients => state' = state
      BY <3>1 DEF Stop, refreshers
    <3>4. stopper \in Clients => state' = [state EXCEPT ![stopper] = "stopped"]
      BY <3>1 DEF Stop, Stopped
    <3>5. signOuts' \in Nat /\ signOuts' # 0
      BY <3>1 DEF StopperInv
    <3> QED
      BY <3>3, <3>4, <3>5 DEF StopperInv, OneRefresher
  <2>3. CASE UNCHANGED <<state, stopper, jazz, signOuts>>
    BY <2>3 DEF StopperInv, OneRefresher
  <2>4. \/ \E c \in Connects : Connected(c)
        \/ Logout
        \/ UNCHANGED <<state, stopper, jazz, signOuts>>
    <3>1. CASE UNCHANGED vars
      BY <3>1 DEF vars, refreshers, model
    <3>2. CASE \E i \in 1..MaxChecks : Checked(i) \/ CheckFails(i)
      BY <3>2 DEF Checked, CheckFails, refreshers, model
    <3>3. CASE Recheck \/ Retry \/ Time
      BY <3>3 DEF Recheck, Retry, Time, Tick, Doze, Elapse, refreshers, model
    <3>4. CASE \E c \in Connects : Token(c) \/ Connected(c) \/ ConnectFails(c)
      BY <3>4 DEF Token, ConnectFails, refreshers
    <3>5. CASE \E r \in Clients : Timer(r)
      BY <3>5 DEF Timer, Fire, Visible, model
    <3>6. CASE \E r \in Clients, i \in 1..MaxFlights : TokenLands(r, i) \/ TokenRefused(r, i)
      BY <3>6 DEF TokenLands, TokenRefused, Renewed, Refused, model
    <3>7. CASE Submit("signin") \/ Submit("signup") \/ Ceremony \/ Authed \/ AuthFails
      BY <3>7 DEF Submit, Ceremony, Authed, AuthFails, Others, refreshers, model
    <3>8. CASE Logout \/ LoggedOut \/ LogoutFails
      BY <3>8 DEF LoggedOut, LogoutFails, refreshers, model
    <3> QED
      BY <3>1, <3>2, <3>3, <3>4, <3>5, <3>6, <3>7, <3>8 DEF Next
  <2> QED
    BY <2>1, <2>2, <2>3, <2>4
<1>3. StopperInv => OneRefresher
  BY DEF StopperInv
<1> QED
  BY <1>1, <1>2, <1>3, PTL DEF Spec

-----------------------------------------------------------------------------
(* The refreshers: what each of them owes to the token in use *)

Toks == Tokens \cup {NoToken}

\* A refresher that is on has a request under way or an armed timer, and an
\* armed timer is no later than the token in use asks for.
Planned(r) ==
  /\ Len(flights[r]) = 0 => armed[r]
  /\ armed[r] => due[r] \in 0..MsUntilRefresh(token[r].left)

\* Unless it is excused, the timer fires a margin before the expiry, and a
\* request that has replaced the timer was sent with that margin left.
InTime(r) ==
  state[r] = "on" /\ ~excused[r] =>
    IF armed[r] THEN token[r].left >= due[r] + Margin
    ELSE \E i \in DOMAIN flights[r] :
           flights[r][i] <= Latency /\ token[r].left + flights[r][i] >= Margin

Kept(r) ==
  /\ Len(flights[r]) <= MaxFlights
  /\ armed[r] => state[r] = "on"
  /\ state[r] = "on" => Planned(r)
  /\ InTime(r)

RefreshTypes ==
  /\ state \in [Clients -> {"off", "on", "stopped"}]
  /\ token \in [Clients -> Toks]
  /\ armed \in [Clients -> BOOLEAN] /\ due \in [Clients -> Ages \cup {Never}]
  /\ flights \in [Clients -> Seq(Ages)] /\ excused \in [Clients -> BOOLEAN]

RefreshInv == RefreshTypes /\ \A r \in Clients : Kept(r)

LEMMA Times ==
  /\ Life \in Nat /\ Margin \in Nat /\ MinDelay \in Nat /\ Latency \in Nat /\ MaxFlights \in Nat
  /\ 0 < MinDelay /\ MinDelay <= Margin /\ Margin < Life /\ Latency < Margin /\ 0 < MaxFlights
BY RefreshAssumption

LEMMA LeftOf ==
  ASSUME NEW t \in Toks
  PROVE  /\ t.left \in 0..Life
         /\ \A l \in 0..Life : l <= t.left => [t EXCEPT !.left = l] \in Toks
         /\ t # NoToken => \A l \in 0..Life : [t EXCEPT !.left = l] \in Tokens
<1>1. CASE t \in Tokens
  <2>1. t.left \in 0..Life /\ \A l \in 0..Life : [t EXCEPT !.left = l] \in Tokens
    BY <1>1 DEF Tokens
  <2> QED
    BY <2>1 DEF Toks
<1>2. CASE t = NoToken
  <2>1. t.left = 0 /\ 0 \in 0..Life
    BY <1>2, Times DEF NoToken
  <2>2. ASSUME NEW l \in 0..Life, l <= t.left PROVE [t EXCEPT !.left = l] = NoToken
    <3>1. l = 0
      BY <2>1, <2>2
    <3>2. NoToken \in [of : {Nobody}, claim : BOOLEAN, left : Nat] /\ NoToken.left = 0
      BY DEF NoToken
    <3>3. [NoToken EXCEPT !.left = 0] = NoToken
      BY <3>2
    <3> QED
      BY <1>2, <3>1, <3>3
  <2> QED
    BY <1>2, <2>1, <2>2 DEF Toks
<1> QED
  BY <1>1, <1>2 DEF Toks

LEMMA Delay ==
  ASSUME NEW left \in 0..Life
  PROVE  /\ MsUntilRefresh(left) \in Ages /\ MsUntilRefresh(left) >= MinDelay
         /\ left - Margin >= MinDelay => MsUntilRefresh(left) = left - Margin
         /\ left > 0 => MsUntilRefresh(left) - 1 <= MsUntilRefresh(left - 1)
BY Times DEF MsUntilRefresh, Ages

LEMMA RemovedLen ==
  ASSUME NEW S, NEW s \in Seq(S), NEW i \in 1..Len(s)
  PROVE  RemoveAt(s, i) \in Seq(S) /\ Len(RemoveAt(s, i)) = Len(s) - 1
<1>1. SubSeq(s, 1, i - 1) \in Seq(S) /\ Len(SubSeq(s, 1, i - 1)) = i - 1
  BY SubSeqProperties
<1>2. SubSeq(s, i + 1, Len(s)) \in Seq(S) /\ Len(SubSeq(s, i + 1, Len(s))) = Len(s) - i
  BY SubSeqProperties
<1>3. PICK a \in Seq(S), b \in Seq(S) :
        a = SubSeq(s, 1, i - 1) /\ b = SubSeq(s, i + 1, Len(s))
  BY <1>1, <1>2
<1>4. a \o b \in Seq(S) /\ Len(a \o b) = Len(a) + Len(b)
  BY ConcatProperties
<1>5. RemoveAt(s, i) = a \o b
  BY <1>3 DEF RemoveAt
<1>6. Len(a) + Len(b) = Len(s) - 1
  <2>1. Len(a) = i - 1 /\ Len(b) = Len(s) - i /\ Len(s) \in Nat /\ i \in Int
    BY <1>1, <1>2, <1>3
  <2> QED
    BY <2>1
<1> QED
  BY <1>4, <1>5, <1>6

\* A refresher that a step leaves alone.
LEMMA Untouched ==
  ASSUME NEW r \in Clients, Kept(r),
         state'[r] = state[r], token'[r] = token[r], armed'[r] = armed[r], due'[r] = due[r],
         flights'[r] = flights[r], excused'[r] = excused[r]
  PROVE  Kept(r)'
BY DEF Kept, Planned, InTime

\* One that is not on owes nothing.
LEMMA NotOn ==
  ASSUME NEW r \in Clients, state'[r] # "on", ~armed'[r], Len(flights'[r]) <= MaxFlights
  PROVE  Kept(r)'
BY DEF Kept, InTime

LEMMA ZeroFlights ==
  ASSUME NEW s \in Seq(Ages)
  PROVE  [i \in DOMAIN s |-> 0] \in Seq(Ages) /\ Len([i \in DOMAIN s |-> 0]) = Len(s)
<1>1. 0 \in Ages
  BY Times DEF Ages
<1> QED
  BY <1>1

LEMMA StoppedKeeps == ASSUME RefreshInv, NEW r \in Clients, Stopped(r) PROVE RefreshInv'
<1>1. /\ token[r] \in Toks /\ flights[r] \in Seq(Ages) /\ Len(flights[r]) <= MaxFlights
      /\ Never \in Ages \cup {Never} /\ 0 \in 0..Life /\ 0 <= token[r].left
  BY LeftOf, Times DEF RefreshInv, RefreshTypes, Kept
<1>2. /\ state' = [state EXCEPT ![r] = "stopped"] /\ armed' = [armed EXCEPT ![r] = FALSE]
      /\ due' = [due EXCEPT ![r] = Never] /\ excused' = [excused EXCEPT ![r] = FALSE]
      /\ token' = [token EXCEPT ![r] = [token[r] EXCEPT !.left = 0]]
      /\ flights' = [flights EXCEPT ![r] = [i \in DOMAIN flights[r] |-> 0]]
  BY DEF Stopped
<1>3. RefreshTypes'
  <2>1. [token[r] EXCEPT !.left = 0] \in Toks
    BY <1>1, LeftOf
  <2>2. [i \in DOMAIN flights[r] |-> 0] \in Seq(Ages)
    BY <1>1, ZeroFlights
  <2> QED
    BY <1>1, <1>2, <2>1, <2>2 DEF RefreshInv, RefreshTypes
<1>4. ASSUME NEW q \in Clients PROVE Kept(q)'
  <2>1. CASE q = r
    BY <1>1, <1>2, <2>1, ZeroFlights, NotOn DEF RefreshInv, RefreshTypes
  <2>2. CASE q # r
    BY <1>2, <2>2, Untouched DEF RefreshInv, RefreshTypes
  <2> QED
    BY <2>1, <2>2
<1> QED
  BY <1>3, <1>4 DEF RefreshInv

LEMMA StopKeepsTimes == ASSUME RefreshInv, NEW r, Stop(r) PROVE RefreshInv'
<1>1. CASE r \in Clients
  BY <1>1, StoppedKeeps DEF Stop
<1>2. CASE r \notin Clients
  BY <1>2 DEF Stop, refreshers, RefreshInv, RefreshTypes, Kept, Planned, InTime
<1> QED
  BY <1>1, <1>2

LEMMA StartKeepsTimes ==
  ASSUME RefreshInv, NEW r \in Clients, NEW old, NEW t \in Tokens, Start(r, old, t)
  PROVE  RefreshInv'
<1> DEFINE off(c) == [i \in DOMAIN flights[c] |-> 0]
<1>1. /\ state' = [c \in Clients |-> IF c = r THEN "on" ELSE IF c = old THEN "stopped" ELSE state[c]]
      /\ armed' = [c \in Clients |-> IF c = r THEN FALSE ELSE IF c = old THEN FALSE ELSE armed[c]]
      /\ due' = [c \in Clients |-> IF c = r THEN Never ELSE IF c = old THEN Never ELSE due[c]]
      /\ excused' = [c \in Clients |->
           IF c = r THEN t.left <= Margin ELSE IF c = old THEN FALSE ELSE excused[c]]
      /\ token' = [c \in Clients |->
           IF c = r THEN t ELSE IF c = old THEN [t EXCEPT !.left = 0] ELSE token[c]]
      /\ flights' = [c \in Clients |-> IF c = r THEN <<0>> ELSE IF c = old THEN off(c) ELSE flights[c]]
  BY DEF Start
<1>2. /\ 0 \in Ages /\ t.left \in 0..Life /\ t \in Toks
      /\ [t EXCEPT !.left = 0] \in Toks
  BY Times DEF Ages, Toks, Tokens
<1>3. <<0>> \in Seq(Ages) /\ Len(<<0>>) = 1 /\ DOMAIN <<0>> = {1} /\ <<0>>[1] = 0
  BY <1>2
<1>4. ASSUME NEW c \in Clients PROVE off(c) \in Seq(Ages) /\ Len(off(c)) = Len(flights[c])
  BY ZeroFlights DEF RefreshInv, RefreshTypes
<1>5. RefreshTypes'
  <2>1. flights' \in [Clients -> Seq(Ages)]
    BY <1>1, <1>3, <1>4 DEF RefreshInv, RefreshTypes
  <2>2. token' \in [Clients -> Toks]
    BY <1>1, <1>2 DEF RefreshInv, RefreshTypes
  <2>3. excused' \in [Clients -> BOOLEAN]
    <3>1. (t.left <= Margin) \in BOOLEAN
      OBVIOUS
    <3> QED
      BY <1>1, <3>1 DEF RefreshInv, RefreshTypes
  <2>4. armed' \in [Clients -> BOOLEAN] /\ due' \in [Clients -> Ages \cup {Never}]
        /\ state' \in [Clients -> {"off", "on", "stopped"}]
    BY <1>1 DEF RefreshInv, RefreshTypes
  <2> QED
    BY <2>1, <2>2, <2>3, <2>4 DEF RefreshTypes
<1>6. ASSUME NEW q \in Clients PROVE Kept(q)'
  <2>1. CASE q = r
    <3>1. /\ flights'[q] = <<0>> /\ armed'[q] = FALSE /\ token'[q] = t
          /\ excused'[q] = (t.left <= Margin) /\ state'[q] = "on"
      BY <1>1, <2>1
    <3>2. ~excused'[q] => t.left + 0 >= Margin
      <4>1. t.left <= Margin \/ t.left + 0 >= Margin
        BY <1>2, Times
      <4>2. t.left <= Margin => excused'[q] = TRUE
        BY <3>1
      <4> QED
        BY <4>1, <4>2
    <3>3. InTime(q)'
      BY <1>3, <3>1, <3>2, Times DEF InTime
    <3>4. Planned(q)'
      BY <1>3, <3>1 DEF Planned
    <3> QED
      BY <1>3, <3>1, <3>3, <3>4, Times DEF Kept
  <2>2. CASE q # r /\ q = old
    BY <1>1, <1>4, <2>2, NotOn DEF RefreshInv, Kept
  <2>3. CASE q # r /\ q # old
    BY <1>1, <2>3, Untouched DEF RefreshInv, RefreshTypes
  <2> QED
    BY <2>1, <2>2, <2>3
<1> QED
  BY <1>5, <1>6 DEF RefreshInv

\* The timer fires, or the tab wakes up: a request is sent.
LEMMA AskKeeps == ASSUME RefreshInv, NEW r \in Clients, Fire(r) \/ Visible(r) PROVE RefreshInv'
<1>1. /\ state[r] = "on" /\ due[r] = 0 /\ Len(flights[r]) < MaxFlights
      /\ flights' = [flights EXCEPT ![r] = Append(flights[r], 0)]
      /\ UNCHANGED <<state, token, due, excused>>
      /\ \/ armed[r] /\ armed' = [armed EXCEPT ![r] = FALSE]
         \/ armed' = armed
  BY DEF Fire, Visible, Asked, RefreshInv, Kept
<1>2. flights[r] \in Seq(Ages) /\ 0 \in Ages /\ token[r].left \in 0..Life
  BY LeftOf, Times DEF RefreshInv, RefreshTypes, Ages
<1>3. /\ Append(flights[r], 0) \in Seq(Ages) /\ Len(Append(flights[r], 0)) = Len(flights[r]) + 1
      /\ Append(flights[r], 0)[Len(flights[r]) + 1] = 0
      /\ \A i \in DOMAIN flights[r] : i \in DOMAIN Append(flights[r], 0)
                                      /\ Append(flights[r], 0)[i] = flights[r][i]
      /\ Len(flights[r]) + 1 \in DOMAIN Append(flights[r], 0)
  BY <1>2
<1>4. RefreshTypes'
  BY <1>1, <1>3 DEF RefreshInv, RefreshTypes
<1>5. ASSUME NEW q \in Clients PROVE Kept(q)'
  <2>1. CASE q = r
    <3>1. flights'[r] = Append(flights[r], 0)
      BY <1>1 DEF RefreshInv, RefreshTypes
    <3>2. Len(flights'[r]) <= MaxFlights /\ Len(flights'[r]) # 0
      BY <1>1, <1>2, <1>3, <3>1, Times
    <3>3. armed'[r] => armed[r]
      BY <1>1 DEF RefreshInv, RefreshTypes
    <3>4. Planned(r) /\ InTime(r)
      BY <1>1 DEF RefreshInv, Kept
    <3>5. Planned(r)'
      BY <1>1, <3>2, <3>3, <3>4 DEF Planned
    <3>6. InTime(r)'
      <4>1. CASE armed' = armed
        BY <1>1, <1>3, <3>1, <3>4, <4>1 DEF InTime
      <4>2. CASE armed[r] /\ armed' = [armed EXCEPT ![r] = FALSE]
        <5>1. ~excused[r] => token[r].left + 0 >= Margin
          BY <1>1, <1>2, <3>4, <4>2, Times DEF InTime
        <5>2. ~armed'[r]
          BY <4>2 DEF RefreshInv, RefreshTypes
        <5>3. Len(flights[r]) + 1 \in DOMAIN flights'[r] /\ flights'[r][Len(flights[r]) + 1] = 0
          BY <1>3, <3>1
        <5>4. ~excused[r] => \E i \in DOMAIN flights'[r] :
                 flights'[r][i] <= Latency /\ token[r].left + flights'[r][i] >= Margin
          BY <5>1, <5>3, Times
        <5> QED
          BY <1>1, <5>2, <5>4 DEF InTime
      <4> QED
        BY <1>1, <4>1, <4>2
    <3> QED
      BY <1>1, <2>1, <3>2, <3>5, <3>6 DEF Kept
  <2>2. CASE q # r
    BY <1>1, <2>2, Untouched DEF RefreshInv, RefreshTypes
  <2> QED
    BY <2>1, <2>2
<1> QED
  BY <1>4, <1>5 DEF RefreshInv

\* An answer lands: a request less, and the timer is armed if r is on.
LEMMA LandedKeeps ==
  ASSUME RefreshInv, NEW r \in Clients, NEW i \in 1..Len(flights[r]), Landed(r, i),
         UNCHANGED state, token' \in [Clients -> Toks], excused' \in [Clients -> BOOLEAN],
         \A q \in Clients \ {r} : token'[q] = token[q] /\ excused'[q] = excused[q],
         NEW delay \in Ages,
         IF state[r] = "on" THEN Schedule(r, delay) ELSE UNCHANGED <<armed, due>>,
         state[r] = "on" => /\ delay <= MsUntilRefresh(token'[r].left)
                            /\ ~excused'[r] => token'[r].left >= delay + Margin
  PROVE  RefreshInv'
<1>1. flights' = [flights EXCEPT ![r] = RemoveAt(flights[r], i)]
  BY DEF Landed
<1>2. flights[r] \in Seq(Ages) /\ Len(flights[r]) <= MaxFlights
  BY DEF RefreshInv, RefreshTypes, Kept
<1>3. RemoveAt(flights[r], i) \in Seq(Ages) /\ Len(RemoveAt(flights[r], i)) <= MaxFlights
  BY <1>2, RemovedLen, Times
<1>4. RefreshTypes'
  <2>1. flights' \in [Clients -> Seq(Ages)]
    BY <1>1, <1>3 DEF RefreshInv, RefreshTypes
  <2>2. armed' \in [Clients -> BOOLEAN] /\ due' \in [Clients -> Ages \cup {Never}]
    BY DEF Schedule, RefreshInv, RefreshTypes
  <2> QED
    BY <2>1, <2>2 DEF RefreshInv, RefreshTypes
<1>5. ASSUME NEW q \in Clients PROVE Kept(q)'
  <2>1. CASE q # r
    BY <1>1, <2>1, Untouched DEF Schedule, RefreshInv, RefreshTypes
  <2>2. CASE q = r /\ state[r] = "on"
    <3>1. armed'[r] = TRUE /\ due'[r] = delay /\ Len(flights'[r]) <= MaxFlights
      BY <1>1, <1>3, <2>2 DEF Schedule, RefreshInv, RefreshTypes
    <3>2. delay \in 0..MsUntilRefresh(token'[r].left)
      BY <2>2, Delay, LeftOf DEF Ages
    <3>3. Planned(r)'
      BY <3>1, <3>2 DEF Planned
    <3>4. InTime(r)'
      BY <2>2, <3>1 DEF InTime
    <3> QED
      BY <2>2, <3>1, <3>3, <3>4 DEF Kept
  <2>3. CASE q = r /\ state[r] # "on"
    <3>1. ~armed[r] /\ armed' = armed
      BY <2>3 DEF RefreshInv, Kept
    <3>2. Len(flights'[r]) <= MaxFlights
      BY <1>1, <1>3 DEF RefreshInv, RefreshTypes
    <3> QED
      BY <2>3, <3>1, <3>2, NotOn
  <2> QED
    BY <2>1, <2>2, <2>3
<1> QED
  BY <1>4, <1>5 DEF RefreshInv

LEMMA RenewedKeeps ==
  ASSUME RefreshInv, NEW r \in Clients, NEW i, NEW t \in Tokens, Renewed(r, i, t)
  PROVE  RefreshInv'
<1>1. /\ i \in 1..Len(flights[r]) /\ Landed(r, i) /\ UNCHANGED state
      /\ t.left \in 0..Life /\ t \in Toks
  BY DEF Renewed, Toks, Tokens
<1>2. CASE state[r] = "on"
  <2>1. /\ token' = [token EXCEPT ![r] = t] /\ Schedule(r, MsUntilRefresh(t.left))
        /\ excused' = [excused EXCEPT ![r] = t.left - Margin < MinDelay]
    BY <1>2 DEF Renewed
  <2>2. (t.left - Margin < MinDelay) \in BOOLEAN
    OBVIOUS
  <2>3. token' \in [Clients -> Toks] /\ excused' \in [Clients -> BOOLEAN]
    BY <1>1, <2>1, <2>2 DEF RefreshInv, RefreshTypes
  <2>4. /\ \A q \in Clients \ {r} : token'[q] = token[q] /\ excused'[q] = excused[q]
        /\ token'[r] = t /\ excused'[r] = (t.left - Margin < MinDelay)
    BY <2>1 DEF RefreshInv, RefreshTypes
  <2>5. MsUntilRefresh(t.left) \in Ages /\ MsUntilRefresh(t.left) <= MsUntilRefresh(t.left)
    BY <1>1, Delay DEF Ages
  <2>6. ~excused'[r] => t.left >= MsUntilRefresh(t.left) + Margin
    <3>1. t.left - Margin < MinDelay => excused'[r] = TRUE
      BY <2>4
    <3>2. t.left - Margin < MinDelay \/ t.left >= MsUntilRefresh(t.left) + Margin
      BY <1>1, Delay, Times
    <3> QED
      BY <3>1, <3>2
  <2> QED
    BY <1>1, <1>2, <2>1, <2>3, <2>4, <2>5, <2>6, LandedKeeps
<1>3. CASE state[r] # "on"
  <2>1. UNCHANGED <<token, armed, due, excused>> /\ 0 \in Ages
    BY <1>3, Times DEF Renewed, Ages
  <2> QED
    BY <1>1, <1>3, <2>1, LandedKeeps DEF RefreshInv, RefreshTypes
<1> QED
  BY <1>2, <1>3

LEMMA RefusedKeeps ==
  ASSUME RefreshInv, NEW r \in Clients, NEW i, Refused(r, i)
  PROVE  RefreshInv'
<1>1. /\ i \in 1..Len(flights[r]) /\ Landed(r, i) /\ UNCHANGED <<state, token>>
      /\ excused' = [excused EXCEPT ![r] = TRUE]
      /\ IF state[r] = "on" THEN Schedule(r, MinDelay) ELSE UNCHANGED <<armed, due>>
  BY DEF Refused
<1>2. /\ MinDelay \in Ages /\ token' \in [Clients -> Toks] /\ excused' \in [Clients -> BOOLEAN]
      /\ excused'[r] = TRUE
      /\ \A q \in Clients \ {r} : token'[q] = token[q] /\ excused'[q] = excused[q]
  BY <1>1, Times DEF Ages, RefreshInv, RefreshTypes
<1>3. MinDelay <= MsUntilRefresh(token'[r].left)
  BY <1>2, LeftOf, Delay, Times
<1> QED
  BY <1>1, <1>2, <1>3, LandedKeeps

\* A tick: every time of a refresher that is on moves by one.
LEMMA Aged ==
  ASSUME RefreshInv, Elapse
  PROVE  /\ UNCHANGED <<state, armed>>
         /\ token' \in [Clients -> Toks] /\ due' \in [Clients -> Ages \cup {Never}]
         /\ flights' \in [Clients -> Seq(Ages)]
         /\ \A r \in Clients : state[r] # "on" =>
              token'[r] = token[r] /\ due'[r] = due[r] /\ flights'[r] = flights[r]
         /\ \A r \in Clients : state[r] = "on" =>
              /\ token'[r].left = Down(token[r].left) /\ due'[r] = Down(due[r])
              /\ Len(flights'[r]) = Len(flights[r]) /\ DOMAIN flights'[r] = DOMAIN flights[r]
              /\ \A i \in DOMAIN flights[r] :
                   flights[r][i] < Life => flights'[r][i] = flights[r][i] + 1
<1>1. /\ token' = [r \in Clients |-> IF state[r] = "on"
                                    THEN [r2 \in Clients |-> [token[r2] EXCEPT !.left = Down(@)]][r]
                                    ELSE token[r]]
      /\ due' = [r \in Clients |-> IF state[r] = "on" THEN [r2 \in Clients |-> Down(due[r2])][r]
                                  ELSE due[r]]
      /\ flights' = [r \in Clients |-> IF state[r] = "on" THEN [r2 \in Clients |-> Older(r2)][r]
                                      ELSE flights[r]]
      /\ UNCHANGED <<state, armed>>
  BY DEF Elapse
<1>2. ASSUME NEW r \in Clients
      PROVE  /\ token'[r] = IF state[r] = "on" THEN [token[r] EXCEPT !.left = Down(token[r].left)] ELSE token[r]
             /\ due'[r] = IF state[r] = "on" THEN Down(due[r]) ELSE due[r]
             /\ flights'[r] = IF state[r] = "on" THEN Older(r) ELSE flights[r]
  BY <1>1
<1>3. ASSUME NEW r \in Clients
      PROVE  /\ [token[r] EXCEPT !.left = Down(token[r].left)] \in Toks
             /\ [token[r] EXCEPT !.left = Down(token[r].left)].left = Down(token[r].left)
  <2>1. token[r] \in Toks /\ token[r].left \in 0..Life
    BY LeftOf DEF RefreshInv, RefreshTypes
  <2>2. Down(token[r].left) \in 0..Life /\ Down(token[r].left) <= token[r].left
    BY <2>1, Times DEF Down
  <2>3. [token[r] EXCEPT !.left = Down(token[r].left)] \in Toks
    BY <2>1, <2>2, LeftOf
  <2>4. [token[r] EXCEPT !.left = Down(token[r].left)].left = Down(token[r].left)
    BY <2>1 DEF Toks, Tokens, NoToken
  <2> QED
    BY <2>3, <2>4
<1>4. ASSUME NEW r \in Clients PROVE Down(due[r]) \in Ages \cup {Never}
  <2>1. due[r] \in Ages \cup {Never}
    BY DEF RefreshInv, RefreshTypes
  <2> QED
    BY <2>1, Times DEF Down, Ages, Never
<1>5. ASSUME NEW r \in Clients
      PROVE  /\ Older(r) \in Seq(Ages) /\ Len(Older(r)) = Len(flights[r])
             /\ DOMAIN Older(r) = DOMAIN flights[r]
             /\ \A i \in DOMAIN flights[r] :
                  flights[r][i] < Life => Older(r)[i] = flights[r][i] + 1
  <2>1. flights[r] \in Seq(Ages) /\ \A i \in DOMAIN flights[r] : flights[r][i] \in Ages
    BY DEF RefreshInv, RefreshTypes
  <2>2. \A i \in DOMAIN flights[r] :
          (IF flights[r][i] < Life THEN flights[r][i] + 1 ELSE Life) \in Ages
    BY <2>1, Times DEF Ages
  <2> QED
    BY <2>1, <2>2 DEF Older
<1>6. token' \in [Clients -> Toks]
  <2>1. \A r \in Clients : token'[r] \in Toks
    BY <1>2, <1>3 DEF RefreshInv, RefreshTypes
  <2> QED
    BY <1>1, <2>1
<1>7. due' \in [Clients -> Ages \cup {Never}]
  <2>1. \A r \in Clients : due'[r] \in Ages \cup {Never}
    BY <1>2, <1>4 DEF RefreshInv, RefreshTypes
  <2> QED
    BY <1>1, <2>1
<1>8. flights' \in [Clients -> Seq(Ages)]
  <2>1. \A r \in Clients : flights'[r] \in Seq(Ages)
    BY <1>2, <1>5 DEF RefreshInv, RefreshTypes
  <2> QED
    BY <1>1, <2>1
<1>9. ASSUME NEW r \in Clients, state[r] # "on"
      PROVE  token'[r] = token[r] /\ due'[r] = due[r] /\ flights'[r] = flights[r]
  BY <1>2, <1>9
<1>10. ASSUME NEW r \in Clients, state[r] = "on"
       PROVE  /\ token'[r].left = Down(token[r].left) /\ due'[r] = Down(due[r])
              /\ Len(flights'[r]) = Len(flights[r]) /\ DOMAIN flights'[r] = DOMAIN flights[r]
              /\ \A i \in DOMAIN flights[r] :
                   flights[r][i] < Life => flights'[r][i] = flights[r][i] + 1
  BY <1>2, <1>3, <1>5, <1>10
<1> QED
  BY <1>1, <1>6, <1>7, <1>8, <1>9, <1>10

LEMMA TimeKeeps == ASSUME RefreshInv, Tick \/ Doze PROVE RefreshInv'
<1>1. Elapse
  BY DEF Tick, Doze
<1>2. excused' \in [Clients -> BOOLEAN]
  BY DEF Tick, Doze, RefreshInv, RefreshTypes
<1>3. RefreshTypes'
  BY <1>1, <1>2, Aged DEF RefreshInv, RefreshTypes
<1>4. ASSUME NEW r \in Clients PROVE Kept(r)'
  <2>1. CASE state[r] # "on"
    BY <1>1, <2>1, Aged, NotOn DEF RefreshInv, Kept
  <2>2. CASE state[r] = "on"
    <3>1. Kept(r) /\ token[r].left \in 0..Life /\ due[r] \in Ages \cup {Never} /\ state'[r] = "on"
          /\ armed'[r] = armed[r]
      BY <1>1, <2>2, LeftOf, Aged DEF RefreshInv, RefreshTypes
    <3>2. /\ token'[r].left = Down(token[r].left) /\ due'[r] = Down(due[r])
          /\ Len(flights'[r]) = Len(flights[r]) /\ DOMAIN flights'[r] = DOMAIN flights[r]
          /\ \A i \in DOMAIN flights[r] :
               flights[r][i] < Life => flights'[r][i] = flights[r][i] + 1
      BY <1>1, <2>2, Aged
    <3>3. Planned(r)'
      <4>1. Len(flights'[r]) = 0 => armed'[r]
        BY <2>2, <3>1, <3>2 DEF Kept, Planned
      <4>2. ASSUME armed'[r] PROVE due'[r] \in 0..MsUntilRefresh(token'[r].left)
        <5>1. due[r] \in 0..MsUntilRefresh(token[r].left)
          BY <2>2, <3>1, <4>2 DEF Kept, Planned
        <5>2. CASE token[r].left > 0
          <6>1. token'[r].left = token[r].left - 1 /\ token[r].left \in 0..Life
            BY <3>1, <3>2, <5>2 DEF Down
          <6>2. /\ MsUntilRefresh(token[r].left) - 1 <= MsUntilRefresh(token[r].left - 1)
                /\ MsUntilRefresh(token[r].left) \in Ages
                /\ MsUntilRefresh(token[r].left - 1) \in Ages
            BY <5>2, <6>1, Delay, Times
          <6>3. due'[r] = Down(due[r]) /\ due[r] \in Nat
            BY <3>2, <5>1, <6>2 DEF Ages
          <6>4. Down(due[r]) \in 0..MsUntilRefresh(token[r].left - 1)
            BY <5>1, <6>2, <6>3, Times DEF Down, Ages
          <6> QED
            BY <6>1, <6>3, <6>4
        <5>3. CASE token[r].left = 0
          BY <3>1, <3>2, <5>1, <5>3, Times DEF Down, Ages, MsUntilRefresh
        <5> QED
          BY <3>1, <5>2, <5>3
      <4> QED
        BY <4>1, <4>2 DEF Planned
    <3>4. InTime(r)'
      <4>1. CASE Doze
        <5>1. excused'[r] = TRUE
          BY <2>2, <4>1 DEF Doze
        <5> QED
          BY <5>1 DEF InTime
      <4>2. CASE Tick
        <5>1. /\ excused'[r] = excused[r] /\ (armed[r] => due[r] # 0)
              /\ \A i \in DOMAIN flights[r] : flights[r][i] < Latency
          BY <2>2, <4>2 DEF Tick
        <5> SUFFICES ASSUME ~excused[r]
                     PROVE  IF armed[r] THEN token'[r].left >= due'[r] + Margin
                            ELSE \E i \in DOMAIN flights'[r] :
                              flights'[r][i] <= Latency /\ token'[r].left + flights'[r][i] >= Margin
          BY <3>1, <5>1 DEF InTime
        <5>2. CASE armed[r]
          <6>1. due[r] \in 0..MsUntilRefresh(token[r].left) /\ due[r] # 0 /\ due[r] \in Ages
            BY <2>2, <3>1, <5>1, <5>2, Times DEF Kept, Planned, Never, Ages
          <6>2. token[r].left >= due[r] + Margin
            BY <2>2, <3>1, <5>2 DEF Kept, InTime
          <6>3. due[r] \in Nat /\ due[r] > 0 /\ token[r].left \in Nat /\ token[r].left > 0
            BY <3>1, <6>1, <6>2, Times DEF Ages
          <6>4. due'[r] = due[r] - 1 /\ token'[r].left = token[r].left - 1
            BY <3>2, <6>3 DEF Down
          <6>5. token'[r].left >= due'[r] + Margin
            BY <6>2, <6>3, <6>4, Times
          <6> QED
            BY <5>2, <6>5
        <5>3. CASE ~armed[r]
          <6>1. PICK i \in DOMAIN flights[r] :
                  flights[r][i] <= Latency /\ token[r].left + flights[r][i] >= Margin
            BY <2>2, <3>1, <5>3 DEF Kept, InTime
          <6>2. flights[r][i] \in Nat /\ flights[r][i] < Latency
            BY <5>1, Times DEF RefreshInv, RefreshTypes, Ages
          <6>3. flights'[r][i] = flights[r][i] + 1 /\ i \in DOMAIN flights'[r]
            BY <3>2, <6>2, Times
          <6>4. token[r].left > 0 /\ token'[r].left = token[r].left - 1
            BY <3>1, <3>2, <6>1, <6>2, Times DEF Down
          <6>5. flights'[r][i] <= Latency /\ token'[r].left + flights'[r][i] >= Margin
            BY <3>1, <6>1, <6>2, <6>3, <6>4, Times
          <6> QED
            BY <5>3, <6>3, <6>5
        <5> QED
          BY <5>2, <5>3
      <4> QED
        BY <4>1, <4>2
    <3>5. Len(flights'[r]) <= MaxFlights
      BY <3>1, <3>2 DEF Kept
    <3> QED
      BY <3>1, <3>3, <3>4, <3>5 DEF Kept
  <2> QED
    BY <2>1, <2>2
<1> QED
  BY <1>3, <1>4 DEF RefreshInv

\* What is owed is enough.
LEMMA KeptIsEnough == ASSUME RefreshInv PROVE TokenKept
<1>1. ASSUME NEW r \in Clients, state[r] = "on"
      PROVE  Len(flights[r]) > 0 \/ (armed[r] /\ due[r] <= MsUntilRefresh(token[r].left))
  <2>1. Planned(r) /\ flights[r] \in Seq(Ages) /\ MsUntilRefresh(token[r].left) \in Ages
    BY <1>1, LeftOf, Delay DEF RefreshInv, RefreshTypes, Kept
  <2> QED
    BY <2>1, Times DEF Planned, Ages
<1>2. ASSUME NEW r \in Clients, state[r] = "on", ~excused[r] PROVE token[r].left > 0
  <2>1. Planned(r) /\ InTime(r) /\ token[r].left \in 0..Life
    BY <1>2, LeftOf DEF RefreshInv, RefreshTypes, Kept
  <2>2. CASE armed[r]
    <3>1. due[r] \in 0..MsUntilRefresh(token[r].left) /\ token[r].left >= due[r] + Margin
      BY <1>2, <2>1, <2>2 DEF Planned, InTime
    <3> QED
      BY <2>1, <3>1, Delay, Times DEF Ages
  <2>3. CASE ~armed[r]
    <3>1. PICK i \in DOMAIN flights[r] :
            flights[r][i] <= Latency /\ token[r].left + flights[r][i] >= Margin
      BY <1>2, <2>1, <2>3 DEF InTime
    <3>2. flights[r][i] \in Nat
      BY Times DEF RefreshInv, RefreshTypes, Ages
    <3> QED
      BY <2>1, <3>1, <3>2, Times
  <2> QED
    BY <2>2, <2>3
<1> QED
  BY <1>1, <1>2 DEF TokenKept, RenewalArmed, NeverLapses

-----------------------------------------------------------------------------
(* The tab around the refreshers *)

AccountTypes ==
  /\ IdentityTypeOK
  /\ signup.step # "none" => signup.user \in users

TabTypes ==
  /\ user \in Users \cup {Checking, Nobody} /\ client \in Users \cup {Nobody}
  /\ checks \in Seq(Users \cup {Nobody})
  /\ jazz \in Clients \cup {0} /\ stopper \in Clients \cup {0}
  /\ signOuts \in 0..MaxSignOuts /\ leaving \in 0..signOuts
  /\ connects \in [Connects -> [step : {"idle", "token", "connecting"}, token : Toks]]
  /\ \A c \in Connects : connects[c].step = "connecting" => connects[c].token # NoToken

TabInv == AccountTypes /\ TabTypes /\ RefreshInv

LEMMA AccountsTyped ==
  ASSUME AccountTypes,
         \/ UNCHANGED identity
         \/ \E u \in Users : ResolveUser(u) \/ SignedIn(u)
         \/ OnUserCreated \/ Verified \/ SignUpFails \/ SignedOut
  PROVE  AccountTypes'
<1> USE DEF AccountTypes, IdentityTypeOK
<1>1. CASE UNCHANGED identity
  BY <1>1 DEF identity
<1>2. ASSUME NEW u \in Users, ResolveUser(u) PROVE AccountTypes'
  <2>1. signup'.user = u /\ signup' \in [user : Users \cup {Nobody}, step : {"none", "created", "verify"}]
    BY <1>2 DEF ResolveUser
  <2> QED
    BY <1>2, <2>1 DEF ResolveUser
<1>3. ASSUME NEW u \in Users, SignedIn(u) PROVE AccountTypes'
  BY <1>3 DEF SignedIn
<1>4. CASE OnUserCreated
  <2>1. /\ signup'.user = signup.user /\ signup' \in [user : Users \cup {Nobody}, step : {"none", "created", "verify"}]
        /\ signup.user \in users
    BY <1>4 DEF OnUserCreated
  <2> QED
    BY <1>4, <2>1 DEF OnUserCreated
<1>5. CASE Verified
  <2>1. signup.user \in users /\ signup' = NoSignup
        /\ NoSignup \in [user : Users \cup {Nobody}, step : {"none", "created", "verify"}]
        /\ NoSignup.step = "none"
    BY <1>5 DEF Verified, NoSignup
  <2> QED
    BY <1>5, <2>1 DEF Verified
<1>6. CASE SignUpFails
  <2>1. (signup.step = "created" => signup.user \in users) /\ signup' = NoSignup
        /\ NoSignup \in [user : Users \cup {Nobody}, step : {"none", "created", "verify"}]
        /\ NoSignup.step = "none"
    BY <1>6 DEF SignUpFails, NoSignup
  <2> QED
    BY <1>6, <2>1 DEF SignUpFails
<1>7. CASE SignedOut
  BY <1>7 DEF SignedOut
<1> QED
  BY <1>1, <1>2, <1>3, <1>4, <1>5, <1>6, <1>7

LEMMA Minted ==
  ASSUME AccountTypes
  PROVE  Mint \in Toks /\ cookie \in Users \cup {Nobody} /\ (Mint # NoToken => Mint \in Tokens)
<1>1. cookie \in Users \cup {Nobody}
  BY DEF AccountTypes, IdentityTypeOK
<1>2. CASE cookie = Nobody
  BY <1>1, <1>2 DEF Mint, Principal, Toks
<1>3. CASE cookie # Nobody
  <2>1. cookie \in Users /\ (cookie \in members) \in BOOLEAN /\ Life \in 0..Life
    BY <1>1, <1>3, Times
  <2>2. Mint = [of |-> cookie, claim |-> cookie \in members, left |-> Life]
    BY <1>3 DEF Mint, Principal, Claim
  <2> QED
    BY <1>1, <2>1, <2>2 DEF Toks, Tokens
<1> QED
  BY <1>1, <1>2, <1>3

LEMMA EffectTyped ==
  ASSUME TabInv, NEW u, Effect(u)
  PROVE  /\ connects' \in [Connects -> [step : {"idle", "token", "connecting"}, token : Toks]]
         /\ \A c \in Connects : connects'[c].step = "connecting" => connects'[c].token # NoToken
<1>1. \/ connects' = connects
      \/ \E c \in Connects : connects' = [connects EXCEPT ![c] = [step |-> "token", token |-> Mint]]
  BY DEF Effect
<1>2. Mint \in Toks
  BY Minted DEF TabInv
<1> QED
  BY <1>1, <1>2 DEF TabInv, TabTypes

LEMMA IdleTyped ==
  Idle \in [step : {"idle", "token", "connecting"}, token : Toks] /\ Idle.step = "idle"
BY DEF Idle, Toks

\* The steps of the session checks.
LEMMA ChecksTyped ==
  ASSUME TabInv, (\E i \in 1..MaxChecks : Checked(i) \/ CheckFails(i)) \/ Recheck \/ Retry
  PROVE  TabInv'
<1>1. UNCHANGED <<identity, refreshers, jazz, stopper, leaving, signOuts>>
  BY DEF Checked, CheckFails, Recheck, Retry, model, session
<1>2. AccountTypes' /\ RefreshInv'
  BY <1>1, AccountsTyped DEF TabInv, refreshers, RefreshInv, RefreshTypes, Kept, Planned, InTime
<1>3. cookie \in Users \cup {Nobody} /\ Principal = cookie
  BY Minted DEF TabInv, Principal
<1>4. checks' \in Seq(Users \cup {Nobody})
  <2>1. ASSUME NEW i \in DOMAIN checks, checks' = RemoveAt(checks, i) PROVE checks' \in Seq(Users \cup {Nobody})
    BY <2>1, RemoveAtSeq DEF TabInv, TabTypes
  <2>2. CASE checks' = Append(checks, Principal)
    BY <1>3, <2>2 DEF TabInv, TabTypes
  <2>3. CASE checks' = checks
    BY <2>3 DEF TabInv, TabTypes
  <2> QED
    BY <2>1, <2>2, <2>3 DEF Checked, CheckFails, Recheck, Retry, session
<1>5. user' \in Users \cup {Checking, Nobody} /\ client' \in Users \cup {Nobody}
  <2>1. ASSUME NEW i \in DOMAIN checks, NEW u \in {checks[i], Principal}, user' = u,
               client' = IF u # Nobody /\ client = Nobody THEN u ELSE client
        PROVE  user' \in Users \cup {Checking, Nobody} /\ client' \in Users \cup {Nobody}
    <3>1. checks[i] \in Users \cup {Nobody}
      BY DEF TabInv, TabTypes
    <3> QED
      BY <1>3, <2>1, <3>1 DEF TabInv, TabTypes
  <2>2. CASE UNCHANGED <<user, client>>
    BY <2>2 DEF TabInv, TabTypes
  <2> QED
    BY <2>1, <2>2 DEF Checked, CheckFails, Recheck, Retry, session
<1>6. /\ connects' \in [Connects -> [step : {"idle", "token", "connecting"}, token : Toks]]
      /\ \A c \in Connects : connects'[c].step = "connecting" => connects'[c].token # NoToken
  <2>1. connects' = connects \/ \E u : Effect(u)
    BY DEF Checked, CheckFails, Recheck, Retry, model
  <2>2. CASE connects' = connects
    BY <2>2 DEF TabInv, TabTypes
  <2> QED
    BY <2>1, <2>2, EffectTyped
<1>7. TabTypes'
  BY <1>1, <1>4, <1>5, <1>6 DEF TabInv, TabTypes
<1> QED
  BY <1>2, <1>7 DEF TabInv

\* The steps of the effect's body.
LEMMA ConnectTyped ==
  ASSUME TabInv, NEW c \in Connects, Token(c) \/ Connected(c) \/ ConnectFails(c)
  PROVE  TabInv'
<1>1. UNCHANGED <<identity, user, client, checks, leaving, signOuts>>
  BY DEF Token, Connected, ConnectFails, session
<1>2. AccountTypes'
  BY <1>1, AccountsTyped DEF TabInv
<1>3. connects[c].token \in Toks /\ (connects[c].step = "connecting" => connects[c].token # NoToken)
  BY DEF TabInv, TabTypes
<1>4. /\ connects' \in [Connects -> [step : {"idle", "token", "connecting"}, token : Toks]]
      /\ \A d \in Connects : connects'[d].step = "connecting" => connects'[d].token # NoToken
  <2>1. \/ connects' = [connects EXCEPT ![c] = Idle]
        \/ \E t \in {connects[c].token, Mint} :
             t # NoToken /\ connects' = [connects EXCEPT ![c] = [step |-> "connecting", token |-> t]]
    BY DEF Token, Connected, ConnectFails
  <2>2. CASE connects' = [connects EXCEPT ![c] = Idle]
    BY <2>2, IdleTyped DEF TabInv, TabTypes
  <2>3. ASSUME NEW t \in {connects[c].token, Mint}, t # NoToken,
               connects' = [connects EXCEPT ![c] = [step |-> "connecting", token |-> t]]
        PROVE  /\ connects' \in [Connects -> [step : {"idle", "token", "connecting"}, token : Toks]]
               /\ \A d \in Connects : connects'[d].step = "connecting" => connects'[d].token # NoToken
    <3>1. t \in Toks
      BY <1>3, Minted DEF TabInv
    <3> QED
      BY <2>3, <3>1 DEF TabInv, TabTypes
  <2> QED
    BY <2>1, <2>2, <2>3
<1>5. jazz' \in Clients \cup {0} /\ stopper' \in Clients \cup {0} /\ RefreshInv'
  <2>1. CASE Connected(c)
    <3>1. PICK r \in Clients, left \in 0..Life :
            jazz' = r /\ stopper' = r /\ Start(r, stopper, [connects[c].token EXCEPT !.left = left])
      BY <2>1 DEF Connected
    <3>2. [connects[c].token EXCEPT !.left = left] \in Tokens
      BY <1>3, <2>1, LeftOf DEF Connected
    <3> QED
      BY <3>1, <3>2, StartKeepsTimes DEF TabInv
  <2>2. CASE Token(c) \/ ConnectFails(c)
    BY <2>2 DEF Token, ConnectFails, TabInv, TabTypes, refreshers, RefreshInv, RefreshTypes, Kept,
       Planned, InTime
  <2> QED
    BY <2>1, <2>2
<1>6. TabTypes'
  BY <1>1, <1>4, <1>5 DEF TabInv, TabTypes
<1> QED
  BY <1>2, <1>5, <1>6 DEF TabInv

\* The steps of the refreshers.
LEMMA RefreshersTyped ==
  ASSUME TabInv, Time \/ (\E r \in Clients : Timer(r))
                 \/ (\E r \in Clients, i \in 1..MaxFlights : TokenLands(r, i) \/ TokenRefused(r, i))
  PROVE  TabInv'
<1>1. UNCHANGED <<identity, session, model, leaving, signOuts>>
  BY DEF Time, Timer, TokenLands, TokenRefused
<1>2. AccountTypes' /\ TabTypes'
  BY <1>1, AccountsTyped DEF TabInv, TabTypes, session, model
<1>3. RefreshInv'
  <2>1. CASE Time
    BY <2>1, TimeKeeps DEF Time, TabInv
  <2>2. CASE \E r \in Clients : Timer(r)
    BY <2>2, AskKeeps DEF Timer, TabInv
  <2>3. ASSUME NEW r \in Clients, NEW i \in 1..MaxFlights, TokenLands(r, i) PROVE RefreshInv'
    <3>1. PICK left \in 0..Life : Renewed(r, i, [Mint EXCEPT !.left = left])
      BY <2>3 DEF TokenLands
    <3>2. [Mint EXCEPT !.left = left] \in Tokens
      BY <2>3, Minted, LeftOf DEF TokenLands, TabInv
    <3> QED
      BY <3>1, <3>2, RenewedKeeps DEF TabInv
  <2>4. ASSUME NEW r \in Clients, NEW i \in 1..MaxFlights, TokenRefused(r, i) PROVE RefreshInv'
    BY <2>4, RefusedKeeps DEF TokenRefused, TabInv
  <2> QED
    BY <2>1, <2>2, <2>3, <2>4
<1> QED
  BY <1>2, <1>3 DEF TabInv

\* Signing up, in and out.
LEMMA AuthTyped ==
  ASSUME TabInv, Submit("signin") \/ Submit("signup") \/ Ceremony \/ Authed \/ AuthFails
  PROVE  TabInv'
<1>1. UNCHANGED <<refreshers, user, client, model, leaving, signOuts>>
  BY DEF Submit, Ceremony, Authed, AuthFails, Others
<1>2. AccountTypes'
  <2>1. \/ UNCHANGED identity
        \/ \E u \in Users : ResolveUser(u) \/ SignedIn(u)
        \/ OnUserCreated \/ Verified \/ SignUpFails
    BY DEF Submit, Ceremony, Authed, AuthFails
  <2> QED
    BY <2>1, AccountsTyped DEF TabInv
<1>3. RefreshInv'
  BY <1>1 DEF TabInv, refreshers, RefreshInv, RefreshTypes, Kept, Planned, InTime
<1>4. checks' \in Seq(Users \cup {Nobody})
  <2>1. checks' = checks \/ checks' = Append(checks, cookie')
    BY DEF Submit, Ceremony, Authed, AuthFails
  <2>2. cookie' \in Users \cup {Nobody}
    BY <1>2 DEF AccountTypes, IdentityTypeOK
  <2> QED
    BY <2>1, <2>2 DEF TabInv, TabTypes
<1> QED
  BY <1>1, <1>2, <1>3, <1>4 DEF TabInv, TabTypes, model

LEMMA LeavingTyped ==
  ASSUME TabInv, Logout \/ LoggedOut \/ LogoutFails
  PROVE  TabInv'
<1>1. UNCHANGED <<checks, jazz, connects>>
  BY DEF Logout, LoggedOut, LogoutFails, session, model
<1>2. AccountTypes'
  <2>1. UNCHANGED identity \/ SignedOut
    BY DEF Logout, LoggedOut, LogoutFails
  <2> QED
    BY <2>1, AccountsTyped DEF TabInv
<1>3. RefreshInv'
  <2>1. Stop(stopper) \/ UNCHANGED refreshers
    BY DEF Logout, LoggedOut, LogoutFails
  <2>2. CASE UNCHANGED refreshers
    BY <2>2 DEF TabInv, refreshers, RefreshInv, RefreshTypes, Kept, Planned, InTime
  <2> QED
    BY <2>1, <2>2, StopKeepsTimes DEF TabInv
<1>4. signOuts' \in 0..MaxSignOuts /\ leaving' \in 0..signOuts'
  BY TabAssumption DEF Logout, LoggedOut, LogoutFails, TabInv, TabTypes
<1>5. /\ user' \in Users \cup {Checking, Nobody} /\ client' \in Users \cup {Nobody}
      /\ stopper' \in Clients \cup {0}
  BY DEF Logout, LoggedOut, LogoutFails, session, model, TabInv, TabTypes
<1>6. TabTypes'
  BY <1>1, <1>4, <1>5 DEF TabInv, TabTypes
<1> QED
  BY <1>2, <1>3, <1>6 DEF TabInv

-----------------------------------------------------------------------------
\* The tab, its attempts to connect and its refreshers: types, and what each
\* refresher owes to the token in use.
THEOREM TabInductive == Spec => []TabInv
<1>1. Init => TabInv
  <2> SUFFICES ASSUME Init PROVE TabInv
    OBVIOUS
  <2>1. AccountTypes
    BY DEF Init, IdentityInit, NoSignup, AccountTypes, IdentityTypeOK
  <2>2. TabTypes
    <3>1. checks \in Seq(Users \cup {Nobody})
      BY DEF Init
    <3> QED
      BY <3>1, TabAssumption, IdleTyped DEF Init, TabTypes
  <2>3. RefreshInv
    <3>1. RefreshTypes
      BY DEF Init, RefreshInit, RefreshTypes, Toks
    <3>2. ASSUME NEW r \in Clients PROVE Kept(r)
      BY Times DEF Init, RefreshInit, Kept, InTime
    <3> QED
      BY <3>1, <3>2 DEF RefreshInv
  <2> QED
    BY <2>1, <2>2, <2>3 DEF TabInv
<1>2. TabInv /\ [Next]_vars => TabInv'
  <2> SUFFICES ASSUME TabInv, [Next]_vars PROVE TabInv'
    OBVIOUS
  <2>1. CASE Next
    BY <2>1, ChecksTyped, ConnectTyped, RefreshersTyped, AuthTyped, LeavingTyped DEF Next
  <2>2. CASE UNCHANGED vars
    BY <2>2, AccountsTyped DEF vars, session, model, refreshers, TabInv, TabTypes, RefreshInv,
       RefreshTypes, Kept, Planned, InTime
  <2> QED
    BY <2>1, <2>2
<1> QED
  BY <1>1, <1>2, PTL DEF Spec

\* The type invariant of the tab, for any number of users, clients and attempts.
THEOREM TabTypeCorrect == Spec => []TypeOK
<1>1. TabInv => TypeOK
  <2> SUFFICES ASSUME TabInv PROVE TypeOK
    OBVIOUS
  <2>1. leaving \in 0..MaxSignOuts
    BY TabAssumption DEF TabInv, TabTypes
  <2>2. ASSUME NEW r \in Clients
        PROVE  /\ token[r] \in Tokens \cup {NoToken} /\ due[r] \in Ages \cup {Never}
               /\ Len(flights[r]) <= MaxFlights /\ (armed[r] => state[r] = "on")
    BY DEF TabInv, RefreshInv, RefreshTypes, Kept, Toks
  <2> QED
    BY <2>1, <2>2 DEF TypeOK, TabInv, TabTypes, AccountTypes
<1> QED
  BY <1>1, TabInductive, PTL

\* startJazzTokenRefresh: as long as a refresher is on it has a request under
\* way or a timer in time, and the token in use does not lapse while the tab is
\* awake and its requests succeed: for all lives, margins, delays and latencies
\* that are ordered as those of jazz-token.ts, however clients are replaced.
THEOREM TokensAreKept == Spec => []TokenKept
<1>1. TabInv => TokenKept
  BY KeptIsEnough DEF TabInv
<1> QED
  BY <1>1, TabInductive, PTL
=============================================================================
