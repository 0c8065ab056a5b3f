------------------------------- MODULE WebApp -------------------------------
(***************************************************************************)
(* The life of one browser tab, web/src/App.svelte with Auth.svelte and    *)
(* auth-client.ts: it asks who is signed in, connects to the read model    *)
(* with a token of that session, keeps the token fresh, and lets the user  *)
(* sign up, in and out, against the accounts of Identity.                  *)
(*                                                                         *)
(* A step is the code between two awaits, and a change of state takes the  *)
(* effect that depends on it with it.                                      *)
(***************************************************************************)
EXTENDS Identity, TokenRefresh

CONSTANTS
  Connects,    \* bound: runs of the effect's body under way at once, 1..n
  Checking,    \* user = undefined
  MaxChecks,   \* bound: session checks under way at once
  MaxFaults,   \* bound: requests that fail or are refused
  MaxSignOuts  \* bound: uses of the "Sign out" button

ASSUME TabAssumption ==
  /\ {MaxChecks, MaxFaults, MaxSignOuts} \subseteq Nat
  /\ Checking \notin Users /\ Checking # Nobody

VARIABLES
  user,      \* Checking, Nobody, or who the tab says is signed in
  client,    \* the principal of the AkkoClient, or Nobody
  jazz,      \* the Jazz client, 0 for none
  stopper,   \* stopTokenRefresh: the refresher it stops, 0 for none
  checks,    \* currentUser calls under way, each with the session it was sent under
  rechecks,  \* timers that will check again
  connects,  \* where each run of the effect's body is
  retries,   \* timers that will bump jazzAttempt
  busy,      \* whether Auth.svelte runs a ceremony: "no", "signin", "signup"
  leaving,   \* calls of logout that await signOut
  gaveUp,    \* history: a connection is not tried again for want of a token
  faults, signOuts

session == <<user, client, checks, rechecks>>
model == <<jazz, stopper, connects, retries, gaveUp>>
vars == <<identity, refreshers, session, model, busy, leaving, faults, signOuts>>

NoToken == [of |-> Nobody, claim |-> FALSE, left |-> 0]
Idle == [step |-> "idle", token |-> NoToken]

Init ==
  /\ IdentityInit /\ RefreshInit(NoToken)
  /\ user = Checking /\ client = Nobody /\ checks = <<Nobody>> /\ rechecks = 0
  /\ jazz = 0 /\ stopper = 0 /\ connects = [c \in Connects |-> Idle] /\ retries = 0 /\ gaveUp = FALSE
  /\ busy = "no" /\ leaving = 0 /\ faults = 0 /\ signOuts = 0

Fault == faults < MaxFaults /\ faults' = faults + 1

\* getJazzToken: a token of the session, if there is one.
Mint == IF Principal = Nobody THEN NoToken
        ELSE [of |-> Principal, claim |-> Claim(Principal), left |-> Life]

\* The effect runs whenever user or jazzAttempt is set: a signed-in tab without
\* a Jazz client starts to connect, even if it is connecting already.
Effect(u) ==
  IF u \in Users /\ jazz = 0
  THEN \E c \in Connects : /\ connects[c] = Idle /\ \A d \in Connects : d < c => connects[d] # Idle
                           /\ connects' = [connects EXCEPT ![c] = [step |-> "token", token |-> Mint]]
                           /\ gaveUp' = FALSE
  ELSE UNCHANGED <<connects, gaveUp>>

-----------------------------------------------------------------------------
(* refreshSession *)

\* The answer, of the session as it was when asked or is now, becomes the user.
Checked(i) ==
  /\ i \in DOMAIN checks
  /\ \E u \in {checks[i], Principal} :
       /\ user' = u /\ Effect(u)
       /\ client' = IF u # Nobody /\ client = Nobody THEN u ELSE client
  /\ checks' = RemoveAt(checks, i)
  /\ UNCHANGED <<identity, refreshers, rechecks, jazz, stopper, retries, busy, leaving, faults, signOuts>>

\* Mutant: a failed check is the end of it.
CheckFailsForGood(i) ==
  /\ i \in DOMAIN checks /\ Fault
  /\ checks' = RemoveAt(checks, i)
  /\ UNCHANGED <<identity, refreshers, user, client, rechecks, model, busy, leaving, signOuts>>

\* The backend cannot be reached: check again later.
CheckFails(i) ==
  /\ i \in DOMAIN checks /\ Fault
  /\ checks' = RemoveAt(checks, i) /\ rechecks' = rechecks + 1
  /\ UNCHANGED <<identity, refreshers, user, client, model, busy, leaving, signOuts>>

Recheck ==
  /\ rechecks > 0 /\ Len(checks) < MaxChecks
  /\ rechecks' = rechecks - 1 /\ checks' = Append(checks, Principal)
  /\ UNCHANGED <<identity, refreshers, user, client, model, busy, leaving, faults, signOuts>>

-----------------------------------------------------------------------------
(* The effect's body *)

\* Without a token the run is over, with an error on the screen.
Token(c) ==
  /\ connects[c].step = "token"
  /\ \E t \in {connects[c].token, Mint} :
       \/ /\ t # NoToken /\ UNCHANGED <<gaveUp, faults>>
          /\ connects' = [connects EXCEPT ![c] = [step |-> "connecting", token |-> t]]
       \/ /\ IF t = NoToken THEN UNCHANGED faults ELSE Fault
          /\ gaveUp' = TRUE /\ connects' = [connects EXCEPT ![c] = Idle]
  /\ UNCHANGED <<identity, refreshers, session, jazz, stopper, retries, busy, leaving, signOuts>>

FreeClient(r) ==
  /\ r # jazz /\ state[r] # "on" /\ flights[r] = <<>>
  /\ \A q \in Clients : q < r => (q = jazz \/ state[q] = "on" \/ flights[q] # <<>>)

\* Mutant: the refresher of the client that is replaced goes on.
ConnectedBeside(c) ==
  /\ connects[c].step = "connecting"
  /\ \E r \in Clients, left \in 0..Life :
       FreeClient(r) /\ jazz' = r /\ stopper' = r /\ Start(r, 0, [connects[c].token EXCEPT !.left = left])
  /\ connects' = [connects EXCEPT ![c] = Idle] /\ gaveUp' = FALSE
  /\ UNCHANGED <<identity, session, retries, busy, leaving, faults, signOuts>>

\* createJazzClient has resolved, however much of the token's life that took:
\* the client is replaced, and its refresher started in the place of the one before.
Connected(c) ==
  /\ connects[c].step = "connecting"
  /\ \E r \in Clients, left \in 0..Life :
       FreeClient(r) /\ jazz' = r /\ stopper' = r /\ Start(r, stopper, [connects[c].token EXCEPT !.left = left])
  /\ connects' = [connects EXCEPT ![c] = Idle] /\ gaveUp' = FALSE
  /\ UNCHANGED <<identity, session, retries, busy, leaving, faults, signOuts>>

\* The token request or the connection fails: another attempt in three seconds.
ConnectFails(c) ==
  /\ connects[c].step # "idle" /\ Fault
  /\ connects' = [connects EXCEPT ![c] = Idle] /\ retries' = retries + 1
  /\ UNCHANGED <<identity, refreshers, session, jazz, stopper, gaveUp, busy, leaving, signOuts>>

Retry ==
  /\ retries > 0 /\ retries' = retries - 1
  /\ Effect(user)
  /\ UNCHANGED <<identity, refreshers, session, jazz, stopper, busy, leaving, faults, signOuts>>

-----------------------------------------------------------------------------
(* The refreshers, with the tab's session cookie *)

TokenLands(r, i) ==
  /\ Mint # NoToken
  /\ \E left \in 0..Life : Renewed(r, i, [Mint EXCEPT !.left = left])
  /\ UNCHANGED <<identity, session, model, busy, leaving, faults, signOuts>>

TokenRefused(r, i) ==
  /\ Refused(r, i)
  /\ IF Mint = NoToken THEN UNCHANGED faults ELSE Fault
  /\ UNCHANGED <<identity, session, model, busy, leaving, signOuts>>

Timer(r) == (Fire(r) \/ Visible(r)) /\ UNCHANGED <<identity, session, model, busy, leaving, faults, signOuts>>

Time == (Tick \/ Doze) /\ UNCHANGED <<identity, session, model, busy, leaving, faults, signOuts>>

-----------------------------------------------------------------------------
(* Auth.svelte, shown to a tab without a user *)

AuthShown == user = Nobody \/ (user # Checking /\ client = Nobody)
Others == UNCHANGED <<refreshers, user, client, rechecks, model, leaving, faults, signOuts>>

\* signInWithPasskey, signUpWithPasskey; the buttons are disabled while one runs.
Submit(kind) ==
  /\ AuthShown /\ busy = "no" /\ Len(checks) < MaxChecks
  /\ busy' = kind
  /\ IF kind = "signup" THEN \E u \in Users : ResolveUser(u) ELSE UNCHANGED identity
  /\ UNCHANGED checks /\ Others

Ceremony == busy = "signup" /\ OnUserCreated /\ UNCHANGED <<checks, busy>> /\ Others

\* run: the ceremony is through, and onAuthed checks the session again.
Authed ==
  /\ \/ busy = "signup" /\ Verified
     \/ busy = "signin" /\ \E u \in Users : SignedIn(u)
  /\ busy' = "no" /\ checks' = Append(checks, cookie')
  /\ Others

\* run: an error is shown.
AuthFails ==
  /\ \/ busy = "signup" /\ SignUpFails
     \/ busy = "signin" /\ UNCHANGED identity
  /\ busy' = "no" /\ UNCHANGED checks /\ Others

-----------------------------------------------------------------------------
(* logout, from the shell that is shown to a connected tab *)

Logout ==
  /\ user \in Users /\ client # Nobody /\ jazz # 0 /\ signOuts < MaxSignOuts
  /\ Stop(stopper) /\ stopper' = 0
  /\ leaving' = leaving + 1 /\ signOuts' = signOuts + 1
  /\ UNCHANGED <<identity, session, jazz, connects, retries, gaveUp, busy, faults>>

\* signOut resolves, with an error too: client and user are cleared, nothing else.
LoggedOut ==
  /\ leaving > 0
  /\ \/ SignedOut /\ UNCHANGED faults
     \/ Fault /\ UNCHANGED identity
  /\ client' = Nobody /\ user' = Nobody /\ leaving' = leaving - 1
  /\ UNCHANGED <<refreshers, checks, rechecks, model, busy, signOuts>>

\* signOut rejects: the tab stays as it is, without a refresher.
LogoutFails ==
  /\ leaving > 0 /\ Fault
  /\ leaving' = leaving - 1
  /\ UNCHANGED <<identity, refreshers, session, model, busy, signOuts>>

Next ==
  \/ \E i \in 1..MaxChecks : Checked(i) \/ CheckFails(i)
  \/ Recheck \/ Retry \/ Time
  \/ \E c \in Connects : Token(c) \/ Connected(c) \/ ConnectFails(c)
  \/ \E r \in Clients : Timer(r)
  \/ \E r \in Clients, i \in 1..MaxFlights : TokenLands(r, i) \/ TokenRefused(r, i)
  \/ Submit("signin") \/ Submit("signup") \/ Ceremony \/ Authed \/ AuthFails
  \/ Logout \/ LoggedOut \/ LogoutFails

\* Requests are answered and timers fire; the user does as she likes.
Fairness ==
  /\ WF_vars(\E i \in 1..MaxChecks : Checked(i)) /\ WF_vars(Recheck) /\ WF_vars(Retry)
  /\ \A c \in Connects : WF_vars(Token(c)) /\ WF_vars(Connected(c))
  /\ \A r \in Clients : WF_vars(\E i \in 1..MaxFlights : TokenLands(r, i) \/ TokenRefused(r, i))

Spec == Init /\ [][Next]_vars /\ Fairness

-----------------------------------------------------------------------------
Tokens == [of : Users, claim : BOOLEAN, left : 0..Life]

TypeOK ==
  /\ IdentityTypeOK
  /\ user \in Users \cup {Checking, Nobody} /\ client \in Users \cup {Nobody}
  /\ {jazz, stopper} \subseteq Clients \cup {0} /\ leaving \in 0..MaxSignOuts
  /\ \A r \in Clients :
       /\ token[r] \in Tokens \cup {NoToken} /\ due[r] \in Ages \cup {Never}
       /\ Len(flights[r]) <= MaxFlights /\ (armed[r] => state[r] = "on")
  /\ \A c \in Connects : connects[c].step \in {"idle", "token", "connecting"}

\* One refresher at most is on, and it is the one that the tab can stop;
\* until the first sign-out it is the one of the client in use.  Overlapping
\* checks and connections, and sign-outs between them, leave none behind.
OneRefresher ==
  /\ \A r \in Clients : state[r] = "on" => r = stopper
  /\ signOuts = 0 /\ jazz # 0 => stopper = jazz

\* Whoever the tab is signed in as is a member of the workspace, and every
\* token says so ("a freshly-registered principal can immediately use it",
\* auth.ts:13), unless the server died between a user's row and its grant.
ReadersAreMembers ==
  /\ client # Nobody => client \in members \cup cut
  /\ \A r \in Clients : token[r] # NoToken => token[r].claim \/ token[r].of \in cut

\* The renewal of the token in use never depends on luck (jazz-token.ts).
TokenKept == RenewalArmed /\ NeverLapses

\* The tab always gets past "Loading", and a signed-in tab gets its read model,
\* however requests fail on the way, unless it was refused a token or left.
Settles ==
  /\ user = Checking ~> user # Checking
  /\ user \in Users ~> (jazz # 0 \/ user = Nobody \/ gaveUp)

\* "'give up' is not an option; keep retrying while the user waits" (App.svelte:33).
KeepsTrying == user \in Users ~> (jazz # 0 \/ user = Nobody)

\* "letting it lapse freezes the UI with nothing to fall back to"
\* (App.svelte:64): a tab with a user and a Jazz client has a refresher.
KeptFresh == user \in Users /\ jazz # 0 /\ leaving = 0 => stopper = jazz

\* "a freshly-registered principal can immediately use it" (auth.ts:13), without the exception.
FreshUsersServed == client # Nobody => client \in members
=============================================================================
