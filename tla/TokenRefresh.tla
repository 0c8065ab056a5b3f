---------------------------- MODULE TokenRefresh ----------------------------
(***************************************************************************)
(* web/src/lib/jazz-token.ts: startJazzTokenRefresh, one refresher for     *)
(* each Jazz client the tab has made.  Time is counted in ticks; all times *)
(* are relative to the present.  A token's mint falls anywhere between its *)
(* request and its answer, and its expiry is Life later; Better Auth's     *)
(* tokens always carry one, so DEFAULT_REFRESH_MS is never used.           *)
(***************************************************************************)
EXTENDS Integers, Sequences, SequencesExt

CONSTANTS
  Clients,      \* Jazz clients, 1..n
  Life,         \* the life of a token
  Margin, MinDelay,  \* REFRESH_MARGIN_MS, MIN_REFRESH_DELAY_MS
  Latency,      \* ticks a request takes at most while the tab is awake
  MaxFlights    \* bound: requests of one refresher under way

Never == -1     \* nextDueAt = Infinity
Ages == 0..Life

ASSUME RefreshAssumption ==
  /\ Clients \subseteq Nat \ {0}
  /\ {Life, Margin, MinDelay, Latency, MaxFlights} \subseteq Nat
  /\ 0 < MinDelay /\ MinDelay <= Margin /\ Margin < Life /\ Latency < Margin
  /\ 0 < MaxFlights

VARIABLES
  state,    \* "off", "on", or "stopped"
  token,    \* what the client holds: whose it is, its claim, and the ticks left
  armed,    \* the timer is set
  due,      \* nextDueAt
  flights,  \* ages of the requests under way
  excused   \* history: a failure, a sleep or an answer too stale for its delay since the last fresh token

refreshers == <<state, token, armed, due, flights, excused>>

RefreshInit(none) ==
  /\ state = [r \in Clients |-> "off"] /\ token = [r \in Clients |-> none]
  /\ armed = [r \in Clients |-> FALSE] /\ due = [r \in Clients |-> Never]
  /\ flights = [r \in Clients |-> <<>>] /\ excused = [r \in Clients |-> FALSE]

\* Mutant: the renewal waits for the expiry.
MsUntilRefreshLate(left) == IF left > MinDelay THEN left ELSE MinDelay

MsUntilRefresh(left) == IF left - Margin > MinDelay THEN left - Margin ELSE MinDelay

\* Mutant: the timer is left running.
StoppedKeepingTimer(r) ==
  /\ state' = [state EXCEPT ![r] = "stopped"] /\ UNCHANGED armed
  /\ due' = [due EXCEPT ![r] = Never] /\ excused' = [excused EXCEPT ![r] = FALSE]
  /\ token' = [token EXCEPT ![r].left = 0]
  /\ flights' = [flights EXCEPT ![r] = [i \in DOMAIN @ |-> 0]]

\* stopped = true: the timer is cleared, and the times of r matter no more.
Stopped(r) ==
  /\ state' = [state EXCEPT ![r] = "stopped"] /\ armed' = [armed EXCEPT ![r] = FALSE]
  /\ due' = [due EXCEPT ![r] = Never] /\ excused' = [excused EXCEPT ![r] = FALSE]
  /\ token' = [token EXCEPT ![r].left = 0]
  /\ flights' = [flights EXCEPT ![r] = [i \in DOMAIN @ |-> 0]]

\* The stop function that is kept; stopping nothing does nothing.
Stop(r) == IF r \in Clients THEN Stopped(r) ELSE UNCHANGED refreshers

\* startJazzTokenRefresh(r), after stopping `old`: it asks for a token at once.
Start(r, old, t) ==
  LET Put(f, off, on) == [c \in Clients |-> IF c = r THEN on ELSE IF c = old THEN off ELSE f[c]]
  IN /\ state' = Put(state, "stopped", "on") /\ armed' = Put(armed, FALSE, FALSE)
     /\ due' = Put(due, Never, Never) /\ excused' = Put(excused, FALSE, t.left <= Margin)
     /\ token' = Put(token, [t EXCEPT !.left = 0], t)
     /\ flights' = [c \in Clients |->
          IF c = r THEN <<0>> ELSE IF c = old THEN [i \in DOMAIN flights[c] |-> 0] ELSE flights[c]]

Asked(r) == flights' = [flights EXCEPT ![r] = Append(@, 0)]

\* The timer fires.
Fire(r) ==
  /\ armed[r] /\ due[r] = 0 /\ Len(flights[r]) < MaxFlights
  /\ armed' = [armed EXCEPT ![r] = FALSE] /\ Asked(r)
  /\ UNCHANGED <<state, token, due, excused>>

\* onVisible: a renewal that is due runs now, whether its timer has fired or not.
Visible(r) ==
  /\ state[r] = "on" /\ due[r] = 0 /\ Len(flights[r]) < MaxFlights
  /\ Asked(r)
  /\ UNCHANGED <<state, token, armed, due, excused>>

Landed(r, i) == flights' = [flights EXCEPT ![r] = RemoveAt(@, i)]

Schedule(r, delay) ==
  armed' = [armed EXCEPT ![r] = TRUE] /\ due' = [due EXCEPT ![r] = delay]

\* A token arrives.
Renewed(r, i, t) ==
  /\ i \in 1..Len(flights[r]) /\ t.left \in (Life - flights[r][i])..Life
  /\ Landed(r, i)
  /\ IF state[r] = "on"
     THEN /\ token' = [token EXCEPT ![r] = t]
          /\ Schedule(r, MsUntilRefresh(t.left))
          /\ excused' = [excused EXCEPT ![r] = t.left - Margin < MinDelay]
     ELSE UNCHANGED <<token, armed, due, excused>>
  /\ UNCHANGED state

\* There is no token, the request is rejected, or the client does not take the token.
Refused(r, i) ==
  /\ i \in 1..Len(flights[r])
  /\ Landed(r, i)
  /\ excused' = [excused EXCEPT ![r] = TRUE]
  /\ IF state[r] = "on" THEN Schedule(r, MinDelay) ELSE UNCHANGED <<armed, due>>
  /\ UNCHANGED <<state, token>>

\* A tick, for the refreshers that are on: nothing depends on the others' times.
Down(n) == IF n > 0 THEN n - 1 ELSE n
Older(r) == [i \in DOMAIN flights[r] |-> IF flights[r][i] < Life THEN flights[r][i] + 1 ELSE Life]
Elapse ==
  LET On(old, new) == [r \in Clients |-> IF state[r] = "on" THEN new[r] ELSE old[r]]
  IN /\ token' = On(token, [r \in Clients |-> [token[r] EXCEPT !.left = Down(@)]])
     /\ due' = On(due, [r \in Clients |-> Down(due[r])])
     /\ flights' = On(flights, [r \in Clients |-> Older(r)])
     /\ UNCHANGED <<state, armed>>

\* A tick of a tab that is awake: timers fire, and requests are answered, in time.
Tick ==
  /\ \A r \in Clients :
       (armed[r] => due[r] # 0) /\ (state[r] = "on" => \A i \in DOMAIN flights[r] : flights[r][i] < Latency)
  /\ Elapse /\ UNCHANGED excused

\* A tick of a computer that sleeps.
Doze == Elapse /\ excused' = [r \in Clients |-> excused[r] \/ state[r] = "on"]

-----------------------------------------------------------------------------
\* As long as a refresher is on, it has a request under way or a timer that
\* fires a margin before the token in use expires (at the latest after the
\* minimal delay), whatever failed, arrived late or overtook before.
RenewalArmed ==
  \A r \in Clients : state[r] = "on" =>
    Len(flights[r]) > 0 \/ (armed[r] /\ due[r] <= MsUntilRefresh(token[r].left))

\* "Renew this long before exp, so a slow request can't race expiry"
\* (jazz-token.ts:14): with requests faster than the margin, the token in use is
\* alive at every moment, unless the tab slept or was refused a token, or the
\* token came so late that the minimal delay reaches into its margin.
NeverLapses ==
  \A r \in Clients : state[r] = "on" /\ ~excused[r] => token[r].left > 0
=============================================================================
