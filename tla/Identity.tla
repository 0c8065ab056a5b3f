------------------------------ MODULE Identity ------------------------------
(***************************************************************************)
(* The accounts of server/src/auth.ts, as main.ts wires them: a            *)
(* passkey-first registration finds or creates the user, the hook of the   *)
(* creation grants membership of the one workspace in another connection   *)
(* to the database, and the verified ceremony leaves the browser signed    *)
(* in.  One browser, with one session cookie.                              *)
(***************************************************************************)
EXTENDS Naturals, FiniteSets

CONSTANTS Users, Nobody

ASSUME IdentityAssumption == Nobody \notin Users

VARIABLES
  users,      \* rows of Better Auth's user table
  members,    \* rows of the membership table (every grant is of the owner's role)
  keys,       \* users with a passkey
  cookie,     \* whom the browser's session cookie is a session of
  signup,     \* the registration under way
  cut         \* history: users whose creation a crash cut short

identity == <<users, members, keys, cookie, signup, cut>>

NoSignup == [user |-> Nobody, step |-> "none"]

IdentityInit ==
  /\ users = {} /\ members = {} /\ keys = {} /\ cut = {}
  /\ cookie = Nobody /\ signup = NoSignup

\* Mutant: an existing user is taken for a created one, and the hook is left out.
ResolveUserUngranted(u) ==
  /\ signup = NoSignup
  /\ signup' = [user |-> u, step |-> "verify"] /\ users' = users \cup {u}
  /\ UNCHANGED <<members, keys, cookie, cut>>

\* resolveUser: a known address is reused, a new one is inserted, and its hook is next.
ResolveUser(u) ==
  /\ signup = NoSignup
  /\ signup' = [user |-> u, step |-> IF u \in users THEN "verify" ELSE "created"]
  /\ users' = users \cup {u}
  /\ UNCHANGED <<members, keys, cookie, cut>>

\* databaseHooks.user.create.after: onUserCreated grants the workspace.
OnUserCreated ==
  /\ signup.step = "created"
  /\ members' = members \cup {signup.user} /\ signup' = [signup EXCEPT !.step = "verify"]
  /\ UNCHANGED <<users, keys, cookie, cut>>

\* verify-registration and afterVerification: the passkey, and a session unless
\* the browser has one.
Verified ==
  /\ signup.step = "verify"
  /\ keys' = keys \cup {signup.user} /\ signup' = NoSignup
  /\ cookie' = IF cookie = Nobody THEN signup.user ELSE cookie
  /\ UNCHANGED <<users, members, cut>>

\* The ceremony is cancelled, or the server dies in the middle of it.
SignUpFails ==
  /\ signup # NoSignup
  /\ signup' = NoSignup
  /\ cut' = IF signup.step = "created" THEN cut \cup {signup.user} ELSE cut
  /\ UNCHANGED <<users, members, keys, cookie>>

\* A passkey sign-in.
SignedIn(u) ==
  /\ u \in keys /\ cookie' = u
  /\ UNCHANGED <<users, members, keys, signup, cut>>

\* sign-out
SignedOut == cookie' = Nobody /\ UNCHANGED <<users, members, keys, signup, cut>>

\* getPrincipal, and the session that getSession answers with.
Principal == cookie

\* definePayload: the workspace of the first membership, or no workspace.
Claim(u) == u \in members

IdentityTypeOK ==
  /\ users \subseteq Users /\ members \subseteq users /\ keys \subseteq users /\ cut \subseteq users
  /\ cookie \in keys \cup {Nobody}
  /\ signup \in [user : Users \cup {Nobody}, step : {"none", "created", "verify"}]
=============================================================================
