------------------------------ MODULE Gateway -------------------------------
(***************************************************************************)
(* The HTTP gateway (server/src/gateway.ts) in front of one session's      *)
(* mailbox, with the membership rows (runtime/src/membership-store.ts) and *)
(* the gate (RoleBasedPolicy of core/src/authz.ts) that the mailbox runs.  *)
(*                                                                         *)
(* A request is identified with the command it may post.  A step is the    *)
(* code between two awaits of its handler.  The routes differ in what they *)
(* read before they work, so each has a definition of its own over the     *)
(* stages "principal", "ref", "body", "work" and "posted".                 *)
(***************************************************************************)
EXTENDS Mailbox

CONSTANTS
  Principals, Nobody,
  Routes,        \* bound: the routes that each request may be for
  Grants,        \* bound: the roles that are granted
  Behaviors,     \* bound: the streamingBehavior values that are sent
  MaxReads       \* bound: requests besides those that post a command

AllRoutes == {"projection", "commands", "create", "list", "skills", "prompt", "models",
              "visibility", "history"}
Roles == {"owner", "editor", "viewer"}

ASSUME GatewayAssumption ==
  /\ Nobody \notin Principals /\ Grants \subseteq Roles
  /\ Routes \in [Commands -> SUBSET AllRoutes]
  /\ Behaviors \subseteq {"steer", "followUp"} /\ MaxReads \in Nat

VARIABLES
  role,          \* the membership rows of the workspace, "none" for no row
  req,           \* where each request is
  answer,        \* history: the status each request was answered with, 0 before
  verdict,       \* what the gate has made of the mailbox's current command
  changed,       \* history: requests whose effect took place
  barred,        \* history: queued commands whose actor cannot write any more
  delivered,     \* history: how an applied prompt was handed to a streaming driver
  reads          \* requests answered so far that posted nothing

box == vars
gatewayVars == <<box, role, req, answer, verdict, changed, barred, delivered, reads>>

SessionRoutes == {"projection", "commands", "history"}   \* /api/sessions/:id/...
BodyRoutes == {"create", "visibility"}                   \* workspaceId in the body

\* named: the session exists, or the workspace is given.
Unused == [at |-> "unused"]
Request == [at : {"principal", "ref", "body", "work", "posted", "done"}, route : AllRoutes,
            named : BOOLEAN, who : Principals \cup {Nobody}, asks : {"steer", "followUp"}]

GatewayInit ==
  /\ Init
  /\ role \in [Principals -> {"none", "viewer", "editor"}]
  /\ req = [c \in Commands |-> Unused]
  /\ answer = [c \in Commands |-> 0]
  /\ verdict = FALSE
  /\ changed = {} /\ barred = {} /\ reads = 0
  /\ delivered = [c \in Commands |-> "no"]

-----------------------------------------------------------------------------
(* Roles *)

\* RoleBasedPolicy.authorize: what a role, or its absence, may do.
Authorize(r, action) ==
  /\ r # "none"
  /\ CASE action = "session.read" -> TRUE
       [] action \in {"command", "session.create"} -> r # "viewer"
       [] action \in {"workspace.manageMembers", "workspace.configure"} -> r = "owner"

\* roleFor: one row for a principal in the workspace.
RoleFor(p) == role[p]
Member(c) == RoleFor(req[c].who) # "none"

\* Mutant: what let the request in is enough for the gate, too.
GateOfMembers(c) == RoleFor(req[c].who) # "none"

\* #authorize: the role is looked up when the mailbox takes the command.
Gate(c) == Authorize(RoleFor(req[c].who), "command")

\* The gate runs on a command that the mailbox has just taken, which leaves the queue.
Decide ==
  /\ verdict' = IF stage' # "authorizing" THEN FALSE
                ELSE IF current' = current THEN verdict ELSE Gate(current')
  /\ barred' = {c \in barred : \E i \in DOMAIN queue' : queue'[i] = c}

\* grant: an upsert of the row.
Grant(p, r) ==
  /\ role' = [role EXCEPT ![p] = r]
  /\ LET theirs == {c \in Commands : (\E i \in DOMAIN queue : queue[i] = c) /\ req[c].who = p}
     IN barred' = IF Authorize(r, "command") THEN barred \ theirs ELSE barred \cup theirs
  /\ UNCHANGED <<box, req, answer, verdict, changed, delivered, reads>>

-----------------------------------------------------------------------------
(* What the routes share *)

At(c, stage0) == req[c].at = stage0
On(c, route) == req[c] # Unused /\ req[c].route = route
Quiet == UNCHANGED <<box, role, verdict, barred, delivered>>

Go(c, stage0) ==
  /\ req' = [req EXCEPT ![c].at = stage0]
  /\ Quiet /\ UNCHANGED <<answer, changed, reads>>

\* The response.  A request that posted nothing may be followed by another.
Answer(c, status) ==
  /\ answer' = [answer EXCEPT ![c] = status]
  /\ req' = [req EXCEPT ![c].at = "done"]
  /\ reads' = reads + 1
  /\ Quiet

Refuse(c, status) == Answer(c, status) /\ UNCHANGED changed
Succeed(c) == Answer(c, 200) /\ UNCHANGED changed
Effect(c) == Answer(c, 200) /\ changed' = changed \cup {c}

\* A request comes in, and getPrincipal is called.
Arrive(c, route, named) ==
  /\ req[c] = Unused
  /\ req' = [req EXCEPT ![c] = [at |-> "principal", route |-> route, named |-> named,
                                who |-> Nobody, asks |-> "followUp"]]
  /\ Quiet /\ UNCHANGED <<answer, changed, reads>>

\* A slot whose request was answered without posting is used for another one.
Reuse(c) ==
  /\ req[c] # Unused /\ At(c, "done") /\ reads < MaxReads
  /\ \A i \in DOMAIN posted : posted[i] # c
  /\ req' = [req EXCEPT ![c] = Unused]
  /\ answer' = [answer EXCEPT ![c] = 0]
  /\ changed' = changed \ {c}
  /\ Quiet /\ UNCHANGED reads

\* No valid session cookie: 401 on every route.
Unauthenticated(c) == req[c] # Unused /\ At(c, "principal") /\ Refuse(c, 401)

\* The cookie's principal is known: read the session's ref, or the body, or go on.
Identified(c, p) ==
  /\ req[c] # Unused /\ At(c, "principal")
  /\ LET next == IF req[c].route \in SessionRoutes THEN "ref"
                 ELSE IF req[c].route \in BodyRoutes THEN "body"
                 ELSE "query"
     IN IF next # "query"
        THEN /\ req' = [req EXCEPT ![c].who = p, ![c].at = next]
             /\ Quiet /\ UNCHANGED <<answer, changed, reads>>
        ELSE IF ~req[c].named \/ RoleFor(p) = "none"
        THEN Refuse(c, IF req[c].named THEN 403 ELSE 400)
        ELSE /\ req' = [req EXCEPT ![c].who = p, ![c].at = "work"]
             /\ Quiet /\ UNCHANGED <<answer, changed, reads>>

-----------------------------------------------------------------------------
(* The routes *)

\* POST /api/sessions/:id/projection
Projection(c) ==
  /\ On(c, "projection")
  /\ \/ At(c, "ref") /\ ~req[c].named /\ Refuse(c, 404)
     \/ At(c, "ref") /\ req[c].named /\ (IF Member(c) THEN Go(c, "work") ELSE Refuse(c, 403))
     \/ At(c, "work") /\ Succeed(c)

\* Mutant: the response does not wait for the mailbox's result.
PostCommandAtOnce(c) ==
  /\ On(c, "commands")
  /\ \/ At(c, "ref") /\ (IF req[c].named /\ ~Member(c) THEN Refuse(c, 403) ELSE Go(c, "body"))
     \/ At(c, "body") /\ Refuse(c, 400)
     \/ At(c, "body") /\ \E b \in Behaviors :
          /\ req' = [req EXCEPT ![c].at = "work", ![c].asks = b]
          /\ Quiet /\ UNCHANGED <<answer, changed, reads>>
     \/ At(c, "work") /\ Refuse(c, 400)
     \/ /\ At(c, "work") /\ req[c].named
        /\ Post(c)
        /\ req' = [req EXCEPT ![c].at = "done"]
        /\ answer' = [answer EXCEPT ![c] = 200]
        /\ Decide
        /\ UNCHANGED <<role, changed, delivered, reads>>

\* POST /api/sessions/:id/commands.  Only a known session has a role to check;
\* registry.get refuses an unknown one, and may fail to build a known one.
PostCommand(c) ==
  /\ On(c, "commands")
  /\ \/ At(c, "ref") /\ (IF req[c].named /\ ~Member(c) THEN Refuse(c, 403) ELSE Go(c, "body"))
     \/ At(c, "body") /\ Refuse(c, 400)                    \* not JSON, or no verb
     \/ At(c, "body") /\ \E b \in Behaviors :
          /\ req' = [req EXCEPT ![c].at = "work", ![c].asks = b]
          /\ Quiet /\ UNCHANGED <<answer, changed, reads>>
     \/ At(c, "work") /\ Refuse(c, 400)
     \/ /\ At(c, "work") /\ req[c].named
        /\ Post(c)
        /\ req' = [req EXCEPT ![c].at = "posted"]
        /\ Decide
        /\ UNCHANGED <<role, answer, changed, delivered, reads>>

\* mailbox.post has resolved: 200 with the decision, whichever it is.
Replied(c) ==
  /\ On(c, "commands") /\ At(c, "posted")
  /\ \E i \in DOMAIN settled : settled[i].cmd = c
  /\ answer' = [answer EXCEPT ![c] = 200]
  /\ req' = [req EXCEPT ![c].at = "done"]
  /\ Quiet /\ UNCHANGED <<changed, reads>>

\* POST /api/sessions.  A body that is no JSON, and a create that throws, are
\* not caught: the server answers 500.
CreateSession(c) ==
  /\ On(c, "create")
  /\ \/ At(c, "body") /\ Refuse(c, IF req[c].named THEN 500 ELSE 400)
     \/ At(c, "body") /\ req[c].named
        /\ (IF RoleFor(req[c].who) \in {"none", "viewer"} THEN Refuse(c, 403) ELSE Go(c, "work"))
     \/ At(c, "work") /\ (Effect(c) \/ Refuse(c, 500))

\* GET /api/sessions?workspaceId=
ListSessions(c) == On(c, "list") /\ At(c, "work") /\ Succeed(c)

\* GET /api/skills?workspaceId=
ListSkills(c) == On(c, "skills") /\ At(c, "work") /\ (Succeed(c) \/ Refuse(c, 500))

\* GET /api/skills/prompt?workspaceId=
PromptPreview(c) == On(c, "prompt") /\ At(c, "work") /\ (Succeed(c) \/ Refuse(c, 500))

\* GET /api/models?workspaceId=
ListModels(c) == On(c, "models") /\ At(c, "work") /\ (Succeed(c) \/ Refuse(c, 500))

\* POST /api/skills/:name/visibility.  A body that is no JSON counts as empty;
\* 404 for a skill that is not the workspace's own.
SkillVisibility(c) ==
  /\ On(c, "visibility")
  /\ \/ At(c, "body") /\ ~req[c].named /\ Refuse(c, 400)
     \/ At(c, "body") /\ req[c].named /\ (IF Member(c) THEN Go(c, "work") ELSE Refuse(c, 403))
     \/ At(c, "work") /\ (Effect(c) \/ Refuse(c, 404))

\* GET /api/sessions/:id/history.  Here getEntries refuses an unknown session.
History(c) ==
  /\ On(c, "history")
  /\ \/ At(c, "ref") /\ (IF req[c].named /\ ~Member(c) THEN Refuse(c, 403) ELSE Go(c, "work"))
     \/ At(c, "work") /\ (IF req[c].named THEN Succeed(c) ELSE Refuse(c, 404))

-----------------------------------------------------------------------------
(* The mailbox, with the gate in it *)

Bystanders == UNCHANGED <<role, req, answer, reads>>

GateAllows == verdict /\ Allow /\ Decide /\ Bystanders /\ UNCHANGED <<changed, delivered>>
GateDenies == ~verdict /\ Deny /\ Decide /\ Bystanders /\ UNCHANGED <<changed, delivered>>

\* applyCommand has resolved.  #applyPrompt looks for a behaviour in the
\* command's args, where the gateway has not put it.
ApplyDone(streaming) ==
  /\ Applied /\ Decide
  /\ changed' = changed \cup {current}
  /\ delivered' = [delivered EXCEPT ![current] = IF streaming THEN "followUp" ELSE "now"]
  /\ Bystanders

\* applyCommand throws: a verb without implementation, bad arguments, the driver.
ApplyFails == ApplyThrows /\ Decide /\ Bystanders /\ UNCHANGED <<changed, delivered>>

Handler(c) ==
  \/ Unauthenticated(c) \/ (\E p \in Principals : Identified(c, p))
  \/ Projection(c) \/ PostCommand(c) \/ Replied(c) \/ CreateSession(c) \/ ListSessions(c)
  \/ ListSkills(c) \/ PromptPreview(c) \/ ListModels(c) \/ SkillVisibility(c) \/ History(c)

GatewayNext ==
  \/ \E c \in Commands :
       \/ \E route \in Routes[c], named \in BOOLEAN : Arrive(c, route, named)
       \/ Handler(c) \/ Reuse(c)
  \/ GateAllows \/ GateDenies \/ ApplyFails
  \/ \E streaming \in BOOLEAN : ApplyDone(streaming)
  \/ \E p \in Principals, r \in Grants : Grant(p, r)

\* Every await of a handler and of the mailbox settles, one way or another.
GatewaySpec ==
  /\ GatewayInit /\ [][GatewayNext]_gatewayVars
  /\ WF_gatewayVars(GateAllows \/ GateDenies)
  /\ WF_gatewayVars(ApplyFails \/ \E streaming \in BOOLEAN : ApplyDone(streaming))
  /\ \A c \in Commands : WF_gatewayVars(Handler(c))

-----------------------------------------------------------------------------
GatewayTypeOK ==
  /\ TypeOK
  /\ role \in [Principals -> Roles \cup {"none"}]
  /\ req \in [Commands -> Request \cup {Unused}]
  /\ answer \in [Commands -> {0, 200, 400, 401, 403, 404, 500}]
  /\ verdict \in BOOLEAN
  /\ {changed, barred} \subseteq SUBSET Commands
  /\ delivered \in [Commands -> {"no", "now", "steer", "followUp"}]

Accepted(c) == \E i \in DOMAIN settled : settled[i].cmd = c /\ settled[i].accepted

\* The status tells the truth. A request answered with an error has changed
\* nothing and its command, if any, is in nobody's queue; a command was answered
\* only when its fate was sealed, and took effect exactly if it was accepted.
AnswersHonest ==
  \A c \in Commands :
    /\ answer[c] \notin {0, 200} => c \notin changed /\ \A i \in DOMAIN posted : posted[i] # c
    /\ On(c, "commands") /\ answer[c] = 200 =>
         /\ \E i \in DOMAIN settled : settled[i].cmd = c
         /\ Accepted(c) <=> c \in changed

\* The role that counts is the one at the head of the queue: a command whose
\* actor lost the right to write while it was queued, after the gateway had let
\* the request in, is not let through.
NoStaleRole == [][\A c \in barred : c \notin granted' /\ ~(c = current' /\ verdict')]_gatewayVars

\* Every request is answered, whatever others are queued before it and however
\* they fail.
EveryRequestAnswered ==
  \A c \in Commands : (req[c] # Unused /\ ~At(c, "done")) ~> At(c, "done")

\* "How to deliver while the session is streaming" (core/src/domain.ts:137): a
\* command sent with a streamingBehavior is delivered so.
DeliveryHonoured ==
  \A c \in Commands : delivered[c] \in {"steer", "followUp"} => delivered[c] = req[c].asks
=============================================================================
