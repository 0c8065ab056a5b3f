----------------------------- MODULE SkillsPanel -----------------------------
(***************************************************************************)
(* The skills panel, from the browser to the rows: the AkkoClient of a tab *)
(* (web/src/lib/client.svelte.ts) and the panel that renders it            *)
(* (SkillsPanel.svelte), the gateway's skills routes, AkkoSkillsService    *)
(* (runtime/src/skills-service.ts) and the rows it toggles.  A GET reads   *)
(* the skills twice, once for the inventory and once for the budget, and   *)
(* then asks which sessions are stale; answers arrive in any order.        *)
(*                                                                         *)
(* WorkspaceConfig is the detailed account of the rows, their files and    *)
(* the prompts; here a skill is hidden or not, and costs tokens or not.    *)
(***************************************************************************)
EXTENDS Naturals, FiniteSets

CONSTANTS
  Owned,        \* skills of the workspace's rows
  OnDisk,       \* skills found on disk, which are never hidden; they win on collision
  Sessions, Calls,
  MaxClicks,    \* bound: clicks in the panel
  MaxEdits,     \* bound: changes by others: their toggles, sessions built and gone cold
  MaxFaults     \* bound: refused and failed calls

Names == Owned \cup OnDisk

VARIABLES
  hidden,     \* the rows: the skills of the workspace that are hidden
  baked,      \* the hidden skills each live session was built with, Cold for none
  call,       \* the tab's calls
  skills,     \* AkkoClient.skills: those shown as hidden, Unknown before the first load
  budget,     \* AkkoClient.skillImpact: those that cost nothing
  banner,     \* AkkoClient.staleSessions
  error,      \* AkkoClient.error: the skill it is about, NoError
  open,       \* whether the panel is
  prompt,     \* its prompt: "none", "shown"
  asked,      \* history: how often the skills were asked for; a load's number
  shown,      \* history: the number of the load on display
  current,    \* history: nothing has changed behind the display's back since it was read
  clicks, edits, faults

panelVars == <<hidden, baked, call, skills, budget, banner, error, open, prompt, asked, shown,
               current, clicks, edits, faults>>
server == <<hidden, baked>>
client == <<skills, budget, banner, error>>
panel == <<open, prompt>>
history == <<asked, shown, current>>
limits == <<clicks, edits, faults>>

Cold == {"cold"}
Unknown == {"unknown"}
NoError == "none"
Free == [kind |-> "free"]

PanelInit ==
  /\ hidden = {} /\ baked = [s \in Sessions |-> Cold]
  /\ call = [c \in Calls |-> Free]
  /\ skills = Unknown /\ budget = Unknown /\ banner = {} /\ error = NoError
  /\ open = FALSE /\ prompt = "none"
  /\ asked = 0 /\ shown = 0 /\ current = FALSE /\ clicks = 0 /\ edits = 0 /\ faults = 0

\* What reaches no prompt: the hidden skills, but not those that a file shadows.
Dark == hidden \ OnDisk

\* staleSkillSessions
Stale == {s \in Sessions : baked[s] # Cold /\ baked[s] # hidden}

-----------------------------------------------------------------------------
(* Others *)

Edit == edits < MaxEdits /\ edits' = edits + 1 /\ UNCHANGED <<clicks, faults>>

\* A change that no answer under way, nor the display, takes into account.
Outdated ==
  /\ current' = FALSE
  /\ call' = [c \in Calls |-> IF call[c].kind = "load" THEN [call[c] EXCEPT !.current = FALSE]
                              ELSE call[c]]

\* Another tab toggles a skill.
ToggleElsewhere(n) ==
  /\ Edit /\ hidden' = IF n \in hidden THEN hidden \ {n} ELSE hidden \cup {n}
  /\ Outdated
  /\ UNCHANGED <<baked, client, panel, asked, shown>>

\* A session is built, from the skills as they are now.
Build(s) ==
  /\ Edit /\ baked[s] = Cold /\ baked' = [baked EXCEPT ![s] = hidden]
  /\ UNCHANGED <<hidden, call, client, panel, history>>

\* A session is evicted; a stale one is on the banner still.
Chill(s) ==
  /\ Edit /\ baked[s] # Cold /\ baked' = [baked EXCEPT ![s] = Cold]
  /\ IF s \in Stale THEN Outdated ELSE UNCHANGED <<call, current>>
  /\ UNCHANGED <<hidden, client, panel, asked, shown>>

-----------------------------------------------------------------------------
(* The panel and the client: requests *)

Click == clicks < MaxClicks /\ clicks' = clicks + 1 /\ UNCHANGED <<edits, faults>>
Fault == faults < MaxFaults /\ faults' = faults + 1 /\ UNCHANGED <<clicks, edits>>

Load == [kind |-> "load", at |-> "sent", n |-> asked', list |-> Unknown, impact |-> Unknown,
         stale |-> {}, current |-> TRUE]

\* The panel is opened: its effect loads the skills.
OpenPanel(c) ==
  /\ Click /\ ~open /\ open' = TRUE /\ prompt' = "none"
  /\ call[c] = Free /\ asked' = asked + 1
  /\ call' = [call EXCEPT ![c] = Load]
  /\ UNCHANGED <<server, client, shown, current>>

\* onclose: the client's calls go on without the panel, its own are for nobody.
ClosePanel ==
  /\ open /\ open' = FALSE
  /\ call' = [c \in Calls |-> IF call[c].kind = "prompt" THEN Free ELSE call[c]]
  /\ UNCHANGED <<server, client, prompt, history, limits>>

\* A click on a skill's button asks for the opposite of what is shown.
Toggle(c, n) ==
  /\ Click /\ open /\ skills # Unknown /\ call[c] = Free
  /\ call' = [call EXCEPT ![c] = [kind |-> "toggle", at |-> "sent", name |-> n, hide |-> n \notin skills]]
  /\ UNCHANGED <<server, client, panel, history>>

\* togglePrompt with a prompt on display hides it, else it is loaded, also while
\* it is being loaded already.
TogglePrompt(c) ==
  /\ Click /\ open
  /\ \/ /\ prompt = "shown" /\ prompt' = "none"
        /\ call' = [d \in Calls |-> IF call[d].kind = "prompt" THEN [call[d] EXCEPT !.wanted = FALSE]
                                   ELSE call[d]]
     \/ /\ prompt = "none" /\ call[c] = Free
        /\ call' = [call EXCEPT ![c] = [kind |-> "prompt", at |-> "sent", wanted |-> TRUE]]
        /\ UNCHANGED prompt
  /\ UNCHANGED <<server, client, open, history>>

-----------------------------------------------------------------------------
(* The server *)

Sent(c, kind) == call[c].kind = kind /\ call[c].at = "sent"

\* list and impact each await the workspace runtime, and then read the skills.
ListRead(c) ==
  /\ Sent(c, "load") /\ call[c].list = Unknown
  /\ call' = [call EXCEPT ![c].list = Dark]
  /\ UNCHANGED <<server, client, panel, history, limits>>

ImpactRead(c) ==
  /\ Sent(c, "load") /\ call[c].impact = Unknown
  /\ call' = [call EXCEPT ![c].impact = Dark]
  /\ UNCHANGED <<server, client, panel, history, limits>>

\* Both are there: the stale sessions of this moment, and the answer.
Answered(c) ==
  /\ Sent(c, "load") /\ call[c].list # Unknown /\ call[c].impact # Unknown
  /\ call' = [call EXCEPT ![c].stale = Stale, ![c].at = "answered"]
  /\ UNCHANGED <<server, client, panel, history, limits>>

\* setHiddenFromPrompt: an update of the row, if the workspace owns one.  The
\* loads under way may have read it before.
SetHiddenFromPrompt(c) ==
  /\ Sent(c, "toggle")
  /\ LET n == call[c].name
         owned == n \in Owned
     IN /\ hidden' = IF ~owned THEN hidden
                     ELSE IF call[c].hide THEN hidden \cup {n} ELSE hidden \ {n}
        /\ call' = [call EXCEPT ![c].at = IF owned THEN "answered" ELSE "refused"]
  /\ UNCHANGED <<baked, client, panel, history, limits>>

\* previewSystemPrompt: a throwaway session is built, which is in no index.
PreviewSystemPrompt(c) ==
  /\ Sent(c, "prompt")
  /\ call' = [call EXCEPT ![c].at = "answered"]
  /\ UNCHANGED <<server, client, panel, history, limits>>

\* The server refuses the call, or fails over it.
Refuse(c) ==
  /\ call[c] # Free /\ call[c].at = "sent" /\ Fault
  /\ call' = [call EXCEPT ![c].at = "refused"]
  /\ UNCHANGED <<server, client, panel, history>>

-----------------------------------------------------------------------------
(* The client: answers *)

Landed(c, kind, at) == call[c].kind = kind /\ call[c].at = at
Done(c) == call' = [call EXCEPT ![c] = Free]

\* loadSkills shows the answer, whichever was asked for last; a refusal is ignored.
SkillsLand(c) ==
  /\ \/ /\ Landed(c, "load", "answered")
        /\ skills' = call[c].list /\ budget' = call[c].impact /\ banner' = call[c].stale
        /\ shown' = call[c].n /\ current' = call[c].current
     \/ /\ Landed(c, "load", "refused")
        /\ current' = FALSE
        /\ UNCHANGED <<skills, budget, banner, shown>>
  /\ Done(c)
  /\ UNCHANGED <<server, error, panel, asked, limits>>

\* Mutant: the tab trusts the answer, and does not load.
ToggleLandsUnloaded(c) ==
  /\ \/ Landed(c, "toggle", "answered") /\ error' = NoError
     \/ Landed(c, "toggle", "refused") /\ error' = call[c].name
  /\ Done(c)
  /\ UNCHANGED <<server, skills, budget, banner, panel, history, limits>>

\* setSkillHidden: a success clears the error and loads the skills again, in the
\* same call; a refusal is said.
ToggleLands(c) ==
  /\ \/ /\ Landed(c, "toggle", "answered")
        /\ error' = NoError /\ asked' = asked + 1
        /\ call' = [call EXCEPT ![c] = Load]
     \/ /\ Landed(c, "toggle", "refused")
        /\ error' = call[c].name /\ UNCHANGED asked
        /\ Done(c)
  /\ UNCHANGED <<server, skills, budget, banner, panel, shown, current, limits>>

\* loadSystemPrompt: the prompt, or nothing, is put on display.
PromptLands(c) ==
  /\ call[c].kind = "prompt" /\ call[c].at # "sent"
  /\ prompt' = "shown"
  /\ Done(c)
  /\ UNCHANGED <<server, client, open, history, limits>>

\* fetch rejects: nobody catches it.  The server may have done its part.
CallLost(c) ==
  /\ call[c] # Free /\ Fault
  /\ current' = FALSE
  /\ call' = [d \in Calls |-> IF d = c THEN Free
                             ELSE IF call[d].kind = "load" THEN [call[d] EXCEPT !.current = FALSE]
                             ELSE call[d]]
  /\ UNCHANGED <<server, client, panel, asked, shown>>

PanelNext ==
  \/ \E n \in Owned : ToggleElsewhere(n)
  \/ \E s \in Sessions : Build(s) \/ Chill(s)
  \/ ClosePanel
  \/ \E c \in Calls :
       \/ OpenPanel(c) \/ TogglePrompt(c) \/ \E n \in Names : Toggle(c, n)
       \/ ListRead(c) \/ ImpactRead(c) \/ Answered(c)
       \/ SetHiddenFromPrompt(c) \/ PreviewSystemPrompt(c) \/ Refuse(c)
       \/ SkillsLand(c) \/ ToggleLands(c) \/ PromptLands(c) \/ CallLost(c)

PanelSpec == PanelInit /\ [][PanelNext]_panelVars

-----------------------------------------------------------------------------
PanelTypeOK ==
  /\ hidden \subseteq Owned
  /\ baked \in [Sessions -> (SUBSET Owned) \cup {Cold}]
  /\ {skills, budget} \subseteq (SUBSET Names) \cup {Unknown}
  /\ banner \subseteq Sessions /\ error \in Names \cup {NoError}
  /\ \A c \in Calls : call[c].kind \in {"free", "load", "toggle", "prompt"}
  /\ shown \in 0..asked

Quiet == \A c \in Calls : call[c].kind \notin {"load", "toggle"}

\* Once the calls of a tab are answered its panel agrees with the server: the
\* inventory, the budget and the banner are of one version, the current one,
\* though a GET reads it in three steps, between the toggles of this tab and the
\* rebuilds of sessions.  It holds unless others have changed something since,
\* a call was refused or lost, or an older answer came after the newest.
PanelAgrees ==
  Quiet /\ current /\ shown = asked => skills = Dark /\ budget = Dark /\ banner = Stale

\* The same without the last exception.
PanelCatchesUp == Quiet /\ current => skills = Dark

\* A prompt appears because it was asked for since it was last hidden.
PromptWanted ==
  [][prompt = "none" /\ prompt' = "shown" =>
       \E c \in Calls : call[c].kind = "prompt" /\ call'[c] = Free /\ call[c].wanted]_panelVars
=============================================================================
