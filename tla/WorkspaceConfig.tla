-------------------------- MODULE WorkspaceConfig ---------------------------
(***************************************************************************)
(* What a workspace brings to its sessions: the skill and agent-type rows  *)
(* of runtime/src/workspace-config-store.ts, the files the skills are      *)
(* written out to (merged-resource-loader.ts), the bundle of loader and    *)
(* model runtime every request shares (workspace-runtime.ts), and the      *)
(* snapshots of all this that sessions are built from.                     *)
(*                                                                         *)
(* A request (o \in Ops) is one call of #workspaceRuntime and what follows *)
(* it; a step is the code between two awaits.  The content hash that       *)
(* serves as a version is modelled by the rows it is a hash of.            *)
(***************************************************************************)
EXTENDS Integers, Sequences, Functions

CONSTANTS
  Order,         \* the skill names in the order listSkills returns them
  Dir, NoDir,    \* the safe path segment of a name, NoDir if it has none
  DiskSkills,    \* names that disk discovery finds as well
  Texts,         \* descriptions and bodies of skills
  TypeNames, Presets, NoPreset,   \* agent types
  FileTypes,     \* those loaded from the directory of .md presets
  Sessions, Ops,
  MaxModels,     \* bound: model runtimes created by a process
  MaxEdits       \* bound: edits of rows

Names == Range(Order)
Dirs == {Dir[n] : n \in Names} \ {NoDir}

ASSUME ConfigAssumption ==
  /\ NoPreset \notin Presets /\ FileTypes \in [TypeNames -> Presets \cup {NoPreset}]
  /\ Order \in Seq(Names) /\ {MaxModels, MaxEdits} \subseteq Nat

VARIABLES
  rows,       \* workspace_skills
  types,      \* workspace_agent_types
  files,      \* the SKILL.md of each directory
  touched,    \* history: directories the last sync wrote or removed
  synced,     \* #materialized: the rows as of the last sync
  models,     \* the credential provider's #runtime, 0 for none
  cache,      \* the factory's bundle, by its model runtime, 0 for none
  created,    \* model runtimes created so far
  op,         \* where each request is
  live,       \* the prompt snapshot of each live session
  subagent,   \* history: the subagent just started
  mixed,      \* history: live sessions whose building overlapped another sync
  edits

configVars ==
  <<rows, types, files, touched, synced, models, cache, created, op, live, subagent, mixed, edits>>
bundle == <<models, cache, created>>
disk == <<files, touched, synced>>
built == <<live, subagent, mixed>>

NoRow == [text |-> "none"]
Skill == [text : Texts, hidden : BOOLEAN]
Rows == [Names -> Skill \cup {NoRow}]
NoRows == [n \in Names |-> NoRow]
NoFile == [name |-> "none"]
Idle == [step |-> "idle"]
Cold == [step |-> "cold"]
NoChild == [step |-> "none"]

ConfigInit ==
  /\ rows = NoRows /\ types = [t \in TypeNames |-> NoPreset]
  /\ files = [d \in Dirs |-> NoFile] /\ touched = {} /\ synced = NoRows
  /\ models = 0 /\ cache = 0 /\ created = 0
  /\ op = [o \in Ops |-> Idle]
  /\ live = [s \in Sessions |-> Cold] /\ subagent = NoChild /\ mixed = {}
  /\ edits = 0

-----------------------------------------------------------------------------
(* Edits of the rows *)

Edit == edits < MaxEdits /\ edits' = edits + 1
SkillEdit == Edit /\ UNCHANGED <<types, disk, bundle, op, built>>

\* upsertSkill
UpsertSkill(n, text, hidden) ==
  SkillEdit /\ rows' = [rows EXCEPT ![n] = [text |-> text, hidden |-> hidden]]

\* Mutant: a row that is not there is inserted.
SetSkillHiddenInserts(n, hidden) ==
  SkillEdit /\ rows' = [rows EXCEPT ![n] = [text |-> rows[n].text, hidden |-> hidden]]

\* setSkillHidden, which answers whether there is such a row.
SetSkillHidden(n, hidden) ==
  SkillEdit /\ rows[n] # NoRow /\ rows' = [rows EXCEPT ![n].hidden = hidden]

\* deleteSkill
DeleteSkill(n) == SkillEdit /\ rows' = [rows EXCEPT ![n] = NoRow]

\* upsertAgentType, deleteAgentType.  Requests that have read the old row go on with it.
SetAgentType(t, preset) ==
  /\ Edit
  /\ types' = [types EXCEPT ![t] = preset]
  /\ op' = [o \in Ops |-> IF op[o] # Idle /\ op[o].type = t THEN [op[o] EXCEPT !.edited = TRUE]
                          ELSE op[o]]
  /\ UNCHANGED <<rows, disk, bundle, built>>

\* listAgentTypes
ListAgentTypes == {t \in TypeNames : types[t] # NoPreset}

\* agentTypes: the rows over the presets of the directory.
AgentType(t) == IF t \in ListAgentTypes THEN types[t] ELSE FileTypes[t]

-----------------------------------------------------------------------------
(* Materialization *)

\* toSkillMarkdown: the file says the name, the text and the visibility.
SkillMarkdown(n, r) == [name |-> n, text |-> r[n].text, hidden |-> r[n].hidden]

\* listSkills
ListSkills(r) == {n \in Names : r[n] # NoRow}

\* Names without a safe segment are skipped.
Projected(r) == {n \in ListSkills(r) : Dir[n] # NoDir}

\* Mutant: the directory is cleared first.
MaterializeAll(r) ==
  [files |-> [d \in Dirs |-> IF \E n \in Projected(r) : Dir[n] = d
                             THEN SkillMarkdown(CHOOSE n \in Projected(r) : Dir[n] = d, r)
                             ELSE NoFile],
   touched |-> {d \in Dirs : files[d] # NoFile \/ \E n \in Projected(r) : Dir[n] = d}]

\* The rows that are written to a directory, and the last of them.
RowsOf(r, d) == {n \in Projected(r) : Dir[n] = d}
NotAfter(m, n) == \E i, j \in DOMAIN Order : i <= j /\ Order[i] = m /\ Order[j] = n
LastRow(r, d) == CHOOSE n \in RowsOf(r, d) : \A m \in RowsOf(r, d) : NotAfter(m, n)

\* materializeSkills: in the order of the rows, write what differs, so that the
\* last row of a directory stays; then remove the directories no row has.
Materialize(r) ==
  [files |-> [d \in Dirs |-> IF RowsOf(r, d) = {} THEN NoFile ELSE SkillMarkdown(LastRow(r, d), r)],
   touched |-> {d \in Dirs : \/ RowsOf(r, d) = {} /\ files[d] # NoFile
                             \/ \E n \in RowsOf(r, d) : files[d] # SkillMarkdown(n, r)}]

\* withWorkspaceSkills: what the loader adds to the disk's skills; a file wins.
Extra(r) == {SkillMarkdown(n, r) : n \in Projected(r) \ DiskSkills}

-----------------------------------------------------------------------------
(* #workspaceRuntime and the factory *)

\* A request asks for the workspace's bundle: to list skills or models or preview
\* the prompt ("peek"), to build a session, or to spawn a subagent of a type.
Ask(o, kind, s, t) ==
  /\ op[o] = Idle
  /\ kind = "build" => live[s] = Cold /\ \A p \in Ops : op[p] # Idle => op[p].session # s
  /\ op' = [op EXCEPT ![o] =
       [step |-> IF cache # 0 THEN "ready" ELSE "loading", kind |-> kind, session |-> s, type |-> t,
        models |-> cache, baked |-> NoRows, preset |-> NoPreset, edited |-> FALSE, mixed |-> FALSE]]
  /\ subagent' = NoChild
  /\ UNCHANGED <<rows, types, disk, bundle, live, mixed, edits>>

\* get, createConversation
Build(o, s) == Ask(o, "build", s, CHOOSE t \in TypeNames : TRUE)

\* spawnSubagent with an agent type
SpawnSubagent(o, t) == Ask(o, "spawn", "none", t)

\* previewSession, listModels, workspaceRuntimeFor: nothing is kept of what they build.
PreviewSession(o) == Ask(o, "peek", "none", CHOOSE t \in TypeNames : TRUE)

\* The loader has read the disk.  A model runtime there is already is taken.
Loaded(o) ==
  /\ op[o].step = "loading"
  /\ IF models = 0
     THEN op' = [op EXCEPT ![o].step = "creating"] /\ UNCHANGED cache
     ELSE cache' = models /\ op' = [op EXCEPT ![o].step = "ready", ![o].models = models]
  /\ UNCHANGED <<rows, types, disk, models, created, built, edits>>

\* ModelRuntime.create has resolved: the field and the cached bundle are
\* replaced, whatever another request has put there.
Created(o) ==
  /\ op[o].step = "creating" /\ created < MaxModels
  /\ created' = created + 1 /\ models' = created' /\ cache' = created'
  /\ op' = [op EXCEPT ![o].step = "ready", ![o].models = created']
  /\ UNCHANGED <<rows, types, disk, built, edits>>

\* The bundle is there: sync the files, and bind the loader to these rows.
\* spawnSubagent looks the agent type up, and throws if there is none.
Sync(o) ==
  /\ op[o].step = "ready"
  /\ LET m == Materialize(rows)
         preset == IF op[o].kind = "spawn" THEN AgentType(op[o].type) ELSE NoPreset
         over == op[o].kind = "peek" \/ (op[o].kind = "spawn" /\ preset = NoPreset)
         Overlapped(p) == [op[p] EXCEPT !.mixed = @ \/ (op[p].step = "building" /\ op[p].baked # rows)]
     IN /\ files' = m.files /\ touched' = m.touched /\ synced' = rows
        /\ op' = [p \in Ops |->
             IF p # o THEN (IF op[p] = Idle THEN Idle ELSE Overlapped(p))
             ELSE IF over THEN Idle
             ELSE [op[o] EXCEPT !.step = "building", !.baked = rows, !.preset = preset,
                                !.edited = FALSE]]
  /\ UNCHANGED <<rows, types, bundle, built, edits>>

\* Mutant: the version is read from the rows.
BuiltCurrent(o) ==
  /\ op[o].step = "building" /\ op[o].kind = "build"
  /\ live' = [live EXCEPT ![op[o].session] =
       [step |-> "live", extra |-> Extra(op[o].baked), baked |-> op[o].baked, version |-> rows,
        models |-> op[o].models]]
  /\ mixed' = IF op[o].mixed THEN mixed \cup {op[o].session} ELSE mixed \ {op[o].session}
  /\ op' = [op EXCEPT ![o] = Idle]
  /\ UNCHANGED <<rows, types, disk, bundle, subagent, edits>>

\* createAgentSession has resolved: the prompt is a snapshot of the loader's
\* skills, and its version is what was materialized last.
Built(o) ==
  /\ op[o].step = "building" /\ op[o].kind = "build"
  /\ live' = [live EXCEPT ![op[o].session] =
       [step |-> "live", extra |-> Extra(op[o].baked), baked |-> op[o].baked, version |-> synced,
        models |-> op[o].models]]
  /\ mixed' = IF op[o].mixed THEN mixed \cup {op[o].session} ELSE mixed \ {op[o].session}
  /\ op' = [op EXCEPT ![o] = Idle]
  /\ UNCHANGED <<rows, types, disk, bundle, subagent, edits>>

\* Mutant: the instructions are the directory's.
SpawnedWithFile(o) ==
  /\ op[o].step = "building" /\ op[o].kind = "spawn"
  /\ subagent' = [step |-> "started", type |-> op[o].type, preset |-> op[o].preset,
               told |-> FileTypes[op[o].type], edited |-> op[o].edited]
  /\ op' = [op EXCEPT ![o] = Idle]
  /\ UNCHANGED <<rows, types, disk, bundle, live, mixed, edits>>

\* spawnSubagent returns; preparePrompt looks the agent type up once more for
\* its instructions, if it has any.
Spawned(o) ==
  /\ op[o].step = "building" /\ op[o].kind = "spawn"
  /\ subagent' = [step |-> "started", type |-> op[o].type, preset |-> op[o].preset,
               told |-> AgentType(op[o].type), edited |-> op[o].edited]
  /\ op' = [op EXCEPT ![o] = Idle]
  /\ UNCHANGED <<rows, types, disk, bundle, live, mixed, edits>>

\* The reload, the model runtime or the session cannot be made.
AskFails(o) ==
  /\ op[o].step \in {"loading", "creating", "building"}
  /\ op' = [op EXCEPT ![o] = Idle]
  /\ UNCHANGED <<rows, types, disk, bundle, built, edits>>

\* evict, or the session goes cold.
Chill(s) ==
  /\ live[s] # Cold
  /\ live' = [live EXCEPT ![s] = Cold] /\ mixed' = mixed \ {s}
  /\ UNCHANGED <<rows, types, disk, bundle, op, subagent, edits>>

ConfigNext ==
  \/ \E n \in Names :
       \/ DeleteSkill(n)
       \/ \E hidden \in BOOLEAN : SetSkillHidden(n, hidden) \/ \E x \in Texts : UpsertSkill(n, x, hidden)
  \/ \E t \in TypeNames, p \in Presets \cup {NoPreset} : SetAgentType(t, p)
  \/ \E o \in Ops :
       \/ PreviewSession(o)
       \/ \E s \in Sessions : Build(o, s)
       \/ \E t \in TypeNames : SpawnSubagent(o, t)
       \/ Loaded(o) \/ Created(o) \/ Sync(o) \/ Built(o) \/ Spawned(o) \/ AskFails(o)
  \/ \E s \in Sessions : Chill(s)

ConfigSpec == ConfigInit /\ [][ConfigNext]_configVars

-----------------------------------------------------------------------------
File == [name : Names, text : Texts, hidden : BOOLEAN]

ConfigTypeOK ==
  /\ rows \in Rows /\ synced \in Rows
  /\ types \in [TypeNames -> Presets \cup {NoPreset}]
  /\ files \in [Dirs -> File \cup {NoFile}] /\ touched \subseteq Dirs
  /\ {models, cache, created} \subseteq 0..MaxModels
  /\ \A o \in Ops : op[o] # Idle =>
       /\ op[o].step \in {"loading", "creating", "ready", "building"}
       /\ op[o].kind \in {"peek", "build", "spawn"}
       /\ op[o].session \in Sessions \cup {"none"}
       /\ op[o].models \in 0..MaxModels /\ op[o].baked \in Rows
  /\ \A s \in Sessions : live[s] # Cold =>
       live[s].extra \subseteq File /\ {live[s].baked, live[s].version} \subseteq Rows
  /\ mixed \subseteq {s \in Sessions : live[s] # Cold}

\* staleSkillSessions
Stale == {s \in Sessions : live[s] # Cold /\ live[s].version # rows}

\* A session is reported stale exactly when its prompt was built from other
\* skills than the current ones ("what makes that detectable rather than
\* silent", session-registry.ts:120), unless another request with other rows
\* came between the sync it was built from and its end.
StaleExact ==
  \A s \in Sessions \ mixed : live[s] # Cold => (s \in Stale <=> live[s].baked # rows)

\* The half of it that keeps staleness from being silent, for sessions whose
\* building overlapped another sync too.
StaleKnown ==
  \A s \in Sessions : live[s] # Cold /\ live[s].baked # rows => s \in Stale

\* Rows that share a directory: `materializeSkills` sends several names to one
\* safe segment.
Collide(r, d) == \E m, n \in RowsOf(r, d) : m # n

\* What a session's prompt advertises can be read: the files of a session that
\* is not reported stale say what its prompt says, once a request has synced
\* the rows, whatever was hidden, deleted and restored in between.  Skills that
\* share a directory share its file: it is of one of them.
AdvertisedReadable ==
  \A s \in Sessions \ mixed : live[s] # Cold /\ s \notin Stale /\ synced = rows =>
    \A f \in live[s].extra :
      LET d == Dir[f.name] IN
      /\ ~Collide(rows, d) => files[d] = f
      /\ \E n \in RowsOf(rows, d) : files[d] = SkillMarkdown(n, rows)

\* A live session's prompt is what it is known to be: current and readable, or stale.
SnapshotsHonest == StaleExact /\ AdvertisedReadable

\* "Only touch the file when the content actually differs" (materializeSkills):
\* a sync leaves alone every directory that ends as it began, so that a reader
\* of an unchanged skill is never interrupted, unless several skills share it.
OnlyChangesTouched ==
  [][(\E o \in Ops : op[o].step = "ready" /\ op'[o].step # "ready") =>
       \A d \in touched' : files'[d] # files[d] \/ Collide(rows, d)]_configVars

\* The same of every directory.
UnchangedUntouched ==
  [][(\E o \in Ops : op[o].step = "ready" /\ op'[o].step # "ready") =>
       \A d \in touched' : files'[d] # files[d]]_configVars

\* A subagent of a type is one thing: the preset that sets its tools and model
\* is the one whose instructions it gets, and a row of the workspace comes
\* before a file, unless the type was edited while the subagent was built.
PresetHonoured ==
  subagent # NoChild /\ ~subagent.edited => subagent.told = subagent.preset

\* The same without the exception: "an agent type may restrict the child's
\* tools", and the instructions are that type's.
PresetOfOneType == subagent # NoChild => subagent.told = subagent.preset

\* "Shared, single-instance model runtime" (workspace-runtime.ts:27).
SingleModelRuntime ==
  \A s, t \in Sessions : live[s] # Cold /\ live[t] # Cold => live[s].models = live[t].models

\* A skill that was answered as hidden is hidden from prompts built afterwards
\* ("Returns false for skills that came from disk", skills-service.ts:108).
HiddenStaysOut ==
  \A s \in Sessions, n \in Names :
    live[s] # Cold /\ live[s].baked[n] # NoRow /\ live[s].baked[n].hidden => n \notin DiskSkills
=============================================================================
