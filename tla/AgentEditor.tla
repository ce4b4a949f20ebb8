----------------------------- MODULE AgentEditor -----------------------------
(***************************************************************************)
(* The dialogs of the Agents page that add and configure an agent and add  *)
(* a todo (pages/Agents/components.tsx, index.tsx).  They edit a draft     *)
(* over lists that are polled under it: the configuration dialog refuses   *)
(* to go on when the agent's configuration changed elsewhere, and sends    *)
(* only the fields it changed.  store/local.py update_agent is the other   *)
(* end.                                                                    *)
(***************************************************************************)
EXTENDS Naturals, FiniteSets

CONSTANTS
    Agents, Models,
    Names,          \* names of agents
    Complexities,
    None,
    MaxForeign,     \* bound: changes by others, of agents and models
    MaxEdits,       \* bound: edits of a draft
    MaxSaves        \* bound: calls of this page

VARIABLES
    agents,         \* the server's rows
    ready,          \* models with status ready; the others are paused
    foreign, edits, saves,
    roster,         \* the cached list of agents
    models,         \* the cached list of ready models
    manages,        \* the user's role is admin or owner
    form,           \* the open dialog with its draft
    saving          \* the dialog's call

editorVars == <<agents, ready, foreign, edits, saves, roster, models, manages, form, saving>>

Fields == {"name", "model", "complexity", "enabled"}
FirstOf(S) == CHOOSE x \in S : TRUE

EditorInit ==
    /\ agents = [a \in Agents |-> [there |-> TRUE, busy |-> FALSE, name |-> FirstOf(Names), model |-> FirstOf(Models),
                                   complexity |-> FirstOf(Complexities), enabled |-> TRUE]]
    /\ ready = Models
    /\ foreign = 0 /\ edits = 0 /\ saves = 0
    /\ roster = agents /\ models = ready
    /\ manages = TRUE
    /\ form = None /\ saving = None

Config(a) == [f \in Fields |-> a[f]]

-----------------------------------------------------------------------------
(* The server under the page. *)

ForeignStep == foreign < MaxForeign /\ foreign' = foreign + 1

Value(f) == CASE f = "name" -> Names [] f = "model" -> ready
              [] f = "complexity" -> Complexities [] f = "enabled" -> BOOLEAN

\* Another user's update of one field.
OthersChange(a, f) ==
    /\ agents[a].there /\ ~(agents[a].busy /\ f # "name") /\ ForeignStep
    /\ \E v \in Value(f) \ {agents[a][f]} : agents' = [agents EXCEPT ![a][f] = v]
    /\ UNCHANGED <<ready, edits, saves, roster, models, manages, form, saving>>

\* An agent claims a todo, ends it, or is deleted by another user.
OthersMove(a) ==
    /\ agents[a].there /\ ForeignStep
    /\ agents' = [agents EXCEPT ![a].busy = ~@ /\ agents[a].enabled]
          \/ (~agents[a].busy /\ agents' = [agents EXCEPT ![a].there = FALSE])
    /\ UNCHANGED <<ready, edits, saves, roster, models, manages, form, saving>>

ModelChanges(m) ==
    /\ ForeignStep
    /\ ready' = IF m \in ready THEN ready \ {m} ELSE ready \cup {m}
    /\ UNCHANGED <<agents, edits, saves, roster, models, manages, form, saving>>

RoleChanges ==
    /\ ForeignStep /\ manages' = ~manages
    /\ form' = IF manages /\ form # None /\ form.kind # "todo" /\ saving = None THEN None ELSE form
    /\ UNCHANGED <<agents, ready, edits, saves, roster, models, saving>>

-----------------------------------------------------------------------------
(* What the effects of the dialogs make of a new answer. *)

Shown(list) == {a \in Agents : list[a].there}

\* revalidateAgentModelSelection: a model that is no longer ready is dropped, but for the
\* agent's own, which stays while it is listed.
Revalidated(selected, current, list) ==
    IF selected \in list \/ (selected = current /\ selected # None) THEN selected ELSE None

\* eligibleAgentsForComplexity.
EligibleAgents(list, c) == {a \in Shown(list) : list[a].enabled /\ list[a].complexity = c}

Conflict(d, list) == Config(list[d.agent]) # d.baseline

\* A dialog's draft after the lists have changed to `list` and `ms`; the dialog of an
\* agent that is gone closes, unless a call is out.
Adjusted(list, ms) ==
    CASE form = None -> None
      [] form # None /\ form.kind = "add" -> [form EXCEPT !.draft.model = Revalidated(@, None, ms)]
      [] form # None /\ form.kind = "todo" ->
            [form EXCEPT !.assign = IF @ \in EligibleAgents(list, form.draft.complexity) THEN @ ELSE None]
      [] OTHER ->
            IF ~list[form.agent].there THEN (IF saving = None THEN None ELSE form)
            ELSE IF Conflict(form, list) THEN form
            ELSE [form EXCEPT !.draft.model = Revalidated(@, list[form.agent].model, ms)]

RosterPolled ==
    /\ roster # agents
    /\ roster' = agents
    /\ form' = Adjusted(agents, models)
    /\ UNCHANGED <<agents, ready, foreign, edits, saves, models, manages, saving>>

ModelsRefreshed ==
    /\ models # ready
    /\ models' = ready
    /\ form' = Adjusted(roster, ready)
    /\ UNCHANGED <<agents, ready, foreign, edits, saves, roster, manages, saving>>

-----------------------------------------------------------------------------
(* The dialogs. *)

NewDraft == [name |-> None, model |-> None, complexity |-> FirstOf(Complexities), enabled |-> TRUE]

OpenForm(kind, a, draft) ==
    /\ form = None /\ saving = None
    /\ form' = [kind |-> kind, agent |-> a, draft |-> draft, baseline |-> draft, assign |-> None]
    /\ UNCHANGED <<agents, ready, foreign, edits, saves, roster, models, manages, saving>>

OpenAddAgent == manages /\ OpenForm("add", None, NewDraft)
OpenAddTodo == OpenForm("todo", None, NewDraft)
OpenConfigure(a) == manages /\ roster[a].there /\ OpenForm("configure", a, Config(roster[a]))

\* Cancel, Escape, the backdrop: blocked while the call is out.
CloseForm ==
    /\ form # None /\ saving = None /\ form' = None
    /\ UNCHANGED <<agents, ready, foreign, edits, saves, roster, models, manages, saving>>

EditLocked == saving # None \/ (form.kind = "configure" /\ Conflict(form, roster))

\* A field of the draft; the flag is not offered while the agent is busy, and the model
\* is chosen among the ready ones.
EditField(f) ==
    /\ form # None /\ ~EditLocked /\ edits < MaxEdits /\ edits' = edits + 1
    /\ \E v \in (IF f = "model" THEN models ELSE Value(f)) \ {form.draft[f]} :
          LET d == [form.draft EXCEPT ![f] = v] IN
          form' = [form EXCEPT !.draft = d,
                               !.assign = IF @ \in EligibleAgents(roster, d.complexity) THEN @ ELSE None]
    /\ f = "enabled" => form.kind = "configure" /\ ~roster[form.agent].busy
    /\ UNCHANGED <<agents, ready, foreign, saves, roster, models, manages, saving>>

PreferAgent(a) ==
    /\ form # None /\ form.kind = "todo" /\ saving = None /\ edits < MaxEdits /\ edits' = edits + 1
    /\ a \in EligibleAgents(roster, form.draft.complexity) /\ form.assign # a
    /\ form' = [form EXCEPT !.assign = a]
    /\ UNCHANGED <<agents, ready, foreign, saves, roster, models, manages, saving>>

\* reloadLatest: the draft and the baseline are those of the list.
ReloadLatest ==
    /\ form # None /\ form.kind = "configure" /\ saving = None /\ Conflict(form, roster)
    /\ form' = [form EXCEPT !.draft = Config(roster[form.agent]), !.baseline = Config(roster[form.agent])]
    /\ UNCHANGED <<agents, ready, foreign, edits, saves, roster, models, manages, saving>>

Call(op, changes) ==
    /\ saves < MaxSaves /\ saves' = saves + 1
    /\ saving' = [op |-> op, agent |-> form.agent, changes |-> changes, assign |-> form.assign, stage |-> "sent"]
    /\ UNCHANGED <<agents, ready, foreign, edits, roster, models, manages, form>>

\* canCreateAgent
Complete(d) == d.name # None /\ d.model # None

SubmitAdd ==
    /\ form # None /\ form.kind = "add" /\ saving = None
    /\ Complete(form.draft) /\ form.draft.model \in models
    /\ Call("create", form.draft)

\* agentUpdateChanges: the fields of the draft that differ from the list.
Changes(d, current) == [f \in {g \in Fields : d[g] # current[g]} |-> d[f]]

\* Mutant: a configuration that changed elsewhere does not stop the save.
SubmitConfigureOver ==
    /\ form # None /\ form.kind = "configure" /\ saving = None
    /\ Complete(form.draft)
    /\ LET changes == Changes(form.draft, roster[form.agent]) IN
       /\ roster[form.agent].busy => DOMAIN changes \subseteq {"name"}
       /\ DOMAIN changes # {}
       /\ Call("update", changes)

\* submit: without a change the dialog just closes (CloseForm).
SubmitConfigure ==
    /\ form # None /\ form.kind = "configure" /\ saving = None
    /\ Complete(form.draft) /\ ~Conflict(form, roster)
    /\ LET changes == Changes(form.draft, roster[form.agent]) IN
       /\ roster[form.agent].busy => DOMAIN changes \subseteq {"name"}
       /\ DOMAIN changes # {}
       /\ Call("update", changes)

ConfirmDelete ==
    /\ form # None /\ form.kind = "configure" /\ saving = None
    /\ ~roster[form.agent].busy /\ ~Conflict(form, roster)
    /\ Call("delete", <<>>)

\* actions.add: the preference is sent only if the agent is still eligible.
SubmitTodo ==
    /\ form # None /\ form.kind = "todo" /\ saving = None
    /\ Call("todo", <<>>)

-----------------------------------------------------------------------------
(* The calls. *)

\* update_agent and delete_agent: only what differs is an update; a model must be ready;
\* a busy agent keeps model, complexity and flag, and is not deleted.
Actual(c) == {f \in DOMAIN c.changes : c.changes[f] # agents[c.agent][f]}

Refusal(c) ==
    CASE c.op = "create" -> c.changes.model \notin ready
      [] c.op = "todo"   -> c.assign # None /\ ~(agents[c.assign].there /\ agents[c.assign].enabled)
      [] c.op = "delete" -> ~agents[c.agent].there \/ agents[c.agent].busy
      [] OTHER -> \/ ~agents[c.agent].there
                  \/ "model" \in Actual(c) /\ c.changes.model \notin ready
                  \/ agents[c.agent].busy /\ Actual(c) \cap {"model", "complexity", "enabled"} # {}

SaveServed ==
    /\ saving # None /\ saving.stage = "sent"
    /\ IF Refusal(saving) THEN saving' = [saving EXCEPT !.stage = "refused"] /\ UNCHANGED agents
       ELSE /\ saving' = [saving EXCEPT !.stage = "served"]
            /\ agents' = CASE saving.op = "delete" -> [agents EXCEPT ![saving.agent].there = FALSE]
                           [] saving.op = "update" ->
                                 [agents EXCEPT ![saving.agent] = [f \in DOMAIN @ |->
                                     IF f \in DOMAIN saving.changes THEN saving.changes[f] ELSE @[f]]]
                           [] OTHER -> agents
    /\ UNCHANGED <<ready, foreign, edits, saves, roster, models, manages, form>>

\* The hook asks for the roster, then onSuccess closes the dialog.
SaveReturns ==
    /\ saving # None /\ saving.stage = "served"
    /\ saving' = None /\ form' = None
    /\ roster' = agents
    /\ UNCHANGED <<agents, ready, foreign, edits, saves, models, manages>>

\* The error is shown; the dialog of an agent that is gone, or of a user who lost the
\* role, closes now.
SaveFails ==
    /\ saving # None
    /\ saving' = None
    /\ form' = IF (form.kind = "configure" /\ ~roster[form.agent].there) \/ (form.kind # "todo" /\ ~manages)
               THEN None ELSE form
    /\ UNCHANGED <<agents, ready, foreign, edits, saves, roster, models, manages>>

EditorNext ==
    \/ \E a \in Agents : \/ OthersMove(a) \/ OpenConfigure(a) \/ PreferAgent(a)
                         \/ \E f \in Fields : OthersChange(a, f)
    \/ \E m \in Models : ModelChanges(m)
    \/ RoleChanges \/ RosterPolled \/ ModelsRefreshed
    \/ OpenAddAgent \/ OpenAddTodo \/ CloseForm \/ ReloadLatest
    \/ \E f \in Fields : EditField(f)
    \/ SubmitAdd \/ SubmitConfigure \/ ConfirmDelete \/ SubmitTodo
    \/ SaveServed \/ SaveReturns \/ SaveFails

EditorSpec == EditorInit /\ [][EditorNext]_editorVars

-----------------------------------------------------------------------------
(* Properties. *)

\* A field that the user of the dialog left alone is never sent: what others changed
\* since the draft was loaded survives the save, whatever polls came between, unless the
\* user changed that same field.
OthersFieldsSurvive ==
    saving # None /\ saving.op = "update" =>
        \A f \in DOMAIN saving.changes : form.draft[f] # form.baseline[f]

\* The model sent was ready in the list the user saw, and a preferred agent was eligible.
SentFromList ==
    form # None =>
        /\ form.kind = "todo" => form.assign \in EligibleAgents(roster, form.draft.complexity) \cup {None}
        /\ form.kind = "add" => form.draft.model \in models \cup {None}

EditorSafe == OthersFieldsSurvive /\ SentFromList
=============================================================================
