------------------------------ MODULE WikiPage ------------------------------
(***************************************************************************)
(* The Wiki page (pages/Wiki/index.tsx) over the vault hooks               *)
(* (hooks/useVault.ts): which page of which vault is shown, as the route,  *)
(* the sidebar and three effects decide, and the editor's draft.  A text   *)
(* is known by the page and version it was loaded from: texts of two pages *)
(* are never equal, except that a page that has not come shows the blank.  *)
(***************************************************************************)
EXTENDS Naturals, Sequences, FiniteSets

CONSTANTS
    Vaults,       \* the vaults of the workspace
    Topics,
    None,
    MaxWrites,    \* bound: versions written, by all
    MaxSaves,     \* bound: saves and reverts
    MaxVisits     \* bound: pages opened, entries of the browser's history

VARIABLES
    pages,        \* the server: [Slots -> [n: version, 0 for no page, from: what it was typed over]]
    writes,
    projectId, topic,
    route,        \* the topic of the address, or None
    history,      \* the addresses to go back to
    projectsLoaded, lists,   \* the vaults' lists of topics that have come, None before
    copies,       \* the cached text of each page, None before it has come
    tab, draft,   \* the editor's text
    saves         \* calls of vault:write_page and vault:revert

wikiVars == <<pages, writes, projectId, topic, route, history, projectsLoaded, lists, copies, tab, draft, saves>>

Slots == Vaults \X Topics
Blank == [slot |-> None, n |-> 0]
Text(s, n) == [slot |-> s, n |-> n]
NoDraft == [base |-> Blank, typed |-> FALSE]
FirstOf(S) == CHOOSE x \in S : TRUE
TopicsOf(v) == {t \in Topics : pages[<<v, t>>].n > 0}

\* The address, the stored vault and the server's pages are arbitrary; nothing has come yet.
WikiInit ==
    /\ pages \in [Slots -> {[n |-> k, from |-> Blank] : k \in 0..1}]
    /\ writes = 0
    /\ projectId \in Vaults \cup {None}
    /\ route \in Topics \cup {None} /\ topic = route
    /\ history = <<>>
    /\ projectsLoaded = FALSE /\ lists = [v \in Vaults |-> None]
    /\ copies = [s \in Slots |-> None]
    /\ tab = "Read" /\ draft = NoDraft
    /\ saves = <<>>

-----------------------------------------------------------------------------
(* The effects.  nav is [project, topic]; addr, ready and ls are the address, whether the
   vaults have come, and the lists. *)

Listed(ls, v) == IF ls[v] = None THEN {} ELSE ls[v]

\* Keeps the active vault among those of the workspace: resolveActiveProjectId.
KeepVault(nav, ready) == IF ready /\ nav.project \notin Vaults THEN FirstOf(Vaults) ELSE nav.project

\* The deep link, else a page on load; both see the render before any of them ran, and
\* the last to set the vault wins.
Effects(nav, addr, ready, ls) ==
    LET owners(t) == IF ready THEN {v \in Vaults : t \in Listed(ls, v)} ELSE {}
        filled == IF ready THEN {v \in Vaults : Listed(ls, v) # {}} ELSE {}
        target == IF nav.project \in filled THEN nav.project ELSE FirstOf(filled) IN
    IF addr # None /\ addr # nav.topic
    THEN [topic   |-> addr,
          project |-> IF owners(addr) # {} THEN FirstOf(owners(addr)) ELSE KeepVault(nav, ready)]
    ELSE IF addr = None /\ nav.topic = None /\ filled # {}
    THEN [topic |-> FirstOf(ls[target]), project |-> target]
    ELSE [nav EXCEPT !.project = KeepVault(nav, ready)]

\* Every render runs them again until nothing changes.
Settled(nav, addr, ready, ls) ==
    Effects(Effects(Effects(nav, addr, ready, ls), addr, ready, ls), addr, ready, ls)

Shown(nav, cs) ==
    IF nav.project # None /\ nav.topic # None /\ cs[<<nav.project, nav.topic>>] # None
    THEN cs[<<nav.project, nav.topic>>]
    ELSE Blank

Here == [project |-> projectId, topic |-> topic]

\* Mutant: the editor takes the text only when it is mounted.
DraftOnMount(nav, tb, cs) ==
    IF tb # "Edit" THEN NoDraft
    ELSE IF tab # "Edit" THEN [base |-> Shown(nav, cs), typed |-> FALSE]
    ELSE draft

\* EditTab: the text is taken when the editor is mounted and whenever the page's text
\* changes, what was typed is then lost; leaving the tab unmounts it.
DraftAfter(nav, tb, cs) ==
    IF tb # "Edit" THEN NoDraft
    ELSE IF tab # "Edit" \/ Shown(nav, cs) # Shown(Here, copies) THEN [base |-> Shown(nav, cs), typed |-> FALSE]
    ELSE draft

\* A render with these values, and the effects it runs.
Render(nav, addr, ready, ls, cs, tb) ==
    LET done == Settled(nav, addr, ready, ls) IN
    /\ projectId' = done.project /\ topic' = done.topic
    /\ route' = addr /\ projectsLoaded' = ready /\ lists' = ls /\ copies' = cs /\ tab' = tb
    /\ draft' = DraftAfter(done, tb, cs)

-----------------------------------------------------------------------------
(* Answers. *)

ProjectsCome ==
    /\ ~projectsLoaded
    /\ Render(Here, route, TRUE, lists, copies, tab)
    /\ UNCHANGED <<pages, writes, history, saves>>

\* useWorkspaceVaultPages: one query for each vault, asked again when it is stale.
ListComes(v) ==
    /\ projectsLoaded /\ lists[v] # TopicsOf(v)
    /\ Render(Here, route, TRUE, [lists EXCEPT ![v] = TopicsOf(v)], copies, tab)
    /\ UNCHANGED <<pages, writes, history, saves>>

\* useVaultPage: the page that is shown, asked again when it is stale; a page that does
\* not exist is an error and leaves the copy alone.
PageComes ==
    /\ projectId # None /\ topic # None
    /\ LET s == <<projectId, topic>> IN
       /\ pages[s].n > 0 /\ copies[s] # Text(s, pages[s].n)
       /\ Render(Here, route, projectsLoaded, lists, [copies EXCEPT ![s] = Text(s, pages[s].n)], tab)
    /\ UNCHANGED <<pages, writes, history, saves>>

-----------------------------------------------------------------------------
(* Navigation. *)

\* A wiki link of the page that is read, to any topic of the viewed vault.
InReadTab(v) == v = projectId /\ tab = "Read"

\* openPage: a row of the picker or of the sidebar, or a wiki link.
OpenPage(v, t) ==
    /\ Len(history) < MaxVisits
    /\ t \in Listed(lists, v) \/ InReadTab(v)
    /\ history' = Append(history, route)
    /\ Render([project |-> v, topic |-> t], t, projectsLoaded, lists, copies, "Read")
    /\ UNCHANGED <<pages, writes, saves>>

\* The browser's back button, to an address of the same route: the page stays mounted.
GoBack ==
    /\ history # <<>> /\ history[Len(history)] # None /\ route # None
    /\ history' = SubSeq(history, 1, Len(history) - 1)
    /\ Render(Here, history[Len(history)], projectsLoaded, lists, copies, tab)
    /\ UNCHANGED <<pages, writes, saves>>

PickTab(tb) ==
    /\ tb # tab /\ (tb = "Edit" => topic # None)
    /\ Render(Here, route, projectsLoaded, lists, copies, tb)
    /\ UNCHANGED <<pages, writes, history, saves>>

-----------------------------------------------------------------------------
(* Editing. *)

Type ==
    /\ tab = "Edit" /\ ~draft.typed
    /\ draft' = [draft EXCEPT !.typed = TRUE]
    /\ UNCHANGED <<pages, writes, projectId, topic, route, history, projectsLoaded, lists, copies, tab, saves>>

Pending(kind) == \E i \in DOMAIN saves : saves[i].kind = kind /\ saves[i].stage # "done"

Send(kind, base) ==
    /\ projectId # None /\ topic # None
    /\ ~Pending(kind) /\ Len(saves) < MaxSaves
    /\ saves' = Append(saves, [kind |-> kind, slot |-> <<projectId, topic>>, base |-> base, stage |-> "sent"])
    /\ UNCHANGED <<pages, writes, projectId, topic, route, history, projectsLoaded, lists, copies, tab, draft>>

\* Save writes the text for the vault and topic now shown, over whatever is there: the
\* page is not asked whether it changed.
Save == tab = "Edit" /\ Send("write", draft.base)

\* The History tab restores an earlier version of the page.
Revert == tab = "History" /\ \E n \in 1..MaxWrites :
    /\ projectId # None /\ topic # None /\ n < pages[<<projectId, topic>>].n
    /\ Send("revert", Text(<<projectId, topic>>, n))

SaveServed(i) ==
    /\ saves[i].stage = "sent"
    /\ writes < MaxWrites /\ writes' = writes + 1
    /\ pages' = [pages EXCEPT ![saves[i].slot] = [n |-> @.n + 1, from |-> saves[i].base]]
    /\ saves' = [saves EXCEPT ![i].stage = "served"]
    /\ UNCHANGED <<projectId, topic, route, history, projectsLoaded, lists, copies, tab, draft>>

\* Its answer, which makes the vault's queries stale, or an error; the editor stays as it is.
SaveReturns(i) ==
    /\ saves[i].stage \in {"sent", "served"}
    /\ saves' = [saves EXCEPT ![i].stage = "done"]
    /\ UNCHANGED <<pages, writes, projectId, topic, route, history, projectsLoaded, lists, copies, tab, draft>>

\* An agent or another user writes a page.
ForeignWrite(s) ==
    /\ writes < MaxWrites /\ writes' = writes + 1
    /\ pages' = [pages EXCEPT ![s] = [n |-> @.n + 1, from |-> Blank]]
    /\ UNCHANGED <<projectId, topic, route, history, projectsLoaded, lists, copies, tab, draft, saves>>

WikiNext ==
    \/ ProjectsCome \/ PageComes \/ GoBack \/ Type \/ Save \/ Revert
    \/ \E v \in Vaults : ListComes(v) \/ \E t \in Topics : OpenPage(v, t)
    \/ \E tb \in {"Read", "Edit", "History"} : PickTab(tb)
    \/ \E i \in DOMAIN saves : SaveServed(i) \/ SaveReturns(i)
    \/ \E s \in Slots : ForeignWrite(s)

WikiSpec == WikiInit /\ [][WikiNext]_wikiVars

-----------------------------------------------------------------------------
(* Properties. *)

\* Neither the editor, which outlives a change of the address, nor the history tab ever
\* writes to a page a text that was loaded from another, as long as the texts of two pages
\* differ: the editor's effect is keyed by the text, and a draft begun on one of two equal
\* pages would stay when the address changes to the other.
TextStaysOnItsPage ==
    \A s \in Slots : pages[s].from.slot \in {None, s}

\* "Deep link /wiki/:topic — select the topic and align the active vault to the first
\* vault that contains it" (pages/Wiki/index.tsx:380): once everything has come, the vault
\* that is viewed has the topic of the address, if any vault has.
DeepLinkAligned ==
    /\ projectsLoaded /\ (\A v \in Vaults : lists[v] # None)
    /\ route # None /\ (\E v \in Vaults : route \in lists[v])
    => projectId # None /\ route \in lists[projectId]
=============================================================================
