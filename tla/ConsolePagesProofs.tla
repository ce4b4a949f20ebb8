-------------------------- MODULE ConsolePagesProofs --------------------------
(***************************************************************************)
(* Theorems about the pages of ConsolePages, one for each property of its  *)
(* run: the inbox; the agents' queue, dialogs and models; the scheduled    *)
(* runs; the reports; the query cache and the selection of workspace and   *)
(* vault; the wiki; the editor of extracted text; the organisation's       *)
(* people, board and tags.  Every page has an inductive invariant of its   *)
(* own, over its own steps; the last lines of a theorem carry it over to   *)
(* the specification of all pages.                                         *)
(***************************************************************************)
EXTENDS ConsolePages, SequenceTheorems, FiniteSetTheorems, TLAPS

-----------------------------------------------------------------------------
(* What each page sees of the whole: its own steps, and no others.         *)

LEMMA InboxPageOpens == PagesInit /\ onPage = "inbox" => InboxInit
  BY DEF PagesInit

LEMMA InboxPageMoves ==
    ASSUME [PagesNext]_pagesVars, onPage' = "inbox"
    PROVE  onPage = "inbox" /\ [InboxNext]_inboxVars
  BY DEF PagesNext, pagesVars, inboxVars, notes, serverRead, inboxStored, readIds, told,
         loaded, seen

LEMMA TodoPageOpens == PagesInit /\ onPage = "todo" => TodoPageInit
  BY DEF PagesInit

LEMMA TodoPageMoves ==
    ASSUME [PagesNext]_pagesVars, onPage' = "todo"
    PROVE  onPage = "todo" /\ [TodoPageNext]_todoPageVars
  BY DEF PagesNext, pagesVars, todoPageVars, drawerVars, todos, moves, listed, listFetch,
         menuId, openId, copy, draft, texts, queueLock, queueAction, acts, continued

LEMMA RunsPageOpens == PagesInit /\ onPage = "runs" => ScheduledInit
  BY DEF PagesInit

LEMMA RunsPageMoves ==
    ASSUME [PagesNext]_pagesVars, onPage' = "runs"
    PROVE  onPage = "runs" /\ [ScheduledNext]_schedVars
  BY DEF PagesNext, pagesVars, schedVars, clock, schedules, skips, ran, occurrences,
         occFetch, occError, schedCalls, editing, touches, changed

LEMMA ReportPageOpens == PagesInit /\ onPage = "report" => ReportInit
  BY DEF PagesInit

LEMMA ReportPageMoves ==
    ASSUME [PagesNext]_pagesVars, onPage' = "report"
    PROVE  onPage = "report" /\ [ReportNext]_reportVars
  BY DEF PagesNext, pagesVars, reportVars, dialogVars, historyVars, headerRun, hasAgent,
         dialog, dialogs, sends, closing, reports, filter, page, astray, answers, fetching,
         shown, clicks

LEMMA CachePageOpens == PagesInit /\ onPage = "cache" => CacheInit
  BY DEF PagesInit

LEMMA CachePageMoves ==
    ASSUME [PagesNext]_pagesVars, onPage' = "cache"
    PROVE  onPage = "cache" /\ [CacheNext]_cacheVars
  BY DEF PagesNext, pagesVars, cacheVars, watched, truth, data, marked, aged, failed,
         mounted, fetch, overtaken, calls, own, used

LEMMA WikiPageOpens == PagesInit /\ onPage = "wiki" => WikiTab!WikiInit
  BY DEF PagesInit

LEMMA WikiPageMoves ==
    ASSUME [PagesNext]_pagesVars, onPage' = "wiki"
    PROVE  onPage = "wiki" /\ [WikiTab!WikiNext]_(WikiTab!wikiVars)
  BY DEF PagesNext, pagesVars, WikiTab!wikiVars, pages, writes, projectId, topic, route,
         history, projectsLoaded, lists, copies, tab, wikiDraft, saves

LEMMA SourcePageOpens == PagesInit /\ onPage = "source" => Source!SourceInit
  BY DEF PagesInit

LEMMA SourcePageMoves ==
    ASSUME [PagesNext]_pagesVars, onPage' = "source"
    PROVE  onPage = "source" /\ [Source!SourceNext]_(Source!sourceVars)
  BY DEF PagesNext, pagesVars, Source!sourceVars, content, condition, sourceListed,
         sourceCopy, asked, answer, chosen, sourceTab, startEditing, body, sourceSaves,
         removal, listStale, sourceMoves

LEMMA OrgPageOpens == PagesInit /\ onPage = "org" => Staff!OrgInit
  BY DEF PagesInit

LEMMA OrgPageMoves ==
    ASSUME [PagesNext]_pagesVars, onPage' = "org"
    PROVE  onPage = "org" /\ [Staff!OrgNext]_(Staff!orgVars)
  BY DEF PagesNext, pagesVars, Staff!orgVars, known, held, inGroup, invites, orgListed,
         rowScope, orgCalls, removed

LEMMA BoardPageOpens == PagesInit /\ onPage = "board" => Board!BoardInit
  BY DEF PagesInit

LEMMA BoardPageMoves ==
    ASSUME [PagesNext]_pagesVars, onPage' = "board"
    PROVE  onPage = "board" /\ [Board!BoardNext]_(Board!vars)
  BY DEF PagesNext, pagesVars, Board!vars, vaults, roles, board, drag, over, ctx, boardDraft,
         boardCalls, boardForeign, boardTouches

LEMMA TagsPageOpens == PagesInit /\ onPage = "tags" => Manager!TagsInit
  BY DEF PagesInit

LEMMA TagsPageMoves ==
    ASSUME [PagesNext]_pagesVars, onPage' = "tags"
    PROVE  onPage = "tags" /\ [Manager!TagsNext]_(Manager!vars)
  BY DEF PagesNext, pagesVars, Manager!vars, tagged, names, tagEditing, mergeFrom, mergeTo,
         confirming, renames, deletion, tagCalls, tagForeign, edits, stripped

LEMMA EditorPageOpens == PagesInit /\ onPage = "editor" => Editor!EditorInit
  BY DEF PagesInit

LEMMA EditorPageMoves ==
    ASSUME [PagesNext]_pagesVars, onPage' = "editor"
    PROVE  onPage = "editor" /\ [Editor!EditorNext]_(Editor!editorVars)
  BY DEF PagesNext, pagesVars, Editor!editorVars, agents, ready, editorForeign, editorEdits,
         editorSaves, roster, models, manages, form, saving

LEMMA RegistryPageOpens == PagesInit /\ onPage = "registry" => Registry!ModelsInit
  BY DEF PagesInit

LEMMA RegistryPageMoves ==
    ASSUME [PagesNext]_pagesVars, onPage' = "registry"
    PROVE  onPage = "registry" /\ [Registry!ModelsNext]_(Registry!modelVars)
  BY DEF PagesNext, pagesVars, Registry!modelVars, registry, rows, formMode, formKey, typedKey,
         saveLock, testLock, rowLock, save, test, rowCall, testResults, ownVersion, changes, opens

LEMMA SelectionPageOpens == PagesInit /\ onPage = "selection" => Selection!SelectionInit
  BY DEF PagesInit

LEMMA SelectionPageMoves ==
    ASSUME [PagesNext]_pagesVars, onPage' = "selection"
    PROVE  onPage = "selection" /\ [Selection!SelectionNext]_(Selection!vars)
  BY DEF PagesNext, pagesVars, Selection!vars, user, me, wsList, loadedVaults, activeWs,
         activeVault, loadedScope, stored, rendered, turns

-----------------------------------------------------------------------------
(* The inbox.                                                              *)

ReadTypes ==
    /\ readIds \in [BrowserTabs -> SUBSET Nat]
    /\ loaded \in [BrowserTabs -> [Views -> SUBSET Nat]]
\* What a list shows was seen, so what any tab marks was.
ShownIsSeen == \A t \in BrowserTabs, v \in Views : loaded[t][v] \subseteq seen
ReadInv == ReadTypes /\ ShownIsSeen /\ UnseenStaysUnread /\ inboxStored \subseteq Nat /\ notes \in Nat

\* A tab marks what some list has shown, or takes marks back.
LEMMA MarksSeen ==
    ASSUME ReadInv, NEW t \in BrowserTabs, NEW ids \in SUBSET Nat, ids \subseteq seen, Persist(t, ids),
           UNCHANGED <<notes, loaded, seen>>
    PROVE  ReadInv'
  <1>1. readIds' = [readIds EXCEPT ![t] = ids] /\ inboxStored' = ids
    BY DEF Persist
  <1>2. ReadTypes'
    BY <1>1 DEF ReadInv, ReadTypes
  <1>3. UnseenStaysUnread'
    BY <1>1 DEF ReadInv, ReadTypes, UnseenStaysUnread
  <1> QED BY <1>1, <1>2, <1>3 DEF ReadInv, ShownIsSeen

LEMMA InboxReads == InboxInit => ReadInv
  BY DEF InboxInit, ReadInv, ReadTypes, ShownIsSeen, UnseenStaysUnread

LEMMA ReadStep ==
    ASSUME ReadInv, [InboxNext]_inboxVars PROVE ReadInv'
  <1> USE DEF ReadInv
  <1>1. CASE UNCHANGED inboxVars
    BY <1>1 DEF inboxVars, ReadTypes, ShownIsSeen, UnseenStaysUnread
  <1>2. CASE Notified
    BY <1>2 DEF Notified, ReadTypes, ShownIsSeen, UnseenStaysUnread
  <1>3. ASSUME NEW t \in BrowserTabs, StorageEvent(t) PROVE ReadInv'
    <2>1. readIds' = [readIds EXCEPT ![t] = inboxStored] /\ UNCHANGED <<notes, inboxStored, loaded, seen>>
      BY <1>3 DEF StorageEvent
    <2> QED BY <2>1 DEF ReadTypes, ShownIsSeen, UnseenStaysUnread
  <1>4. ASSUME NEW t \in BrowserTabs, RestoreAll(t) PROVE ReadInv'
    BY <1>4, MarksSeen DEF RestoreAll
  <1>5. ASSUME NEW t \in BrowserTabs, NEW v \in Views, Load(t, v) PROVE ReadInv'
    <2> DEFINE list == [loaded[t] EXCEPT ![v] = Newest(v)]
    <2>1. Newest(v) \subseteq Nat
      BY DEF Newest
    <2>2. loaded' = [loaded EXCEPT ![t] = list] /\ seen' = seen \cup Newest(v)
          /\ UNCHANGED <<notes, inboxStored, readIds>>
      BY <1>5 DEF Load
    <2>3. list \in [Views -> SUBSET Nat] /\ \A w \in Views : list[w] = IF w = v THEN Newest(v) ELSE loaded[t][w]
      BY <2>1 DEF ReadTypes
    <2> HIDE DEF list
    <2>4. ReadTypes'
      BY <2>2, <2>3 DEF ReadTypes
    <2>5. ASSUME NEW u \in BrowserTabs, NEW w \in Views PROVE loaded'[u][w] \subseteq seen'
      <3>1. loaded'[u] = IF u = t THEN list ELSE loaded[u]
        BY <2>2 DEF ReadTypes
      <3>2. loaded[u][w] \subseteq seen
        BY DEF ShownIsSeen
      <3> QED BY <2>2, <2>3, <3>1, <3>2
    <2> QED BY <2>2, <2>4, <2>5 DEF ShownIsSeen, UnseenStaysUnread
  <1>6. ASSUME NEW t \in BrowserTabs, NEW v \in Views, MarkAll(t, v) PROVE ReadInv'
    <2>1. loaded[t][v] \in SUBSET Nat /\ loaded[t][v] \subseteq seen
      BY DEF ReadTypes, ShownIsSeen
    <2> QED BY <1>6, <2>1, MarksSeen DEF MarkAll
  <1>7. ASSUME NEW t \in BrowserTabs, NEW v \in Views, NEW i, Toggle(t, v, i) PROVE ReadInv'
    <2>1. loaded[t][v] \in SUBSET Nat /\ loaded[t][v] \subseteq seen /\ i \in loaded[t][v]
      BY <1>7 DEF ReadTypes, ShownIsSeen, Toggle
    <2> PICK ids : ids = IF i \in readIds[t] THEN inboxStored \ {i} ELSE inboxStored \cup {i}
      OBVIOUS
    <2>2. ids \in SUBSET Nat /\ ids \subseteq seen
      BY <2>1 DEF UnseenStaysUnread
    <2> QED BY <1>7, <2>2, MarksSeen DEF Toggle
  <1> QED BY <1>1, <1>2, <1>3, <1>4, <1>5, <1>6, <1>7 DEF InboxNext

\* "Mark all as read" and every toggle touch only notifications that some list has shown
\* (lib/inbox.ts, useInboxRead): what came since, and what another tab has not heard of,
\* stays unread, for any tabs and any lag of their storage events.
THEOREM UnseenUnread == PagesSpec => []InboxSafe
  <1> DEFINE Inv == onPage = "inbox" => ReadInv
  <1>1. PagesInit => Inv
    BY InboxPageOpens, InboxReads
  <1>2. Inv /\ [PagesNext]_pagesVars => Inv'
    <2> SUFFICES ASSUME Inv, [PagesNext]_pagesVars, onPage' = "inbox" PROVE ReadInv'
      OBVIOUS
    <2> QED BY InboxPageMoves, ReadStep
  <1>3. Inv => InboxSafe
    BY DEF ReadInv, InboxSafe
  <1> QED BY <1>1, <1>2, <1>3, PTL DEF PagesSpec

-----------------------------------------------------------------------------
(* The todo queue. *)

TodoRows == [status : {"gone", "queued", "running"} \cup Terminal, cancel : BOOLEAN, priority : BOOLEAN]
ActRows == [todo : Todos, op : {"stop", "priority", "remove", "rerun"}, was : BOOLEAN,
            stage : {"sent", "served", "refreshing", "done"}, ok : BOOLEAN]
TextRows == [todo : Todos, text : Nat \cup {None},
             stage : {"sent", "served", "refreshing", "done"}, ok : BOOLEAN]
QueueActions == [todo : Todos, kind : {"mutation", "stop-convergence"}, pending : BOOLEAN]

TodoPageTypes ==
    /\ todos \in [Todos -> TodoRows] /\ listed \in [Todos -> TodoRows]
    /\ acts \in Seq(ActRows) /\ continued \in Seq(TextRows)
    /\ queueAction \in QueueActions \cup {None} /\ queueLock \in BOOLEAN
    /\ texts \in Nat /\ draft \in Nat \cup {None} /\ openId \in Todos \cup {None}

\* A call that is out has the lock and its action is the one shown; no two are.
ActHasLock ==
    \A i \in DOMAIN acts : acts[i].stage # "done" =>
        /\ queueLock /\ queueAction # None /\ queueAction.kind = "mutation"
        /\ \A j \in DOMAIN acts : acts[j].stage # "done" => j = i

\* Texts are numbered, and the one in the box was not sent, failed, or is out.
TextsNumbered ==
    /\ \A i \in DOMAIN continued : continued[i].text \in 1..texts
    /\ draft # None => draft \in 1..texts
DraftOut ==
    draft # None => \A i \in DOMAIN continued :
        continued[i].text = draft => continued[i].stage # "done" \/ ~continued[i].ok

TodoPageInv == TodoPageTypes /\ LockHasHolder /\ ActHasLock /\ TextsNumbered /\ DraftOut /\ ContinuedOnce

LEMMA TodoPageStart == TodoPageInit => TodoPageInv
  <1> SUFFICES ASSUME TodoPageInit PROVE TodoPageInv
    OBVIOUS
  <1>1. [Fresh EXCEPT !.status = "queued"] \in TodoRows /\ [Fresh EXCEPT !.status = "done"] \in TodoRows
    BY DEF Fresh, TodoRows, Terminal
  <1>2. todos \in [Todos -> TodoRows]
    BY <1>1 DEF TodoPageInit
  <1>3. /\ listed = todos /\ acts = <<>> /\ continued = <<>> /\ DOMAIN acts = {} /\ DOMAIN continued = {}
        /\ queueAction = None /\ queueLock = FALSE /\ texts = 0 /\ draft = None /\ openId = None
    BY DEF TodoPageInit
  <1>4. TodoPageTypes
    <2>1. acts \in Seq(ActRows) /\ continued \in Seq(TextRows)
      BY <1>3
    <2>2. queueLock \in BOOLEAN /\ queueAction \in QueueActions \cup {None}
      BY <1>3
    <2>3. texts \in Nat /\ draft \in Nat \cup {None} /\ openId \in Todos \cup {None}
      BY <1>3
    <2> QED BY <1>2, <1>3, <2>1, <2>2, <2>3, Zenon DEF TodoPageTypes
  <1> QED BY <1>3, <1>4 DEF TodoPageInv, LockHasHolder, ActHasLock, TextsNumbered, DraftOut, ContinuedOnce

\* What the texts say is kept by every step that leaves them alone, or clears the box.
TextsKept == UNCHANGED <<texts, continued>> /\ draft' \in {draft, None} /\ openId' \in {openId, None} \cup Todos
LEMMA TextsStay ==
    ASSUME TodoPageInv, TextsKept
    PROVE  TextsNumbered' /\ DraftOut' /\ ContinuedOnce' /\ continued' \in Seq(TextRows)
           /\ texts' \in Nat /\ draft' \in Nat \cup {None} /\ openId' \in Todos \cup {None}
  BY DEF TodoPageInv, TodoPageTypes, TextsNumbered, DraftOut, ContinuedOnce, TextsKept

\* So is what the lock says by those that leave lock, calls and list alone.
LockKept == UNCHANGED <<queueLock, queueAction, acts, listed>>
LEMMA LockStays ==
    ASSUME TodoPageInv, LockKept
    PROVE  LockHasHolder' /\ ActHasLock' /\ acts' \in Seq(ActRows) /\ queueAction' \in QueueActions \cup {None}
           /\ queueLock' \in BOOLEAN /\ listed' \in [Todos -> TodoRows]
  BY DEF TodoPageInv, TodoPageTypes, LockHasHolder, ActHasLock, LockKept, Idle

LEMMA Conserved ==
    ASSUME TodoPageInv, TextsKept, LockKept, todos' \in [Todos -> TodoRows]
    PROVE  TodoPageInv'
  BY TextsStay, LockStays DEF TodoPageInv, TodoPageTypes
LEMMA ConservedTodos ==
    ASSUME TodoPageInv, TextsKept, LockKept, UNCHANGED todos
    PROVE  TodoPageInv'
  BY Conserved DEF TodoPageInv, TodoPageTypes

LEMMA RowChange ==
    ASSUME NEW list \in [Todos -> TodoRows], NEW t \in Todos, NEW s \in {"gone", "queued", "running"} \cup Terminal,
           NEW b \in BOOLEAN
    PROVE  /\ [list EXCEPT ![t].status = s] \in [Todos -> TodoRows]
           /\ [list EXCEPT ![t].status = s, ![t].cancel = b] \in [Todos -> TodoRows]
           /\ [list EXCEPT ![t].cancel = b] \in [Todos -> TodoRows]
           /\ [list EXCEPT ![t].priority = b] \in [Todos -> TodoRows]
           /\ [list EXCEPT ![t] = Gone] \in [Todos -> TodoRows]
  BY DEF TodoRows, Gone

\* A call of the queue's that moves on, but does not end.
LEMMA ActGoesOn ==
    ASSUME TodoPageInv, TextsKept, NEW i \in DOMAIN acts, acts[i].stage # "done",
           NEW stage \in {"served", "refreshing"}, NEW ok \in BOOLEAN,
           acts' = [acts EXCEPT ![i] = [acts[i] EXCEPT !.stage = stage, !.ok = ok]],
           todos' \in [Todos -> TodoRows], UNCHANGED <<queueLock, queueAction, listed>>
    PROVE  TodoPageInv'
  <1> DEFINE row == [acts[i] EXCEPT !.stage = stage, !.ok = ok]
  <1>1. acts[i] \in ActRows
    BY DEF TodoPageInv, TodoPageTypes
  <1>2. row \in ActRows /\ row.stage = stage
    BY <1>1 DEF ActRows
  <1> HIDE DEF row
  <1>3. acts' \in Seq(ActRows) /\ DOMAIN acts' = DOMAIN acts
        /\ \A j \in DOMAIN acts : acts'[j] = IF j = i THEN row ELSE acts[j]
    BY <1>2 DEF TodoPageInv, TodoPageTypes, row
  <1>4. ActHasLock'
    BY <1>2, <1>3 DEF TodoPageInv, ActHasLock
  <1>5. LockHasHolder'
    BY <1>2, <1>3 DEF TodoPageInv, LockHasHolder, Idle
  <1> QED BY <1>3, <1>4, <1>5, TextsStay DEF TodoPageInv, TodoPageTypes

\* The one call that was out has ended: none is.
LEMMA ActEnds ==
    ASSUME TodoPageInv, NEW i \in DOMAIN acts, acts[i].stage # "done",
           acts' = [acts EXCEPT ![i].stage = "done"]
    PROVE  acts' \in Seq(ActRows) /\ Idle(acts') /\ acts[i].todo \in Todos
  <1> DEFINE row == [acts[i] EXCEPT !.stage = "done"]
  <1>1. acts[i] \in ActRows
    BY DEF TodoPageInv, TodoPageTypes
  <1>2. row \in ActRows /\ row.stage = "done"
    BY <1>1 DEF ActRows
  <1> HIDE DEF row
  <1>3. acts' \in Seq(ActRows) /\ DOMAIN acts' = DOMAIN acts
        /\ \A j \in DOMAIN acts : acts'[j] = IF j = i THEN row ELSE acts[j]
    BY <1>2 DEF TodoPageInv, TodoPageTypes, row
  <1> QED BY <1>1, <1>2, <1>3 DEF TodoPageInv, ActHasLock, Idle, ActRows

\* With no call out, the lock is what the shown action says it is.
LEMMA LockWithoutCalls ==
    ASSUME Idle(acts), queueLock \in BOOLEAN,
           \/ ~queueLock /\ queueAction = None
           \/ ~queueLock /\ queueAction # None /\ ~queueAction.pending
           \/ /\ queueLock /\ queueAction # None /\ queueAction.pending
              /\ queueAction.kind = "stop-convergence"
              /\ listed[queueAction.todo].status = "running" /\ ~listed[queueAction.todo].cancel
    PROVE  LockHasHolder /\ ActHasLock
  BY DEF LockHasHolder, ActHasLock, Idle

\* A text that is out moves on or ends; one that ended well has left the box.
LEMMA TextGoesOn ==
    ASSUME TodoPageInv, NEW i \in DOMAIN continued, continued[i].stage # "done",
           NEW stage \in {"served", "refreshing", "done"}, NEW ok \in BOOLEAN,
           continued' = [continued EXCEPT ![i] = [continued[i] EXCEPT !.stage = stage, !.ok = ok]],
           draft' = draft \/ draft' = None, stage = "done" /\ ok => draft' = None,
           LockKept, UNCHANGED <<texts, openId>>, todos' \in [Todos -> TodoRows]
    PROVE  TodoPageInv'
  <1> DEFINE row == [continued[i] EXCEPT !.stage = stage, !.ok = ok]
  <1>1. continued[i] \in TextRows
    BY DEF TodoPageInv, TodoPageTypes
  <1>2. row \in TextRows /\ row.stage = stage /\ row.ok = ok /\ row.text = continued[i].text
    BY <1>1 DEF TextRows
  <1> HIDE DEF row
  <1>3. continued' \in Seq(TextRows) /\ DOMAIN continued' = DOMAIN continued
        /\ \A j \in DOMAIN continued : continued'[j] = IF j = i THEN row ELSE continued[j]
    BY <1>2 DEF TodoPageInv, TodoPageTypes, row
  <1>4. TextsNumbered'
    BY <1>2, <1>3 DEF TodoPageInv, TextsNumbered
  <1>5. DraftOut'
    BY <1>2, <1>3 DEF TodoPageInv, DraftOut
  <1>6. ContinuedOnce'
    BY <1>2, <1>3 DEF TodoPageInv, ContinuedOnce
  <1> QED BY <1>3, <1>4, <1>5, <1>6, LockStays DEF TodoPageInv, TodoPageTypes

LEMMA TodoPageStep ==
    ASSUME None \notin QueueActions, TodoPageInv, [TodoPageNext]_todoPageVars PROVE TodoPageInv'
  <1>0. TodoPageTypes
    BY DEF TodoPageInv
  <1> USE DEF drawerVars
  <1>1. CASE UNCHANGED todoPageVars
    BY <1>1, ConservedTodos DEF todoPageVars, TextsKept, LockKept
  <1>2. ASSUME NEW t \in Todos, AgentMoves(t) PROVE TodoPageInv'
    <2>1. todos' \in [Todos -> TodoRows]
      <3>1. \/ todos' = [todos EXCEPT ![t].status = "running"]
            \/ \E s \in Terminal : todos' = [todos EXCEPT ![t].status = s, ![t].cancel = FALSE]
            \/ todos' = [todos EXCEPT ![t].status = "queued", ![t].cancel = FALSE]
        BY <1>2 DEF AgentMoves
      <3>2. todos \in [Todos -> TodoRows]
        BY <1>0 DEF TodoPageTypes
      <3>3. CASE todos' = [todos EXCEPT ![t].status = "running"]
        BY <3>2, <3>3, RowChange
      <3>4. ASSUME NEW s \in Terminal, todos' = [todos EXCEPT ![t].status = s, ![t].cancel = FALSE]
            PROVE  todos' \in [Todos -> TodoRows]
        BY <3>2, <3>4, RowChange
      <3>5. CASE todos' = [todos EXCEPT ![t].status = "queued", ![t].cancel = FALSE]
        BY <3>2, <3>5, RowChange
      <3> QED BY <3>1, <3>3, <3>4, <3>5
    <2> QED BY <1>2, <2>1, Conserved DEF AgentMoves, TextsKept, LockKept
  <1>3. ASSUME NEW t \in Todos, ToggleMenu(t) PROVE TodoPageInv'
    BY <1>3, ConservedTodos DEF ToggleMenu, TextsKept, LockKept
  <1>4. ASSUME NEW t \in Todos, OpenTodo(t) PROVE TodoPageInv'
    BY <1>4, ConservedTodos DEF OpenTodo, TextsKept, LockKept
  <1>5. ASSUME NEW t \in Todos, NEW op \in {"stop", "priority", "remove", "rerun"}, RunQueueAction(t, op)
        PROVE TodoPageInv'
    <2> DEFINE act == [todo |-> t, op |-> op, was |-> listed[t].priority, stage |-> "sent", ok |-> TRUE]
    <2>1. act \in ActRows /\ act.stage = "sent"
      BY <1>0 DEF TodoPageTypes, TodoRows, ActRows
    <2>2. acts' = Append(acts, act) /\ queueLock' = TRUE /\ ~queueLock
          /\ queueAction' = [todo |-> t, kind |-> "mutation", pending |-> TRUE]
          /\ UNCHANGED <<todos, listed>> /\ TextsKept
      BY <1>5 DEF RunQueueAction, TextsKept
    <2> HIDE DEF act
    <2>3. queueAction' \in QueueActions /\ queueAction'.kind = "mutation" /\ queueAction'.pending
      BY <2>2 DEF QueueActions
    <2>4. acts' \in Seq(ActRows) /\ DOMAIN acts' = DOMAIN acts \cup {Len(acts) + 1}
          /\ acts'[Len(acts) + 1] = act /\ \A j \in DOMAIN acts : acts'[j] = acts[j]
      BY <1>0, <2>1, <2>2 DEF TodoPageTypes
    <2>5. \A j \in DOMAIN acts : acts[j].stage = "done"
      BY <2>2 DEF TodoPageInv, ActHasLock
    <2>6. ActHasLock'
      BY <2>1, <2>2, <2>3, <2>4, <2>5 DEF ActHasLock
    <2>7. LockHasHolder'
      BY <2>1, <2>2, <2>3, <2>4 DEF LockHasHolder, Idle
    <2> QED BY <1>0, <2>2, <2>3, <2>4, <2>6, <2>7, TextsStay DEF TodoPageInv, TodoPageTypes
  <1>6. CASE PollList
    BY <1>6, ConservedTodos DEF PollList, TextsKept, LockKept
  <1>7. CASE ListReturns
    <2>1. listed' = todos /\ UNCHANGED <<todos, acts>> /\ TextsKept
          /\ queueLock' = (queueLock /\ ~Converged(todos))
          /\ queueAction' = IF Converged(todos) THEN None ELSE queueAction
      BY <1>7 DEF ListReturns, TextsKept
    <2>2. ActHasLock'
      BY <2>1 DEF TodoPageInv, ActHasLock, Converged
    <2>3. LockHasHolder'
      <3>1. CASE Converged(todos)
        BY <2>1, <3>1 DEF TodoPageInv, LockHasHolder
      <3>2. CASE ~Converged(todos)
        BY <2>1, <3>2 DEF TodoPageInv, TodoPageTypes, LockHasHolder, Converged
      <3> QED BY <3>1, <3>2
    <2>4. queueLock' \in BOOLEAN /\ queueAction' \in QueueActions \cup {None}
      BY <1>0, <2>1 DEF TodoPageTypes
    <2> QED BY <1>0, <2>1, <2>2, <2>3, <2>4, TextsStay DEF TodoPageInv, TodoPageTypes
  <1>8. CASE ListFails
    BY <1>8, ConservedTodos DEF ListFails, TextsKept, LockKept
  <1>9. CASE DismissError
    <2>1. queueAction' = None /\ UNCHANGED <<todos, listed, queueLock, acts>> /\ TextsKept /\ ~queueLock
      BY <1>9 DEF DismissError, TextsKept, TodoPageInv, LockHasHolder
    <2>2. Idle(acts')
      BY <2>1 DEF TodoPageInv, ActHasLock, Idle
    <2>3. LockHasHolder' /\ ActHasLock'
      BY <2>1, <2>2, LockWithoutCalls, <1>0 DEF TodoPageTypes, LockHasHolder, ActHasLock, Idle
    <2> QED BY <1>0, <2>1, <2>3, TextsStay DEF TodoPageInv, TodoPageTypes
  <1>10. ASSUME NEW i \in DOMAIN acts, ActServed(i) PROVE TodoPageInv'
    <2>1. acts[i] \in ActRows /\ acts[i].stage = "sent"
      BY <1>0, <1>10 DEF TodoPageTypes, ActServed
    <2>2. todos' \in [Todos -> TodoRows]
      <3>1. acts[i].todo \in Todos /\ (~acts[i].was) \in BOOLEAN
        BY <2>1 DEF ActRows
      <3>2. Effect(acts[i]) \in [Todos -> TodoRows]
        BY <1>0, <3>1, RowChange DEF TodoPageTypes, Effect, TodoRows
      <3> QED BY <1>0, <1>10, <3>2 DEF TodoPageTypes, ActServed
    <2> PICK ok \in BOOLEAN : ok = ~Refuses(acts[i])
      OBVIOUS
    <2>3. acts' = [acts EXCEPT ![i] = [acts[i] EXCEPT !.stage = "served", !.ok = ok]]
      BY <1>10 DEF ActServed
    <2> QED BY <1>10, <2>1, <2>2, <2>3, ActGoesOn DEF ActServed, TextsKept
  <1>11. ASSUME NEW i \in DOMAIN acts, ActSucceeds(i) PROVE TodoPageInv'
    <2>1. acts[i] \in ActRows /\ acts[i].stage = "served"
      BY <1>0, <1>11 DEF TodoPageTypes, ActSucceeds
    <2>2. acts' = [acts EXCEPT ![i] = [acts[i] EXCEPT !.stage = "refreshing", !.ok = acts[i].ok]]
      BY <1>11, <2>1 DEF ActSucceeds, ActRows
    <2> QED BY <1>0, <1>11, <2>1, <2>2, ActGoesOn DEF ActSucceeds, TextsKept, TodoPageTypes, ActRows
  <1>12. ASSUME NEW i \in DOMAIN acts, ActFails(i) PROVE TodoPageInv'
    <2>1. acts[i].stage # "done" /\ acts' = [acts EXCEPT ![i].stage = "done"] /\ queueLock' = FALSE
          /\ queueAction' = [todo |-> acts[i].todo, kind |-> "mutation", pending |-> FALSE]
          /\ UNCHANGED <<todos, listed>> /\ TextsKept
      BY <1>12 DEF ActFails, TextsKept
    <2>2. acts' \in Seq(ActRows) /\ Idle(acts') /\ acts[i].todo \in Todos
      BY <2>1, ActEnds
    <2>3. queueAction' \in QueueActions /\ ~queueAction'.pending
      BY <2>1, <2>2 DEF QueueActions
    <2>4. LockHasHolder' /\ ActHasLock'
      BY <2>1, <2>2, <2>3 DEF LockHasHolder, ActHasLock, Idle
    <2> QED BY <1>0, <2>1, <2>2, <2>3, <2>4, TextsStay DEF TodoPageInv, TodoPageTypes
  <1>13. ASSUME NEW i \in DOMAIN acts, ActSettles(i) PROVE TodoPageInv'
    <2> DEFINE waits == acts[i].op = "stop" /\ listed[acts[i].todo].status = "running" /\ ~listed[acts[i].todo].cancel
    <2>1. acts[i].stage # "done" /\ acts' = [acts EXCEPT ![i].stage = "done"] /\ queueLock' = waits
          /\ queueAction' = (IF waits THEN [todo |-> acts[i].todo, kind |-> "stop-convergence", pending |-> TRUE]
                             ELSE None)
          /\ UNCHANGED <<todos, listed>> /\ TextsKept
      BY <1>13 DEF ActSettles, TextsKept
    <2>2. acts' \in Seq(ActRows) /\ Idle(acts') /\ acts[i].todo \in Todos
      BY <2>1, ActEnds
    <2>3. LockHasHolder' /\ ActHasLock' /\ queueAction' \in QueueActions \cup {None} /\ queueLock' \in BOOLEAN
      <3>1. CASE waits
        <4>1. queueAction' \in QueueActions /\ queueAction'.pending /\ queueAction'.kind = "stop-convergence"
              /\ queueAction'.todo = acts[i].todo
          BY <2>1, <2>2, <3>1 DEF QueueActions
        <4> QED BY <2>1, <2>2, <3>1, <4>1 DEF LockHasHolder, ActHasLock, Idle
      <3>2. CASE ~waits
        BY <2>1, <2>2, <3>2 DEF LockHasHolder, ActHasLock, Idle
      <3> QED BY <3>1, <3>2
    <2> HIDE DEF waits
    <2> QED BY <1>0, <2>1, <2>2, <2>3, TextsStay DEF TodoPageInv, TodoPageTypes
  <1>14. CASE CloseTodo
    BY <1>14, ConservedTodos DEF CloseTodo, TextsKept, LockKept
  <1>15. CASE CopyRefreshes
    BY <1>15, ConservedTodos DEF CopyRefreshes, TextsKept, LockKept
  <1>16. CASE TypeText
    <2>1. texts' = texts + 1 /\ draft' = texts + 1 /\ LockKept /\ UNCHANGED <<todos, continued, openId>>
      BY <1>16 DEF TypeText, LockKept
    <2>2. TextsNumbered' /\ DraftOut' /\ ContinuedOnce' /\ texts' \in Nat /\ draft' \in Nat
      BY <1>0, <2>1 DEF TodoPageInv, TodoPageTypes, TextsNumbered, DraftOut, ContinuedOnce
    <2> QED BY <1>0, <2>1, <2>2, LockStays DEF TodoPageInv, TodoPageTypes
  <1>17. CASE SendText
    <2> DEFINE row == [todo |-> openId, text |-> draft, stage |-> "sent", ok |-> FALSE]
    <2>1. continued' = Append(continued, row) /\ draft # None /\ Idle(continued) /\ LockKept
          /\ UNCHANGED <<todos, texts, draft, openId>>
      BY <1>17 DEF SendText, LockKept
    <2>2. openId \in Todos
      BY <1>0, <1>17 DEF TodoPageTypes, SendText
    <2>3. row \in TextRows /\ row.text = draft /\ row.stage = "sent" /\ row.ok = FALSE
      BY <1>0, <2>2 DEF TodoPageTypes, TextRows
    <2> HIDE DEF row
    <2>4. continued' \in Seq(TextRows) /\ DOMAIN continued' = DOMAIN continued \cup {Len(continued) + 1}
          /\ continued'[Len(continued) + 1] = row /\ \A j \in DOMAIN continued : continued'[j] = continued[j]
          /\ DOMAIN continued = 1..Len(continued) /\ Len(continued) \in Nat
      BY <1>0, <2>1, <2>3 DEF TodoPageTypes
    <2>5. \A j \in DOMAIN continued : continued[j].text = draft => continued[j].stage = "done" /\ ~continued[j].ok
      BY <2>1 DEF TodoPageInv, DraftOut, Idle
    <2>6. TextsNumbered' /\ DraftOut'
      BY <2>1, <2>3, <2>4, <2>5 DEF TodoPageInv, TextsNumbered, DraftOut
    <2>7. ContinuedOnce'
      BY <2>1, <2>3, <2>4, <2>5 DEF TodoPageInv, ContinuedOnce
    <2> QED BY <1>0, <2>1, <2>4, <2>6, <2>7, LockStays DEF TodoPageInv, TodoPageTypes
  <1>18. ASSUME NEW i \in DOMAIN continued, TextServed(i) PROVE TodoPageInv'
    <2>1. continued[i] \in TextRows
      BY <1>0 DEF TodoPageTypes
    <2> PICK t \in Todos : t = continued[i].todo
      BY <2>1 DEF TextRows
    <2> PICK ended \in BOOLEAN : ended <=> todos[t].status \in Terminal
      OBVIOUS
    <2>4. ended = (todos[t].status \in Terminal)
      OBVIOUS
    <2>2. todos' = (IF ended THEN [todos EXCEPT ![t].status = "queued", ![t].cancel = FALSE] ELSE todos)
          /\ continued' = [continued EXCEPT ![i] = [continued[i] EXCEPT !.stage = "served", !.ok = ended]]
          /\ continued[i].stage # "done" /\ LockKept /\ UNCHANGED <<draft, texts, openId>>
      BY <1>18, <2>4 DEF TextServed, LockKept
    <2>3. todos' \in [Todos -> TodoRows]
      <3>1. todos \in [Todos -> TodoRows]
        BY <1>0 DEF TodoPageTypes
      <3>2. [todos EXCEPT ![t].status = "queued", ![t].cancel = FALSE] \in [Todos -> TodoRows]
        BY <3>1, RowChange
      <3> QED BY <2>2, <3>1, <3>2
    <2> QED BY <2>2, <2>3, TextGoesOn
  <1>19. ASSUME NEW i \in DOMAIN continued, TextSucceeds(i) PROVE TodoPageInv'
    <2>0. continued[i] \in TextRows
      BY <1>0 DEF TodoPageTypes
    <2>1. continued[i] \in TextRows /\ continued[i].ok \in BOOLEAN
      BY <2>0 DEF TextRows
    <2>2. continued' = [continued EXCEPT ![i] = [continued[i] EXCEPT !.stage = "refreshing", !.ok = continued[i].ok]]
          /\ continued[i].stage # "done" /\ LockKept /\ UNCHANGED <<todos, draft, texts, openId>>
      BY <1>19, <2>1 DEF TextSucceeds, LockKept, TextRows
    <2> QED BY <1>0, <2>1, <2>2, TextGoesOn DEF TodoPageTypes
  <1>20. ASSUME NEW i \in DOMAIN continued, TextSettles(i) PROVE TodoPageInv'
    <2>0. continued[i] \in TextRows
      BY <1>0 DEF TodoPageTypes
    <2>1. continued[i] \in TextRows /\ continued[i].ok \in BOOLEAN
      BY <2>0 DEF TextRows
    <2>2. continued' = [continued EXCEPT ![i] = [continued[i] EXCEPT !.stage = "done", !.ok = continued[i].ok]]
          /\ continued[i].stage # "done" /\ LockKept /\ draft' = None /\ UNCHANGED <<todos, texts, openId>>
      BY <1>20, <2>1 DEF TextSettles, LockKept, TextRows
    <2> QED BY <1>0, <2>1, <2>2, TextGoesOn DEF TodoPageTypes
  <1>21. ASSUME NEW i \in DOMAIN continued, TextFails(i) PROVE TodoPageInv'
    <2>1. continued' = [continued EXCEPT ![i] = [continued[i] EXCEPT !.stage = "done", !.ok = FALSE]]
          /\ continued[i].stage # "done" /\ LockKept /\ UNCHANGED <<todos, draft, texts, openId>>
      BY <1>21 DEF TextFails, LockKept
    <2> QED BY <1>0, <2>1, TextGoesOn DEF TodoPageTypes
  <1> QED BY <1>1, <1>2, <1>3, <1>4, <1>5, <1>6, <1>7, <1>8, <1>9, <1>10, <1>11, <1>12, <1>13, <1>14, <1>15,
             <1>16, <1>17, <1>18, <1>19, <1>20, <1>21 DEF TodoPageNext

\* A set whose members are all the same has at most one.
LEMMA AtMostOne ==
    ASSUME NEW S, \A x, y \in S : x = y
    PROVE  Cardinality(S) <= 1
  <1>1. CASE S = {}
    BY <1>1, FS_EmptySet
  <1>2. ASSUME NEW x \in S PROVE Cardinality(S) <= 1
    <2>1. S = {x}
      OBVIOUS
    <2> QED BY <2>1, FS_Singleton
  <1> QED BY <1>1, <1>2

LEMMA TodoPageHolds == TodoPageInv => TodoPageSafe
  <1> SUFFICES ASSUME TodoPageInv PROVE OneQueueAction
    BY DEF TodoPageInv, TodoPageSafe
  <1> DEFINE out == {i \in DOMAIN acts : acts[i].stage # "done"}
  <1>1. \A i, j \in out : i = j
    BY DEF TodoPageInv, ActHasLock
  <1>2. Cardinality(out) <= 1
    BY <1>1, AtMostOne
  <1> QED BY <1>2 DEF OneQueueAction

-----------------------------------------------------------------------------
(* The dialogs of the agents' page.                                        *)

\* The rows the page begins with have a name, a model and a complexity, and None is no model.
RowsFilled == Names # {} /\ Models # {} /\ Complexities # {} /\ None \notin Models

AgentRows == [there : BOOLEAN, busy : BOOLEAN, name : Names, model : Models, complexity : Complexities, enabled : BOOLEAN]
AgentDrafts == [name : Names \cup {None}, model : Models \cup {None}, complexity : Complexities, enabled : BOOLEAN]
AgentForms == [kind : {"add", "configure", "todo"}, agent : Agents \cup {None}, draft : AgentDrafts,
               baseline : AgentDrafts, assign : Agents \cup {None}]
ChangesFit(c) ==
    /\ DOMAIN c \subseteq Editor!Fields
    /\ "name" \in DOMAIN c => c["name"] \in Names
    /\ "model" \in DOMAIN c => c["model"] \in Models
    /\ "complexity" \in DOMAIN c => c["complexity"] \in Complexities
    /\ "enabled" \in DOMAIN c => c["enabled"] \in BOOLEAN

ListTypes ==
    /\ agents \in [Agents -> AgentRows] /\ roster \in [Agents -> AgentRows]
    /\ ready \subseteq Models /\ models \subseteq Models
FormTypes ==
    form # None \/ saving # None => form \in AgentForms /\ (form.kind = "configure" => form.agent \in Agents)
\* A configuration is sent from its own dialog, which stays open for the answer.
UpdateFits ==
    saving # None =>
        /\ DOMAIN saving = {"op", "agent", "changes", "assign", "stage"}
        /\ saving.op = "update" => form.kind = "configure" /\ ChangesFit(saving.changes)
EditorInv == ListTypes /\ FormTypes /\ UpdateFits /\ Editor!EditorSafe

LEMMA ConfigFits ==
    ASSUME NEW r \in AgentRows
    PROVE  Editor!Config(r) \in AgentDrafts /\ Editor!Config(r)["model"] = r.model
  BY DEF Editor!Config, Editor!Fields, AgentRows, AgentDrafts

LEMMA EditorStarts == ASSUME RowsFilled, Editor!EditorInit PROVE EditorInv
  <1> DEFINE first == [there |-> TRUE, busy |-> FALSE, name |-> Editor!FirstOf(Names), model |-> Editor!FirstOf(Models),
                       complexity |-> Editor!FirstOf(Complexities), enabled |-> TRUE]
  <1>1. first \in AgentRows
    BY DEF RowsFilled, AgentRows, Editor!FirstOf
  <1>2. agents = [a \in Agents |-> first]
    BY DEF Editor!EditorInit
  <1> HIDE DEF first
  <1> QED
    BY <1>1, <1>2 DEF Editor!EditorInit, EditorInv, ListTypes, FormTypes, UpdateFits, Editor!EditorSafe,
       Editor!OthersFieldsSurvive, Editor!SentFromList

\* A step that leaves the page as it is, or closes a dialog nobody waits for.
LEMMA PageRests ==
    ASSUME EditorInv, agents' \in [Agents -> AgentRows], ready' \subseteq Models,
           UNCHANGED <<roster, models>>, saving' \in {saving, None},
           form' = form \/ (form' = None /\ saving' = None)
    PROVE  EditorInv'
  BY DEF EditorInv, ListTypes, FormTypes, UpdateFits, Editor!EditorSafe, Editor!OthersFieldsSurvive,
     Editor!SentFromList, Editor!EligibleAgents, Editor!Shown

LEMMA RowEdited ==
    ASSUME NEW r \in AgentRows, NEW f \in Editor!Fields, NEW v \in Editor!Value(f), ready \subseteq Models
    PROVE  [r EXCEPT ![f] = v] \in AgentRows
  <1>1. f \in {"name", "model", "complexity", "enabled"}
    BY DEF Editor!Fields
  <1>2. CASE f = "name"
    BY <1>2 DEF Editor!Value, AgentRows
  <1>3. CASE f = "model"
    BY <1>3 DEF Editor!Value, AgentRows
  <1>4. CASE f = "complexity"
    BY <1>4 DEF Editor!Value, AgentRows
  <1>5. CASE f = "enabled"
    BY <1>5 DEF Editor!Value, AgentRows
  <1> QED BY <1>1, <1>2, <1>3, <1>4, <1>5

LEMMA EditorOthers ==
    ASSUME EditorInv, NEW a \in Agents,
           Editor!OthersMove(a) \/ \E f \in Editor!Fields : Editor!OthersChange(a, f)
    PROVE  EditorInv'
  <1>0. agents \in [Agents -> AgentRows] /\ agents[a] \in AgentRows /\ ready \subseteq Models
    BY DEF EditorInv, ListTypes
  <1>1. agents' \in [Agents -> AgentRows] /\ UNCHANGED <<ready, roster, models, form, saving>>
    <2>1. CASE Editor!OthersMove(a)
      <3> DEFINE busier == ~agents[a].busy /\ agents[a].enabled
      <3>1. agents' = [agents EXCEPT ![a].busy = busier] \/ agents' = [agents EXCEPT ![a].there = FALSE]
        BY <2>1, Zenon DEF Editor!OthersMove
      <3>2. busier \in BOOLEAN
        OBVIOUS
      <3> HIDE DEF busier
      <3>3. PICK b \in BOOLEAN : b = busier
        BY <3>2
      <3>4. agents' = [agents EXCEPT ![a].busy = b] \/ agents' = [agents EXCEPT ![a].there = FALSE]
        BY <3>1, <3>3, Zenon
      <3>5. [agents[a] EXCEPT !.busy = b] \in AgentRows /\ [agents[a] EXCEPT !.there = FALSE] \in AgentRows
        BY <1>0 DEF AgentRows
      <3>6. agents' \in [Agents -> AgentRows]
        BY <1>0, <3>4, <3>5
      <3> QED BY <2>1, <3>6 DEF Editor!OthersMove
    <2>2. ASSUME NEW f \in Editor!Fields, Editor!OthersChange(a, f)
          PROVE  agents' \in [Agents -> AgentRows] /\ UNCHANGED <<ready, roster, models, form, saving>>
      <3>1. PICK v \in Editor!Value(f) : agents' = [agents EXCEPT ![a][f] = v]
        BY <2>2 DEF Editor!OthersChange
      <3> DEFINE row == [agents[a] EXCEPT ![f] = v]
      <3>2. row \in AgentRows
        BY <1>0, RowEdited
      <3>3. agents' = [agents EXCEPT ![a] = row]
        BY <3>1
      <3> HIDE DEF row
      <3> QED BY <1>0, <2>2, <3>2, <3>3 DEF Editor!OthersChange
    <2> QED BY <2>1, <2>2
  <1> QED BY <1>0, <1>1, PageRests

\* A list that the page shows changes under the dialog: the draft keeps what the user chose of it.
LEMMA DialogAdjusted ==
    ASSUME RowsFilled, EditorInv, NEW list \in [Agents -> AgentRows], NEW ms \in SUBSET Models,
           form' = Editor!Adjusted(list, ms), roster' = list, models' = ms, UNCHANGED <<agents, ready, saving>>
    PROVE  EditorInv'
  <1>0. ListTypes /\ FormTypes /\ UpdateFits /\ Editor!OthersFieldsSurvive
    BY DEF EditorInv, Editor!EditorSafe
  <1>1. ListTypes'
    BY <1>0 DEF ListTypes
  <1>2. CASE form' \in {form, None} /\ (saving # None => form' = form)
             /\ (form' # None => form.kind = "configure")
    BY <1>0, <1>1, <1>2 DEF EditorInv, FormTypes, UpdateFits, Editor!EditorSafe, Editor!OthersFieldsSurvive,
       Editor!SentFromList
  <1>3. CASE form # None /\ form.kind \in {"add", "configure"}
             /\ \E m \in Models \cup {None} :
                   /\ form' = [form EXCEPT !.draft.model = m]
                   /\ form.kind = "add" => m \in ms \cup {None}
                   /\ form.kind = "configure" /\ form.draft.model # form.baseline.model => m # form.baseline.model
    <2>1. PICK m \in Models \cup {None} :
             /\ form' = [form EXCEPT !.draft.model = m]
             /\ form.kind = "add" => m \in ms \cup {None}
             /\ form.kind = "configure" /\ form.draft.model # form.baseline.model => m # form.baseline.model
      BY <1>3
    <2>2. form \in AgentForms /\ (form.kind = "configure" => form.agent \in Agents)
      BY <1>0, <1>3 DEF FormTypes
    <2> DEFINE d == [form.draft EXCEPT !.model = m]
    <2>3. d \in AgentDrafts /\ d["model"] = m /\ \A f \in Editor!Fields \ {"model"} : d[f] = form.draft[f]
      BY <2>2 DEF AgentForms, AgentDrafts, Editor!Fields
    <2>4. form' = [form EXCEPT !.draft = d]
      BY <2>1
    <2> HIDE DEF d
    <2>5. form' \in AgentForms /\ form'.draft = d /\ form'.kind = form.kind /\ form'.agent = form.agent
          /\ form'.baseline = form.baseline
      BY <2>2, <2>3, <2>4 DEF AgentForms
    <2>6. FormTypes' /\ UpdateFits'
      BY <1>0, <2>2, <2>5 DEF FormTypes, UpdateFits
    <2>7. Editor!OthersFieldsSurvive'
      <3> SUFFICES ASSUME saving # None, saving.op = "update", NEW f \in DOMAIN saving.changes
                   PROVE  form'.draft[f] # form'.baseline[f]
        BY DEF Editor!OthersFieldsSurvive
      <3>1. form.kind = "configure" /\ f \in Editor!Fields /\ form.draft[f] # form.baseline[f]
        BY <1>0 DEF UpdateFits, ChangesFit, Editor!OthersFieldsSurvive
      <3> QED BY <2>1, <2>3, <2>5, <3>1
    <2>8. Editor!SentFromList'
      BY <1>3, <2>1, <2>3, <2>5 DEF Editor!SentFromList
    <2> QED BY <1>1, <2>6, <2>7, <2>8 DEF EditorInv, Editor!EditorSafe
  <1>4. CASE form # None /\ form.kind = "todo"
    <2>1. PICK p \in Editor!EligibleAgents(list, form.draft.complexity) \cup {None} : form' = [form EXCEPT !.assign = p]
      BY <1>4 DEF Editor!Adjusted
    <2>2. form \in AgentForms /\ p \in Agents \cup {None}
      BY <1>0, <1>4 DEF FormTypes, Editor!EligibleAgents, Editor!Shown
    <2>3. form' \in AgentForms /\ form'.draft = form.draft /\ form'.kind = "todo" /\ form'.baseline = form.baseline
          /\ form'.assign = p
      BY <1>4, <2>1, <2>2 DEF AgentForms
    <2>4. Editor!SentFromList'
      BY <2>1, <2>3 DEF Editor!SentFromList, Editor!EligibleAgents, Editor!Shown
    <2> QED
      BY <1>0, <1>1, <1>4, <2>3, <2>4 DEF EditorInv, FormTypes, UpdateFits, Editor!EditorSafe, Editor!OthersFieldsSurvive
  <1>5. CASE form = None
    <2>1. form' = None
      BY <1>5 DEF Editor!Adjusted
    <2> QED BY <1>2, <1>5, <2>1, <1>0, <1>1 DEF EditorInv, FormTypes, UpdateFits, Editor!EditorSafe,
            Editor!OthersFieldsSurvive, Editor!SentFromList
  <1>6. CASE form # None /\ form.kind = "add"
    <2> DEFINE m == Editor!Revalidated(form.draft.model, None, ms)
    <2>1. form' = [form EXCEPT !.draft.model = m]
      BY <1>6 DEF Editor!Adjusted
    <2>2. m \in ms \cup {None}
      BY DEF Editor!Revalidated
    <2> HIDE DEF m
    <2> QED BY <1>3, <1>6, <2>1, <2>2
  <1>7. CASE form # None /\ form.kind = "configure" /\ list[form.agent].there /\ ~Editor!Conflict(form, list)
    <2> DEFINE kept == list[form.agent].model
               m == Editor!Revalidated(form.draft.model, kept, ms)
    <2>1. form' = [form EXCEPT !.draft.model = m]
      BY <1>7 DEF Editor!Adjusted
    <2>2. form.agent \in Agents /\ form \in AgentForms
      BY <1>0, <1>7 DEF FormTypes
    <2>3. kept \in Models /\ form.baseline.model = kept
      BY <1>7, <2>2, ConfigFits DEF Editor!Conflict, AgentRows
    <2>4. m \in {form.draft.model, None} /\ (m \in Models \cup {None})
      BY <2>2 DEF Editor!Revalidated, AgentForms, AgentDrafts
    <2> HIDE DEF m, kept
    <2>5. form.draft.model # form.baseline.model => m # form.baseline.model
      BY <2>3, <2>4 DEF RowsFilled
    <2> QED BY <1>3, <1>7, <2>1, <2>4, <2>5
  <1>8. CASE form # None /\ form.kind = "configure" /\ ~(list[form.agent].there /\ ~Editor!Conflict(form, list))
    <2>1. form' \in {form, None} /\ (saving # None => form' = form)
      BY <1>8 DEF Editor!Adjusted
    <2> QED BY <1>2, <1>8, <2>1
  <1>9. form # None => form.kind \in {"add", "configure", "todo"}
    BY <1>0 DEF FormTypes, AgentForms
  <1> QED BY <1>4, <1>5, <1>6, <1>7, <1>8, <1>9

\* A dialog opens, or its draft is loaded anew, while no call is out.
LEMMA DialogOpened ==
    ASSUME EditorInv, form' \in AgentForms, UNCHANGED <<agents, ready, roster, models, saving>>, saving = None,
           form'.kind = "configure" => form'.agent \in Agents, Editor!SentFromList'
    PROVE  EditorInv'
  BY DEF EditorInv, ListTypes, FormTypes, UpdateFits, Editor!EditorSafe, Editor!OthersFieldsSurvive

LEMMA DialogOpens ==
    ASSUME RowsFilled, EditorInv,
           Editor!OpenAddAgent \/ Editor!OpenAddTodo \/ \E a \in Agents : Editor!OpenConfigure(a)
    PROVE  EditorInv'
  <1>0. ListTypes
    BY DEF EditorInv
  <1>1. Editor!NewDraft \in AgentDrafts /\ Editor!NewDraft.model = None
    BY DEF Editor!NewDraft, AgentDrafts, RowsFilled, Editor!FirstOf
  <1>2. ASSUME NEW k \in {"add", "configure", "todo"}, NEW a \in Agents \cup {None}, NEW d \in AgentDrafts,
               Editor!OpenForm(k, a, d), k = "configure" => a \in Agents, k = "add" => d.model = None
        PROVE  EditorInv'
    <2>1. form' = [kind |-> k, agent |-> a, draft |-> d, baseline |-> d, assign |-> None]
          /\ UNCHANGED <<agents, ready, roster, models, saving>> /\ saving = None
      BY <1>2 DEF Editor!OpenForm
    <2>2. form' \in AgentForms
      BY <2>1 DEF AgentForms
    <2>3. Editor!SentFromList'
      BY <1>2, <2>1 DEF Editor!SentFromList
    <2> QED BY <1>2, <2>1, <2>2, <2>3, DialogOpened
  <1>3. CASE Editor!OpenAddAgent
    BY <1>1, <1>2, <1>3 DEF Editor!OpenAddAgent
  <1>4. CASE Editor!OpenAddTodo
    BY <1>1, <1>2, <1>4 DEF Editor!OpenAddTodo
  <1>5. ASSUME NEW a \in Agents, Editor!OpenConfigure(a) PROVE EditorInv'
    <2>1. Editor!Config(roster[a]) \in AgentDrafts
      BY <1>0, ConfigFits DEF ListTypes
    <2> QED BY <1>2, <1>5, <2>1 DEF Editor!OpenConfigure
  <1> QED BY <1>3, <1>4, <1>5

LEMMA DialogReloads == ASSUME EditorInv, Editor!ReloadLatest PROVE EditorInv'
  <1>1. form \in AgentForms /\ form.kind = "configure" /\ form.agent \in Agents /\ saving = None
    BY DEF EditorInv, FormTypes, Editor!ReloadLatest
  <1> DEFINE d == Editor!Config(roster[form.agent])
  <1>2. d \in AgentDrafts
    BY <1>1, ConfigFits DEF EditorInv, ListTypes
  <1>3. form' = [form EXCEPT !.draft = d, !.baseline = d] /\ UNCHANGED <<agents, ready, roster, models, saving>>
    BY DEF Editor!ReloadLatest
  <1> HIDE DEF d
  <1>4. form' \in AgentForms /\ form'.kind = "configure" /\ form'.agent = form.agent
    BY <1>1, <1>2, <1>3 DEF AgentForms
  <1> QED BY <1>1, <1>3, <1>4, DialogOpened DEF Editor!SentFromList

LEMMA DraftEdited ==
    ASSUME NEW d \in AgentDrafts, NEW f \in Editor!Fields, ready \subseteq Models, models \subseteq Models,
           NEW v \in (IF f = "model" THEN models ELSE Editor!Value(f))
    PROVE  [d EXCEPT ![f] = v] \in AgentDrafts
  <1>1. f \in {"name", "model", "complexity", "enabled"}
    BY DEF Editor!Fields
  <1>2. CASE f = "name"
    BY <1>2 DEF Editor!Value, AgentDrafts
  <1>3. CASE f = "model"
    BY <1>3 DEF AgentDrafts
  <1>4. CASE f = "complexity"
    BY <1>4 DEF Editor!Value, AgentDrafts
  <1>5. CASE f = "enabled"
    BY <1>5 DEF Editor!Value, AgentDrafts
  <1> QED BY <1>1, <1>2, <1>3, <1>4, <1>5

LEMMA DialogEdited ==
    ASSUME EditorInv, NEW f \in Editor!Fields, Editor!EditField(f)
    PROVE  EditorInv'
  <1>1. form \in AgentForms /\ saving = None /\ (form.kind = "configure" => form.agent \in Agents)
        /\ ready \subseteq Models /\ models \subseteq Models
    BY DEF EditorInv, ListTypes, FormTypes, Editor!EditField, Editor!EditLocked
  <1>2. PICK v \in (IF f = "model" THEN models ELSE Editor!Value(f)) :
           LET d == [form.draft EXCEPT ![f] = v] IN
           form' = [form EXCEPT !.draft = d,
                                !.assign = IF @ \in Editor!EligibleAgents(roster, d.complexity) THEN @ ELSE None]
    BY DEF Editor!EditField
  <1> DEFINE d == [form.draft EXCEPT ![f] = v]
             p == IF form.assign \in Editor!EligibleAgents(roster, d.complexity) THEN form.assign ELSE None
  <1>3. form' = [form EXCEPT !.draft = d, !.assign = p]
    BY <1>2
  <1>4. d \in AgentDrafts /\ (f # "model" => d.model = form.draft.model) /\ (f = "model" => d.model \in models)
    BY <1>1, DraftEdited DEF AgentForms, AgentDrafts, Editor!Fields
  <1>5. p \in Agents \cup {None} /\ p \in Editor!EligibleAgents(roster, d.complexity) \cup {None}
    BY DEF Editor!EligibleAgents, Editor!Shown
  <1> HIDE DEF d, p
  <1>6. form' \in AgentForms /\ form'.kind = form.kind /\ form'.agent = form.agent /\ form'.draft = d /\ form'.assign = p
    BY <1>1, <1>3, <1>4, <1>5 DEF AgentForms
  <1>7. UNCHANGED <<agents, ready, roster, models, saving>>
    BY DEF Editor!EditField
  <1>8. Editor!SentFromList'
    <2>1. form'.kind = "todo" => form'.assign \in Editor!EligibleAgents(roster', form'.draft.complexity) \cup {None}
      BY <1>5, <1>6, <1>7
    <2>2. form'.kind = "add" => form'.draft.model \in models' \cup {None}
      BY <1>4, <1>6, <1>7 DEF EditorInv, Editor!EditorSafe, Editor!SentFromList, Editor!EditField
    <2> QED BY <2>1, <2>2 DEF Editor!SentFromList, Editor!EligibleAgents, Editor!Shown
  <1> QED BY <1>1, <1>6, <1>7, <1>8, DialogOpened

LEMMA DialogPrefers == ASSUME EditorInv, NEW a \in Agents, Editor!PreferAgent(a) PROVE EditorInv'
  <1>1. form \in AgentForms /\ saving = None /\ form.kind = "todo"
    BY DEF EditorInv, FormTypes, Editor!PreferAgent
  <1>2. form' = [form EXCEPT !.assign = a] /\ UNCHANGED <<agents, ready, roster, models, saving>>
        /\ a \in Editor!EligibleAgents(roster, form.draft.complexity)
    BY DEF Editor!PreferAgent
  <1>3. form' \in AgentForms /\ form'.kind = "todo" /\ form'.draft = form.draft /\ form'.assign = a
    BY <1>1, <1>2 DEF AgentForms
  <1>4. Editor!SentFromList'
    BY <1>2, <1>3 DEF Editor!SentFromList, Editor!EligibleAgents, Editor!Shown
  <1> QED BY <1>1, <1>2, <1>3, <1>4, DialogOpened

\* The dialog's call goes out; a configuration with what differs from the draft's own baseline.
LEMMA DialogSends ==
    ASSUME EditorInv, Editor!SubmitAdd \/ Editor!SubmitConfigure \/ Editor!ConfirmDelete \/ Editor!SubmitTodo
    PROVE  EditorInv'
  <1>0. form # None /\ form \in AgentForms /\ (form.kind = "configure" => form.agent \in Agents) /\ ListTypes
        /\ Editor!SentFromList
    BY DEF EditorInv, FormTypes, Editor!EditorSafe, Editor!SubmitAdd, Editor!SubmitConfigure,
       Editor!ConfirmDelete, Editor!SubmitTodo
  <1>1. ASSUME NEW op, NEW c, Editor!Call(op, c),
               op = "update" => form.kind = "configure" /\ ChangesFit(c)
                                /\ \A f \in DOMAIN c : form.draft[f] # form.baseline[f]
        PROVE  EditorInv'
    <2>1. saving' = [op |-> op, agent |-> form.agent, changes |-> c, assign |-> form.assign, stage |-> "sent"]
          /\ UNCHANGED <<agents, ready, roster, models, form>>
      BY <1>1 DEF Editor!Call
    <2>2. UpdateFits' /\ Editor!OthersFieldsSurvive'
      BY <1>1, <2>1 DEF UpdateFits, Editor!OthersFieldsSurvive, ChangesFit
    <2>3. ListTypes' /\ FormTypes' /\ Editor!SentFromList'
      BY <1>0, <2>1 DEF ListTypes, FormTypes, Editor!SentFromList, Editor!EligibleAgents, Editor!Shown
    <2> QED BY <2>2, <2>3 DEF EditorInv, Editor!EditorSafe
  <1>2. CASE Editor!SubmitConfigure
    <2> DEFINE c == Editor!Changes(form.draft, roster[form.agent])
    <2>1. Editor!Call("update", c) /\ form.kind = "configure" /\ Editor!Complete(form.draft)
          /\ Editor!Config(roster[form.agent]) = form.baseline
      BY <1>2 DEF Editor!SubmitConfigure, Editor!Conflict
    <2>2. DOMAIN c \subseteq Editor!Fields /\ \A f \in DOMAIN c : c[f] = form.draft[f]
      BY DEF Editor!Changes
    <2>3. \A f \in DOMAIN c : form.draft[f] # form.baseline[f]
      BY <2>1 DEF Editor!Changes, Editor!Config
    <2>4. ChangesFit(c)
      BY <1>0, <2>1, <2>2 DEF ChangesFit, Editor!Complete, AgentForms, AgentDrafts
    <2> HIDE DEF c
    <2> QED BY <1>1, <2>1, <2>3, <2>4
  <1>3. CASE Editor!SubmitAdd
    BY <1>1, <1>3 DEF Editor!SubmitAdd
  <1>4. CASE Editor!ConfirmDelete
    BY <1>1, <1>4 DEF Editor!ConfirmDelete
  <1>5. CASE Editor!SubmitTodo
    BY <1>1, <1>5 DEF Editor!SubmitTodo
  <1> QED BY <1>2, <1>3, <1>4, <1>5

LEMMA RowUpdated ==
    ASSUME NEW r \in AgentRows, NEW c, ChangesFit(c)
    PROVE  [f \in DOMAIN r |-> IF f \in DOMAIN c THEN c[f] ELSE r[f]] \in AgentRows
  <1>1. r.name \in Names /\ r.model \in Models /\ r.complexity \in Complexities /\ r.enabled \in BOOLEAN
        /\ r.there \in BOOLEAN /\ r.busy \in BOOLEAN
        /\ DOMAIN r = {"there", "busy", "name", "model", "complexity", "enabled"}
    BY DEF AgentRows
  <1>2. "there" \notin DOMAIN c /\ "busy" \notin DOMAIN c
    BY DEF ChangesFit, Editor!Fields
  <1> QED BY <1>1, <1>2 DEF AgentRows, ChangesFit

LEMMA DialogServedBy == ASSUME EditorInv, Editor!SaveServed PROVE EditorInv'
  <1>0. ListTypes /\ FormTypes /\ UpdateFits /\ saving # None
        /\ UNCHANGED <<ready, roster, models, form>>
    BY DEF EditorInv, Editor!SaveServed
  <1>1. PICK s : saving' = [saving EXCEPT !.stage = s]
    BY DEF Editor!SaveServed
  <1>2. DOMAIN saving' = DOMAIN saving /\ saving'.op = saving.op /\ saving'.changes = saving.changes
    BY <1>0, <1>1 DEF UpdateFits
  <1>3. agents' \in [Agents -> AgentRows]
    <2>1. CASE UNCHANGED agents
      BY <1>0, <2>1 DEF ListTypes
    <2>2. CASE agents' = [agents EXCEPT ![saving.agent].there = FALSE]
      <3>1. \A a \in Agents : [agents[a] EXCEPT !.there = FALSE] \in AgentRows
        BY <1>0 DEF ListTypes, AgentRows
      <3> QED BY <1>0, <2>2, <3>1 DEF ListTypes
    <2>3. CASE saving.op = "update"
               /\ agents' = [agents EXCEPT ![saving.agent] = [f \in DOMAIN @ |->
                                IF f \in DOMAIN saving.changes THEN saving.changes[f] ELSE @[f]]]
      <3> DEFINE Updated(r) == [f \in DOMAIN r |-> IF f \in DOMAIN saving.changes THEN saving.changes[f] ELSE r[f]]
      <3>1. \A r \in AgentRows : Updated(r) \in AgentRows
        BY <1>0, <2>3, RowUpdated DEF UpdateFits
      <3>2. agents' = [agents EXCEPT ![saving.agent] = Updated(agents[saving.agent])]
        BY <2>3
      <3> HIDE DEF Updated
      <3> QED BY <1>0, <3>1, <3>2 DEF ListTypes
    <2> QED BY <2>1, <2>2, <2>3 DEF Editor!SaveServed
  <1> QED
    BY <1>0, <1>2, <1>3 DEF EditorInv, ListTypes, FormTypes, UpdateFits, Editor!EditorSafe, Editor!OthersFieldsSurvive,
       Editor!SentFromList, Editor!EligibleAgents, Editor!Shown

LEMMA EditorStep ==
    ASSUME RowsFilled, EditorInv, [Editor!EditorNext]_(Editor!editorVars)
    PROVE  EditorInv'
  <1>0. ListTypes
    BY DEF EditorInv
  <1>1. CASE UNCHANGED Editor!editorVars
    BY <1>0, <1>1, PageRests DEF Editor!editorVars, ListTypes
  <1>2. ASSUME NEW a \in Agents,
               \/ Editor!OthersMove(a) \/ Editor!OpenConfigure(a) \/ Editor!PreferAgent(a)
               \/ \E f \in Editor!Fields : Editor!OthersChange(a, f)
        PROVE  EditorInv'
    BY <1>2, EditorOthers, DialogOpens, DialogPrefers
  <1>3. ASSUME NEW m \in Models, Editor!ModelChanges(m) PROVE EditorInv'
    BY <1>0, <1>3, PageRests DEF Editor!ModelChanges, ListTypes
  <1>4. CASE Editor!RoleChanges
    BY <1>0, <1>4, PageRests DEF Editor!RoleChanges, ListTypes
  <1>5. CASE Editor!RosterPolled
    BY <1>0, <1>5, DialogAdjusted DEF Editor!RosterPolled, ListTypes
  <1>6. CASE Editor!ModelsRefreshed
    BY <1>0, <1>6, DialogAdjusted DEF Editor!ModelsRefreshed, ListTypes
  <1>7. CASE Editor!OpenAddAgent \/ Editor!OpenAddTodo
    BY <1>7, DialogOpens
  <1>8. CASE Editor!CloseForm
    BY <1>0, <1>8, PageRests DEF Editor!CloseForm, ListTypes
  <1>9. CASE Editor!ReloadLatest \/ \E f \in Editor!Fields : Editor!EditField(f)
    BY <1>9, DialogReloads, DialogEdited
  <1>10. CASE Editor!SubmitAdd \/ Editor!SubmitConfigure \/ Editor!ConfirmDelete \/ Editor!SubmitTodo
    BY <1>10, DialogSends
  <1>11. CASE Editor!SaveServed
    BY <1>11, DialogServedBy
  <1>12. CASE Editor!SaveReturns
    BY <1>0, <1>12 DEF Editor!SaveReturns, EditorInv, ListTypes, FormTypes, UpdateFits, Editor!EditorSafe,
       Editor!OthersFieldsSurvive, Editor!SentFromList
  <1>13. CASE Editor!SaveFails
    BY <1>0, <1>13, PageRests DEF Editor!SaveFails, ListTypes
  <1> QED
    BY <1>1, <1>2, <1>3, <1>4, <1>5, <1>6, <1>7, <1>8, <1>9, <1>10, <1>11, <1>12, <1>13 DEF Editor!EditorNext

-----------------------------------------------------------------------------
(* The registered models.                                                  *)

RegistryRows == [version : Nat, key : Nat, paused : BOOLEAN]
SaveCalls == [model : Models \cup {"create"}, key : Nat, at : {"asked", "saved"}, observed : BOOLEAN, version : Nat]
TestCalls == [model : Models, at : {"asked", "tested"}, version : Nat]
RowCalls == [model : Models, op : {"delete", "pause", "resume"}, at : {"asked", "served"}, version : Nat]
\* No model is named like the form of a new one, and None is no model and no call.
CallsApart == "create" \notin Models /\ None \notin Models /\ None # "create" /\ None \notin TestCalls \cup RowCalls

RegistryTypes ==
    /\ registry \in [Models -> RegistryRows] /\ rows \in [Models -> RegistryRows]
    /\ formMode \in Models \cup {"create", None} /\ formKey \in Nat
    /\ save # None => save \in SaveCalls
    /\ test # None => test \in TestCalls
    /\ rowCall # None => rowCall \in RowCalls
    /\ testResults \in [Models -> Nat] /\ ownVersion \in [Models -> Nat]
\* A call whose answer is waited for is of the form that is open, a test is of another model's.
CallsOfForm ==
    /\ save # None /\ save.observed => formMode = save.model
    /\ test # None => test.model # formMode /\ rowCall = None
\* The page has seen no version that the server has not reached; a model that was never there has none.
Reached(m, v) == registry[m] # Registry!Absent /\ (registry[m].version > 0 => v <= registry[m].version)
OwnReached == \A m \in Models : ownVersion[m] = 0 \/ Reached(m, ownVersion[m])
SaveReached == save # None /\ save.at = "saved" /\ save.model \in Models => Reached(save.model, save.version)
RowReached == rowCall # None /\ rowCall.at = "served" /\ rowCall.op # "delete" => Reached(rowCall.model, rowCall.version)
\* A test that is done is of the page's own last change, or of a later one.
TestRecent == test # None /\ test.at = "tested" => test.version >= ownVersion[test.model]

RegistryInv ==
    /\ RegistryTypes /\ CallsOfForm /\ OwnReached /\ SaveReached /\ RowReached /\ TestRecent
    /\ Registry!ModelsSafe

LEMMA RegistryStarts == Registry!ModelsInit => RegistryInv
  <1> SUFFICES ASSUME Registry!ModelsInit PROVE RegistryInv
    OBVIOUS
  <1>1. {Registry!Absent, Registry!Row(1, 1, FALSE)} \subseteq RegistryRows
    BY DEF Registry!Absent, Registry!Row, RegistryRows
  <1>2. RegistryTypes
    BY <1>1 DEF Registry!ModelsInit, RegistryTypes
  <1> QED
    BY <1>2 DEF Registry!ModelsInit, RegistryInv, CallsOfForm, OwnReached, SaveReached, RowReached, TestRecent,
       Registry!ModelsSafe, Registry!ResultNotOutlived, Registry!CallsHoldLocks, Registry!SentKeyLeavesForm,
       Registry!IsSaving

\* The server's rows change to versions that are later, or are gone for good.
Onward(old, new) == new # Registry!Absent /\ (old.version = 0 => old = Registry!Absent \/ new.version = 0)
                    /\ (new.version > 0 => new.version >= old.version)

LEMMA ReachedOnward ==
    ASSUME registry \in [Models -> RegistryRows], registry' \in [Models -> RegistryRows],
           \A m \in Models : registry'[m] = registry[m] \/ Onward(registry[m], registry'[m]),
           NEW m \in Models, NEW v \in Nat, Reached(m, v)
    PROVE  Reached(m, v)'
  <1>1. registry[m].version \in Nat /\ registry'[m].version \in Nat
    BY DEF RegistryRows
  <1>2. CASE registry'[m] = registry[m]
    BY <1>2 DEF Reached, Registry!Absent, Registry!Row
  <1>3. CASE Onward(registry[m], registry'[m])
    BY <1>1, <1>3 DEF Reached, Onward, Registry!Absent, Registry!Row
  <1> QED BY <1>2, <1>3

\* Steps that leave what was tested and changed alone.
LEMMA PageMoves ==
    ASSUME RegistryInv,
           registry' \in [Models -> RegistryRows], rows' \in [Models -> RegistryRows],
           \A m \in Models : registry'[m] = registry[m] \/ Onward(registry[m], registry'[m]),
           formMode' \in Models \cup {"create", None}, formKey' \in Nat,
           save' # None => save' \in SaveCalls, test' # None => test' \in TestCalls, rowCall' # None => rowCall' \in RowCalls,
           UNCHANGED ownVersion, testResults' \in [Models -> Nat],
           \A m \in Models : testResults'[m] \in {0, testResults[m]},
           CallsOfForm', SaveReached', RowReached', TestRecent', Registry!CallsHoldLocks', Registry!SentKeyLeavesForm'
    PROVE  RegistryInv'
  <1>1. RegistryTypes'
    BY DEF RegistryInv, RegistryTypes
  <1>2. OwnReached'
    <2> SUFFICES ASSUME NEW m \in Models, ownVersion[m] # 0 PROVE Reached(m, ownVersion[m])'
      BY DEF OwnReached
    <2>1. ownVersion[m] \in Nat /\ Reached(m, ownVersion[m])
      BY DEF RegistryInv, RegistryTypes, OwnReached
    <2>2. Reached(m, ownVersion[m])'
      BY <2>1, ReachedOnward DEF RegistryInv, RegistryTypes, Reached, Registry!Absent, Registry!Row
    <2> QED BY <2>2
  <1>3. Registry!ResultNotOutlived'
    BY DEF RegistryInv, RegistryTypes, Registry!ModelsSafe, Registry!ResultNotOutlived
  <1> QED BY <1>1, <1>2, <1>3 DEF RegistryInv, Registry!ModelsSafe

\* A form that closes, or makes way for another, waits for no answer any more.
Unheard == IF save = None THEN None ELSE [save EXCEPT !.observed = FALSE]

LEMMA UnheardSave ==
    ASSUME save # None => save \in SaveCalls
    PROVE  /\ Unheard # None => save # None /\ Unheard \in SaveCalls /\ ~Unheard.observed
                 /\ Unheard.at = save.at /\ Unheard.model = save.model /\ Unheard.version = save.version
           /\ save = None => Unheard = None
  BY DEF Unheard, SaveCalls

LEMMA FormMoves ==
    ASSUME RegistryInv, UNCHANGED <<registry, saveLock, testLock, test, rowLock, rowCall, ownVersion>>,
           rows' \in [Models -> RegistryRows], formMode' \in Models \cup {"create", None}, formKey' \in Nat,
           save' = Unheard \/ (save' = save /\ formMode' = formMode /\ formKey' = formKey),
           testResults' \in [Models -> Nat], \A m \in Models : testResults'[m] \in {0, testResults[m]},
           test # None => test.model # formMode'
    PROVE  RegistryInv'
  <1>0. RegistryTypes /\ CallsOfForm /\ SaveReached /\ RowReached /\ TestRecent /\ Registry!CallsHoldLocks
        /\ Registry!SentKeyLeavesForm
    BY DEF RegistryInv, Registry!ModelsSafe
  <1>1. save' # None => save' \in SaveCalls /\ save # None /\ save'.at = save.at /\ save'.model = save.model
                        /\ save'.version = save.version
    BY <1>0, UnheardSave DEF RegistryTypes
  <1>2. save' # None /\ save'.observed => save' = save /\ formMode' = formMode /\ formKey' = formKey
    BY <1>0, UnheardSave DEF RegistryTypes
  <1>3. CallsOfForm'
    BY <1>0, <1>1, <1>2 DEF CallsOfForm
  <1>4. SaveReached'
    BY <1>0, <1>1 DEF SaveReached, Reached, Registry!Absent, Registry!Row
  <1>5. RowReached' /\ TestRecent'
    BY <1>0 DEF RowReached, TestRecent, Reached, Registry!Absent, Registry!Row
  <1>6. Registry!CallsHoldLocks'
    BY <1>0, <1>1 DEF Registry!CallsHoldLocks
  <1>7. Registry!SentKeyLeavesForm'
    BY <1>0, <1>2 DEF Registry!SentKeyLeavesForm, Registry!IsSaving
  <1> QED
    BY <1>0, <1>1, <1>3, <1>4, <1>5, <1>6, <1>7, PageMoves DEF RegistryTypes

LEMMA FormSteps ==
    ASSUME CallsApart, RegistryInv,
           \/ Registry!OpenCreate \/ Registry!Cancel \/ Registry!RowsPolled
           \/ \E m \in Models : Registry!OpenEdit(m)
           \/ \E k \in 0..MaxKey : Registry!TypeKey(k)
    PROVE  RegistryInv'
  <1>0. RegistryTypes /\ CallsOfForm
    BY DEF RegistryInv
  <1>1. CASE Registry!OpenCreate
    BY <1>0, <1>1, FormMoves DEF Registry!OpenCreate, Registry!Testing, Registry!RowCalling, RegistryTypes, Unheard,
       CallsApart, TestCalls
  <1>2. CASE Registry!Cancel
    BY <1>0, <1>2, FormMoves DEF Registry!Cancel, Registry!CloseForm, Registry!Testing, Registry!RowCalling,
       RegistryTypes, Unheard, CallsApart, TestCalls
  <1>3. CASE Registry!RowsPolled
    <2>1. rows' = registry /\ UNCHANGED <<registry, saveLock, testLock, test, rowLock, rowCall, testResults, ownVersion>>
      BY <1>3 DEF Registry!RowsPolled, Registry!Testing, Registry!RowCalling
    <2>2. \/ formMode' = None /\ formKey' = 0 /\ save' = Unheard
          \/ formMode' = formMode /\ formKey' = formKey /\ save' = save
      BY <1>3 DEF Registry!RowsPolled, Registry!CloseForm, Registry!Form, Unheard
    <2>3. test # None => test.model # formMode'
      BY <1>0, <2>2 DEF CallsOfForm, RegistryTypes, CallsApart, TestCalls
    <2> QED BY <1>0, <2>1, <2>2, <2>3, FormMoves DEF RegistryTypes
  <1>4. ASSUME NEW m \in Models, Registry!OpenEdit(m) PROVE RegistryInv'
    <2>1. formMode' = m /\ formKey' = 0 /\ save' = Unheard /\ testResults' = [testResults EXCEPT ![m] = 0]
          /\ UNCHANGED <<registry, rows, saveLock, testLock, test, rowLock, rowCall, ownVersion>> /\ test = None
      BY <1>4 DEF Registry!OpenEdit, Registry!InRow, Registry!RowActionsDisabled, Registry!MutationPending,
                  Registry!Testing, Registry!RowCalling, Unheard
    <2> QED BY <1>0, <2>1, FormMoves DEF RegistryTypes
  <1>5. ASSUME NEW k \in 0..MaxKey, Registry!TypeKey(k) PROVE RegistryInv'
    BY <1>0, <1>5, FormMoves DEF Registry!TypeKey, Registry!Testing, Registry!RowCalling, RegistryTypes, CallsOfForm, Unheard
  <1> QED BY <1>1, <1>2, <1>3, <1>4, <1>5

\* A save is sent with the key, and alone.
LEMMA SaveIsSent ==
    ASSUME RegistryInv, Registry!Save
    PROVE  RegistryInv'
  <1>0. RegistryTypes /\ CallsOfForm /\ SaveReached /\ RowReached /\ TestRecent /\ Registry!CallsHoldLocks
    BY DEF RegistryInv, Registry!ModelsSafe
  <1>1. formMode # None /\ saveLock' = TRUE /\ formKey' = 0
        /\ save' = [model |-> formMode, key |-> formKey, at |-> "asked", observed |-> TRUE, version |-> 0]
        /\ UNCHANGED <<registry, rows, formMode, testLock, test, rowLock, rowCall, testResults, ownVersion>>
    BY DEF Registry!Save, Registry!Testing, Registry!RowCalling
  <1>2. save' \in SaveCalls /\ save'.model = formMode /\ save'.at = "asked"
    BY <1>0, <1>1 DEF RegistryTypes, SaveCalls
  <1>3. CallsOfForm' /\ SaveReached'
    BY <1>0, <1>1, <1>2 DEF CallsOfForm, SaveReached
  <1>4. RowReached' /\ TestRecent' /\ Registry!CallsHoldLocks' /\ Registry!SentKeyLeavesForm'
    BY <1>0, <1>1 DEF RowReached, TestRecent, Registry!CallsHoldLocks, Registry!SentKeyLeavesForm, Reached,
                      Registry!Absent, Registry!Row
  <1> QED BY <1>0, <1>1, <1>2, <1>3, <1>4, PageMoves DEF RegistryTypes

\* The server changes one row, for the save, for a row's button or for another administrator.
LEMMA ServerMoves ==
    ASSUME RegistryInv, NEW m \in Models, NEW r \in RegistryRows, Onward(registry[m], r),
           registry' = [registry EXCEPT ![m] = r],
           UNCHANGED <<rows, formMode, formKey, saveLock, testLock, test, rowLock, testResults, ownVersion>>,
           \/ save' = save
           \/ /\ save # None /\ save' \in SaveCalls /\ save'.observed = save.observed /\ save'.model = save.model
              /\ save'.model \in Models => save'.model = m /\ save'.version = r.version,
           \/ rowCall' = rowCall
           \/ rowCall # None /\ rowCall' \in RowCalls /\ rowCall'.model = m /\ rowCall'.version = r.version,
           CallsApart
    PROVE  RegistryInv'
  <1>0. RegistryTypes /\ CallsOfForm /\ SaveReached /\ RowReached /\ TestRecent /\ Registry!CallsHoldLocks
        /\ Registry!SentKeyLeavesForm
    BY DEF RegistryInv, Registry!ModelsSafe
  <1>1. registry' \in [Models -> RegistryRows] /\ registry'[m] = r
        /\ \A n \in Models : registry'[n] = registry[n] \/ Onward(registry[n], registry'[n])
    BY <1>0 DEF RegistryTypes
  <1>2. r # Registry!Absent /\ Reached(m, r.version)'
    BY <1>1 DEF Onward, Reached, Registry!Absent, Registry!Row, RegistryRows
  <1>3. SaveReached'
    <2> SUFFICES ASSUME save' # None, save'.at = "saved", save'.model \in Models PROVE Reached(save.model, save.version)'
      BY DEF SaveReached
    <2>1. CASE save' = save
      <3>1. save.version \in Nat /\ Reached(save.model, save.version)
        BY <1>0, <2>1 DEF RegistryTypes, SaveCalls, SaveReached
      <3> QED BY <1>0, <1>1, <2>1, <3>1, ReachedOnward DEF RegistryTypes, Reached, Registry!Absent, Registry!Row
    <2>2. CASE save' # save
      BY <1>1, <1>2, <2>2 DEF Reached, Registry!Absent, Registry!Row
    <2> QED BY <2>1, <2>2
  <1>4. RowReached'
    <2> SUFFICES ASSUME rowCall' # None, rowCall'.at = "served", rowCall'.op # "delete"
                 PROVE  Reached(rowCall.model, rowCall.version)'
      BY DEF RowReached
    <2>1. CASE rowCall' = rowCall
      <3>1. rowCall.version \in Nat /\ rowCall.model \in Models /\ Reached(rowCall.model, rowCall.version)
        BY <1>0, <2>1 DEF RegistryTypes, RowCalls, RowReached
      <3> QED BY <1>0, <1>1, <2>1, <3>1, ReachedOnward DEF RegistryTypes, Reached, Registry!Absent, Registry!Row
    <2>2. CASE rowCall' # rowCall
      BY <1>1, <1>2, <2>2 DEF Reached, Registry!Absent, Registry!Row
    <2> QED BY <2>1, <2>2
  <1>5. CallsOfForm' /\ TestRecent' /\ Registry!CallsHoldLocks' /\ Registry!SentKeyLeavesForm'
    <2>1. save' # None => save # None /\ save'.observed = save.observed /\ save'.model = save.model
      OBVIOUS
    <2>2. rowCall' # None <=> rowCall # None
      BY DEF CallsApart, RowCalls
    <2> QED BY <1>0, <2>1, <2>2 DEF CallsOfForm, TestRecent, Registry!CallsHoldLocks, Registry!SentKeyLeavesForm, Registry!IsSaving
  <1> QED
    BY <1>0, <1>1, <1>3, <1>4, <1>5, PageMoves DEF RegistryTypes

LEMMA SaveReachesServer ==
    ASSUME CallsApart, RegistryInv, Registry!SaveServed
    PROVE  RegistryInv'
  <1>0. RegistryTypes /\ save # None /\ save \in SaveCalls
    BY DEF RegistryInv, RegistryTypes, Registry!SaveServed
  <1> PICK m \in Models :
        /\ IF save.model = "create" THEN registry[m] = Registry!Absent
           ELSE m = save.model /\ m \in Registry!Registered(registry)
        /\ registry' = [registry EXCEPT ![m].version = @ + 1, ![m].key = IF save.key = 0 THEN @ ELSE save.key]
        /\ save' = [save EXCEPT !.at = "saved", !.model = IF @ = "create" THEN "create" ELSE m,
                                !.version = registry'[m].version]
    BY DEF Registry!SaveServed
  <1> DEFINE row == registry[m]
             version == row.version + 1
             key == IF save.key = 0 THEN row.key ELSE save.key
             r == [row EXCEPT !.version = version, !.key = key]
  <1>1. row \in RegistryRows /\ version = row.version + 1 /\ version \in Nat /\ key \in Nat
    BY <1>0 DEF RegistryTypes, SaveCalls, RegistryRows
  <1>a. registry' = [registry EXCEPT ![m] = r]
    OBVIOUS
  <1> HIDE DEF version, key
  <1>2. r \in RegistryRows /\ r.version = row.version + 1
    BY <1>1 DEF RegistryRows
  <1>3. registry' = [registry EXCEPT ![m] = r] /\ registry'[m] = r
    BY <1>0, <1>a DEF RegistryTypes
  <1> HIDE DEF r
  <1>4. Onward(registry[m], r)
    BY <1>1, <1>2 DEF Onward, Registry!Absent, Registry!Row, RegistryRows, Registry!Registered
  <1>5. save' \in SaveCalls /\ save'.observed = save.observed /\ save'.model = save.model
        /\ (save'.model \in Models => save'.model = m /\ save'.version = r.version)
    BY <1>0, <1>2, <1>3 DEF SaveCalls, RegistryRows, CallsApart
  <1>6. UNCHANGED <<rows, formMode, formKey, saveLock, testLock, test, rowLock, rowCall, testResults, ownVersion>>
    BY DEF Registry!SaveServed, Registry!Form, Registry!Testing, Registry!RowCalling
  <1> QED BY <1>0, <1>2, <1>3, <1>4, <1>5, <1>6, ServerMoves

LEMMA RowIsServed ==
    ASSUME CallsApart, RegistryInv, Registry!RowActionServed
    PROVE  RegistryInv'
  <1> DEFINE m == rowCall.model
             r == IF rowCall.op = "delete" THEN Registry!Removed
                  ELSE Registry!Row(registry[m].version + 1, registry[m].key, rowCall.op = "pause")
  <1>0. rowCall # None /\ rowCall \in RowCalls /\ m \in Models /\ registry[m] \in RegistryRows /\ registry[m].version > 0
    BY DEF RegistryInv, RegistryTypes, RowCalls, Registry!RowActionServed, Registry!Registered
  <1>1. r \in RegistryRows /\ Onward(registry[m], r)
    BY <1>0 DEF Registry!Removed, Registry!Row, Registry!Absent, RegistryRows, Onward
  <1>2. registry' = [registry EXCEPT ![m] = r] /\ rowCall' = [rowCall EXCEPT !.at = "served", !.version = registry'[m].version]
        /\ UNCHANGED <<rows, formMode, formKey, saveLock, save, testLock, test, rowLock, testResults, ownVersion>>
    BY DEF Registry!RowActionServed, Registry!Form, Registry!Saving, Registry!Testing
  <1>3. registry'[m] = r
    BY <1>0, <1>2 DEF RegistryInv, RegistryTypes
  <1> HIDE DEF r
  <1>4. rowCall' \in RowCalls /\ rowCall'.model = m /\ rowCall'.version = r.version
    BY <1>0, <1>1, <1>2, <1>3 DEF RowCalls, RegistryRows
  <1> HIDE DEF m
  <1> QED BY <1>0, <1>1, <1>2, <1>4, ServerMoves

LEMMA OthersStep ==
    ASSUME CallsApart, RegistryInv, NEW m \in Models, Registry!ModelForeignStep(m)
    PROVE  RegistryInv'
  <1>0. registry[m] \in RegistryRows /\ registry[m].version > 0
    BY DEF RegistryInv, RegistryTypes, Registry!ModelForeignStep, Registry!Registered
  <1> PICK r \in {Registry!Removed, Registry!Row(registry[m].version + 1, registry[m].key, ~registry[m].paused)} :
          registry' = [registry EXCEPT ![m] = r]
    BY DEF Registry!ModelForeignStep
  <1>1. r \in RegistryRows /\ Onward(registry[m], r)
    <2>1. CASE r = Registry!Removed
      BY <1>0, <2>1 DEF Registry!Removed, Registry!Row, Registry!Absent, RegistryRows, Onward
    <2>2. CASE r = Registry!Row(registry[m].version + 1, registry[m].key, ~registry[m].paused)
      <3> PICK p \in BOOLEAN : p = ~registry[m].paused
        OBVIOUS
      <3>1. r = [version |-> registry[m].version + 1, key |-> registry[m].key, paused |-> p]
        BY <2>2 DEF Registry!Row
      <3> QED BY <1>0, <3>1 DEF Registry!Row, Registry!Absent, RegistryRows, Onward
    <2> QED BY <2>1, <2>2
  <1>2. UNCHANGED <<rows, formMode, formKey, saveLock, save, testLock, test, rowLock, rowCall, testResults, ownVersion>>
    BY DEF Registry!ModelForeignStep, Registry!Form, Registry!Saving, Registry!Testing, Registry!RowCalling
  <1> QED BY <1>1, <1>2, ServerMoves

\* The page hears of its own change: what was tested before is no result any more.
LEMMA ChangeHeard ==
    ASSUME RegistryInv, NEW m \in Models, NEW v \in Nat, Reached(m, v),
           test # None => test.model # m,
           testResults' = [testResults EXCEPT ![m] = 0], ownVersion' = [ownVersion EXCEPT ![m] = v],
           UNCHANGED <<registry, rows, testLock, test>>,
           formMode' \in Models \cup {"create", None}, formKey' \in Nat,
           test # None => test.model # formMode',
           \/ save' = None /\ UNCHANGED <<rowLock, rowCall>>
           \/ rowCall' = None /\ rowLock' = FALSE /\ UNCHANGED <<save, saveLock, formMode, formKey>>
    PROVE  RegistryInv'
  <1>0. RegistryTypes /\ CallsOfForm /\ OwnReached /\ SaveReached /\ RowReached /\ TestRecent /\ Registry!CallsHoldLocks
        /\ Registry!SentKeyLeavesForm /\ Registry!ResultNotOutlived
    BY DEF RegistryInv, Registry!ModelsSafe
  <1>1. /\ testResults' \in [Models -> Nat] /\ ownVersion' \in [Models -> Nat]
        /\ \A n \in Models : testResults'[n] = IF n = m THEN 0 ELSE testResults[n]
        /\ \A n \in Models : ownVersion'[n] = IF n = m THEN v ELSE ownVersion[n]
    BY <1>0 DEF RegistryTypes
  <1>2. RegistryTypes' /\ CallsOfForm'
    BY <1>0, <1>1 DEF RegistryTypes, CallsOfForm
  <1>3. OwnReached' /\ SaveReached' /\ RowReached'
    BY <1>0, <1>1 DEF OwnReached, SaveReached, RowReached, Reached, Registry!Absent, Registry!Row
  <1>4. TestRecent' /\ Registry!ResultNotOutlived'
    BY <1>0, <1>1 DEF TestRecent, RegistryTypes, TestCalls, Registry!ResultNotOutlived
  <1>5. Registry!CallsHoldLocks' /\ Registry!SentKeyLeavesForm'
    BY <1>0 DEF Registry!CallsHoldLocks, Registry!SentKeyLeavesForm, Registry!IsSaving
  <1> QED BY <1>2, <1>3, <1>4, <1>5 DEF RegistryInv, Registry!ModelsSafe

\* Calls that end without a word of a change, and tests that are sent, served and shown.
LEMMA CallsEnd ==
    ASSUME RegistryInv, UNCHANGED <<registry, rows, ownVersion>>,
           formMode' \in Models \cup {"create", None}, formKey' \in Nat,
           testResults' = testResults,
           test # None => test.model # formMode',
           \/ save' = None /\ UNCHANGED <<testLock, test, rowLock, rowCall>>
           \/ test' = None /\ testLock' = FALSE /\ UNCHANGED <<formMode, formKey, saveLock, save, rowLock, rowCall>>
           \/ rowCall' = None /\ rowLock' = FALSE /\ UNCHANGED <<formMode, formKey, saveLock, save, testLock, test>>
    PROVE  RegistryInv'
  <1>0. RegistryTypes /\ CallsOfForm /\ SaveReached /\ RowReached /\ TestRecent /\ Registry!CallsHoldLocks
        /\ Registry!SentKeyLeavesForm
    BY DEF RegistryInv, Registry!ModelsSafe
  <1>1. CallsOfForm' /\ TestRecent'
    BY <1>0 DEF CallsOfForm, TestRecent
  <1>2. SaveReached' /\ RowReached'
    BY <1>0 DEF SaveReached, RowReached, Reached, Registry!Absent, Registry!Row
  <1>3. Registry!CallsHoldLocks' /\ Registry!SentKeyLeavesForm'
    BY <1>0 DEF Registry!CallsHoldLocks, Registry!SentKeyLeavesForm, Registry!IsSaving
  <1> QED BY <1>0, <1>1, <1>2, <1>3, PageMoves DEF RegistryTypes

LEMMA RowIsSent ==
    ASSUME CallsApart, RegistryInv, NEW m \in Models, NEW op \in {"delete", "pause", "resume"}, Registry!RowAction(m, op)
    PROVE  RegistryInv'
  <1>0. RegistryTypes /\ CallsOfForm /\ SaveReached /\ RowReached /\ TestRecent /\ Registry!CallsHoldLocks
        /\ Registry!SentKeyLeavesForm
    BY DEF RegistryInv, Registry!ModelsSafe
  <1>1. /\ rowLock' = TRUE /\ rowCall' = [model |-> m, op |-> op, at |-> "asked", version |-> 0] /\ test = None
        /\ UNCHANGED <<registry, rows, formMode, formKey, saveLock, save, testLock, test, testResults, ownVersion>>
    BY DEF Registry!RowAction, Registry!InRow, Registry!RowActionsDisabled, Registry!MutationPending,
           Registry!Form, Registry!Saving, Registry!Testing
  <1>2. rowCall' \in RowCalls /\ rowCall' # None /\ rowCall'.at = "asked"
    BY <1>1 DEF RowCalls, CallsApart
  <1>3. CallsOfForm' /\ TestRecent' /\ RowReached'
    BY <1>0, <1>1, <1>2 DEF CallsOfForm, TestRecent, RowReached
  <1>4. SaveReached' /\ Registry!CallsHoldLocks' /\ Registry!SentKeyLeavesForm'
    BY <1>0, <1>1, <1>2 DEF SaveReached, Reached, Registry!Absent, Registry!Row, Registry!CallsHoldLocks,
                            Registry!SentKeyLeavesForm, Registry!IsSaving
  <1> QED BY <1>0, <1>1, <1>2, <1>3, <1>4, PageMoves DEF RegistryTypes

LEMMA TestIsSent ==
    ASSUME CallsApart, RegistryInv, NEW m \in Models, Registry!RunTest(m)
    PROVE  RegistryInv'
  <1>0. RegistryTypes /\ CallsOfForm /\ SaveReached /\ RowReached /\ Registry!CallsHoldLocks /\ Registry!SentKeyLeavesForm
    BY DEF RegistryInv, Registry!ModelsSafe
  <1>1. /\ testLock' = TRUE /\ test' = [model |-> m, at |-> "asked", version |-> 0]
        /\ testResults' = [testResults EXCEPT ![m] = 0] /\ formMode # m /\ rowCall = None
        /\ UNCHANGED <<registry, rows, formMode, formKey, saveLock, save, rowLock, rowCall, ownVersion>>
    BY DEF Registry!RunTest, Registry!InRow, Registry!RowActionsDisabled, Registry!MutationPending,
           Registry!Form, Registry!Saving, Registry!RowCalling
  <1>2. test' \in TestCalls /\ test' # None /\ test'.at = "asked" /\ test'.model = m
    BY <1>1 DEF TestCalls, CallsApart
  <1>3. CallsOfForm' /\ TestRecent'
    BY <1>0, <1>1, <1>2 DEF CallsOfForm, TestRecent
  <1>4. SaveReached' /\ RowReached' /\ Registry!CallsHoldLocks' /\ Registry!SentKeyLeavesForm'
    BY <1>0, <1>1, <1>2 DEF SaveReached, RowReached, Reached, Registry!Absent, Registry!Row, Registry!CallsHoldLocks,
                            Registry!SentKeyLeavesForm, Registry!IsSaving
  <1>5. testResults' \in [Models -> Nat] /\ \A n \in Models : testResults'[n] \in {0, testResults[n]}
    BY <1>0, <1>1 DEF RegistryTypes
  <1> QED BY <1>0, <1>1, <1>2, <1>3, <1>4, <1>5, PageMoves DEF RegistryTypes

\* A test sees the server's version, which no change that the page has heard of is later than.
LEMMA TestIsServed ==
    ASSUME CallsApart, RegistryInv, Registry!TestServed
    PROVE  RegistryInv'
  <1>0. RegistryTypes /\ CallsOfForm /\ SaveReached /\ RowReached /\ Registry!CallsHoldLocks /\ Registry!SentKeyLeavesForm
        /\ OwnReached
    BY DEF RegistryInv, Registry!ModelsSafe
  <1>1. test # None /\ test \in TestCalls /\ test.model \in Registry!Registered(registry)
        /\ test' = [test EXCEPT !.at = "tested", !.version = registry[test.model].version]
        /\ UNCHANGED <<registry, rows, formMode, formKey, saveLock, save, testLock, rowLock, rowCall, testResults, ownVersion>>
    BY <1>0 DEF RegistryTypes, Registry!TestServed, Registry!Form, Registry!Saving, Registry!RowCalling
  <1> DEFINE v == registry[test.model].version
  <1>2. test.model \in Models /\ v \in Nat /\ v > 0 /\ v >= ownVersion[test.model]
    BY <1>0, <1>1 DEF RegistryTypes, RegistryRows, Registry!Registered, OwnReached, Reached
  <1> HIDE DEF v
  <1>3. test' \in TestCalls /\ test' # None /\ test'.model = test.model /\ test'.version = v
    <2>1. test' = [test EXCEPT !.at = "tested", !.version = v]
      BY <1>1 DEF v
    <2> QED BY <1>1, <1>2, <2>1 DEF TestCalls, CallsApart
  <1>4. CallsOfForm' /\ TestRecent'
    BY <1>0, <1>1, <1>2, <1>3 DEF CallsOfForm, TestRecent
  <1>5. SaveReached' /\ RowReached' /\ Registry!CallsHoldLocks' /\ Registry!SentKeyLeavesForm'
    BY <1>0, <1>1, <1>3 DEF SaveReached, RowReached, Reached, Registry!Absent, Registry!Row, Registry!CallsHoldLocks,
                            Registry!SentKeyLeavesForm, Registry!IsSaving
  <1> QED BY <1>0, <1>1, <1>3, <1>4, <1>5, PageMoves DEF RegistryTypes

LEMMA TestIsShown ==
    ASSUME RegistryInv, Registry!TestReturns
    PROVE  RegistryInv'
  <1>0. RegistryTypes /\ CallsOfForm /\ OwnReached /\ SaveReached /\ RowReached /\ TestRecent /\ Registry!CallsHoldLocks
        /\ Registry!SentKeyLeavesForm /\ Registry!ResultNotOutlived
    BY DEF RegistryInv, Registry!ModelsSafe
  <1>1. test # None /\ test.at = "tested" /\ testResults' = [testResults EXCEPT ![test.model] = test.version]
        /\ testLock' = FALSE /\ test' = None
        /\ UNCHANGED <<registry, rows, formMode, formKey, saveLock, save, rowLock, rowCall, ownVersion>>
    BY DEF Registry!TestReturns, Registry!Form, Registry!Saving, Registry!RowCalling
  <1>2. test.model \in Models /\ test.version \in Nat /\ test.version >= ownVersion[test.model]
    BY <1>0, <1>1 DEF RegistryTypes, TestCalls, TestRecent
  <1>3. testResults' \in [Models -> Nat]
        /\ \A m \in Models : testResults'[m] = IF m = test.model THEN test.version ELSE testResults[m]
    BY <1>0, <1>1, <1>2 DEF RegistryTypes
  <1>4. RegistryTypes' /\ CallsOfForm' /\ TestRecent'
    BY <1>0, <1>1, <1>3 DEF RegistryTypes, CallsOfForm, TestRecent
  <1>5. OwnReached' /\ SaveReached' /\ RowReached'
    BY <1>0, <1>1 DEF OwnReached, SaveReached, RowReached, Reached, Registry!Absent, Registry!Row
  <1>6. Registry!ResultNotOutlived'
    BY <1>0, <1>1, <1>2, <1>3 DEF Registry!ResultNotOutlived
  <1>7. Registry!CallsHoldLocks' /\ Registry!SentKeyLeavesForm'
    BY <1>0, <1>1 DEF Registry!CallsHoldLocks, Registry!SentKeyLeavesForm, Registry!IsSaving
  <1> QED BY <1>4, <1>5, <1>6, <1>7 DEF RegistryInv, Registry!ModelsSafe

LEMMA SaveIsAnswered ==
    ASSUME CallsApart, RegistryInv, Registry!SaveReturns \/ Registry!SaveFails
    PROVE  RegistryInv'
  <1>0. RegistryTypes /\ CallsOfForm /\ SaveReached
    BY DEF RegistryInv
  <1>1. save # None /\ save \in SaveCalls /\ save' = None
        /\ UNCHANGED <<registry, rows, testLock, test, rowLock, rowCall>>
    BY <1>0 DEF Registry!SaveReturns, Registry!SaveFails, RegistryTypes, Registry!Testing, Registry!RowCalling
  <1>2. CASE Registry!SaveReturns /\ save.observed /\ save.model # "create"
    <2>1. save.model \in Models /\ save.version \in Nat /\ Reached(save.model, save.version)
      BY <1>0, <1>1, <1>2 DEF SaveCalls, SaveReached, Registry!SaveReturns
    <2>2. testResults' = [testResults EXCEPT ![save.model] = 0] /\ ownVersion' = [ownVersion EXCEPT ![save.model] = save.version]
          /\ formMode' = None /\ formKey' = 0
      BY <1>2 DEF Registry!SaveReturns, Registry!CloseForm
    <2>3. test # None => test.model # save.model /\ test.model # None
      BY <1>0, <1>1, <1>2 DEF CallsOfForm, RegistryTypes, TestCalls, CallsApart
    <2> QED BY <1>1, <2>1, <2>2, <2>3, ChangeHeard
  <1>3. CASE ~(Registry!SaveReturns /\ save.observed /\ save.model # "create")
    <2>1. /\ UNCHANGED <<testResults, ownVersion>>
          /\ ((formMode' = None /\ formKey' = 0) \/ (UNCHANGED <<formMode, formKey>>))
      BY <1>3 DEF Registry!SaveReturns, Registry!SaveFails, Registry!CloseForm, Registry!Form
    <2>2. test # None => test.model # formMode'
      BY <1>0, <2>1 DEF CallsOfForm, RegistryTypes, TestCalls, CallsApart
    <2>3. formMode' \in Models \cup {"create", None} /\ formKey' \in Nat
      BY <1>0, <2>1 DEF RegistryTypes
    <2> QED BY <1>1, <2>1, <2>2, <2>3, CallsEnd
  <1> QED BY <1>2, <1>3

LEMMA RowIsAnswered ==
    ASSUME CallsApart, RegistryInv, Registry!RowActionReturns \/ Registry!RowActionFails
    PROVE  RegistryInv'
  <1>0. RegistryTypes /\ CallsOfForm /\ RowReached
    BY DEF RegistryInv
  <1>1. rowCall # None /\ rowCall \in RowCalls /\ rowCall' = None /\ rowLock' = FALSE
        /\ UNCHANGED <<registry, rows, formMode, formKey, saveLock, save, testLock, test>>
    BY <1>0 DEF Registry!RowActionReturns, Registry!RowActionFails, RegistryTypes, Registry!Form, Registry!Saving, Registry!Testing
  <1>2. CASE Registry!RowActionReturns /\ rowCall.op # "delete"
    <2>1. rowCall.model \in Models /\ rowCall.version \in Nat /\ Reached(rowCall.model, rowCall.version)
      BY <1>0, <1>1, <1>2 DEF RowCalls, RowReached, Registry!RowActionReturns
    <2>2. testResults' = [testResults EXCEPT ![rowCall.model] = 0]
          /\ ownVersion' = [ownVersion EXCEPT ![rowCall.model] = rowCall.version]
      BY <1>2 DEF Registry!RowActionReturns
    <2>3. test = None
      BY <1>0, <1>1 DEF CallsOfForm
    <2> QED BY <1>0, <1>1, <2>1, <2>2, <2>3, ChangeHeard DEF RegistryTypes
  <1>3. CASE ~(Registry!RowActionReturns /\ rowCall.op # "delete")
    <2>1. UNCHANGED <<testResults, ownVersion>>
      BY <1>3 DEF Registry!RowActionReturns, Registry!RowActionFails
    <2> QED BY <1>0, <1>1, <2>1, CallsEnd DEF RegistryTypes, CallsOfForm
  <1> QED BY <1>2, <1>3

LEMMA RegistryStep == ASSUME CallsApart, RegistryInv, [Registry!ModelsNext]_(Registry!modelVars) PROVE RegistryInv'
  <1>1. CASE UNCHANGED Registry!modelVars
    BY <1>1 DEF Registry!modelVars, RegistryInv, RegistryTypes, CallsOfForm, OwnReached, SaveReached, RowReached,
       TestRecent, Reached, Registry!Absent, Registry!Row, Registry!ModelsSafe, Registry!ResultNotOutlived,
       Registry!CallsHoldLocks, Registry!SentKeyLeavesForm, Registry!IsSaving
  <1>2. CASE \/ Registry!OpenCreate \/ Registry!Cancel \/ Registry!RowsPolled
             \/ \E m \in Models : Registry!OpenEdit(m)
             \/ \E k \in 0..MaxKey : Registry!TypeKey(k)
    BY <1>2, FormSteps
  <1>3. CASE Registry!Save \/ Registry!SaveServed \/ Registry!SaveReturns \/ Registry!SaveFails
    BY <1>3, SaveIsSent, SaveReachesServer, SaveIsAnswered
  <1>4. ASSUME NEW m \in Models, Registry!RunTest(m) \/ Registry!ModelForeignStep(m) PROVE RegistryInv'
    BY <1>4, TestIsSent, OthersStep
  <1>5. ASSUME NEW m \in Models, NEW op \in {"delete", "pause", "resume"}, Registry!RowAction(m, op) PROVE RegistryInv'
    BY <1>5, RowIsSent
  <1>6. CASE Registry!TestServed \/ Registry!TestReturns
    BY <1>6, TestIsServed, TestIsShown
  <1>7. CASE Registry!TestFails
    <2>1. RegistryTypes /\ CallsOfForm
      BY DEF RegistryInv
    <2>2. test' = None /\ testLock' = FALSE
          /\ UNCHANGED <<registry, rows, formMode, formKey, saveLock, save, rowLock, rowCall, testResults, ownVersion>>
      BY <1>7 DEF Registry!TestFails, Registry!Form, Registry!Saving, Registry!RowCalling
    <2> QED BY <2>1, <2>2, CallsEnd DEF RegistryTypes, CallsOfForm
  <1>8. CASE Registry!RowActionServed \/ Registry!RowActionReturns \/ Registry!RowActionFails
    BY <1>8, RowIsServed, RowIsAnswered
  <1> QED
    BY <1>1, <1>2, <1>3, <1>4, <1>5, <1>6, <1>7, <1>8 DEF Registry!ModelsNext

-----------------------------------------------------------------------------
\* Agents, their queue and their models stay as the user left them, for every set of todos, agents
\* and models, whatever the agents, other users, polls and answers do in between. The queue runs one
\* action at a time, its lock is held exactly while a call or the next list will end it, and a text
\* is sent again only after a call that failed (pages/Agents/index.tsx); a dialog over a polled
\* roster sends the fields its user changed, and models and agents that it was shown
\* (pages/Agents/components.tsx); a test result is of no version before the page's own last change
\* of its model, and a call of the models' page holds its lock to the end (pages/Settings/sections/
\* ModelsSection.tsx). The invariants tie each call to the dialog, the lock and the version it began
\* with, for as long as it is out.
THEOREM AgentsAreSafe ==
    ASSUME None \notin QueueActions, RowsFilled, CallsApart
    PROVE  PagesSpec => []AgentsSafe
  <1> DEFINE Inv == /\ onPage = "todo" => TodoPageInv
                    /\ onPage = "editor" => EditorInv
                    /\ onPage = "registry" => RegistryInv
  <1>1. PagesInit => Inv
    BY TodoPageOpens, TodoPageStart, EditorPageOpens, EditorStarts, RegistryPageOpens, RegistryStarts
  <1>2. Inv /\ [PagesNext]_pagesVars => Inv'
    <2> SUFFICES ASSUME Inv, [PagesNext]_pagesVars PROVE Inv'
      OBVIOUS
    <2>1. ASSUME onPage' = "todo" PROVE TodoPageInv'
      BY <2>1, TodoPageMoves, TodoPageStep
    <2>2. ASSUME onPage' = "editor" PROVE EditorInv'
      BY <2>2, EditorPageMoves, EditorStep
    <2>3. ASSUME onPage' = "registry" PROVE RegistryInv'
      BY <2>3, RegistryPageMoves, RegistryStep
    <2> QED BY <2>1, <2>2, <2>3
  <1>3. Inv => AgentsSafe
    BY TodoPageHolds DEF EditorInv, RegistryInv, AgentsSafe
  <1> QED BY <1>1, <1>2, <1>3, PTL DEF PagesSpec

-----------------------------------------------------------------------------
(* The scheduled runs. *)

Fields == {"*", "1", "1-5", "1,4,7,10", "2/2"}
Crons == [time : Times \cup {None}, dom : Fields, mon : Fields, dow : Fields]
Choices == [preset : Presets \cup {"custom"}, time : Times]
ScheduleRows == [there : BOOLEAN, enabled : BOOLEAN, cron : Crons]
OccurrenceRows == [schedule : Schedules, at : Nat, state : {"off", "skipped", "ran", "queued"}, enabled : BOOLEAN, cron : Crons]
Answers == [served : BOOLEAN, rows : SUBSET OccurrenceRows]
Edits == [schedule : Schedules, cron : Crons, chosen : Choices, saving : BOOLEAN]
CallRows == [n : Nat, op : {"set_enabled", "skip", "unskip", "run_now", "delete", "update"},
             schedule : Schedules, arg : BOOLEAN \cup Nat \cup Crons \cup {None},
             stage : {"sent", "checked", "served"}, ok : BOOLEAN, early : BOOLEAN,
             answer : {"awaited", "came", "lost"}]
\* What the argument of a call is, by its operation, and which of them is written in two steps;
\* only what was served answers.
CallFits(c) ==
    /\ c.op = "set_enabled" => c.arg \in BOOLEAN
    /\ c.op = "update" => c.arg \in Crons
    /\ c.op \in {"skip", "unskip"} => c.arg \in Nat
    /\ c.stage = "checked" => c.op = "skip"
    /\ c.answer = "came" => c.stage = "served"
    /\ c.stage = "checked" => c.ok

CallTypes == IsFiniteSet(schedCalls) /\ schedCalls \subseteq CallRows /\ \A c \in schedCalls : CallFits(c)
ServerTypes == clock \in Nat /\ schedules \in [Schedules -> ScheduleRows]
AnswerTypes ==
    /\ occurrences # None => occurrences \in SUBSET OccurrenceRows
    /\ occFetch # None => occFetch \in Answers
EditTypes == editing # None => editing \in Edits
ScheduledTypes == CallTypes /\ ServerTypes /\ AnswerTypes /\ EditTypes

\* A skip that was stored before its instant is there until it is taken back; nothing ran
\* ahead of the clock.
TakenBack(c) == \E d \in schedCalls : d.op = "unskip" /\ d.schedule = c.schedule /\ d.arg = c.arg
EarlySkipHeld ==
    \A c \in schedCalls : c.op = "skip" /\ c.early => <<c.schedule, c.arg>> \in skips \/ TakenBack(c)
RanByNow == \A s \in Schedules, t \in Nat : <<s, t>> \in ran => t <= clock
SkipInv == EarlySkipHeld /\ RanByNow /\ SkippedStaysOut

\* Rows are current but where the server was written since it read them; such a write has an
\* answer that did not come yet, or the rows are asked for again, or asking failed.
OnlyChanged(list) == \A o \in list : Current(o) \/ o.schedule \in changed
Due(c) == c.stage = "served" /\ c.ok /\ c.answer # "came"
DueOf(s) == \E c \in schedCalls : c.schedule = s /\ Due(c)
AnswersCurrent ==
    /\ occurrences # None /\ occFetch = None /\ ~occError => OnlyChanged(occurrences)
    /\ occFetch # None /\ occFetch.served => OnlyChanged(occFetch.rows)
ChangesDue == \A s \in changed : occFetch = Asked \/ (occError /\ occFetch = None) \/ DueOf(s)

ScheduledInv == ScheduledTypes /\ EditorKeepsChoice /\ SkipInv /\ AnswersCurrent /\ ChangesDue

-----------------------------------------------------------------------------
(* The expressions. *)

LEMMA CronBuilt ==
    ASSUME NEW p \in Presets, NEW t \in Times
    PROVE  BuildCron(p, t) \in Crons /\ BuildCron(p, t).time = t
  BY DEF Presets, BuildCron, Cron, Crons, Fields
LEMMA CronsDiffer ==
    ASSUME NEW p \in Presets, NEW q \in Presets, NEW t \in Times, BuildCron(p, t) = BuildCron(q, t)
    PROVE  p = q
  <1> DEFINE c == BuildCron(p, t)
             d == BuildCron(q, t)
  <1>1. c.dom = d.dom /\ c.mon = d.mon /\ c.dow = d.dow
    OBVIOUS
  <1>2. CASE p = "daily"
    BY <1>1, <1>2 DEF Presets, BuildCron, Cron
  <1>3. CASE p = "weekdays"
    BY <1>1, <1>3 DEF Presets, BuildCron, Cron
  <1>4. CASE p = "weekly"
    BY <1>1, <1>4 DEF Presets, BuildCron, Cron
  <1>5. CASE p = "monthly"
    BY <1>1, <1>5 DEF Presets, BuildCron, Cron
  <1>6. CASE p = "quarterly"
    BY <1>1, <1>6 DEF Presets, BuildCron, Cron
  <1> QED BY <1>2, <1>3, <1>4, <1>5, <1>6 DEF Presets

\* Reading back what was built gives the preset and the time.
LEMMA CronReadBack ==
    ASSUME None \notin Times, NEW p \in Presets, NEW t \in Times
    PROVE  ParseCron(BuildCron(p, t)) = [preset |-> p, time |-> t]
  <1> PICK c : c = BuildCron(p, t)
    OBVIOUS
  <1>1. c.time = t /\ t # None
    BY CronBuilt
  <1>2. {q \in Presets : c.time # None /\ BuildCron(q, c.time) = c} = {p}
    BY <1>1, CronsDiffer
  <1> QED BY <1>1, <1>2 DEF ParseCron
LEMMA ChoiceTyped ==
    ASSUME Nine \in Times, NEW c \in Crons
    PROVE  ParseCron(c) \in Choices
  <1> DEFINE fits == {p \in Presets : c.time # None /\ BuildCron(p, c.time) = c}
  <1>1. fits # {} => (CHOOSE p \in fits : TRUE) \in Presets
    OBVIOUS
  <1>2. (IF c.time = None THEN Nine ELSE c.time) \in Times
    BY DEF Crons
  <1> QED BY <1>1, <1>2 DEF ParseCron, Choices

-----------------------------------------------------------------------------
LEMMA CustomTyped == ASSUME Nine \in Times PROVE CustomCrons \subseteq Crons
  <1>1. Cron(Nine, "*", "*", "2/2") \in Crons /\ Cron(None, "*", "*", "*") \in Crons
    BY DEF Cron, Crons, Fields
  <1> QED BY <1>1 DEF CustomCrons
LEMMA AskedTyped == Asked \in Answers
  BY DEF Asked, Answers

LEMMA ScheduledStart == ASSUME Nine \in Times, ScheduledInit PROVE ScheduledInv
  <1>1. clock = 0 /\ skips = {} /\ ran = {} /\ occurrences = None /\ occFetch = Asked
        /\ schedCalls = {} /\ editing = None /\ changed = {}
    BY DEF ScheduledInit
  <1>2. BuildCron("daily", Nine) \in Crons /\ Cron(Nine, "*", "*", "2/2") \in Crons
    BY CronBuilt DEF Presets, Cron, Crons, Fields
  <1>3. schedules \in [Schedules -> ScheduleRows]
    BY <1>2 DEF ScheduledInit, ScheduleRows
  <1>4. ScheduledTypes
    BY <1>1, <1>3, FS_EmptySet DEF ScheduledTypes, CallTypes, ServerTypes, AnswerTypes, EditTypes, Asked, Answers
  <1> QED BY <1>1, <1>4 DEF ScheduledInv, EditorKeepsChoice, SkipInv, EarlySkipHeld, RanByNow, SkippedStaysOut,
             AnswersCurrent, ChangesDue, Asked

\* Steps that leave the server and the calls alone keep what was said of skips; if they
\* leave the answers alone too, what was said of those.
ServerKept == UNCHANGED <<clock, schedules, skips, ran, schedCalls>>
AnswersKept == UNCHANGED <<occurrences, occFetch, occError>>
EditorKept == UNCHANGED editing
LEMMA ServerStays == ASSUME ScheduledInv, ServerKept PROVE SkipInv' /\ CallTypes' /\ ServerTypes'
  BY DEF ScheduledInv, ScheduledTypes, SkipInv, EarlySkipHeld, TakenBack, RanByNow, SkippedStaysOut, ServerKept,
         CallTypes, ServerTypes
RowsKept == UNCHANGED <<schedules, skips, changed>>
DuesKept == \A s \in changed : DueOf(s) => DueOf(s)'
LEMMA CurrentStays ==
    ASSUME NEW list, OnlyChanged(list), RowsKept PROVE OnlyChanged(list)'
  BY DEF OnlyChanged, Current, RowsKept
LEMMA AnswersStay ==
    ASSUME ScheduledInv, RowsKept, DuesKept, AnswersKept
    PROVE  AnswersCurrent' /\ AnswerTypes' /\ ChangesDue'
  <1> USE DEF AnswersKept
  <1>1. ASSUME occurrences' # None, occFetch' = None, ~occError' PROVE OnlyChanged(occurrences)'
    BY <1>1 DEF ScheduledInv, AnswersCurrent, OnlyChanged, Current, RowsKept
  <1>2. ASSUME occFetch' # None, occFetch'.served PROVE OnlyChanged(occFetch.rows)'
    BY <1>2 DEF ScheduledInv, AnswersCurrent, OnlyChanged, Current, RowsKept
  <1>3. ChangesDue'
    BY DEF ScheduledInv, ChangesDue, RowsKept, DuesKept
  <1> QED BY <1>1, <1>2, <1>3 DEF ScheduledInv, ScheduledTypes, AnswersCurrent, AnswerTypes
LEMMA DueStays == ASSUME UNCHANGED schedCalls PROVE DuesKept
  BY DEF DuesKept, DueOf
LEMMA EditorStays ==
    ASSUME ScheduledInv, EditorKept PROVE EditorKeepsChoice' /\ EditTypes'
  BY DEF ScheduledInv, ScheduledTypes, EditorKept, EditorKeepsChoice, EditTypes

\* A call of the user's goes out.
LEMMA CallGoesOut ==
    ASSUME ScheduledInv, NEW e \in CallRows, CallFits(e), ~e.early, schedCalls' = schedCalls \cup {e},
           UNCHANGED <<clock, schedules, skips, ran, changed>>, AnswersKept, EditorKept
    PROVE  ScheduledInv'
  <1>1. CallTypes' /\ ServerTypes'
    BY FS_AddElement DEF ScheduledInv, ScheduledTypes, CallTypes, ServerTypes
  <1>2. EarlySkipHeld' /\ RanByNow'
    BY DEF ScheduledInv, SkipInv, EarlySkipHeld, TakenBack, RanByNow
  <1>3. SkippedStaysOut'
    BY DEF ScheduledInv, SkipInv, SkippedStaysOut
  <1>4. DuesKept /\ RowsKept
    BY DEF DuesKept, DueOf, RowsKept
  <1> QED BY <1>1, <1>2, <1>3, <1>4, AnswersStay, EditorStays DEF ScheduledInv, ScheduledTypes, SkipInv

\* The editor shows another expression, and remembers what was chosen.
LEMMA EditorChanges ==
    ASSUME ScheduledInv, ServerKept, AnswersKept, UNCHANGED changed, editing' = None \/ editing' \in Edits,
           editing' # None => ParseCron(editing'.cron) = editing'.chosen
    PROVE  ScheduledInv'
  <1>1. RowsKept /\ DuesKept
    BY DueStays DEF ServerKept, RowsKept
  <1>2. EditTypes' /\ EditorKeepsChoice'
    BY DEF EditTypes, EditorKeepsChoice
  <1> QED BY <1>1, <1>2, ServerStays, AnswersStay DEF ScheduledInv, ScheduledTypes

LEMMA CallNumberTyped == ASSUME CallTypes, NEW op, NEW s PROVE CallNumber(op, s) \in Nat
  BY FS_Subset, FS_CardinalityType DEF CallNumber, CallTypes

LEMMA NewCall ==
    ASSUME ScheduledInv, NEW op, NEW s \in Schedules, NEW arg, Ask(op, s, arg),
           \/ op = "set_enabled" /\ arg \in BOOLEAN
           \/ op \in {"skip", "unskip"} /\ arg \in Nat
           \/ op \in {"run_now", "delete"} /\ arg = None
    PROVE  ScheduledInv'
  <1> DEFINE e == [n |-> CallNumber(op, s), op |-> op, schedule |-> s, arg |-> arg,
                   stage |-> "sent", ok |-> TRUE, early |-> FALSE, answer |-> "awaited"]
  <1>1. CallNumber(op, s) \in Nat
    BY CallNumberTyped DEF ScheduledInv, ScheduledTypes
  <1>2. e \in CallRows /\ CallFits(e) /\ ~e.early
    BY <1>1 DEF CallRows, CallFits
  <1>3. schedCalls' = schedCalls \cup {e}
    BY DEF Ask
  <1> HIDE DEF e
  <1> QED BY <1>2, <1>3, CallGoesOut DEF Ask, AnswersKept, EditorKept

\* A call moves on: what was asked stays.
ScheduleCallMoves(c, e) ==
    /\ c \in schedCalls /\ schedCalls' = (schedCalls \ {c}) \cup {e}
    /\ e \in CallRows /\ e.op = c.op /\ e.schedule = c.schedule /\ e.arg = c.arg
    /\ e.stage = "checked" => e.op = "skip"
    /\ e.answer = "came" => e.stage = "served"
    /\ e.stage = "checked" => e.ok
LEMMA CallMovesTypes == ASSUME ScheduledInv, NEW c, NEW e, ScheduleCallMoves(c, e) PROVE CallTypes'
  <1>1. IsFiniteSet(schedCalls \ {c})
    BY FS_RemoveElement DEF ScheduledInv, ScheduledTypes, CallTypes
  <1>2. IsFiniteSet(schedCalls')
    BY <1>1, FS_AddElement DEF ScheduleCallMoves
  <1> QED BY <1>2 DEF ScheduledInv, ScheduledTypes, CallTypes, ScheduleCallMoves, CallFits
LEMMA TakenBackStays ==
    ASSUME NEW c, NEW e, ScheduleCallMoves(c, e), NEW d, TakenBack(d) PROVE TakenBack(d)'
  BY DEF ScheduleCallMoves, TakenBack
LEMMA RunAnywayStays ==
    ASSUME NEW c, NEW e, ScheduleCallMoves(c, e), NEW s, \E d \in schedCalls : d.op = "run_now" /\ d.schedule = s
    PROVE  \E d \in schedCalls' : d.op = "run_now" /\ d.schedule = s
  BY DEF ScheduleCallMoves
\* Every call was there before, in another stage maybe.
LEMMA CallsBefore ==
    ASSUME NEW c, NEW e, ScheduleCallMoves(c, e), NEW d \in schedCalls', e.early => c.early
    PROVE  \E x \in schedCalls : x.op = d.op /\ x.schedule = d.schedule /\ x.arg = d.arg /\ (d.early => x.early)
  BY DEF ScheduleCallMoves
LEMMA OutcomeStays ==
    ASSUME NEW c, NEW e, ScheduleCallMoves(c, e), Due(c) => Due(e) PROVE DuesKept
  BY DEF ScheduleCallMoves, DuesKept, DueOf
\* A write of one schedule: its rows are behind, its answer is due, the others stay.
LEMMA WriteDue ==
    ASSUME ScheduledInv, NEW c, NEW e, ScheduleCallMoves(c, e), ~Due(c), Due(e), AnswersKept,
           changed' = changed \cup {c.schedule},
           \A s \in Schedules : s # c.schedule => schedules'[s] = schedules[s],
           \A s \in Schedules, t \in Nat : s # c.schedule => (<<s, t>> \in skips' <=> <<s, t>> \in skips)
    PROVE  AnswersCurrent' /\ AnswerTypes' /\ ChangesDue'
  <1>1. ASSUME NEW o \in OccurrenceRows, Current(o) \/ o.schedule \in changed
        PROVE  Current(o)' \/ o.schedule \in changed'
    <2>1. o.schedule \in Schedules /\ o.at \in Nat
      BY DEF OccurrenceRows
    <2> QED BY <1>1, <2>1 DEF Current
  <1>2. ASSUME occurrences' # None, occFetch' = None, ~occError' PROVE OnlyChanged(occurrences)'
    <2>1. OnlyChanged(occurrences) /\ occurrences \subseteq OccurrenceRows /\ occurrences' = occurrences
      BY <1>2 DEF AnswersKept, ScheduledInv, ScheduledTypes, AnswersCurrent, AnswerTypes
    <2> QED BY <1>1, <2>1 DEF OnlyChanged
  <1>3. ASSUME occFetch' # None, occFetch'.served PROVE OnlyChanged(occFetch.rows)'
    <2>1. OnlyChanged(occFetch.rows) /\ occFetch.rows \subseteq OccurrenceRows /\ occFetch' = occFetch
      BY <1>3 DEF AnswersKept, ScheduledInv, ScheduledTypes, AnswersCurrent, AnswerTypes, Answers
    <2> QED BY <1>1, <2>1 DEF OnlyChanged
  <1>4. DueOf(c.schedule)' /\ DuesKept
    BY OutcomeStays DEF ScheduleCallMoves, DueOf
  <1>5. ChangesDue'
    BY <1>4 DEF AnswersKept, ScheduledInv, ChangesDue, DuesKept
  <1> QED BY <1>2, <1>3, <1>5 DEF AnswersKept, ScheduledInv, ScheduledTypes, AnswersCurrent, AnswerTypes

\* Skips stay what they are while nothing runs and nothing is taken back.
LEMMA SkipsStay ==
    ASSUME ScheduledInv, NEW c, NEW e, ScheduleCallMoves(c, e), e.early => c.early,
           UNCHANGED clock,
           \A s \in Schedules, t \in Nat : <<s, t>> \in ran' =>
               <<s, t>> \in ran \/ (t <= clock /\ \E d \in schedCalls' : d.op = "run_now" /\ d.schedule = s),
           \A s \in Schedules, t \in Nat : <<s, t>> \in skips =>
               <<s, t>> \in skips' \/ \E d \in schedCalls' : d.op = "unskip" /\ d.schedule = s /\ d.arg = t
    PROVE  SkipInv'
  <1>1. RanByNow'
    BY DEF ScheduledInv, SkipInv, RanByNow
  <1>2. CallTypes'
    BY CallMovesTypes
  <1>3. ASSUME NEW d \in schedCalls', d.op = "skip", d.early PROVE <<d.schedule, d.arg>> \in skips' \/ TakenBack(d)'
    <2>1. PICK x \in schedCalls : x.op = d.op /\ x.schedule = d.schedule /\ x.arg = d.arg /\ (d.early => x.early)
      BY CallsBefore
    <2>2. d.schedule \in Schedules /\ d.arg \in Nat
      BY <1>2, <1>3 DEF CallTypes, CallRows, CallFits
    <2>3. <<d.schedule, d.arg>> \in skips \/ TakenBack(x)
      BY <1>3, <2>1 DEF ScheduledInv, SkipInv, EarlySkipHeld
    <2>4. TakenBack(x) => TakenBack(d)
      BY <2>1 DEF TakenBack
    <2>5. TakenBack(d) => TakenBack(d)'
      BY TakenBackStays
    <2> QED BY <2>2, <2>3, <2>4, <2>5 DEF TakenBack
  <1>4. EarlySkipHeld'
    BY <1>3 DEF EarlySkipHeld
  <1>5. ASSUME NEW d \in schedCalls', d.op = "skip", d.early, <<d.schedule, d.arg>> \in ran'
        PROVE  \/ \E x \in schedCalls' : x.op = "unskip" /\ x.schedule = d.schedule /\ x.arg = d.arg
               \/ \E x \in schedCalls' : x.op = "run_now" /\ x.schedule = d.schedule
    <2>1. PICK x \in schedCalls : x.op = d.op /\ x.schedule = d.schedule /\ x.arg = d.arg /\ (d.early => x.early)
      BY CallsBefore
    <2>2. d.schedule \in Schedules /\ d.arg \in Nat
      BY <1>2, <1>5 DEF CallTypes, CallRows, CallFits
    <2>3. CASE <<d.schedule, d.arg>> \notin ran
      BY <1>5, <2>2, <2>3
    <2>4. CASE <<d.schedule, d.arg>> \in ran
      <3>1. \/ TakenBack(d)
            \/ \E y \in schedCalls : y.op = "run_now" /\ y.schedule = d.schedule
        BY <1>5, <2>1, <2>4 DEF ScheduledInv, SkipInv, SkippedStaysOut, TakenBack
      <3>2. TakenBack(d) => TakenBack(d)'
        BY TakenBackStays
      <3>3. (\E y \in schedCalls : y.op = "run_now" /\ y.schedule = d.schedule)
            => \E y \in schedCalls' : y.op = "run_now" /\ y.schedule = d.schedule
        BY RunAnywayStays
      <3> QED BY <3>1, <3>2, <3>3 DEF TakenBack
    <2> QED BY <2>3, <2>4
  <1>6. SkippedStaysOut'
    BY <1>5 DEF SkippedStaysOut
  <1> QED BY <1>1, <1>4, <1>6 DEF SkipInv

LEMMA ServedStep ==
    ASSUME ScheduledInv, NEW c \in schedCalls, CallServed(c) PROVE ScheduledInv'
  <1>1. c \in CallRows /\ CallFits(c) /\ c.stage = "sent" /\ c.answer # "came" /\ ~Due(c)
    BY DEF CallFits, Due, CallServed, ScheduledInv, ScheduledTypes, CallTypes
  <1>2. AnswersKept /\ EditorKept /\ UNCHANGED clock
    BY DEF CallServed, Kept, AnswersKept, EditorKept
  <1>3. ASSUME NEW e, e \in {[c EXCEPT !.stage = "served", !.ok = FALSE], [c EXCEPT !.stage = "checked", !.ok = TRUE],
                             [c EXCEPT !.stage = "served", !.ok = TRUE]},
               schedCalls' = (schedCalls \ {c}) \cup {e}, e.stage = "checked" => c.op = "skip"
        PROVE  ScheduleCallMoves(c, e) /\ e.early = c.early
    BY <1>1, <1>3 DEF ScheduleCallMoves, CallRows
  <1>4. ASSUME UNCHANGED <<schedules, skips, ran, changed>>,
               \/ Stage(c, "served", FALSE)
               \/ c.op = "skip" /\ Stage(c, "checked", TRUE)
        PROVE  ScheduledInv'
    <2>1. PICK e : /\ e \in {[c EXCEPT !.stage = "served", !.ok = FALSE], [c EXCEPT !.stage = "checked", !.ok = TRUE]}
                   /\ schedCalls' = (schedCalls \ {c}) \cup {e}
                   /\ e.stage = "checked" => c.op = "skip"
      BY <1>1, <1>4 DEF Stage, CallRows
    <2>2. ScheduleCallMoves(c, e) /\ e.early = c.early
      BY <1>3, <2>1
    <2>3. CallTypes' /\ ServerTypes'
      BY <1>2, <1>4, <2>2, CallMovesTypes DEF ScheduledInv, ScheduledTypes, ServerTypes
    <2>4. SkipInv'
      BY <1>2, <1>4, <2>2, SkipsStay
    <2>5. DuesKept /\ RowsKept
      BY <1>1, <1>4, <2>2, OutcomeStays DEF RowsKept
    <2> QED BY <1>2, <1>4, <2>3, <2>4, <2>5, AnswersStay, EditorStays DEF ScheduledInv, ScheduledTypes
  <1>5. ASSUME schedules' = Applied(c), skips' = (IF c.op = "unskip" THEN skips \ {<<c.schedule, c.arg>>} ELSE skips),
               ran' = (IF c.op = "run_now" THEN ran \cup {<<c.schedule, clock>>} ELSE ran), Stage(c, "served", TRUE),
               changed' = changed \cup {c.schedule}
        PROVE  ScheduledInv'
    <2>1. PICK e : e = [c EXCEPT !.stage = "served", !.ok = TRUE] /\ schedCalls' = (schedCalls \ {c}) \cup {e}
      BY <1>5 DEF Stage
    <2>0. e.stage = "served" /\ e.ok /\ Due(e)
      BY <1>1, <2>1 DEF CallRows, Due
    <2>2. ScheduleCallMoves(c, e) /\ e.early = c.early /\ e.stage = "served" /\ e.ok
      BY <1>3, <2>0, <2>1
    <2>3. schedules' \in [Schedules -> ScheduleRows]
      <3> PICK s \in Schedules : s = c.schedule
        BY <1>1 DEF CallRows
      <3> DEFINE row == CASE c.op = "set_enabled" -> [schedules[s] EXCEPT !.enabled = c.arg]
                          [] c.op = "update" -> [schedules[s] EXCEPT !.cron = c.arg]
                          [] c.op = "delete" -> [schedules[s] EXCEPT !.there = FALSE]
                          [] OTHER -> schedules[s]
      <3>1. schedules \in [Schedules -> ScheduleRows] /\ schedules[s] \in ScheduleRows
        BY DEF ScheduledInv, ScheduledTypes, ServerTypes
      <3>2. row \in ScheduleRows
        BY <1>1, <3>1 DEF ScheduleRows, CallFits
      <3>3. Applied(c) = [schedules EXCEPT ![s] = row]
        BY <3>1 DEF Applied
      <3> HIDE DEF row
      <3> QED BY <1>5, <3>1, <3>2, <3>3
    <2>4. CallTypes' /\ ServerTypes'
      BY <1>2, <2>2, <2>3, CallMovesTypes DEF ScheduledInv, ScheduledTypes, ServerTypes
    <2>5. clock \in Nat /\ e \in schedCalls' /\ e.op = c.op /\ e.schedule = c.schedule /\ e.arg = c.arg
      BY <2>1, <2>2 DEF ScheduledInv, ScheduledTypes, ServerTypes, ScheduleCallMoves
    <2>6. \A s \in Schedules, t \in Nat : <<s, t>> \in ran' =>
              <<s, t>> \in ran \/ (t <= clock /\ \E d \in schedCalls' : d.op = "run_now" /\ d.schedule = s)
      BY <1>5, <2>5
    <2>7. \A s \in Schedules, t \in Nat : <<s, t>> \in skips =>
              <<s, t>> \in skips' \/ \E d \in schedCalls' : d.op = "unskip" /\ d.schedule = s /\ d.arg = t
      BY <1>5, <2>5
    <2>8. SkipInv'
      BY <1>2, <2>2, <2>6, <2>7, SkipsStay
    <2>9. /\ \A s \in Schedules : s # c.schedule => schedules'[s] = schedules[s]
          /\ \A s \in Schedules, t \in Nat : s # c.schedule => (<<s, t>> \in skips' <=> <<s, t>> \in skips)
      BY <1>5 DEF Applied, ScheduledInv, ScheduledTypes, ServerTypes
    <2>10. AnswersCurrent' /\ AnswerTypes' /\ ChangesDue'
      BY <1>1, <1>2, <1>5, <2>0, <2>2, <2>9, WriteDue
    <2> QED BY <1>2, <2>4, <2>8, <2>10, EditorStays DEF ScheduledInv, ScheduledTypes
  <1> QED BY <1>4, <1>5 DEF CallServed

LEMMA StoredStep ==
    ASSUME ScheduledInv, NEW c \in schedCalls, SkipStored(c) PROVE ScheduledInv'
  <1>1. c \in CallRows /\ CallFits(c) /\ c.stage = "checked" /\ c.schedule \in Schedules /\ c.arg \in Nat
        /\ c.answer # "came"
    BY DEF SkipStored, ScheduledInv, ScheduledTypes, CallTypes, CallRows, CallFits
  <1>2. AnswersKept /\ EditorKept /\ UNCHANGED <<clock, schedules, ran>> /\ skips' = skips \cup {<<c.schedule, c.arg>>}
    BY DEF SkipStored, Kept, AnswersKept, EditorKept
  <1>3. clock \in Nat
    BY DEF ScheduledInv, ScheduledTypes, ServerTypes
  <1> PICK early \in BOOLEAN : early <=> clock < c.arg
    OBVIOUS
  <1>4. early = (clock < c.arg)
    BY <1>1, <1>3
  <1>5. PICK e : e = [c EXCEPT !.stage = "served", !.early = early] /\ schedCalls' = (schedCalls \ {c}) \cup {e}
    BY <1>4 DEF SkipStored
  <1>6. ScheduleCallMoves(c, e) /\ e.early = early
    BY <1>1, <1>5 DEF ScheduleCallMoves, CallRows
  <1>7. CallTypes' /\ ServerTypes' /\ RanByNow'
    BY <1>2, <1>6, CallMovesTypes DEF ScheduledInv, ScheduledTypes, ServerTypes, SkipInv, RanByNow
  <1>8. ASSUME NEW d \in schedCalls', d.op = "skip", d.early PROVE <<d.schedule, d.arg>> \in skips' \/ TakenBack(d)'
    <2>1. d \in schedCalls \/ d = e
      BY <1>5
    <2>2. CASE d = e
      BY <1>2, <1>6, <2>2 DEF ScheduleCallMoves
    <2>3. CASE d \in schedCalls
      <3>1. <<d.schedule, d.arg>> \in skips \/ TakenBack(d)
        BY <1>8, <2>3 DEF ScheduledInv, SkipInv, EarlySkipHeld
      <3> QED BY <1>2, <1>6, <3>1, TakenBackStays
    <2> QED BY <2>1, <2>2, <2>3
  <1>9. EarlySkipHeld'
    BY <1>8 DEF EarlySkipHeld
  <1>10. ASSUME NEW d \in schedCalls', d.op = "skip", d.early, <<d.schedule, d.arg>> \in ran'
         PROVE  \/ \E x \in schedCalls' : x.op = "unskip" /\ x.schedule = d.schedule /\ x.arg = d.arg
                \/ \E x \in schedCalls' : x.op = "run_now" /\ x.schedule = d.schedule
    <2>1. d \in schedCalls \/ d = e
      BY <1>5
    <2>2. ~(d = e)
      <3>1. ASSUME d = e PROVE FALSE
        <4>1. clock < c.arg /\ <<c.schedule, c.arg>> \in ran
          BY <1>2, <1>4, <1>6, <1>10, <3>1 DEF ScheduleCallMoves
        <4> QED BY <1>1, <1>3, <4>1 DEF ScheduledInv, SkipInv, RanByNow
      <3> QED BY <3>1
    <2>3. \/ TakenBack(d)
          \/ \E y \in schedCalls : y.op = "run_now" /\ y.schedule = d.schedule
      BY <1>2, <1>10, <2>1, <2>2 DEF ScheduledInv, SkipInv, SkippedStaysOut, TakenBack
    <2>4. TakenBack(d) => TakenBack(d)'
      BY <1>6, TakenBackStays
    <2>5. (\E y \in schedCalls : y.op = "run_now" /\ y.schedule = d.schedule)
          => \E y \in schedCalls' : y.op = "run_now" /\ y.schedule = d.schedule
      BY <1>6, RunAnywayStays
    <2> QED BY <2>3, <2>4, <2>5 DEF TakenBack
  <1>11. SkippedStaysOut'
    BY <1>10 DEF SkippedStaysOut
  <1>12. c.ok
    BY DEF ScheduledInv, ScheduledTypes, CallTypes, CallFits, SkipStored
  <1>13. AnswersCurrent' /\ AnswerTypes' /\ ChangesDue'
    <2>1. ~Due(c) /\ Due(e)
      BY <1>1, <1>5, <1>12 DEF Due, CallRows
    <2>2. changed' = changed \cup {c.schedule}
      BY DEF SkipStored
    <2>3. \A s \in Schedules, t \in Nat : s # c.schedule => (<<s, t>> \in skips' <=> <<s, t>> \in skips)
      BY <1>2
    <2> QED BY <1>2, <1>6, <2>1, <2>2, <2>3, WriteDue
  <1> QED BY <1>2, <1>7, <1>9, <1>11, <1>13, EditorStays DEF ScheduledInv, ScheduledTypes, SkipInv

\* What becomes of an answer changes nothing on the server.
LEMMA AnswerEnds ==
    ASSUME ScheduledInv, NEW c \in schedCalls, NEW a \in {"came", "lost"}, Ends(c, a), c.answer = "awaited",
           a = "came" => c.stage = "served", UNCHANGED <<clock, schedules, skips, ran>>
    PROVE  /\ CallTypes' /\ ServerTypes' /\ SkipInv'
           /\ a = "lost" \/ ~c.ok => DuesKept
  <1>1. c \in CallRows /\ CallFits(c)
    BY DEF ScheduledInv, ScheduledTypes, CallTypes
  <1>2. PICK e : e = [c EXCEPT !.answer = a] /\ schedCalls' = (schedCalls \ {c}) \cup {e}
    BY DEF Ends
  <1>3. ScheduleCallMoves(c, e) /\ e.early = c.early /\ e.stage = c.stage /\ e.ok = c.ok /\ e.answer = a
    BY <1>1, <1>2 DEF ScheduleCallMoves, CallRows, CallFits
  <1>4. CallTypes' /\ ServerTypes'
    BY <1>3, CallMovesTypes DEF ScheduledInv, ScheduledTypes, ServerTypes
  <1>5. SkipInv'
    BY <1>3, SkipsStay
  <1>6. a = "lost" \/ ~c.ok => DuesKept
    BY <1>3, OutcomeStays DEF Due
  <1> QED BY <1>4, <1>5, <1>6

LEMMA ReturnStep ==
    ASSUME None # Asked, ScheduledInv, NEW c \in schedCalls, CallReturns(c) PROVE ScheduledInv'
  <1>1. Ends(c, "came") /\ c.answer = "awaited" /\ c.stage = "served"
        /\ UNCHANGED <<clock, schedules, skips, ran, occurrences, occError, changed>>
        /\ occFetch' = (IF c.ok THEN Asked ELSE occFetch)
        /\ editing' = (IF c.ok /\ c.op = "update" THEN None ELSE editing)
    BY DEF CallReturns
  <1>2. CallTypes' /\ ServerTypes' /\ SkipInv' /\ (~c.ok => DuesKept)
    BY <1>1, AnswerEnds
  <1>3. AnswersCurrent' /\ AnswerTypes' /\ ChangesDue'
    <2>1. CASE c.ok
      <3>1. occFetch' = Asked /\ occFetch' # None /\ ~occFetch'.served
        BY <1>1, <2>1 DEF Asked
      <3> QED BY <1>1, <3>1, AskedTyped DEF ScheduledInv, ScheduledTypes, AnswersCurrent, AnswerTypes, ChangesDue, DueOf
    <2>2. CASE ~c.ok
      BY <1>1, <1>2, <2>2, AnswersStay DEF AnswersKept, RowsKept
    <2> QED BY <2>1, <2>2
  <1>4. EditorKeepsChoice' /\ EditTypes'
    BY <1>1 DEF ScheduledInv, ScheduledTypes, EditorKeepsChoice, EditTypes
  <1> QED BY <1>2, <1>3, <1>4 DEF ScheduledInv, ScheduledTypes

LEMMA LostStep ==
    ASSUME ScheduledInv, NEW c \in schedCalls, CallLost(c) PROVE ScheduledInv'
  <1>1. Ends(c, "lost") /\ c.answer = "awaited" /\ AnswersKept /\ EditorKept /\ RowsKept
        /\ UNCHANGED <<clock, schedules, skips, ran>>
    BY DEF CallLost, AnswersKept, EditorKept, RowsKept
  <1>2. CallTypes' /\ ServerTypes' /\ SkipInv' /\ DuesKept
    BY <1>1, AnswerEnds
  <1> QED BY <1>1, <1>2, AnswersStay, EditorStays DEF ScheduledInv, ScheduledTypes

\* The clock moves on; what was skipped does not run.
LEMMA TimeStep == ASSUME ScheduledInv, TimePasses PROVE ScheduledInv'
  <1>1. UNCHANGED <<schedules, skips, schedCalls>> /\ AnswersKept /\ EditorKept /\ RowsKept
    BY DEF TimePasses, AnswersKept, EditorKept, RowsKept
  <1>2. clock \in Nat /\ clock' = clock + 1
    BY DEF TimePasses, ScheduledInv, ScheduledTypes, ServerTypes
  <1>3. ASSUME NEW s, NEW t, <<s, t>> \in ran', <<s, t>> \notin ran
        PROVE  t = clock + 1 /\ <<s, t>> \notin skips
    BY <1>3 DEF TimePasses
  <1>4. RanByNow'
    BY <1>2, <1>3 DEF ScheduledInv, SkipInv, RanByNow
  <1>5. EarlySkipHeld'
    BY <1>1 DEF ScheduledInv, SkipInv, EarlySkipHeld, TakenBack
  <1>6. ASSUME NEW d \in schedCalls', d.op = "skip", d.early, <<d.schedule, d.arg>> \in ran'
        PROVE  \/ \E x \in schedCalls' : x.op = "unskip" /\ x.schedule = d.schedule /\ x.arg = d.arg
               \/ \E x \in schedCalls' : x.op = "run_now" /\ x.schedule = d.schedule
    <2>1. CASE <<d.schedule, d.arg>> \in ran
      BY <1>1, <1>6, <2>1 DEF ScheduledInv, SkipInv, SkippedStaysOut
    <2>2. CASE <<d.schedule, d.arg>> \notin ran
      BY <1>1, <1>3, <1>6, <2>2 DEF ScheduledInv, SkipInv, EarlySkipHeld, TakenBack
    <2> QED BY <2>1, <2>2
  <1>7. SkippedStaysOut'
    BY <1>6 DEF SkippedStaysOut
  <1>8. DuesKept
    BY <1>1, DueStays
  <1>9. CallTypes' /\ ServerTypes'
    BY <1>1, <1>2 DEF ScheduledInv, ScheduledTypes, CallTypes, ServerTypes
  <1> QED BY <1>1, <1>4, <1>5, <1>7, <1>8, <1>9, AnswersStay, EditorStays DEF ScheduledInv, ScheduledTypes, SkipInv

\* What the server answers is what it has.
LEMMA ServedIsCurrent ==
    ASSUME None \notin Answers, ScheduledInv, OccServed PROVE ScheduledInv'
  <1>1. ServerKept /\ EditorKept /\ UNCHANGED <<occurrences, occError>>
    BY DEF OccServed, ServerKept, EditorKept
  <1> PICK list : list = {o \in Occurrences : Answered(o.schedule, o.at)}
    OBVIOUS
  <1>2. occFetch' = [served |-> TRUE, rows |-> list] /\ changed' = {}
    BY DEF OccServed
  <1>3. ASSUME NEW o \in list
        PROVE  o \in OccurrenceRows /\ Current(o)
    <2>1. PICK s \in Schedules, t \in 0..MaxClock :
              o = [schedule |-> s, at |-> t, state |-> StateOf(s, t), enabled |-> schedules[s].enabled,
                   cron |-> schedules[s].cron]
      BY DEF Occurrences
    <2>2. schedules[s] \in ScheduleRows
      BY DEF ScheduledInv, ScheduledTypes, ServerTypes
    <2>3. /\ StateOf(s, t) \in {"off", "skipped", "ran", "queued"}
          /\ StateOf(s, t) = "skipped" <=> schedules[s].enabled /\ <<s, t>> \in skips
      BY <2>2 DEF StateOf, ScheduleRows
    <2>4. Answered(s, t)
      BY <2>1
    <2> QED BY <2>1, <2>2, <2>3, <2>4 DEF OccurrenceRows, ScheduleRows, Answered, Current
  <1>4. OnlyChanged(list) /\ list \in SUBSET OccurrenceRows
    BY <1>3 DEF OnlyChanged
  <1>5. AnswerTypes'
    BY <1>1, <1>2, <1>4 DEF ScheduledInv, ScheduledTypes, AnswerTypes, Answers
  <1>6. occFetch' # None
    <2>1. [served |-> TRUE, rows |-> list] \in Answers
      BY <1>4 DEF Answers
    <2> QED BY <1>2, <2>1
  <1>7. OnlyChanged(list)'
    BY <1>1, <1>3 DEF ServerKept, OnlyChanged, Current
  <1>8. AnswersCurrent' /\ ChangesDue'
    BY <1>2, <1>6, <1>7 DEF AnswersCurrent, OnlyChanged, ChangesDue
  <1> QED BY <1>1, <1>5, <1>8, ServerStays, EditorStays DEF ScheduledInv, ScheduledTypes

LEMMA ScheduledStep ==
    ASSUME None \notin Answers, None \notin Times, Nine \in Times, ScheduledInv, [ScheduledNext]_schedVars
    PROVE  ScheduledInv'
  <1>0. ScheduledTypes
    BY DEF ScheduledInv
  <1>1. CASE UNCHANGED schedVars
    <2>1. ServerKept /\ AnswersKept /\ EditorKept /\ RowsKept
      BY <1>1 DEF schedVars, ServerKept, AnswersKept, EditorKept, RowsKept
    <2> QED BY <2>1, ServerStays, EditorStays, DueStays, AnswersStay DEF ServerKept, ScheduledInv, ScheduledTypes
  <1>2. CASE TimePasses
    BY <1>2, TimeStep
  <1>3. CASE OccServed
    BY <1>3, ServedIsCurrent
  <1>4. CASE OccReturns
    <2>1. ServerKept /\ EditorKept /\ RowsKept /\ occurrences' = occFetch.rows /\ occFetch' = None /\ occFetch # None
          /\ occFetch.served /\ UNCHANGED changed
      BY <1>4 DEF OccReturns, ServerKept, EditorKept, RowsKept
    <2>2. OnlyChanged(occFetch.rows)
      BY <2>1 DEF ScheduledInv, AnswersCurrent
    <2>3. OnlyChanged(occurrences)'
      BY <2>1, <2>2 DEF RowsKept, OnlyChanged, Current
    <2>4. AnswersCurrent' /\ AnswerTypes'
      BY <1>0, <2>1, <2>3 DEF AnswersCurrent, AnswerTypes, ScheduledTypes, Answers
    <2>5. occFetch # Asked
      BY <2>1 DEF Asked
    <2>6. DuesKept
      BY <2>1, DueStays DEF ServerKept
    <2>7. ChangesDue'
      BY <2>1, <2>5, <2>6 DEF ScheduledInv, ChangesDue, DuesKept
    <2> QED BY <2>1, <2>4, <2>7, ServerStays, EditorStays DEF ScheduledInv, ScheduledTypes
  <1>5. CASE OccFails
    <2>1. ServerKept /\ EditorKept /\ occFetch' = None /\ occError' = TRUE /\ UNCHANGED occurrences
      BY <1>5 DEF OccFails, ServerKept, EditorKept
    <2>2. AnswersCurrent' /\ AnswerTypes' /\ ChangesDue'
      BY <1>0, <2>1 DEF AnswersCurrent, AnswerTypes, ScheduledTypes, ChangesDue
    <2> QED BY <2>1, <2>2, ServerStays, EditorStays DEF ScheduledInv, ScheduledTypes
  <1>6. CASE RetryOccurrences
    <2>1. ServerKept /\ EditorKept /\ occFetch' = Asked /\ occError' = occError /\ UNCHANGED occurrences /\ occError
      BY <1>6 DEF RetryOccurrences, ServerKept, EditorKept
    <2>2. AnswersCurrent' /\ AnswerTypes'
      BY <1>0, <2>1 DEF AnswersCurrent, AnswerTypes, ScheduledTypes, Asked, Answers
    <2>3. ChangesDue'
      BY <2>1 DEF ChangesDue
    <2> QED BY <2>1, <2>2, <2>3, ServerStays, EditorStays DEF ScheduledInv, ScheduledTypes
  <1>7. ASSUME NEW o \in Rows,
               \/ ToggleEnabled(o) \/ SkipRun(o) \/ UnskipRun(o) \/ RunNow(o)
               \/ DeleteSchedule(o) \/ EditSchedule(o)
        PROVE  ScheduledInv'
    <2>1. o \in OccurrenceRows /\ o.schedule \in Schedules /\ (~o.enabled) \in BOOLEAN /\ o.at \in Nat /\ o.cron \in Crons
      <3>1. o \in OccurrenceRows
        BY <1>0, <1>7 DEF Rows, ScheduledTypes, AnswerTypes
      <3> QED BY <3>1 DEF OccurrenceRows
    <2>2. CASE ToggleEnabled(o)
      BY <2>1, <2>2, NewCall DEF ToggleEnabled
    <2>3. CASE SkipRun(o)
      BY <2>1, <2>3, NewCall DEF SkipRun
    <2>4. CASE UnskipRun(o)
      BY <2>1, <2>4, NewCall DEF UnskipRun
    <2>5. CASE RunNow(o)
      BY <2>1, <2>5, NewCall DEF RunNow
    <2>6. CASE DeleteSchedule(o)
      BY <2>1, <2>6, NewCall DEF DeleteSchedule
    <2>7. CASE EditSchedule(o)
      <3>1. ServerKept /\ AnswersKept /\ UNCHANGED changed
            /\ editing' = [schedule |-> o.schedule, cron |-> o.cron, chosen |-> ParseCron(o.cron), saving |-> FALSE]
        BY <2>7 DEF EditSchedule, ServerKept, AnswersKept
      <3>2. ParseCron(o.cron) \in Choices
        BY <2>1, ChoiceTyped
      <3>3. editing' \in Edits /\ ParseCron(editing'.cron) = editing'.chosen
        BY <2>1, <3>1, <3>2 DEF Edits
      <3> QED BY <3>1, <3>3, EditorChanges
    <2> QED BY <1>7, <2>2, <2>3, <2>4, <2>5, <2>6, <2>7
  <1>8. ASSUME editing # None,
               \/ \E p \in Presets : SetPreset(p)
               \/ \E time \in Times : SetTime(time)
               \/ \E c \in CustomCrons : TypeCron(c)
        PROVE  ScheduledInv'
    <2>1. editing \in Edits /\ editing.cron \in Crons /\ editing.chosen \in Choices
          /\ ParseCron(editing.cron) = editing.chosen
      <3>1. editing \in Edits
        BY <1>0, <1>8 DEF ScheduledTypes, EditTypes
      <3> QED BY <1>8, <3>1 DEF Edits, ScheduledInv, EditorKeepsChoice
    <2>2. ASSUME NEW c \in Crons, NEW choice \in Choices, ParseCron(c) = choice,
                 InEditor([editing EXCEPT !.cron = c, !.chosen = choice])
          PROVE  ScheduledInv'
      <3>1. PICK e : e = [editing EXCEPT !.cron = c, !.chosen = choice]
        OBVIOUS
      <3>2. e \in Edits /\ e.cron = c /\ e.chosen = choice
        BY <2>1, <3>1 DEF Edits
      <3>3. editing' = e /\ ServerKept /\ AnswersKept /\ UNCHANGED changed
        BY <2>2, <3>1 DEF InEditor, ServerKept, AnswersKept
      <3> QED BY <2>2, <3>2, <3>3, EditorChanges
    <2>4. ASSUME NEW p \in Presets, SetPreset(p) PROVE ScheduledInv'
      <3> PICK time \in Times : time = ParseCron(editing.cron).time
        BY <2>1 DEF Choices
      <3>1. PICK c : c = BuildCron(p, time)
        OBVIOUS
      <3>2. PICK choice : choice = [preset |-> p, time |-> time]
        OBVIOUS
      <3>3. c \in Crons /\ choice \in Choices /\ ParseCron(c) = choice
        BY <3>1, <3>2, CronBuilt, CronReadBack DEF Choices
      <3>4. [editing.chosen EXCEPT !.preset = p] = choice
        BY <2>1, <3>2 DEF Choices
      <3>5. InEditor([editing EXCEPT !.cron = c, !.chosen = choice])
        BY <2>1, <2>4, <3>1, <3>4 DEF SetPreset, Edits
      <3> QED BY <2>2, <3>3, <3>5
    <2>5. ASSUME NEW time \in Times, SetTime(time) PROVE ScheduledInv'
      <3> PICK p : p = ParseCron(editing.cron).preset
        OBVIOUS
      <3>0. p \in Presets
        BY <2>1, <2>5 DEF Choices, SetTime
      <3>1. PICK c : c = BuildCron(p, time)
        OBVIOUS
      <3>2. PICK choice : choice = [preset |-> p, time |-> time]
        OBVIOUS
      <3>3. c \in Crons /\ choice \in Choices /\ ParseCron(c) = choice
        BY <3>0, <3>1, <3>2, CronBuilt, CronReadBack DEF Choices
      <3>4. [editing.chosen EXCEPT !.time = time] = choice
        BY <2>1, <3>2 DEF Choices
      <3>5. InEditor([editing EXCEPT !.cron = c, !.chosen = choice])
        BY <2>1, <2>5, <3>1, <3>4 DEF SetTime, Edits
      <3> QED BY <2>2, <3>3, <3>5
    <2>6. ASSUME NEW c \in CustomCrons, TypeCron(c) PROVE ScheduledInv'
      <3>1. c \in Crons
        BY CustomTyped
      <3>2. PICK choice : choice = ParseCron(c)
        OBVIOUS
      <3>3. choice \in Choices
        BY <3>1, <3>2, ChoiceTyped
      <3>4. InEditor([editing EXCEPT !.cron = c, !.chosen = choice])
        BY <2>6, <3>2 DEF TypeCron
      <3> QED BY <2>2, <3>1, <3>2, <3>3, <3>4
    <2> QED BY <1>8, <2>4, <2>5, <2>6
  <1>9. CASE CancelEdit
    BY <1>9, EditorChanges DEF CancelEdit, ServerKept, AnswersKept
  <1>10. CASE SaveEdit
    <2> DEFINE e == [n |-> CallNumber("update", editing.schedule), op |-> "update", schedule |-> editing.schedule,
                     arg |-> editing.cron, stage |-> "sent", ok |-> TRUE, early |-> FALSE, answer |-> "awaited"]
    <2>1. editing \in Edits
      BY <1>0, <1>10 DEF ScheduledTypes, EditTypes, SaveEdit
    <2>2. CallNumber("update", editing.schedule) \in Nat
      BY <1>0, CallNumberTyped DEF ScheduledTypes
    <2>3. e \in CallRows /\ CallFits(e) /\ ~e.early
      BY <2>1, <2>2 DEF CallRows, CallFits, Edits
    <2>4. schedCalls' = schedCalls \cup {e}
      BY <1>10 DEF SaveEdit
    <2> HIDE DEF e
    <2> QED BY <1>10, <2>3, <2>4, CallGoesOut DEF SaveEdit, AnswersKept, EditorKept
  <1>11. ASSUME NEW c \in schedCalls, CallServed(c) \/ SkipStored(c) \/ CallReturns(c) \/ CallLost(c)
         PROVE ScheduledInv'
    <2>1. c.stage = "checked" => c.op = "skip"
      BY <1>0 DEF ScheduledTypes, CallTypes, CallFits
    <2>2. None # Asked
      BY AskedTyped
    <2> QED BY <1>11, <2>1, <2>2, ServedStep, StoredStep, ReturnStep, LostStep DEF SkipStored
  <1> QED BY <1>1, <1>2, <1>3, <1>4, <1>5, <1>6, <1>7, <1>8, <1>9, <1>10, <1>11 DEF ScheduledNext

\* The scheduled runs' overlay (ScheduledRunsOverlay.tsx, CronBuilder.tsx, lib/cron.ts):
\* its editor keeps the preset and the time chosen last, an occurrence that was skipped in
\* time does not run unless somebody asks for it, and with no answer awaited a row on the
\* screen is the server's, unless a write of its schedule was accepted, its answer lost and
\* the occurrences not read since: through every order of clicks, answers, losses and instants.
THEOREM RunsOverlayIsSafe ==
    ASSUME None \notin Answers, None \notin Times, Nine \in Times
    PROVE  PagesSpec => []AgendaSafe
  <1> DEFINE Inv == onPage = "runs" => ScheduledInv
  <1>1. PagesInit => Inv
    BY RunsPageOpens, ScheduledStart
  <1>2. Inv /\ [PagesNext]_pagesVars => Inv'
    <2> SUFFICES ASSUME Inv, [PagesNext]_pagesVars, onPage' = "runs" PROVE ScheduledInv'
      OBVIOUS
    <2> QED BY RunsPageMoves, ScheduledStep
  <1>3. Inv => AgendaSafe
    <2> SUFFICES ASSUME ScheduledInv, occurrences # None, occFetch = None, ~occError,
                        \A c \in schedCalls : c.answer # "awaited",
                        NEW o \in occurrences, ~Current(o)
                 PROVE  o.schedule \in changed /\ LostAnswer(o.schedule)
      BY DEF ScheduledInv, SkipInv, AgendaSafe, RunsOverlaySafe, SettledRowsCurrent
    <2>1. o.schedule \in changed
      BY DEF ScheduledInv, AnswersCurrent, OnlyChanged
    <2>2. None # Asked
      BY AskedTyped
    <2>3. DueOf(o.schedule)
      BY <2>1, <2>2 DEF ScheduledInv, ChangesDue
    <2>4. PICK c \in schedCalls : c.schedule = o.schedule /\ Due(c)
      BY <2>3 DEF DueOf
    <2>5. c.answer = "lost"
      BY <2>4 DEF Due, ScheduledInv, ScheduledTypes, CallTypes, CallRows
    <2> QED BY <2>1, <2>4, <2>5 DEF Due, LostAnswer
  <1> QED BY <1>1, <1>2, <1>3, PTL DEF PagesSpec

-----------------------------------------------------------------------------
(* The reports: the dialog. *)

SendStages == {"sent", "served", "done", "refused", "lost"}
SendRows == [from : Nat, format : Formats, run : Runs, stage : SendStages, for : Formats]
Prompts == [text : Texts, for : Formats]
DialogRows == [id : Nat, step : 1..2, format : Formats, edited : Prompts \cup {None}, run : Runs, sent : BOOLEAN]
Unmade == {"refused", "lost"}

DialogTypes ==
    /\ dialogs \in Nat /\ headerRun \in Runs
    /\ sends \in Seq(SendRows)
    /\ dialog # None => dialog \in DialogRows

\* The prompt in the dialog is about its format; what can be sent was not made yet.
PromptOf(d) == d.edited # None => d.edited.for = d.format
PromptFits == dialog # None => PromptOf(dialog)
DialogsNumbered ==
    /\ dialog # None => dialog.id <= dialogs
    /\ \A i \in DOMAIN sends : sends[i].from <= dialogs
SendOpen ==
    dialog # None /\ ~dialog.sent => \A i \in DOMAIN sends : sends[i].from = dialog.id => sends[i].stage \in Unmade

DialogInv == DialogTypes /\ PromptFits /\ DialogsNumbered /\ SendOpen /\ SentPromptCurrent /\ OneRunPerDialog

LEMMA DialogStart == ASSUME ReportInit PROVE DialogInv
  <1>1. sends = <<>> /\ DOMAIN sends = {} /\ dialog = None /\ dialogs = 0 /\ headerRun = "now"
    BY DEF ReportInit
  <1>2. DialogTypes
    BY <1>1 DEF DialogTypes, Runs
  <1> QED BY <1>1, <1>2 DEF DialogInv, PromptFits, DialogsNumbered, SendOpen, SentPromptCurrent, OneRunPerDialog

\* The dialog changes, and can be sent only if it could before.
LEMMA DialogChanges ==
    ASSUME DialogInv, UNCHANGED <<dialogs, sends>>, headerRun' \in Runs,
           \/ dialog' = None
           \/ dialog' \in DialogRows /\ PromptOf(dialog') /\ dialog # None /\ dialog'.id = dialog.id /\ dialog'.sent = dialog.sent
    PROVE  DialogInv'
  <1>1. DialogTypes'
    BY DEF DialogInv, DialogTypes
  <1>2. PromptFits' /\ DialogsNumbered'
    BY DEF DialogInv, DialogTypes, PromptFits, DialogsNumbered
  <1>3. SendOpen'
    BY DEF DialogInv, SendOpen
  <1> QED BY <1>1, <1>2, <1>3 DEF DialogInv, SentPromptCurrent, OneRunPerDialog
LEMMA DialogStays ==
    ASSUME DialogInv, UNCHANGED <<dialogs, sends, dialog>>, headerRun' \in Runs
    PROVE  DialogInv'
  BY DEF DialogInv, DialogTypes, PromptFits, DialogsNumbered, SendOpen, SentPromptCurrent, OneRunPerDialog

\* One call changes its stage; a call that was not made stays so.
LEMMA SendMoves ==
    ASSUME DialogInv, NEW i \in DOMAIN sends, NEW stage \in SendStages, sends[i].stage \notin Unmade,
           sends' = [sends EXCEPT ![i].stage = stage]
    PROVE  /\ sends' \in Seq(SendRows) /\ DOMAIN sends' = DOMAIN sends
           /\ \A j \in DOMAIN sends : /\ sends'[j].from = sends[j].from /\ sends'[j].format = sends[j].format
                                      /\ sends'[j].for = sends[j].for
                                      /\ sends'[j].stage = IF j = i THEN stage ELSE sends[j].stage
           /\ SentPromptCurrent' /\ OneRunPerDialog'
  <1>1. sends[i] \in SendRows /\ sends \in Seq(SendRows)
    BY DEF DialogInv, DialogTypes
  <1> PICK row : row = [sends[i] EXCEPT !.stage = stage]
    OBVIOUS
  <1>2. row \in SendRows /\ row.stage = stage /\ row.from = sends[i].from /\ row.format = sends[i].format
        /\ row.for = sends[i].for
    BY <1>1 DEF SendRows
  <1>3. sends' = [sends EXCEPT ![i] = row]
    OBVIOUS
  <1>4. sends' \in Seq(SendRows) /\ DOMAIN sends' = DOMAIN sends
        /\ \A j \in DOMAIN sends : sends'[j] = IF j = i THEN row ELSE sends[j]
    BY <1>1, <1>2, <1>3
  <1>5. \A j \in DOMAIN sends : /\ sends'[j].from = sends[j].from /\ sends'[j].format = sends[j].format
                                /\ sends'[j].for = sends[j].for
                                /\ sends'[j].stage = IF j = i THEN stage ELSE sends[j].stage
    BY <1>2, <1>4
  <1>6. SentPromptCurrent'
    BY <1>4, <1>5 DEF DialogInv, SentPromptCurrent
  <1>7. OneRunPerDialog'
    BY <1>4, <1>5 DEF DialogInv, OneRunPerDialog, Unmade
  <1> QED BY <1>4, <1>5, <1>6, <1>7

\* It was served, or it was answered: the dialog is as free to send as before.
LEMMA DialogServed ==
    ASSUME DialogInv, NEW i \in DOMAIN sends, NEW stage \in SendStages, sends[i].stage \notin Unmade,
           stage \notin Unmade, sends' = [sends EXCEPT ![i].stage = stage], UNCHANGED <<dialog, dialogs, headerRun>>
    PROVE  DialogInv'
  <1>1. /\ sends' \in Seq(SendRows) /\ DOMAIN sends' = DOMAIN sends
        /\ \A j \in DOMAIN sends : /\ sends'[j].from = sends[j].from
                                   /\ sends'[j].stage = IF j = i THEN stage ELSE sends[j].stage
        /\ SentPromptCurrent' /\ OneRunPerDialog'
    BY SendMoves
  <1>2. DialogTypes' /\ PromptFits' /\ DialogsNumbered'
    BY <1>1 DEF DialogInv, DialogTypes, PromptFits, DialogsNumbered
  <1>3. SendOpen'
    BY <1>1 DEF DialogInv, SendOpen
  <1> QED BY <1>1, <1>2, <1>3 DEF DialogInv

LEMMA DialogStep == ASSUME DialogInv, [ReportNext]_reportVars PROVE DialogInv'
  <1>0. DialogTypes /\ headerRun \in Runs
    BY DEF DialogInv, DialogTypes
  <1>1. CASE UNCHANGED reportVars
    BY <1>0, <1>1, DialogStays DEF reportVars
  <1>2. ASSUME NEW r \in Runs, ChooseHeaderRun(r) PROVE DialogInv'
    BY <1>2, DialogStays DEF ChooseHeaderRun
  <1>3. ASSUME NEW f \in Formats, OpenDialog(f) PROVE DialogInv'
    <2> PICK d : d = [id |-> dialogs + 1, step |-> 1, format |-> f, edited |-> None, run |-> headerRun, sent |-> FALSE]
      OBVIOUS
    <2>1. dialog' = d /\ dialogs' = dialogs + 1 /\ UNCHANGED <<headerRun, sends>>
      BY <1>3 DEF OpenDialog
    <2>2. DialogTypes' /\ PromptFits'
      BY <1>0, <2>1 DEF DialogTypes, PromptFits, PromptOf, DialogRows
    <2>3. DialogsNumbered' /\ SendOpen'
      <3>1. \A i \in DOMAIN sends : sends[i].from \in Nat /\ sends[i].from <= dialogs
        <4>1. \A i \in DOMAIN sends : sends[i] \in SendRows
          BY <1>0 DEF DialogTypes
        <4> QED BY <4>1 DEF DialogInv, DialogsNumbered, SendRows
      <3> QED BY <1>0, <2>1, <3>1 DEF DialogTypes, DialogsNumbered, SendOpen
    <2> QED BY <2>1, <2>2, <2>3 DEF DialogInv, SentPromptCurrent, OneRunPerDialog
  <1>4. ASSUME NEW f \in Formats, ReportArrives(f) PROVE DialogInv'
    BY <1>0, <1>4, DialogStays DEF ReportArrives, dialogVars
  <1>5. ASSUME dialog # None PROVE dialog \in DialogRows /\ PromptOf(dialog) /\ dialog.id <= dialogs
    BY <1>0, <1>5 DEF DialogTypes, DialogInv, PromptFits, DialogsNumbered
  <1>6. ASSUME NEW d \in DialogRows, InDialog(d), PromptOf(d), d.id = dialog.id, d.sent = dialog.sent
        PROVE  DialogInv'
    <2>1. dialog' = d /\ UNCHANGED <<headerRun, dialogs, sends>> /\ dialog # None
      BY <1>6 DEF InDialog
    <2> QED BY <1>0, <1>5, <1>6, <2>1, DialogChanges
  <1>7. ASSUME NEW f \in Formats, SetParam(f) PROVE DialogInv'
    <2> PICK d : d = [dialog EXCEPT !.format = f, !.edited = None]
      OBVIOUS
    <2>1. InDialog(d) /\ dialog # None
      BY <1>7 DEF SetParam, InDialog
    <2>2. d \in DialogRows /\ d.id = dialog.id /\ d.sent = dialog.sent /\ d.edited = None
      BY <1>5, <2>1 DEF DialogRows
    <2> QED BY <1>6, <2>1, <2>2 DEF PromptOf
  <1>8. ASSUME NEW step \in 1..2, Turn(step) PROVE DialogInv'
    <2> PICK d : d = [dialog EXCEPT !.step = step]
      OBVIOUS
    <2>1. InDialog(d) /\ dialog # None
      BY <1>8 DEF Turn, InDialog
    <2>2. d \in DialogRows /\ d.id = dialog.id /\ d.sent = dialog.sent /\ d.edited = dialog.edited
          /\ d.format = dialog.format
      BY <1>5, <2>1 DEF DialogRows
    <2> QED BY <1>5, <1>6, <2>1, <2>2 DEF PromptOf
  <1>9. ASSUME NEW r \in Runs, SetRun(r) PROVE DialogInv'
    <2> PICK d : d = [dialog EXCEPT !.run = r]
      OBVIOUS
    <2>1. InDialog(d) /\ dialog # None
      BY <1>9 DEF SetRun, InDialog
    <2>2. d \in DialogRows /\ d.id = dialog.id /\ d.sent = dialog.sent /\ d.edited = dialog.edited
          /\ d.format = dialog.format
      BY <1>5, <2>1 DEF DialogRows
    <2> QED BY <1>5, <1>6, <2>1, <2>2 DEF PromptOf
  <1>10. ASSUME NEW x \in Texts, EditPrompt(x) PROVE DialogInv'
    <2> PICK e : e = [text |-> x, for |-> dialog.format]
      OBVIOUS
    <2> PICK d : d = [dialog EXCEPT !.edited = e]
      OBVIOUS
    <2>1. InDialog(d) /\ dialog # None
      BY <1>10 DEF EditPrompt, InDialog
    <2>2. e \in Prompts /\ e.for = dialog.format
      BY <1>5, <2>1 DEF DialogRows, Prompts
    <2>3. d \in DialogRows /\ d.id = dialog.id /\ d.sent = dialog.sent /\ d.edited = e /\ d.format = dialog.format
      BY <1>5, <2>1, <2>2 DEF DialogRows
    <2> QED BY <1>6, <2>1, <2>2, <2>3 DEF PromptOf
  <1>11. CASE dialog # None /\ ResetPrompt
    <2> PICK d : d = [dialog EXCEPT !.edited = None]
      OBVIOUS
    <2>1. InDialog(d)
      BY <1>11 DEF ResetPrompt
    <2>2. d \in DialogRows /\ d.id = dialog.id /\ d.sent = dialog.sent /\ d.edited = None
      BY <1>5, <1>11 DEF DialogRows
    <2> QED BY <1>6, <2>1, <2>2 DEF PromptOf
  <1>12. CASE AgentsChange
    BY <1>0, <1>12, DialogStays DEF AgentsChange
  <1>13. CASE Send
    <2> PICK row : row = [from |-> dialog.id, format |-> dialog.format, run |-> dialog.run, stage |-> "sent",
                          for |-> IF dialog.edited = None THEN dialog.format ELSE dialog.edited.for]
      OBVIOUS
    <2> PICK d : d = [dialog EXCEPT !.sent = TRUE]
      OBVIOUS
    <2>1. dialog # None /\ ~dialog.sent /\ dialog' = d /\ sends' = Append(sends, row) /\ UNCHANGED <<dialogs, headerRun>>
      BY <1>13 DEF Send
    <2>2. row \in SendRows /\ row.from = dialog.id /\ row.for = row.format /\ row.stage = "sent"
      BY <1>5, <2>1 DEF SendRows, SendStages, DialogRows, PromptOf
    <2>3. d \in DialogRows /\ d.id = dialog.id /\ d.sent /\ d.edited = dialog.edited /\ d.format = dialog.format
      BY <1>5, <2>1 DEF DialogRows
    <2>4. sends' \in Seq(SendRows) /\ DOMAIN sends' = DOMAIN sends \cup {Len(sends) + 1}
          /\ sends'[Len(sends) + 1] = row /\ \A j \in DOMAIN sends : sends'[j] = sends[j]
          /\ DOMAIN sends = 1..Len(sends) /\ Len(sends) \in Nat
      BY <1>0, <2>1, <2>2 DEF DialogTypes
    <2>5. DialogTypes' /\ PromptFits' /\ SendOpen'
      BY <1>0, <1>5, <2>1, <2>3, <2>4 DEF DialogTypes, PromptFits, PromptOf, SendOpen
    <2>6. DialogsNumbered'
      BY <1>5, <2>1, <2>2, <2>3, <2>4 DEF DialogInv, DialogsNumbered
    <2>7. SentPromptCurrent'
      BY <2>2, <2>4 DEF DialogInv, SentPromptCurrent
    <2>8. OneRunPerDialog'
      BY <2>1, <2>2, <2>4 DEF DialogInv, OneRunPerDialog, SendOpen, Unmade
    <2> QED BY <2>5, <2>6, <2>7, <2>8 DEF DialogInv
  <1>14. CASE TimerCloses
    BY <1>0, <1>14, DialogChanges DEF TimerCloses
  <1>15. CASE CloseDialog
    BY <1>0, <1>15, DialogChanges DEF CloseDialog
  <1>16. ASSUME NEW i \in DOMAIN sends, SendServed(i) PROVE DialogInv'
    <2>1. sends[i].stage \notin Unmade /\ sends' = [sends EXCEPT ![i].stage = "served"]
          /\ "served" \in SendStages /\ "served" \notin Unmade /\ UNCHANGED <<dialog, dialogs, headerRun>>
      BY <1>16 DEF SendServed, Unmade, SendStages
    <2> QED BY <2>1, DialogServed
  <1>17. ASSUME NEW i \in DOMAIN sends, SendReturns(i) PROVE DialogInv'
    <2>1. sends[i].stage \notin Unmade /\ sends' = [sends EXCEPT ![i].stage = "done"]
          /\ "done" \in SendStages /\ "done" \notin Unmade /\ UNCHANGED <<dialog, dialogs, headerRun>>
      BY <1>17 DEF SendReturns, Unmade, SendStages
    <2> QED BY <2>1, DialogServed
  <1>18. ASSUME NEW i \in DOMAIN sends, SendFails(i) PROVE DialogInv'
    <2> PICK stage \in Unmade : sends' = [sends EXCEPT ![i].stage = stage]
      BY <1>18 DEF SendFails, Unmade
    <2>1. sends[i].stage \notin Unmade /\ dialog' = Freed(i) /\ UNCHANGED <<dialogs, headerRun>>
      BY <1>18 DEF SendFails, Unmade
    <2>2. /\ sends' \in Seq(SendRows) /\ DOMAIN sends' = DOMAIN sends
          /\ \A j \in DOMAIN sends : /\ sends'[j].from = sends[j].from
                                     /\ sends'[j].stage = IF j = i THEN stage ELSE sends[j].stage
          /\ SentPromptCurrent' /\ OneRunPerDialog'
      <3>1. stage \in SendStages
        BY DEF Unmade, SendStages
      <3> QED BY <2>1, <3>1, SendMoves
    <2>3. CASE dialog # None /\ dialog.id = sends[i].from
      <3> PICK d : d = [dialog EXCEPT !.sent = FALSE]
        OBVIOUS
      <3>1. dialog' = d
        BY <2>1, <2>3 DEF Freed
      <3>2. d \in DialogRows /\ d.id = dialog.id /\ d.edited = dialog.edited /\ d.format = dialog.format
        BY <1>5, <2>3 DEF DialogRows
      <3>3. DialogTypes' /\ PromptFits' /\ DialogsNumbered'
        BY <1>0, <1>5, <2>1, <2>2, <2>3, <3>1, <3>2
        DEF DialogTypes, PromptFits, PromptOf, DialogsNumbered, DialogInv
      <3>4. ASSUME NEW j \in DOMAIN sends, sends[j].from = dialog.id PROVE sends'[j].stage \in Unmade
        <4>1. j \in Nat /\ i \in Nat
          BY <1>0 DEF DialogTypes
        <4>2. CASE j < i
          BY <2>2, <2>3, <3>4, <4>2 DEF DialogInv, OneRunPerDialog, Unmade
        <4>3. CASE i < j
          BY <2>1, <2>3, <3>4, <4>3 DEF DialogInv, OneRunPerDialog, Unmade
        <4>4. CASE i = j
          BY <2>2, <4>4
        <4> QED BY <4>1, <4>2, <4>3, <4>4
      <3>5. SendOpen'
        BY <2>2, <3>1, <3>2, <3>4 DEF SendOpen
      <3> QED BY <2>2, <3>3, <3>5 DEF DialogInv
    <2>4. CASE ~(dialog # None /\ dialog.id = sends[i].from)
      <3>1. dialog' = dialog
        BY <2>1, <2>4 DEF Freed
      <3> QED BY <1>0, <2>1, <2>2, <3>1 DEF DialogInv, DialogTypes, PromptFits, DialogsNumbered, SendOpen
    <2> QED BY <2>3, <2>4
  <1>19. CASE UNCHANGED dialogVars
    BY <1>0, <1>19, DialogStays DEF dialogVars
  <1>20. (\/ OpenHistory \/ CloseHistory
          \/ \E f \in Filters : ChooseFilter(f)
          \/ \E p \in 0..MaxReports : ChoosePage(p)
          \/ \E key \in DOMAIN fetching : HistoryServed(key) \/ HistoryReturns(key) \/ HistoryFails(key))
         => UNCHANGED dialogVars
    BY DEF OpenHistory, CloseHistory, ChooseFilter, ChoosePage, HistoryServed, HistoryReturns, HistoryFails
  <1> QED BY <1>1, <1>2, <1>3, <1>4, <1>7, <1>8, <1>9, <1>10, <1>11, <1>12, <1>13, <1>14, <1>15, <1>16, <1>17,
             <1>18, <1>19, <1>20 DEF ReportNext

-----------------------------------------------------------------------------
(* The reports: the history. *)

PageKeys == Filters \X Nat
AnswerRows == [total : Nat, stale : BOOLEAN, rows : Nat]
\* An answer's rows are those of its page.
PageFilled(key, a) ==
    /\ a \in AnswerRows
    /\ a.total > key[2] * PageSize => a.rows > 0
Found(f) == Cardinality(Matching(f))

\* Reports only come: an answer counts no more of them than a later one.
AnswersOK ==
    /\ DOMAIN answers \subseteq PageKeys
    /\ \A key \in DOMAIN answers : PageFilled(key, answers[key]) /\ answers[key].total <= Found(key[1])
FetchesOK ==
    /\ DOMAIN fetching \subseteq PageKeys
    /\ \A key \in DOMAIN fetching : fetching[key] # None =>
        /\ PageFilled(key, fetching[key]) /\ fetching[key].total <= Found(key[1])
        /\ key \in DOMAIN answers => answers[key].total <= fetching[key].total
ScreenOK ==
    /\ filter \in Filters \cup {None} /\ page \in Nat /\ astray \in BOOLEAN
    /\ shown \in DOMAIN answers \cup {None}

\* The page was one of those an answer of these filters had.
PageInside ==
    filter # None /\ ~astray /\ page > 0 =>
        \E key \in DOMAIN answers : key[1] = filter /\ page < PagesOf(answers[key].total)

HistoryInv == reports \in Seq(Formats) /\ AnswersOK /\ FetchesOK /\ ScreenOK /\ PageInside

\* What is counted is a number, and grows with the reports.
LEMMA FoundTyped == ASSUME reports \in Seq(Formats), NEW f PROVE IsFiniteSet(Matching(f)) /\ Found(f) \in Nat
  <1>1. IsFiniteSet(DOMAIN reports)
    BY FS_Interval
  <1>2. Matching(f) \in SUBSET DOMAIN reports
    BY DEF Matching
  <1>3. IsFiniteSet(Matching(f))
    BY <1>1, <1>2, FS_Subset
  <1> QED BY <1>3, FS_CardinalityType DEF Found
LEMMA FoundGrows ==
    ASSUME reports \in Seq(Formats), NEW g \in Formats, reports' = Append(reports, g), NEW f
    PROVE  Found(f) <= Found(f)' /\ Found(f)' \in Nat /\ reports' \in Seq(Formats)
  <1>1. reports' \in Seq(Formats)
    OBVIOUS
  <1>2. IsFiniteSet(DOMAIN reports')
    BY <1>1, FS_Interval
  <1>3. Matching(f)' \in SUBSET DOMAIN reports'
    BY DEF Matching
  <1>4. IsFiniteSet(Matching(f)')
    BY <1>2, <1>3, FS_Subset
  <1>5. Matching(f) \in SUBSET Matching(f)'
    BY DEF Matching
  <1>6. Cardinality(Matching(f)) <= Cardinality(Matching(f)')
    BY <1>4, <1>5, FS_Subset
  <1>7. Cardinality(Matching(f)') \in Nat
    BY <1>4, FS_CardinalityType
  <1> QED BY <1>1, <1>6, <1>7 DEF Found

\* A page below the number of pages begins before the end.
LEMMA PageBegins ==
    ASSUME PageSize \in Nat \ {0}, NEW total \in Nat, NEW p \in Nat, p > 0, p < PagesOf(total)
    PROVE  total > p * PageSize
  <1> DEFINE q == (total + PageSize - 1) \div PageSize
  <1>1. total # 0 /\ p < q
    BY DEF PagesOf
  <1>2. q \in Int /\ q * PageSize <= total + PageSize - 1
    OBVIOUS
  <1> HIDE DEF q
  <1>3. (p + 1) * PageSize <= q * PageSize
    BY <1>1, <1>2
  <1>4. (p + 1) * PageSize = p * PageSize + PageSize /\ p * PageSize \in Int /\ q * PageSize \in Int
    BY <1>2
  <1> QED BY <1>2, <1>3, <1>4
LEMMA PagesGrow ==
    ASSUME PageSize \in Nat \ {0}, NEW a \in Nat, NEW b \in Nat, a <= b
    PROVE  PagesOf(a) <= PagesOf(b) /\ PagesOf(a) \in Nat /\ PagesOf(b) \in Nat
  <1>1. ASSUME NEW t \in Nat, t > 0
        PROVE  /\ (t + PageSize - 1) \div PageSize \in Nat /\ (t + PageSize - 1) \div PageSize >= 1
               /\ ((t + PageSize - 1) \div PageSize) * PageSize <= t + PageSize - 1
               /\ t + PageSize - 1 < ((t + PageSize - 1) \div PageSize + 1) * PageSize
    BY <1>1
  <1> QED BY <1>1 DEF PagesOf
LEMMA AnswerFilled ==
    ASSUME PageSize \in Nat \ {0}, reports \in Seq(Formats), NEW key \in PageKeys
    PROVE  /\ PageFilled(key, Answer(key)) /\ Answer(key).total = Found(key[1])
           /\ Answer(key) \in AnswerRows
  <1> PICK found : found = Cardinality(Matching(key[1]))
    OBVIOUS
  <1>1. found \in Nat /\ found = Found(key[1])
    BY FoundTyped DEF Found
  <1> PICK before : before = key[2] * PageSize
    OBVIOUS
  <1>2. key[2] \in Nat /\ before \in Nat
    BY DEF PageKeys
  <1>3. Answer(key) = [total |-> found, stale |-> FALSE,
                       rows |-> IF found > before THEN Least(PageSize, found - before) ELSE 0]
    BY DEF Answer
  <1>4. found > before => Least(PageSize, found - before) \in Nat /\ Least(PageSize, found - before) > 0
    BY <1>1, <1>2 DEF Least
  <1>5. Answer(key) \in AnswerRows /\ Answer(key).total = found /\ (found > before => Answer(key).rows > 0)
    BY <1>1, <1>3, <1>4 DEF AnswerRows
  <1> QED BY <1>1, <1>5 DEF PageFilled

LEMMA HistoryStart == ASSUME ReportInit PROVE HistoryInv
  <1>1. reports \in Seq(Formats)
    <2>1. reports \in {<<>>} \cup {<<f, f>> : f \in Formats}
      BY DEF ReportInit
    <2>2. CASE reports = <<>>
      BY <2>2
    <2>3. ASSUME NEW f \in Formats, reports = <<f, f>> PROVE reports \in Seq(Formats)
      BY <2>3
    <2> QED BY <2>1, <2>2, <2>3
  <1>2. answers = <<>> /\ fetching = <<>> /\ DOMAIN answers = {} /\ DOMAIN fetching = {} /\ shown = None
        /\ filter = None /\ page = 0 /\ astray = FALSE
    BY DEF ReportInit
  <1> QED BY <1>1, <1>2 DEF HistoryInv, AnswersOK, FetchesOK, ScreenOK, PageInside

LEMMA HistoryStays ==
    ASSUME HistoryInv, UNCHANGED historyVars, UNCHANGED reports PROVE HistoryInv'
  <1>1. \A f : Found(f)' = Found(f)
    BY DEF Found, Matching
  <1> QED BY <1>1 DEF historyVars, HistoryInv, AnswersOK, FetchesOK, ScreenOK, PageInside
LEMMA FoundStays == ASSUME UNCHANGED reports, NEW f PROVE Found(f)' = Found(f)
  BY DEF Found, Matching

LEMMA ReportComes ==
    ASSUME HistoryInv, UNCHANGED historyVars, NEW g \in Formats, reports' = Append(reports, g) PROVE HistoryInv'
  <1>1. \A f : Found(f) <= Found(f)' /\ Found(f)' \in Nat /\ Found(f) \in Nat
    BY FoundGrows, FoundTyped DEF HistoryInv
  <1>2. \A key, a : PageFilled(key, a) => a.total \in Nat
    BY DEF PageFilled, AnswerRows
  <1>3. AnswersOK' /\ FetchesOK'
    BY <1>1, <1>2 DEF HistoryInv, AnswersOK, FetchesOK, historyVars
  <1> QED BY <1>3 DEF HistoryInv, ScreenOK, PageInside, historyVars

\* More is asked for.
LEMMA FetchesMore ==
    ASSUME HistoryInv, NEW keys \in SUBSET PageKeys, fetching' = With(fetching, keys), UNCHANGED <<answers, reports>>
    PROVE  FetchesOK' /\ AnswersOK' /\ reports' \in Seq(Formats)
  <1>1. \A f : Found(f)' = Found(f)
    BY FoundStays
  <1>2. DOMAIN fetching' = DOMAIN fetching \cup keys
        /\ \A key \in DOMAIN fetching' : fetching'[key] # None => key \in DOMAIN fetching /\ fetching'[key] = fetching[key]
    BY DEF With
  <1> QED BY <1>1, <1>2 DEF HistoryInv, FetchesOK, AnswersOK
LEMMA LookMore ==
    ASSUME HistoryInv, NEW key \in PageKeys, NEW passing \in SUBSET PageKeys, Look(key, passing), UNCHANGED <<answers, reports>>
    PROVE  FetchesOK' /\ AnswersOK' /\ reports' \in Seq(Formats) /\ shown' \in DOMAIN answers' \cup {None}
  <1> PICK fresh : fetching' = With(fetching, (passing \cup {key}) \ fresh)
    BY DEF Look
  <1>1. FetchesOK' /\ AnswersOK' /\ reports' \in Seq(Formats)
    BY FetchesMore
  <1>2. shown' \in DOMAIN answers' \cup {None}
    BY DEF Look, HistoryInv, ScreenOK
  <1> QED BY <1>1, <1>2

\* The answers are marked, and the one on the screen is asked for again.
LEMMA Invalidated ==
    ASSUME HistoryInv, InvalidateHistory, UNCHANGED <<reports, filter, page, astray, shown>>
    PROVE  HistoryInv'
  <1>1. \A f : Found(f)' = Found(f)
    BY FoundStays
  <1>2. DOMAIN answers' = DOMAIN answers /\ answers' = [k \in DOMAIN answers |-> [answers[k] EXCEPT !.stale = TRUE]]
    BY DEF InvalidateHistory
  <1>3. ASSUME NEW key \in DOMAIN answers
        PROVE  answers'[key].total = answers[key].total /\ PageFilled(key, answers'[key])
    <2> PICK a : a = answers[key]
      OBVIOUS
    <2>1. PageFilled(key, a)
      BY DEF HistoryInv, AnswersOK
    <2>2. answers'[key] = [a EXCEPT !.stale = TRUE]
      BY <1>2
    <2>3. answers'[key] \in AnswerRows /\ answers'[key].total = a.total /\ answers'[key].rows = a.rows
      BY <2>1, <2>2 DEF PageFilled, AnswerRows
    <2> QED BY <2>1, <2>3 DEF PageFilled
  <1>4. AnswersOK'
    BY <1>1, <1>2, <1>3 DEF HistoryInv, AnswersOK
  <1>5. DOMAIN fetching' \subseteq PageKeys
        /\ \A key \in DOMAIN fetching' : fetching'[key] # None => key \in DOMAIN fetching /\ fetching'[key] = fetching[key]
    <2>1. filter # None => <<filter, page>> \in PageKeys
      BY DEF HistoryInv, ScreenOK, PageKeys
    <2>2. DOMAIN fetching \subseteq PageKeys
      BY DEF HistoryInv, FetchesOK
    <2>3. CASE filter = None
      BY <2>2, <2>3 DEF InvalidateHistory
    <2>4. CASE filter # None
      BY <2>1, <2>2, <2>4 DEF InvalidateHistory
    <2> QED BY <2>3, <2>4
  <1>6. FetchesOK'
    BY <1>1, <1>2, <1>3, <1>5 DEF HistoryInv, FetchesOK
  <1>7. ScreenOK' /\ PageInside'
    BY <1>2, <1>3 DEF HistoryInv, ScreenOK, PageInside
  <1> QED BY <1>4, <1>6, <1>7 DEF HistoryInv

LEMMA HistoryStep ==
    ASSUME PageSize \in Nat \ {0}, MaxReports \in Nat, DialogInv, HistoryInv, [ReportNext]_reportVars
    PROVE  HistoryInv'
  <1>0. reports \in Seq(Formats) /\ AnswersOK /\ FetchesOK /\ ScreenOK /\ PageInside
    BY DEF HistoryInv
  <1>1. ASSUME UNCHANGED reports, UNCHANGED historyVars PROVE HistoryInv'
    BY <1>1, HistoryStays
  <1>2. ASSUME \/ \E r \in Runs : ChooseHeaderRun(r)
               \/ \E f \in Formats : OpenDialog(f)
               \/ \E f \in Formats : SetParam(f)
               \/ \E s \in 1..2 : Turn(s)
               \/ \E r \in Runs : SetRun(r)
               \/ \E x \in Texts : EditPrompt(x)
               \/ ResetPrompt \/ AgentsChange \/ Send \/ TimerCloses \/ CloseDialog
               \/ \E i \in DOMAIN sends : SendFails(i)
        PROVE  UNCHANGED reports /\ UNCHANGED historyVars
    BY <1>2 DEF ChooseHeaderRun, OpenDialog, SetParam, Turn, SetRun, EditPrompt, ResetPrompt, AgentsChange, Send,
       TimerCloses, CloseDialog, SendFails, InDialog
  <1>3. ASSUME UNCHANGED reportVars PROVE UNCHANGED reports /\ UNCHANGED historyVars
    BY <1>3 DEF reportVars, historyVars
  <1>4. ASSUME NEW f \in Formats, ReportArrives(f) PROVE HistoryInv'
    BY <1>4, ReportComes DEF ReportArrives
  <1>5. ASSUME NEW i \in DOMAIN sends, SendServed(i) PROVE HistoryInv'
    <2>1. sends[i].format \in Formats
      <3>1. sends[i] \in SendRows
        BY DEF DialogInv, DialogTypes
      <3> QED BY <3>1 DEF SendRows
    <2>2. UNCHANGED historyVars /\ (reports' = Append(reports, sends[i].format) \/ UNCHANGED reports)
      BY <1>5 DEF SendServed
    <2> QED BY <1>1, <2>1, <2>2, ReportComes
  <1>6. ASSUME NEW i \in DOMAIN sends, SendReturns(i) PROVE HistoryInv'
    <2>1. UNCHANGED <<reports, filter, page, astray, shown>> /\ (InvalidateHistory \/ UNCHANGED <<answers, fetching>>)
      BY <1>6 DEF SendReturns
    <2>2. CASE InvalidateHistory
      BY <2>1, <2>2, Invalidated
    <2>3. CASE UNCHANGED <<answers, fetching>>
      BY <1>1, <2>1, <2>3 DEF historyVars
    <2> QED BY <2>1, <2>2, <2>3
  <1>7. CASE OpenHistory
    <2>1. <<"all", 0>> \in PageKeys
      BY DEF PageKeys, Filters
    <2>2. fetching' = With(fetching, {<<"all", 0>>}) /\ UNCHANGED <<answers, reports>>
          /\ filter' = "all" /\ page' = 0 /\ astray' = FALSE /\ shown' \in DOMAIN answers \cup {None}
      BY <1>7 DEF OpenHistory
    <2>3. FetchesOK' /\ AnswersOK' /\ reports' \in Seq(Formats)
      BY <2>1, <2>2, FetchesMore
    <2>4. ScreenOK'
      BY <2>2 DEF ScreenOK, Filters
    <2>5. PageInside'
      BY <2>2 DEF PageInside
    <2> QED BY <2>3, <2>4, <2>5 DEF HistoryInv
  <1>8. CASE CloseHistory
    <2>1. filter' = None /\ page' = 0 /\ astray' = FALSE /\ shown' = None /\ UNCHANGED <<reports, answers, fetching>>
      BY <1>8 DEF CloseHistory
    <2>2. \A f : Found(f)' = Found(f)
      BY <2>1, FoundStays
    <2> QED BY <1>0, <2>1, <2>2 DEF HistoryInv, AnswersOK, FetchesOK, ScreenOK, PageInside
  <1>9. ASSUME NEW f \in Filters, ChooseFilter(f) PROVE HistoryInv'
    <2>1. filter' = f /\ page' = 0 /\ astray' = FALSE /\ Look(<<f, 0>>, {<<f, page>>}) /\ UNCHANGED <<reports, answers>>
      BY <1>9 DEF ChooseFilter
    <2>2. <<f, 0>> \in PageKeys /\ {<<f, page>>} \in SUBSET PageKeys
      BY <1>0 DEF PageKeys, ScreenOK
    <2>3. FetchesOK' /\ AnswersOK' /\ reports' \in Seq(Formats) /\ shown' \in DOMAIN answers' \cup {None}
      BY <2>1, <2>2, LookMore
    <2>4. ScreenOK'
      BY <2>1, <2>3 DEF ScreenOK
    <2>5. PageInside'
      BY <2>1 DEF PageInside
    <2> QED BY <2>3, <2>4, <2>5 DEF HistoryInv
  <1>10. ASSUME NEW p \in 0..MaxReports, ChoosePage(p) PROVE HistoryInv'
    <2>1. filter # None /\ p < Pages /\ page' = p /\ astray' = (shown = None \/ shown[1] # filter)
          /\ Look(<<filter, p>>, {}) /\ UNCHANGED <<reports, filter, answers>>
      BY <1>10 DEF ChoosePage
    <2>2. <<filter, p>> \in PageKeys /\ p \in Nat
      BY <1>0, <2>1 DEF PageKeys, ScreenOK
    <2>3. FetchesOK' /\ AnswersOK' /\ reports' \in Seq(Formats) /\ shown' \in DOMAIN answers' \cup {None}
      BY <2>1, <2>2, LookMore
    <2>4. ScreenOK'
      BY <1>0, <2>1, <2>2, <2>3 DEF ScreenOK
    <2>5. PageInside'
      <3>1. ASSUME ~astray' PROVE shown \in DOMAIN answers /\ shown[1] = filter /\ p < PagesOf(answers[shown].total)
        BY <1>0, <2>1, <3>1 DEF ScreenOK, Pages, HistoryData
      <3> QED BY <2>1, <3>1 DEF PageInside
    <2> QED BY <2>3, <2>4, <2>5 DEF HistoryInv
  <1>11. ASSUME NEW key \in DOMAIN fetching, HistoryServed(key) PROVE HistoryInv'
    <2>1. fetching' = [fetching EXCEPT ![key] = Answer(key)] /\ UNCHANGED <<reports, filter, page, astray, answers, shown>>
      BY <1>11 DEF HistoryServed
    <2>2. key \in PageKeys /\ DOMAIN fetching' = DOMAIN fetching
      BY <1>0, <2>1 DEF FetchesOK
    <2>3. PageFilled(key, Answer(key)) /\ Answer(key).total = Found(key[1])
      BY <1>0, <2>2, AnswerFilled
    <2>4. \A f : Found(f)' = Found(f) /\ Found(f) \in Nat
      BY <1>0, <2>1, FoundStays, FoundTyped
    <2>5. FetchesOK'
      BY <1>0, <2>1, <2>2, <2>3, <2>4 DEF FetchesOK, AnswersOK
    <2> QED BY <1>0, <2>1, <2>4, <2>5 DEF HistoryInv, AnswersOK, ScreenOK, PageInside
  <1>12. ASSUME NEW key \in DOMAIN fetching, HistoryReturns(key) PROVE HistoryInv'
    <2>1. /\ fetching[key] # None /\ UNCHANGED <<reports, filter, page, astray>>
          /\ answers' = [k \in DOMAIN answers \cup {key} |-> IF k = key THEN fetching[key] ELSE answers[k]]
          /\ fetching' = Without(fetching, key)
          /\ shown' = IF key = <<filter, page>> THEN key ELSE shown
      BY <1>12 DEF HistoryReturns
    <2>2. /\ key \in PageKeys /\ PageFilled(key, fetching[key]) /\ fetching[key].total <= Found(key[1])
          /\ key \in DOMAIN answers => answers[key].total <= fetching[key].total
      BY <1>0, <2>1 DEF FetchesOK
    <2>3. DOMAIN answers' = DOMAIN answers \cup {key} /\ answers'[key] = fetching[key]
          /\ \A k \in DOMAIN answers : k # key => answers'[k] = answers[k]
      BY <2>1
    <2>4. DOMAIN fetching' = DOMAIN fetching \ {key} /\ \A k \in DOMAIN fetching' : fetching'[k] = fetching[k]
      BY <2>1 DEF Without
    <2>5. \A f : Found(f)' = Found(f)
      BY <2>1, FoundStays
    <2>6. AnswersOK'
      BY <1>0, <2>2, <2>3, <2>5 DEF AnswersOK
    <2>7. FetchesOK'
      BY <1>0, <2>3, <2>4, <2>5 DEF FetchesOK
    <2>8. ScreenOK'
      BY <1>0, <2>1, <2>3 DEF ScreenOK
    <2>9. PageInside'
      <3>1. ASSUME filter # None, ~astray, page > 0
            PROVE  \E k \in DOMAIN answers' : k[1] = filter /\ page < PagesOf(answers'[k].total)
        <4>1. PICK k \in DOMAIN answers : k[1] = filter /\ page < PagesOf(answers[k].total)
          BY <1>0, <3>1 DEF PageInside
        <4>2. CASE k # key
          BY <2>3, <4>1, <4>2
        <4>3. CASE k = key
          <5>1. answers[k].total \in Nat /\ fetching[key].total \in Nat /\ answers[k].total <= fetching[key].total
            BY <1>0, <2>2, <4>1, <4>3 DEF AnswersOK, PageFilled, AnswerRows
          <5>2. PagesOf(answers[k].total) <= PagesOf(fetching[key].total)
                /\ PagesOf(answers[k].total) \in Nat /\ PagesOf(fetching[key].total) \in Nat
            BY <5>1, PagesGrow
          <5>3. page < PagesOf(fetching[key].total)
            BY <1>0, <4>1, <5>2 DEF ScreenOK
          <5> QED BY <2>3, <4>1, <4>3, <5>3
        <4> QED BY <4>2, <4>3
      <3> QED BY <2>1, <3>1 DEF PageInside
    <2> QED BY <1>0, <2>1, <2>6, <2>7, <2>8, <2>9 DEF HistoryInv
  <1>13. ASSUME NEW key \in DOMAIN fetching, HistoryFails(key) PROVE HistoryInv'
    <2>1. fetching' = Without(fetching, key) /\ UNCHANGED <<reports, filter, page, astray, answers, shown>>
      BY <1>13 DEF HistoryFails
    <2>2. DOMAIN fetching' = DOMAIN fetching \ {key} /\ \A k \in DOMAIN fetching' : fetching'[k] = fetching[k]
      BY <2>1 DEF Without
    <2>3. \A f : Found(f)' = Found(f)
      BY <2>1, FoundStays
    <2> QED BY <1>0, <2>1, <2>2, <2>3 DEF HistoryInv, AnswersOK, FetchesOK, ScreenOK, PageInside
  <1> QED BY <1>1, <1>2, <1>3, <1>4, <1>5, <1>6, <1>7, <1>8, <1>9, <1>10, <1>11, <1>12, <1>13 DEF ReportNext

\* Where the rows are those of the filters and the page, and every answer to the filters
\* counts the same, the page has rows.
LEMMA HistoryHolds == ASSUME PageSize \in Nat \ {0}, HistoryInv PROVE HistoryNotBeyondEnd
  <1> SUFFICES ASSUME filter # None, shown = <<filter, page>>, ~astray,
                      \A key \in DOMAIN answers : key[1] = filter => answers[key].total = HistoryData.total,
                      HistoryData.total > 0
               PROVE  HistoryData.rows > 0
    BY DEF HistoryNotBeyondEnd
  <1>1. page \in Nat /\ shown \in DOMAIN answers \cup {None}
    BY DEF HistoryInv, ScreenOK
  <1>2. shown # None
    BY DEF HistoryData
  <1>3. HistoryData = answers[shown] /\ PageFilled(shown, answers[shown])
    BY <1>1, <1>2 DEF HistoryData, HistoryInv, AnswersOK
  <1>4. HistoryData.total \in Nat
    BY <1>3 DEF PageFilled, AnswerRows
  <1>5. HistoryData.total > page * PageSize
    <2>1. CASE page = 0
      BY <1>4, <2>1
    <2>2. CASE page > 0
      <3>1. PICK key \in DOMAIN answers : key[1] = filter /\ page < PagesOf(answers[key].total)
        BY <2>2 DEF HistoryInv, PageInside
      <3>2. page < PagesOf(HistoryData.total)
        BY <3>1
      <3> QED BY <1>1, <1>4, <2>2, <3>2, PageBegins
    <2> QED BY <1>1, <2>1, <2>2
  <1> QED BY <1>3, <1>5 DEF PageFilled

\* The Reports page (pages/Reports/index.tsx, HistoryOverlay.tsx): a prompt is sent only with
\* the format it is about, a dialog sends again only after a failure, and no order of clicks
\* and answers leads the history beyond its last page.
THEOREM StudioIsSafe ==
    ASSUME PageSize \in Nat \ {0}, MaxReports \in Nat
    PROVE  PagesSpec => []ReportsSafe
  <1> DEFINE Inv == onPage = "report" => DialogInv /\ HistoryInv
  <1>1. PagesInit => Inv
    BY ReportPageOpens, DialogStart, HistoryStart
  <1>2. Inv /\ [PagesNext]_pagesVars => Inv'
    <2> SUFFICES ASSUME Inv, [PagesNext]_pagesVars, onPage' = "report" PROVE (DialogInv /\ HistoryInv)'
      OBVIOUS
    <2> QED BY ReportPageMoves, DialogStep, HistoryStep
  <1>3. Inv => ReportsSafe
    BY HistoryHolds DEF StudioSafe, DialogInv, ReportsSafe
  <1> QED BY <1>1, <1>2, <1>3, PTL DEF PagesSpec

-----------------------------------------------------------------------------
(* The query cache.  First the table of the hooks: what a query reads, and *)
(* which operations leave it to its next fetch.                            *)

LEMMA ReadsAre == ASSUME NEW k, NEW r \in Reads(k) PROVE 
    \/ k \in {"agents", "todos", "todo"} /\ r \in {"agents", "todos", "models"}
    \/ k \in {"model-registry", "report-models"} /\ r = "models"
    \/ k = "schedules" /\ r = "schedules"
    \/ k = "schedule-occurrences" /\ r \in {"schedules", "skips"}
    \/ k \in {"reports", "report-history"} /\ r = "reports"
    \/ k = "vault" /\ r = "pages"
    \/ k = "wiki-latest-audit" /\ r \in {"audits", "suggestions"}
    \/ k = "wiki-open-audit-counts" /\ r = "suggestions"
    \/ k = "sources" /\ r \in {"sources", "texts", "tags"}
    \/ k \in {"source-tags", "source-tag-counts"} /\ r = "tags"
    \/ k \in {"source-extracted", "source-history"} /\ r = "texts"
    \/ k = "workspaces" /\ r = "workspaces"
    \/ k = "projects" /\ r = "projects"
    \/ k = "workspaces-overview" /\ r \in {"workspaces", "projects", "members"}
    \/ k = "workspace-members" /\ r = "members"
    \/ k = "user-directory" /\ r \in {"members", "grants"}
    \/ k = "user-access" /\ r \in {"workspaces", "projects", "roles", "members", "grants", "groups"}
    \/ k = "vault-access" /\ r \in {"members", "grants"}
    \/ k = "guests" /\ r \in {"projects", "members", "grants", "invites"}
    \/ k = "users" /\ r \in {"users", "roles", "invites"}
    \/ k = "groups" /\ r = "groups"
    \/ k = "org-graph" /\ r \in {"workspaces", "projects", "users", "roles", "members", "grants", "groups", "invites"}
    \/ k = "me" /\ r = "me"
    \/ k = "notifications" /\ r = "notifications"
    \/ k = "persona" /\ r = "persona"
  BY DEF Reads, Queries, Query
LEMMA StaleModels ==
    ASSUME NEW m, NEW k, <<m, k>> \notin LeftStale, k \in {"agents", "todos", "todo"}
    PROVE ~(m \in {"models:create", "models:update", "models:delete", "models:pause", "models:resume"})
  BY DEF LeftStale, Ops, ModelOps
LEMMA StalePolled ==
    ASSUME NEW m, NEW k, <<m, k>> \notin LeftStale, k \in {"todo"}
    PROVE ~(m \in {"agents:create", "agents:update", "agents:delete", "todos:create", "todos:set_priority", "todos:delete"})
  <1> DEFINE some == [names |-> {"agents:create", "agents:update", "agents:delete"},
                         writes |-> {"agents", "todos"}, invalidates |-> {"agents", "todos"}]
             more == [names |-> {"todos:create", "todos:set_priority", "todos:delete"},
                         writes |-> {"todos"}, invalidates |-> {"agents", "todos"}]
  <1>1. some \in AgentOps /\ more \in AgentOps
    BY DEF AgentOps, Ops
  <1>2. "todo" \notin some.invalidates /\ "todo" \notin more.invalidates
    OBVIOUS
  <1>3. ~(m \in some.names) /\ ~(m \in more.names)
    <2> HIDE DEF some, more
    <2> QED
      BY <1>1, <1>2 DEF LeftStale
  <1> QED
    BY <1>3
LEMMA StaleCadence ==
    ASSUME NEW m, NEW k, <<m, k>> \notin LeftStale, k \in {"schedule-occurrences"}
    PROVE ~(m = "schedules:create")
  BY DEF LeftStale, Ops
LEMMA StaleAudits ==
    ASSUME NEW m, NEW k, <<m, k>> \notin LeftStale, k \in {"wiki-latest-audit"}
    PROVE ~(m \in {"wiki:audit", "wiki:accept_suggestion", "wiki:dismiss_suggestion"})
  BY DEF LeftStale, Ops
LEMMA StaleCounts ==
    ASSUME NEW m, NEW k, <<m, k>> \notin LeftStale, k \in {"wiki-open-audit-counts"}
    PROVE ~(m \in {"wiki:accept_suggestion", "wiki:dismiss_suggestion"})
  BY DEF LeftStale, Ops
LEMMA StaleEdited ==
    ASSUME NEW m, NEW k, <<m, k>> \notin LeftStale, k \in {"sources"}
    PROVE ~(m = "sources:put_extracted")
  BY DEF LeftStale, Ops
LEMMA StaleDeleted ==
    ASSUME NEW m, NEW k, <<m, k>> \notin LeftStale, k \in {"source-tags", "source-tag-counts"}
    PROVE ~(m = "sources:delete")
  BY DEF LeftStale, Ops
LEMMA StaleUploaded ==
    ASSUME NEW m, NEW k, <<m, k>> \notin LeftStale, k \in {"source-tag-counts"}
    PROVE ~(m = "upload")
  BY DEF LeftStale, Ops
LEMMA StaleCreated ==
    ASSUME NEW m, NEW k, <<m, k>> \notin LeftStale, k \in {"workspaces-overview"}
    PROVE ~(m = "create_user")
  BY DEF LeftStale, Ops
LEMMA StaleJoining ==
    ASSUME NEW m, NEW k, <<m, k>> \notin LeftStale, k \in {"workspace-members", "vault-access", "user-directory", "guests"}
    PROVE ~(m \in {"workspaces:create", "create_user", "users:invite"})
  BY DEF LeftStale, Ops
LEMMA StaleDirectory ==
    ASSUME NEW m, NEW k, <<m, k>> \notin LeftStale, k \in {"user-directory"}
    PROVE ~(m \in {"vault_access:add_guest", "vault_access:set_guest_role", "vault_access:remove_guest", "guests:invite", "workspace_members:set_role"})
  BY DEF LeftStale, Ops, AccessOps, GuestOps
LEMMA StaleBoards ==
    ASSUME NEW m, NEW k, <<m, k>> \notin LeftStale, k \in {"user-access", "org-graph"}
    PROVE ~(m \in {"workspaces:create", "workspaces:update", "workspaces:archive", "workspaces:delete", "projects:move", "projects:set_mode", "projects:rename", "projects:archive", "create_project"})
  BY DEF LeftStale, Ops, WorkspaceOps
LEMMA StaleGrants ==
    ASSUME NEW m, NEW k, <<m, k>> \notin LeftStale, k \in {"user-access"}
    PROVE ~(m \in {"vault_access:add_guest", "vault_access:set_guest_role", "vault_access:remove_guest", "guests:invite"})
  BY DEF LeftStale, Ops, AccessOps, GuestOps
LEMMA StaleRoles ==
    ASSUME NEW m, NEW k, <<m, k>> \notin LeftStale, k \in {"user-access"}
    PROVE ~(m \in {"create_user", "set_user_role", "transfer_ownership"})
  BY DEF LeftStale, Ops
LEMMA StaleMembers ==
    ASSUME NEW m, NEW k, <<m, k>> \notin LeftStale, k \in {"vault-access", "guests"}
    PROVE ~(m \in {"workspace_members:add", "workspace_members:remove", "workspace_members:set_role"})
  BY DEF LeftStale, Ops, MemberOps
LEMMA StaleGuest ==
    ASSUME NEW m, NEW k, <<m, k>> \notin LeftStale, k \in {"vault-access"}
    PROVE ~(m = "guests:invite")
  BY DEF LeftStale, Ops, GuestOps
LEMMA StaleVaults ==
    ASSUME NEW m, NEW k, <<m, k>> \notin LeftStale, k \in {"guests"}
    PROVE ~(m \in {"projects:move", "projects:set_mode", "projects:rename", "projects:archive", "create_project"})
  BY DEF LeftStale, Ops, WorkspaceOps
LEMMA StaleProfile ==
    ASSUME NEW m, NEW k, <<m, k>> \notin LeftStale, k \in {"users", "org-graph"}
    PROVE ~(m = "update_profile")
  BY DEF LeftStale, Ops
LEMMA StaleResent ==
    ASSUME NEW m, NEW k, <<m, k>> \notin LeftStale, k \in {"guests", "org-graph"}
    PROVE ~(m = "users:resend_invite")
  BY DEF LeftStale, Ops
LEMMA StaleRevoked ==
    ASSUME NEW m, NEW k, <<m, k>> \notin LeftStale, k \in {"guests"}
    PROVE ~(m = "users:revoke_invite")
  BY DEF LeftStale, Ops
LEMMA AgentOpsListed ==
    ASSUME NEW o \in AgentOps, NEW n \in o.names, NEW k, NEW r \in Reads(k), r \in o.writes,
           <<n, k>> \notin LeftStale
    PROVE k \in o.invalidates
  <1>1. k \in {"todo"} => ~(n \in {"agents:create", "agents:update", "agents:delete", "todos:create", "todos:set_priority", "todos:delete"})
    BY StalePolled
  <1> QED
    BY ReadsAre, <1>1 DEF AgentOps, Ops
LEMMA ModelOpsListed ==
    ASSUME NEW o \in ModelOps, NEW n \in o.names, NEW k, NEW r \in Reads(k), r \in o.writes,
           <<n, k>> \notin LeftStale
    PROVE k \in o.invalidates
  <1>1. k \in {"agents", "todos", "todo"} => ~(n \in {"models:create", "models:update", "models:delete", "models:pause", "models:resume"})
    BY StaleModels
  <1> QED
    BY ReadsAre, <1>1 DEF ModelOps, Ops
LEMMA ScheduleOpsListed ==
    ASSUME NEW o \in ScheduleOps, NEW n \in o.names, NEW k, NEW r \in Reads(k), r \in o.writes,
           <<n, k>> \notin LeftStale
    PROVE k \in o.invalidates
  <1> QED
    BY ReadsAre DEF ScheduleOps, Ops
LEMMA ReportOpsListed ==
    ASSUME NEW o \in ReportOps, NEW n \in o.names, NEW k, NEW r \in Reads(k), r \in o.writes,
           <<n, k>> \notin LeftStale
    PROVE k \in o.invalidates
  <1>1. k \in {"schedule-occurrences"} => ~(n = "schedules:create")
    BY StaleCadence
  <1> QED
    BY ReadsAre, <1>1 DEF ReportOps, Ops
LEMMA VaultOpsListed ==
    ASSUME NEW o \in VaultOps, NEW n \in o.names, NEW k, NEW r \in Reads(k), r \in o.writes,
           <<n, k>> \notin LeftStale
    PROVE k \in o.invalidates
  <1>1. k \in {"wiki-latest-audit"} => ~(n \in {"wiki:audit", "wiki:accept_suggestion", "wiki:dismiss_suggestion"})
    BY StaleAudits
  <1>2. k \in {"wiki-open-audit-counts"} => ~(n \in {"wiki:accept_suggestion", "wiki:dismiss_suggestion"})
    BY StaleCounts
  <1> QED
    BY ReadsAre, <1>1, <1>2 DEF VaultOps, Ops
LEMMA SourceOpsListed ==
    ASSUME NEW o \in SourceOps, NEW n \in o.names, NEW k, NEW r \in Reads(k), r \in o.writes,
           <<n, k>> \notin LeftStale
    PROVE k \in o.invalidates
  <1>1. k \in {"sources"} => ~(n = "sources:put_extracted")
    BY StaleEdited
  <1>2. k \in {"source-tags", "source-tag-counts"} => ~(n = "sources:delete")
    BY StaleDeleted
  <1> QED
    BY ReadsAre, <1>1, <1>2 DEF SourceOps, Ops
LEMMA TagOpsListed ==
    ASSUME NEW o \in TagOps, NEW n \in o.names, NEW k, NEW r \in Reads(k), r \in o.writes,
           <<n, k>> \notin LeftStale
    PROVE k \in o.invalidates
  <1> QED
    BY ReadsAre DEF TagOps, Ops
LEMMA IngestOpsListed ==
    ASSUME NEW o \in IngestOps, NEW n \in o.names, NEW k, NEW r \in Reads(k), r \in o.writes,
           <<n, k>> \notin LeftStale
    PROVE k \in o.invalidates
  <1>1. k \in {"source-tag-counts"} => ~(n = "upload")
    BY StaleUploaded
  <1> QED
    BY ReadsAre, <1>1 DEF IngestOps, Ops
LEMMA WorkspaceOpsListed ==
    ASSUME NEW o \in WorkspaceOps, NEW n \in o.names, NEW k, NEW r \in Reads(k), r \in o.writes,
           <<n, k>> \notin LeftStale
    PROVE k \in o.invalidates
  <1>1. k \in {"workspace-members", "vault-access", "user-directory", "guests"} => ~(n \in {"workspaces:create", "create_user", "users:invite"})
    BY StaleJoining
  <1>2. k \in {"user-access", "org-graph"} => ~(n \in {"workspaces:create", "workspaces:update", "workspaces:archive", "workspaces:delete", "projects:move", "projects:set_mode", "projects:rename", "projects:archive", "create_project"})
    BY StaleBoards
  <1>3. k \in {"guests"} => ~(n \in {"projects:move", "projects:set_mode", "projects:rename", "projects:archive", "create_project"})
    BY StaleVaults
  <1> QED
    BY ReadsAre, <1>1, <1>2, <1>3 DEF WorkspaceOps, Ops, Overview
LEMMA MemberOpsListed ==
    ASSUME NEW o \in MemberOps, NEW n \in o.names, NEW k, NEW r \in Reads(k), r \in o.writes,
           <<n, k>> \notin LeftStale
    PROVE k \in o.invalidates
  <1>1. k \in {"user-directory"} => ~(n \in {"vault_access:add_guest", "vault_access:set_guest_role", "vault_access:remove_guest", "guests:invite", "workspace_members:set_role"})
    BY StaleDirectory
  <1>2. k \in {"vault-access", "guests"} => ~(n \in {"workspace_members:add", "workspace_members:remove", "workspace_members:set_role"})
    BY StaleMembers
  <1> QED
    BY ReadsAre, <1>1, <1>2 DEF MemberOps, Ops, MemberKeys
LEMMA AccessOpsListed ==
    ASSUME NEW o \in AccessOps, NEW n \in o.names, NEW k, NEW r \in Reads(k), r \in o.writes,
           <<n, k>> \notin LeftStale
    PROVE k \in o.invalidates
  <1>1. k \in {"user-directory"} => ~(n \in {"vault_access:add_guest", "vault_access:set_guest_role", "vault_access:remove_guest", "guests:invite", "workspace_members:set_role"})
    BY StaleDirectory
  <1>2. k \in {"user-access"} => ~(n \in {"vault_access:add_guest", "vault_access:set_guest_role", "vault_access:remove_guest", "guests:invite"})
    BY StaleGrants
  <1> QED
    BY ReadsAre, <1>1, <1>2 DEF AccessOps, Ops
LEMMA GuestOpsListed ==
    ASSUME NEW o \in GuestOps, NEW n \in o.names, NEW k, NEW r \in Reads(k), r \in o.writes,
           <<n, k>> \notin LeftStale
    PROVE k \in o.invalidates
  <1>1. k \in {"user-directory"} => ~(n \in {"vault_access:add_guest", "vault_access:set_guest_role", "vault_access:remove_guest", "guests:invite", "workspace_members:set_role"})
    BY StaleDirectory
  <1>2. k \in {"user-access"} => ~(n \in {"vault_access:add_guest", "vault_access:set_guest_role", "vault_access:remove_guest", "guests:invite"})
    BY StaleGrants
  <1>3. k \in {"vault-access"} => ~(n = "guests:invite")
    BY StaleGuest
  <1> QED
    BY ReadsAre, <1>1, <1>2, <1>3 DEF GuestOps, Ops
LEMMA PeopleOpsListed ==
    ASSUME NEW o \in PeopleOps, NEW n \in o.names, NEW k, NEW r \in Reads(k), r \in o.writes,
           <<n, k>> \notin LeftStale
    PROVE k \in o.invalidates
  <1>1. k \in {"workspaces-overview"} => ~(n = "create_user")
    BY StaleCreated
  <1>2. k \in {"workspace-members", "vault-access", "user-directory", "guests"} => ~(n \in {"workspaces:create", "create_user", "users:invite"})
    BY StaleJoining
  <1>3. k \in {"user-access"} => ~(n \in {"create_user", "set_user_role", "transfer_ownership"})
    BY StaleRoles
  <1>4. k \in {"guests", "org-graph"} => ~(n = "users:resend_invite")
    BY StaleResent
  <1>5. k \in {"guests"} => ~(n = "users:revoke_invite")
    BY StaleRevoked
  <1> QED
    BY ReadsAre, <1>1, <1>2, <1>3, <1>4, <1>5 DEF PeopleOps, Ops
LEMMA GroupOpsListed ==
    ASSUME NEW o \in GroupOps, NEW n \in o.names, NEW k, NEW r \in Reads(k), r \in o.writes,
           <<n, k>> \notin LeftStale
    PROVE k \in o.invalidates
  <1> QED
    BY ReadsAre DEF GroupOps, Ops
LEMMA OwnOpsListed ==
    ASSUME NEW o \in OwnOps, NEW n \in o.names, NEW k, NEW r \in Reads(k), r \in o.writes,
           <<n, k>> \notin LeftStale
    PROVE k \in o.invalidates
  <1>1. k \in {"users", "org-graph"} => ~(n = "update_profile")
    BY StaleProfile
  <1> QED
    BY ReadsAre, <1>1 DEF OwnOps, Ops
-----------------------------------------------------------------------------
(* The hooks' table: an operation that changes what a query reads, and is  *)
(* not left to the query's next fetch, invalidates it.                     *)

LEMMA OperationListed ==
    ASSUME NEW o \in Operations, NEW n \in o.names, NEW k, o.writes \cap Reads(k) # {},
           <<n, k>> \notin LeftStale
    PROVE k \in o.invalidates
  <1>1. PICK r \in Reads(k) : r \in o.writes
    OBVIOUS
  <1> QED
    BY <1>1, AgentOpsListed, ModelOpsListed, ScheduleOpsListed, ReportOpsListed, VaultOpsListed,
       SourceOpsListed, TagOpsListed, IngestOpsListed, WorkspaceOpsListed, MemberOpsListed,
       AccessOpsListed, GuestOpsListed, PeopleOpsListed, GroupOpsListed, OwnOpsListed
    DEF Operations

CallsMade == [stage : {"sent", "written", "done"}, wrote : Nat, refreshes : BOOLEAN, promised : BOOLEAN]
FetchRows == [read : Nat \cup {None}, missed : BOOLEAN]

\* Neither a version nor a fetch is None.
NoneApart == None \notin Nat /\ None \notin FetchRows

CacheTypes ==
    /\ truth \in Nat /\ own \in Nat /\ own <= truth
    /\ data \in Nat \cup {None} /\ fetch \in FetchRows \cup {None}
    /\ marked \in BOOLEAN /\ failed \in BOOLEAN /\ mounted \in BOOLEAN /\ overtaken \in BOOLEAN
    /\ calls \in Seq(CallsMade)

\* A call wrote a version that exists, and one whose write the hooks promise to show
\* invalidates the query.
PromiseKept == \A i \in DOMAIN calls : calls[i].wrote <= truth /\ (calls[i].promised => calls[i].refreshes)

\* A running fetch that was answered, and that no invalidation left running, read everything
\* this tab was told of.
FetchFresh == fetch # None /\ fetch.read # None /\ ~fetch.missed => fetch.read >= own

\* Data that nothing marked is as new as what the tab was told.
DataFresh == fetch = None /\ ~failed /\ ~overtaken /\ data # None /\ ~marked => data >= own

\* A mounted query at rest failed, or has data that nothing marked.
RestShown == mounted /\ fetch = None => failed \/ (data # None /\ ~marked)

CacheKept == CacheTypes /\ PromiseKept /\ FetchFresh /\ DataFresh /\ RestShown

LEMMA CacheStarts == ASSUME CacheInit PROVE CacheKept
  <1>1. truth = 0 /\ own = 0 /\ data = None /\ marked = FALSE /\ failed = FALSE
    BY DEF CacheInit
  <1>2. mounted = FALSE /\ fetch = None /\ overtaken = FALSE /\ calls = <<>>
    BY DEF CacheInit
  <1>3. calls \in Seq(CallsMade) /\ DOMAIN calls = {}
    BY <1>2
  <1>4. CacheTypes
    <2>1. truth \in Nat /\ own \in Nat /\ own <= truth /\ data \in Nat \cup {None} /\ fetch \in FetchRows \cup {None}
      BY <1>1, <1>2
    <2>2. marked \in BOOLEAN /\ failed \in BOOLEAN /\ mounted \in BOOLEAN /\ overtaken \in BOOLEAN
      BY <1>1, <1>2
    <2> QED
      BY <1>3, <2>1, <2>2 DEF CacheTypes
  <1> QED
    BY <1>1, <1>2, <1>3, <1>4 DEF CacheKept, PromiseKept, FetchFresh, DataFresh, RestShown

LEMMA CacheCallStarts ==
    ASSUME NoneApart, CacheKept, Mutate
    PROVE CacheKept'
  <1> USE DEF CacheKept
  <1>1. PICK o \in Mutations : \E n \in o.names :
            calls' = Append(calls, [stage |-> "sent", wrote |-> 0, refreshes |-> Refreshes(o),
                                    promised |-> <<n, watched>> \notin LeftStale])
    BY DEF Mutate
  <1>2. PICK n \in o.names :
            calls' = Append(calls, [stage |-> "sent", wrote |-> 0, refreshes |-> Refreshes(o),
                                    promised |-> <<n, watched>> \notin LeftStale])
    BY <1>1
  <1>3. PICK b \in BOOLEAN : b <=> Refreshes(o)
    OBVIOUS
  <1>4. PICK p \in BOOLEAN : p <=> <<n, watched>> \notin LeftStale
    OBVIOUS
  <1>5. p => b
    BY <1>1, <1>2, <1>3, <1>4, OperationListed DEF Mutations, Refreshes
  <1>6. b = Refreshes(o) /\ p = (<<n, watched>> \notin LeftStale)
    BY <1>3, <1>4 DEF Refreshes
  <1>7. PICK c \in CallsMade : c = [stage |-> "sent", wrote |-> 0, refreshes |-> b, promised |-> p]
    BY DEF CallsMade
  <1>8. calls' = Append(calls, c)
    BY <1>2, <1>6, <1>7
  <1>9. calls' \in Seq(CallsMade) /\ PromiseKept'
    <2>1. \A i \in DOMAIN calls' : \/ i \in DOMAIN calls /\ calls'[i] = calls[i]
                                   \/ calls'[i] = c
      BY <1>8 DEF CacheTypes
    <2>2. truth' = truth
      BY DEF Mutate
    <2>3. c.wrote = 0 /\ (c.promised => c.refreshes)
      BY <1>5, <1>7
    <2>4. calls' \in Seq(CallsMade)
      BY <1>8 DEF CacheTypes
    <2> QED
      BY <2>1, <2>2, <2>3, <2>4 DEF PromiseKept, CacheTypes
  <1> QED
    BY <1>9 DEF Mutate, CacheTypes, FetchFresh, DataFresh, RestShown

LEMMA CacheCallStored ==
    ASSUME CacheKept, NEW i \in DOMAIN calls, NEW s \in {"sent", "written", "done"}, NEW w \in Nat,
           w <= truth', truth' \in Nat, truth <= truth',
           calls' = [calls EXCEPT ![i] = [calls[i] EXCEPT !.stage = s, !.wrote = w]]
    PROVE calls' \in Seq(CallsMade) /\ PromiseKept'
  <1> USE DEF CacheKept
  <1> DEFINE c == [calls[i] EXCEPT !.stage = s, !.wrote = w]
  <1>1. calls \in [1..Len(calls) -> CallsMade] /\ Len(calls) \in Nat /\ calls[i] \in CallsMade
    BY DEF CacheTypes
  <1>5. c \in CallsMade
    BY <1>1 DEF CallsMade
  <1>6. c.wrote = w /\ c.promised = calls[i].promised /\ c.refreshes = calls[i].refreshes
    BY <1>1 DEF CallsMade
  <1>7. calls' = [calls EXCEPT ![i] = c]
    OBVIOUS
  <1> HIDE DEF c
  <1>2. calls' \in [1..Len(calls) -> CallsMade] /\ DOMAIN calls' = DOMAIN calls
    BY <1>1, <1>5, <1>7
  <1>3. calls' \in Seq(CallsMade)
    <2> HIDE DEF CallsMade
    <2>1. Seq(CallsMade) = UNION {[1..m -> CallsMade] : m \in Nat}
      OBVIOUS
    <2> QED
      BY <1>1, <1>2
  <1>4. PromiseKept'
    <2> SUFFICES ASSUME NEW j \in DOMAIN calls
                 PROVE calls'[j].wrote <= truth' /\ (calls'[j].promised => calls'[j].refreshes)
      BY <1>2 DEF PromiseKept
    <2>1. calls'[j] = IF j = i THEN c ELSE calls[j]
      BY <1>1, <1>7
    <2>2. calls[j] \in CallsMade /\ calls[j].wrote <= truth /\ (calls[j].promised => calls[j].refreshes)
      BY <1>1 DEF PromiseKept
    <2>3. calls[i].promised => calls[i].refreshes
      BY DEF PromiseKept
    <2>4. calls[j].wrote \in Nat
      BY <2>2 DEF CallsMade
    <2>5. CASE j = i
      BY <1>6, <2>1, <2>3, <2>5
    <2>6. CASE j # i
      BY <2>1, <2>2, <2>4, <2>6 DEF CacheTypes
    <2> QED
      BY <2>5, <2>6
  <1> QED
    BY <1>3, <1>4

\* The invalidation of a query, with the calls and the tab's newest version moved to <<calls', own'>>.
LEMMA CacheCallReturns ==
    ASSUME NoneApart, CacheKept, NEW i \in DOMAIN calls, MutateReturns(i)
    PROVE CacheKept'
  <1> USE DEF CacheKept
  <1>1. calls[i] \in CallsMade /\ calls[i].wrote \in Nat /\ calls[i].wrote <= truth
        /\ (calls[i].promised => calls[i].refreshes)
    <2>1. calls[i] \in CallsMade
      BY DEF CacheTypes
    <2> QED
      BY <2>1 DEF PromiseKept, CallsMade
  <1>2. calls' \in Seq(CallsMade) /\ PromiseKept'
    <2>1. calls' = [calls EXCEPT ![i] = [calls[i] EXCEPT !.stage = "done", !.wrote = 0]] /\ truth' = truth
      BY DEF MutateReturns
    <2>2. 0 \in Nat /\ 0 <= truth' /\ truth' \in Nat /\ truth <= truth'
      BY <2>1 DEF CacheTypes
    <2> QED
      BY <2>1, <2>2, CacheCallStored
  <1>3. own' \in Nat /\ own' <= truth /\ (own' = own \/ calls[i].promised)
    BY <1>1 DEF MutateReturns, CacheTypes
  <1>4. UNCHANGED <<truth, data, failed, mounted, overtaken>>
    BY DEF MutateReturns
  <1>5. CASE ~calls[i].refreshes
    <2>1. own' = own /\ UNCHANGED <<marked, fetch>>
      BY <1>1, <1>3, <1>5 DEF MutateReturns
    <2> QED
      BY <1>2, <1>4, <2>1 DEF CacheTypes, FetchFresh, DataFresh, RestShown
  <1>6. CASE calls[i].refreshes
    <2>1. Invalidate
      BY <1>6 DEF MutateReturns
    <2>2. marked' \in BOOLEAN /\ fetch' \in FetchRows \cup {None}
      BY <2>1 DEF Invalidate, NewFetch, FetchRows, CacheTypes
    <2>3. FetchFresh'
      <3>1. fetch' # None => fetch'.missed \/ fetch'.read = None
        BY <2>1, <1>4 DEF Invalidate, NewFetch, FetchRows, CacheTypes, RestShown
      <3> QED
        BY <3>1 DEF FetchFresh
    <2>4. DataFresh'
      BY <2>1, <1>4 DEF Invalidate, DataFresh
    <2>5. RestShown'
      <3>1. NewFetch # None
        <4>1. NewFetch \in FetchRows
          BY DEF NewFetch, FetchRows
        <4> QED
          BY <4>1 DEF NoneApart
      <3>2. fetch # None => [fetch EXCEPT !.missed = TRUE] # None
        BY DEF NoneApart, FetchRows, CacheTypes
      <3> QED
        BY <2>1, <1>4, <3>1, <3>2 DEF Invalidate, RestShown
    <2> QED
      BY <1>2, <1>3, <1>4, <2>2, <2>3, <2>4, <2>5 DEF CacheTypes
  <1> QED
    BY <1>5, <1>6

LEMMA CacheCallMoves ==
    ASSUME NoneApart, CacheKept, NEW i \in DOMAIN calls, MutateServed(i) \/ MutateFails(i)
    PROVE CacheKept'
  <1> USE DEF CacheKept
  <1>1. truth' \in Nat /\ truth <= truth'
    BY DEF MutateServed, MutateFails, CacheTypes
  <1>2. calls' \in Seq(CallsMade) /\ PromiseKept'
    <2>1. CASE MutateServed(i)
      <3>1. calls' = [calls EXCEPT ![i] = [calls[i] EXCEPT !.stage = "written", !.wrote = truth + 1]] /\ truth' = truth + 1
        BY <2>1 DEF MutateServed
      <3>2. truth + 1 \in Nat /\ truth + 1 <= truth'
        BY <3>1 DEF CacheTypes
      <3> QED
        BY <1>1, <3>1, <3>2, CacheCallStored
    <2>2. CASE MutateFails(i)
      <3>1. calls' = [calls EXCEPT ![i] = [calls[i] EXCEPT !.stage = "done", !.wrote = 0]] /\ truth' = truth
        BY <2>2 DEF MutateFails
      <3>2. 0 \in Nat /\ 0 <= truth'
        BY <3>1 DEF CacheTypes
      <3> QED
        BY <1>1, <3>1, <3>2, CacheCallStored
    <2> QED
      BY <2>1, <2>2
  <1>3. UNCHANGED <<data, marked, failed, mounted, fetch, overtaken, own>>
    BY DEF MutateServed, MutateFails
  <1> QED
    BY <1>1, <1>2, <1>3 DEF CacheTypes, FetchFresh, DataFresh, RestShown

LEMMA CacheMoves ==
    ASSUME NoneApart, CacheKept,
           \/ Mount \/ Unmount \/ Age \/ Collect \/ Poll
           \/ FetchServed \/ FetchReturns \/ FetchFails \/ Foreign
    PROVE CacheKept'
  <1> USE DEF CacheKept
  <1>1. NewFetch \in FetchRows /\ NewFetch # None /\ NewFetch.read = None
    <2>1. NewFetch \in FetchRows /\ NewFetch.read = None
      BY DEF NewFetch, FetchRows
    <2> QED
      BY <2>1 DEF NoneApart
  <1>2. calls' = calls /\ own' = own /\ truth' \in Nat /\ truth <= truth'
    BY DEF Mount, Unmount, Age, Collect, Poll, FetchServed, FetchReturns, FetchFails, Foreign, CacheTypes
  <1>3. calls' \in Seq(CallsMade) /\ own' \in Nat /\ own' <= truth' /\ PromiseKept'
    <2>1. \A i \in DOMAIN calls : calls[i] \in CallsMade /\ calls[i].wrote \in Nat
      <3>1. \A i \in DOMAIN calls : calls[i] \in CallsMade
        BY DEF CacheTypes
      <3> QED
        BY <3>1 DEF CallsMade
    <2>2. PromiseKept'
      <3> SUFFICES ASSUME NEW i \in DOMAIN calls
                   PROVE calls[i].wrote <= truth' /\ (calls[i].promised => calls[i].refreshes)
        BY <1>2 DEF PromiseKept
      <3> QED
        BY <1>2, <2>1 DEF PromiseKept, CacheTypes
    <2> QED
      BY <1>2, <2>2 DEF CacheTypes
  <1> SUFFICES /\ data' \in Nat \cup {None} /\ fetch' \in FetchRows \cup {None}
               /\ marked' \in BOOLEAN /\ failed' \in BOOLEAN /\ mounted' \in BOOLEAN /\ overtaken' \in BOOLEAN
               /\ FetchFresh' /\ DataFresh' /\ RestShown'
    BY <1>2, <1>3 DEF CacheTypes
  <1> USE DEF CacheTypes, FetchFresh, DataFresh, RestShown
  <1>4. CASE Mount
    BY <1>1, <1>4 DEF Mount
  <1>5. CASE Unmount
    BY <1>5 DEF Unmount
  <1>12. CASE Age
    BY <1>12 DEF Age
  <1>10. CASE Collect
    BY <1>10 DEF Collect
  <1>11. CASE Foreign
    <2>1. UNCHANGED <<data, marked, failed, mounted, fetch, overtaken, own>>
      BY <1>11 DEF Foreign
    <2> QED
      BY <2>1
  <1>6. CASE Poll
    BY <1>1, <1>6 DEF Poll
  <1>7. CASE FetchServed
    BY <1>7 DEF FetchServed, FetchRows, NoneApart
  <1>8. CASE FetchReturns
    BY <1>8 DEF FetchReturns, FetchRows, NoneApart
  <1>9. CASE FetchFails
    BY <1>9 DEF FetchFails
  <1> QED
    BY <1>4, <1>5, <1>6, <1>7, <1>8, <1>9, <1>10, <1>11, <1>12

LEMMA CacheStep == ASSUME NoneApart, CacheKept, [CacheNext]_cacheVars PROVE CacheKept'
  <1>1. CASE UNCHANGED cacheVars
    BY <1>1 DEF cacheVars, CacheKept, CacheTypes, PromiseKept, FetchFresh, DataFresh, RestShown
  <1>2. CASE Mutate
    BY <1>2, CacheCallStarts
  <1>3. CASE \E i \in DOMAIN calls : MutateServed(i) \/ MutateReturns(i) \/ MutateFails(i)
    BY <1>3, CacheCallMoves, CacheCallReturns
  <1> QED
    BY <1>1, <1>2, <1>3, CacheMoves DEF CacheNext

-----------------------------------------------------------------------------
(* The selection of workspace and vault.                                   *)

AllWs == DOMAIN VaultsOf
AllVaults == UNION {Selection!Elements(VaultsOf[w]) : w \in AllWs}
Scopings == Users \cup {Global}
StoredChoices == [ws : AllWs \cup {None}, vault : AllVaults \cup {None}]
Renders == [scope : Scopings, loaded : Scopings, ws : AllWs \cup {None}, vault : AllVaults \cup {None},
            list : Seq(AllWs) \cup {None}, vaults : SUBSET AllWs]

\* The server answers a user with lists of workspaces, and a workspace with its vaults.
ServerAnswers ==
    /\ Lists \in [Users -> SUBSET Seq(AllWs)]
    /\ \A w \in AllWs : VaultsOf[w] \in Seq(AllVaults)
\* None is nobody, no scope and no render.
NobodyApart == None \notin Users /\ Global \notin Users /\ None \notin Renders

VaultsFor(u) == UNION {Selection!Elements(VaultsOf[w]) : w \in Selection!WsOf(u)}

SelectionTypes ==
    /\ user \in Users \cup {None} /\ me \in {user, None}
    /\ wsList # None => user # None /\ wsList \in Lists[user]
    /\ loadedVaults \subseteq AllWs
    /\ \A w \in loadedVaults : user # None /\ w \in Selection!WsOf(user)
    /\ activeWs \in AllWs \cup {None} /\ activeVault \in AllVaults \cup {None}
    /\ loadedScope \in Scopings
    /\ stored \in [Scopings -> StoredChoices]
\* The effects of the last render ran for the scope the selection was loaded for.
RenderedLoads ==
    /\ rendered # None => rendered.scope = loadedScope
    /\ rendered = None => loadedScope = Global /\ me = None /\ wsList = None
\* What is loaded for a user is that user's.
LoadedIsOwn ==
    loadedScope \in Users =>
        /\ activeWs \in Selection!WsOf(loadedScope) \cup {None}
        /\ activeVault \in VaultsFor(loadedScope) \cup {None}

SelectionInv == SelectionTypes /\ RenderedLoads /\ LoadedIsOwn /\ Selection!SelectionSafe

LEMMA OwnWorkspaces ==
    ASSUME ServerAnswers, NEW u \in Users
    PROVE  /\ Selection!WsOf(u) \subseteq AllWs /\ VaultsFor(u) \subseteq AllVaults
           /\ \A l \in Lists[u] : Selection!Elements(l) \subseteq Selection!WsOf(u)
  <1>1. \A l \in Lists[u] : l \in Seq(AllWs)
    BY DEF ServerAnswers
  <1>2. \A l \in Lists[u] : Selection!Elements(l) \subseteq Selection!WsOf(u)
    BY DEF Selection!WsOf
  <1>3. \A l \in Lists[u] : Selection!Elements(l) \subseteq AllWs
    BY <1>1 DEF Selection!Elements
  <1>4. Selection!WsOf(u) \subseteq AllWs
    BY <1>3 DEF Selection!WsOf
  <1> QED BY <1>2, <1>4 DEF VaultsFor, AllVaults

\* A list that is not empty has a first element, and the list of a workspace's vaults its own.
LEMMA FirstIsListed ==
    ASSUME NEW S, NEW l \in Seq(S), l # <<>>
    PROVE  l[1] \in Selection!Elements(l)
  BY DEF Selection!Elements

LEMMA NoneInEmpty == Selection!Elements(<<>>) = {}
  BY DEF Selection!Elements

LEMMA SelectionStarts == ASSUME NobodyApart PROVE Selection!SelectionInit => SelectionInv
  <1> SUFFICES ASSUME Selection!SelectionInit PROVE SelectionInv
    OBVIOUS
  <1>1. stored = [s \in Scopings |-> [ws |-> None, vault |-> None]]
    BY DEF Selection!SelectionInit, Selection!NoSelection, Scopings
  <1>2. SelectionTypes
    BY <1>1 DEF Selection!SelectionInit, SelectionTypes, Scopings, StoredChoices
  <1>3. RenderedLoads /\ LoadedIsOwn
    BY DEF Selection!SelectionInit, RenderedLoads, LoadedIsOwn, NobodyApart
  <1>4. Selection!SelectionSafe
    BY <1>1 DEF Selection!SelectionInit, Selection!SelectionSafe, Selection!OwnSelection,
                Selection!SelectionHeals, Scopings
  <1> QED BY <1>2, <1>3, <1>4 DEF SelectionInv

\* What the effects run on is a render, and the scope is known.
LEMMA InputsRender ==
    ASSUME ServerAnswers, NobodyApart, SelectionTypes
    PROVE  /\ Selection!Inputs \in Renders /\ Selection!Inputs # None
           /\ Selection!Scope \in Scopings
           /\ Selection!Scope \in Users => user = Selection!Scope /\ me = user
  <1>1. Selection!Scope \in Scopings /\ (Selection!Scope \in Users => user = Selection!Scope /\ me = user)
    BY DEF Selection!Scope, SelectionTypes, NobodyApart, Scopings
  <1>2. wsList \in Seq(AllWs) \cup {None}
    BY DEF ServerAnswers, SelectionTypes
  <1>3. Selection!Inputs \in Renders
    BY <1>1, <1>2 DEF Selection!Inputs, Renders, SelectionTypes
  <1> QED BY <1>1, <1>3 DEF NobodyApart

\* Events are taken between renders, for the scope that is loaded.
LEMMA EventScope ==
    ASSUME ServerAnswers, NobodyApart, SelectionInv, Selection!Ready
    PROVE  /\ Selection!Scope = loadedScope
           /\ loadedScope \in Users => user = loadedScope
  <1>1. rendered # None /\ rendered.scope = Selection!Scope
    BY InputsRender DEF Selection!Ready, SelectionInv, Selection!Inputs
  <1> QED
    BY <1>1, InputsRender DEF SelectionInv, RenderedLoads

\* What the pages below fall back to is of the workspace.
LEMMA ShownVault ==
    ASSUME ServerAnswers, SelectionTypes
    PROVE  /\ \/ Selection!ActiveVault \in {activeVault, None}
              \/ activeWs \in loadedVaults /\ Selection!ActiveVault \in Selection!Elements(VaultsOf[activeWs])
           /\ activeWs \in loadedVaults /\ Selection!ActiveVault = activeVault =>
                  IF VaultsOf[activeWs] = <<>> THEN activeVault = None
                  ELSE activeVault \in Selection!Elements(VaultsOf[activeWs])
  <1>1. CASE activeWs \notin loadedVaults \/ activeVault \in Selection!Elements(VaultsOf[activeWs])
    BY <1>1, NoneInEmpty DEF Selection!ActiveVault
  <1>2. CASE activeWs \in loadedVaults /\ activeVault \notin Selection!Elements(VaultsOf[activeWs])
    <2>1. VaultsOf[activeWs] \in Seq(AllVaults)
      BY <1>2 DEF ServerAnswers, SelectionTypes
    <2>2. CASE VaultsOf[activeWs] = <<>>
      BY <1>2, <2>2 DEF Selection!ActiveVault
    <2>3. CASE VaultsOf[activeWs] # <<>>
      BY <1>2, <2>1, <2>3, FirstIsListed DEF Selection!ActiveVault
    <2> QED BY <2>2, <2>3
  <1> QED BY <1>1, <1>2

\* What an effect selects is of the scope it loads.
LEMMA EffectsSelect ==
    ASSUME ServerAnswers, NobodyApart, SelectionInv, Selection!Effects
    PROVE  /\ activeWs' \in AllWs \cup {None} /\ activeVault' \in AllVaults \cup {None}
           /\ LoadedIsOwn'
  <1> DEFINE entered == rendered = None \/ rendered.scope # Selection!Scope
  <1>1. loadedScope' = Selection!Scope
    BY DEF Selection!Effects
  <1>2. CASE entered
    <2>1. activeWs' = stored[Selection!Scope].ws /\ activeVault' = stored[Selection!Scope].vault
      BY <1>2 DEF Selection!Effects
    <2>2. stored[Selection!Scope] \in StoredChoices
      BY InputsRender DEF SelectionInv, SelectionTypes
    <2>3. Selection!Scope \in Users =>
              /\ stored[Selection!Scope].ws \in Selection!WsOf(Selection!Scope) \cup {None}
              /\ stored[Selection!Scope].vault \in VaultsFor(Selection!Scope) \cup {None}
      BY DEF SelectionInv, Selection!SelectionSafe, Selection!OwnSelection, VaultsFor
    <2> QED BY <1>1, <2>1, <2>2, <2>3 DEF StoredChoices, LoadedIsOwn
  <1>3. CASE ~entered
    <2>1. activeWs' = (IF Selection!FallsBack THEN wsList[1] ELSE activeWs)
          /\ activeVault' = (IF Selection!ActiveVault # activeVault THEN Selection!ActiveVault
                             ELSE IF Selection!FallsBack THEN None ELSE activeVault)
      BY <1>3 DEF Selection!Effects
    <2>2. loadedScope = Selection!Scope
      BY <1>3 DEF SelectionInv, RenderedLoads
    <2>3. Selection!FallsBack =>
              /\ user \in Users /\ wsList[1] \in AllWs
              /\ wsList[1] \in Selection!WsOf(user)
      <3> SUFFICES ASSUME Selection!FallsBack PROVE user \in Users /\ wsList[1] \in AllWs /\ wsList[1] \in Selection!WsOf(user)
        OBVIOUS
      <3>1. user \in Users /\ wsList \in Lists[user] /\ wsList # <<>>
        BY DEF Selection!FallsBack, SelectionInv, SelectionTypes
      <3>2. wsList \in Seq(AllWs)
        BY <3>1 DEF ServerAnswers
      <3> QED BY <3>1, <3>2, FirstIsListed, OwnWorkspaces
    <2>4. activeWs \in loadedVaults => user \in Users /\ activeWs \in Selection!WsOf(user)
      BY DEF SelectionInv, SelectionTypes
    <2>5. Selection!ActiveVault \in {activeVault, None}
          \/ (user \in Users /\ Selection!ActiveVault \in VaultsFor(user))
      BY <2>4, ShownVault DEF SelectionInv, VaultsFor
    <2>6. Selection!ActiveVault \in AllVaults \cup {None}
      BY <2>5, OwnWorkspaces DEF SelectionInv, SelectionTypes
    <2>7. activeWs' \in AllWs \cup {None} /\ activeVault' \in AllVaults \cup {None}
      BY <2>1, <2>3, <2>6 DEF SelectionInv, SelectionTypes
    <2>8. ASSUME Selection!Scope \in Users
          PROVE  /\ activeWs' \in Selection!WsOf(Selection!Scope) \cup {None}
                 /\ activeVault' \in VaultsFor(Selection!Scope) \cup {None}
      <3>1. user = Selection!Scope
        BY <2>8, InputsRender DEF SelectionInv
      <3>2. activeWs \in Selection!WsOf(Selection!Scope) \cup {None} /\ activeVault \in VaultsFor(Selection!Scope) \cup {None}
        BY <2>2, <2>8 DEF SelectionInv, LoadedIsOwn
      <3> QED BY <2>1, <2>3, <2>5, <3>1, <3>2
    <2> QED BY <1>1, <2>7, <2>8 DEF LoadedIsOwn
  <1> QED BY <1>2, <1>3

\* Nothing is stored for a user but what was loaded for that user, or chosen since.
LEMMA EffectsStore ==
    ASSUME ServerAnswers, NobodyApart, SelectionInv, Selection!Effects
    PROVE  stored' \in [Scopings -> StoredChoices] /\ Selection!OwnSelection'
  <1>1. CASE Selection!Stores(Selection!Scope)
    <2>1. stored' = [stored EXCEPT ![Selection!Scope] = [ws |-> activeWs, vault |-> activeVault]]
      BY <1>1 DEF Selection!Effects
    <2>2. Selection!Scope \in Scopings /\ stored \in [Scopings -> StoredChoices]
          /\ [ws |-> activeWs, vault |-> activeVault] \in StoredChoices
      BY InputsRender DEF SelectionInv, SelectionTypes, StoredChoices
    <2>3. stored' \in [Scopings -> StoredChoices]
          /\ \A s \in Scopings : stored'[s] = IF s = Selection!Scope THEN [ws |-> activeWs, vault |-> activeVault] ELSE stored[s]
      BY <2>1, <2>2
    <2>4. ASSUME NEW u \in Users
          PROVE  /\ stored'[u].ws \in Selection!WsOf(u) \cup {None}
                 /\ stored'[u].vault \in VaultsFor(u) \cup {None}
      <3>1. u \in Scopings
        BY DEF Scopings
      <3>2. CASE u = Selection!Scope
        <4>1. u = loadedScope
          BY <1>1, <3>2 DEF Selection!Stores
        <4> QED BY <2>3, <3>1, <3>2, <4>1 DEF SelectionInv, LoadedIsOwn
      <3>3. CASE u # Selection!Scope
        BY <2>3, <3>1, <3>3 DEF SelectionInv, Selection!SelectionSafe, Selection!OwnSelection, VaultsFor
      <3> QED BY <3>2, <3>3
    <2> QED BY <2>3, <2>4 DEF Selection!OwnSelection, VaultsFor
  <1>2. CASE ~Selection!Stores(Selection!Scope)
    <2>1. stored' = stored
      BY <1>2 DEF Selection!Effects
    <2> QED BY <2>1 DEF SelectionInv, SelectionTypes, Selection!SelectionSafe, Selection!OwnSelection
  <1> QED BY <1>1, <1>2

\* When the effects of a render change nothing that they depend on, the selection has settled.
LEMMA EffectsSettle ==
    ASSUME ServerAnswers, NobodyApart, SelectionInv, Selection!Effects
    PROVE  Selection!SelectionHeals'
  <1> DEFINE entered == rendered = None \/ rendered.scope # Selection!Scope
  <1> SUFFICES ASSUME Selection!Ready', wsList' \notin {None, <<>>}
               PROVE  /\ activeWs' \in Selection!Elements(wsList')
                      /\ activeWs' \in loadedVaults' =>
                             IF VaultsOf[activeWs'] = <<>> THEN activeVault' = None
                             ELSE activeVault' \in Selection!Elements(VaultsOf[activeWs'])
    BY DEF Selection!SelectionHeals
  <1>1. UNCHANGED <<user, me, wsList, loadedVaults>> /\ rendered' = Selection!Inputs /\ loadedScope' = Selection!Scope
    BY DEF Selection!Effects
  <1>2. Selection!Inputs' = Selection!Inputs
    BY <1>1 DEF Selection!Ready
  <1>3. activeWs' = activeWs /\ activeVault' = activeVault /\ loadedScope' = loadedScope
    BY <1>2 DEF Selection!Inputs
  <1>4. ~entered
    BY <1>1, <1>3 DEF SelectionInv, RenderedLoads
  <1>5. activeWs = (IF Selection!FallsBack THEN wsList[1] ELSE activeWs)
        /\ activeVault = (IF Selection!ActiveVault # activeVault THEN Selection!ActiveVault
                          ELSE IF Selection!FallsBack THEN None ELSE activeVault)
    BY <1>3, <1>4 DEF Selection!Effects
  <1>6. activeWs \in Selection!Elements(wsList)
    <2>1. CASE Selection!FallsBack
      <3>1. user \in Users /\ wsList \in Lists[user] /\ wsList # <<>>
        BY <1>1 DEF SelectionInv, SelectionTypes
      <3>2. wsList \in Seq(AllWs)
        BY <3>1 DEF ServerAnswers
      <3> QED BY <1>5, <2>1, <3>1, <3>2, FirstIsListed
    <2>2. CASE ~Selection!FallsBack
      BY <1>1, <2>2 DEF Selection!FallsBack
    <2> QED BY <2>1, <2>2
  <1>7. Selection!ActiveVault = activeVault
    BY <1>5
  <1> QED BY <1>1, <1>3, <1>6, <1>7, ShownVault DEF SelectionInv

LEMMA EffectsKeep ==
    ASSUME ServerAnswers, NobodyApart, SelectionInv, Selection!Effects
    PROVE  SelectionInv'
  <1>1. UNCHANGED <<user, me, wsList, loadedVaults>> /\ rendered' = Selection!Inputs /\ loadedScope' = Selection!Scope
    BY DEF Selection!Effects
  <1>2. SelectionTypes'
    BY <1>1, EffectsSelect, EffectsStore, InputsRender DEF SelectionInv, SelectionTypes
  <1>3. RenderedLoads'
    BY <1>1, InputsRender DEF RenderedLoads, Selection!Inputs, SelectionInv
  <1> QED
    BY <1>2, <1>3, EffectsSelect, EffectsStore, EffectsSettle DEF SelectionInv, Selection!SelectionSafe

\* An event that is not the end of the tab is followed by a render.
LEMMA EventHeals ==
    ASSUME ServerAnswers, NobodyApart, SelectionInv, Selection!Ready, rendered' = rendered,
           \/ wsList' = None
           \/ UNCHANGED <<wsList, loadedVaults, activeWs, activeVault>>
           \/ Selection!Inputs' # Selection!Inputs
    PROVE  Selection!SelectionHeals'
  BY DEF Selection!SelectionHeals, Selection!Ready, SelectionInv, Selection!SelectionSafe

LEMMA SelectionStep ==
    ASSUME ServerAnswers, NobodyApart, SelectionInv, [Selection!SelectionNext]_(Selection!vars)
    PROVE  SelectionInv'
  <1>0. SelectionTypes /\ RenderedLoads /\ LoadedIsOwn /\ Selection!OwnSelection /\ Selection!SelectionHeals
    BY DEF SelectionInv, Selection!SelectionSafe
  <1>a. ASSUME SelectionTypes', RenderedLoads', LoadedIsOwn', Selection!SelectionHeals', stored' = stored
        PROVE  SelectionInv'
    BY <1>0, <1>a DEF SelectionInv, Selection!SelectionSafe, Selection!OwnSelection
  <1>1. CASE UNCHANGED Selection!vars
    BY <1>1 DEF Selection!vars, SelectionInv, SelectionTypes, RenderedLoads, LoadedIsOwn,
       Selection!SelectionSafe, Selection!OwnSelection, Selection!SelectionHeals, Selection!Ready,
       Selection!Inputs, Selection!Scope
  <1>2. CASE Selection!Effects
    BY <1>2, EffectsKeep
  <1>3. CASE Selection!SignOut
    <2>1. SelectionTypes' /\ LoadedIsOwn' /\ stored' = stored
      BY <1>0, <1>3 DEF Selection!SignOut, SelectionTypes, LoadedIsOwn
    <2>2. RenderedLoads'
      BY <1>0, <1>3 DEF Selection!SignOut, RenderedLoads
    <2>3. Selection!SelectionHeals'
      BY <1>3, EventHeals DEF Selection!SignOut
    <2> QED BY <1>a, <2>1, <2>2, <2>3
  <1>4. ASSUME NEW u \in Users, Selection!SignIn(u) PROVE SelectionInv'
    <2>1. SelectionTypes' /\ RenderedLoads' /\ LoadedIsOwn' /\ stored' = stored
      BY <1>0, <1>4 DEF Selection!SignIn, SelectionTypes, RenderedLoads, LoadedIsOwn
    <2>2. Selection!SelectionHeals'
      BY <1>4, EventHeals DEF Selection!SignIn
    <2> QED BY <1>a, <2>1, <2>2
  <1>5. CASE Selection!MeComes
    <2>1. SelectionTypes' /\ LoadedIsOwn' /\ stored' = stored
      BY <1>0, <1>5 DEF Selection!MeComes, SelectionTypes, LoadedIsOwn
    <2>2. rendered # None /\ rendered' = rendered
      BY <1>0, <1>5, InputsRender DEF Selection!MeComes, Selection!Ready
    <2>3. RenderedLoads'
      BY <1>0, <1>5, <2>2 DEF Selection!MeComes, RenderedLoads
    <2>4. Selection!SelectionHeals'
      BY <1>5, EventHeals DEF Selection!MeComes
    <2> QED BY <1>a, <2>1, <2>3, <2>4
  <1>6. CASE Selection!ListComes
    <2>1. wsList' \in Lists[user] /\ wsList' # wsList /\ user # None /\ Selection!Ready
          /\ UNCHANGED <<user, me, loadedVaults, activeWs, activeVault, loadedScope, stored, rendered>>
      BY <1>6 DEF Selection!ListComes
    <2>2. SelectionTypes' /\ LoadedIsOwn'
      BY <1>0, <2>1 DEF SelectionTypes, LoadedIsOwn
    <2>3. RenderedLoads'
      BY <1>0, <2>1, InputsRender DEF Selection!Ready, RenderedLoads
    <2>4. Selection!Inputs' # Selection!Inputs
      BY <2>1 DEF Selection!Inputs
    <2>5. Selection!SelectionHeals'
      BY <2>1, <2>4, EventHeals
    <2> QED BY <1>a, <2>1, <2>2, <2>3, <2>5
  <1>7. CASE Selection!VaultsCome
    <2>1. user # None /\ activeWs \in Selection!WsOf(user) \ loadedVaults /\ loadedVaults' = loadedVaults \cup {activeWs}
          /\ Selection!Ready
          /\ UNCHANGED <<user, me, wsList, activeWs, activeVault, loadedScope, stored, rendered>>
      BY <1>7 DEF Selection!VaultsCome
    <2>2. activeWs \in AllWs
      BY <1>0, <2>1, OwnWorkspaces DEF SelectionTypes
    <2>3. SelectionTypes' /\ LoadedIsOwn' /\ RenderedLoads'
      BY <1>0, <2>1, <2>2 DEF SelectionTypes, LoadedIsOwn, RenderedLoads
    <2>4. loadedVaults' # loadedVaults
      BY <2>1
    <2>5. Selection!Inputs' # Selection!Inputs
      BY <2>4 DEF Selection!Inputs
    <2>6. Selection!SelectionHeals'
      BY <2>1, <2>5, EventHeals
    <2> QED BY <1>a, <2>1, <2>3, <2>6
  <1>8. ASSUME NEW w \in DOMAIN VaultsOf, Selection!PickWs(w) PROVE SelectionInv'
    <2>1. w \in Selection!Elements(wsList) \ {activeWs} /\ wsList # None /\ activeWs' = w /\ activeVault' = None
          /\ Selection!Ready /\ UNCHANGED <<user, me, wsList, loadedVaults, loadedScope, stored, rendered>>
      BY <1>8 DEF Selection!PickWs
    <2>2. user \in Users /\ w \in Selection!WsOf(user)
      BY <1>0, <2>1, OwnWorkspaces DEF SelectionTypes
    <2>3. SelectionTypes' /\ RenderedLoads'
      BY <1>0, <2>1 DEF SelectionTypes, RenderedLoads, AllWs
    <2>4. LoadedIsOwn'
      BY <2>1, <2>2, EventScope DEF LoadedIsOwn
    <2>5. Selection!Inputs' # Selection!Inputs
      BY <2>1 DEF Selection!Inputs
    <2>6. Selection!SelectionHeals'
      BY <2>1, <2>5, EventHeals
    <2> QED BY <1>a, <2>1, <2>3, <2>4, <2>6
  <1>9. ASSUME NEW v, Selection!PickVault(v) PROVE SelectionInv'
    <2>1. v \in Selection!Elements(VaultsOf[activeWs]) \ {activeVault} /\ activeWs \in loadedVaults /\ activeVault' = v
          /\ Selection!Ready /\ UNCHANGED <<user, me, wsList, loadedVaults, activeWs, loadedScope, stored, rendered>>
      BY <1>9 DEF Selection!PickVault
    <2>2. user \in Users /\ activeWs \in Selection!WsOf(user) /\ activeWs \in AllWs
      BY <1>0, <2>1 DEF SelectionTypes
    <2>3. v \in VaultsFor(user) /\ v \in AllVaults
      BY <2>1, <2>2 DEF VaultsFor, AllVaults
    <2>4. SelectionTypes' /\ RenderedLoads'
      BY <1>0, <2>1, <2>3 DEF SelectionTypes, RenderedLoads
    <2>5. LoadedIsOwn'
      BY <2>1, <2>2, <2>3, EventScope DEF LoadedIsOwn
    <2>6. Selection!Inputs' # Selection!Inputs
      BY <2>1 DEF Selection!Inputs
    <2>7. Selection!SelectionHeals'
      BY <2>1, <2>6, EventHeals
    <2> QED BY <1>a, <2>1, <2>4, <2>5, <2>7
  <1>10. CASE Selection!Reload
    <2>1. me' = None /\ wsList' = None /\ loadedVaults' = {} /\ loadedScope' = Global /\ rendered' = None
          /\ activeWs' = stored[Global].ws /\ activeVault' = stored[Global].vault /\ UNCHANGED <<user, stored>>
      BY <1>10 DEF Selection!Reload
    <2>2. stored[Global] \in StoredChoices
      BY <1>0 DEF SelectionTypes, Scopings
    <2>3. SelectionTypes'
      BY <1>0, <2>1, <2>2 DEF SelectionTypes, StoredChoices, Scopings
    <2>4. RenderedLoads' /\ LoadedIsOwn'
      BY <2>1 DEF RenderedLoads, LoadedIsOwn, NobodyApart
    <2>5. Selection!SelectionHeals'
      BY <2>1 DEF Selection!SelectionHeals
    <2> QED BY <1>a, <2>1, <2>3, <2>4, <2>5
  <1> QED
    BY <1>1, <1>2, <1>3, <1>4, <1>5, <1>6, <1>7, <1>8, <1>9, <1>10 DEF Selection!SelectionNext

-----------------------------------------------------------------------------
\* Once an operation of the tab succeeded, a mounted query that reads what it wrote, and is not
\* left to its next fetch, shows the write as soon as no fetch runs; the exceptions are a fetch
\* that failed and one that an invalidation had to leave running. For every interleaving of
\* fetches, polls, mounts, failures and any number of operations, and for the whole table of
\* operations and queries of the hooks. And the selection of workspace and vault is stored under
\* the name of the user whose it is, and settles on a workspace and a vault of that user's lists
\* (context/WorkspaceContext.tsx), for all users, lists and vaults.
THEOREM BrowserKeepsItsOwn ==
    ASSUME NoneApart, ServerAnswers, NobodyApart
    PROVE  PagesSpec => []CacheSafe
  <1> DEFINE Inv == /\ onPage = "cache" => CacheKept
                    /\ onPage = "selection" => SelectionInv
  <1>1. PagesInit => Inv
    BY CachePageOpens, CacheStarts, SelectionPageOpens, SelectionStarts
  <1>2. Inv /\ [PagesNext]_pagesVars => Inv'
    <2> SUFFICES ASSUME Inv, [PagesNext]_pagesVars PROVE Inv'
      OBVIOUS
    <2>1. ASSUME onPage' = "cache" PROVE CacheKept'
      BY <2>1, CachePageMoves, CacheStep
    <2>2. ASSUME onPage' = "selection" PROVE SelectionInv'
      BY <2>2, SelectionPageMoves, SelectionStep
    <2> QED BY <2>1, <2>2
  <1>3. Inv => CacheSafe
    BY DEF CacheKept, RestShown, DataFresh, OwnWritesShown, SelectionInv, CacheSafe
  <1> QED BY <1>1, <1>2, <1>3, PTL DEF PagesSpec

-----------------------------------------------------------------------------
(* The Wiki: the editor's text is that of the page that is shown.          *)

PageTexts == [slot : WikiTab!Slots \cup {None}, n : Nat]
DraftRows == [base : PageTexts, typed : BOOLEAN]
WriteRows == [kind : {"write", "revert"}, slot : WikiTab!Slots, base : PageTexts, stage : {"sent", "served", "done"}]
Navs == [project : Vaults \cup {None}, topic : Topics \cup {None}]
TopicLists == [Vaults -> (SUBSET Topics) \cup {None}]

\* What is known of a slot is a text of it.
PagesFit(cs) == \A s \in WikiTab!Slots : cs[s] # None => cs[s] \in PageTexts /\ cs[s].slot = s

WikiTypes ==
    /\ DOMAIN pages = WikiTab!Slots /\ (\A s \in WikiTab!Slots : pages[s].n \in Nat)
    /\ WikiTab!Here \in Navs /\ route \in Topics \cup {None}
    /\ history \in Seq(Topics \cup {None})
    /\ projectsLoaded \in BOOLEAN /\ lists \in TopicLists
    /\ DOMAIN copies = WikiTab!Slots /\ PagesFit(copies)
    /\ wikiDraft \in DraftRows /\ saves \in Seq(WriteRows)

\* The editor's text was taken from what the page shows now.
DraftShown == tab = "Edit" => wikiDraft.base = WikiTab!Shown(WikiTab!Here, copies)

\* So a call's text is its page's, or the blank of one that has not come.
WritesFit == \A i \in DOMAIN saves : saves[i].base.slot \in {None, saves[i].slot}

WikiInv == WikiTypes /\ DraftShown /\ WritesFit /\ WikiTab!TextStaysOnItsPage

LEMMA EffectsKeepNav ==
    ASSUME Vaults # {}, NEW nav \in Navs, NEW addr \in Topics \cup {None}, NEW readyNow \in BOOLEAN,
           NEW ls \in TopicLists
    PROVE  WikiTab!Effects(nav, addr, readyNow, ls) \in Navs
  <1> DEFINE owners(t) == IF readyNow THEN {v \in Vaults : t \in WikiTab!Listed(ls, v)} ELSE {}
             filled == IF readyNow THEN {v \in Vaults : WikiTab!Listed(ls, v) # {}} ELSE {}
             target == IF nav.project \in filled THEN nav.project ELSE WikiTab!FirstOf(filled)
  <1>1. nav.project \in Vaults \cup {None} /\ nav.topic \in Topics \cup {None}
    BY DEF Navs
  <1>2. \A S : S # {} => WikiTab!FirstOf(S) \in S
    BY DEF WikiTab!FirstOf
  <1>3. WikiTab!KeepVault(nav, readyNow) \in Vaults \cup {None}
    BY <1>1, <1>2 DEF WikiTab!KeepVault
  <1>4. \A t : owners(t) # {} => WikiTab!FirstOf(owners(t)) \in Vaults
    BY <1>2
  <1>5. filled # {} => /\ target \in Vaults
                       /\ WikiTab!FirstOf(ls[target]) \in Topics
    <2> SUFFICES ASSUME filled # {} PROVE target \in Vaults /\ WikiTab!FirstOf(ls[target]) \in Topics
      OBVIOUS
    <2>1. target \in filled /\ target \in Vaults
      BY <1>2
    <2>2. WikiTab!Listed(ls, target) # {}
      BY <2>1
    <2>3. ls[target] # {} /\ ls[target] \in SUBSET Topics
      BY <2>1, <2>2 DEF WikiTab!Listed, TopicLists
    <2> QED
      BY <1>2, <2>1, <2>3
  <1>6. CASE addr # None /\ addr # nav.topic
    <2>1. WikiTab!Effects(nav, addr, readyNow, ls) = [topic |-> addr,
              project |-> IF owners(addr) # {} THEN WikiTab!FirstOf(owners(addr)) ELSE WikiTab!KeepVault(nav, readyNow)]
      BY <1>6 DEF WikiTab!Effects
    <2> HIDE DEF owners
    <2> QED
      BY <1>3, <1>4, <2>1 DEF Navs
  <1>7. CASE ~(addr # None /\ addr # nav.topic) /\ addr = None /\ nav.topic = None /\ filled # {}
    <2>1. WikiTab!Effects(nav, addr, readyNow, ls) = [topic |-> WikiTab!FirstOf(ls[target]), project |-> target]
      BY <1>7 DEF WikiTab!Effects
    <2> HIDE DEF target, filled
    <2> QED
      BY <1>5, <1>7, <2>1 DEF Navs
  <1>8. CASE ~(addr # None /\ addr # nav.topic) /\ ~(addr = None /\ nav.topic = None /\ filled # {})
    <2>1. WikiTab!Effects(nav, addr, readyNow, ls) = [nav EXCEPT !.project = WikiTab!KeepVault(nav, readyNow)]
      BY <1>8 DEF WikiTab!Effects
    <2> QED
      BY <1>3, <2>1 DEF Navs
  <1> QED
    BY <1>6, <1>7, <1>8

\* A render leaves the editor with the text of the page it ends up showing.
LEMMA RenderKeeps ==
    ASSUME Vaults # {}, WikiInv, NEW nav \in Navs, NEW addr \in Topics \cup {None}, NEW readyNow \in BOOLEAN,
           NEW ls \in TopicLists, NEW cs, DOMAIN cs = WikiTab!Slots, PagesFit(cs), NEW tb,
           WikiTab!Render(nav, addr, readyNow, ls, cs, tb)
    PROVE  /\ WikiTab!Here' \in Navs /\ route' \in Topics \cup {None}
           /\ projectsLoaded' \in BOOLEAN /\ lists' \in TopicLists
           /\ DOMAIN copies' = WikiTab!Slots /\ PagesFit(copies') /\ wikiDraft' \in DraftRows /\ DraftShown'
  <1> PICK done : done = WikiTab!Settled(nav, addr, readyNow, ls)
    OBVIOUS
  <1>1. done \in Navs
    BY EffectsKeepNav DEF WikiTab!Settled
  <1>2. /\ projectId' = done.project /\ topic' = done.topic /\ route' = addr /\ projectsLoaded' = readyNow /\ lists' = ls
        /\ copies' = cs /\ tab' = tb /\ wikiDraft' = WikiTab!DraftAfter(done, tb, cs)
    BY DEF WikiTab!Render
  <1>3. WikiTab!Here' = done
    BY <1>1, <1>2 DEF WikiTab!Here, Navs
  <1>4. WikiTab!Blank \in PageTexts /\ \A n2 \in Navs : WikiTab!Shown(n2, cs) \in PageTexts
    <2>1. WikiTab!Blank \in PageTexts
      BY DEF WikiTab!Blank, PageTexts
    <2>2. ASSUME NEW n2 \in Navs PROVE WikiTab!Shown(n2, cs) \in PageTexts
      <3>1. CASE n2.project # None /\ n2.topic # None /\ cs[<<n2.project, n2.topic>>] # None
        <4>1. <<n2.project, n2.topic>> \in WikiTab!Slots
          BY <3>1 DEF Navs, WikiTab!Slots
        <4> QED
          BY <3>1, <4>1 DEF WikiTab!Shown, PagesFit
      <3>2. CASE ~(n2.project # None /\ n2.topic # None /\ cs[<<n2.project, n2.topic>>] # None)
        BY <2>1, <3>2 DEF WikiTab!Shown
      <3> QED
        BY <3>1, <3>2
    <2> QED
      BY <2>1, <2>2
  <1>5. wikiDraft' \in DraftRows /\ (tb = "Edit" => wikiDraft'.base = WikiTab!Shown(done, cs))
    <2>1. CASE tb # "Edit"
      BY <1>2, <1>4, <2>1 DEF WikiTab!DraftAfter, WikiTab!NoDraft, DraftRows
    <2>2. CASE tb = "Edit" /\ (tab # "Edit" \/ WikiTab!Shown(done, cs) # WikiTab!Shown(WikiTab!Here, copies))
      <3>1. wikiDraft' = [base |-> WikiTab!Shown(done, cs), typed |-> FALSE]
        BY <1>2, <2>2 DEF WikiTab!DraftAfter
      <3>2. WikiTab!Shown(done, cs) \in PageTexts
        BY <1>1, <1>4
      <3> QED
        BY <3>1, <3>2 DEF DraftRows
    <2>3. CASE tb = "Edit" /\ tab = "Edit" /\ WikiTab!Shown(done, cs) = WikiTab!Shown(WikiTab!Here, copies)
      <3>1. wikiDraft' = wikiDraft
        BY <1>2, <2>3 DEF WikiTab!DraftAfter
      <3> QED
        BY <2>3, <3>1 DEF WikiInv, WikiTypes, DraftShown
    <2> QED
      BY <2>1, <2>2, <2>3
  <1>6. WikiTab!Shown(WikiTab!Here, copies)' = WikiTab!Shown(done, cs)
    BY <1>2, <1>3 DEF WikiTab!Shown
  <1> QED
    BY <1>1, <1>2, <1>3, <1>5, <1>6 DEF DraftShown

LEMMA WikiStarts == ASSUME WikiTab!WikiInit PROVE WikiInv
  <1>1. \A s \in WikiTab!Slots : pages[s].n \in Nat /\ pages[s].from = WikiTab!Blank
    <2>1. pages \in [WikiTab!Slots -> {[n |-> k, from |-> WikiTab!Blank] : k \in 0..1}]
      BY DEF WikiTab!WikiInit
    <2> QED
      BY <2>1
  <1>2. DOMAIN pages = WikiTab!Slots
    BY DEF WikiTab!WikiInit
  <1>3. WikiTab!Here \in Navs /\ route \in Topics \cup {None} /\ history \in Seq(Topics \cup {None})
    BY DEF WikiTab!WikiInit, WikiTab!Here, Navs
  <1>4. lists \in TopicLists /\ DOMAIN copies = WikiTab!Slots /\ PagesFit(copies)
    BY DEF WikiTab!WikiInit, TopicLists, PagesFit
  <1>7. projectsLoaded \in BOOLEAN
    BY DEF WikiTab!WikiInit
  <1>5. wikiDraft \in DraftRows /\ tab = "Read"
    BY DEF WikiTab!WikiInit, WikiTab!NoDraft, DraftRows, WikiTab!Blank, PageTexts
  <1>6. saves \in Seq(WriteRows) /\ DOMAIN saves = {}
    BY DEF WikiTab!WikiInit
  <1> QED
    BY <1>1, <1>2, <1>3, <1>4, <1>5, <1>6, <1>7
    DEF WikiInv, WikiTypes, DraftShown, WritesFit, WikiTab!TextStaysOnItsPage, WikiTab!Blank

\* What a render leaves alone.
ServerStill == UNCHANGED <<pages, writes, saves>>

\* Some render that the lemma above speaks of.
Rendered == \E nav \in Navs, addr \in Topics \cup {None}, readyNow \in BOOLEAN, ls \in TopicLists :
                \E cs, tb : DOMAIN cs = WikiTab!Slots /\ PagesFit(cs) /\ WikiTab!Render(nav, addr, readyNow, ls, cs, tb)

LEMMA WikiRenders ==
    ASSUME Vaults # {}, WikiInv, Rendered, ServerStill, history' \in Seq(Topics \cup {None})
    PROVE  WikiInv'
  <1>1. /\ WikiTab!Here' \in Navs /\ route' \in Topics \cup {None}
        /\ projectsLoaded' \in BOOLEAN /\ lists' \in TopicLists
        /\ DOMAIN copies' = WikiTab!Slots /\ PagesFit(copies') /\ wikiDraft' \in DraftRows /\ DraftShown'
    BY RenderKeeps DEF Rendered
  <1>2. WikiTypes'
    BY <1>1 DEF WikiInv, WikiTypes, ServerStill
  <1> QED
    BY <1>1, <1>2 DEF WikiInv, WritesFit, WikiTab!TextStaysOnItsPage, ServerStill

LEMMA WikiNavigates ==
    ASSUME Vaults # {}, WikiInv,
           \/ WikiTab!ProjectsCome \/ WikiTab!PageComes \/ WikiTab!GoBack
           \/ \E v \in Vaults : WikiTab!ListComes(v) \/ \E t \in Topics : WikiTab!OpenPage(v, t)
           \/ \E tb \in {"Read", "Edit", "History"} : WikiTab!PickTab(tb)
    PROVE  WikiInv'
  <1>1. /\ WikiTab!Here \in Navs /\ route \in Topics \cup {None} /\ projectsLoaded \in BOOLEAN /\ lists \in TopicLists
        /\ DOMAIN copies = WikiTab!Slots /\ PagesFit(copies) /\ history \in Seq(Topics \cup {None})
    BY DEF WikiInv, WikiTypes
  <1>2. CASE WikiTab!ProjectsCome
    <2>1. WikiTab!Render(WikiTab!Here, route, TRUE, lists, copies, tab) /\ ServerStill /\ history' = history
      BY <1>2 DEF WikiTab!ProjectsCome, ServerStill
    <2> QED
      BY <1>1, <2>1, WikiRenders DEF Rendered
  <1>3. CASE WikiTab!PageComes
    <2> DEFINE s == <<projectId, topic>>
               cs == [copies EXCEPT ![s] = WikiTab!Text(s, pages[s].n)]
    <2>1. projectId # None /\ topic # None
          /\ WikiTab!Render(WikiTab!Here, route, projectsLoaded, lists, cs, tab) /\ ServerStill /\ history' = history
      BY <1>3 DEF WikiTab!PageComes, ServerStill
    <2>2. s \in WikiTab!Slots
      BY <1>1, <2>1 DEF WikiTab!Slots, WikiTab!Here, Navs
    <2>3. WikiTab!Text(s, pages[s].n) \in PageTexts /\ WikiTab!Text(s, pages[s].n).slot = s
      BY <2>2 DEF WikiTab!Text, PageTexts, WikiInv, WikiTypes
    <2>4. DOMAIN cs = WikiTab!Slots /\ PagesFit(cs)
      BY <1>1, <2>2, <2>3 DEF PagesFit
    <2> HIDE DEF cs
    <2> QED
      BY <1>1, <2>1, <2>4, WikiRenders DEF Rendered
  <1>4. CASE WikiTab!GoBack
    <2>1. history # <<>> /\ WikiTab!Render(WikiTab!Here, history[Len(history)], projectsLoaded, lists, copies, tab) /\ ServerStill
          /\ history' = SubSeq(history, 1, Len(history) - 1)
      BY <1>4 DEF WikiTab!GoBack, ServerStill
    <2>2. Len(history) \in 1..Len(history) /\ history[Len(history)] \in Topics \cup {None}
      BY <1>1, <2>1
    <2>3. history' \in Seq(Topics \cup {None})
      BY <1>1, <2>1, <2>2
    <2> QED
      BY <1>1, <2>1, <2>2, <2>3, WikiRenders DEF Rendered
  <1>5. ASSUME NEW v \in Vaults, WikiTab!ListComes(v) PROVE WikiInv'
    <2> DEFINE ls == [lists EXCEPT ![v] = WikiTab!TopicsOf(v)]
    <2>1. WikiTab!Render(WikiTab!Here, route, TRUE, ls, copies, tab) /\ ServerStill /\ history' = history
      BY <1>5 DEF WikiTab!ListComes, ServerStill
    <2>2. WikiTab!TopicsOf(v) \in SUBSET Topics
      BY DEF WikiTab!TopicsOf
    <2>3. ls \in TopicLists
      BY <1>1, <2>2 DEF TopicLists
    <2> HIDE DEF ls
    <2> QED
      BY <1>1, <2>1, <2>3, WikiRenders DEF Rendered
  <1>6. ASSUME NEW v \in Vaults, NEW t \in Topics, WikiTab!OpenPage(v, t) PROVE WikiInv'
    <2>1. WikiTab!Render([project |-> v, topic |-> t], t, projectsLoaded, lists, copies, "Read") /\ ServerStill
          /\ history' = Append(history, route)
      BY <1>6 DEF WikiTab!OpenPage, ServerStill
    <2>2. [project |-> v, topic |-> t] \in Navs /\ history' \in Seq(Topics \cup {None})
      BY <1>1, <2>1 DEF Navs
    <2> QED
      BY <1>1, <2>1, <2>2, WikiRenders DEF Rendered
  <1>7. ASSUME NEW tb, WikiTab!PickTab(tb) PROVE WikiInv'
    <2>1. WikiTab!Render(WikiTab!Here, route, projectsLoaded, lists, copies, tb) /\ ServerStill /\ history' = history
      BY <1>7 DEF WikiTab!PickTab, ServerStill
    <2> QED
      BY <1>1, <2>1, WikiRenders DEF Rendered
  <1> QED
    BY <1>2, <1>3, <1>4, <1>5, <1>6, <1>7

LEMMA WikiSends ==
    ASSUME WikiInv, NEW kind \in {"write", "revert"}, NEW base \in PageTexts,
           base.slot \in {None, <<projectId, topic>>}, WikiTab!Send(kind, base)
    PROVE  WikiInv'
  <1> PICK row : row = [kind |-> kind, slot |-> <<projectId, topic>>, base |-> base, stage |-> "sent"]
    OBVIOUS
  <1>1. projectId # None /\ topic # None /\ saves' = Append(saves, row)
        /\ UNCHANGED <<pages, projectId, topic, route, history, projectsLoaded, lists, copies, tab, wikiDraft>>
    BY DEF WikiTab!Send
  <1>2. <<projectId, topic>> \in WikiTab!Slots
    BY <1>1 DEF WikiTab!Slots, WikiInv, WikiTypes, WikiTab!Here, Navs
  <1>3. row \in WriteRows /\ row.base.slot \in {None, row.slot}
    BY <1>2 DEF WriteRows
  <1>4. saves \in Seq(WriteRows)
    BY DEF WikiInv, WikiTypes
  <1>5. saves' \in Seq(WriteRows) /\ \A i \in DOMAIN saves' : saves'[i] = row \/ (i \in DOMAIN saves /\ saves'[i] = saves[i])
    BY <1>1, <1>3, <1>4
  <1>6. WritesFit'
    BY <1>3, <1>5 DEF WikiInv, WritesFit
  <1>7. WikiTypes' /\ DraftShown' /\ WikiTab!TextStaysOnItsPage'
    <2>1. WikiTab!Here' = WikiTab!Here /\ WikiTab!Shown(WikiTab!Here, copies)' = WikiTab!Shown(WikiTab!Here, copies)
      BY <1>1 DEF WikiTab!Here, WikiTab!Shown
    <2> QED
      BY <1>1, <1>5, <2>1 DEF WikiInv, WikiTypes, DraftShown, WikiTab!TextStaysOnItsPage
  <1> QED
    BY <1>6, <1>7 DEF WikiInv

\* A call moves on; the page it wrote keeps to texts of its own.
LEMMA WriteMoves ==
    ASSUME WikiInv, NEW i \in DOMAIN saves, NEW stage \in {"served", "done"},
           saves' = [saves EXCEPT ![i].stage = stage],
           UNCHANGED <<projectId, topic, route, history, projectsLoaded, lists, copies, tab, wikiDraft>>,
           DOMAIN pages' = WikiTab!Slots, \A s \in WikiTab!Slots : pages'[s].n \in Nat, WikiTab!TextStaysOnItsPage'
    PROVE  WikiInv'
  <1> PICK row : row = [saves[i] EXCEPT !.stage = stage]
    OBVIOUS
  <1>1. saves \in Seq(WriteRows) /\ saves[i] \in WriteRows
    BY DEF WikiInv, WikiTypes
  <1>2. row \in WriteRows /\ row.base = saves[i].base /\ row.slot = saves[i].slot
    BY <1>1 DEF WriteRows
  <1>3. saves' = [saves EXCEPT ![i] = row]
    OBVIOUS
  <1>4. saves' \in Seq(WriteRows) /\ DOMAIN saves' = DOMAIN saves
        /\ \A j \in DOMAIN saves : saves'[j] = IF j = i THEN row ELSE saves[j]
    BY <1>1, <1>2, <1>3
  <1>5. WritesFit'
    BY <1>2, <1>4 DEF WikiInv, WritesFit
  <1>6. WikiTab!Here' = WikiTab!Here /\ WikiTab!Shown(WikiTab!Here, copies)' = WikiTab!Shown(WikiTab!Here, copies)
    BY DEF WikiTab!Here, WikiTab!Shown
  <1>7. WikiTypes' /\ DraftShown'
    BY <1>4, <1>6 DEF WikiInv, WikiTypes, DraftShown
  <1> QED
    BY <1>5, <1>7 DEF WikiInv

LEMMA WikiWrites ==
    ASSUME WikiInv, NEW s \in WikiTab!Slots, NEW row, row.n \in Nat, row.from.slot \in {None, s},
           pages' = [pages EXCEPT ![s] = row]
    PROVE  DOMAIN pages' = WikiTab!Slots /\ (\A r \in WikiTab!Slots : pages'[r].n \in Nat) /\ WikiTab!TextStaysOnItsPage'
  <1>1. DOMAIN pages = WikiTab!Slots /\ \A r \in WikiTab!Slots : pages[r].n \in Nat
    BY DEF WikiInv, WikiTypes
  <1>2. \A r \in WikiTab!Slots : pages'[r] = IF r = s THEN row ELSE pages[r]
    BY <1>1
  <1> QED
    BY <1>1, <1>2 DEF WikiInv, WikiTab!TextStaysOnItsPage

LEMMA WikiStep == ASSUME Vaults # {}, WikiInv, [WikiTab!WikiNext]_(WikiTab!wikiVars) PROVE WikiInv'
  <1>1. CASE UNCHANGED WikiTab!wikiVars
    <2>1. WikiTab!Here' = WikiTab!Here /\ WikiTab!Shown(WikiTab!Here, copies)' = WikiTab!Shown(WikiTab!Here, copies)
      BY <1>1 DEF WikiTab!wikiVars, WikiTab!Here, WikiTab!Shown
    <2> QED
      BY <1>1, <2>1 DEF WikiTab!wikiVars, WikiInv, WikiTypes, DraftShown, WritesFit, WikiTab!TextStaysOnItsPage
  <1>2. CASE WikiTab!Type
    <2> PICK d : d = [wikiDraft EXCEPT !.typed = TRUE]
      OBVIOUS
    <2>1. wikiDraft' = d /\ UNCHANGED <<pages, projectId, topic, route, history, projectsLoaded, lists, copies, tab, saves>>
      BY <1>2 DEF WikiTab!Type
    <2>2. wikiDraft' \in DraftRows /\ wikiDraft'.base = wikiDraft.base
      BY <2>1 DEF DraftRows, WikiInv, WikiTypes
    <2>3. WikiTab!Here' = WikiTab!Here /\ WikiTab!Shown(WikiTab!Here, copies)' = WikiTab!Shown(WikiTab!Here, copies)
      BY <2>1 DEF WikiTab!Here, WikiTab!Shown
    <2> QED
      BY <2>1, <2>2, <2>3 DEF WikiInv, WikiTypes, DraftShown, WritesFit, WikiTab!TextStaysOnItsPage
  <1>3. CASE WikiTab!Save
    <2>1. tab = "Edit" /\ WikiTab!Send("write", wikiDraft.base)
      BY <1>3 DEF WikiTab!Save
    <2>2. wikiDraft.base \in PageTexts /\ wikiDraft.base = WikiTab!Shown(WikiTab!Here, copies)
      BY <2>1 DEF WikiInv, WikiTypes, DraftShown, DraftRows
    <2>3. wikiDraft.base.slot \in {None, <<projectId, topic>>}
      <3>1. WikiTab!Here.project = projectId /\ WikiTab!Here.topic = topic /\ WikiTab!Blank.slot = None
        BY DEF WikiTab!Here, WikiTab!Blank
      <3>2. CASE projectId # None /\ topic # None /\ copies[<<projectId, topic>>] # None
        <4>1. <<projectId, topic>> \in WikiTab!Slots
          BY <3>2 DEF WikiTab!Slots, WikiInv, WikiTypes, WikiTab!Here, Navs
        <4> QED
          BY <2>2, <3>1, <3>2, <4>1 DEF WikiTab!Shown, WikiInv, WikiTypes, PagesFit
      <3>3. CASE ~(projectId # None /\ topic # None /\ copies[<<projectId, topic>>] # None)
        BY <2>2, <3>1, <3>3 DEF WikiTab!Shown
      <3> QED
        BY <3>2, <3>3
    <2> QED
      BY <2>1, <2>2, <2>3, WikiSends
  <1>4. CASE WikiTab!Revert
    <2> PICK n \in 1..MaxWrites : projectId # None /\ topic # None /\ WikiTab!Send("revert", WikiTab!Text(<<projectId, topic>>, n))
      BY <1>4 DEF WikiTab!Revert
    <2>1. <<projectId, topic>> \in WikiTab!Slots /\ n \in Nat
      BY DEF WikiTab!Slots, WikiInv, WikiTypes, WikiTab!Here, Navs
    <2>2. /\ WikiTab!Text(<<projectId, topic>>, n) \in PageTexts
          /\ WikiTab!Text(<<projectId, topic>>, n).slot \in {None, <<projectId, topic>>}
      BY <2>1 DEF WikiTab!Text, PageTexts
    <2> QED
      BY <2>2, WikiSends
  <1>5. ASSUME NEW i \in DOMAIN saves, WikiTab!SaveServed(i) PROVE WikiInv'
    <2>1. saves[i].slot \in WikiTab!Slots /\ saves[i].base.slot \in {None, saves[i].slot}
      <3>1. saves[i] \in WriteRows
        BY DEF WikiInv, WikiTypes
      <3> QED
        BY <3>1 DEF WriteRows, WikiInv, WritesFit
    <2>2. /\ pages' = [pages EXCEPT ![saves[i].slot] = [n |-> pages[saves[i].slot].n + 1, from |-> saves[i].base]]
          /\ saves' = [saves EXCEPT ![i].stage = "served"]
          /\ UNCHANGED <<projectId, topic, route, history, projectsLoaded, lists, copies, tab, wikiDraft>>
      BY <1>5 DEF WikiTab!SaveServed
    <2>3. DOMAIN pages' = WikiTab!Slots /\ (\A r \in WikiTab!Slots : pages'[r].n \in Nat) /\ WikiTab!TextStaysOnItsPage'
      <3> PICK r \in WikiTab!Slots : r = saves[i].slot
        BY <2>1
      <3> PICK row : row = [n |-> pages[r].n + 1, from |-> saves[i].base]
        OBVIOUS
      <3>1. row.n \in Nat /\ row.from.slot \in {None, r} /\ pages' = [pages EXCEPT ![r] = row]
        BY <2>1, <2>2 DEF WikiInv, WikiTypes
      <3> QED
        BY <3>1, WikiWrites
    <2> QED
      BY <2>2, <2>3, WriteMoves
  <1>6. ASSUME NEW i \in DOMAIN saves, WikiTab!SaveReturns(i) PROVE WikiInv'
    <2>1. /\ saves' = [saves EXCEPT ![i].stage = "done"] /\ pages' = pages
          /\ UNCHANGED <<projectId, topic, route, history, projectsLoaded, lists, copies, tab, wikiDraft>>
      BY <1>6 DEF WikiTab!SaveReturns
    <2>2. DOMAIN pages' = WikiTab!Slots /\ (\A r \in WikiTab!Slots : pages'[r].n \in Nat) /\ WikiTab!TextStaysOnItsPage'
      BY <2>1 DEF WikiInv, WikiTypes, WikiTab!TextStaysOnItsPage
    <2> QED
      BY <2>1, <2>2, WriteMoves
  <1>7. ASSUME NEW s \in WikiTab!Slots, WikiTab!ForeignWrite(s) PROVE WikiInv'
    <2>1. /\ pages' = [pages EXCEPT ![s] = [n |-> pages[s].n + 1, from |-> WikiTab!Blank]]
          /\ UNCHANGED <<projectId, topic, route, history, projectsLoaded, lists, copies, tab, wikiDraft, saves>>
      BY <1>7 DEF WikiTab!ForeignWrite
    <2>2. DOMAIN pages' = WikiTab!Slots /\ (\A r \in WikiTab!Slots : pages'[r].n \in Nat) /\ WikiTab!TextStaysOnItsPage'
      <3>1. WikiTab!Blank.slot = None
        BY DEF WikiTab!Blank
      <3> QED
        <4> PICK row : row = [n |-> pages[s].n + 1, from |-> WikiTab!Blank]
          OBVIOUS
        <4>1. row.n \in Nat /\ row.from.slot \in {None, s} /\ pages' = [pages EXCEPT ![s] = row]
          BY <2>1, <3>1 DEF WikiInv, WikiTypes
        <4> QED
          BY <4>1, WikiWrites
    <2>3. WikiTab!Here' = WikiTab!Here /\ WikiTab!Shown(WikiTab!Here, copies)' = WikiTab!Shown(WikiTab!Here, copies)
      BY <2>1 DEF WikiTab!Here, WikiTab!Shown
    <2> QED
      BY <2>1, <2>2, <2>3 DEF WikiInv, WikiTypes, DraftShown, WritesFit
  <1> QED
    BY <1>1, <1>2, <1>3, <1>4, <1>5, <1>6, <1>7, WikiNavigates DEF WikiTab!WikiNext

\* No text is ever written to a page it was not loaded from, though the editor outlives a change
\* of the address and the page it edits is found by effects that run one after another: for every
\* set of vaults and topics, every order of answers, navigation, saves and writes of others. The
\* editor's text is what the page shows at every moment, so a save names what its text was begun
\* from.
THEOREM TextsStayOnTheirPages ==
    ASSUME Vaults # {}
    PROVE  PagesSpec => []WikiSafe
  <1> DEFINE Inv == onPage = "wiki" => WikiInv
  <1>1. PagesInit => Inv
    BY WikiPageOpens, WikiStarts
  <1>2. Inv /\ [PagesNext]_pagesVars => Inv'
    <2> SUFFICES ASSUME Inv, [PagesNext]_pagesVars, onPage' = "wiki" PROVE WikiInv'
      OBVIOUS
    <2> QED BY WikiPageMoves, WikiStep
  <1>3. Inv => WikiSafe
    BY DEF WikiInv, WikiSafe
  <1> QED BY <1>1, <1>2, <1>3, PTL DEF PagesSpec

-----------------------------------------------------------------------------
(* The Sources page: a save names the version its text was begun from.     *)

Bodies == Texts \cup {Empty}
CopyRows == [text : Bodies, version : Nat]
BodyRows == [text : Bodies, base : Bodies, editing : BOOLEAN, saving : BOOLEAN]
SaveRows == [source : Sources, text : Bodies, base : Bodies, expect : Nat,
             stage : {"sent", "checked", "conflict", "ok", "done"}, orphan : BOOLEAN]

\* A copy of a source's text is one of its versions.
CopyFits(c, s) == c # None => c.version <= Len(content[s]) /\ c.text = Source!TextOf(s, c.version)

SourceTypes ==
    /\ content \in [Sources -> Seq(Bodies)]
    /\ sourceCopy \in [Sources -> CopyRows \cup {None}] /\ answer \in [Sources -> CopyRows \cup {None}]
    /\ chosen \in Sources \cup {None} /\ startEditing \in BOOLEAN
    /\ body \in BodyRows \cup {None} /\ sourceSaves \in Seq(SaveRows)

CopiesFit == \A s \in Sources : CopyFits(sourceCopy[s], s) /\ CopyFits(answer[s], s)

\* The editor is there while its tab is open on a source.
BodyOpen == body # None <=> sourceTab = "extracted" /\ chosen # None

\* Its draft was begun from the text that is shown now.
BodyShown == body # None => body.base = Source!Shown(sourceCopy, chosen).text

\* A call whose answer the editor waits for has an editor.
SaveHeard == \A i \in DOMAIN sourceSaves : ~sourceSaves[i].orphan /\ sourceSaves[i].stage # "done" => body # None

\* A call names the version its text was begun from.
SaveFits(c) == c.expect <= Len(content[c.source]) /\ c.base = Source!TextOf(c.source, c.expect)

SavesFit == \A i \in DOMAIN sourceSaves : SaveFits(sourceSaves[i])

SourceInv == SourceTypes /\ CopiesFit /\ BodyOpen /\ BodyShown /\ SaveHeard /\ SavesFit

LEMMA CopyShown ==
    ASSUME NEW cache \in [Sources -> CopyRows \cup {None}], NEW s \in Sources
    PROVE  Source!Shown(cache, s) \in CopyRows
  BY DEF Source!Shown, CopyRows, Bodies

LEMMA FreshBody ==
    ASSUME None \notin BodyRows, NEW cache \in [Sources -> CopyRows \cup {None}], NEW s \in Sources,
           NEW start \in BOOLEAN, NEW out \in BOOLEAN
    PROVE  /\ Source!Fresh(s, cache, start, out) \in BodyRows /\ Source!Fresh(s, cache, start, out) # None
           /\ Source!Fresh(s, cache, start, out).base = Source!Shown(cache, s).text
  <1>1. Source!Shown(cache, s) \in CopyRows
    BY CopyShown
  <1>2. Source!Shown(cache, s).text \in Bodies
    BY <1>1 DEF CopyRows
  <1>3. Source!Fresh(s, cache, start, out) \in BodyRows /\ Source!Fresh(s, cache, start, out).base = Source!Shown(cache, s).text
    BY <1>2 DEF Source!Fresh, BodyRows
  <1> QED
    BY <1>3

\* Whatever changed, the body's draft is begun from what is shown.
LEMMA BodyFollows ==
    ASSUME None \notin BodyRows, SourceInv, NEW cache \in [Sources -> CopyRows \cup {None}],
           NEW s \in Sources \cup {None}, NEW t, NEW start \in BOOLEAN
    PROVE  /\ Source!BodyAfter(s, cache, t, start) \in BodyRows \cup {None}
           /\ Source!BodyAfter(s, cache, t, start) # None <=> t = "extracted" /\ s # None
           /\ Source!BodyAfter(s, cache, t, start) # None => Source!BodyAfter(s, cache, t, start).base = Source!Shown(cache, s).text
  <1>1. CASE t # "extracted" \/ s = None
    BY <1>1 DEF Source!BodyAfter
  <1>2. CASE t = "extracted" /\ s # None /\ body = None
    <2> PICK out \in BOOLEAN : out = FALSE
      OBVIOUS
    <2>1. Source!BodyAfter(s, cache, t, start) = Source!Fresh(s, cache, start, out)
      BY <1>2 DEF Source!BodyAfter
    <2>2. s \in Sources
      BY <1>2
    <2> QED
      BY <1>2, <2>1, <2>2, FreshBody
  <1>3. CASE /\ t = "extracted" /\ s # None /\ body # None
             /\ <<s, Source!Shown(cache, s).text, start>> = <<chosen, Source!Shown(sourceCopy, chosen).text, startEditing>>
    <2>1. Source!BodyAfter(s, cache, t, start) = body
      BY <1>3 DEF Source!BodyAfter
    <2> QED
      BY <1>3, <2>1 DEF SourceInv, SourceTypes, BodyShown
  <1>4. CASE /\ t = "extracted" /\ s # None /\ body # None
             /\ <<s, Source!Shown(cache, s).text, start>> # <<chosen, Source!Shown(sourceCopy, chosen).text, startEditing>>
    <2>1. Source!BodyAfter(s, cache, t, start) = Source!Fresh(s, cache, start, body.saving)
      BY <1>4 DEF Source!BodyAfter
    <2>2. body.saving \in BOOLEAN
      BY <1>4 DEF SourceInv, SourceTypes, BodyRows
    <2> QED
      BY <1>4, <2>1, <2>2, FreshBody
  <1> QED
    BY <1>1, <1>2, <1>3, <1>4

\* Calls are cut off from a body that goes.
LEMMA SavesCut ==
    ASSUME SourceInv, NEW b
    PROVE  /\ Source!SavesAfter(b) \in Seq(SaveRows) /\ DOMAIN Source!SavesAfter(b) = DOMAIN sourceSaves
           /\ \A i \in DOMAIN sourceSaves : /\ Source!SavesAfter(b)[i].expect = sourceSaves[i].expect
                                            /\ Source!SavesAfter(b)[i].base = sourceSaves[i].base
                                            /\ Source!SavesAfter(b)[i].source = sourceSaves[i].source
                                            /\ Source!SavesAfter(b)[i].stage = sourceSaves[i].stage
                                            /\ b = None => Source!SavesAfter(b)[i].orphan
                                            /\ b # None => Source!SavesAfter(b) = sourceSaves
  <1>1. sourceSaves \in Seq(SaveRows) /\ \A i \in DOMAIN sourceSaves : sourceSaves[i] \in SaveRows
    BY DEF SourceInv, SourceTypes
  <1>2. CASE b # None
    BY <1>1, <1>2 DEF Source!SavesAfter
  <1>3. CASE b = None
    <2>1. Source!SavesAfter(b) = [i \in DOMAIN sourceSaves |-> [sourceSaves[i] EXCEPT !.orphan = TRUE]]
      BY <1>3 DEF Source!SavesAfter
    <2>2. ASSUME NEW i \in DOMAIN sourceSaves
          PROVE  /\ Source!SavesAfter(b)[i] \in SaveRows
                 /\ Source!SavesAfter(b)[i].expect = sourceSaves[i].expect /\ Source!SavesAfter(b)[i].base = sourceSaves[i].base
                 /\ Source!SavesAfter(b)[i].source = sourceSaves[i].source /\ Source!SavesAfter(b)[i].stage = sourceSaves[i].stage
                 /\ Source!SavesAfter(b)[i].orphan
      <3> PICK row : row = [sourceSaves[i] EXCEPT !.orphan = TRUE]
        OBVIOUS
      <3>1. /\ row \in SaveRows /\ row.expect = sourceSaves[i].expect /\ row.base = sourceSaves[i].base
            /\ row.source = sourceSaves[i].source /\ row.stage = sourceSaves[i].stage /\ row.orphan = TRUE
        BY <1>1 DEF SaveRows
      <3>2. Source!SavesAfter(b)[i] = row
        BY <2>1
      <3> QED
        BY <3>1, <3>2
    <2>3. DOMAIN Source!SavesAfter(b) = DOMAIN sourceSaves /\ DOMAIN sourceSaves = 1..Len(sourceSaves) /\ Len(sourceSaves) \in Nat
      BY <1>1, <2>1
    <2>4. Source!SavesAfter(b) \in [1..Len(sourceSaves) -> SaveRows]
      BY <2>1, <2>2, <2>3
    <2>5. Source!SavesAfter(b) \in Seq(SaveRows)
      BY <2>3, <2>4
    <2> QED
      BY <1>3, <2>2, <2>3, <2>5
  <1> QED
    BY <1>2, <1>3

LEMMA SourceStarts == ASSUME Source!SourceInit PROVE SourceInv
  <1>1. /\ sourceCopy = [s \in Sources |-> None] /\ answer = [s \in Sources |-> None] /\ chosen = None
        /\ sourceTab = "preview" /\ startEditing = FALSE /\ body = None /\ sourceSaves = <<>>
    BY DEF Source!SourceInit
  <1>2. content \in [Sources -> Seq(Bodies)]
    <2>1. content \in [Sources -> {<<>>} \cup {<<x>> : x \in Texts}]
      BY DEF Source!SourceInit
    <2>2. <<>> \in Seq(Bodies) /\ \A x \in Texts : <<x>> \in Seq(Bodies)
      BY DEF Bodies
    <2>3. \A c \in {<<>>} \cup {<<x>> : x \in Texts} : c \in Seq(Bodies)
      BY <2>2
    <2> QED
      BY <2>1, <2>3
  <1>3. sourceSaves \in Seq(SaveRows) /\ DOMAIN sourceSaves = {}
    BY <1>1
  <1>4. SourceTypes
    BY <1>1, <1>2, <1>3 DEF SourceTypes
  <1> QED
    BY <1>1, <1>3, <1>4 DEF SourceInv, CopiesFit, CopyFits, BodyOpen, BodyShown, SaveHeard, SavesFit

\* The selection, the tab or the mode changes.
LEMMA PaneChanges ==
    ASSUME None \notin BodyRows, SourceInv, NEW s \in Sources \cup {None}, NEW t, NEW start \in BOOLEAN,
           chosen' = s, sourceTab' = t, startEditing' = start,
           body' = Source!BodyAfter(s, sourceCopy, t, start), sourceSaves' = Source!SavesAfter(body'),
           UNCHANGED <<content, sourceCopy, answer>>
    PROVE  SourceInv'
  <1>1. sourceCopy \in [Sources -> CopyRows \cup {None}]
    BY DEF SourceInv, SourceTypes
  <1>2. /\ body' \in BodyRows \cup {None}
        /\ body' # None <=> t = "extracted" /\ s # None
        /\ body' # None => body'.base = Source!Shown(sourceCopy, s).text
    BY <1>1, BodyFollows
  <1> PICK b : b = body'
    OBVIOUS
  <1>3. sourceSaves' = Source!SavesAfter(b)
    BY DEF Source!SavesAfter
  <1>4. /\ sourceSaves' \in Seq(SaveRows) /\ DOMAIN sourceSaves' = DOMAIN sourceSaves
        /\ \A i \in DOMAIN sourceSaves : /\ sourceSaves'[i].expect = sourceSaves[i].expect /\ sourceSaves'[i].base = sourceSaves[i].base
                                         /\ sourceSaves'[i].source = sourceSaves[i].source /\ sourceSaves'[i].stage = sourceSaves[i].stage
                                         /\ b = None => sourceSaves'[i].orphan
    BY <1>3, SavesCut
  <1>5. SourceTypes'
    BY <1>2, <1>4 DEF SourceInv, SourceTypes
  <1>6. CopiesFit' /\ SavesFit'
    BY <1>4 DEF SourceInv, CopiesFit, CopyFits, SavesFit, SaveFits, Source!TextOf
  <1>7. BodyOpen' /\ BodyShown'
    <2>1. Source!Shown(sourceCopy, chosen)' = Source!Shown(sourceCopy, s)
      BY DEF Source!Shown
    <2> QED
      BY <1>2, <2>1 DEF BodyOpen, BodyShown
  <1>8. SaveHeard'
    BY <1>4 DEF SaveHeard
  <1> QED
    BY <1>5, <1>6, <1>7, <1>8 DEF SourceInv

LEMMA PaneShows ==
    ASSUME None \notin BodyRows, SourceInv, NEW s \in Sources \cup {None}, NEW l, Source!Pane(s, l),
           UNCHANGED <<content, sourceCopy, answer>>
    PROVE  SourceInv'
  <1> DEFINE moved == s # chosen \/ (s # None /\ l[s] # sourceListed[s])
             t == IF moved /\ s # None THEN Source!FirstTab(l[s]) ELSE sourceTab
             start == IF moved THEN FALSE ELSE startEditing
  <1>1. start \in BOOLEAN
    BY DEF SourceInv, SourceTypes
  <1>2. /\ chosen' = s /\ sourceTab' = t /\ startEditing' = start
        /\ body' = Source!BodyAfter(s, sourceCopy, t, start) /\ sourceSaves' = Source!SavesAfter(body')
    BY DEF Source!Pane
  <1> HIDE DEF t, start
  <1> QED
    BY <1>1, <1>2, PaneChanges

\* Of the editor's own steps: the draft keeps its base.
LEMMA BodyEdited ==
    ASSUME SourceInv, body # None, body' \in BodyRows, body' # None, body'.base = Source!Shown(sourceCopy, chosen).text,
           UNCHANGED <<content, sourceCopy, answer, chosen, sourceTab, startEditing, sourceSaves>>
    PROVE  SourceInv'
  <1>1. Source!Shown(sourceCopy, chosen)' = Source!Shown(sourceCopy, chosen)
    BY DEF Source!Shown
  <1>2. SourceTypes'
    BY DEF SourceInv, SourceTypes
  <1>3. CopiesFit' /\ SavesFit'
    BY DEF SourceInv, CopiesFit, CopyFits, SavesFit, SaveFits, Source!TextOf
  <1> QED
    BY <1>1, <1>2, <1>3 DEF SourceInv, BodyOpen, BodyShown, SaveHeard

\* What has a version keeps it when another is appended.
LEMMA VersionsKept ==
    ASSUME SourceInv, NEW s \in Sources, NEW x \in Bodies, Source!Written(s, x)
    PROVE  /\ content' \in [Sources -> Seq(Bodies)]
           /\ \A r \in Sources : /\ Len(content[r]) \in Nat /\ Len(content'[r]) \in Nat
                                 /\ Len(content[r]) <= Len(content'[r])
                                 /\ \A v \in Nat : v <= Len(content[r]) => Source!TextOf(r, v)' = Source!TextOf(r, v)
  <1>1. content \in [Sources -> Seq(Bodies)] /\ content[s] \in Seq(Bodies)
    BY DEF SourceInv, SourceTypes
  <1> PICK grown : grown = Append(content[s], x)
    OBVIOUS
  <1>2. /\ grown \in Seq(Bodies) /\ Len(grown) = Len(content[s]) + 1
        /\ \A v \in 1..Len(content[s]) : grown[v] = content[s][v]
    BY <1>1
  <1>3. content' = [content EXCEPT ![s] = grown]
    BY <1>1 DEF Source!Written
  <1>4. \A r \in Sources : content'[r] = IF r = s THEN grown ELSE content[r]
    BY <1>1, <1>3
  <1>5. content' \in [Sources -> Seq(Bodies)]
    BY <1>1, <1>2, <1>3
  <1>6. ASSUME NEW r \in Sources
        PROVE  /\ Len(content[r]) \in Nat /\ Len(content'[r]) \in Nat
               /\ Len(content[r]) <= Len(content'[r])
               /\ \A v \in Nat : v <= Len(content[r]) => Source!TextOf(r, v)' = Source!TextOf(r, v)
    <2>1. content[r] \in Seq(Bodies) /\ Len(content[r]) \in Nat
      BY <1>1
    <2>2. CASE r # s
      BY <1>4, <2>1, <2>2 DEF Source!TextOf
    <2>3. CASE r = s
      <3>1. content'[r] = grown
        BY <1>4, <2>3
      <3>2. \A v \in Nat : v <= Len(content[r]) => Source!TextOf(r, v)' = Source!TextOf(r, v)
        BY <1>2, <2>1, <2>3, <3>1 DEF Source!TextOf
      <3> QED
        BY <1>2, <2>1, <2>3, <3>1, <3>2
    <2> QED
      BY <2>2, <2>3
  <1> QED
    BY <1>5, <1>6

\* So copies and calls still fit.
LEMMA FitsKept ==
    ASSUME SourceInv, NEW s \in Sources, NEW x \in Bodies, Source!Written(s, x)
    PROVE  /\ content' \in [Sources -> Seq(Bodies)]
           /\ \A r \in Sources : \A c \in CopyRows \cup {None} : CopyFits(c, r) => CopyFits(c, r)'
           /\ \A c \in SaveRows : SaveFits(c) => SaveFits(c)'
  <1>1. ASSUME NEW r \in Sources, NEW c \in CopyRows \cup {None}, CopyFits(c, r) PROVE CopyFits(c, r)'
    <2>1. c # None => c.version \in Nat
      BY DEF CopyRows
    <2> QED
      BY <1>1, <2>1, VersionsKept DEF CopyFits
  <1>2. ASSUME NEW c \in SaveRows, SaveFits(c) PROVE SaveFits(c)'
    <2>1. c.source \in Sources /\ c.expect \in Nat
      BY DEF SaveRows
    <2> QED
      BY <1>2, <2>1, VersionsKept DEF SaveFits
  <1> QED
    BY <1>1, <1>2, VersionsKept


\* The server wrote a version, and every cache but the shown one was dropped.
LEMMA OthersWrite ==
    ASSUME SourceInv, content' \in [Sources -> Seq(Bodies)],
           \A r \in Sources : \A c \in CopyRows \cup {None} : CopyFits(c, r) => CopyFits(c, r)',
           \A c \in SaveRows : SaveFits(c) => SaveFits(c)',
           Source!InvalidateAll, UNCHANGED <<chosen, sourceTab, startEditing, body, sourceSaves>>
    PROVE  SourceInv'
  <1>1. /\ answer' = [s \in Sources |-> None]
        /\ sourceCopy' = [s \in Sources |-> IF s = chosen THEN sourceCopy[s] ELSE None]
    BY DEF Source!InvalidateAll
  <1>2. sourceCopy \in [Sources -> CopyRows \cup {None}] /\ chosen \in Sources \cup {None}
    BY DEF SourceInv, SourceTypes
  <1>3. SourceTypes'
    BY <1>1, <1>2 DEF SourceInv, SourceTypes
  <1>4. CopiesFit'
    <2> SUFFICES ASSUME NEW s \in Sources PROVE CopyFits(sourceCopy[s], s)' /\ CopyFits(answer[s], s)'
      BY DEF CopiesFit
    <2>1. CopyFits(answer[s], s)'
      BY <1>1 DEF CopyFits
    <2>2. sourceCopy'[s] = sourceCopy[s] \/ sourceCopy'[s] = None
      BY <1>1
    <2> PICK c \in CopyRows \cup {None} : c = sourceCopy[s]
      BY <1>2
    <2>3. CopyFits(c, s)'
      BY DEF SourceInv, CopiesFit
    <2> QED
      BY <2>1, <2>2, <2>3 DEF CopyFits
  <1>5. SavesFit'
    BY DEF SourceInv, SourceTypes, SavesFit
  <1>6. body # None => Source!Shown(sourceCopy, chosen)' = Source!Shown(sourceCopy, chosen)
    <2>1. body # None => chosen \in Sources
      BY <1>2 DEF SourceInv, BodyOpen
    <2> QED
      BY <1>1, <2>1 DEF Source!Shown
  <1> QED
    BY <1>3, <1>4, <1>5, <1>6 DEF SourceInv, BodyOpen, BodyShown, SaveHeard

\* A call moves on. Its row still names the version of its base, or nothing.
LEMMA SaveMoves ==
    ASSUME SourceInv, NEW i \in DOMAIN sourceSaves, NEW row \in SaveRows, sourceSaves' = [sourceSaves EXCEPT ![i] = row],
           row.orphan = sourceSaves[i].orphan, sourceSaves[i].stage # "done",
           SaveFits(row)', \A c \in SaveRows : SaveFits(c) => SaveFits(c)',
           body # None => body' # None
    PROVE  sourceSaves' \in Seq(SaveRows) /\ SavesFit' /\ SaveHeard'
  <1>1. sourceSaves \in Seq(SaveRows)
    BY DEF SourceInv, SourceTypes
  <1>2. sourceSaves' \in Seq(SaveRows) /\ DOMAIN sourceSaves' = DOMAIN sourceSaves
        /\ \A j \in DOMAIN sourceSaves : sourceSaves'[j] = IF j = i THEN row ELSE sourceSaves[j]
    BY <1>1
  <1>3. SavesFit'
    <2> SUFFICES ASSUME NEW j \in DOMAIN sourceSaves PROVE SaveFits(sourceSaves[j])'
      BY <1>2 DEF SavesFit
    <2> PICK c \in SaveRows : c = sourceSaves'[j]
      BY <1>2
    <2>1. SaveFits(c)'
      BY <1>1, <1>2 DEF SourceInv, SavesFit
    <2> QED
      BY <2>1 DEF SaveFits
  <1>4. SaveHeard'
    BY <1>2 DEF SourceInv, SaveHeard
  <1> QED
    BY <1>2, <1>3, <1>4

\* The caches and the page are as they were.
PageStill == UNCHANGED <<sourceCopy, answer, chosen, sourceTab, startEditing, body>>

LEMMA SaveIsServed ==
    ASSUME SourceInv, NEW i \in DOMAIN sourceSaves, Source!SaveChecked(i) \/ Source!SaveWritten(i)
    PROVE  SourceInv'
  <1>1. sourceSaves[i] \in SaveRows /\ SaveFits(sourceSaves[i])
    BY DEF SourceInv, SourceTypes, SavesFit
  <1>2. PageStill /\ sourceSaves[i].stage # "done"
    BY DEF Source!SaveChecked, Source!SaveWritten, Source!SameButBody, PageStill
  <1>3. /\ content' \in [Sources -> Seq(Bodies)]
        /\ \A r \in Sources : \A c \in CopyRows \cup {None} : CopyFits(c, r) => CopyFits(c, r)'
        /\ \A c \in SaveRows : SaveFits(c) => SaveFits(c)'
    <2>1. CASE Source!SaveChecked(i)
      <3>1. content' = content
        BY <2>1 DEF Source!SaveChecked, Source!SameButBody
      <3> QED
        BY <3>1 DEF SourceInv, SourceTypes, CopyFits, SaveFits, Source!TextOf
    <2>2. CASE Source!SaveWritten(i)
      <3>1. Source!Written(sourceSaves[i].source, sourceSaves[i].text) /\ sourceSaves[i].stage = "checked"
        BY <2>2 DEF Source!SaveWritten
      <3>2. sourceSaves[i].source \in Sources /\ sourceSaves[i].text \in Bodies
        BY <1>1 DEF SaveRows
      <3> QED
        BY <3>1, <3>2, FitsKept
    <2> QED
      BY <2>1, <2>2
  <1>4. PICK stage \in {"checked", "conflict", "ok"} : sourceSaves' = [sourceSaves EXCEPT ![i].stage = stage]
    BY DEF Source!SaveChecked, Source!SaveWritten
  <1> PICK row : row = [sourceSaves[i] EXCEPT !.stage = stage]
    OBVIOUS
  <1>5. /\ row \in SaveRows /\ row.orphan = sourceSaves[i].orphan /\ row.source = sourceSaves[i].source
        /\ row.expect = sourceSaves[i].expect /\ row.base = sourceSaves[i].base
    BY <1>1 DEF SaveRows
  <1>6. sourceSaves' = [sourceSaves EXCEPT ![i] = row]
    BY <1>4
  <1>7. SaveFits(row)'
    <2> PICK c \in SaveRows : c = sourceSaves[i]
      BY <1>1
    <2>1. SaveFits(c)'
      BY <1>1, <1>3
    <2> QED
      BY <1>5, <2>1 DEF SaveFits
  <1>8. sourceSaves' \in Seq(SaveRows) /\ SavesFit' /\ SaveHeard'
    BY <1>2, <1>3, <1>5, <1>6, <1>7, SaveMoves DEF PageStill
  <1>9. SourceTypes'
    BY <1>2, <1>3, <1>8 DEF SourceInv, SourceTypes, PageStill
  <1>10. CopiesFit'
    <2> SUFFICES ASSUME NEW s \in Sources PROVE CopyFits(sourceCopy[s], s)' /\ CopyFits(answer[s], s)'
      BY DEF CopiesFit
    <2> PICK c \in CopyRows \cup {None} : c = sourceCopy[s]
      BY DEF SourceInv, SourceTypes
    <2> PICK d \in CopyRows \cup {None} : d = answer[s]
      BY DEF SourceInv, SourceTypes
    <2>1. CopyFits(c, s)' /\ CopyFits(d, s)'
      BY <1>3 DEF SourceInv, CopiesFit
    <2> QED
      BY <1>2, <2>1 DEF PageStill, CopyFits
  <1>11. BodyOpen' /\ BodyShown'
    BY <1>2 DEF PageStill, SourceInv, BodyOpen, BodyShown, Source!Shown
  <1> QED
    BY <1>8, <1>9, <1>10, <1>11 DEF SourceInv

LEMMA SaveAnswered ==
    ASSUME None \notin BodyRows, SourceInv, NEW i \in DOMAIN sourceSaves,
           Source!SaveReturns(i) \/ Source!SaveFails(i)
    PROVE  SourceInv'
  <1>1. sourceSaves[i] \in SaveRows /\ SaveFits(sourceSaves[i]) /\ sourceSaves[i].stage # "done"
    BY DEF SourceInv, SourceTypes, SavesFit, Source!SaveReturns, Source!SaveFails
  <1>2. UNCHANGED <<content, chosen, sourceTab, startEditing>>
    BY DEF Source!SaveReturns, Source!SaveFails, Source!SameButBody
  <1>3. body' \in BodyRows \cup {None} /\ (body' # None <=> body # None) /\ (body # None => body'.base = body.base)
    <2>1. CASE sourceSaves[i].orphan
      BY <2>1 DEF Source!SaveReturns, Source!SaveFails, SourceInv, SourceTypes
    <2>2. CASE ~sourceSaves[i].orphan
      <3>1. body # None /\ body \in BodyRows
        BY <1>1, <2>2 DEF SourceInv, SourceTypes, SaveHeard
      <3> PICK e \in BOOLEAN : e <=> (body.editing /\ (sourceSaves[i].stage = "conflict" \/ Source!SaveFails(i)))
        OBVIOUS
      <3>2. e = IF Source!SaveFails(i) THEN body.editing ELSE (body.editing /\ sourceSaves[i].stage = "conflict")
        BY <3>1 DEF BodyRows
      <3> PICK b : b = [body EXCEPT !.saving = FALSE, !.editing = e]
        OBVIOUS
      <3>3. b \in BodyRows /\ b.base = body.base
        BY <3>1 DEF BodyRows
      <3>4. body' = b
        <4>1. CASE Source!SaveFails(i)
          BY <2>2, <3>1, <3>2, <4>1 DEF Source!SaveFails, BodyRows
        <4>2. CASE ~Source!SaveFails(i)
          BY <2>2, <3>2, <4>2 DEF Source!SaveReturns
        <4> QED BY <4>1, <4>2
      <3> QED
        BY <3>1, <3>3, <3>4
    <2> QED
      BY <2>1, <2>2
  <1> DEFINE row == [sourceSaves[i] EXCEPT !.stage = "done", !.text = Empty, !.base = Empty, !.expect = 0]
  <1>4. /\ row \in SaveRows /\ row.orphan = sourceSaves[i].orphan /\ row.source = sourceSaves[i].source
        /\ row.expect = 0 /\ row.base = Empty
    BY <1>1 DEF SaveRows, Bodies
  <1>5. sourceSaves' = [sourceSaves EXCEPT ![i] = row]
    BY DEF Source!SaveReturns, Source!SaveFails, Source!Over
  <1> HIDE DEF row
  <1> PICK c \in SaveRows : c = row
    BY <1>4
  <1>6. SaveFits(c)'
    <2>1. c.source \in Sources
      BY DEF SaveRows
    <2>2. Len(content[c.source]) \in Nat
      BY <2>1 DEF SourceInv, SourceTypes
    <2> QED
      BY <1>2, <1>4, <2>2 DEF SaveFits, Source!TextOf
  <1>7. \A d \in SaveRows : SaveFits(d) => SaveFits(d)'
    BY <1>2 DEF SaveFits, Source!TextOf
  <1>8. sourceSaves' \in Seq(SaveRows) /\ SavesFit' /\ SaveHeard'
    BY <1>1, <1>3, <1>4, <1>5, <1>6, <1>7, SaveMoves
  <1>9. /\ sourceCopy \in [Sources -> CopyRows \cup {None}] /\ answer \in [Sources -> CopyRows \cup {None}]
        /\ chosen \in Sources \cup {None}
    BY DEF SourceInv, SourceTypes
  <1>10. /\ sourceCopy' \in [Sources -> CopyRows \cup {None}] /\ answer' \in [Sources -> CopyRows \cup {None}]
         /\ \A s \in Sources : sourceCopy'[s] \in {sourceCopy[s], None} /\ answer'[s] \in {answer[s], None}
         /\ chosen \in Sources => sourceCopy'[chosen] = sourceCopy[chosen]
    BY <1>9 DEF Source!SaveReturns, Source!SaveFails, Source!SameButBody
  <1>11. CopiesFit'
    BY <1>2, <1>10 DEF SourceInv, CopiesFit, CopyFits, Source!TextOf
  <1>12. body # None => Source!Shown(sourceCopy, chosen)' = Source!Shown(sourceCopy, chosen)
    <2>1. body # None => chosen \in Sources
      BY <1>9 DEF SourceInv, BodyOpen
    <2> QED
      BY <1>2, <1>10, <2>1 DEF Source!Shown
  <1> QED
    BY <1>2, <1>3, <1>8, <1>10, <1>11, <1>12 DEF SourceInv, SourceTypes, BodyOpen, BodyShown

LEMMA SaveSent ==
    ASSUME None \notin BodyRows, SourceInv, Source!Save
    PROVE  SourceInv'
  <1>1. /\ body # None /\ body \in BodyRows /\ chosen \in Sources /\ body.base = Source!Shown(sourceCopy, chosen).text
    BY DEF Source!Save, SourceInv, SourceTypes, BodyOpen, BodyShown
  <1>2. Source!Shown(sourceCopy, chosen) \in CopyRows /\ sourceCopy \in [Sources -> CopyRows \cup {None}]
    BY <1>1, CopyShown DEF SourceInv, SourceTypes
  <1>3. /\ body' = [body EXCEPT !.saving = TRUE]
        /\ UNCHANGED <<content, sourceCopy, answer, chosen, sourceTab, startEditing>>
    BY DEF Source!Save, Source!SameButBody
  <1> PICK b : b = [body EXCEPT !.saving = TRUE]
    OBVIOUS
  <1>4. b \in BodyRows /\ b # None /\ b.base = body.base /\ body' = b
    BY <1>1, <1>3 DEF BodyRows
  <1> PICK row : row = [source |-> chosen, text |-> body.text, base |-> body.base,
                        expect |-> Source!Shown(sourceCopy, chosen).version, stage |-> "sent", orphan |-> FALSE]
    OBVIOUS
  <1>5. row \in SaveRows
    <2>1. body.text \in Bodies /\ body.base \in Bodies /\ Source!Shown(sourceCopy, chosen).version \in Nat
      BY <1>1, <1>2 DEF BodyRows, CopyRows
    <2> QED
      BY <1>1, <2>1 DEF SaveRows
  <1>6. SaveFits(row)
    <2>1. /\ row.source = chosen /\ row.base = Source!Shown(sourceCopy, chosen).text
          /\ row.expect = Source!Shown(sourceCopy, chosen).version
      BY <1>1
    <2>2. content[chosen] \in Seq(Bodies)
      BY <1>1 DEF SourceInv, SourceTypes
    <2>3. CASE sourceCopy[chosen] = None
      <3>1. Source!Shown(sourceCopy, chosen) = [text |-> Empty, version |-> 0]
        BY <2>3 DEF Source!Shown
      <3>2. Source!Shown(sourceCopy, chosen).text = Empty /\ Source!Shown(sourceCopy, chosen).version = 0
        BY <3>1
      <3> QED
        BY <2>1, <2>2, <3>2 DEF SaveFits, Source!TextOf
    <2>4. CASE sourceCopy[chosen] # None
      <3>1. CopyFits(sourceCopy[chosen], chosen) /\ Source!Shown(sourceCopy, chosen) = sourceCopy[chosen]
        BY <1>1, <2>4 DEF Source!Shown, SourceInv, CopiesFit
      <3> QED
        BY <2>1, <2>4, <3>1 DEF SaveFits, CopyFits
    <2> QED
      BY <2>3, <2>4
  <1>7. sourceSaves \in Seq(SaveRows) /\ sourceSaves' = Append(sourceSaves, row)
    BY DEF Source!Save, SourceInv, SourceTypes
  <1>8. sourceSaves' \in Seq(SaveRows)
        /\ \A i \in DOMAIN sourceSaves' : sourceSaves'[i] = row \/ (i \in DOMAIN sourceSaves /\ sourceSaves'[i] = sourceSaves[i])
    BY <1>5, <1>7
  <1>9. SavesFit'
    BY <1>3, <1>6, <1>8 DEF SourceInv, SavesFit, SaveFits, Source!TextOf
  <1>10. SaveHeard'
    BY <1>4 DEF SaveHeard
  <1> QED
    BY <1>1, <1>3, <1>4, <1>8, <1>9, <1>10
    DEF SourceInv, SourceTypes, CopiesFit, CopyFits, Source!TextOf, BodyOpen, BodyShown, Source!Shown

LEMMA EditorMoves ==
    ASSUME None \notin BodyRows, SourceInv, Source!StartEdit \/ Source!CancelEdit \/ \E x \in Texts : Source!Type(x)
    PROVE  SourceInv'
  <1>1. /\ body # None /\ body \in BodyRows /\ chosen \in Sources /\ body.base = Source!Shown(sourceCopy, chosen).text
        /\ sourceCopy \in [Sources -> CopyRows \cup {None}]
    BY DEF Source!StartEdit, Source!CancelEdit, Source!Type, SourceInv, SourceTypes, BodyOpen, BodyShown
  <1>2. UNCHANGED <<content, sourceCopy, answer, chosen, sourceTab, startEditing, sourceSaves>>
    BY DEF Source!StartEdit, Source!CancelEdit, Source!Type, Source!SameButBody
  <1>3. body' \in BodyRows /\ body'.base = Source!Shown(sourceCopy, chosen).text
    <2>1. CASE Source!StartEdit
      BY <1>1, <2>1 DEF Source!StartEdit, BodyRows
    <2>2. CASE Source!CancelEdit
      <3> PICK fresh : fresh = Source!Fresh(chosen, sourceCopy, FALSE, FALSE)
        OBVIOUS
      <3> PICK no \in BOOLEAN : no = FALSE
        OBVIOUS
      <3>1. fresh \in BodyRows /\ fresh.base = Source!Shown(sourceCopy, chosen).text
        <4>1. fresh = Source!Fresh(chosen, sourceCopy, no, no)
          OBVIOUS
        <4> QED
          BY <1>1, <4>1, FreshBody
      <3>2. body.saving \in BOOLEAN /\ body' = [fresh EXCEPT !.saving = body.saving]
        BY <1>1, <2>2 DEF Source!CancelEdit, BodyRows
      <3> QED
        BY <3>1, <3>2 DEF BodyRows
    <2>3. ASSUME NEW x \in Texts, Source!Type(x) PROVE body' \in BodyRows /\ body'.base = Source!Shown(sourceCopy, chosen).text
      BY <1>1, <2>3 DEF Source!Type, BodyRows, Bodies
    <2> QED
      BY <2>1, <2>2, <2>3
  <1> QED
    BY <1>1, <1>2, <1>3, BodyEdited

LEMMA CopyArrives ==
    ASSUME None \notin BodyRows, SourceInv, NEW s \in Sources, Source!Arrives(s)
    PROVE  SourceInv'
  <1>1. /\ sourceCopy \in [Sources -> CopyRows \cup {None}] /\ answer \in [Sources -> CopyRows \cup {None}]
        /\ chosen \in Sources \cup {None} /\ startEditing \in BOOLEAN
    BY DEF SourceInv, SourceTypes
  <1>2. /\ sourceCopy' = [sourceCopy EXCEPT ![s] = answer[s]] /\ answer' = [answer EXCEPT ![s] = None]
        /\ UNCHANGED <<content, chosen, sourceTab, startEditing, sourceSaves>>
    BY DEF Source!Arrives
  <1> PICK cache \in [Sources -> CopyRows \cup {None}] : cache = sourceCopy'
    BY <1>1, <1>2
  <1>3. CopiesFit'
    BY <1>1, <1>2 DEF SourceInv, CopiesFit, CopyFits, Source!TextOf
  <1>4. CASE s = chosen
    <2>1. body' = Source!BodyAfter(s, cache, sourceTab, startEditing)
      BY <1>4 DEF Source!Arrives
    <2>2. /\ body' \in BodyRows \cup {None}
          /\ body' # None <=> sourceTab = "extracted" /\ s # None
          /\ body' # None => body'.base = Source!Shown(cache, s).text
      BY <1>1, <2>1, BodyFollows
    <2>3. Source!Shown(sourceCopy, chosen)' = Source!Shown(cache, s)
      BY <1>2, <1>4 DEF Source!Shown
    <2>4. body' # None <=> body # None
      BY <1>4, <2>2 DEF SourceInv, BodyOpen
    <2> QED
      BY <1>1, <1>2, <1>3, <1>4, <2>2, <2>3, <2>4
      DEF SourceInv, SourceTypes, BodyOpen, BodyShown, SaveHeard, SavesFit, SaveFits, Source!TextOf
  <1>5. CASE s # chosen
    <2>1. body' = body
      BY <1>5 DEF Source!Arrives
    <2>2. body # None => Source!Shown(sourceCopy, chosen)' = Source!Shown(sourceCopy, chosen)
      <3>1. body # None => chosen \in Sources
        BY <1>1 DEF SourceInv, BodyOpen
      <3> QED
        BY <1>1, <1>2, <1>5, <3>1 DEF Source!Shown
    <2> QED
      BY <1>1, <1>2, <1>3, <2>1, <2>2
      DEF SourceInv, SourceTypes, BodyOpen, BodyShown, SaveHeard, SavesFit, SaveFits, Source!TextOf
  <1> QED
    BY <1>4, <1>5

LEMMA CopyAsked ==
    ASSUME SourceInv, NEW s \in Sources, Source!Answered(s)
    PROVE  SourceInv'
  <1>1. /\ answer' = [answer EXCEPT ![s] = Source!Current(s)]
        /\ UNCHANGED <<content, sourceCopy, chosen, sourceTab, startEditing, body, sourceSaves>>
    BY DEF Source!Answered
  <1>2. content[s] \in Seq(Bodies) /\ answer \in [Sources -> CopyRows \cup {None}]
    BY DEF SourceInv, SourceTypes
  <1>3. Source!Current(s) \in CopyRows /\ CopyFits(Source!Current(s), s)
    <2>1. Source!TextOf(s, Len(content[s])) \in Bodies
      BY <1>2 DEF Source!TextOf, Bodies
    <2>2. Source!Current(s) = [text |-> Source!TextOf(s, Len(content[s])), version |-> Len(content[s])]
      BY DEF Source!Current
    <2>3. Source!Current(s) \in CopyRows /\ Source!Current(s).version = Len(content[s])
          /\ Source!Current(s).text = Source!TextOf(s, Len(content[s]))
      BY <1>2, <2>1, <2>2 DEF CopyRows
    <2> QED
      BY <1>2, <2>3 DEF CopyFits
  <1>4. answer' \in [Sources -> CopyRows \cup {None}]
    BY <1>1, <1>2, <1>3
  <1>5. CopiesFit'
    <2> PICK c : c = Source!Current(s)
      OBVIOUS
    <2>1. CopyFits(c, s) /\ \A r \in Sources : answer'[r] = IF r = s THEN c ELSE answer[r]
      BY <1>1, <1>2, <1>3
    <2> QED
      BY <1>1, <2>1 DEF SourceInv, CopiesFit, CopyFits, Source!TextOf
  <1> QED
    BY <1>1, <1>4, <1>5
    DEF SourceInv, SourceTypes, BodyOpen, BodyShown, Source!Shown, SaveHeard, SavesFit, SaveFits, Source!TextOf

\* The server wrote a version, and nothing on the page heard of it.
LEMMA UnheardWrite ==
    ASSUME SourceInv, content' \in [Sources -> Seq(Bodies)],
           \A r \in Sources : \A c \in CopyRows \cup {None} : CopyFits(c, r) => CopyFits(c, r)',
           \A c \in SaveRows : SaveFits(c) => SaveFits(c)',
           UNCHANGED <<sourceCopy, answer, chosen, sourceTab, startEditing, body, sourceSaves>>
    PROVE  SourceInv'
  <1>1. SourceTypes'
    BY DEF SourceInv, SourceTypes
  <1>2. CopiesFit'
    <2> SUFFICES ASSUME NEW s \in Sources PROVE CopyFits(sourceCopy[s], s)' /\ CopyFits(answer[s], s)'
      BY DEF CopiesFit
    <2> PICK c \in CopyRows \cup {None} : c = sourceCopy[s]
      BY DEF SourceInv, SourceTypes
    <2> PICK d \in CopyRows \cup {None} : d = answer[s]
      BY DEF SourceInv, SourceTypes
    <2>1. CopyFits(c, s)' /\ CopyFits(d, s)'
      BY DEF SourceInv, CopiesFit
    <2> QED BY <2>1 DEF CopyFits
  <1>3. SavesFit'
    BY DEF SourceInv, SourceTypes, SavesFit
  <1> QED
    BY <1>1, <1>2, <1>3 DEF SourceInv, BodyOpen, BodyShown, SaveHeard, Source!Shown

LEMMA VersionsWritten ==
    ASSUME SourceInv, (\E s \in Sources, x \in Texts : Source!Reingest(s, x)) \/ \E v \in 1..MaxVersions : Source!Restore(v)
    PROVE  SourceInv'
  <1>1. /\ Source!InvalidateAll \/ UNCHANGED <<sourceCopy, answer>>
        /\ UNCHANGED <<chosen, sourceTab, startEditing, body, sourceSaves>>
    BY DEF Source!Reingest, Source!Restore
  <1>2. (\E s \in Sources, x \in Bodies : Source!Written(s, x)) \/ content' = content
    <2>1. ASSUME NEW s \in Sources, NEW x \in Texts, Source!Reingest(s, x)
          PROVE (\E r \in Sources, y \in Bodies : Source!Written(r, y)) \/ content' = content
      BY <2>1 DEF Source!Reingest, Bodies
    <2>2. ASSUME NEW v \in 1..MaxVersions, Source!Restore(v)
          PROVE (\E r \in Sources, y \in Bodies : Source!Written(r, y)) \/ content' = content
      <3>1. chosen # None /\ v < Len(content[chosen]) /\ Source!Written(chosen, content[chosen][v])
        BY <2>2 DEF Source!Restore
      <3>2. chosen \in Sources /\ content[chosen] \in Seq(Bodies)
        BY <3>1 DEF SourceInv, SourceTypes
      <3>3. content[chosen][v] \in Bodies
        BY <3>1, <3>2
      <3> QED
        BY <3>1, <3>2, <3>3
    <2> QED
      BY <2>1, <2>2
  <1>3. /\ content' \in [Sources -> Seq(Bodies)]
        /\ \A r \in Sources : \A c \in CopyRows \cup {None} : CopyFits(c, r) => CopyFits(c, r)'
        /\ \A c \in SaveRows : SaveFits(c) => SaveFits(c)'
    <2>1. CASE content' = content
      BY <2>1 DEF SourceInv, SourceTypes, CopyFits, SaveFits, Source!TextOf
    <2>2. CASE \E s \in Sources, x \in Bodies : Source!Written(s, x)
      BY <2>2, FitsKept
    <2> QED
      BY <1>2, <2>1, <2>2
  <1> QED
    BY <1>1, <1>3, OthersWrite, UnheardWrite

LEMMA SourceStep == ASSUME None \notin BodyRows, SourceInv, [Source!SourceNext]_(Source!sourceVars) PROVE SourceInv'
  <1>0. chosen \in Sources \cup {None} /\ startEditing \in BOOLEAN
    BY DEF SourceInv, SourceTypes
  <1>1. CASE UNCHANGED Source!sourceVars
    BY <1>1 DEF Source!sourceVars, SourceInv, SourceTypes, CopiesFit, CopyFits, Source!TextOf, BodyOpen, BodyShown, Source!Shown,
                SaveHeard, SavesFit, SaveFits
  <1>2. ASSUME NEW s \in Sources, Source!Select(s) PROVE SourceInv'
    BY <1>2, PaneShows DEF Source!Select
  <1>3. ASSUME NEW t, Source!OpenTab(t) PROVE SourceInv'
    <2>1. chosen' = chosen /\ startEditing' = startEditing
          /\ sourceTab' = t /\ body' = Source!BodyAfter(chosen, sourceCopy, t, startEditing) /\ sourceSaves' = Source!SavesAfter(body')
          /\ UNCHANGED <<content, sourceCopy, answer>>
      BY <1>3 DEF Source!OpenTab
    <2> QED
      BY <1>0, <2>1, PaneChanges
  <1>4. CASE Source!EditMD
    <2>1. chosen' = chosen /\ startEditing' = TRUE /\ chosen # None
          /\ sourceTab' = "extracted" /\ body' = Source!BodyAfter(chosen, sourceCopy, "extracted", TRUE) /\ sourceSaves' = sourceSaves
          /\ UNCHANGED <<content, sourceCopy, answer>>
      BY <1>4 DEF Source!EditMD
    <2> PICK start \in BOOLEAN : start = TRUE
      OBVIOUS
    <2>2. body' = Source!BodyAfter(chosen, sourceCopy, "extracted", start) /\ startEditing' = start
      BY <2>1
    <2>3. body' # None
      BY <1>0, <2>1, <2>2, BodyFollows DEF SourceInv, SourceTypes
    <2>4. sourceSaves' = Source!SavesAfter(body')
      BY <2>1, <2>3 DEF Source!SavesAfter
    <2> QED
      BY <1>0, <2>1, <2>2, <2>4, PaneChanges
  <1>5. CASE Source!ListArrives
    <2> PICK s : s = IF chosen # None /\ sourceListed'[chosen] = None THEN None ELSE chosen
      OBVIOUS
    <2> PICK l : l = sourceListed'
      OBVIOUS
    <2>1. s \in Sources \cup {None} /\ Source!Pane(s, l) /\ UNCHANGED <<content, sourceCopy, answer>>
      BY <1>0, <1>5 DEF Source!ListArrives
    <2> QED
      BY <2>1, PaneShows
  <1>6. CASE Source!DeleteReturns
    <2> PICK l : l = sourceListed
      OBVIOUS
    <2>1. Source!Pane(None, l) /\ UNCHANGED <<content, sourceCopy, answer>>
      BY <1>6 DEF Source!DeleteReturns
    <2> QED
      BY <2>1, PaneShows
  <1>7. CASE Source!Delete \/ Source!DeleteFails
    BY <1>7 DEF Source!Delete, Source!DeleteFails, SourceInv, SourceTypes, CopiesFit, CopyFits, Source!TextOf, BodyOpen, BodyShown, Source!Shown,
                SaveHeard, SavesFit, SaveFits
  <1>8. ASSUME NEW s \in Sources, Source!Answered(s) \/ Source!Arrives(s) PROVE SourceInv'
    BY <1>8, CopyAsked, CopyArrives
  <1>9. CASE Source!StartEdit \/ Source!CancelEdit \/ \E x \in Texts : Source!Type(x)
    BY <1>9, EditorMoves
  <1>10. CASE Source!Save
    BY <1>10, SaveSent
  <1>11. CASE (\E s \in Sources, x \in Texts : Source!Reingest(s, x)) \/ \E v \in 1..MaxVersions : Source!Restore(v)
    BY <1>11, VersionsWritten
  <1>12. ASSUME NEW i \in DOMAIN sourceSaves, Source!SaveChecked(i) \/ Source!SaveWritten(i) \/ Source!SaveReturns(i)
                                               \/ Source!SaveFails(i) PROVE SourceInv'
    BY <1>12, SaveIsServed, SaveAnswered
  <1> QED
    BY <1>1, <1>2, <1>3, <1>4, <1>5, <1>6, <1>7, <1>8, <1>9, <1>10, <1>11, <1>12 DEF Source!SourceNext

\* A save of extracted text names, as the version it expects, the one its text was begun from:
\* for every set of sources and texts, through refetches, selections, status events, restores and
\* deletions, though the version is read when Save is clicked and the text was copied before. The
\* editor takes a new text whenever the shown one changes; that is the invariant.
THEOREM SavesNameTheirBase ==
    ASSUME None \notin BodyRows
    PROVE  PagesSpec => []SourcesSafe
  <1> DEFINE Inv == onPage = "source" => SourceInv
  <1>1. PagesInit => Inv
    BY SourcePageOpens, SourceStarts
  <1>2. Inv /\ [PagesNext]_pagesVars => Inv'
    <2> SUFFICES ASSUME Inv, [PagesNext]_pagesVars, onPage' = "source" PROVE SourceInv'
      OBVIOUS
    <2> QED BY SourcePageMoves, SourceStep
  <1>3. Inv => SourcesSafe
    BY DEF SourceInv, SavesFit, SaveFits, Source!SaveNamesItsBase, SourcesSafe
  <1> QED BY <1>1, <1>2, <1>3, PTL DEF PagesSpec

-----------------------------------------------------------------------------
(* The tags of a vault.                                                    *)

TagEdits == [tag : Tags, value : Tags \cup {None}]
TagRenames == [old : Tags, new : Tags, kind : {"rename", "merge"}, out : BOOLEAN]

TagTypes ==
    /\ tagged \in [Sources -> SUBSET Tags] /\ names \subseteq Tags
    /\ tagEditing # None => tagEditing \in TagEdits
    /\ mergeFrom \in Tags \cup {None} /\ mergeTo \in Tags \cup {None}
    /\ renames \in Seq(TagRenames)

TagsInv == TagTypes /\ Manager!MergesAreOfTwo /\ Manager!DeletionIsAskedFor /\ Manager!NoneLostByMerging

LEMMA TagsStart == Manager!TagsInit => TagsInv
  <1> SUFFICES ASSUME Manager!TagsInit PROVE TagsInv
    OBVIOUS
  <1>1. tagged \in [Sources -> {{t} : t \in Tags}] /\ names = Manager!AllTags
    BY DEF Manager!TagsInit
  <1>2. tagged \in [Sources -> SUBSET Tags] /\ \A s \in Sources : tagged[s] # {}
    BY <1>1
  <1>3. names \subseteq Tags
    BY <1>1, <1>2 DEF Manager!AllTags
  <1> QED
    BY <1>2, <1>3 DEF Manager!TagsInit, TagsInv, TagTypes, Manager!MergesAreOfTwo,
       Manager!DeletionIsAskedFor, Manager!NoneLostByMerging

\* A call of the mutation is about two tags, one of which another takes the place of.
LEMMA RenameSent ==
    ASSUME TagsInv, NEW r \in TagRenames, r.old # r.new, renames' = Append(renames, r),
           UNCHANGED <<tagged, names, mergeFrom, mergeTo, confirming, deletion, stripped>>,
           tagEditing' = tagEditing
    PROVE  TagsInv'
  <1>1. renames' \in Seq(TagRenames) /\ DOMAIN renames' = 1..(Len(renames) + 1)
        /\ DOMAIN renames = 1..Len(renames)
        /\ \A i \in 1..(Len(renames) + 1) : renames'[i] = IF i = Len(renames) + 1 THEN r ELSE renames[i]
    BY DEF TagsInv, TagTypes
  <1>2. \A i \in DOMAIN renames' : renames'[i].old # renames'[i].new
    BY <1>1 DEF TagsInv, Manager!MergesAreOfTwo
  <1> QED
    BY <1>1, <1>2 DEF TagsInv, TagTypes, Manager!MergesAreOfTwo, Manager!DeletionIsAskedFor,
       Manager!NoneLostByMerging

\* A rename takes a tag from a source only where it puts one.
LEMMA RenameLeavesOne ==
    ASSUME TagTypes, NEW r \in TagRenames, NEW s \in Sources, Manager!Renamed(tagged, r)[s] = {}
    PROVE  tagged[s] = {}
  BY DEF TagTypes, TagRenames, Manager!Renamed

LEMMA RenameAnswered ==
    ASSUME TagsInv, NEW i \in DOMAIN renames, Manager!RenameAnswers(i)
    PROVE  TagsInv'
  <1> DEFINE r == renames[i]
  <1>1. r \in TagRenames /\ DOMAIN renames = 1..Len(renames)
    BY DEF TagsInv, TagTypes
  <1>2. renames' = [renames EXCEPT ![i].out = FALSE]
    BY DEF Manager!RenameAnswers
  <1>3. [r EXCEPT !.out = FALSE] \in TagRenames /\ [r EXCEPT !.out = FALSE].old = r.old
        /\ [r EXCEPT !.out = FALSE].new = r.new
    BY <1>1 DEF TagRenames
  <1>4. renames' \in Seq(TagRenames) /\ DOMAIN renames' = DOMAIN renames
        /\ \A j \in DOMAIN renames : renames'[j] = IF j = i THEN [r EXCEPT !.out = FALSE] ELSE renames[j]
    BY <1>1, <1>2, <1>3 DEF TagsInv, TagTypes
  <1>5. \A j \in DOMAIN renames' : renames'[j].old # renames'[j].new
    BY <1>3, <1>4 DEF TagsInv, Manager!MergesAreOfTwo
  <1>6. tagged' = tagged \/ tagged' = Manager!Renamed(tagged, r)
    BY DEF Manager!RenameAnswers
  <1>7. tagged' \in [Sources -> SUBSET Tags]
    BY <1>1, <1>6 DEF TagsInv, TagTypes, TagRenames, Manager!Renamed
  <1>8. \A s \in Sources : tagged'[s] = {} => tagged[s] = {}
    BY <1>1, <1>6, RenameLeavesOne DEF TagsInv
  <1>9. Manager!NoneLostByMerging'
    BY <1>8 DEF TagsInv, Manager!NoneLostByMerging, Manager!RenameAnswers
  <1>10. /\ tagEditing' \in {tagEditing, None}
         /\ (UNCHANGED <<mergeFrom, mergeTo>>) \/ (mergeFrom' = None /\ mergeTo' = None)
         /\ UNCHANGED <<names, confirming, deletion>>
    BY DEF Manager!RenameAnswers, Manager!RenameCallbacks
  <1> QED
    BY <1>4, <1>5, <1>7, <1>9, <1>10 DEF TagsInv, TagTypes, Manager!MergesAreOfTwo, Manager!DeletionIsAskedFor

\* Whoever takes a source's last tag away by deleting it is remembered.
LEMMA TagsTaken ==
    ASSUME TagsInv, Manager!ForeignTag \/ Manager!DeleteAnswers
    PROVE  TagsInv'
  <1>1. CASE Manager!ForeignTag
    <2> PICK s \in Sources, t \in Tags :
            IF t \in tagged[s]
            THEN tagged' = [tagged EXCEPT ![s] = @ \ {t}] /\ stripped' = stripped \cup {s}
            ELSE tagged' = [tagged EXCEPT ![s] = @ \cup {t}] /\ UNCHANGED stripped
      BY <1>1 DEF Manager!ForeignTag
    <2>1. tagged' \in [Sources -> SUBSET Tags] /\ \A q \in Sources : tagged'[q] = {} => q \in stripped'
      BY DEF TagsInv, TagTypes, Manager!NoneLostByMerging
    <2> QED
      BY <1>1, <2>1 DEF Manager!ForeignTag, TagsInv, TagTypes, Manager!MergesAreOfTwo,
         Manager!DeletionIsAskedFor, Manager!NoneLostByMerging
  <1>2. CASE Manager!DeleteAnswers
    <2>1. deletion' = None /\ UNCHANGED <<names, tagEditing, mergeFrom, mergeTo, renames>>
      BY <1>2 DEF Manager!DeleteAnswers
    <2>2. \/ UNCHANGED <<tagged, stripped>>
          \/ /\ tagged' = [s \in Sources |-> tagged[s] \ {deletion}]
             /\ stripped' = stripped \cup {s \in Sources : deletion \in tagged[s]}
      BY <1>2 DEF Manager!DeleteAnswers
    <2>3. tagged' \in [Sources -> SUBSET Tags] /\ \A q \in Sources : tagged'[q] = {} => q \in stripped'
      BY <2>2 DEF TagsInv, TagTypes, Manager!NoneLostByMerging
    <2> QED
      BY <2>1, <2>3 DEF TagsInv, TagTypes, Manager!MergesAreOfTwo, Manager!DeletionIsAskedFor,
         Manager!NoneLostByMerging
  <1> QED BY <1>1, <1>2

\* A step that sends nothing and leaves the sources alone.
LEMMA OverlayMoves ==
    ASSUME TagsInv, UNCHANGED <<tagged, names, renames, stripped>>,
           tagEditing' # None => tagEditing' \in TagEdits,
           mergeFrom' \in Tags \cup {None}, mergeTo' \in Tags \cup {None},
           mergeTo' # None => mergeFrom' \notin {None, mergeTo'},
           deletion' # None => confirming' = deletion'
    PROVE  TagsInv'
  BY DEF TagsInv, TagTypes, Manager!MergesAreOfTwo, Manager!DeletionIsAskedFor, Manager!NoneLostByMerging

LEMMA TagsStep == ASSUME TagsInv, [Manager!TagsNext]_(Manager!vars) PROVE TagsInv'
  <1>0. /\ tagEditing # None => tagEditing \in TagEdits
        /\ mergeFrom \in Tags \cup {None} /\ mergeTo \in Tags \cup {None}
        /\ mergeTo # None => mergeFrom \notin {None, mergeTo}
        /\ deletion # None => confirming = deletion
        /\ names \subseteq Tags
    BY DEF TagsInv, TagTypes, Manager!MergesAreOfTwo, Manager!DeletionIsAskedFor
  <1>1. CASE UNCHANGED Manager!vars
    BY <1>0, <1>1, OverlayMoves DEF Manager!vars
  <1>2. CASE Manager!ForeignTag \/ Manager!DeleteAnswers
    BY <1>2, TagsTaken
  <1>3. CASE Manager!NamesCome
    <2>1. names' = Manager!AllTags /\ UNCHANGED <<tagged, tagEditing, mergeFrom, mergeTo, confirming, renames, deletion, stripped>>
      BY <1>3 DEF Manager!NamesCome
    <2>2. names' \subseteq Tags
      BY <2>1 DEF Manager!AllTags, TagsInv, TagTypes
    <2> QED
      BY <2>1, <2>2 DEF TagsInv, TagTypes, Manager!MergesAreOfTwo, Manager!DeletionIsAskedFor, Manager!NoneLostByMerging
  <1>4. CASE Manager!CancelEdit
    BY <1>0, <1>4, OverlayMoves DEF Manager!CancelEdit
  <1>5. CASE Manager!ConfirmRename
    <2>1. CASE tagEditing.value \in {None, tagEditing.tag}
      BY <1>0, <1>5, <2>1, OverlayMoves DEF Manager!ConfirmRename
    <2>2. CASE tagEditing.value \notin {None, tagEditing.tag}
      <3> DEFINE r == [old |-> tagEditing.tag, new |-> tagEditing.value, kind |-> "rename", out |-> TRUE]
      <3>1. r \in TagRenames /\ r.old # r.new
        BY <1>0, <1>5, <2>2 DEF Manager!ConfirmRename, TagEdits, TagRenames
      <3>2. renames' = Append(renames, r) /\ UNCHANGED <<tagged, names, mergeFrom, mergeTo, confirming, deletion, stripped>>
            /\ tagEditing' = tagEditing
        BY <1>5, <2>2 DEF Manager!ConfirmRename
      <3> QED BY <3>1, <3>2, RenameSent
    <2> QED BY <2>1, <2>2
  <1>6. CASE Manager!ConfirmMerge
    <2> DEFINE r == [old |-> mergeFrom, new |-> mergeTo, kind |-> "merge", out |-> TRUE]
    <2>1. r \in TagRenames /\ r.old # r.new
      BY <1>0, <1>6 DEF Manager!ConfirmMerge, TagRenames
    <2>2. renames' = Append(renames, r) /\ UNCHANGED <<tagged, names, mergeFrom, mergeTo, confirming, deletion, stripped>>
          /\ tagEditing' = tagEditing
      BY <1>6 DEF Manager!ConfirmMerge
    <2> QED BY <2>1, <2>2, RenameSent
  <1>7. CASE Manager!CancelMerge
    BY <1>0, <1>7, OverlayMoves DEF Manager!CancelMerge
  <1>8. ASSUME NEW t \in Tags, Manager!StartEdit(t) PROVE TagsInv'
    BY <1>0, <1>8, OverlayMoves DEF Manager!StartEdit, TagEdits
  <1>9. ASSUME NEW t \in Tags, Manager!SelectForMerge(t) PROVE TagsInv'
    BY <1>0, <1>9, OverlayMoves DEF Manager!SelectForMerge, Manager!SelectFrom
  <1>10. ASSUME NEW t \in Tags, Manager!SelectTarget(t) PROVE TagsInv'
    BY <1>0, <1>10, OverlayMoves DEF Manager!SelectTarget
  <1>11. ASSUME NEW t \in Tags, Manager!AskDelete(t) PROVE TagsInv'
    BY <1>0, <1>11, OverlayMoves DEF Manager!AskDelete
  <1>12. ASSUME NEW t \in Tags \cup {None}, Manager!EditChange(t) PROVE TagsInv'
    <2>1. tagEditing' = [tagEditing EXCEPT !.value = t] /\ tagEditing \in TagEdits
          /\ UNCHANGED <<tagged, names, mergeFrom, mergeTo, confirming, renames, deletion, stripped>>
      BY <1>0, <1>12 DEF Manager!EditChange
    <2>2. tagEditing' \in TagEdits
      BY <2>1 DEF TagEdits
    <2> QED BY <1>0, <2>1, <2>2, OverlayMoves
  <1>13. ASSUME NEW i \in DOMAIN renames, Manager!RenameAnswers(i) PROVE TagsInv'
    BY <1>13, RenameAnswered
  <1>14. CASE Manager!CancelDelete
    BY <1>0, <1>14, OverlayMoves DEF Manager!CancelDelete
  <1>15. CASE Manager!ConfirmDelete
    BY <1>0, <1>15, OverlayMoves DEF Manager!ConfirmDelete
  <1> QED
    BY <1>1, <1>2, <1>3, <1>4, <1>5, <1>6, <1>7, <1>8, <1>9, <1>10, <1>11, <1>12, <1>13, <1>14, <1>15
       DEF Manager!TagsNext

-----------------------------------------------------------------------------
(* The board of workspaces.                                                *)

DraftShape(d) == d = [name |-> d.name, moveTo |-> d.moveTo, picked |-> d.picked]

\* What a drawer would send as a move is the workspace it was opened in or one that was picked.
DraftFits == boardDraft # None => DraftShape(boardDraft) /\ boardDraft.moveTo \in {ctx.ws, boardDraft.picked}

BoardInv == Board!MovesWerePicked /\ Board!DrawerWhereShown /\ DraftFits

LEMMA BoardStarts == Board!BoardInit => BoardInv
  BY DEF Board!BoardInit, BoardInv, Board!MovesWerePicked, Board!DrawerWhereShown, DraftFits

\* A drawer that is mounted, or stays, is about a vault where the board shows it.
LEMMA DrawerFollows ==
    ASSUME BoardInv, NEW c, NEW b, boardDraft = None \/ c = ctx, Board!Drawn(c, b) # None
    PROVE  LET d == Board!Drawn(c, b) IN
           /\ c.ws = b.vaults[c.vault].ws /\ b.vaults[c.vault].live
           /\ DraftShape(d) /\ d.moveTo \in {c.ws, d.picked}
  <1>1. Board!LiveVault(c, b)
    BY DEF Board!Drawn
  <1>2. CASE boardDraft # None
    BY <1>1, <1>2 DEF Board!Drawn, Board!LiveVault, BoardInv, DraftFits
  <1>3. CASE boardDraft = None
    <2>1. Board!Drawn(c, b) = [name |-> b.vaults[c.vault].name, moveTo |-> b.vaults[c.vault].ws, picked |-> None]
      BY <1>1, <1>3 DEF Board!Drawn
    <2>2. c.ws = b.vaults[c.vault].ws /\ b.vaults[c.vault].live
      BY <1>1 DEF Board!LiveVault
    <2> QED BY <2>1, <2>2 DEF DraftShape
  <1> QED BY <1>2, <1>3

LEMMA DrawerOpens ==
    ASSUME BoardInv, Board!BoardComes \/ \E v \in Cards : Board!OpenVault(v)
    PROVE  BoardInv'
  <1>1. boardCalls' = boardCalls /\ boardDraft' = Board!Drawn(ctx', board') /\ (boardDraft = None \/ ctx' = ctx)
    BY DEF Board!BoardComes, Board!OpenVault
  <1>2. Board!Drawn(ctx', board') # None =>
            /\ ctx'.ws = board'.vaults[ctx'.vault].ws /\ board'.vaults[ctx'.vault].live
            /\ DraftShape(Board!Drawn(ctx', board'))
            /\ Board!Drawn(ctx', board').moveTo \in {ctx'.ws, Board!Drawn(ctx', board').picked}
    BY <1>1, DrawerFollows
  <1>3. Board!DrawerWhereShown'
    BY <1>1, <1>2 DEF Board!DrawerWhereShown, Board!WsNow
  <1>4. DraftFits'
    BY <1>1, <1>2 DEF DraftFits, DraftShape
  <1> QED BY <1>1, <1>3, <1>4 DEF BoardInv, Board!MovesWerePicked

\* What is sent closes what it was sent from, or leaves the drawer alone.
LEMMA BoardSends ==
    ASSUME BoardInv, \A c \in boardCalls' \ boardCalls : c.op = "move" => c.picked = c.to,
           boardDraft' = None \/ UNCHANGED <<boardDraft, ctx, board>>
    PROVE  BoardInv'
  <1>1. Board!MovesWerePicked'
    BY DEF BoardInv, Board!MovesWerePicked
  <1>2. Board!DrawerWhereShown' /\ DraftFits'
    BY DEF BoardInv, Board!DrawerWhereShown, Board!WsNow, DraftFits, DraftShape
  <1> QED BY <1>1, <1>2 DEF BoardInv

LEMMA DrawerSaves ==
    ASSUME BoardInv, Board!Save
    PROVE  BoardInv'
  <1>1. boardDraft # None /\ boardDraft' = None
    BY DEF Board!Save, Board!Editable
  <1>2. boardDraft.moveTo \in {Board!WsNow, boardDraft.picked}
    BY <1>1 DEF BoardInv, DraftFits, Board!DrawerWhereShown
  <1>3. ASSUME NEW c \in boardCalls' \ boardCalls, c.op = "move" PROVE c.picked = c.to
    <2>1. c \in {Board!Rename(ctx.vault, n) : n \in {boardDraft.name} \ {board.vaults[ctx.vault].name}}
          \/ c \in {Board!Move(ctx.vault, w, boardDraft.picked) : w \in {boardDraft.moveTo} \ {Board!WsNow}}
      BY <1>3 DEF Board!Save
    <2>2. CASE c \in {Board!Rename(ctx.vault, n) : n \in {boardDraft.name} \ {board.vaults[ctx.vault].name}}
      BY <1>3, <2>2 DEF Board!Rename
    <2>3. CASE c \in {Board!Move(ctx.vault, w, boardDraft.picked) : w \in {boardDraft.moveTo} \ {Board!WsNow}}
      BY <1>2, <2>3 DEF Board!Move
    <2> QED BY <2>1, <2>2, <2>3
  <1> QED BY <1>1, <1>3, BoardSends

LEMMA DrawerEdited ==
    ASSUME BoardInv, Board!Editable, UNCHANGED <<board, ctx, boardCalls>>,
           \/ \E n \in Names : boardDraft' = [boardDraft EXCEPT !.name = n]
           \/ \E w \in Wss : boardDraft' = [boardDraft EXCEPT !.moveTo = w, !.picked = w]
    PROVE  BoardInv'
  <1>1. boardDraft # None /\ DraftShape(boardDraft) /\ boardDraft.moveTo \in {ctx.ws, boardDraft.picked}
    BY DEF BoardInv, DraftFits, Board!Editable
  <1>2. DraftShape(boardDraft') /\ boardDraft'.moveTo \in {ctx.ws, boardDraft'.picked}
    <2>1. ASSUME NEW n \in Names, boardDraft' = [boardDraft EXCEPT !.name = n]
          PROVE  boardDraft' = [name |-> n, moveTo |-> boardDraft.moveTo, picked |-> boardDraft.picked]
      BY <1>1, <2>1 DEF DraftShape
    <2>2. ASSUME NEW w \in Wss, boardDraft' = [boardDraft EXCEPT !.moveTo = w, !.picked = w]
          PROVE  boardDraft' = [name |-> boardDraft.name, moveTo |-> w, picked |-> w]
      BY <1>1, <2>2 DEF DraftShape
    <2> QED BY <1>1, <2>1, <2>2 DEF DraftShape
  <1>3. DraftFits'
    BY <1>2 DEF DraftFits, DraftShape
  <1>4. Board!DrawerWhereShown' /\ Board!MovesWerePicked'
    BY <1>1 DEF BoardInv, Board!DrawerWhereShown, Board!WsNow, Board!MovesWerePicked
  <1> QED BY <1>3, <1>4 DEF BoardInv

LEMMA BoardStep == ASSUME BoardInv, [Board!BoardNext]_(Board!vars) PROVE BoardInv'
  <1>1. CASE UNCHANGED Board!vars
    BY <1>1, BoardSends DEF Board!vars
  <1>2. CASE Board!ForeignChange
    BY <1>2, BoardSends DEF Board!ForeignChange
  <1>3. CASE Board!BoardComes \/ \E v \in Cards : Board!OpenVault(v)
    BY <1>3, DrawerOpens
  <1>4. ASSUME NEW c \in boardCalls, Board!CallRuns(c) PROVE BoardInv'
    BY <1>4, BoardSends DEF Board!CallRuns
  <1>5. ASSUME NEW v \in Cards, Board!DragStart(v) PROVE BoardInv'
    BY <1>5, BoardSends DEF Board!DragStart
  <1>6. ASSUME NEW n \in Names, Board!TypeName(n) PROVE BoardInv'
    BY <1>6, DrawerEdited DEF Board!TypeName
  <1>7. ASSUME NEW w \in Wss, Board!PickTarget(w) PROVE BoardInv'
    BY <1>7, DrawerEdited DEF Board!PickTarget
  <1>8. ASSUME NEW w \in Wss, Board!DragOver(w) PROVE BoardInv'
    BY <1>8, BoardSends DEF Board!DragOver
  <1>9. ASSUME NEW w \in Wss, Board!Drop(w) PROVE BoardInv'
    BY <1>9, BoardSends DEF Board!Drop, Board!Move
  <1>10. CASE Board!Save
    BY <1>10, DrawerSaves
  <1>11. CASE Board!Archive
    BY <1>11, BoardSends DEF Board!Archive
  <1>12. CASE Board!Close
    BY <1>12, BoardSends DEF Board!Close
  <1>13. CASE Board!DragLeave \/ Board!DragEnd
    BY <1>13, BoardSends DEF Board!DragLeave, Board!DragEnd
  <1> QED
    BY <1>1, <1>2, <1>3, <1>4, <1>5, <1>6, <1>7, <1>8, <1>9, <1>10, <1>11, <1>12, <1>13 DEF Board!BoardNext

-----------------------------------------------------------------------------
(* The organisation's people, groups and guests.                           *)

RoleNames == {"none", "member", "admin"}
Stages == {"asked", "checked", "granted", "served", "refused", "failed"}
AboutScopes == {"add", "set", "invite", "remove"}
OrgOps == AboutScopes \cup {"delete", "create", "join", "leave"}
OrgRows == [op : OrgOps, kind : Staff!Kinds, scope : Scopes \cup {None}, role : RoleNames, at : Stages]

\* A call about a role names a scope, one to a group's members names none.
RowFits(r) == r \in OrgRows /\ (r.op \in AboutScopes => r.scope \in Scopes)

OrgTypes ==
    /\ known \in [Staff!Kinds -> BOOLEAN]
    /\ held \in [Staff!Kinds -> [Scopes -> RoleNames]]
    /\ removed \in [Staff!Kinds -> SUBSET Scopes]
    /\ rowScope \in [Staff!Kinds -> Scopes \cup {None}]
    /\ orgCalls \in Seq(OrgRows)
CallsFit == \A c \in DOMAIN orgCalls : RowFits(orgCalls[c])

OrgInv == OrgTypes /\ CallsFit /\ Staff!RemovedStaysOut /\ Staff!DeletedGroupIsEmpty

LEMMA OrgStarts == Staff!OrgInit => OrgInv
  BY DEF Staff!OrgInit, OrgInv, OrgTypes, CallsFit, RoleNames, Staff!RemovedStaysOut,
     Staff!DeletedGroupIsEmpty, Staff!Kinds

\* What the page sends changes nothing but the list of calls.
LEMMA CallsSent ==
    ASSUME OrgInv, NEW sent \in Seq(OrgRows), \A i \in DOMAIN sent : RowFits(sent[i]), Staff!Send(sent),
           rowScope' = rowScope
    PROVE  OrgInv'
  <1>1. orgCalls' = orgCalls \o sent /\ UNCHANGED <<known, held, inGroup, invites, orgListed, removed>>
    BY DEF Staff!Send
  <1>2. orgCalls \in Seq(OrgRows)
    BY DEF OrgInv, OrgTypes
  <1>3. orgCalls' \in Seq(OrgRows) /\ Len(orgCalls') = Len(orgCalls) + Len(sent)
        /\ \A i \in 1..(Len(orgCalls) + Len(sent)) :
               orgCalls'[i] = IF i <= Len(orgCalls) THEN orgCalls[i] ELSE sent[i - Len(orgCalls)]
    BY <1>1, <1>2, ConcatProperties
  <1>4. CallsFit'
    <2> SUFFICES ASSUME NEW i \in 1..(Len(orgCalls) + Len(sent)) PROVE RowFits(orgCalls'[i])
      BY <1>3 DEF CallsFit
    <2>1. CASE i <= Len(orgCalls)
      BY <1>2, <1>3, <2>1 DEF OrgInv, CallsFit
    <2>2. CASE ~(i <= Len(orgCalls))
      <3>1. i - Len(orgCalls) \in DOMAIN sent
        BY <1>2, <2>2
      <3> QED BY <1>3, <2>2, <3>1
    <2> QED BY <2>1, <2>2
  <1> QED
    BY <1>1, <1>3, <1>4 DEF OrgInv, OrgTypes, Staff!RemovedStaysOut, Staff!DeletedGroupIsEmpty

LEMMA CallSent ==
    ASSUME OrgInv, NEW r, RowFits(r), Staff!Send(<<r>>), rowScope' = rowScope
    PROVE  OrgInv'
  <1>1. <<r>> \in Seq(OrgRows) /\ \A i \in DOMAIN <<r>> : RowFits(<<r>>[i])
    BY DEF RowFits
  <1> QED BY <1>1, CallsSent

LEMMA OpFits ==
    ASSUME NEW op \in OrgOps, NEW k \in Staff!Kinds, NEW s \in Scopes \cup {None}, NEW r \in RoleNames,
           op \in AboutScopes => s \in Scopes
    PROVE  RowFits(Staff!Call(op, k, s, r))
  BY DEF RowFits, OrgRows, Staff!Call, Stages

\* A guest's removal calls for each vault of the list.
LEMMA GuestRemoved ==
    ASSUME OrgInv, Staff!RemoveGuest
    PROVE  OrgInv'
  <1> PICK n \in 1..MaxCalls : \E guestOf \in [1..n -> Staff!Taken("guest")] :
          Staff!Send([i \in 1..n |-> Staff!Call("remove", "guest", guestOf[i], "none")])
    BY DEF Staff!RemoveGuest
  <1> PICK guestOf \in [1..n -> Staff!Taken("guest")] :
          Staff!Send([i \in 1..n |-> Staff!Call("remove", "guest", guestOf[i], "none")])
    OBVIOUS
  <1> DEFINE sent == [i \in 1..n |-> Staff!Call("remove", "guest", guestOf[i], "none")]
  <1>1. \A i \in 1..n : guestOf[i] \in Scopes
    BY DEF Staff!Taken
  <1>2. \A i \in 1..n : RowFits(Staff!Call("remove", "guest", guestOf[i], "none"))
    BY <1>1, OpFits DEF OrgOps, AboutScopes, RoleNames, Staff!Kinds
  <1>3. sent \in [1..n -> OrgRows] /\ \A i \in 1..n : RowFits(sent[i])
    BY <1>2 DEF RowFits
  <1>4. Staff!Send(sent) /\ rowScope' = rowScope
    BY DEF Staff!RemoveGuest
  <1> HIDE DEF sent
  <1>5. sent \in Seq(OrgRows) /\ DOMAIN sent = 1..n
    BY <1>3
  <1> QED BY <1>3, <1>4, <1>5, CallsSent

LEMMA PageCalls ==
    ASSUME OrgInv,
           \/ Staff!DeleteGroup \/ Staff!JoinOrLeave \/ Staff!CreateGroup
           \/ \E k \in Staff!Kinds, s \in Scopes : Staff!RemoveScope(k, s)
           \/ \E k \in Staff!Kinds, r \in Staff!Roles : Staff!AddScope(k, r)
           \/ \E k \in Staff!Kinds, s \in Scopes, r \in Staff!Roles : Staff!SetRole(k, s, r) \/ Staff!Invite(k, s, r)
    PROVE  OrgInv'
  <1> DEFINE OneSent ==
          \E op \in OrgOps, k \in Staff!Kinds, s \in Scopes \cup {None}, r \in RoleNames :
              /\ op \in AboutScopes => s \in Scopes
              /\ Staff!Send(<<Staff!Call(op, k, s, r)>>) /\ rowScope' = rowScope
  <1>1. OneSent
    <2>0. "group" \in Staff!Kinds /\ "none" \in RoleNames /\ Staff!Roles \subseteq RoleNames
          /\ {"delete", "create", "join", "leave"} \subseteq OrgOps /\ AboutScopes \subseteq OrgOps
          /\ {"delete", "create", "join", "leave"} \cap AboutScopes = {}
          /\ {"add", "set", "invite", "remove"} = AboutScopes
      BY DEF Staff!Kinds, RoleNames, Staff!Roles, OrgOps, AboutScopes
    <2>1. CASE Staff!DeleteGroup
      BY <2>0, <2>1 DEF Staff!DeleteGroup
    <2>2. CASE Staff!JoinOrLeave
      <3> PICK op : op = IF orgListed.inGroup THEN "leave" ELSE "join"
        OBVIOUS
      <3>1. Staff!Send(<<Staff!Call(op, "group", None, "none")>>) /\ rowScope' = rowScope
        BY <2>2 DEF Staff!JoinOrLeave
      <3>2. op \in OrgOps /\ op \notin AboutScopes
        BY <2>0
      <3> QED BY <2>0, <3>1, <3>2
    <2>3. CASE Staff!CreateGroup
      BY <2>0, <2>3 DEF Staff!CreateGroup
    <2>4. ASSUME NEW k \in Staff!Kinds, NEW s \in Scopes, Staff!RemoveScope(k, s) PROVE OneSent
      <3>1. Staff!Send(<<Staff!Call("remove", k, s, "none")>>) /\ rowScope' = rowScope
        BY <2>4 DEF Staff!RemoveScope
      <3> QED BY <2>0, <3>1
    <2>5. ASSUME NEW k \in Staff!Kinds, NEW r \in Staff!Roles, Staff!AddScope(k, r) PROVE OneSent
      <3>1. Staff!Send(<<Staff!Call("add", k, rowScope[k], r)>>) /\ rowScope' = rowScope /\ rowScope[k] # None
        BY <2>5 DEF Staff!AddScope
      <3>2. rowScope[k] \in Scopes
        BY <3>1 DEF OrgInv, OrgTypes
      <3> QED BY <2>0, <3>1, <3>2
    <2>6. ASSUME NEW k \in Staff!Kinds, NEW s \in Scopes, NEW r \in Staff!Roles, Staff!SetRole(k, s, r) PROVE OneSent
      <3>1. Staff!Send(<<Staff!Call("set", k, s, r)>>) /\ rowScope' = rowScope
        BY <2>6 DEF Staff!SetRole
      <3> QED BY <2>0, <3>1
    <2>7. ASSUME NEW k \in Staff!Kinds, NEW s \in Scopes, NEW r \in Staff!Roles, Staff!Invite(k, s, r) PROVE OneSent
      <3>1. Staff!Send(<<Staff!Call("invite", k, s, r)>>) /\ rowScope' = rowScope
        BY <2>7 DEF Staff!Invite
      <3> QED BY <2>0, <3>1
    <2> QED BY <2>1, <2>2, <2>3, <2>4, <2>5, <2>6, <2>7
  <1>2. PICK op \in OrgOps, k \in Staff!Kinds, s \in Scopes \cup {None}, r \in RoleNames :
            /\ op \in AboutScopes => s \in Scopes
            /\ Staff!Send(<<Staff!Call(op, k, s, r)>>) /\ rowScope' = rowScope
    BY <1>1
  <1>3. RowFits(Staff!Call(op, k, s, r))
    BY <1>2, OpFits
  <1> QED BY <1>2, <1>3, CallSent

\* A row of the page chooses its scope among those that are offered.
LEMMA RowChooses ==
    ASSUME OrgInv, \E k \in Staff!Kinds : Staff!Expand(k) \/ \E s \in Scopes : Staff!PickScope(k, s)
    PROVE  OrgInv'
  <1> PICK k \in Staff!Kinds : Staff!Expand(k) \/ \E s \in Scopes : Staff!PickScope(k, s)
    OBVIOUS
  <1>1. Staff!FirstOf(Staff!Available(k)) \in Scopes \cup {None}
    <2>1. Staff!Available(k) \subseteq Scopes
      BY DEF Staff!Available
    <2> QED BY <2>1 DEF Staff!FirstOf
  <1>2. \E s \in Scopes \cup {None} : rowScope' = [rowScope EXCEPT ![k] = s]
    BY <1>1 DEF Staff!Expand, Staff!PickScope
  <1>3. UNCHANGED <<known, held, inGroup, orgCalls, removed>>
    BY DEF Staff!Expand, Staff!PickScope
  <1>4. rowScope' \in [Staff!Kinds -> Scopes \cup {None}]
    BY <1>2 DEF OrgInv, OrgTypes
  <1> QED
    BY <1>3, <1>4 DEF OrgInv, OrgTypes, CallsFit, Staff!RemovedStaysOut, Staff!DeletedGroupIsEmpty

\* A call that gets on names what it named before.
LEMMA CallEnds ==
    ASSUME OrgTypes, CallsFit, NEW c \in DOMAIN orgCalls, NEW stage \in Stages, Staff!Ends(c, stage)
    PROVE  orgCalls' \in Seq(OrgRows) /\ CallsFit'
  <1> DEFINE r == [orgCalls[c] EXCEPT !.at = stage]
  <1>1. orgCalls' = [orgCalls EXCEPT ![c] = r] /\ RowFits(orgCalls[c])
    BY DEF Staff!Ends, CallsFit
  <1>2. RowFits(r)
    BY <1>1 DEF RowFits, OrgRows
  <1> HIDE DEF r
  <1>3. orgCalls' \in Seq(OrgRows) /\ DOMAIN orgCalls' = DOMAIN orgCalls
        /\ \A d \in DOMAIN orgCalls : orgCalls'[d] = IF d = c THEN r ELSE orgCalls[d]
    BY <1>1, <1>2 DEF OrgTypes, RowFits
  <1> QED BY <1>2, <1>3 DEF CallsFit

\* A role is given: where it is an add or an invitation, the removal is taken back; a change of
\* a person's role finds the row.
LEMMA RoleGiven ==
    ASSUME OrgInv, NEW c \in DOMAIN orgCalls, Staff!RoleWritten(c), Staff!Writable(orgCalls[c])
    PROVE  OrgInv'
  <1> DEFINE call == orgCalls[c]
  <1>1. call \in OrgRows /\ call.op \in {"add", "set", "invite"} /\ call.scope \in Scopes
        /\ call.kind \in Staff!Kinds /\ call.role \in RoleNames
    BY DEF OrgInv, CallsFit, RowFits, OrgRows, AboutScopes, Staff!RoleWritten
  <1>2. held' = [held EXCEPT ![call.kind][call.scope] = call.role]
    BY DEF Staff!RoleWritten
  <1>3. removed' = IF call.op = "set" /\ call.kind # "group" THEN removed
                   ELSE [removed EXCEPT ![call.kind] = @ \ {call.scope}]
    BY DEF Staff!RoleWritten
  <1>4. \E stage \in Stages : Staff!Ends(c, stage)
    BY DEF Staff!RoleWritten, Stages
  <1>5. UNCHANGED <<known, inGroup, rowScope>>
    BY DEF Staff!RoleWritten
  <1> HIDE DEF call
  <1> DEFINE row == [held[call.kind] EXCEPT ![call.scope] = call.role]
  <1>6. row \in [Scopes -> RoleNames] /\ \A s \in Scopes : row[s] = IF s = call.scope THEN call.role ELSE held[call.kind][s]
    BY <1>1 DEF OrgInv, OrgTypes
  <1>7. held' = [held EXCEPT ![call.kind] = row]
    BY <1>2
  <1> HIDE DEF row
  <1>8. held' \in [Staff!Kinds -> [Scopes -> RoleNames]]
        /\ \A k \in Staff!Kinds : held'[k] = IF k = call.kind THEN row ELSE held[k]
    BY <1>1, <1>6, <1>7 DEF OrgInv, OrgTypes
  <1>9. removed' \in [Staff!Kinds -> SUBSET Scopes]
    BY <1>1, <1>3 DEF OrgInv, OrgTypes
  <1>10. ASSUME NEW s \in removed'["person"] PROVE held'["person"][s] = "none"
    <2>0. "person" \in Staff!Kinds
      BY DEF Staff!Kinds
    <2>1. s \in removed["person"] /\ s \in Scopes /\ held["person"][s] = "none"
      BY <1>1, <1>3, <1>10, <2>0 DEF OrgInv, OrgTypes, Staff!RemovedStaysOut
    <2>2. CASE call.kind # "person"
      BY <1>8, <2>0, <2>1, <2>2
    <2>3. CASE call.kind = "person" /\ call.op = "set"
      <3>1. held["person"][call.scope] # "none"
        BY <2>3 DEF Staff!Writable, call
      <3> QED BY <1>6, <1>8, <2>0, <2>1, <2>3, <3>1
    <2>4. CASE call.kind = "person" /\ call.op # "set"
      <3>1. removed'["person"] = removed["person"] \ {call.scope}
        BY <1>1, <1>3, <2>0, <2>4 DEF OrgInv, OrgTypes
      <3> QED BY <1>6, <1>8, <1>10, <2>0, <2>1, <2>4, <3>1
    <2> QED BY <2>2, <2>3, <2>4
  <1> QED
    BY <1>4, <1>5, <1>8, <1>9, <1>10, CallEnds
       DEF OrgInv, OrgTypes, Staff!RemovedStaysOut, Staff!DeletedGroupIsEmpty

LEMMA RoleTaken ==
    ASSUME OrgInv, NEW c \in DOMAIN orgCalls, Staff!RoleRemoved(c)
    PROVE  OrgInv'
  <1> DEFINE call == orgCalls[c]
  <1>1. call.op = "remove" /\ call.scope \in Scopes /\ call.kind \in Staff!Kinds
    BY DEF OrgInv, CallsFit, RowFits, OrgRows, AboutScopes, Staff!RoleRemoved
  <1>2. held' = [held EXCEPT ![call.kind][call.scope] = "none"]
        /\ removed' = [removed EXCEPT ![call.kind] = @ \cup {call.scope}]
        /\ UNCHANGED <<known, inGroup, rowScope>>
    BY DEF Staff!RoleRemoved
  <1>3. \E stage \in Stages : Staff!Ends(c, stage)
    BY DEF Staff!RoleRemoved, Stages
  <1> HIDE DEF call
  <1> DEFINE row == [held[call.kind] EXCEPT ![call.scope] = "none"]
  <1>4. row \in [Scopes -> RoleNames] /\ \A s \in Scopes : row[s] = IF s = call.scope THEN "none" ELSE held[call.kind][s]
    BY <1>1 DEF OrgInv, OrgTypes, RoleNames
  <1>5. held' = [held EXCEPT ![call.kind] = row]
    BY <1>2
  <1> HIDE DEF row
  <1>6. held' \in [Staff!Kinds -> [Scopes -> RoleNames]]
        /\ \A k \in Staff!Kinds : held'[k] = IF k = call.kind THEN row ELSE held[k]
    BY <1>1, <1>4, <1>5 DEF OrgInv, OrgTypes
  <1>7. removed' \in [Staff!Kinds -> SUBSET Scopes]
        /\ \A k \in Staff!Kinds : removed'[k] = IF k = call.kind THEN removed[k] \cup {call.scope} ELSE removed[k]
    BY <1>1, <1>2 DEF OrgInv, OrgTypes
  <1>8. ASSUME NEW s \in removed'["person"] PROVE held'["person"][s] = "none"
    <2>0. "person" \in Staff!Kinds
      BY DEF Staff!Kinds
    <2>1. s \in Scopes /\ (s \in removed["person"] \/ (call.kind = "person" /\ s = call.scope))
      BY <1>1, <1>7, <1>8, <2>0
    <2>2. s \in removed["person"] => held["person"][s] = "none"
      BY DEF OrgInv, Staff!RemovedStaysOut
    <2> QED BY <1>4, <1>6, <2>0, <2>1, <2>2
  <1> QED
    BY <1>2, <1>3, <1>6, <1>7, <1>8, CallEnds
       DEF OrgInv, OrgTypes, Staff!RemovedStaysOut, Staff!DeletedGroupIsEmpty

\* Rows of users and groups come and go; a group goes with its members.
LEMMA RowsChange ==
    ASSUME OrgInv, NEW c \in DOMAIN orgCalls, NEW stage \in Stages, Staff!Ends(c, stage),
           UNCHANGED <<rowScope, removed>>,
           \/ UNCHANGED <<held, inGroup>> /\ known' \in {known, [known EXCEPT !["group"] = TRUE],
                                   [known EXCEPT !["person"] = TRUE], [known EXCEPT !["guest"] = TRUE]}
           \/ /\ held' = [held EXCEPT !["group"] = [s \in Scopes |-> "none"]] /\ inGroup' = FALSE
              /\ known' = [known EXCEPT !["group"] = FALSE]
           \/ UNCHANGED <<known, held>> /\ (inGroup' = FALSE \/ known["group"])
    PROVE  OrgInv'
  <1>1. "group" \in Staff!Kinds /\ "person" \in Staff!Kinds
    BY DEF Staff!Kinds
  <1>2. orgCalls' \in Seq(OrgRows) /\ CallsFit'
    BY CallEnds DEF OrgInv
  <1>3. held' \in [Staff!Kinds -> [Scopes -> RoleNames]] /\ held'["person"] = held["person"]
    BY <1>1 DEF OrgInv, OrgTypes, RoleNames
  <1>4. known' \in [Staff!Kinds -> BOOLEAN]
    BY <1>1 DEF OrgInv, OrgTypes
  <1>5. Staff!DeletedGroupIsEmpty'
    BY <1>1 DEF OrgInv, OrgTypes, Staff!DeletedGroupIsEmpty
  <1> QED
    BY <1>2, <1>3, <1>4, <1>5 DEF OrgInv, OrgTypes, Staff!RemovedStaysOut

LEMMA CallMoves ==
    ASSUME OrgInv, NEW c \in 1..MaxCalls,
           \/ Staff!CallChecked(c) \/ Staff!RoleWritten(c) \/ Staff!InviteIssued(c) \/ Staff!RoleRemoved(c)
           \/ Staff!GroupDeleted(c) \/ Staff!GroupCreated(c) \/ Staff!MembershipWritten(c) \/ Staff!CallFails(c)
    PROVE  OrgInv'
  <1>0. c \in DOMAIN orgCalls
    <2>1. c \in 1..Len(orgCalls)
      BY DEF Staff!CallChecked, Staff!RoleWritten, Staff!InviteIssued, Staff!RoleRemoved, Staff!GroupDeleted,
             Staff!GroupCreated, Staff!MembershipWritten, Staff!CallFails, Staff!At, Staff!Due
    <2> QED BY <2>1 DEF OrgInv, OrgTypes
  <1>a. orgCalls[c].kind \in {"person", "group", "guest"}
    BY <1>0 DEF OrgInv, CallsFit, RowFits, OrgRows, Staff!Kinds
  <1>1. CASE Staff!CallChecked(c)
    <2>1. \E stage \in Stages : Staff!Ends(c, stage)
      BY <1>1 DEF Staff!CallChecked, Stages
    <2>2. UNCHANGED <<held, inGroup, rowScope, removed>> /\ known' \in {known, [known EXCEPT !["group"] = TRUE],
              [known EXCEPT !["person"] = TRUE], [known EXCEPT !["guest"] = TRUE]}
      BY <1>1, <1>a DEF Staff!CallChecked
    <2> QED BY <1>0, <2>1, <2>2, RowsChange
  <1>2. CASE Staff!RoleWritten(c)
    <2>1. CASE Staff!Writable(orgCalls[c])
      BY <1>0, <1>2, <2>1, RoleGiven
    <2>2. CASE ~Staff!Writable(orgCalls[c])
      <3>1. Staff!Ends(c, "refused") /\ UNCHANGED <<known, held, inGroup, rowScope, removed>> /\ "refused" \in Stages
        BY <1>2, <2>2 DEF Staff!RoleWritten, Stages
      <3> QED BY <1>0, <3>1, RowsChange
    <2> QED BY <2>1, <2>2
  <1>3. CASE Staff!InviteIssued(c)
    <2>1. Staff!Ends(c, "served") /\ UNCHANGED <<known, held, inGroup, rowScope, removed>> /\ "served" \in Stages
      BY <1>3 DEF Staff!InviteIssued, Stages
    <2> QED BY <1>0, <2>1, RowsChange
  <1>4. CASE Staff!RoleRemoved(c)
    BY <1>0, <1>4, RoleTaken
  <1>5. CASE Staff!GroupDeleted(c)
    <2>1. Staff!Ends(c, "served") /\ UNCHANGED <<rowScope, removed>> /\ "served" \in Stages
          /\ held' = [held EXCEPT !["group"] = [s \in Scopes |-> "none"]] /\ inGroup' = FALSE
          /\ known' = [known EXCEPT !["group"] = FALSE]
      BY <1>5 DEF Staff!GroupDeleted, Stages
    <2> QED BY <1>0, <2>1, RowsChange
  <1>6. CASE Staff!GroupCreated(c)
    <2>1. Staff!Ends(c, "served") /\ UNCHANGED <<held, inGroup, rowScope, removed>> /\ "served" \in Stages
          /\ known' = [known EXCEPT !["group"] = TRUE]
      BY <1>6 DEF Staff!GroupCreated, Stages
    <2> QED BY <1>0, <2>1, RowsChange
  <1>7. CASE Staff!MembershipWritten(c)
    <2>1. \E stage \in Stages : Staff!Ends(c, stage)
      BY <1>7 DEF Staff!MembershipWritten, Stages
    <2>2. UNCHANGED <<known, held, rowScope, removed>> /\ (inGroup' = FALSE \/ known["group"])
      BY <1>7 DEF Staff!MembershipWritten
    <2> QED BY <1>0, <2>1, <2>2, RowsChange
  <1>8. CASE Staff!CallFails(c)
    <2>1. Staff!Ends(c, "failed") /\ UNCHANGED <<known, held, inGroup, rowScope, removed>> /\ "failed" \in Stages
      BY <1>8 DEF Staff!CallFails, Stages
    <2> QED BY <1>0, <2>1, RowsChange
  <1> QED BY <1>1, <1>2, <1>3, <1>4, <1>5, <1>6, <1>7, <1>8

LEMMA OrgStep == ASSUME OrgInv, [Staff!OrgNext]_(Staff!orgVars) PROVE OrgInv'
  <1>1. CASE UNCHANGED <<known, held, inGroup, removed, rowScope, orgCalls>>
    BY <1>1 DEF OrgInv, OrgTypes, CallsFit, Staff!RemovedStaysOut, Staff!DeletedGroupIsEmpty
  <1>2. CASE UNCHANGED Staff!orgVars \/ Staff!Refetch
    BY <1>1, <1>2 DEF Staff!orgVars, Staff!Refetch
  <1>3. CASE Staff!RemoveGuest
    BY <1>3, GuestRemoved
  <1>4. CASE \/ Staff!DeleteGroup \/ Staff!JoinOrLeave \/ Staff!CreateGroup
             \/ \E k \in Staff!Kinds, s \in Scopes : Staff!RemoveScope(k, s)
             \/ \E k \in Staff!Kinds, r \in Staff!Roles : Staff!AddScope(k, r)
             \/ \E k \in Staff!Kinds, s \in Scopes, r \in Staff!Roles : Staff!SetRole(k, s, r) \/ Staff!Invite(k, s, r)
    BY <1>4, PageCalls
  <1>5. CASE \E k \in Staff!Kinds : Staff!Expand(k) \/ \E s \in Scopes : Staff!PickScope(k, s)
    BY <1>5, RowChooses
  <1>6. ASSUME NEW c \in 1..MaxCalls,
           \/ Staff!CallChecked(c) \/ Staff!RoleWritten(c) \/ Staff!InviteIssued(c) \/ Staff!RoleRemoved(c)
           \/ Staff!GroupDeleted(c) \/ Staff!GroupCreated(c) \/ Staff!MembershipWritten(c) \/ Staff!CallFails(c)
        PROVE OrgInv'
    BY <1>6, CallMoves
  <1> QED
    BY <1>2, <1>3, <1>4, <1>5, <1>6 DEF Staff!OrgNext

-----------------------------------------------------------------------------
\* Who and what an organisation has survives calls that cross each other, for every set of
\* workspaces, vaults, names, sources and tags: a role that was removed is not
\* brought back by a change under way, and a deleted group has no members; a vault moves only
\* where it was dropped or where its drawer said; no source loses its last tag to a merge. The
\* invariants say what the calls under way name, what an open drawer would send, and that a merge
\* is of two tags.
THEOREM OrganisationIsSafe == PagesSpec => []OrganisationSafe
  <1> DEFINE Inv == /\ onPage = "org" => OrgInv
                    /\ onPage = "board" => BoardInv
                    /\ onPage = "tags" => TagsInv
  <1>1. PagesInit => Inv
    BY OrgPageOpens, OrgStarts, BoardPageOpens, BoardStarts, TagsPageOpens, TagsStart
  <1>2. Inv /\ [PagesNext]_pagesVars => Inv'
    <2> SUFFICES ASSUME Inv, [PagesNext]_pagesVars PROVE Inv'
      OBVIOUS
    <2>1. ASSUME onPage' = "org" PROVE OrgInv'
      BY <2>1, OrgPageMoves, OrgStep
    <2>2. ASSUME onPage' = "board" PROVE BoardInv'
      BY <2>2, BoardPageMoves, BoardStep
    <2>3. ASSUME onPage' = "tags" PROVE TagsInv'
      BY <2>3, TagsPageMoves, TagsStep
    <2> QED BY <2>1, <2>2, <2>3
  <1>3. Inv => OrganisationSafe
    BY DEF OrgInv, BoardInv, TagsInv, OrganisationSafe, Staff!OrgSafe, Board!BoardSafe, Manager!TagsSafe
  <1> QED BY <1>1, <1>2, <1>3, PTL DEF PagesSpec

==============================================================================
