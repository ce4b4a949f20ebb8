------------------------------ MODULE InboxRead ------------------------------
(***************************************************************************)
(* Which notifications count as read: the Inbox page                       *)
(* (pages/Inbox/index.tsx) and the top bar's menu                          *)
(* (components/layout/TopBar.tsx) over useInboxRead of lib/inbox.ts.  The  *)
(* read ids are kept in the browser's storage, which the tabs share; each  *)
(* tab has a copy of them and hears of another tab's write later.  The     *)
(* page and the menu load the newest notifications, the menu fewer.        *)
(***************************************************************************)
EXTENDS Naturals, FiniteSets

CONSTANTS
    BrowserTabs,
    PageLimit, MenuLimit,   \* notifications loaded by the page and by the menu
    MaxNotes                \* bound: notifications, numbered in the order they come

VARIABLES
    notes,       \* the server: notifications 1..notes
    serverRead,  \* those with read_at, which no page looks at
    inboxStored, \* b2-inbox-read
    readIds,     \* each tab's ids
    told,        \* the tabs whose storage event is still to come
    loaded,      \* what each tab's two lists show
    seen         \* history: what any list has shown

inboxVars == <<notes, serverRead, inboxStored, readIds, told, loaded, seen>>

Views == {"page", "menu"}
Newest(v) == {i \in 1..notes : i + (IF v = "page" THEN PageLimit ELSE MenuLimit) > notes}

InboxInit ==
    /\ notes \in 0..MaxNotes /\ serverRead = {}
    /\ inboxStored = {} /\ readIds = [t \in BrowserTabs |-> {}] /\ told = {}
    /\ loaded = [t \in BrowserTabs |-> [v \in Views |-> {}]]
    /\ seen = {}

Notified ==
    /\ notes < MaxNotes
    /\ notes' = notes + 1
    /\ UNCHANGED <<serverRead, inboxStored, readIds, told, loaded, seen>>

Load(t, v) ==
    /\ loaded' = [loaded EXCEPT ![t][v] = Newest(v)]
    /\ seen' = seen \cup Newest(v)
    /\ UNCHANGED <<notes, serverRead, inboxStored, readIds, told>>

\* A tab sees its own write at once, the others by the storage event.
Persist(t, ids) ==
    /\ inboxStored' = ids
    /\ readIds' = [readIds EXCEPT ![t] = ids]
    /\ told' = (told \cup BrowserTabs) \ {t}

StorageEvent(t) ==
    /\ t \in told
    /\ readIds' = [readIds EXCEPT ![t] = inboxStored]
    /\ told' = told \ {t}
    /\ UNCHANGED <<notes, serverRead, inboxStored, loaded, seen>>

\* The page toggles by what it shows, and edits what is stored; the menu shows unread ones.
Toggle(t, v, i) ==
    /\ i \in loaded[t][v]
    /\ v = "menu" => i \notin readIds[t]
    /\ Persist(t, IF i \in readIds[t] THEN inboxStored \ {i} ELSE inboxStored \cup {i})
    /\ UNCHANGED <<notes, serverRead, loaded, seen>>

\* A bug: all is read that the server marks.
MarkAllOfServer(t, v) ==
    /\ \E i \in loaded[t][v] : i \notin readIds[t]
    /\ Persist(t, 1..notes)
    /\ serverRead' = 1..notes
    /\ UNCHANGED <<notes, loaded, seen>>

\* The list that is shown becomes all that is read; the server marks what it has.
MarkAll(t, v) ==
    /\ \E i \in loaded[t][v] : i \notin readIds[t]
    /\ Persist(t, loaded[t][v])
    /\ serverRead' = 1..notes
    /\ UNCHANGED <<notes, loaded, seen>>

RestoreAll(t) ==
    /\ loaded[t]["page"] # {} /\ loaded[t]["page"] \subseteq readIds[t]
    /\ Persist(t, {})
    /\ UNCHANGED <<notes, serverRead, loaded, seen>>

InboxNext ==
    \/ Notified
    \/ \E t \in BrowserTabs : StorageEvent(t) \/ RestoreAll(t)
    \/ \E t \in BrowserTabs, v \in Views : Load(t, v) \/ MarkAll(t, v)
    \/ \E t \in BrowserTabs, v \in Views, i \in 1..MaxNotes : Toggle(t, v, i)

InboxSpec == InboxInit /\ [][InboxNext]_inboxVars

-----------------------------------------------------------------------------
(* Properties *)

\* A notification that no list of any tab has shown is unread: marking all as read, in a
\* tab whose list is old, does not take in what came since.
UnseenStaysUnread == inboxStored \subseteq seen /\ \A t \in BrowserTabs : readIds[t] \subseteq seen

\* "Mark all read" reads more.  It does not: ids beyond the menu's limit are forgotten.
MarkAllForgetsNothing ==
    [][\A t \in BrowserTabs, v \in Views : MarkAll(t, v) => inboxStored \subseteq inboxStored']_inboxVars

=============================================================================
