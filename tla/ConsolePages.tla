---------------------------- MODULE ConsolePages ----------------------------
(***************************************************************************)
(* Pages of the web console, each over its own part of the server: the     *)
(* inbox, the agents' queue and dialogs, the registered models, the        *)
(* scheduled runs, the reports, a query of the cache, the selection of     *)
(* workspace and vault, the wiki, the editor of extracted text, the        *)
(* organisation's people, the board of workspaces and the tags.  A         *)
(* behaviour belongs to one page, onPage says which: the pages share no    *)
(* state but the session (ConsoleSession), the query cache and the         *)
(* selection, which are pages of their own here.  u1 .. u15 hold the state *)
(* of that page, under the names its module uses; the rest are None.       *)
(***************************************************************************)
EXTENDS Naturals, Sequences, FiniteSets

CONSTANTS
    None,
    BrowserTabs, PageLimit, MenuLimit, MaxNotes,            \* InboxRead
    Todos, MaxMoves, MaxActs, MaxTexts,                     \* TodoPage
    Schedules, Times, Nine, MaxClock, MaxCalls, MaxTouches, \* ScheduledRuns
    Formats, Texts, PageSize, MaxReports, MaxDialogs, MaxSends, MaxClicks, \* ReportStudio
    MaxWrites, MaxForeign, MaxMounts, MaxFailures,          \* QueryCache
    Vaults, Topics, MaxSaves, MaxVisits,                    \* WikiPage
    Sources, Empty, MaxVersions,                            \* SourceEditing
    Scopes,                                                 \* OrgPeople
    Cards, Wss, Names, MaxBoardForeign, MaxBoardTouches,    \* WorkspaceBoard
    Tags, MaxEdits,                                         \* TagManager
    Agents, Models, Complexities,                           \* AgentEditor
    MaxDraftEdits, MaxDraftSaves,
    MaxRowVersions, MaxOpens, MaxKey,                       \* ModelsSettings
    Users, Global, Lists, VaultsOf, MaxTurns                \* WorkspaceSelection

VARIABLES onPage, u1, u2, u3, u4, u5, u6, u7, u8, u9, u10, u11, u12, u13, u14, u15

pagesVars == <<onPage, u1, u2, u3, u4, u5, u6, u7, u8, u9, u10, u11, u12, u13, u14, u15>>

\* The state of InboxRead.
notes == u1
serverRead == u2
inboxStored == u3
readIds == u4
told == u5
loaded == u6
seen == u7

\* The state of TodoPage.
todos == u1
moves == u2
listed == u3
listFetch == u4
menuId == u5
openId == u6
copy == u7
draft == u8
texts == u9
queueLock == u10
queueAction == u11
acts == u12
continued == u13

\* The state of ScheduledRuns.
clock == u1
schedules == u2
skips == u3
ran == u4
occurrences == u5
occFetch == u6
occError == u7
schedCalls == u8
editing == u9
touches == u10
changed == u11

\* The state of ReportStudio.
headerRun == u1
hasAgent == u2
dialog == u3
dialogs == u4
sends == u5
closing == u6
reports == u7
filter == u8
page == u9
astray == u10
answers == u11
fetching == u12
shown == u13
clicks == u14

\* The state of QueryCache.
watched == u1
truth == u2
data == u3
marked == u4
aged == u5
failed == u6
mounted == u7
fetch == u8
overtaken == u9
calls == u10
own == u11
used == u12

\* The state of WikiPage.
pages == u1
writes == u2
projectId == u3
topic == u4
route == u5
history == u6
projectsLoaded == u7
lists == u8
copies == u9
tab == u10
wikiDraft == u11
saves == u12

\* The state of SourceEditing.
content == u1
condition == u2
sourceListed == u3
sourceCopy == u4
asked == u5
answer == u6
chosen == u7
sourceTab == u8
startEditing == u9
body == u10
sourceSaves == u11
removal == u12
listStale == u13
sourceMoves == u14

\* The state of OrgPeople.
known == u1
held == u2
inGroup == u3
invites == u4
orgListed == u5
rowScope == u6
orgCalls == u7
removed == u8

\* The state of WorkspaceBoard.
vaults == u1
roles == u2
board == u3
drag == u4
over == u5
ctx == u6
boardDraft == u7
boardCalls == u8
boardForeign == u9
boardTouches == u10

\* The state of TagManager.
tagged == u1
names == u2
tagEditing == u3
mergeFrom == u4
mergeTo == u5
confirming == u6
renames == u7
deletion == u8
tagCalls == u9
tagForeign == u10
edits == u11
stripped == u12

\* The state of AgentEditor.
agents == u1
ready == u2
editorForeign == u3
editorEdits == u4
editorSaves == u5
roster == u6
models == u7
manages == u8
form == u9
saving == u10

\* The state of ModelsSettings.
registry == u1
rows == u2
formMode == u3
formKey == u4
typedKey == u5
saveLock == u6
testLock == u7
rowLock == u8
save == u9
test == u10
rowCall == u11
testResults == u12
ownVersion == u13
changes == u14
opens == u15

\* The state of WorkspaceSelection.
user == u1
me == u2
wsList == u3
loadedVaults == u4
activeWs == u5
activeVault == u6
loadedScope == u7
stored == u8
rendered == u9
turns == u10

INSTANCE InboxRead
INSTANCE TodoPage
INSTANCE ScheduledRuns
INSTANCE ReportStudio
INSTANCE QueryCache
WikiTab == INSTANCE WikiPage WITH draft <- wikiDraft
Source == INSTANCE SourceEditing WITH listed <- sourceListed, copy <- sourceCopy,
    tab <- sourceTab, saves <- sourceSaves, moves <- sourceMoves
Staff == INSTANCE OrgPeople WITH listed <- orgListed
Board == INSTANCE WorkspaceBoard WITH Vaults <- Cards, MaxForeign <- MaxBoardForeign,
    MaxTouches <- MaxBoardTouches, draft <- boardDraft, foreign <- boardForeign,
    touches <- boardTouches
Manager == INSTANCE TagManager WITH editing <- tagEditing, foreign <- tagForeign
Editor == INSTANCE AgentEditor WITH MaxEdits <- MaxDraftEdits, MaxSaves <- MaxDraftSaves,
    foreign <- editorForeign, edits <- editorEdits, saves <- editorSaves
Registry == INSTANCE ModelsSettings WITH MaxVersions <- MaxRowVersions
Selection == INSTANCE WorkspaceSelection WITH list <- wsList, ws <- activeWs, vault <- activeVault

-----------------------------------------------------------------------------
(* The page that is open, and the variables it leaves alone.               *)

Unused15 == u15 = None
Unused14 == u14 = None /\ Unused15
Unused13 == u13 = None /\ Unused14
Unused12 == u12 = None /\ Unused13
Unused11 == u11 = None /\ Unused12
Unused9 == u9 = None /\ u10 = None /\ Unused11
Unused8 == u8 = None /\ Unused9

Idle8 == UNCHANGED <<u8, u9, u10, u11, u12, u13, u14, u15>>
Idle9 == UNCHANGED <<u9, u10, u11, u12, u13, u14, u15>>
Idle11 == UNCHANGED <<u11, u12, u13, u14, u15>>
Idle12 == UNCHANGED <<u12, u13, u14, u15>>
Idle13 == UNCHANGED <<u13, u14, u15>>
Idle14 == UNCHANGED <<u14, u15>>
Idle15 == UNCHANGED <<u15>>

PagesInit ==
    \/ onPage = "inbox" /\ InboxInit /\ Unused8
    \/ onPage = "todo" /\ TodoPageInit /\ Unused14
    \/ onPage = "runs" /\ ScheduledInit /\ Unused12
    \/ onPage = "report" /\ ReportInit /\ Unused15
    \/ onPage = "cache" /\ CacheInit /\ Unused13
    \/ onPage = "wiki" /\ WikiTab!WikiInit /\ Unused13
    \/ onPage = "source" /\ Source!SourceInit /\ Unused15
    \/ onPage = "org" /\ Staff!OrgInit /\ Unused9
    \/ onPage = "board" /\ Board!BoardInit /\ Unused11
    \/ onPage = "tags" /\ Manager!TagsInit /\ Unused13
    \/ onPage = "editor" /\ Editor!EditorInit /\ Unused11
    \/ onPage = "registry" /\ Registry!ModelsInit
    \/ onPage = "selection" /\ Selection!SelectionInit /\ Unused11

PagesNext ==
    /\ UNCHANGED onPage
    /\ \/ onPage = "inbox" /\ InboxNext /\ Idle8
       \/ onPage = "todo" /\ TodoPageNext /\ Idle14
       \/ onPage = "runs" /\ ScheduledNext /\ Idle12
       \/ onPage = "report" /\ ReportNext /\ Idle15
       \/ onPage = "cache" /\ CacheNext /\ Idle13
       \/ onPage = "wiki" /\ WikiTab!WikiNext /\ Idle13
       \/ onPage = "source" /\ Source!SourceNext /\ Idle15
       \/ onPage = "org" /\ Staff!OrgNext /\ Idle9
       \/ onPage = "board" /\ Board!BoardNext /\ Idle11
       \/ onPage = "tags" /\ Manager!TagsNext /\ Idle13
       \/ onPage = "editor" /\ Editor!EditorNext /\ Idle11
       \/ onPage = "registry" /\ Registry!ModelsNext
       \/ onPage = "selection" /\ Selection!SelectionNext /\ Idle11

PagesSpec == PagesInit /\ [][PagesNext]_pagesVars

-----------------------------------------------------------------------------
(* The properties of the pages, where they are the page of the behaviour.  *)

\* What no list of any tab has shown stays unread.
InboxSafe == onPage = "inbox" => UnseenStaysUnread

\* Agents, their queue and their models. The roster's page runs one queue action at a time, holds
\* its lock only while something will release it and sends no text twice; a dialog over a polled
\* roster writes only the fields its user changed, from what it was shown; a test result is never
\* older than the page's own last change of its model, and every call of the models' page holds its
\* lock to the end.
AgentsSafe ==
    /\ onPage = "todo" => TodoPageSafe
    /\ onPage = "editor" => Editor!EditorSafe
    /\ onPage = "registry" => Registry!ModelsSafe

\* The cadence editor keeps the choice made last, a skipped occurrence does not run, and with no
\* answer awaited a row on the screen is the server's, unless the answer of an accepted write of its
\* schedule was lost and the occurrences have not been read since: then nothing asks for them.
AgendaSafe == onPage = "runs" => RunsOverlaySafe

\* The prompt that is sent is about the format that is sent, a dialog sends twice only after a
\* failure, and no order of clicks and answers leads beyond the history's last page.
ReportsSafe == onPage = "report" => StudioSafe

\* What the browser keeps. A mounted query shows what an operation of this tab wrote, once no fetch
\* runs: no fetch that began before the write is taken for one after it. Excepted are the views an
\* operation leaves stale (LeftStale), a query whose last fetch failed, and one whose fetch an
\* invalidation could not replace. The selection of workspace
\* and vault is kept under no other user's name, and settles on one that exists.
CacheSafe ==
    /\ onPage = "cache" => OwnWritesShown
    /\ onPage = "selection" => Selection!SelectionSafe

\* No text is written to a page it was not loaded from, though the editor outlives a change of
\* address. The editor takes a page's text when the text it is given changes: this is of pages whose
\* texts differ.
WikiSafe == onPage = "wiki" => WikiTab!TextStaysOnItsPage

\* A save of extracted text names the version its text was begun from, through refetches,
\* selections, status events and restores in between.
SourcesSafe == onPage = "source" => Source!SaveNamesItsBase

\* Who and what an organisation has, changed by calls that cross each other. Whoever lost a role in
\* a workspace is not brought back by a change that was under way, and a deleted group has no
\* members; a vault moves only where it was dropped or where its drawer said; renames, merges and
\* deletions of tags take no source's last tag, unless that one was deleted.
OrganisationSafe ==
    /\ onPage = "org" => Staff!OrgSafe
    /\ onPage = "board" => Board!BoardSafe
    /\ onPage = "tags" => Manager!TagsSafe
=============================================================================
