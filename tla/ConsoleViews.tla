---------------------------- MODULE ConsoleViews ----------------------------
(***************************************************************************)
(* The other pages of the web console, over the same variables: the modal  *)
(* that ingests sources, the audit drawer of the wiki, the organisation's  *)
(* graph, the dialog of a new workspace, the timeline over the scheduled   *)
(* runs, the settings, and the shell around the pages.  A behaviour of the *)
(* console is one of a page of ConsolePages or of a page here.             *)
(***************************************************************************)
EXTENDS ConsolePages, Integers

CONSTANTS
    FileNames, FileContents, Links, IngestModes, WikiMode,   \* IngestQueue
    FileTags, IngestVaults, MaxRows, MaxIngestOpens, MaxSubs, MaxRowEdits,
    AuditTopics, MaxAudits, MaxSuggestions, MaxBreaks,       \* AuditDrawer
    MaxDecisions, MaxDrawerMoves,
    Org, KindOf, HomeWs, VaultOf, Access, Member, GuestOf,   \* OrgGraph
    Linked, DataSets, Grabbed, MaxPicks,
    OwnId, People, BarTexts, MaxFormOpens, MaxAdds, MaxCreates, \* NewWorkspace
    Days, DayWidth, DayPad, Today, NowX, Marks, StripWidths, \* RunsTimeline
    MinLens, LeastLens, MostLens, YearLength, MonthLength, YearsShown,
    WindowStart, Distances, MaxTimelineTurns,
    Sections, OwnerOnly, Profile, Appearance, OwnTexts,      \* SettingsPage
    BlankText, Passwords, Limit, Themes, MaxSettingsTurns,
    Items, OtherRoutes, Home, Login, ScreenWidths, MinTab,   \* ConsoleShell
    Places, MaxShellTurns

\* A picked file and the address of a link are values; a mode of a new row is one of the modes.
ASSUME IngestAssumption ==
    /\ None \notin FileContents /\ None \notin Links
    /\ WikiMode \in IngestModes

\* No event stream at all is not one of the streams.
ASSUME AuditAssumption == None \notin [audit : Nat, line : {"connecting", "open", "refused"}]

\* What the tables of the organisation relate: grants of people and groups to workspaces, people to
\* their groups, guests to vaults, pages and sources to pages. No node is named like a request.
ASSUME GraphAssumption ==
    LET nodes == DOMAIN KindOf
        Of(kinds) == {n \in nodes : KindOf[n] \in kinds} IN
    /\ None \notin nodes /\ "reset" \notin nodes /\ None # "reset"
    /\ None \notin [node : nodes \cup {None}, moved : BOOLEAN]
    /\ nodes = Of({"person", "guest", "group", "ws", "vault", "page", "source"})
    /\ DataSets \subseteq SUBSET nodes
    /\ Access \subseteq Of({"person", "group"}) \X Of({"ws"})
    /\ Member \subseteq Of({"person"}) \X Of({"group"})
    /\ GuestOf \subseteq Of({"guest"}) \X Of({"vault"})
    /\ Linked \subseteq Of({"page", "source"}) \X Of({"page"})
    /\ \A n \in Of({"vault"}) : HomeWs[n] \in Of({"ws"})
    /\ \A n \in Of({"page", "source"}) : VaultOf[n] \in Of({"vault"})

\* The present is in the day of the strip it is said to be in, as every run is in one of its days; a
\* day is wider than its paddings, a window than the least first lens, and no first lens narrower
\* than a handle may make it.
ASSUME TimelineAssumption ==
    /\ Days \in Nat \ {0} /\ DayWidth \in Nat \ {0} /\ DayPad \in Nat /\ 2 * DayPad <= DayWidth
    /\ Today \in 0..(Days - 1) /\ NowX \in Int /\ NowX \div DayWidth = Today
    /\ Marks \subseteq [day : 0..(Days - 1), x : Int]
    /\ MinLens \in Nat /\ LeastLens \in Nat /\ MostLens \in Nat
    /\ MinLens <= LeastLens /\ LeastLens <= MostLens
    /\ StripWidths \subseteq Nat \ {0} /\ \A w \in StripWidths : LeastLens <= w
    /\ YearLength \in Nat \ {0} /\ MonthLength \in Nat \ {0} /\ YearsShown \in Nat \ {0}
    /\ WindowStart \in Int /\ Distances \subseteq Int
    /\ None \notin Int \X Int

\* The profile is a section for everybody; a text is never missing, as an answer may be.
ASSUME SettingsAssumption ==
    /\ Profile \in Sections \ OwnerOnly
    /\ None \notin Sections /\ None \notin OwnTexts \cup {BlankText}

\* The tabs are all different, the sign-in is none of them.
ASSUME ShellAssumption ==
    /\ Items \in Seq({Items[i] : i \in DOMAIN Items}) /\ Items # <<>>
    /\ \A i, j \in DOMAIN Items : Items[i] = Items[j] => i = j
    /\ \A i \in DOMAIN Items : Items[i] # Login
    /\ ScreenWidths \subseteq Nat /\ MinTab \in Nat \ {0}
    /\ None \notin {"ws", "inbox", "profile"}

-----------------------------------------------------------------------------
\* The state of IngestQueue.
host == u1
ingestOpen == u2
vaultList == u3
vaultPick == u4
queue == u5
sel == u6
pending == u7
ingestErrors == u8
submitting == u9
ingestOpens == u10
rowEdits == u11
subs == u12
ingested == u13

\* The state of AuditDrawer.
audits == u1
suggestions == u2
drawerOpen == u3
drawerTopic == u4
drawerMoves == u5
running == u6
cards == u7
start == u8
stream == u9
wire == u10
breaks == u11
latest == u12
decisions == u13

\* The state of OrgGraph.
scope == u1
dir == u2
graph == u3
layers == u4
selected == u5
trail == u6
pointer == u7
sim == u8
fit == u9
focus == u10
resizing == u11
picks == u12

\* The state of NewWorkspace.
directory == u1
ownId == u2
formOpens == u3
adds == u4
creates == u5
wsForm == u6
bar == u7
busy == u8
making == u9
made == u10
finished == u11

\* The state of RunsTimeline.
width == u1
lens == u2
scroll == u3
lensDrag == u4
calendar == u5
aim == u6
narrowed == u7
timelineTurns == u8

\* The state of SettingsPage.
role == u1
docs == u2
password == u3
ownRecord == u4
persona == u5
sec == u6
hash == u7
askedFor == u8
profileForm == u9
formMounts == u10
formCalls == u11
theme == u12
settingsTurns == u13

\* The state of ConsoleShell.
shellRoute == u1
screenWidth == u2
menu == u3
modal == u4
rowMenu == u5
openMore == u6
leaving == u7
anchor == u8
pos == u9
shifted == u10
escaped == u11
shellTurns == u12

Ingest == INSTANCE IngestQueue WITH Names <- FileNames, Contents <- FileContents, Urls <- Links,
    Modes <- IngestModes, Wiki <- WikiMode, Tags <- FileTags, Vaults <- IngestVaults,
    MaxOpens <- MaxIngestOpens, MaxEdits <- MaxRowEdits, opens <- ingestOpens, edits <- rowEdits
Audit == INSTANCE AuditDrawer WITH Topics <- AuditTopics, MaxMoves <- MaxDrawerMoves,
    moves <- drawerMoves, shown <- cards
Graph == INSTANCE OrgGraph WITH Kind <- KindOf, Ws <- HomeWs, Vault <- VaultOf
NewWs == INSTANCE NewWorkspace WITH Me <- OwnId, Texts <- BarTexts, MaxOpens <- MaxFormOpens,
    MaxClicks <- MaxCreates, me <- ownId, opens <- formOpens, clicks <- creates, form <- wsForm
Timeline == INSTANCE RunsTimeline WITH Widths <- StripWidths, MaxTurns <- MaxTimelineTurns,
    drag <- lensDrag, turns <- timelineTurns
Settings == INSTANCE SettingsPage WITH Texts <- OwnTexts, Empty <- BlankText,
    MaxTurns <- MaxSettingsTurns, me <- ownRecord, asked <- askedFor, form <- profileForm,
    mounts <- formMounts, calls <- formCalls, turns <- settingsTurns
Shell == INSTANCE ConsoleShell WITH Widths <- ScreenWidths, MaxTurns <- MaxShellTurns,
    route <- shellRoute, width <- screenWidth, turns <- shellTurns

-----------------------------------------------------------------------------
ViewsInit ==
    \/ onPage = "ingest" /\ Ingest!IngestInit /\ Unused14
    \/ onPage = "audit" /\ Audit!AuditInit /\ Unused14
    \/ onPage = "graph" /\ Graph!GraphInit /\ Unused13
    \/ onPage = "newws" /\ NewWs!NewWorkspaceInit /\ Unused12
    \/ onPage = "timeline" /\ Timeline!TimelineInit /\ Unused9
    \/ onPage = "settings" /\ Settings!SettingsInit /\ Unused14
    \/ onPage = "shell" /\ Shell!ShellInit /\ Unused13

ViewsNext ==
    /\ UNCHANGED onPage
    /\ \/ onPage = "ingest" /\ Ingest!IngestNext /\ Idle14
       \/ onPage = "audit" /\ Audit!AuditNext /\ Idle14
       \/ onPage = "graph" /\ Graph!GraphNext /\ Idle13
       \/ onPage = "newws" /\ NewWs!NewWorkspaceNext /\ Idle12
       \/ onPage = "timeline" /\ Timeline!TimelineNext /\ Idle9
       \/ onPage = "settings" /\ Settings!SettingsNext /\ Idle14
       \/ onPage = "shell" /\ Shell!ShellNext /\ Idle13

ConsoleInit == PagesInit \/ ViewsInit
ConsoleNext == PagesNext \/ ViewsNext
ConsoleSpec == ConsoleInit /\ [][ConsoleNext]_pagesVars

-----------------------------------------------------------------------------
(* The properties of these pages, where they are the page of the           *)
(* behaviour.                                                              *)

\* Dialogs and their calls. The ingest modal closes without an error only after every row of the
\* click was ingested with its mode and tags, whichever calls failed and whatever was changed
\* meanwhile; a link into the settings survives the wait for the user's role, forms speak of their
\* own calls, and no click changes the password twice; a workspace whose dialog finished has the
\* description and the members it was given.
FormsSafe ==
    /\ onPage = "ingest" => Ingest!CompletedMeansIngested
    /\ onPage = "settings" => Settings!SettingsSafe
    /\ onPage = "newws" => NewWs!NewWorkspaceSafe

\* What is shown. A card of the audit drawer says Applied only of what was written, and start call
\* and stream of an audit exclude each other; the graph's view is about the node that is selected,
\* pins no node that is not held, and skips no step of the trail that something was selected in; a
\* day that was asked for in the calendar comes under the timeline's lens with all its runs; no
\* layer of the shell outlasts Escape or a sign-out, popovers keep to their anchors, and every page
\* keeps its place in the tab bar at every width.
ViewsSafe ==
    /\ onPage = "audit" => Audit!AuditSafe
    /\ onPage = "graph" => Graph!GraphSafe
    /\ onPage = "timeline" => Timeline!TimelineSafe
    /\ onPage = "shell" => Shell!ShellSafe
=============================================================================
