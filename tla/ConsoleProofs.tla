---------------------------- MODULE ConsoleProofs ----------------------------
(***************************************************************************)
(* The web console as a whole: the theorems about the pages of             *)
(* ConsolePages and those about the pages of ConsoleViews, of one          *)
(* specification.                                                          *)
(***************************************************************************)
EXTENDS ConsolePagesProofs, ConsoleViewsProofs

\* A behaviour of the console that is not on a page of ConsoleViews is one of ConsolePages.
LEMMA PagesStandAlone == ConsoleSpec => PagesSpec \/ [](onPage \in ViewPages)
  <1>1. ConsoleInit /\ ~(onPage \in ViewPages) => PagesInit
    BY ConsoleOpens
  <1>2. onPage \in ViewPages /\ [ConsoleNext]_pagesVars => (onPage \in ViewPages)'
    BY ConsoleMoves
  <1>3. ~(onPage \in ViewPages) /\ [ConsoleNext]_pagesVars => ~(onPage \in ViewPages)'
    BY ConsoleMoves
  <1>4. ~(onPage \in ViewPages) /\ [ConsoleNext]_pagesVars => [PagesNext]_pagesVars
    BY ConsoleMoves
  <1> QED BY <1>1, <1>2, <1>3, <1>4, PTL DEF ConsoleSpec, PagesSpec

\* Every page of the console is safe in every behaviour of the console, with the theorems about
\* each: what is proved of the pages of ConsolePages holds where pages of ConsoleViews may be opened.
THEOREM ConsoleIsSafe ==
    ASSUME None \notin QueueActions, RowsFilled, CallsApart,
           None \notin Answers, None \notin Times, Nine \in Times,
           PageSize \in Nat \ {0}, MaxReports \in Nat,
           NoneApart, ServerAnswers, NobodyApart,
           Vaults # {}, None \notin BodyRows
    PROVE  ConsoleSpec => [](/\ InboxSafe /\ AgentsSafe /\ AgendaSafe /\ ReportsSafe /\ CacheSafe
                             /\ WikiSafe /\ SourcesSafe /\ OrganisationSafe
                             /\ FormsSafe /\ ViewsSafe)
  <1> DEFINE PagesSafe == /\ InboxSafe /\ AgentsSafe /\ AgendaSafe /\ ReportsSafe /\ CacheSafe
                          /\ WikiSafe /\ SourcesSafe /\ OrganisationSafe
  <1>1. onPage \in ViewPages => PagesSafe
    BY DEF ViewPages, InboxSafe, AgentsSafe, AgendaSafe, ReportsSafe, CacheSafe, WikiSafe, SourcesSafe, OrganisationSafe
  <1>2. PagesSpec => []InboxSafe
    BY UnseenUnread
  <1>3. PagesSpec => []AgentsSafe
    BY AgentsAreSafe
  <1>4. PagesSpec => []AgendaSafe
    BY RunsOverlayIsSafe
  <1>5. PagesSpec => []ReportsSafe
    BY StudioIsSafe
  <1>6. PagesSpec => []CacheSafe
    BY BrowserKeepsItsOwn
  <1>7. PagesSpec => []WikiSafe
    BY TextsStayOnTheirPages
  <1>8. PagesSpec => []SourcesSafe
    BY SavesNameTheirBase
  <1>9. PagesSpec => []OrganisationSafe
    BY OrganisationIsSafe
  <1> QED
    BY <1>1, <1>2, <1>3, <1>4, <1>5, <1>6, <1>7, <1>8, <1>9, PagesStandAlone, FormsAreSafe, ViewsAreSafe, PTL

=============================================================================
