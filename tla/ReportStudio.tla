---------------------------- MODULE ReportStudio ----------------------------
(***************************************************************************)
(* The Reports page of the web console: the header's schedule, the dialog  *)
(* that configures and sends a report (pages/Reports/index.tsx) and the    *)
(* history overlay with its filters and pages (HistoryOverlay.tsx,         *)
(* history.ts).  The dialog's handlers of a call are dropped when it is    *)
(* unmounted; the timer that closes it after a success is not.             *)
(***************************************************************************)
EXTENDS Naturals, Sequences, FiniteSets

CONSTANTS
    Formats,      \* document types: a parameter of the dialog, a filter of the history
    Texts,        \* prompts typed by the user
    None,
    PageSize,     \* HIST_PAGE_SIZE
    MaxReports,   \* bound: reports beyond which none is added
    MaxDialogs,   \* bound: dialogs opened
    MaxSends,     \* bound: presses of Send
    MaxClicks     \* bound: changes of parameters, prompts, filters and pages

VARIABLES
    headerRun,    \* the schedule chosen in the header
    hasAgent,     \* useAgents lists an agent
    dialog,       \* the generate dialog
    dialogs,      \* dialogs opened so far
    sends,        \* calls of reports:generate and schedules:create
    closing,      \* a close timer runs
    reports,      \* the formats of the project's reports
    filter, page, \* state of the history overlay; filter is None while it is closed
    astray,       \* the page was picked under the rows of another filter
    answers,      \* cached answers, by filter and page
    fetching,     \* calls of reports:history, with what the server answered
    shown,        \* the key whose rows are on the screen
    clicks

dialogVars == <<headerRun, hasAgent, dialog, dialogs, sends, closing>>
historyVars == <<filter, page, astray, answers, fetching, shown>>
reportVars == <<headerRun, hasAgent, dialog, dialogs, sends, closing, reports,
                filter, page, astray, answers, fetching, shown, clicks>>

Runs == {"now", "scheduled"}  \* a scheduled one by its cadence, preset or custom
Filters == Formats \cup {"all"}
FirstFormat == CHOOSE f \in Formats : TRUE
Click == clicks < MaxClicks /\ clicks' = clicks + 1

ReportInit ==
    /\ headerRun = "now" /\ hasAgent \in BOOLEAN
    /\ dialog = None /\ dialogs = 0 /\ sends = <<>> /\ closing = FALSE
    /\ reports \in {<<>>} \cup {<<f, f>> : f \in Formats}
    /\ filter = None /\ page = 0 /\ astray = FALSE
    /\ answers = <<>> /\ fetching = <<>> /\ shown = None
    /\ clicks = 0

With(calls, keys) == [k \in DOMAIN calls \cup keys |-> IF k \in DOMAIN calls THEN calls[k] ELSE None]

\* onSuccess of reports:generate: the history on the screen is asked for again, the
\* other answers are marked.
InvalidateHistory ==
    /\ answers' = [k \in DOMAIN answers |-> [answers[k] EXCEPT !.stale = TRUE]]
    /\ fetching' = IF filter = None THEN fetching
                   ELSE [k \in DOMAIN fetching \cup {<<filter, page>>} |->
                           IF k = <<filter, page>> THEN None ELSE fetching[k]]

-----------------------------------------------------------------------------
(* The dialog. *)

ChooseHeaderRun(r) ==
    /\ dialog = None /\ filter = None /\ r # headerRun /\ Click
    /\ headerRun' = r
    /\ UNCHANGED <<hasAgent, dialog, dialogs, sends, closing, reports, historyVars>>

\* A suggestion, a catalogue entry or the custom prompt opens the dialog with the
\* parameters' defaults and the header's schedule.
OpenDialog(f) ==
    /\ dialog = None /\ filter = None /\ dialogs < MaxDialogs
    /\ dialogs' = dialogs + 1
    /\ dialog' = [id |-> dialogs + 1, step |-> 1, format |-> f, edited |-> None, run |-> headerRun, sent |-> FALSE]
    /\ UNCHANGED <<headerRun, hasAgent, sends, closing, reports, historyVars, clicks>>

InDialog(d) == dialog # None /\ dialog' = d /\ UNCHANGED <<headerRun, hasAgent, dialogs, sends, closing, reports, historyVars>>

\* Mutant: the edited prompt is kept.
SetParamKeepsPrompt(f) == dialog.step = 1 /\ f # dialog.format /\ Click /\ InDialog([dialog EXCEPT !.format = f])

\* setParam: an edited prompt gives way to the one written from the parameters.
SetParam(f) == dialog.step = 1 /\ f # dialog.format /\ Click /\ InDialog([dialog EXCEPT !.format = f, !.edited = None])

Turn(step) == step # dialog.step /\ InDialog([dialog EXCEPT !.step = step]) /\ UNCHANGED clicks

SetRun(r) == dialog.step = 2 /\ r # dialog.run /\ Click /\ InDialog([dialog EXCEPT !.run = r])

\* The text area; `for` remembers the format its text was written under.
EditPrompt(x) == dialog.step = 2 /\ Click /\ InDialog([dialog EXCEPT !.edited = [text |-> x, for |-> dialog.format]])

ResetPrompt == dialog.step = 2 /\ dialog.edited # None /\ Click /\ InDialog([dialog EXCEPT !.edited = None])

AgentsChange ==
    /\ Click /\ hasAgent' = ~hasAgent
    /\ UNCHANGED <<headerRun, dialog, dialogs, sends, closing, reports, historyVars>>

\* send: the parameters and the prompt of this moment.
Send ==
    /\ dialog # None /\ dialog.step = 2 /\ ~dialog.sent /\ hasAgent
    /\ Len(sends) < MaxSends
    /\ dialog' = [dialog EXCEPT !.sent = TRUE]
    /\ sends' = Append(sends, [from |-> dialog.id, format |-> dialog.format, run |-> dialog.run, stage |-> "sent",
                               for |-> IF dialog.edited = None THEN dialog.format ELSE dialog.edited.for])
    /\ UNCHANGED <<headerRun, hasAgent, dialogs, closing, reports, historyVars, clicks>>

\* A report that is generated now joins the list; a schedule's reports come later.
SendServed(i) ==
    /\ sends[i].stage = "sent"
    /\ IF sends[i].run = "now"
         THEN Len(reports) < MaxReports /\ reports' = Append(reports, sends[i].format)
         ELSE UNCHANGED reports
    /\ sends' = [sends EXCEPT ![i].stage = "served"]
    /\ UNCHANGED <<headerRun, hasAgent, dialog, dialogs, closing, historyVars, clicks>>

Freed(i) == IF dialog # None /\ dialog.id = sends[i].from THEN [dialog EXCEPT !.sent = FALSE] ELSE dialog

\* Mutant: Send works again after every answer.
SendReturnsFreed(i) ==
    /\ sends[i].stage = "served"
    /\ sends' = [sends EXCEPT ![i].stage = "done"]
    /\ dialog' = Freed(i)
    /\ UNCHANGED <<headerRun, hasAgent, dialogs, closing, reports, historyVars, clicks>>

\* onSuccess starts the timer if the dialog that sent is still there.
SendReturns(i) ==
    /\ sends[i].stage = "served"
    /\ sends' = [sends EXCEPT ![i].stage = "done"]
    /\ closing' = (closing \/ (dialog # None /\ dialog.id = sends[i].from))
    /\ IF sends[i].run = "now" THEN InvalidateHistory ELSE UNCHANGED <<answers, fetching>>
    /\ UNCHANGED <<headerRun, hasAgent, dialog, dialogs, reports, filter, page, astray, shown, clicks>>

\* onError, of a call refused or of one whose answer was lost: Send works again.
SendFails(i) ==
    /\ sends[i].stage \in {"sent", "served"}
    /\ sends' = [sends EXCEPT ![i].stage = IF sends[i].stage = "sent" THEN "refused" ELSE "lost"]
    /\ dialog' = Freed(i)
    /\ UNCHANGED <<headerRun, hasAgent, dialogs, closing, reports, historyVars, clicks>>

\* 950 ms after a success: whichever dialog is open is closed.
TimerCloses ==
    /\ closing /\ closing' = FALSE
    /\ dialog' = None
    /\ UNCHANGED <<headerRun, hasAgent, dialogs, sends, reports, historyVars, clicks>>

CloseDialog ==
    /\ dialog # None /\ dialog' = None
    /\ UNCHANGED <<headerRun, hasAgent, dialogs, sends, closing, reports, historyVars, clicks>>

\* A schedule's run or another user adds a report.
ReportArrives(f) ==
    /\ Len(reports) < MaxReports /\ reports' = Append(reports, f)
    /\ UNCHANGED <<dialogVars, historyVars, clicks>>

-----------------------------------------------------------------------------
(* The history. *)

Matching(f) == {i \in DOMAIN reports : f \in {"all", reports[i]}}
Least(a, b) == IF a < b THEN a ELSE b

\* buildHistoryParams and the server's answer: a page is an offset and a limit.
Answer(key) ==
    LET found == Cardinality(Matching(key[1])) IN
    [total |-> found, stale |-> FALSE,
     rows |-> IF found > key[2] * PageSize THEN Least(PageSize, found - key[2] * PageSize) ELSE 0]

\* Mutant: the pager has one page more when the last one is full.
PagesOfOneMore(total) == (total \div PageSize) + 1

PagesOf(total) == IF total = 0 THEN 1 ELSE (total + PageSize - 1) \div PageSize
HistoryData == IF shown = None THEN [total |-> 0, rows |-> 0, stale |-> FALSE] ELSE answers[shown]
Pages == PagesOf(HistoryData.total)

\* The query of a key: rows of a key never answered are those shown before
\* (keepPreviousData); an answer of less than thirty seconds is not asked again.
Look(key, passing) ==
    /\ shown' = IF key \in DOMAIN answers THEN key ELSE shown
    /\ \E fresh \in SUBSET {k \in DOMAIN answers \cap (passing \cup {key}) : ~answers[k].stale} :
          fetching' = With(fetching, (passing \cup {key}) \ fresh)

OpenHistory ==
    /\ dialog = None /\ filter = None /\ Click
    /\ filter' = "all" /\ page' = 0 /\ astray' = FALSE
    /\ shown' = IF <<"all", 0>> \in DOMAIN answers THEN <<"all", 0>> ELSE None
    /\ fetching' = With(fetching, {<<"all", 0>>})
    /\ UNCHANGED <<dialogVars, reports, answers>>

CloseHistory ==
    /\ filter # None
    /\ filter' = None /\ page' = 0 /\ astray' = FALSE /\ shown' = None
    /\ UNCHANGED <<dialogVars, reports, answers, fetching, clicks>>

\* A type, a period or a search term; the effect on them sets the page to 0 one render
\* later, so the old page is asked for too.
ChooseFilter(f) ==
    /\ filter # None /\ f # filter /\ Click
    /\ filter' = f /\ page' = 0 /\ astray' = FALSE
    /\ Look(<<f, 0>>, {<<f, page>>})
    /\ UNCHANGED <<dialogVars, reports, answers>>

\* Pager: a page of those the rows on the screen have.
ChoosePage(p) ==
    /\ filter # None /\ p < Pages /\ p # Least(page, Pages - 1) /\ Click
    /\ page' = p
    /\ astray' = (shown = None \/ shown[1] # filter)
    /\ Look(<<filter, p>>, {})
    /\ UNCHANGED <<dialogVars, reports, filter, answers>>

HistoryServed(key) ==
    /\ fetching[key] = None
    /\ fetching' = [fetching EXCEPT ![key] = Answer(key)]
    /\ UNCHANGED <<dialogVars, reports, filter, page, astray, answers, shown, clicks>>

Without(calls, key) == [k \in DOMAIN calls \ {key} |-> calls[k]]

HistoryReturns(key) ==
    /\ fetching[key] # None
    /\ answers' = [k \in DOMAIN answers \cup {key} |-> IF k = key THEN fetching[key] ELSE answers[k]]
    /\ fetching' = Without(fetching, key)
    /\ shown' = IF key = <<filter, page>> THEN key ELSE shown
    /\ UNCHANGED <<dialogVars, reports, filter, page, astray, clicks>>

HistoryFails(key) ==
    /\ Click
    /\ fetching' = Without(fetching, key)
    /\ UNCHANGED <<dialogVars, reports, filter, page, astray, answers, shown>>

ReportNext ==
    \/ \E r \in Runs : ChooseHeaderRun(r)
    \/ \E f \in Formats : OpenDialog(f) \/ ReportArrives(f)
    \/ /\ dialog # None
       /\ \/ \E f \in Formats : SetParam(f)
          \/ \E s \in 1..2 : Turn(s)
          \/ \E r \in Runs : SetRun(r)
          \/ \E x \in Texts : EditPrompt(x)
          \/ ResetPrompt
    \/ AgentsChange \/ Send \/ TimerCloses \/ CloseDialog
    \/ \E i \in DOMAIN sends : SendServed(i) \/ SendReturns(i) \/ SendFails(i)
    \/ OpenHistory \/ CloseHistory
    \/ \E f \in Filters : ChooseFilter(f)
    \/ \E p \in 0..MaxReports : ChoosePage(p)
    \/ \E key \in DOMAIN fetching : HistoryServed(key) \/ HistoryReturns(key) \/ HistoryFails(key)

ReportSpec == ReportInit /\ [][ReportNext]_reportVars

-----------------------------------------------------------------------------
(* Properties. *)

\* Through edits, parameter changes, steps back, failures and retries, the prompt that
\* was sent is about the format that was sent.
SentPromptCurrent == \A i \in DOMAIN sends : sends[i].for = sends[i].format

\* A dialog generates or schedules once: it sends again only after a failure, and the
\* report is doubled only when the failure was the loss of an answer.
OneRunPerDialog ==
    \A i, j \in DOMAIN sends :
        i < j /\ sends[i].from = sends[j].from => sends[i].stage \in {"refused", "lost"}

\* When the rows on the screen are those of the filters and the page, there are some
\* unless nothing matches: no order of clicks and answers leads beyond the last page,
\* but for a page picked while the rows of another filter were still shown, and for
\* reports that arrived between the answers of two pages.
HistoryNotBeyondEnd ==
    /\ filter # None /\ shown = <<filter, page>> /\ ~astray
    /\ \A key \in DOMAIN answers : key[1] = filter => answers[key].total = HistoryData.total
    => (HistoryData.total > 0 => HistoryData.rows > 0)

StudioSafe == SentPromptCurrent /\ OneRunPerDialog /\ HistoryNotBeyondEnd
=============================================================================
