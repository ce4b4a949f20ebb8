---------------------------- MODULE ScheduledRuns ----------------------------
(***************************************************************************)
(* The "Scheduled runs" overlay of the Reports page                        *)
(* (pages/Reports/ScheduledRunsOverlay.tsx) with the editor of a cadence   *)
(* (components/reports/CronBuilder.tsx, lib/cron.ts), the calls it makes   *)
(* (hooks/useSchedules.ts) and the operations that answer them             *)
(* (brain2/schedule_ops.py).  Every control of a row works from the cached *)
(* occurrences of the last answer.  Scheduler.tla has the scheduler's own  *)
(* steps; here an occurrence runs when its time comes.                     *)
(***************************************************************************)
EXTENDS Naturals, FiniteSets

CONSTANTS
    Schedules,
    Times,      \* times of day
    Nine,       \* of Times: shown for an expression without a numeric one
    None,
    MaxClock,   \* bound: instants
    MaxCalls,   \* bound: calls of the user
    MaxTouches  \* bound: changes in the editor

VARIABLES
    clock,
    schedules,  \* the rows of table schedules
    skips, ran, \* <<schedule, instant>>: tables schedule_skips and schedule_runs
    occurrences,\* the cached answer, None before the first
    occFetch,   \* the call of schedules:occurrences, with what the server answered
    occError,   \* its last call failed
    schedCalls, \* the user's calls: how far the server is, its verdict, and what came of the answer
    editing,    \* the editor, with the preset and the time chosen last
    touches,
    changed     \* history: schedules written since the server last read the occurrences

schedVars == <<clock, schedules, skips, ran, occurrences, occFetch, occError, schedCalls, editing, touches, changed>>

-----------------------------------------------------------------------------
(* lib/cron.ts.  A five-field expression by what its parts say. *)

Cron(time, dom, mon, dow) == [time |-> time, dom |-> dom, mon |-> mon, dow |-> dow]

BuildCron(preset, time) ==
    CASE preset = "daily"     -> Cron(time, "*", "*", "*")
      [] preset = "weekdays"  -> Cron(time, "*", "*", "1-5")
      [] preset = "weekly"    -> Cron(time, "*", "*", "1")
      [] preset = "monthly"   -> Cron(time, "1", "*", "*")
      [] preset = "quarterly" -> Cron(time, "1", "1,4,7,10", "*")

Presets == {"daily", "weekdays", "weekly", "monthly", "quarterly"}

\* Mutant: the month is not looked at.
ParseCronNoMonth(c) ==
    LET time == IF c.time = None THEN Nine ELSE c.time
        fits == {p \in Presets : c.time # None /\ [BuildCron(p, c.time) EXCEPT !.mon = c.mon] = c}
    IN [preset |-> IF fits = {} THEN "custom" ELSE CHOOSE p \in fits : TRUE, time |-> time]

\* The preset whose expression it is; without a numeric time it is a custom one, at nine.
ParseCron(c) ==
    LET time == IF c.time = None THEN Nine ELSE c.time
        fits == {p \in Presets : c.time # None /\ BuildCron(p, c.time) = c}
    IN [preset |-> IF fits = {} THEN "custom" ELSE CHOOSE p \in fits : TRUE, time |-> time]

\* Expressions without a preset: "30 19 * * 2/2", "*/5 * * * *".
CustomCrons == {Cron(Nine, "*", "*", "2/2"), Cron(None, "*", "*", "*")}

\* The instants of an expression: those of every day, or every second one.
Fires(c, t) == c.dow # "2/2" \/ t % 2 = 1

-----------------------------------------------------------------------------
Asked == [served |-> FALSE, rows |-> {}]

ScheduledInit ==
    /\ clock = 0
    /\ schedules \in [Schedules -> [there : {TRUE}, enabled : {TRUE},
                                    cron : {BuildCron("daily", Nine), Cron(Nine, "*", "*", "2/2")}]]
    /\ skips = {} /\ ran = {}
    /\ occurrences = None /\ occFetch = Asked /\ occError = FALSE
    /\ schedCalls = {} /\ editing = None /\ touches = 0 /\ changed = {}

\* schedules:occurrences: off, skipped, ran or queued, in this order.
StateOf(s, t) ==
    IF ~schedules[s].enabled THEN "off"
    ELSE IF <<s, t>> \in skips THEN "skipped"
    ELSE IF <<s, t>> \in ran \/ t <= clock THEN "ran" ELSE "queued"

Occurrences ==
    {[schedule |-> s, at |-> t, state |-> StateOf(s, t), enabled |-> schedules[s].enabled,
      cron |-> schedules[s].cron] :
        s \in {x \in Schedules : schedules[x].there},
        t \in {u \in 0..MaxClock : u > 0}}

Answered(s, t) == schedules[s].there /\ (Fires(schedules[s].cron, t) \/ <<s, t>> \in ran)

OccServed ==
    /\ occFetch = Asked
    /\ occFetch' = [served |-> TRUE, rows |-> {o \in Occurrences : Answered(o.schedule, o.at)}]
    /\ changed' = {}
    /\ UNCHANGED <<clock, schedules, skips, ran, occurrences, occError, schedCalls, editing, touches>>

OccReturns ==
    /\ occFetch # None /\ occFetch.served
    /\ occurrences' = occFetch.rows /\ occFetch' = None /\ occError' = FALSE
    /\ UNCHANGED <<clock, schedules, skips, ran, schedCalls, editing, touches, changed>>

\* The call and its retry fail; the rows stay, with a button that asks again.
OccFails ==
    /\ occFetch # None
    /\ occFetch' = None /\ occError' = TRUE
    /\ UNCHANGED <<clock, schedules, skips, ran, occurrences, schedCalls, editing, touches, changed>>

RetryOccurrences ==
    /\ occError /\ occFetch = None
    /\ occFetch' = Asked
    /\ UNCHANGED <<clock, schedules, skips, ran, occurrences, occError, schedCalls, editing, touches, changed>>

\* Mutant: an occurrence that is skipped runs all the same.
TimePassesOver ==
    /\ clock < MaxClock /\ clock' = clock + 1
    /\ ran' = ran \cup {<<s, clock + 1>> : s \in {x \in Schedules : /\ schedules[x].there /\ schedules[x].enabled
                                                                    /\ Fires(schedules[x].cron, clock + 1)}}
    /\ UNCHANGED <<schedules, skips, occurrences, occFetch, occError, schedCalls, editing, touches, changed>>

\* The next instant comes: what is due, enabled and not skipped runs.
TimePasses ==
    /\ clock < MaxClock /\ clock' = clock + 1
    /\ ran' = ran \cup {<<s, clock + 1>> : s \in {x \in Schedules : /\ schedules[x].there /\ schedules[x].enabled
                                                                    /\ Fires(schedules[x].cron, clock + 1)
                                                                    /\ <<x, clock + 1>> \notin skips}}
    /\ UNCHANGED <<schedules, skips, occurrences, occFetch, occError, schedCalls, editing, touches, changed>>

-----------------------------------------------------------------------------
(* The controls of a row. *)

Rows == IF occurrences = None THEN {} ELSE occurrences

\* A number tells a call from the others of its operation and schedule.
CallNumber(op, s) == Cardinality({c \in schedCalls : c.op = op /\ c.schedule = s})

Ask(op, s, arg) ==
    /\ Cardinality(schedCalls) < MaxCalls
    /\ schedCalls' = schedCalls \cup {[n |-> CallNumber(op, s), op |-> op, schedule |-> s, arg |-> arg,
                                       stage |-> "sent", ok |-> TRUE, early |-> FALSE, answer |-> "awaited"]}
    /\ UNCHANGED <<clock, schedules, skips, ran, occurrences, occFetch, occError, editing, touches, changed>>

\* toggleEnabled: the opposite of what the row shows.
ToggleEnabled(o) == Ask("set_enabled", o.schedule, ~o.enabled)

\* RowMenu: a run of the past is neither skipped nor restored nor run now.
SkipRun(o) == o.state \in {"queued", "off"} /\ Ask("skip", o.schedule, o.at)
UnskipRun(o) == o.state = "skipped" /\ Ask("unskip", o.schedule, o.at)
RunNow(o) == o.state # "ran" /\ Ask("run_now", o.schedule, None)
DeleteSchedule(o) == Ask("delete", o.schedule, None)

\* editSched: the editor begins with the expression of the row.
EditSchedule(o) ==
    /\ editing = None
    /\ editing' = [schedule |-> o.schedule, cron |-> o.cron, chosen |-> ParseCron(o.cron), saving |-> FALSE]
    /\ UNCHANGED <<clock, schedules, skips, ran, occurrences, occFetch, occError, schedCalls, touches, changed>>

InEditor(e) ==
    /\ editing # None /\ touches < MaxTouches
    /\ touches' = touches + 1 /\ editing' = e
    /\ UNCHANGED <<clock, schedules, skips, ran, occurrences, occFetch, occError, schedCalls, changed>>

\* setPreset: the expression of the preset at the time shown; "custom" changes nothing.
SetPreset(p) ==
    InEditor([editing EXCEPT !.cron = BuildCron(p, ParseCron(editing.cron).time), !.chosen.preset = p])

\* setTime: the expression of the preset shown at the time chosen.
SetTime(time) ==
    /\ ParseCron(editing.cron).preset # "custom"
    /\ InEditor([editing EXCEPT !.cron = BuildCron(ParseCron(editing.cron).preset, time), !.chosen.time = time])

\* The raw expression can be typed only while it is a custom one.
TypeCron(c) ==
    /\ ParseCron(editing.cron).preset = "custom" /\ c # editing.cron
    /\ InEditor([editing EXCEPT !.cron = c, !.chosen = ParseCron(c)])

CancelEdit ==
    /\ editing # None /\ editing' = None
    /\ UNCHANGED <<clock, schedules, skips, ran, occurrences, occFetch, occError, schedCalls, touches, changed>>

\* saveEdit: the button is disabled while a save is pending, whichever edit it is of.
SaveEdit ==
    /\ editing # None
    /\ ~\E c \in schedCalls : c.op = "update" /\ c.answer = "awaited"
    /\ Cardinality(schedCalls) < MaxCalls
    /\ schedCalls' = schedCalls \cup {[n |-> CallNumber("update", editing.schedule), op |-> "update",
                                       schedule |-> editing.schedule, arg |-> editing.cron, stage |-> "sent", ok |-> TRUE, early |-> FALSE, answer |-> "awaited"]}
    /\ UNCHANGED <<clock, schedules, skips, ran, occurrences, occFetch, occError, editing, touches, changed>>

-----------------------------------------------------------------------------
(* The operations of the server and their answers. *)

Stage(c, stage, ok) == schedCalls' = (schedCalls \ {c}) \cup {[c EXCEPT !.stage = stage, !.ok = ok]}
Kept == UNCHANGED <<clock, occurrences, occFetch, occError, editing, touches>>

Applied(c) ==
    CASE c.op = "set_enabled" -> [schedules EXCEPT ![c.schedule].enabled = c.arg]
      [] c.op = "update"      -> [schedules EXCEPT ![c.schedule].cron = c.arg]
      [] c.op = "delete"      -> [schedules EXCEPT ![c.schedule].there = FALSE]
      [] OTHER                -> schedules

\* _require_schedule: a deleted schedule is not found, but deleting it again succeeds;
\* skip refuses an instant that has come, in a step before it writes.
Refused(c) ==
    \/ c.op # "delete" /\ ~schedules[c.schedule].there
    \/ c.op = "skip" /\ c.arg <= clock

CallServed(c) ==
    /\ c.stage = "sent"
    /\ IF Refused(c) THEN Stage(c, "served", FALSE) /\ UNCHANGED <<schedules, skips, ran, changed>>
       ELSE IF c.op = "skip" THEN Stage(c, "checked", TRUE) /\ UNCHANGED <<schedules, skips, ran, changed>>
       ELSE /\ schedules' = Applied(c)
            /\ skips' = IF c.op = "unskip" THEN skips \ {<<c.schedule, c.arg>>} ELSE skips
            /\ ran' = IF c.op = "run_now" THEN ran \cup {<<c.schedule, clock>>} ELSE ran
            /\ Stage(c, "served", TRUE)
            /\ changed' = changed \cup {c.schedule}
    /\ Kept

\* The transaction of skip: `early` is that it came before the instant.
SkipStored(c) ==
    /\ c.stage = "checked"
    /\ skips' = skips \cup {<<c.schedule, c.arg>>}
    /\ changed' = changed \cup {c.schedule}
    /\ schedCalls' = (schedCalls \ {c}) \cup {[c EXCEPT !.stage = "served", !.early = clock < c.arg]}
    /\ UNCHANGED <<schedules, ran>> /\ Kept

Ends(c, answer) == schedCalls' = (schedCalls \ {c}) \cup {[c EXCEPT !.answer = answer]}

\* Mutant: restoring a run does not ask again.
CallReturnsQuietly(c) ==
    /\ c.stage = "served" /\ c.answer = "awaited"
    /\ Ends(c, "came")
    /\ occFetch' = IF c.ok /\ c.op # "unskip" THEN Asked ELSE occFetch
    /\ editing' = IF c.ok /\ c.op = "update" THEN None ELSE editing
    /\ UNCHANGED <<clock, schedules, skips, ran, occurrences, occError, touches, changed>>

\* onSuccess: invalidateAll asks for the occurrences again; the success of a save also
\* closes the editor, whichever edit it shows.
CallReturns(c) ==
    /\ c.stage = "served" /\ c.answer = "awaited"
    /\ Ends(c, "came")
    /\ occFetch' = IF c.ok THEN Asked ELSE occFetch
    /\ editing' = IF c.ok /\ c.op = "update" THEN None ELSE editing
    /\ UNCHANGED <<clock, schedules, skips, ran, occurrences, occError, touches, changed>>

\* The call fails on its way there or back.  No hook has an onError: nothing is asked
\* again and the editor stays, though the server may have served the call or does so yet.
CallLost(c) ==
    /\ c.answer = "awaited"
    /\ Ends(c, "lost")
    /\ UNCHANGED <<clock, schedules, skips, ran, occurrences, occFetch, occError, editing, touches, changed>>

ScheduledNext ==
    \/ TimePasses \/ OccServed \/ OccReturns \/ OccFails \/ RetryOccurrences
    \/ \E o \in Rows :
          \/ ToggleEnabled(o) \/ SkipRun(o) \/ UnskipRun(o) \/ RunNow(o)
          \/ DeleteSchedule(o) \/ EditSchedule(o)
    \/ /\ editing # None
       /\ \/ \E p \in Presets : SetPreset(p)
          \/ \E time \in Times : SetTime(time)
          \/ \E c \in CustomCrons : TypeCron(c)
    \/ CancelEdit \/ SaveEdit
    \/ \E c \in schedCalls : CallServed(c) \/ SkipStored(c) \/ CallReturns(c) \/ CallLost(c)

ScheduledSpec == ScheduledInit /\ [][ScheduledNext]_schedVars

-----------------------------------------------------------------------------
(* Properties. *)

\* Through any clicks on presets and times, the editor shows, and a save sends, the
\* preset and the time chosen last.
EditorKeepsChoice == editing # None => ParseCron(editing.cron) = editing.chosen

\* An occurrence whose skip was stored before its time does not run, unless a call to
\* restore it was sent.
SkippedStaysOut ==
    \A c \in schedCalls : c.op = "skip" /\ c.early /\ <<c.schedule, c.arg>> \in ran =>
        \/ \E d \in schedCalls : d.op = "unskip" /\ d.schedule = c.schedule /\ d.arg = c.arg
        \/ \E d \in schedCalls : d.op = "run_now" /\ d.schedule = c.schedule

\* The row is what the server has, but for the time that passed.
Current(o) ==
    /\ schedules[o.schedule].there
    /\ o.enabled = schedules[o.schedule].enabled /\ o.cron = schedules[o.schedule].cron
    /\ o.state = "skipped" <=> o.enabled /\ <<o.schedule, o.at>> \in skips

\* A write of the schedule was accepted and its answer lost.
LostAnswer(s) == \E c \in schedCalls : c.schedule = s /\ c.stage = "served" /\ c.ok /\ c.answer = "lost"

\* With no answer awaited, every row on the screen is what the server has, unless an accepted
\* write of its schedule lost its answer and the server has not read the occurrences since
\* the schedule changed: every change that was heard of is followed by a new answer.
SettledRowsCurrent ==
    occurrences # None /\ occFetch = None /\ ~occError /\ (\A c \in schedCalls : c.answer # "awaited") =>
        \A o \in occurrences : Current(o) \/ (o.schedule \in changed /\ LostAnswer(o.schedule))

RunsOverlaySafe == EditorKeepsChoice /\ SkippedStaysOut /\ SettledRowsCurrent
=============================================================================
