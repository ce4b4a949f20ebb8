---------------------------- MODULE RunsTimeline ----------------------------
(***************************************************************************)
(* The timeline over the scheduled runs: a strip of days that is scrolled  *)
(* under a lens, whose runs are the agenda below, and the calendar that    *)
(* brings a day under it.  Lengths are in units that divide by two, months *)
(* are all of one length.                                                  *)
(***************************************************************************)
EXTENDS Integers, FiniteSets

CONSTANTS None,
          Days, DayWidth, DayPad, Today, NowX,     \* the strip; Today is the index of a day
          Marks,                                   \* the runs: set of [day, x], x within the day
          Widths, MinLens, LeastLens, MostLens,    \* of the window, of a lens, of the first lens
          YearLength, MonthLength, YearsShown,     \* the calendar
          WindowStart,                             \* day 0 of the strip, counted from year 0
          Distances,                               \* of one drag or turn of the wheel
          MaxTurns

VARIABLES width, lens, scroll, drag, calendar, aim, narrowed, turns

vars == <<width, lens, scroll, drag, calendar, aim, narrowed, turns>>

Least(a, b) == IF a < b THEN a ELSE b
Most(a, b) == IF a < b THEN b ELSE a

Total == Days * DayWidth
Clamp(x, most) == Most(0, Least(most, x))

\* scrollTo and clampScroll.
InStrip(x) == Clamp(x, Total - width)

\* xToMoment, to the day.
DayAt(x) == Clamp(x \div DayWidth, Days - 1)

\* Left and right edge of a lens that is measured, else of the whole strip.
Lo == IF lens = None THEN 0 ELSE scroll + lens[1]
Hi == IF lens = None THEN Total ELSE scroll + lens[2]
Focus == DayAt((Lo + Hi) \div 2)

\* xOf of a run: the working hours of the day are mapped between its paddings.
XOf(m) == m.day * DayWidth + DayPad + Clamp(m.x, DayWidth - 2 * DayPad)
Visible == {m \in Marks : Lo <= XOf(m) /\ XOf(m) <= Hi}

\* Mutant: the middle of the window, wherever the lens was dragged.
CentreOfWindow == width \div 2

CentreLens == IF lens = None THEN width \div 2 ELSE (lens[1] + lens[2]) \div 2

TimelineInit ==
    /\ width = 0 /\ lens = None /\ scroll = Most(0, NowX - MostLens)
    /\ drag = None /\ calendar = None
    /\ aim = None /\ narrowed = FALSE /\ turns = 0

Turn == turns < MaxTurns /\ turns' = turns + 1

-----------------------------------------------------------------------------
(* The strip. *)

\* The first width that is measured places the lens in the middle, over the present.
Measure(w) ==
    /\ width = 0 /\ width' = w
    /\ LET size == Least(MostLens, Most(LeastLens, (w * 2) \div 5))
           left == (w - size) \div 2
       IN  /\ lens' = <<left, left + size>>
           /\ scroll' = Clamp(NowX - (left + size \div 2), Total - w)
    /\ UNCHANGED <<drag, calendar, aim, narrowed, turns>>

\* Neither the lens nor the scroll position follows another width of the window.
Resize(w) ==
    /\ width # 0 /\ w # width /\ Turn
    /\ width' = w
    /\ narrowed' = (narrowed \/ w < width) /\ aim' = None
    /\ UNCHANGED <<lens, scroll, drag, calendar>>

\* A drag starts on the strip or on a handle of the lens.
GrabStrip ==
    /\ drag = None /\ calendar = None /\ width # 0 /\ Turn
    /\ drag' = [mode |-> "pan", base |-> scroll]
    /\ UNCHANGED <<width, lens, scroll, calendar, aim, narrowed>>

GrabHandle(side) ==
    /\ drag = None /\ calendar = None /\ lens # None /\ Turn
    /\ drag' = [mode |-> side, base |-> IF side = "start" THEN lens[1] ELSE lens[2]]
    /\ UNCHANGED <<width, lens, scroll, calendar, aim, narrowed>>

\* Mutant: a handle stops only at the edge of the window.
DraggedApart(side, x) ==
    IF side = "start" THEN <<Most(0, x), lens[2]>> ELSE <<lens[1], Least(width, x)>>

\* A handle stops at the edge of the window, and short of the other handle.
Dragged(side, x) ==
    IF side = "start"
    THEN <<Most(0, Least(x, lens[2] - MinLens)), lens[2]>>
    ELSE <<lens[1], Least(width, Most(x, lens[1] + MinLens))>>

\* dx is the way from where the drag began.
Move(dx) ==
    /\ drag # None
    /\ IF drag.mode = "pan" THEN scroll' = InStrip(drag.base - dx) /\ UNCHANGED lens
       ELSE lens' = Dragged(drag.mode, drag.base + dx) /\ UNCHANGED scroll
    /\ aim' = None
    /\ UNCHANGED <<width, drag, calendar, narrowed, turns>>

Release ==
    /\ drag # None /\ drag' = None
    /\ UNCHANGED <<width, lens, scroll, calendar, aim, narrowed, turns>>

Wheel(dx) ==
    /\ calendar = None /\ width # 0 /\ Turn
    /\ scroll' = InStrip(scroll + dx) /\ aim' = None
    /\ UNCHANGED <<width, lens, drag, calendar, narrowed>>

\* The arrows of the header.
NudgeDay(dir) ==
    /\ calendar = None /\ drag = None /\ width # 0 /\ Turn
    /\ scroll' = InStrip(scroll + dir * DayWidth) /\ aim' = None
    /\ UNCHANGED <<width, lens, drag, calendar, narrowed>>

JumpToNow ==
    /\ calendar = None /\ drag = None /\ width # 0 /\ Turn
    /\ scroll' = InStrip(NowX - CentreLens) /\ aim' = [day |-> Today, whole |-> FALSE]
    /\ UNCHANGED <<width, lens, drag, calendar, narrowed>>

-----------------------------------------------------------------------------
(* The calendar: days of a month, months of a year, years.  month.at is    *)
(* the month the user has come to, counted from year 0.                    *)

TodayMonth == (WindowStart + Today) \div MonthLength

OpenCalendar ==
    /\ calendar = None /\ drag = None /\ width # 0 /\ Turn
    /\ calendar' = [mode |-> "days", year |-> TodayMonth \div YearLength,
                    mon |-> TodayMonth % YearLength,
                    base |-> TodayMonth \div YearLength - YearsShown \div 3, at |-> TodayMonth]
    /\ UNCHANGED <<width, lens, scroll, drag, aim, narrowed>>

\* The backdrop around the calendar.
CloseCalendar ==
    /\ calendar # None /\ calendar' = None
    /\ UNCHANGED <<width, lens, scroll, drag, aim, narrowed, turns>>

OnHeaderClick ==
    /\ calendar # None /\ calendar.mode # "years"
    /\ calendar' = [calendar EXCEPT !.mode = IF @ = "days" THEN "months" ELSE "years"]
    /\ UNCHANGED <<width, lens, scroll, drag, aim, narrowed, turns>>

\* Mutant: the first month of a year follows the last one of the same year.
StepInYear(c, dir) == [c EXCEPT !.mon = (@ + dir) % YearLength]

StepMonth(c, dir) ==
    LET m == c.mon + dir
    IN  IF m < 0 THEN [c EXCEPT !.mon = YearLength - 1, !.year = @ - 1]
        ELSE IF m >= YearLength THEN [c EXCEPT !.mon = 0, !.year = @ + 1]
        ELSE [c EXCEPT !.mon = m]

Nav(dir) ==
    /\ calendar # None /\ Turn
    /\ calendar' =
        CASE calendar.mode = "days" -> [StepMonth(calendar, dir) EXCEPT !.at = @ + dir]
          [] calendar.mode = "months" ->
                [calendar EXCEPT !.year = @ + dir, !.at = @ + dir * YearLength]
          [] calendar.mode = "years" -> [calendar EXCEPT !.base = @ + dir * YearsShown]
    /\ UNCHANGED <<width, lens, scroll, drag, aim, narrowed>>

PickMonth(i) ==
    /\ calendar # None /\ calendar.mode = "months"
    /\ calendar' = [calendar EXCEPT !.mon = i, !.mode = "days",
                                    !.at = (@ \div YearLength) * YearLength + i]
    /\ UNCHANGED <<width, lens, scroll, drag, aim, narrowed, turns>>

PickYear(i) ==
    /\ calendar # None /\ calendar.mode = "years"
    /\ LET y == calendar.base + i
       IN  calendar' = [calendar EXCEPT !.year = y, !.mode = "months",
                                        !.at = y * YearLength + (@ % YearLength)]
    /\ UNCHANGED <<width, lens, scroll, drag, aim, narrowed, turns>>

\* dayIndexFor: the day of the month in view, as a day of the strip.
DayIndexFor(d) == (calendar.year * YearLength + calendar.mon) * MonthLength + d - WindowStart

\* Days out of the strip are disabled. The aim is the day the user has come
\* to, of which the whole is wanted; the present is a part of its day.
PickDay(d) ==
    /\ calendar # None /\ calendar.mode = "days" /\ DayIndexFor(d) \in 0..(Days - 1)
    /\ scroll' = InStrip(DayIndexFor(d) * DayWidth + DayWidth \div 2 - CentreLens)
    /\ calendar' = None
    /\ aim' = [day |-> calendar.at * MonthLength + d - WindowStart, whole |-> TRUE]
    /\ UNCHANGED <<width, lens, drag, narrowed, turns>>

-----------------------------------------------------------------------------
\* Closed and opened again: what the overlay held is gone.
Reopen ==
    /\ width # 0 /\ drag = None /\ calendar = None /\ Turn
    /\ width' = 0 /\ lens' = None /\ scroll' = Most(0, NowX - MostLens)
    /\ aim' = None /\ narrowed' = FALSE
    /\ UNCHANGED <<drag, calendar>>

TimelineNext ==
    \/ \E w \in Widths : Measure(w) \/ Resize(w)
    \/ GrabStrip
    \/ \E side \in {"start", "end"} : GrabHandle(side)
    \/ \E dx \in Distances : Move(dx) \/ Wheel(dx)
    \/ Release
    \/ \E dir \in {-1, 1} : NudgeDay(dir) \/ Nav(dir)
    \/ JumpToNow
    \/ OpenCalendar
    \/ CloseCalendar
    \/ OnHeaderClick
    \/ \E i \in 0..(YearLength - 1) : PickMonth(i)
    \/ \E i \in 0..(YearsShown - 1) : PickYear(i)
    \/ \E d \in 0..(MonthLength - 1) : PickDay(d)
    \/ Reopen

-----------------------------------------------------------------------------
\* The calendar shows the month its user has come to, through all three of its levels.
CalendarKeepsCount == calendar # None => calendar.at = calendar.year * YearLength + calendar.mon

\* A day that was asked for is under the lens, or as near to it as the strip's ends let it be;
\* and all its runs are in the agenda where the lens is as wide as the working day.
AimedDayInView ==
    aim # None =>
        \/ scroll = 0 /\ aim.day <= Focus
        \/ scroll = Most(0, Total - width) /\ Focus <= aim.day
        \/ /\ aim.day = Focus
           /\ (aim.whole /\ Hi - Lo >= DayWidth - 2 * DayPad) =>
                {m \in Marks : m.day = aim.day} \subseteq Visible

\* No order of drags makes the lens narrower than its least width, or turns it over, as long as
\* the window was not made narrower.
LensKeepsWidth == (lens # None /\ ~narrowed) => lens[2] - lens[1] >= MinLens

TimelineSafe == CalendarKeepsCount /\ AimedDayInView /\ LensKeepsWidth

=============================================================================
