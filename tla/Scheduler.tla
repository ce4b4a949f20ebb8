------------------------------ MODULE Scheduler ------------------------------
(***************************************************************************)
(* Recurring schedules: the tables schedules, schedule_skips and           *)
(* schedule_runs, the requests on them (schedule_ops, in the API process)  *)
(* and run_due_schedules (in the worker's tick).  Both sides read, compute *)
(* and write in separate transactions; each of these is an action.         *)
(*                                                                         *)
(* Time is counted in the instants at which some cron expression fires.    *)
(* A schedule_runs row is written together with its task, and the id of    *)
(* the task names it.                                                      *)
(***************************************************************************)
EXTENDS TaskQueue

CONSTANTS
    Schedules,      \* schedule ids
    Requests,       \* concurrent requests of the API process
    Crons,          \* cron expressions, each the set of instants it fires at
    MaxTime         \* bound of the clock

Times == 0 .. MaxTime
Never == MaxTime + 1

ASSUME TimeAssumption == MaxTime \in Nat
ASSUME CronAssumption == Crons \subseteq SUBSET Times
ASSUME RequestNone == None \notin {"update", "skip"}
ASSUME ScheduleNone == None \notin Schedules

VARIABLES
    clock,      \* the current instant
    sched,      \* sched[s]: the schedules row
    skips,      \* schedule_skips; early: created before the instant it names
    log,        \* log[t]: the schedule_runs row of task t
    pass,       \* pass[w]: the run of run_due_schedules worker w is in
    req         \* req[q]: a request between its reads and its write

scheduleVars == <<clock, sched, skips, log, pass, req>>

NoSchedule == [life |-> "absent", enabled |-> FALSE, cron |-> None, next |-> 0]
NoLog == [sid |-> None, at |-> 0, by |-> None, status |-> None]
NoDue == [sid |-> None, at |-> 0, cron |-> None]
NoPass == [stage |-> "out", now |-> 0, rows |-> {}, row |-> NoDue]
NoRequest == [op |-> None, sid |-> None, cron |-> None, enabled |-> None,
              at |-> 0]

SchedulerInit ==
    /\ clock = 0
    /\ sched = [s \in Schedules |-> NoSchedule]
    /\ skips = {}
    /\ log = [t \in Tasks |-> NoLog]
    /\ pass = [w \in Workers |-> NoPass]
    /\ req = [q \in Requests |-> NoRequest]

Earliest(later) == IF later = {} THEN Never
                   ELSE CHOOSE i \in later : \A j \in later : i <= j

\* Mutant of NextRun: not strictly after now.
NextRunInclusive(c, now) == Earliest({i \in c : i >= now})
NextRun(c, now) == Earliest({i \in c : i > now})

Exists(s) == sched[s].life = "live"

\* The task and its row of the run log, in one transaction.
EnqueueRun(t, s, at, by) ==
    /\ Enqueue(t, "run_op")
    /\ log' = [log EXCEPT ![t] = [sid |-> s, at |-> at, by |-> by,
                                  status |-> "queued"]]

-----------------------------------------------------------------------------
(* Requests.  Those that read the clock or the row before their            *)
(* transaction go through req.                                             *)

CreateSchedule(s, c) ==
    /\ sched[s].life = "absent"
    /\ sched' = [sched EXCEPT ![s] = [life |-> "live", enabled |-> TRUE,
                                      cron |-> c, next |-> NextRun(c, clock)]]
    /\ UNCHANGED <<clock, skips, log, pass, req>>

DeleteSchedule(s) ==
    /\ Exists(s)
    /\ sched' = [sched EXCEPT ![s] = [NoSchedule EXCEPT !.life = "deleted"]]
    /\ UNCHANGED <<clock, skips, log, pass, req>>

SetEnabled(s, e) ==
    /\ Exists(s)
    /\ sched' = [sched EXCEPT ![s].enabled = e]
    /\ UNCHANGED <<clock, skips, log, pass, req>>

\* A new expression and, if given, a new enabled: next_run_at is computed from
\* the clock as the handler reads it ...
UpdateCompute(q, s, c, e) ==
    /\ req[q].op = None
    /\ Exists(s)
    /\ req' = [req EXCEPT ![q] = [op |-> "update", sid |-> s, cron |-> c,
                                  enabled |-> e, at |-> NextRun(c, clock)]]
    /\ UNCHANGED <<clock, sched, skips, log, pass>>

\* ... and written whatever the row has become.
UpdateWrite(q) ==
    LET r == req[q]
    IN  /\ r.op = "update"
        /\ sched' = IF Exists(r.sid)
                    THEN [sched EXCEPT ![r.sid] =
                            [sched[r.sid] EXCEPT
                                !.cron = r.cron, !.next = r.at,
                                !.enabled = IF r.enabled = None THEN @
                                            ELSE r.enabled]]
                    ELSE sched
        /\ req' = [req EXCEPT ![q] = NoRequest]
        /\ UNCHANGED <<clock, skips, log, pass>>

SkipCheck(q, s, at) ==
    /\ req[q].op = None
    /\ Exists(s)
    /\ at > clock
    /\ req' = [req EXCEPT ![q] = [NoRequest EXCEPT !.op = "skip", !.sid = s,
                                                   !.at = at]]
    /\ UNCHANGED <<clock, sched, skips, log, pass>>

\* INSERT OR IGNORE
SkipWrite(q) ==
    LET r == req[q]
    IN  /\ r.op = "skip"
        /\ skips' = IF \E k \in skips : k.sid = r.sid /\ k.at = r.at THEN skips
                    ELSE skips \cup {[sid |-> r.sid, at |-> r.at,
                                      early |-> clock < r.at]}
        /\ req' = [req EXCEPT ![q] = NoRequest]
        /\ UNCHANGED <<clock, sched, log, pass>>

Unskip(s, at) ==
    /\ Exists(s)
    /\ \E k \in skips : k.sid = s /\ k.at = at
    /\ skips' = {k \in skips : ~(k.sid = s /\ k.at = at)}
    /\ UNCHANGED <<clock, sched, log, pass, req>>

RunNow(s, t) ==
    /\ Exists(s)
    /\ EnqueueRun(t, s, clock, "request")
    /\ UNCHANGED <<clock, sched, skips, pass, req>>

-----------------------------------------------------------------------------
(* run_due_schedules.                                                      *)

Due(now) == {[sid |-> s, at |-> sched[s].next, cron |-> sched[s].cron] :
                s \in {x \in Schedules : /\ Exists(x)
                                         /\ sched[x].enabled
                                         /\ sched[x].next <= now}}

PassBegin(w) ==
    /\ pass[w].stage = "out"
    /\ pass' = [pass EXCEPT ![w] = [stage |-> "next", now |-> clock,
                                    rows |-> Due(clock), row |-> NoDue]]
    /\ UNCHANGED <<clock, sched, skips, log, req>>

\* Mutant of IsSkipped: the skip is looked up under the instant of the tick.
IsSkippedNow(row) == \E k \in skips : k.sid = row.sid /\ k.at = clock
IsSkipped(row) == \E k \in skips : k.sid = row.sid /\ k.at = row.at

\* The next row of the snapshot, and the lookup of its occurrence.
PassRow(w, row) ==
    /\ pass[w].stage = "next"
    /\ row \in pass[w].rows
    /\ pass' = [pass EXCEPT ![w] =
                  [pass[w] EXCEPT !.rows = pass[w].rows \ {row}, !.row = row,
                                  !.stage = IF IsSkipped(row) THEN "advance"
                                            ELSE "fire"]]
    /\ UNCHANGED <<clock, sched, skips, log, req>>

PassFire(w, t) ==
    /\ pass[w].stage = "fire"
    /\ EnqueueRun(t, pass[w].row.sid, pass[w].row.at, "cron")
    /\ pass' = [pass EXCEPT ![w].stage = "advance"]
    /\ UNCHANGED <<clock, sched, skips, req>>

\* Mutant of PassFull: the row advances although nothing was enqueued.
PassFullAdvances(w) ==
    /\ pass[w].stage = "fire"
    /\ BacklogFull \/ InState("absent") = {}
    /\ pass' = [pass EXCEPT ![w].stage = "advance"]
    /\ UNCHANGED <<clock, sched, skips, log, req>>

\* enqueue raises: the row keeps its next_run_at.  (The second disjunct is the
\* bound MaxTasks.)
PassFull(w) ==
    /\ pass[w].stage = "fire"
    /\ BacklogFull \/ InState("absent") = {}
    /\ pass' = [pass EXCEPT ![w].stage = "next"]
    /\ UNCHANGED <<clock, sched, skips, log, req>>

\* The row is written by id, with the expression of the snapshot.
PassAdvance(w) ==
    LET s == pass[w].row.sid
    IN  /\ pass[w].stage = "advance"
        /\ sched' = IF Exists(s)
                    THEN [sched EXCEPT ![s].next =
                            NextRun(pass[w].row.cron, pass[w].now)]
                    ELSE sched
        /\ pass' = [pass EXCEPT ![w].stage = "next"]
        /\ UNCHANGED <<clock, skips, log, req>>

PassEnd(w) ==
    /\ pass[w].stage = "next"
    /\ pass[w].rows = {}
    /\ pass' = [pass EXCEPT ![w] = NoPass]
    /\ UNCHANGED <<clock, sched, skips, log, req>>

-----------------------------------------------------------------------------

\* run_op closes the row of its task; the last attempt wins.
FinalizeRun(t, status) ==
    /\ log' = [log EXCEPT ![t].status = status]
    /\ UNCHANGED <<clock, sched, skips, pass, req>>

Tick ==
    /\ clock < MaxTime
    /\ clock' = clock + 1
    /\ UNCHANGED <<sched, skips, log, pass, req>>
=============================================================================
