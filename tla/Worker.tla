------------------------------- MODULE Worker -------------------------------
(***************************************************************************)
(* The background worker: run_worker and worker_tick over the task queue,  *)
(* the schedules and the event outbox, with the requests of other          *)
(* processes between any two of its steps, and with crashes.  One tick     *)
(* sweeps leases, fires due schedules, claims and dispatches a batch of    *)
(* events and runs one task.                                               *)
(***************************************************************************)
EXTENDS Scheduler, EventOutbox

CONSTANTS
    Jobs,       \* task types other than run_op
    MaxBoots    \* how often a worker is started

ASSUME WorkerBounds == MaxBoots \in Nat \ {0}
ASSUME WorkerKinds == Kinds = Jobs \cup {"run_op"} /\ "run_op" \notin Jobs
ASSUME OneProcess == Dispatchers = Workers
ASSUME OutcomeNone == None \notin {"ok", "error"}

VARIABLE worker     \* worker[w]: where its thread is, and the task in hand

vars == <<queueVars, scheduleVars, outboxVars, worker>>

Down == [at |-> "down", task |-> None, outcome |-> None, boots |-> 0]

WorkerInit ==
    /\ QueueInit
    /\ SchedulerInit
    /\ OutboxInit
    /\ worker = [w \in Workers |-> Down]

At(w, place) == worker[w].at = place
Go(w, place) == worker' = [worker EXCEPT ![w].at = place]
Report(w, outcome) ==
    worker' = [worker EXCEPT ![w].at = "report", ![w].outcome = outcome]
EndTick(w) == worker' = [worker EXCEPT ![w] = [worker[w] EXCEPT
                            !.at = "sweep", !.task = None, !.outcome = None]]

-----------------------------------------------------------------------------
(* worker_tick up to run_one.                                              *)

\* Mutant of Boot: the orphans of the last process are not recovered.
BootPlain(w) ==
    /\ At(w, "down")
    /\ worker[w].boots < MaxBoots
    /\ worker' = [worker EXCEPT ![w].at = "sweep", ![w].boots = @ + 1]
    /\ UNCHANGED <<queueVars, scheduleVars, outboxVars>>

\* run_worker: every running task is taken for an orphan.
Boot(w) ==
    /\ At(w, "down")
    /\ worker[w].boots < MaxBoots
    /\ RecoverOrphans
    /\ worker' = [worker EXCEPT ![w].at = "sweep", ![w].boots = @ + 1]
    /\ UNCHANGED <<scheduleVars, outboxVars>>

SweepStep(w) ==
    /\ At(w, "sweep")
    /\ SweepLeases
    /\ Go(w, "schedules")
    /\ UNCHANGED <<scheduleVars, outboxVars>>

SchedulesBegin(w) ==
    /\ At(w, "schedules")
    /\ PassBegin(w)
    /\ Go(w, "pass")
    /\ UNCHANGED <<queueVars, outboxVars>>

PassQuiet(w) ==
    /\ At(w, "pass")
    /\ \/ \E row \in pass[w].rows : PassRow(w, row)
       \/ PassFull(w)
       \/ PassAdvance(w)
    /\ UNCHANGED <<queueVars, outboxVars, worker>>

PassEnqueue(w, t) ==
    /\ At(w, "pass")
    /\ PassFire(w, t)
    /\ UNCHANGED <<outboxVars, worker>>

SchedulesEnd(w) ==
    /\ At(w, "pass")
    /\ PassEnd(w)
    /\ Go(w, "events")
    /\ UNCHANGED <<queueVars, outboxVars>>

EventsBegin(w) ==
    /\ At(w, "events")
    /\ ClaimEvents(w)
    /\ Go(w, "dispatch")
    /\ UNCHANGED <<queueVars, scheduleVars>>

Dispatch(w) ==
    /\ At(w, "dispatch")
    /\ \/ SkipHandled(w)
       \/ CallReturns(w)
       \/ CallRaises(w)
       \/ MarkProcessed(w)
       \/ Settle(w)
    /\ UNCHANGED <<queueVars, scheduleVars, worker>>

EventsEnd(w) ==
    /\ At(w, "dispatch")
    /\ drain[w].batch = <<>>
    /\ Go(w, "eligible")
    /\ UNCHANGED <<queueVars, scheduleVars, outboxVars>>

-----------------------------------------------------------------------------
(* run_one.                                                                *)

\* eligible_tenants
Eligible(w) ==
    /\ At(w, "eligible")
    /\ Go(w, IF BelowCap THEN "claim" ELSE "sweep")
    /\ UNCHANGED <<queueVars, scheduleVars, outboxVars>>

ClaimOne(w, t) ==
    /\ At(w, "claim")
    /\ ClaimTask(w, t)
    /\ worker' = [worker EXCEPT ![w].at = "handle", ![w].task = t]
    /\ UNCHANGED <<scheduleVars, outboxVars>>

ClaimNone(w) ==
    /\ At(w, "claim")
    /\ Claimable = {}
    /\ EndTick(w)
    /\ UNCHANGED <<queueVars, scheduleVars, outboxVars>>

\* A handler of an add-on returns; any handler may raise, or be missing.  Of
\* run_op these are the raises that come before, or instead of, its finalize.
Handle(w, outcome) ==
    /\ At(w, "handle")
    /\ outcome = "ok" => task[worker[w].task].kind \in Jobs
    /\ Report(w, outcome)
    /\ UNCHANGED <<queueVars, scheduleVars, outboxVars>>

\* Mutant of RunOp: the failure is logged and not raised again.
RunOpSwallows(w, outcome) ==
    /\ At(w, "handle")
    /\ task[worker[w].task].kind = "run_op"
    /\ FinalizeRun(worker[w].task, IF outcome = "ok" THEN "done" ELSE "failed")
    /\ Report(w, "ok")
    /\ UNCHANGED <<queueVars, outboxVars>>

\* run_op: the operation returned or raised, and the log row says so.
RunOp(w, outcome) ==
    /\ At(w, "handle")
    /\ task[worker[w].task].kind = "run_op"
    /\ FinalizeRun(worker[w].task, IF outcome = "ok" THEN "done" ELSE "failed")
    /\ Report(w, outcome)
    /\ UNCHANGED <<queueVars, outboxVars>>

Complete(w) ==
    /\ At(w, "report") /\ worker[w].outcome = "ok"
    /\ CompleteTask(worker[w].task)
    /\ EndTick(w)
    /\ UNCHANGED <<scheduleVars, outboxVars>>

\* Mutant of Fail: the exception is only logged.
FailOnlyLogs(w) ==
    /\ At(w, "report") /\ worker[w].outcome = "error"
    /\ EndTick(w)
    /\ UNCHANGED <<queueVars, scheduleVars, outboxVars>>

Fail(w) ==
    /\ At(w, "report") /\ worker[w].outcome = "error"
    /\ FailTask(worker[w].task)
    /\ EndTick(w)
    /\ UNCHANGED <<scheduleVars, outboxVars>>

\* A write raises where the code catches it: the enqueue of a firing, whose row
\* is then left as it is; mark_processed within the try of the callback;
\* complete within the try of the handler.
StoreFault(w) ==
    \/ /\ pass[w].stage = "fire"
       /\ pass' = [pass EXCEPT ![w].stage = "next"]
       /\ UNCHANGED <<queueVars, clock, sched, skips, log, req, outboxVars, worker>>
    \/ /\ MarkRaises(w)
       /\ UNCHANGED <<queueVars, scheduleVars, worker>>
    \/ /\ At(w, "report") /\ worker[w].outcome = "ok"
       /\ Report(w, "error")
       /\ UNCHANGED <<queueVars, scheduleVars, outboxVars>>

\* The process dies, or an exception no handler catches ends it.
Crash(w) ==
    /\ ~At(w, "down")
    /\ worker' = [worker EXCEPT ![w] = [Down EXCEPT !.boots = worker[w].boots]]
    /\ Forget(w)
    /\ pass' = [pass EXCEPT ![w] = NoPass]
    /\ UNCHANGED <<queueVars, clock, sched, skips, log, req>>

Outcomes == {"ok", "error"}

TickStep(w) ==
    \/ SweepStep(w) \/ SchedulesBegin(w) \/ PassQuiet(w) \/ SchedulesEnd(w)
    \/ EventsBegin(w) \/ Dispatch(w) \/ EventsEnd(w)
    \/ Eligible(w) \/ ClaimNone(w)
    \/ \E t \in Tasks : PassEnqueue(w, t) \/ ClaimOne(w, t)
    \/ \E o \in Outcomes : Handle(w, o) \/ RunOp(w, o)
    \/ Complete(w) \/ Fail(w)

-----------------------------------------------------------------------------
(* The other processes, and time.                                          *)

ScheduleRequest ==
    /\ \/ \E s \in Schedules :
             \/ \E c \in Crons : CreateSchedule(s, c)
             \/ \E e \in BOOLEAN : SetEnabled(s, e)
             \/ DeleteSchedule(s)
    /\ UNCHANGED <<queueVars, outboxVars, worker>>

UpdateRequest ==
    /\ \E q \in Requests :
          \/ \E s \in Schedules, c \in Crons, e \in BOOLEAN \cup {None} :
                UpdateCompute(q, s, c, e)
          \/ UpdateWrite(q)
    /\ UNCHANGED <<queueVars, outboxVars, worker>>

SkipRequest ==
    /\ \/ \E q \in Requests :
             \/ \E s \in Schedules, at \in Times : SkipCheck(q, s, at)
             \/ SkipWrite(q)
       \/ \E s \in Schedules, at \in Times : Unskip(s, at)
    /\ UNCHANGED <<queueVars, outboxVars, worker>>

RunRequest ==
    /\ \E s \in Schedules, t \in Tasks : RunNow(s, t)
    /\ UNCHANGED <<outboxVars, worker>>

SubmitRequest ==
    /\ \E t \in Tasks, j \in Jobs : Enqueue(t, j)
    /\ UNCHANGED <<scheduleVars, outboxVars, worker>>

EmitRequest ==
    /\ \E e \in Events, x \in Entities : Emit(e, x)
    /\ UNCHANGED <<queueVars, scheduleVars, worker>>

Clock == Tick /\ UNCHANGED <<queueVars, outboxVars, worker>>

RetryTime ==
    \/ \E t \in Tasks : ComesDue(t) /\ UNCHANGED <<scheduleVars, outboxVars, worker>>
    \/ \E e \in Events : RetryDue(e) /\ UNCHANGED <<queueVars, scheduleVars, worker>>

LeaseTime ==
    /\ \E t \in Tasks : LeaseExpires(t)
    /\ UNCHANGED <<scheduleVars, outboxVars, worker>>

Next ==
    \/ \E w \in Workers : TickStep(w) \/ Boot(w) \/ Crash(w) \/ StoreFault(w)
    \/ ScheduleRequest \/ UpdateRequest \/ SkipRequest \/ RunRequest
    \/ SubmitRequest \/ EmitRequest
    \/ Clock \/ RetryTime \/ LeaseTime

Spec == WorkerInit /\ [][Next]_vars

\* The loop of run_worker goes on as long as its process lives and is started
\* again when it died; retry times come, and so do the instants.
Fairness ==
    /\ \A w \in Workers : WF_vars(TickStep(w)) /\ WF_vars(Boot(w))
    /\ \A t \in Tasks : WF_vars(ComesDue(t)
                                /\ UNCHANGED <<scheduleVars, outboxVars, worker>>)
    /\ \A e \in Events : WF_vars(RetryDue(e)
                                /\ UNCHANGED <<queueVars, scheduleVars, worker>>)

FairSpec == Spec /\ Fairness

-----------------------------------------------------------------------------
(* Properties.                                                             *)

Places == {"down", "sweep", "schedules", "pass", "events", "dispatch",
           "eligible", "claim", "handle", "report"}

\* The types of all variables; a worker has a task in hand exactly from the
\* claim to the report, and is in a pass or a batch only at their places.
WorkerTypeOK ==
    /\ \A t \in Tasks : /\ task[t] \in TaskRow
                         /\ task[t].retries <= MaxRetries + 1
    /\ line \in Seq(Tasks)
    /\ starts \in [Tasks -> Nat]
    /\ clock \in Times
    /\ \A s \in Schedules : /\ sched[s].life \in {"absent", "live", "deleted"}
                             /\ sched[s].enabled \in BOOLEAN
                             /\ sched[s].cron \in Crons \cup {None}
                             /\ sched[s].next \in Times \cup {Never}
    /\ \A k \in skips : k.sid \in Schedules /\ k.at \in Times
    /\ \A t \in Tasks : log[t].status \in {None, "queued", "done", "failed"}
    /\ \A e \in Events : event[e].retries \in 0 .. MaxDeliveries
    /\ processed \subseteq Subscribers \X Events
    /\ \A w \in Workers :
          /\ worker[w].at \in Places
          /\ worker[w].boots \in 0 .. MaxBoots
          /\ worker[w].at \in {"handle", "report"} <=> worker[w].task \in Tasks
          /\ worker[w].at = "report" <=> worker[w].outcome \in Outcomes
          /\ pass[w].stage # "out" => worker[w].at = "pass"
          /\ drain[w].batch # <<>> => worker[w].at = "dispatch"

\* One worker: a task is running exactly while the live worker has it in hand,
\* or waits for the next boot.  So nothing is executed that the table does not
\* show, a claimed task is never claimed again, and none is forgotten.
ClaimHeld ==
    (\A v, w \in Workers : worker[v].boots > 0 /\ worker[w].boots > 0 => v = w)
    => \A w \in Workers, t \in Tasks :
            /\ worker[w].task = t => /\ task[t].status = "running"
                                     /\ task[t].owner = w
            /\ task[t].status = "running" /\ worker[w].boots > 0
                 => worker[w].task = t \/ At(w, "down")

\* Every execution that did not end well is counted as a retry, whether the
\* handler raised or the process died.
AttemptsAccounted ==
    \A t \in Tasks :
        starts[t] = task[t].retries
                    + (IF task[t].status \in {"running", "done"} THEN 1 ELSE 0)

\* The run log says "done" of every run whose task is done.
DoneLogged ==
    \A t \in Tasks : task[t].status = "done" /\ log[t].sid # None
                     => log[t].status = "done"

\* Every task that is queued is done or has failed for good.
TasksSettle ==
    \A t \in Tasks : task[t].status = "pending" ~> Settled(t)

FiredAt(s, at) == {t \in Tasks : /\ log[t].sid = s
                                 /\ log[t].at = at
                                 /\ log[t].by = "cron"}

\* An occurrence that was skipped in time, and is still skipped, never fired:
\* whatever updates, toggles and late passes come in between.
SkipHonoured == \A k \in skips : k.early => FiredAt(k.sid, k.at) = {}

\* An occurrence of a schedule is enqueued once.
FiresOnce == \A s \in Schedules, at \in Times : Cardinality(FiredAt(s, at)) <= 1

\* When no worker is in a pass and no update under way, the next run of a
\* schedule is an instant of its cron expression.
CadenceFollowsCron ==
    /\ \A w \in Workers : pass[w].stage = "out"
    /\ \A q \in Requests : req[q].op # "update"
    => \A s \in Schedules :
          Exists(s) => sched[s].next \in sched[s].cron \cup {Never}

\* An occurrence that is due, and in the hands of no pass yet, is enqueued or
\* skipped, unless its schedule is disabled or deleted: a full backlog only
\* delays it.
OccurrencesServed ==
    \A s \in Schedules, at \in Times :
        (/\ Exists(s) /\ sched[s].enabled
         /\ sched[s].next = at /\ at <= clock
         /\ \A w \in Workers : pass[w].row.sid # s)
        ~> \/ FiredAt(s, at) # {}
           \/ \E k \in skips : k.sid = s /\ k.at = at
           \/ ~Exists(s)
           \/ ~sched[s].enabled

Held(w) == {drain[w].batch[i] : i \in 1 .. Len(drain[w].batch)}

\* At most one event of an entity is in the hands of all dispatchers, and only
\* of one of them: the claim is the lock of the entity.
OneInFlight ==
    \A v, w \in Dispatchers : \A e \in Held(v), f \in Held(w) :
        event[e].entity = event[f].entity => v = w /\ e = f

\* No subscriber has seen an event while an earlier one of the same entity is
\* neither delivered nor in the dead letters.
EntityOrder ==
    \A s \in Subscribers : \A e, f \in Events :
        /\ e < f
        /\ event[e].entity = event[f].entity
        /\ calls[s][f] > 0
        => ~Open(e)

\* No subscriber sees an event twice.
HandledOnce == \A s \in Subscribers, e \in Events : calls[s][e] <= 1

Delivery == INSTANCE OrderedDelivery WITH
    life <- [e \in Events |-> event[e].status],
    about <- [e \in Events |-> event[e].entity],
    heard <- {p \in Subscribers \X Events : calls[p[1]][p[2]] > 0}

\* The outbox implements ordered delivery: however claims, callbacks, marks,
\* retries and crashes of the dispatchers interleave, a subscriber hears an
\* event in its turn, it counts as delivered only when all have heard it, and
\* what is settled stays so.
DeliveryIsOrdered == Delivery!DeliverySpec

\* A claimed event that no live dispatcher holds: it was in the hands of one
\* that died.
Stranded(e) == Open(e) /\ event[e].claimed /\ \A w \in Dispatchers : e \notin Held(w)

\* Every event is delivered or ends in the dead letters, unless an event of
\* its entity was stranded: a crash costs the entities in hand and no other.
UnstrandedEventsSettle ==
    \A e \in Events :
        Open(e) ~> \/ event[e].status \in {"delivered", "dead"}
                   \/ \E f \in Events : /\ event[f].entity = event[e].entity
                                        /\ Stranded(f)

\* Every event is delivered or ends in the dead letters.
EventsSettle == \A e \in Events : Open(e) ~> event[e].status \in {"delivered", "dead"}
=============================================================================
