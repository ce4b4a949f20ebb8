----------------------------- MODULE QueueProofs -----------------------------
(***************************************************************************)
(* The accounts of the queue and the types of the worker, for any number   *)
(* of tasks and retries.  They hold as long as one process works on the    *)
(* queue (Sole), which is how it is deployed: a second one sees the lease  *)
(* of a task in hand expire, runs it again, and the outcome of the first   *)
(* run counts against the second.  The last two parts say what the worker  *)
(* guarantees where some fault does not happen, for any number of tasks,   *)
(* schedules, events and subscribers: no subscriber handles an event twice *)
(* as long as no mark fails, and no occurrence of a schedule is enqueued   *)
(* twice as long as no pass is cut off and no update comes between.        *)
(***************************************************************************)
EXTENDS MCWorker, WorkerProofs, FiniteSetTheorems

-----------------------------------------------------------------------------
(* Where a worker is, and what it has there.                               *)

Placed == \A w \in Workers :
    /\ worker[w].boots <= MaxBoots
    /\ worker[w].outcome \in Outcomes <=> worker[w].at = "report"
    /\ pass[w].stage # "out" => worker[w].at = "pass"
    /\ drain[w].batch # <<>> => worker[w].at = "dispatch"

LEMMA PlacedInitInv == WorkerInit => Placed
  BY WorkerBounds, OutcomeNone, OneProcess
     DEF WorkerInit, SchedulerInit, OutboxInit, Placed, Down, NoPass, NoDrain, Outcomes

\* A step of one worker, which has neither pass nor batch unless its place is theirs.
LEMMA PlacedStep ==
    ASSUME Placed, NEW w \in Workers,
           \A v \in Workers : v # w => worker'[v] = worker[v] /\ pass'[v] = pass[v]
                                                             /\ drain'[v] = drain[v],
           worker'[w].boots <= MaxBoots,
           worker'[w].outcome \in Outcomes <=> worker'[w].at = "report",
           pass'[w].stage # "out" => worker'[w].at = "pass",
           drain'[w].batch # <<>> => worker'[w].at = "dispatch"
    PROVE  Placed'
  BY DEF Placed

\* Two places of the tick that differ in nothing but the place.
LEMMA GoPlaced ==
    ASSUME Placed, HandInv, NEW w \in Workers, NEW place \in Places \ {"report"}, Go(w, place),
           ~At(w, "report"),
           pass' = pass \/ \A v \in Workers : v # w => pass'[v] = pass[v],
           drain' = drain \/ \A v \in Workers : v # w => drain'[v] = drain[v],
           pass'[w].stage # "out" => place = "pass",
           drain'[w].batch # <<>> => place = "dispatch"
    PROVE  Placed'
  <1>1. worker' = [worker EXCEPT ![w].at = place]
    BY DEF Go
  <1>2. /\ worker'[w].at = place /\ worker'[w].outcome = worker[w].outcome
        /\ worker'[w].boots = worker[w].boots
        /\ \A v \in Workers : v # w => worker'[v] = worker[v]
    BY <1>1 DEF HandInv, QueueTypes, WorkerRow
  <1>3. worker[w].boots <= MaxBoots /\ worker[w].outcome \notin Outcomes
    BY DEF Placed, At
  <1> QED
    BY <1>2, <1>3, PlacedStep

LEMMA ReportPlaced ==
    ASSUME Placed, HandInv, NEW w \in Workers, NEW o \in Outcomes, Report(w, o),
           At(w, "handle") \/ At(w, "report"), pass' = pass, drain' = drain
    PROVE  Placed'
  <1>1. worker' = [worker EXCEPT ![w].at = "report", ![w].outcome = o]
    BY DEF Report
  <1>2. /\ worker'[w].at = "report" /\ worker'[w].outcome = o
        /\ worker'[w].boots = worker[w].boots
        /\ \A v \in Workers : v # w => worker'[v] = worker[v]
    BY <1>1 DEF HandInv, QueueTypes, WorkerRow
  <1>3. worker[w].boots <= MaxBoots /\ pass[w].stage = "out" /\ drain[w].batch = <<>>
    BY DEF Placed, At
  <1> QED
    BY <1>2, <1>3, PlacedStep

LEMMA EndTickPlaced ==
    ASSUME Placed, HandInv, NEW w \in Workers, EndTick(w),
           At(w, "claim") \/ At(w, "report"), pass' = pass, drain' = drain
    PROVE  Placed'
  <1>1. worker' = [worker EXCEPT ![w] = [worker[w] EXCEPT !.at = "sweep", !.task = None, !.outcome = None]]
    BY DEF EndTick
  <1>2. /\ worker'[w].at = "sweep" /\ worker'[w].outcome = None
        /\ worker'[w].boots = worker[w].boots
        /\ \A v \in Workers : v # w => worker'[v] = worker[v]
    BY <1>1 DEF HandInv, QueueTypes, WorkerRow
  <1>3. worker[w].boots <= MaxBoots /\ pass[w].stage = "out" /\ drain[w].batch = <<>>
    BY DEF Placed, At
  <1> QED
    BY <1>2, <1>3, PlacedStep, OutcomeNone DEF Outcomes

\* The pass and the batch of one worker, at their places.
LEMMA PassPlaced ==
    ASSUME Placed, NEW w \in Workers, At(w, "pass"), worker' = worker, drain' = drain,
           \A v \in Workers : v # w => pass'[v] = pass[v]
    PROVE  Placed'
  BY PlacedStep DEF Placed, At

LEMMA DispatchPlaced ==
    ASSUME Placed, OutboxInv, NEW w \in Workers, Dispatch(w)
    PROVE  Placed'
  <1>1. At(w, "dispatch") /\ UNCHANGED <<pass, worker>>
    BY DEF Dispatch, scheduleVars
  <1>2. \A v \in Workers : v # w => drain'[v] = drain[v]
    <2>1. DOMAIN drain = Workers
      BY OneProcess DEF OutboxInv, OutboxTypes
    <2>2. \E row : drain' = [drain EXCEPT ![w] = row]
      BY DEF Dispatch, SkipHandled, CallReturns, CallRaises, MarkProcessed, Settle, NextSubscriber
    <2> QED BY <2>1, <2>2
  <1> QED
    BY <1>1, <1>2, PlacedStep DEF Placed, At

LEMMA FaultPlaced ==
    ASSUME Placed, HandInv, OutboxInv, ScheduleDomains, NEW w \in Workers, StoreFault(w)
    PROVE  Placed'
  <1>1. CASE pass[w].stage = "fire" /\ pass' = [pass EXCEPT ![w].stage = "next"]
             /\ UNCHANGED <<drain, worker>>
    BY <1>1, PassPlaced DEF Placed, At, ScheduleDomains
  <1>2. CASE MarkRaises(w) /\ UNCHANGED <<pass, worker>>
    <2>1. drain[w].batch # <<>> /\ \E row : drain' = [drain EXCEPT ![w] = row]
      BY <1>2 DEF MarkRaises, AtSubscriber, NextSubscriber
    <2>2. \A v \in Workers : v # w => drain'[v] = drain[v]
      BY <2>1, OneProcess DEF OutboxInv, OutboxTypes
    <2> QED BY <1>2, <2>1, <2>2, PlacedStep DEF Placed
  <1>3. CASE At(w, "report") /\ Report(w, "error") /\ UNCHANGED <<pass, drain>>
    BY <1>3, ReportPlaced DEF Outcomes
  <1> QED
    BY <1>1, <1>2, <1>3 DEF StoreFault, scheduleVars, outboxVars

LEMMA TickPlaced ==
    ASSUME Placed, HandInv, OutboxInv, SkipInv, NEW w \in Workers, TickStep(w)
    PROVE  Placed'
  <1>0. pass[w].stage # "out" => At(w, "pass")
    BY DEF Placed, At
  <1>1. CASE SweepStep(w)
    <2>1. At(w, "sweep") /\ Go(w, "schedules") /\ UNCHANGED <<pass, drain>>
      BY <1>1 DEF SweepStep, scheduleVars, outboxVars
    <2>2. pass[w].stage = "out" /\ drain[w].batch = <<>>
      BY <2>1 DEF Placed, At
    <2> QED BY <2>1, <2>2, GoPlaced DEF At, Places
  <1>2. CASE SchedulesBegin(w)
    <2>1. At(w, "schedules") /\ Go(w, "pass") /\ drain' = drain /\ \A v \in Workers : v # w => pass'[v] = pass[v]
      BY <1>2 DEF SchedulesBegin, PassBegin, outboxVars, SkipInv, ScheduleDomains
    <2>2. drain[w].batch = <<>>
      BY <2>1 DEF Placed, At
    <2> QED BY <2>1, <2>2, GoPlaced DEF At, Places
  <1>3. CASE PassQuiet(w) \/ \E t \in Tasks : PassEnqueue(w, t)
    <2>1. At(w, "pass") /\ UNCHANGED <<worker, drain>>
      BY <1>3 DEF PassQuiet, PassEnqueue, outboxVars
    <2>2. \E row : pass' = [pass EXCEPT ![w] = row]
      BY <1>3 DEF PassQuiet, PassRow, PassFull, PassAdvance, PassEnqueue, PassFire
    <2>3. \A v \in Workers : v # w => pass'[v] = pass[v]
      BY <2>2 DEF SkipInv, ScheduleDomains
    <2> QED BY <2>1, <2>3, PassPlaced
  <1>4. CASE SchedulesEnd(w)
    <2>1. At(w, "pass") /\ Go(w, "events") /\ drain' = drain /\ pass' = [pass EXCEPT ![w] = NoPass]
      BY <1>4 DEF SchedulesEnd, PassEnd, outboxVars
    <2>2. drain[w].batch = <<>>
      BY <2>1 DEF Placed, At
    <2>3. pass'[w].stage = "out" /\ \A v \in Workers : v # w => pass'[v] = pass[v]
      BY <2>1 DEF SkipInv, ScheduleDomains, NoPass
    <2> QED BY <2>1, <2>2, <2>3, GoPlaced DEF At, Places
  <1>5. CASE EventsBegin(w)
    <2>1. At(w, "events") /\ Go(w, "dispatch") /\ pass' = pass /\ \E row : drain' = [drain EXCEPT ![w] = row]
      BY <1>5 DEF EventsBegin, ClaimEvents, scheduleVars
    <2>2. pass[w].stage = "out"
      BY <2>1 DEF Placed, At
    <2>3. \A v \in Workers : v # w => drain'[v] = drain[v]
      BY <2>1, OneProcess DEF OutboxInv, OutboxTypes
    <2> QED BY <2>1, <2>2, <2>3, GoPlaced DEF At, Places
  <1>6. CASE Dispatch(w)
    BY <1>6, DispatchPlaced
  <1>7. CASE EventsEnd(w) \/ Eligible(w)
    <2>1. PICK place \in {"eligible", "claim", "sweep"} :
              Go(w, place) /\ UNCHANGED <<pass, drain>> /\ drain[w].batch = <<>> /\ pass[w].stage = "out" /\ ~At(w, "report")
      BY <1>7 DEF EventsEnd, Eligible, scheduleVars, outboxVars, Placed, At
    <2> QED BY <2>1, GoPlaced DEF At, Places
  <1>8. CASE \/ ClaimNone(w) \/ Complete(w) \/ Fail(w)
    BY <1>8, EndTickPlaced DEF ClaimNone, Complete, Fail, scheduleVars, outboxVars
  <1>9. CASE \E t \in Tasks : ClaimOne(w, t)
    <2>1. PICK t \in Tasks : At(w, "claim") /\ worker' = [worker EXCEPT ![w].at = "handle", ![w].task = t]
                             /\ UNCHANGED <<pass, drain>>
      BY <1>9 DEF ClaimOne, scheduleVars, outboxVars
    <2>2. /\ worker'[w].at = "handle" /\ worker'[w].outcome = worker[w].outcome
          /\ worker'[w].boots = worker[w].boots
          /\ \A v \in Workers : v # w => worker'[v] = worker[v]
      BY <2>1 DEF HandInv, QueueTypes, WorkerRow
    <2>3. /\ worker[w].boots <= MaxBoots /\ pass[w].stage = "out" /\ drain[w].batch = <<>>
          /\ worker[w].outcome \notin Outcomes
      BY <2>1 DEF Placed, At
    <2> QED BY <2>1, <2>2, <2>3, PlacedStep
  <1>10. CASE \E o \in Outcomes : Handle(w, o) \/ RunOp(w, o)
    <2>1. PICK o \in Outcomes : Report(w, o) /\ At(w, "handle") /\ UNCHANGED <<pass, drain>>
      BY <1>10 DEF Handle, RunOp, FinalizeRun, scheduleVars, outboxVars
    <2> QED BY <2>1, ReportPlaced
  <1> QED
    BY <1>1, <1>2, <1>3, <1>4, <1>5, <1>6, <1>7, <1>8, <1>9, <1>10 DEF TickStep

LEMMA PlacedStepInv == Placed /\ HandInv /\ OutboxInv /\ SkipInv /\ [Next]_vars => Placed'
  <1> SUFFICES ASSUME Placed, HandInv, OutboxInv, SkipInv, [Next]_vars PROVE Placed'
    OBVIOUS
  <1>1. CASE UNCHANGED <<worker, pass, drain>>
    BY <1>1 DEF Placed
  <1>2. CASE \E w \in Workers : TickStep(w)
    BY <1>2, TickPlaced
  <1>3. ASSUME NEW w \in Workers, Boot(w) PROVE Placed'
    <2>1. /\ At(w, "down") /\ worker[w].boots < MaxBoots
          /\ worker' = [worker EXCEPT ![w].at = "sweep", ![w].boots = @ + 1]
          /\ UNCHANGED <<pass, drain>>
      BY <1>3 DEF Boot, scheduleVars, outboxVars
    <2>2. /\ worker'[w].at = "sweep" /\ worker'[w].outcome = worker[w].outcome
          /\ worker'[w].boots = worker[w].boots + 1 /\ worker[w].boots \in Nat
          /\ \A v \in Workers : v # w => worker'[v] = worker[v]
      BY <2>1 DEF HandInv, QueueTypes, WorkerRow
    <2>3. /\ pass[w].stage = "out" /\ drain[w].batch = <<>> /\ worker[w].outcome \notin Outcomes
      BY <2>1 DEF Placed, At
    <2>4. worker'[w].boots <= MaxBoots
      BY <2>1, <2>2, WorkerBounds
    <2> QED BY <2>1, <2>2, <2>3, <2>4, PlacedStep
  <1>4. ASSUME NEW w \in Workers, Crash(w) PROVE Placed'
    <2>1. /\ worker' = [worker EXCEPT ![w] = [Down EXCEPT !.boots = worker[w].boots]]
          /\ pass' = [pass EXCEPT ![w] = NoPass] /\ drain' = [drain EXCEPT ![w] = NoDrain]
      BY <1>4 DEF Crash, Forget
    <2>2. /\ worker'[w].at = "down" /\ worker'[w].outcome = None
          /\ worker'[w].boots = worker[w].boots
          /\ \A v \in Workers : v # w => worker'[v] = worker[v]
      BY <2>1 DEF HandInv, QueueTypes, WorkerRow, Down
    <2>3. pass'[w].stage = "out" /\ \A v \in Workers : v # w => pass'[v] = pass[v]
      BY <2>1 DEF SkipInv, ScheduleDomains, NoPass
    <2>4. drain'[w].batch = <<>> /\ \A v \in Workers : v # w => drain'[v] = drain[v]
      BY <2>1, OneProcess DEF OutboxInv, OutboxTypes, NoDrain
    <2>5. worker[w].boots <= MaxBoots
      BY DEF Placed
    <2> QED BY <2>2, <2>3, <2>4, <2>5, PlacedStep, OutcomeNone DEF Outcomes
  <1>5. CASE \E w \in Workers : StoreFault(w)
    BY <1>5, FaultPlaced DEF SkipInv
  <1>6. CASE \/ ScheduleRequest \/ UpdateRequest \/ SkipRequest \/ RunRequest
             \/ SubmitRequest \/ EmitRequest \/ Clock \/ RetryTime \/ LeaseTime
    <2>1. UNCHANGED <<worker, pass, drain>>
      BY <1>6 DEF ScheduleRequest, CreateSchedule, SetEnabled, DeleteSchedule, UpdateRequest, UpdateCompute,
                  UpdateWrite, SkipRequest, SkipCheck, SkipWrite, Unskip, RunRequest, RunNow, SubmitRequest,
                  EmitRequest, Emit, Clock, Tick, RetryTime, RetryDue, LeaseTime, scheduleVars, outboxVars
    <2> QED BY <2>1, <1>1
  <1> QED
    BY <1>1, <1>2, <1>3, <1>4, <1>5, <1>6 DEF Next, vars, scheduleVars, outboxVars

-----------------------------------------------------------------------------
(* The accounts.                                                           *)

\* A task has failed as often as it may, or once more if it has failed for good.
RetriesBounded == \A t \in Tasks :
    /\ task[t].retries <= MaxRetries + (IF task[t].status = "failed" THEN 1 ELSE 0)
    /\ task[t].status = "absent" => task[t].retries = 0

\* A row of the run log belongs to a task that is run by run_op ...
RunsLogged == \A t \in Tasks :
    log[t].sid # None => task[t].kind = "run_op" /\ task[t].status # "absent"
\* ... and says how its operation ended when that is all that is left to report.
ReportLogged == \A w \in Workers, t \in Tasks :
    /\ worker[w].task = t /\ worker[w].outcome = "ok" /\ log[t].sid # None
    => log[t].status = "done"

Accounts == RetriesBounded /\ AttemptsAccounted /\ DoneLogged /\ ReportLogged

LedgerInv == /\ starts \in [Tasks -> Nat]
             /\ RunsLogged
             /\ Sole => Accounts

LEMMA LedgerInitInv == WorkerInit => LedgerInv
  <1> SUFFICES ASSUME WorkerInit PROVE LedgerInv
    OBVIOUS
  <1>1. \A t \in Tasks : /\ task[t].status = "absent" /\ task[t].retries = 0
                         /\ starts[t] = 0 /\ log[t].sid = None
    BY DEF WorkerInit, QueueInit, NoTask, SchedulerInit, NoLog
  <1>2. starts \in [Tasks -> Nat]
    BY DEF WorkerInit, QueueInit
  <1> QED
    BY <1>1, <1>2, QueueBounds
       DEF LedgerInv, Accounts, RunsLogged, RetriesBounded, AttemptsAccounted, DoneLogged, ReportLogged

\* The rows of the table and of the log that a step of the only worker leaves.
KeptRow(t) == /\ task'[t].status = task[t].status /\ task'[t].retries = task[t].retries
              /\ task'[t].kind = task[t].kind
              /\ starts'[t] = starts[t] /\ log'[t] = log[t]
KeptHands == \A w \in Workers :
    worker'[w].task \in Tasks /\ worker'[w].outcome = "ok"
        => worker'[w].task = worker[w].task /\ worker'[w].outcome = worker[w].outcome

\* What a step has to show of the rows it changes.
AccountedRow(t) ==
    /\ task'[t].retries <= MaxRetries + (IF task'[t].status = "failed" THEN 1 ELSE 0)
    /\ task'[t].status = "absent" => task'[t].retries = 0
    /\ starts'[t] = task'[t].retries + (IF task'[t].status \in {"running", "done"} THEN 1 ELSE 0)
    /\ task'[t].status = "done" /\ log'[t].sid # None => log'[t].status = "done"

LEMMA AccountedStep ==
    ASSUME LedgerInv, starts' \in [Tasks -> Nat],
           \A t \in Tasks : KeptRow(t) \/ (Sole' => AccountedRow(t)),
           \A t \in Tasks : KeptRow(t) \/ (log'[t].sid # None => task'[t].kind = "run_op"
                                                               /\ task'[t].status # "absent"),
           Sole' => Sole /\ ReportLogged'
    PROVE  LedgerInv'
  <1>1. RunsLogged'
    BY DEF LedgerInv, RunsLogged, KeptRow
  <1>2. ASSUME Sole', NEW t \in Tasks PROVE AccountedRow(t)
    <2>1. CASE KeptRow(t)
      BY <1>2, <2>1 DEF LedgerInv, Accounts, RetriesBounded, AttemptsAccounted, DoneLogged, KeptRow,
                        AccountedRow
    <2>2. CASE ~KeptRow(t)
      BY <1>2, <2>2
    <2> QED BY <2>1, <2>2
  <1>3. Sole' => Accounts'
    BY <1>2 DEF Accounts, RetriesBounded, AttemptsAccounted, DoneLogged, AccountedRow
  <1> QED
    BY <1>1, <1>3 DEF LedgerInv

\* A step that changes no account.
LEMMA LedgerQuiet ==
    ASSUME LedgerInv, HandInv, starts' = starts, \A t \in Tasks : KeptRow(t), KeptHands,
           \A w \in Workers : worker'[w].boots = worker[w].boots
    PROVE  LedgerInv'
  <1>1. Sole' => Sole
    BY DEF Sole
  <1>2. Sole' => ReportLogged'
    BY <1>1 DEF LedgerInv, Accounts, ReportLogged, KeptRow, KeptHands
  <1>3. starts' \in [Tasks -> Nat]
    BY DEF LedgerInv
  <1> QED
    BY <1>1, <1>2, <1>3, AccountedStep

\* With one worker, what it has in hand is running.
LEMMA InHandRuns ==
    ASSUME HandInv, Sole, NEW w \in Workers, worker[w].task \in Tasks
    PROVE  Running(worker[w].task)
  BY HeldWhenSole DEF HandInv

LEMMA EnqueueLedger ==
    ASSUME LedgerInv, HandInv, ScheduleDomains, NEW t \in Tasks, NEW kind \in Kinds, Enqueue(t, kind),
           worker' = worker,
           \/ log' = log
           \/ kind = "run_op" /\ \E row : log' = [log EXCEPT ![t] = row] /\ row.status = "queued"
    PROVE  LedgerInv'
  <1> DEFINE row == [NoTask EXCEPT !.status = "pending", !.kind = kind]
  <1>1. row.status = "pending" /\ row.retries = 0 /\ row.kind = kind
    BY DEF NoTask
  <1>2. task' = [task EXCEPT ![t] = row] /\ task[t].status = "absent" /\ starts' = starts
    BY DEF Enqueue, NextTask
  <1> HIDE DEF row
  <1>3. /\ task'[t] = row
        /\ \A u \in Tasks : u # t => task'[u] = task[u]
    BY <1>2 DEF HandInv, QueueTypes
  <1>4. \A u \in Tasks : u # t => log'[u] = log[u]
    BY DEF ScheduleDomains
  <1>5. \A u \in Tasks : u # t => KeptRow(u)
    BY <1>2, <1>3, <1>4 DEF KeptRow
  <1>6. log[t].sid = None
    BY <1>2 DEF LedgerInv, RunsLogged
  <1>7. log'[t].sid # None => task'[t].kind = "run_op" /\ task'[t].status # "absent"
    BY <1>1, <1>3, <1>6
  <1>8. ASSUME Sole PROVE AccountedRow(t)
    <2>1. task[t].retries = 0 /\ starts[t] = 0
      BY <1>2, <1>8, QueueBounds DEF LedgerInv, Accounts, RetriesBounded, AttemptsAccounted
    <2> QED
      BY <2>1, <1>1, <1>2, <1>3, QueueBounds DEF AccountedRow
  <1>9. Sole' => Sole
    BY DEF Sole
  <1>10. ASSUME Sole' PROVE ReportLogged'
    <2>1. \A w \in Workers : worker[w].task # t
      BY <1>2, <1>9, <1>10, InHandRuns DEF Running
    <2> QED
      BY <2>1, <1>4, <1>9, <1>10 DEF LedgerInv, Accounts, ReportLogged
  <1>11. starts' \in [Tasks -> Nat]
    BY <1>2 DEF LedgerInv
  <1> QED
    BY <1>5, <1>7, <1>8, <1>9, <1>10, <1>11, AccountedStep

LEMMA EnqueueRunLedger ==
    ASSUME LedgerInv, HandInv, SkipInv, NEW t \in Tasks, NEW s, NEW at, NEW by, EnqueueRun(t, s, at, by),
           worker' = worker
    PROVE  LedgerInv'
  <1> DEFINE row == [sid |-> s, at |-> at, by |-> by, status |-> "queued"]
  <1>1. row.status = "queued"
    OBVIOUS
  <1>2. Enqueue(t, "run_op") /\ log' = [log EXCEPT ![t] = row]
    BY DEF EnqueueRun
  <1> HIDE DEF row
  <1>3. \E x : log' = [log EXCEPT ![t] = x] /\ x.status = "queued"
    BY <1>1, <1>2
  <1>4. "run_op" \in Kinds /\ ScheduleDomains
    BY WorkerKinds DEF SkipInv
  <1> QED
    BY <1>2, <1>3, <1>4, EnqueueLedger

LEMMA ClaimLedger ==
    ASSUME LedgerInv, HandInv, Placed, NEW w \in Workers, NEW t \in Tasks, ClaimOne(w, t), log' = log
    PROVE  LedgerInv'
  <1>1. /\ At(w, "claim") /\ ClaimTask(w, t)
        /\ worker' = [worker EXCEPT ![w].at = "handle", ![w].task = t]
    BY DEF ClaimOne
  <1> DEFINE row == [task[t] EXCEPT !.status = "running", !.owner = w, !.leased = TRUE]
  <1>2. row.status = "running" /\ row.retries = task[t].retries /\ row.kind = task[t].kind
    BY DEF HandInv, QueueTypes, TaskRow
  <1>3. task' = [task EXCEPT ![t] = row] /\ starts' = [starts EXCEPT ![t] = starts[t] + 1]
    BY <1>1 DEF ClaimTask
  <1>4. task[t].status = "pending"
    BY <1>1 DEF ClaimTask, Claimable
  <1> HIDE DEF row
  <1>5. /\ task'[t] = row /\ starts'[t] = starts[t] + 1
        /\ \A u \in Tasks : u # t => task'[u] = task[u] /\ starts'[u] = starts[u]
        /\ starts' \in [Tasks -> Nat]
    BY <1>3 DEF HandInv, QueueTypes, LedgerInv
  <1>6. \A u \in Tasks : u # t => KeptRow(u)
    BY <1>5 DEF KeptRow
  <1>7. log'[t].sid # None => task'[t].kind = "run_op" /\ task'[t].status # "absent"
    BY <1>2, <1>5 DEF LedgerInv, RunsLogged
  <1>8. ASSUME Sole PROVE AccountedRow(t)
    <2>1. starts[t] = task[t].retries /\ task[t].retries <= MaxRetries /\ task[t].retries \in Nat
      BY <1>4, <1>8, QueueBounds
         DEF LedgerInv, Accounts, RetriesBounded, AttemptsAccounted, HandInv, QueueTypes, TaskRow
    <2> QED
      BY <2>1, <1>2, <1>5, QueueBounds DEF AccountedRow
  <1>9. \A v \in Workers : /\ worker'[v].boots = worker[v].boots
                           /\ worker'[v].outcome = worker[v].outcome
                           /\ worker'[v].task = IF v = w THEN t ELSE worker[v].task
    BY <1>1 DEF HandInv, QueueTypes, WorkerRow
  <1>10. Sole' => Sole
    BY <1>9 DEF Sole
  <1>11. worker[w].outcome # "ok"
    BY <1>1 DEF Placed, At, Outcomes
  <1>12. ASSUME Sole' PROVE ReportLogged'
    BY <1>9, <1>10, <1>11, <1>12 DEF LedgerInv, Accounts, ReportLogged
  <1> QED
    BY <1>5, <1>6, <1>7, <1>8, <1>10, <1>12, AccountedStep

\* With one worker, the outcome of the task in hand is that of a running one.
LEMMA OutcomeLedger ==
    ASSUME LedgerInv, HandInv, NEW w \in Workers, NEW t \in Tasks, worker[w].task = t,
           NEW row, task' = [task EXCEPT ![t] = row], row.kind = task[t].kind,
           row.status # "absent",
           Sole => AccountedRow(t),
           EndTick(w), starts' = starts, log' = log
    PROVE  LedgerInv'
  <1>1. task'[t] = row /\ \A u \in Tasks : u # t => task'[u] = task[u]
    BY DEF HandInv, QueueTypes
  <1>2. \A u \in Tasks : u # t => KeptRow(u)
    BY <1>1 DEF KeptRow
  <1>3. log'[t].sid # None => task'[t].kind = "run_op" /\ task'[t].status # "absent"
    BY <1>1 DEF LedgerInv, RunsLogged
  <1>4. /\ worker'[w].task = None
        /\ \A v \in Workers : v # w => worker'[v] = worker[v]
        /\ worker'[w].boots = worker[w].boots
    BY EndTickRow
  <1>5. Sole' => Sole
    BY <1>4 DEF Sole
  <1>6. ASSUME Sole' PROVE ReportLogged'
    BY <1>4, <1>5, <1>6, NoneIsNoTask DEF LedgerInv, Accounts, ReportLogged
  <1>7. starts' \in [Tasks -> Nat]
    BY DEF LedgerInv
  <1> QED
    BY <1>2, <1>3, <1>5, <1>6, <1>7, AccountedStep

LEMMA CompleteLedger ==
    ASSUME LedgerInv, HandInv, NEW w \in Workers, Complete(w)
    PROVE  LedgerInv'
  <1>1. /\ At(w, "report") /\ worker[w].outcome = "ok" /\ CompleteTask(worker[w].task)
        /\ EndTick(w) /\ log' = log
    BY DEF Complete, scheduleVars
  <1>2. PICK t \in Tasks : worker[w].task = t
    BY <1>1 DEF HandInv, HandPlaces, At
  <1> DEFINE row == [task[t] EXCEPT !.status = "done"]
  <1>3. row.status = "done" /\ row.retries = task[t].retries /\ row.kind = task[t].kind
    BY DEF HandInv, QueueTypes, TaskRow
  <1>4. task' = [task EXCEPT ![t] = row] /\ starts' = starts
    BY <1>1, <1>2 DEF CompleteTask
  <1> HIDE DEF row
  <1>5. task'[t] = row
    BY <1>4 DEF HandInv, QueueTypes
  <1>6. ASSUME Sole PROVE AccountedRow(t)
    <2>1. task[t].status = "running"
      BY <1>2, <1>6, InHandRuns DEF Running
    <2>2. starts[t] = task[t].retries + 1 /\ task[t].retries <= MaxRetries /\ task[t].retries \in Nat
      BY <2>1, <1>6, QueueBounds
         DEF LedgerInv, Accounts, RetriesBounded, AttemptsAccounted, HandInv, QueueTypes, TaskRow
    <2>3. log[t].sid # None => log[t].status = "done"
      BY <1>1, <1>2, <1>6 DEF LedgerInv, Accounts, ReportLogged
    <2> QED
      BY <2>2, <2>3, <1>1, <1>3, <1>4, <1>5, QueueBounds DEF AccountedRow
  <1> QED
    BY <1>1, <1>2, <1>3, <1>4, <1>6, OutcomeLedger

\* A failed attempt.
LEMMA AttemptedFields ==
    ASSUME NEW row \in TaskRow
    PROVE  /\ Attempted(row).kind = row.kind /\ Attempted(row).retries = row.retries + 1
           /\ Attempted(row).status = IF row.retries + 1 <= MaxRetries THEN "pending" ELSE "failed"
  <1> DEFINE n == row.retries + 1
             again == [row EXCEPT !.status = "pending", !.retries = n, !.owner = None, !.leased = FALSE]
             last == [row EXCEPT !.status = "failed", !.retries = n]
  <1> HIDE DEF n
  <1>1. /\ again.kind = row.kind /\ again.retries = n /\ again.status = "pending"
        /\ last.kind = row.kind /\ last.retries = n /\ last.status = "failed"
    BY DEF TaskRow
  <1>2. Attempted(row) = IF n <= MaxRetries THEN again ELSE last
    BY DEF Attempted, n
  <1> HIDE DEF again, last
  <1> QED
    BY <1>1, <1>2 DEF n

\* An attempt of a running task that fails is accounted for.
LEMMA AttemptAccounted ==
    ASSUME LedgerInv, HandInv, Sole, NEW t \in Tasks, Running(t),
           task'[t] = Attempted(task[t]), starts'[t] = starts[t]
    PROVE  AccountedRow(t)
  <1>1. /\ task'[t].kind = task[t].kind /\ task'[t].retries = task[t].retries + 1
        /\ task'[t].status = IF task[t].retries + 1 <= MaxRetries THEN "pending" ELSE "failed"
    BY AttemptedFields DEF HandInv, QueueTypes
  <1>2. starts[t] = task[t].retries + 1 /\ task[t].retries <= MaxRetries /\ task[t].retries \in Nat
    BY QueueBounds
       DEF LedgerInv, Accounts, RetriesBounded, AttemptsAccounted, HandInv, QueueTypes, TaskRow, Running
  <1> QED
    BY <1>1, <1>2, QueueBounds DEF AccountedRow

LEMMA FailLedger ==
    ASSUME LedgerInv, HandInv, NEW w \in Workers, Fail(w)
    PROVE  LedgerInv'
  <1>1. At(w, "report") /\ FailTask(worker[w].task) /\ EndTick(w) /\ log' = log
    BY DEF Fail, scheduleVars
  <1>2. PICK t \in Tasks : worker[w].task = t
    BY <1>1 DEF HandInv, HandPlaces, At
  <1> DEFINE row == Attempted(task[t])
  <1>3. row.kind = task[t].kind /\ row.status # "absent"
    BY AttemptedFields DEF HandInv, QueueTypes
  <1>4. task' = [task EXCEPT ![t] = row] /\ starts' = starts
    BY <1>1, <1>2 DEF FailTask
  <1>5. task'[t] = row
    BY <1>4 DEF HandInv, QueueTypes
  <1>6. ASSUME Sole PROVE AccountedRow(t)
    BY <1>2, <1>4, <1>5, <1>6, InHandRuns, AttemptAccounted
  <1> HIDE DEF row
  <1> QED
    BY <1>1, <1>2, <1>3, <1>4, <1>6, OutcomeLedger

LEMMA BootLedger ==
    ASSUME LedgerInv, HandInv, Placed, NEW w \in Workers, Boot(w)
    PROVE  LedgerInv'
  <1>1. /\ At(w, "down") /\ RecoverOrphans /\ starts' = starts /\ log' = log
        /\ worker' = [worker EXCEPT ![w].at = "sweep", ![w].boots = @ + 1]
    BY DEF Boot, RecoverOrphans, scheduleVars
  <1>2. /\ worker'[w].task = worker[w].task /\ worker'[w].outcome = worker[w].outcome
        /\ \A v \in Workers : /\ worker'[v].boots >= worker[v].boots /\ worker'[v].boots \in Nat
                              /\ v # w => worker'[v] = worker[v]
    BY <1>1 DEF HandInv, QueueTypes, WorkerRow
  <1>3. Sole' => Sole
    BY <1>2, SoleBefore
  <1>4. \A t \in Tasks : task'[t] = IF Running(t) THEN Attempted(task[t]) ELSE task[t]
    BY <1>1 DEF RecoverOrphans, Running
  <1>5. ASSUME NEW t \in Tasks PROVE KeptRow(t) \/ (Sole' => AccountedRow(t))
    <2>1. CASE Running(t)
      BY <2>1, <1>1, <1>3, <1>4, AttemptAccounted
    <2>2. CASE ~Running(t)
      BY <2>2, <1>1, <1>4 DEF KeptRow
    <2> QED BY <2>1, <2>2
  <1>6. ASSUME NEW t \in Tasks, ~KeptRow(t), log'[t].sid # None
        PROVE  task'[t].kind = "run_op" /\ task'[t].status # "absent"
    <2>1. CASE Running(t)
      <3>1. task'[t].kind = task[t].kind /\ task'[t].status # "absent"
        BY <2>1, <1>4, AttemptedFields DEF HandInv, QueueTypes
      <3> QED BY <3>1, <1>1, <1>6 DEF LedgerInv, RunsLogged
    <2>2. CASE ~Running(t)
      BY <2>2, <1>1, <1>4, <1>6 DEF KeptRow
    <2> QED BY <2>1, <2>2
  <1>7. ASSUME Sole' PROVE ReportLogged'
    <2>1. \A v \in Workers : worker'[v].task = worker[v].task /\ worker'[v].outcome = worker[v].outcome
      BY <1>2
    <2>2. ReportLogged
      BY <1>3, <1>7 DEF LedgerInv, Accounts
    <2> QED BY <2>1, <2>2, <1>1 DEF ReportLogged
  <1>8. starts' \in [Tasks -> Nat]
    BY <1>1 DEF LedgerInv
  <1> QED
    BY <1>3, <1>5, <1>6, <1>7, <1>8, AccountedStep

\* When the only worker sweeps, nothing runs: no lease of it has expired.
LEMMA SweepLedger ==
    ASSUME LedgerInv, HandInv, NEW w \in Workers, SweepStep(w)
    PROVE  LedgerInv'
  <1>1. At(w, "sweep") /\ SweepLeases /\ Go(w, "schedules") /\ log' = log
    BY DEF SweepStep, scheduleVars
  <1>2. starts' = starts
    BY <1>1 DEF SweepLeases
  <1>3. worker[w].task \notin Tasks /\ ~At(w, "down")
    BY <1>1 DEF HandInv, HandPlaces, At
  <1>4. \A v \in Workers : /\ worker'[v].task = worker[v].task /\ worker'[v].boots = worker[v].boots
                           /\ worker'[v].outcome = worker[v].outcome
    BY <1>1 DEF Go, HandInv, QueueTypes, WorkerRow
  <1>5. Sole' => Sole
    BY <1>4 DEF Sole
  <1>6. ASSUME NEW t \in Tasks
        PROVE  KeptRow(t) \/ (~Sole' /\ task'[t].kind = task[t].kind /\ task'[t].status # "absent")
    <2>1. CASE Running(t) /\ ~task[t].leased
      <3>1. ~Sole'
        BY <2>1, <1>3, <1>5, NothingRuns
      <3>2. task'[t] = [task[t] EXCEPT !.status = "pending", !.owner = None]
        BY <1>1, <2>1 DEF SweepLeases, Running
      <3>3. task'[t].kind = task[t].kind /\ task'[t].status = "pending"
        BY <3>2 DEF HandInv, QueueTypes, TaskRow
      <3> QED BY <3>1, <3>3
    <2>2. CASE ~(Running(t) /\ ~task[t].leased)
      <3>1. task'[t] = task[t]
        BY <1>1, <2>2 DEF SweepLeases, Running
      <3> QED BY <3>1, <1>1, <1>2 DEF KeptRow
    <2> QED BY <2>1, <2>2
  <1>7. ASSUME NEW t \in Tasks, ~KeptRow(t), log'[t].sid # None
        PROVE  task'[t].kind = "run_op" /\ task'[t].status # "absent"
    BY <1>1, <1>6, <1>7 DEF LedgerInv, RunsLogged
  <1>8. ASSUME Sole' PROVE ReportLogged'
    BY <1>1, <1>4, <1>5, <1>8 DEF LedgerInv, Accounts, ReportLogged
  <1>9. starts' \in [Tasks -> Nat]
    BY <1>2 DEF LedgerInv
  <1> QED
    BY <1>5, <1>6, <1>7, <1>8, <1>9, AccountedStep

\* run_op writes the log before it reports.
LEMMA RunOpLedger ==
    ASSUME LedgerInv, HandInv, SkipInv, NEW w \in Workers, NEW o \in Outcomes, RunOp(w, o)
    PROVE  LedgerInv'
  <1>1. /\ At(w, "handle") /\ Report(w, o) /\ task' = task /\ starts' = starts
        /\ FinalizeRun(worker[w].task, IF o = "ok" THEN "done" ELSE "failed")
        /\ task[worker[w].task].kind = "run_op"
    BY DEF RunOp, queueVars
  <1>2. PICK t \in Tasks : worker[w].task = t
    BY <1>1 DEF HandInv, HandPlaces, At
  <1> DEFINE st == IF o = "ok" THEN "done" ELSE "failed"
             row == [log[t] EXCEPT !.status = st]
  <1>3. log' = [log EXCEPT ![t] = row]
    BY <1>1, <1>2 DEF FinalizeRun
  <1>12. row.sid = log[t].sid /\ row.status = st
    BY DEF SkipInv, LogOK, LogRecord
  <1> HIDE DEF row
  <1>4. log'[t] = row /\ \A u \in Tasks : u # t => log'[u] = log[u]
    BY <1>3 DEF SkipInv, ScheduleDomains
  <1>5. \A u \in Tasks : u # t => KeptRow(u)
    BY <1>1, <1>4 DEF KeptRow
  <1>6. /\ \A v \in Workers : worker'[v].boots = worker[v].boots /\ worker'[v].task = worker[v].task
        /\ \A v \in Workers : v # w => worker'[v] = worker[v]
        /\ worker'[w].outcome = o
    BY <1>1 DEF Report, HandInv, QueueTypes, WorkerRow
  <1>7. Sole' => Sole
    BY <1>6 DEF Sole
  <1>8. ASSUME Sole' PROVE AccountedRow(t)
    <2>1. task[t].status = "running"
      BY <1>2, <1>7, <1>8, InHandRuns DEF Running
    <2> QED
      BY <2>1, <1>1, <1>7, <1>8
         DEF AccountedRow, LedgerInv, Accounts, RetriesBounded, AttemptsAccounted
  <1>9. log'[t].sid # None => task'[t].kind = "run_op" /\ task'[t].status # "absent"
    BY <1>1, <1>4, <1>12 DEF LedgerInv, RunsLogged
  <1>10. ASSUME Sole' PROVE ReportLogged'
    <2> SUFFICES ASSUME NEW v \in Workers, NEW u \in Tasks, worker'[v].task = u,
                        worker'[v].outcome = "ok", log'[u].sid # None
                 PROVE  log'[u].status = "done"
      BY DEF ReportLogged
    <2>1. CASE v = w
      <3>1. u = t /\ o = "ok"
        BY <2>1, <1>2, <1>6
      <3>2. log'[t].status = "done"
        BY <3>1, <1>4, <1>12
      <3> QED BY <3>1, <3>2
    <2>2. CASE v # w
      <3>1. u # t
        BY <2>2, <1>2, <1>6, <1>7, <1>10, HeldWhenSole DEF HandInv
      <3> QED BY <3>1, <2>2, <1>4, <1>6, <1>7, <1>10 DEF LedgerInv, Accounts, ReportLogged
    <2> QED BY <2>1, <2>2
  <1>11. starts' \in [Tasks -> Nat]
    BY <1>1 DEF LedgerInv
  <1> QED
    BY <1>5, <1>7, <1>8, <1>9, <1>10, <1>11, AccountedStep

\* A handler of an add-on has no row in the run log.
LEMMA HandleLedger ==
    ASSUME LedgerInv, HandInv, NEW w \in Workers, NEW o \in Outcomes, Handle(w, o)
    PROVE  LedgerInv'
  <1>1. /\ At(w, "handle") /\ Report(w, o) /\ task' = task /\ starts' = starts /\ log' = log
        /\ o = "ok" => task[worker[w].task].kind \in Jobs
    BY DEF Handle, queueVars, scheduleVars
  <1>2. PICK t \in Tasks : worker[w].task = t
    BY <1>1 DEF HandInv, HandPlaces, At
  <1>3. /\ \A v \in Workers : worker'[v].boots = worker[v].boots /\ worker'[v].task = worker[v].task
        /\ \A v \in Workers : v # w => worker'[v] = worker[v]
        /\ worker'[w].outcome = o
    BY <1>1 DEF Report, HandInv, QueueTypes, WorkerRow
  <1>4. \A u \in Tasks : KeptRow(u)
    BY <1>1 DEF KeptRow
  <1>5. o = "ok" => log[t].sid = None
    BY <1>1, <1>2, WorkerKinds DEF LedgerInv, RunsLogged
  <1>6. Sole' => Sole
    BY <1>3 DEF Sole
  <1>7. ASSUME Sole' PROVE ReportLogged'
    BY <1>1, <1>2, <1>3, <1>5, <1>6, <1>7 DEF LedgerInv, Accounts, ReportLogged
  <1>8. starts' \in [Tasks -> Nat]
    BY <1>1 DEF LedgerInv
  <1> QED
    BY <1>4, <1>6, <1>7, <1>8, AccountedStep

\* The steps that touch neither the table nor the log.
LEMMA SameLedger ==
    ASSUME LedgerInv, HandInv, UNCHANGED <<task, starts, log>>, KeptHands,
           \A w \in Workers : worker'[w].boots = worker[w].boots
    PROVE  LedgerInv'
  BY LedgerQuiet DEF KeptRow

LEMMA GoLedger ==
    ASSUME LedgerInv, HandInv, NEW w \in Workers, NEW place, Go(w, place),
           UNCHANGED <<task, starts, log>>
    PROVE  LedgerInv'
  <1>1. \A v \in Workers : /\ worker'[v].task = worker[v].task /\ worker'[v].boots = worker[v].boots
                           /\ worker'[v].outcome = worker[v].outcome
    BY DEF Go, HandInv, QueueTypes, WorkerRow
  <1> QED
    BY <1>1, SameLedger DEF KeptHands

LEMMA TickLedger ==
    ASSUME LedgerInv, HandInv, Placed, SkipInv, NEW w \in Workers, TickStep(w)
    PROVE  LedgerInv'
  <1>1. CASE SweepStep(w)
    BY <1>1, SweepLedger
  <1>2. CASE SchedulesBegin(w) \/ SchedulesEnd(w) \/ EventsBegin(w) \/ EventsEnd(w) \/ Eligible(w)
    <2>1. \E place : Go(w, place)
      BY <1>2 DEF SchedulesBegin, SchedulesEnd, EventsBegin, EventsEnd, Eligible
    <2>2. UNCHANGED <<task, starts, log>>
      BY <1>2 DEF SchedulesBegin, PassBegin, SchedulesEnd, PassEnd, EventsBegin, EventsEnd, Eligible,
                  queueVars, scheduleVars
    <2> QED BY <2>1, <2>2, GoLedger
  <1>3. CASE PassQuiet(w) \/ Dispatch(w)
    <2>1. UNCHANGED <<task, starts, log, worker>>
      BY <1>3 DEF PassQuiet, PassRow, PassFull, PassAdvance, Dispatch, queueVars, scheduleVars
    <2> QED BY <2>1, SameLedger DEF KeptHands
  <1>4. CASE \E t \in Tasks : PassEnqueue(w, t)
    <2>1. PICK t \in Tasks : PassEnqueue(w, t)
      BY <1>4
    <2>2. EnqueueRun(t, pass[w].row.sid, pass[w].row.at, "cron") /\ worker' = worker
      BY <2>1 DEF PassEnqueue, PassFire
    <2> QED BY <2>2, EnqueueRunLedger
  <1>5. CASE ClaimNone(w)
    <2>1. EndTick(w) /\ UNCHANGED <<task, starts, log>>
      BY <1>5 DEF ClaimNone, queueVars, scheduleVars
    <2>2. /\ worker'[w].task = None /\ worker'[w].boots = worker[w].boots
          /\ \A v \in Workers : v # w => worker'[v] = worker[v]
      BY <2>1, EndTickRow
    <2> QED BY <2>1, <2>2, SameLedger, NoneIsNoTask DEF KeptHands
  <1>6. CASE \E t \in Tasks : ClaimOne(w, t)
    BY <1>6, ClaimLedger DEF ClaimOne, scheduleVars
  <1>7. CASE \E o \in Outcomes : Handle(w, o) \/ RunOp(w, o)
    BY <1>7, HandleLedger, RunOpLedger
  <1>8. CASE Complete(w) \/ Fail(w)
    BY <1>8, CompleteLedger, FailLedger
  <1> QED
    BY <1>1, <1>2, <1>3, <1>4, <1>5, <1>6, <1>7, <1>8 DEF TickStep

LEMMA LedgerStepInv == LedgerInv /\ HandInv /\ Placed /\ SkipInv /\ [Next]_vars => LedgerInv'
  <1> SUFFICES ASSUME LedgerInv, HandInv, Placed, SkipInv, [Next]_vars PROVE LedgerInv'
    OBVIOUS
  <1>1. CASE UNCHANGED <<task, starts, log, worker>>
    BY <1>1, SameLedger DEF KeptHands
  <1>2. CASE \E w \in Workers : TickStep(w)
    BY <1>2, TickLedger
  <1>3. CASE \E w \in Workers : Boot(w)
    BY <1>3, BootLedger
  <1>4. ASSUME NEW w \in Workers, Crash(w) PROVE LedgerInv'
    <2>1. worker' = [worker EXCEPT ![w] = [Down EXCEPT !.boots = worker[w].boots]]
      BY <1>4 DEF Crash
    <2>2. /\ worker'[w].task = None /\ worker'[w].boots = worker[w].boots
          /\ \A v \in Workers : v # w => worker'[v] = worker[v]
      BY <2>1 DEF HandInv, QueueTypes, WorkerRow, Down
    <2>3. UNCHANGED <<task, starts, log>>
      BY <1>4 DEF Crash, queueVars
    <2> QED BY <2>2, <2>3, SameLedger, NoneIsNoTask DEF KeptHands
  <1>5. ASSUME NEW w \in Workers, StoreFault(w) PROVE LedgerInv'
    <2>1. UNCHANGED <<task, starts, log>>
      BY <1>5 DEF StoreFault, queueVars, scheduleVars
    <2>2. CASE worker' = worker
      BY <2>1, <2>2, SameLedger DEF KeptHands
    <2>3. CASE Report(w, "error")
      <3>1. /\ \A v \in Workers : worker'[v].boots = worker[v].boots
            /\ \A v \in Workers : v # w => worker'[v] = worker[v]
            /\ worker'[w].outcome = "error"
        BY <2>3 DEF Report, HandInv, QueueTypes, WorkerRow
      <3> QED BY <2>1, <3>1, SameLedger DEF KeptHands
    <2> QED BY <1>5, <2>2, <2>3 DEF StoreFault
  <1>6. CASE RunRequest
    <2>1. PICK s \in Schedules, t \in Tasks : RunNow(s, t)
      BY <1>6 DEF RunRequest
    <2>2. EnqueueRun(t, s, clock, "request") /\ worker' = worker
      BY <1>6, <2>1 DEF RunRequest, RunNow
    <2> QED BY <2>2, EnqueueRunLedger
  <1>7. CASE SubmitRequest
    <2>1. PICK t \in Tasks, j \in Jobs : Enqueue(t, j)
      BY <1>7 DEF SubmitRequest
    <2>2. log' = log /\ worker' = worker /\ ScheduleDomains
      BY <1>7 DEF SubmitRequest, scheduleVars, SkipInv
    <2> QED BY <2>1, <2>2, EnqueueLedger, WorkerKinds
  <1>8. CASE LeaseTime
    <2>1. PICK t \in Tasks : LeaseExpires(t)
      BY <1>8 DEF LeaseTime
    <2>2. task' = [task EXCEPT ![t].leased = FALSE] /\ starts' = starts /\ log' = log /\ worker' = worker
      BY <1>8, <2>1 DEF LeaseTime, LeaseExpires, scheduleVars
    <2>3. \A u \in Tasks : KeptRow(u)
      BY <2>2 DEF KeptRow, HandInv, QueueTypes, TaskRow
    <2> QED BY <2>2, <2>3, LedgerQuiet DEF KeptHands
  <1>9. CASE \/ ScheduleRequest \/ UpdateRequest \/ SkipRequest \/ EmitRequest \/ Clock \/ RetryTime
    <2>1. UNCHANGED <<task, starts, log, worker>>
      BY <1>9 DEF ScheduleRequest, CreateSchedule, SetEnabled, DeleteSchedule, UpdateRequest, UpdateCompute,
                  UpdateWrite, SkipRequest, SkipCheck, SkipWrite, Unskip, EmitRequest, Clock, Tick,
                  RetryTime, ComesDue, queueVars, scheduleVars
    <2> QED BY <2>1, <1>1
  <1> QED
    BY <1>1, <1>2, <1>3, <1>4, <1>5, <1>6, <1>7, <1>8, <1>9 DEF Next, vars, queueVars, scheduleVars

LEMMA SkipAlways == Spec => []SkipInv
  <1>1. WorkerInit => SkipInv
    BY SkipInitInv
  <1>2. SkipInv /\ HandInv /\ [Next]_vars => SkipInv'
    BY SkipStepInv
  <1> QED
    BY <1>1, <1>2, HandAlways, PTL DEF Spec

LEMMA PlacedAlways == Spec => []Placed
  <1>1. WorkerInit => Placed
    BY PlacedInitInv
  <1>2. Placed /\ HandInv /\ OutboxInv /\ SkipInv /\ [Next]_vars => Placed'
    BY PlacedStepInv
  <1> QED
    BY <1>1, <1>2, HandAlways, OutboxAlways, SkipAlways, PTL DEF Spec

LEMMA LedgerAlways == Spec => []LedgerInv
  <1>1. WorkerInit => LedgerInv
    BY LedgerInitInv
  <1>2. LedgerInv /\ HandInv /\ Placed /\ SkipInv /\ [Next]_vars => LedgerInv'
    BY LedgerStepInv
  <1> QED
    BY <1>1, <1>2, HandAlways, PlacedAlways, SkipAlways, PTL DEF Spec

-----------------------------------------------------------------------------

\* Every execution that did not end well is counted as a retry, whether its
\* handler raised or the process died, so that a task that kills its worker is
\* given up (fail_task, recover_orphan_tasks): as long as one process works on
\* the queue.
THEOREM AttemptsCounted == Spec => [](Sole => AttemptsAccounted)
  <1>1. LedgerInv => (Sole => AttemptsAccounted)
    BY DEF LedgerInv, Accounts
  <1> QED
    BY <1>1, LedgerAlways, PTL

\* The run log says "done" of every run whose task is done: run_op closes the
\* row before its task is completed (run_op, complete_task), as long as one
\* process works on the queue.
THEOREM RunLogAgrees == Spec => [](Sole => DoneLogged)
  <1>1. LedgerInv => (Sole => DoneLogged)
    BY DEF LedgerInv, Accounts
  <1> QED
    BY <1>1, LedgerAlways, PTL
-----------------------------------------------------------------------------
(* The types that no argument above needed.                                *)

ScheduleRow == [life : {"absent", "live", "deleted"}, enabled : BOOLEAN,
                cron : Crons \cup {None}, next : Times \cup {Never}]

ScheduleTypes ==
    /\ clock \in Times
    /\ sched \in [Schedules -> ScheduleRow]
    /\ \A q \in Requests :
          /\ req[q].op = "update" => /\ req[q].at \in Times \cup {Never}
                                     /\ req[q].enabled \in BOOLEAN \cup {None}
          /\ req[q].op = "skip" => req[q].at \in Times
    /\ \A k \in skips : k.sid \in Schedules /\ k.at \in Times

DeliveriesBounded == \A e \in Events : event[e].retries \in 0 .. MaxDeliveries

LineTyped == line \in Seq(Tasks)

Typed == ScheduleTypes /\ DeliveriesBounded /\ LineTyped

LEMMA TypedInit == WorkerInit => Typed
  <1> SUFFICES ASSUME WorkerInit PROVE Typed
    OBVIOUS
  <1>1. NoSchedule \in ScheduleRow
    BY TimeAssumption DEF NoSchedule, ScheduleRow, Times
  <1>2. ScheduleTypes
    BY <1>1, TimeAssumption, RequestNone
       DEF WorkerInit, SchedulerInit, ScheduleTypes, Times, NoRequest
  <1>3. DeliveriesBounded
    BY OutboxBounds DEF WorkerInit, OutboxInit, NoEvent, DeliveriesBounded
  <1>4. LineTyped
    BY DEF WorkerInit, QueueInit, LineTyped
  <1> QED
    BY <1>2, <1>3, <1>4 DEF Typed

\* A task that leaves the line.
LEMMA WithoutTyped ==
    ASSUME LineTyped, NEW t PROVE Without(t) \in Seq(Tasks)
  <1> DEFINE I == {i \in 1 .. Len(line) : line[i] = t}
             m == Seqs!Min(I)
  <1>0. line \in Seq(Tasks)
    BY DEF LineTyped
  <1>1. CASE I = {}
    <2>1. ~\E i \in 1 .. Len(line) : line[i] = t
      BY <1>1
    <2>2. Without(t) = line
      BY <2>1 DEF Without, Seqs!RemoveFirst
    <2> QED BY <1>0, <2>2
  <1>2. CASE I # {}
    <2>1. Without(t) = SubSeq(line, 1, m - 1) \o SubSeq(line, m + 1, Len(line))
      BY <1>2 DEF Without, Seqs!RemoveFirst, Seqs!SelectInSeq, Seqs!RemoveAt
    <2>2. I \in SUBSET Nat
      BY <1>0
    <2>3. \E x \in I : \A y \in I : x <= y
      BY <1>2, <2>2, LeastExists
    <2>4. m \in I
      BY <2>3 DEF Seqs!Min
    <2>5. m \in 1 .. Len(line) /\ Len(line) \in Nat
      BY <1>0, <2>4
    <2> HIDE DEF m, I
    <2>6. SubSeq(line, 1, m - 1) \in Seq(Tasks) /\ SubSeq(line, m + 1, Len(line)) \in Seq(Tasks)
      BY <1>0, <2>5
    <2> QED BY <2>1, <2>6
  <1> QED
    BY <1>1, <1>2

LEMMA LineStep == LineTyped /\ HandInv /\ [Next]_vars => LineTyped'
  <1> SUFFICES ASSUME LineTyped, HandInv, [Next]_vars PROVE LineTyped'
    OBVIOUS
  <1>1. CASE line' = line
    BY <1>1 DEF LineTyped
  <1>2. ASSUME NEW t \in Tasks, line' = Append(line, t) PROVE LineTyped'
    BY <1>2 DEF LineTyped
  <1>3. ASSUME NEW w \in Workers, Fail(w) PROVE LineTyped'
    <2>1. line' = line \/ line' = Without(worker[w].task)
      BY <1>3 DEF Fail, FailTask
    <2> QED BY <2>1, <1>1, WithoutTyped DEF LineTyped
  <1>4. ASSUME NEW w \in Workers, TickStep(w), ~Fail(w) PROVE LineTyped'
    <2>1. CASE \E t \in Tasks : PassEnqueue(w, t)
      BY <2>1, <1>2 DEF PassEnqueue, PassFire, EnqueueRun, Enqueue
    <2>2. CASE \E t \in Tasks : ClaimOne(w, t)
      BY <2>2, <1>1 DEF ClaimOne, ClaimTask
    <2>3. CASE \E o \in Outcomes : Handle(w, o) \/ RunOp(w, o)
      BY <2>3, <1>1 DEF Handle, RunOp, queueVars
    <2>4. CASE \/ SweepStep(w) \/ SchedulesBegin(w) \/ PassQuiet(w) \/ SchedulesEnd(w)
               \/ EventsBegin(w) \/ Dispatch(w) \/ EventsEnd(w)
               \/ Eligible(w) \/ ClaimNone(w) \/ Complete(w)
      BY <2>4, <1>1 DEF SweepStep, SweepLeases, SchedulesBegin, PassQuiet, SchedulesEnd, EventsBegin,
                        Dispatch, EventsEnd, Eligible, ClaimNone, Complete, CompleteTask, queueVars
    <2> QED BY <1>4, <2>1, <2>2, <2>3, <2>4 DEF TickStep
  <1>5. CASE \E w \in Workers : Boot(w) \/ Crash(w) \/ StoreFault(w)
    BY <1>5, <1>1 DEF Boot, RecoverOrphans, Crash, StoreFault, queueVars
  <1>6. CASE RunRequest
    BY <1>6, <1>2 DEF RunRequest, RunNow, EnqueueRun, Enqueue
  <1>7. CASE SubmitRequest
    BY <1>7, <1>2 DEF SubmitRequest, Enqueue
  <1>8. CASE RetryTime
    BY <1>8, <1>1, <1>2 DEF RetryTime, ComesDue, queueVars
  <1>9. CASE LeaseTime
    BY <1>9, <1>1 DEF LeaseTime, LeaseExpires
  <1>10. CASE ScheduleRequest \/ UpdateRequest \/ SkipRequest \/ EmitRequest \/ Clock
    BY <1>10, <1>1 DEF ScheduleRequest, UpdateRequest, SkipRequest, EmitRequest, Clock, queueVars
  <1> QED
    BY <1>1, <1>3, <1>4, <1>5, <1>6, <1>7, <1>8, <1>9, <1>10 DEF Next, vars, queueVars

LEMMA OutcomeRetries ==
    ASSUME NEW row \in EventRow, row.retries \in 0 .. MaxDeliveries, NEW failed \in BOOLEAN
    PROVE  Outcome(row, failed).retries \in 0 .. MaxDeliveries
  <1> DEFINE n == row.retries + 1
  <1>1. Acked(row).retries = row.retries /\ DeadLettered(row).retries = row.retries
    BY DEF Acked, DeadLettered, EventRow
  <1>2. Nacked(row).retries = n
    <2> HIDE DEF n
    <2>1. [row EXCEPT !.retries = n, !.due = FALSE, !.claimed = FALSE].retries = n
      BY DEF EventRow
    <2> QED BY <2>1 DEF Nacked, n
  <1>3. n \in Nat /\ MaxDeliveries \in Nat
    BY OutboxBounds
  <1>4. CASE ~failed
    <2>1. Outcome(row, failed) = Acked(row)
      BY <1>4 DEF Outcome
    <2> QED BY <1>1, <2>1
  <1>5. CASE failed /\ n > MaxDeliveries
    <2>1. Outcome(row, failed) = DeadLettered(row)
      BY <1>3, <1>5 DEF Outcome
    <2> QED BY <1>1, <2>1
  <1>6. CASE failed /\ n <= MaxDeliveries
    <2>1. Outcome(row, failed) = Nacked(row)
      BY <1>3, <1>6 DEF Outcome
    <2>2. n \in 0 .. MaxDeliveries
      BY <1>3, <1>6
    <2> HIDE DEF n
    <2> QED BY <1>2, <2>1, <2>2
  <1> QED
    BY <1>3, <1>4, <1>5, <1>6

\* A delivery is counted only up to the limit.
LEMMA DeliveriesStep == DeliveriesBounded /\ OutboxInv /\ OutboxStep => DeliveriesBounded'
  <1> SUFFICES ASSUME DeliveriesBounded, OutboxInv, OutboxStep PROVE DeliveriesBounded'
    OBVIOUS
  <1>1. CASE event' = event
    BY <1>1 DEF DeliveriesBounded
  <1>2. ASSUME NEW e \in Events, NEW x \in Entities, Emit(e, x) PROVE DeliveriesBounded'
    <2> DEFINE row == [NoEvent EXCEPT !.status = "open", !.entity = x]
    <2>1. row.retries = 0
      BY DEF NoEvent
    <2>2. event' = [event EXCEPT ![e] = row]
      BY <1>2 DEF Emit
    <2> HIDE DEF row
    <2> QED BY <2>1, <2>2, OutboxBounds DEF DeliveriesBounded, OutboxInv, OutboxTypes
  <1>3. ASSUME NEW w \in Dispatchers, ClaimEvents(w) PROVE DeliveriesBounded'
    <2>1. \A e \in Events : event'[e] = event[e] \/ event'[e] = [event[e] EXCEPT !.claimed = TRUE]
      BY <1>3 DEF ClaimEvents
    <2>2. ASSUME NEW e \in Events PROVE event'[e].retries = event[e].retries
      <3>1. event[e] \in EventRow
        BY DEF OutboxInv, OutboxTypes
      <3>2. CASE event'[e] = [event[e] EXCEPT !.claimed = TRUE]
        BY <3>1, <3>2 DEF EventRow
      <3> QED BY <2>1, <3>2
    <2> QED BY <2>2 DEF DeliveriesBounded
  <1>4. ASSUME NEW w \in Dispatchers, Settle(w) PROVE DeliveriesBounded'
    <2>1. drain[w].batch # <<>>
      BY <1>4 DEF Settle
    <2>2. PICK e \in Events : e = InHand(w)
      BY <2>1, HeadInHand
    <2> DEFINE row == Outcome(event[e], drain[w].failed)
    <2>3. event' = [event EXCEPT ![e] = row]
      BY <1>4, <2>2 DEF Settle
    <2>4. event[e] \in EventRow /\ drain[w].failed \in BOOLEAN /\ event[e].retries \in 0 .. MaxDeliveries
      BY DEF OutboxInv, OutboxTypes, DrainRow, DeliveriesBounded
    <2>5. row.retries \in 0 .. MaxDeliveries
      BY <2>4, OutcomeRetries
    <2> HIDE DEF row
    <2> QED BY <2>3, <2>5 DEF DeliveriesBounded, OutboxInv, OutboxTypes
  <1>5. ASSUME NEW e \in Events, RetryDue(e) PROVE DeliveriesBounded'
    BY <1>5 DEF RetryDue, DeliveriesBounded, OutboxInv, OutboxTypes, EventRow
  <1>6. CASE \E w \in Dispatchers : \/ SkipHandled(w) \/ CallReturns(w) \/ CallRaises(w)
                                    \/ MarkProcessed(w) \/ MarkRaises(w) \/ Forget(w)
    BY <1>6, <1>1 DEF SkipHandled, CallReturns, CallRaises, MarkProcessed, MarkRaises, Forget
  <1> QED
    BY <1>1, <1>2, <1>3, <1>4, <1>5, <1>6 DEF OutboxStep, outboxVars

LEMMA ScheduleStep ==
    ASSUME ScheduleTypes, SkipInv, [Next]_vars
    PROVE  ScheduleTypes'
  <1>1. ASSUME UNCHANGED <<clock, sched, skips, req>> PROVE ScheduleTypes'
    BY <1>1 DEF ScheduleTypes
  <1>2. ASSUME NEW s \in Schedules, NEW row \in ScheduleRow, sched' = [sched EXCEPT ![s] = row],
               UNCHANGED <<clock, skips, req>>
        PROVE  ScheduleTypes'
    BY <1>2 DEF ScheduleTypes
  <1>3. \A c \in Crons : \A now : NextRun(c, now) \in Times \cup {Never}
    <2> TAKE c \in Crons
    <2> TAKE now
    <2>1. NextRun(c, now) \in {i \in c : i > now} \cup {Never}
      BY NextRunIn
    <2>2. c \subseteq Times
      BY CronAssumption
    <2> QED BY <2>1, <2>2
  <1>4. ASSUME NEW s \in Schedules, NEW c \in Crons, CreateSchedule(s, c) PROVE ScheduleTypes'
    <2> DEFINE row == [life |-> "live", enabled |-> TRUE, cron |-> c, next |-> NextRun(c, clock)]
    <2>1. row \in ScheduleRow
      BY <1>3 DEF ScheduleRow
    <2>2. sched' = [sched EXCEPT ![s] = row] /\ UNCHANGED <<clock, skips, req>>
      BY <1>4 DEF CreateSchedule
    <2> QED BY <2>1, <2>2, <1>2
  <1>5. ASSUME NEW s \in Schedules, NEW e \in BOOLEAN, SetEnabled(s, e) PROVE ScheduleTypes'
    <2> DEFINE row == [sched[s] EXCEPT !.enabled = e]
    <2>1. row \in ScheduleRow
      BY DEF ScheduleRow, ScheduleTypes
    <2>2. sched' = [sched EXCEPT ![s] = row] /\ UNCHANGED <<clock, skips, req>>
      BY <1>5 DEF SetEnabled
    <2> QED BY <2>1, <2>2, <1>2
  <1>6. ASSUME NEW s \in Schedules, DeleteSchedule(s) PROVE ScheduleTypes'
    <2> DEFINE row == [NoSchedule EXCEPT !.life = "deleted"]
    <2>0. NoSchedule \in ScheduleRow
      BY TimeAssumption DEF ScheduleRow, NoSchedule, Times
    <2>1. row \in ScheduleRow
      BY <2>0 DEF ScheduleRow
    <2>2. sched' = [sched EXCEPT ![s] = row] /\ UNCHANGED <<clock, skips, req>>
      BY <1>6 DEF DeleteSchedule
    <2> QED BY <2>1, <2>2, <1>2
  <1>7. ASSUME NEW q \in Requests, NEW s \in Schedules, NEW c \in Crons, NEW e \in BOOLEAN \cup {None},
               UpdateCompute(q, s, c, e)
        PROVE  ScheduleTypes'
    <2>1. /\ req' = [req EXCEPT ![q] = [op |-> "update", sid |-> s, cron |-> c, enabled |-> e,
                                        at |-> NextRun(c, clock)]]
          /\ UNCHANGED <<clock, sched, skips>>
      BY <1>7 DEF UpdateCompute
    <2>2. NextRun(c, clock) \in Times \cup {Never}
      BY <1>3
    <2> QED BY <2>1, <2>2 DEF ScheduleTypes, SkipInv, ScheduleDomains
  <1>8. ASSUME NEW q \in Requests, UpdateWrite(q) PROVE ScheduleTypes'
    <2>1. /\ req[q].op = "update"
          /\ req' = [req EXCEPT ![q] = NoRequest] /\ UNCHANGED <<clock, skips>>
      BY <1>8 DEF UpdateWrite
    <2>2. /\ req[q].at \in Times \cup {Never} /\ req[q].enabled \in BOOLEAN \cup {None}
          /\ req[q].sid \in Schedules /\ req[q].cron \in Crons
      BY <2>1 DEF ScheduleTypes, SkipInv, ReqOK
    <2>3. sched' \in [Schedules -> ScheduleRow]
      <3> DEFINE s == req[q].sid
                 on == IF req[q].enabled = None THEN sched[s].enabled ELSE req[q].enabled
                 row == [sched[s] EXCEPT !.cron = req[q].cron, !.next = req[q].at, !.enabled = on]
      <3>1. sched[s] \in ScheduleRow
        BY <2>2 DEF ScheduleTypes
      <3>2. on \in BOOLEAN
        BY <2>2, <3>1 DEF ScheduleRow
      <3>3. sched' = sched \/ sched' = [sched EXCEPT ![s] = row]
        BY <1>8 DEF UpdateWrite
      <3> HIDE DEF on
      <3>4. row \in ScheduleRow
        BY <2>2, <3>1, <3>2 DEF ScheduleRow
      <3> HIDE DEF row
      <3> QED BY <3>3, <3>4 DEF ScheduleTypes
    <2>4. \A p \in Requests : p # q => req'[p] = req[p]
      BY <2>1 DEF SkipInv, ScheduleDomains
    <2>5. req'[q].op # "update" /\ req'[q].op # "skip"
      BY <2>1, RequestNone DEF SkipInv, ScheduleDomains, NoRequest
    <2> QED BY <2>1, <2>3, <2>4, <2>5 DEF ScheduleTypes
  <1>9. ASSUME NEW q \in Requests, NEW s \in Schedules, NEW at \in Times, SkipCheck(q, s, at)
        PROVE  ScheduleTypes'
    <2> DEFINE row == [NoRequest EXCEPT !.op = "skip", !.sid = s, !.at = at]
    <2>1. row.op = "skip" /\ row.at = at
      BY DEF NoRequest
    <2>2. req' = [req EXCEPT ![q] = row] /\ UNCHANGED <<clock, sched, skips>>
      BY <1>9 DEF SkipCheck
    <2> HIDE DEF row
    <2> QED BY <2>1, <2>2 DEF ScheduleTypes, SkipInv, ScheduleDomains
  <1>10. ASSUME NEW q \in Requests, SkipWrite(q) PROVE ScheduleTypes'
    <2>1. /\ req[q].op = "skip"
          /\ req' = [req EXCEPT ![q] = NoRequest] /\ UNCHANGED <<clock, sched>>
      BY <1>10 DEF SkipWrite
    <2>2. req[q].sid \in Schedules /\ req[q].at \in Times
      BY <2>1 DEF ScheduleTypes, SkipInv, ReqOK
    <2>3. skips' = skips \/ skips' = skips \cup {[sid |-> req[q].sid, at |-> req[q].at, early |-> clock < req[q].at]}
      BY <1>10 DEF SkipWrite
    <2>4. \A k \in skips' : k.sid \in Schedules /\ k.at \in Times
      BY <2>2, <2>3 DEF ScheduleTypes
    <2>5. \A p \in Requests : p # q => req'[p] = req[p]
      BY <2>1 DEF SkipInv, ScheduleDomains
    <2>6. req'[q].op # "update" /\ req'[q].op # "skip"
      BY <2>1, RequestNone DEF SkipInv, ScheduleDomains, NoRequest
    <2> QED BY <2>1, <2>4, <2>5, <2>6 DEF ScheduleTypes
  <1>11. ASSUME NEW s \in Schedules, NEW at \in Times, Unskip(s, at) PROVE ScheduleTypes'
    BY <1>11 DEF Unskip, ScheduleTypes
  <1>12. ASSUME NEW w \in Workers, PassAdvance(w) PROVE ScheduleTypes'
    <2>1. pass[w].row.sid \in Schedules /\ pass[w].row.cron \in Crons
      BY <1>12 DEF PassAdvance, SkipInv, PassOK, DueRow
    <2> DEFINE s == pass[w].row.sid
               at == NextRun(pass[w].row.cron, pass[w].now)
               row == [sched[s] EXCEPT !.next = at]
    <2>2. at \in Times \cup {Never}
      BY <2>1, <1>3
    <2> HIDE DEF at
    <2>3. row \in ScheduleRow
      BY <2>1, <2>2 DEF ScheduleTypes, ScheduleRow
    <2>4. (sched' = sched \/ sched' = [sched EXCEPT ![s] = row]) /\ UNCHANGED <<clock, skips, req>>
      BY <1>12 DEF PassAdvance, at
    <2> QED BY <2>1, <2>3, <2>4, <1>1, <1>2
  <1>13. CASE ScheduleRequest
    BY <1>13, <1>4, <1>5, <1>6 DEF ScheduleRequest
  <1>14. CASE UpdateRequest
    BY <1>14, <1>7, <1>8 DEF UpdateRequest
  <1>15. CASE SkipRequest
    BY <1>15, <1>9, <1>10, <1>11 DEF SkipRequest
  <1>16. CASE Clock
    <2>1. clock < MaxTime /\ clock' = clock + 1 /\ UNCHANGED <<sched, skips, req>>
      BY <1>16 DEF Clock, Tick
    <2> QED BY <2>1, TimeAssumption DEF ScheduleTypes, Times
  <1>17. ASSUME NEW w \in Workers, TickStep(w) PROVE ScheduleTypes'
    <2>1. CASE \E t \in Tasks : PassEnqueue(w, t) \/ ClaimOne(w, t)
      BY <2>1, <1>1 DEF PassEnqueue, PassFire, ClaimOne, scheduleVars
    <2>2. CASE \E o \in Outcomes : Handle(w, o) \/ RunOp(w, o)
      BY <2>2, <1>1 DEF Handle, RunOp, FinalizeRun, scheduleVars
    <2>3. CASE PassQuiet(w)
      BY <2>3, <1>1, <1>12 DEF PassQuiet, PassRow, PassFull
    <2>4. CASE \/ SweepStep(w) \/ SchedulesBegin(w) \/ SchedulesEnd(w)
               \/ EventsBegin(w) \/ Dispatch(w) \/ EventsEnd(w)
               \/ Eligible(w) \/ ClaimNone(w) \/ Complete(w) \/ Fail(w)
      BY <2>4, <1>1 DEF SweepStep, SchedulesBegin, PassBegin, SchedulesEnd, PassEnd, EventsBegin,
                        Dispatch, EventsEnd, Eligible, ClaimNone, Complete, Fail, scheduleVars
    <2> QED BY <1>17, <2>1, <2>2, <2>3, <2>4 DEF TickStep
  <1>18. CASE \E w \in Workers : Boot(w) \/ Crash(w) \/ StoreFault(w)
    BY <1>18, <1>1 DEF Boot, Crash, StoreFault, scheduleVars
  <1>19. CASE RunRequest \/ SubmitRequest \/ EmitRequest \/ RetryTime \/ LeaseTime
    BY <1>19, <1>1 DEF RunRequest, RunNow, SubmitRequest, EmitRequest, RetryTime, LeaseTime, scheduleVars
  <1>20. CASE UNCHANGED vars
    BY <1>20, <1>1 DEF vars, scheduleVars
  <1> QED
    BY <1>13, <1>14, <1>15, <1>16, <1>17, <1>18, <1>19, <1>20 DEF Next

LEMMA TypedAlways == Spec => []Typed
  <1>1. WorkerInit => Typed
    BY TypedInit
  <1>2. Typed /\ SkipInv /\ HandInv /\ OutboxInv /\ [Next]_vars => Typed'
    BY ScheduleStep, DeliveriesStep, LineStep, StepsOutbox DEF Typed
  <1> QED
    BY <1>1, <1>2, SkipAlways, HandAlways, OutboxAlways, PTL DEF Spec

\* The types of the queue, the schedules, the outbox and the worker.  A worker
\* has a task in hand exactly from the claim to the report, whatever raises and
\* dies, and no row has more attempts or deliveries than it may: of the attempts
\* this holds as long as one process works on the queue.
THEOREM WorkerTypes == Spec => [](Sole => WorkerTypeOK)
  <1>1. ASSUME Typed, SkipInv, HandInv, OutboxInv, Placed, LedgerInv, Sole PROVE WorkerTypeOK
    <2>1. \A t \in Tasks : task[t] \in TaskRow /\ task[t].retries <= MaxRetries + 1
      <3>1. \A t \in Tasks : task[t] \in TaskRow
        BY <1>1 DEF HandInv, QueueTypes
      <3>2. \A t \in Tasks : task[t].retries \in Nat
        BY <3>1 DEF TaskRow
      <3> QED BY <1>1, <3>1, <3>2, QueueBounds DEF LedgerInv, Accounts, RetriesBounded
    <2>2. line \in Seq(Tasks) /\ starts \in [Tasks -> Nat]
      BY <1>1 DEF Typed, LineTyped, LedgerInv
    <2>3. /\ clock \in Times
          /\ \A s \in Schedules : /\ sched[s].life \in {"absent", "live", "deleted"}
                                   /\ sched[s].enabled \in BOOLEAN
                                   /\ sched[s].cron \in Crons \cup {None}
                                   /\ sched[s].next \in Times \cup {Never}
          /\ \A k \in skips : k.sid \in Schedules /\ k.at \in Times
      BY <1>1 DEF Typed, ScheduleTypes, ScheduleRow
    <2>4. \A t \in Tasks : log[t].status \in {None, "queued", "done", "failed"}
      BY <1>1 DEF SkipInv, LogOK, LogRecord
    <2>5. /\ \A e \in Events : event[e].retries \in 0 .. MaxDeliveries
          /\ processed \subseteq Subscribers \X Events
      BY <1>1 DEF Typed, DeliveriesBounded, OutboxInv, OutboxTypes
    <2>6. ASSUME NEW w \in Workers
          PROVE  /\ worker[w].at \in Places
                 /\ worker[w].boots \in 0 .. MaxBoots
                 /\ worker[w].at \in {"handle", "report"} <=> worker[w].task \in Tasks
                 /\ worker[w].at = "report" <=> worker[w].outcome \in Outcomes
                 /\ pass[w].stage # "out" => worker[w].at = "pass"
                 /\ drain[w].batch # <<>> => worker[w].at = "dispatch"
      BY <1>1, WorkerBounds DEF HandInv, QueueTypes, HandPlaces, WorkerRow, Placed
    <2> QED BY <2>1, <2>2, <2>3, <2>4, <2>5, <2>6 DEF WorkerTypeOK
  <1> QED
    BY <1>1, TypedAlways, SkipAlways, HandAlways, OutboxAlways, PlacedAlways, LedgerAlways, PTL

\* A deployment with one worker process, as run_worker is meant to be run, keeps
\* its types, counts every attempt and logs every run that is done.
COROLLARY OneWorkerAccounts ==
    ASSUME \A v, w \in Workers : v = w
    PROVE  Spec => [](WorkerTypeOK /\ AttemptsAccounted /\ DoneLogged)
  <1>1. Sole
    BY DEF Sole
  <1> QED
    BY <1>1, WorkerTypes, AttemptsCounted, RunLogAgrees, PTL

-----------------------------------------------------------------------------
(* Where no mark fails, and where schedules are left alone.                *)

\* A call that returned and whose mark is still to come: the event is claimed,
\* and whoever has it in hand is about to mark it.
MarkPending == \A s \in Subscribers, e \in Events :
    calls[s][e] > 0 /\ <<s, e>> \notin processed =>
        /\ event[e].claimed
        /\ \A w \in Dispatchers : e \in Held(w) =>
              InHand(w) = e /\ drain[w].sub = s /\ drain[w].returned

MarkedOnce == MarkPending /\ HandledOnce

MarkedStep ==
    \/ \E e \in Events, x \in Entities : Emit(e, x)
    \/ \E w \in Dispatchers : ClaimEvents(w)
    \/ \E w \in Dispatchers : SkipHandled(w) \/ CallReturns(w) \/ CallRaises(w)
    \/ \E w \in Dispatchers : MarkProcessed(w) \/ Settle(w) \/ Forget(w)
    \/ \E e \in Events : RetryDue(e)
    \/ UNCHANGED outboxVars

\* A dispatcher that has its head event called and not marked is at the mark.
LEMMA AtTheMark ==
    ASSUME OutboxInv, MarkPending, NEW w \in Dispatchers, drain[w].batch # <<>>,
           NEW s \in Subscribers, NEW e \in Events, e \in Held(w),
           calls[s][e] > 0, <<s, e>> \notin processed
    PROVE  e = InHand(w) /\ s = drain[w].sub /\ drain[w].returned
  BY DEF MarkPending

\* What a step leaves in hand, with the marks and the calls.
LEMMA MarkFrame ==
    ASSUME MarkPending, UNCHANGED calls, processed \subseteq processed',
           \A e \in Events : event[e].claimed => event'[e].claimed,
           \A w \in Dispatchers, e \in Events : e \in Held(w)' =>
              \/ e \in Held(w) /\ drain'[w] = drain[w]
              \/ \A s \in Subscribers : calls[s][e] > 0 => <<s, e>> \in processed'
    PROVE  MarkPending'
  <1> SUFFICES ASSUME NEW s \in Subscribers, NEW e \in Events,
                      calls[s][e] > 0, <<s, e>> \notin processed'
               PROVE  /\ event'[e].claimed
                      /\ \A w \in Dispatchers : e \in Held(w)' =>
                            InHand(w)' = e /\ drain'[w].sub = s /\ drain'[w].returned
    BY DEF MarkPending
  <1>1. /\ event[e].claimed
        /\ \A w \in Dispatchers : e \in Held(w) =>
              InHand(w) = e /\ drain[w].sub = s /\ drain[w].returned
    BY DEF MarkPending
  <1> QED
    BY <1>1 DEF InHand

LEMMA MarkedInit == OutboxInit => MarkedOnce
  BY DEF OutboxInit, MarkedOnce, MarkPending, HandledOnce

LEMMA EmitMarked ==
    ASSUME OutboxInv, MarkedOnce, NEW e \in Events, NEW x \in Entities, Emit(e, x)
    PROVE  MarkedOnce'
  <1>1. event[e].status = "absent" /\ UNCHANGED <<processed, calls, drain>>
    BY DEF Emit
  <1>2. \A f \in Events : f # e => event'[f] = event[f]
    BY DEF Emit, OutboxInv, OutboxTypes
  <1>3. \A s \in Subscribers : ~(calls[s][e] > 0)
    BY <1>1 DEF OutboxInv, CalledEmitted
  <1>4. MarkPending'
    BY <1>1, <1>2, <1>3 DEF MarkedOnce, MarkPending, InHand, Held
  <1> QED
    BY <1>1, <1>4 DEF MarkedOnce, HandledOnce

LEMMA ClaimMarked ==
    ASSUME OutboxInv, MarkedOnce, NEW w \in Dispatchers, ClaimEvents(w)
    PROVE  MarkedOnce'
  <1>1. PICK n \in 0 .. Batch : \E b \in [1 .. n -> Events] :
          /\ NextBatch(b)
          /\ drain' = [drain EXCEPT ![w] = [NoDrain EXCEPT !.batch = b]]
          /\ event' = [e \in Events |->
                         IF \E i \in 1 .. n : b[i] = e
                         THEN [event[e] EXCEPT !.claimed = TRUE] ELSE event[e]]
    BY DEF ClaimEvents
  <1>2. PICK b \in [1 .. n -> Events] :
          /\ NextBatch(b)
          /\ drain' = [drain EXCEPT ![w] = [NoDrain EXCEPT !.batch = b]]
          /\ event' = [e \in Events |->
                         IF \E i \in 1 .. n : b[i] = e
                         THEN [event[e] EXCEPT !.claimed = TRUE] ELSE event[e]]
    BY <1>1
  <1>3. UNCHANGED <<processed, calls>>
    BY DEF ClaimEvents
  <1>4. n \in Nat /\ b \in Seq(Events) /\ DOMAIN b = 1 .. n /\ Len(b) = n
    BY OutboxBounds
  <1>5. drain'[w].batch = b /\ \A v \in Dispatchers : v # w => drain'[v] = drain[v]
    BY <1>2 DEF OutboxInv, OutboxTypes, NoDrain
  <1>6. ASSUME NEW e \in Events, event[e].claimed PROVE event'[e].claimed
    <2>1. event[e] \in EventRow
      BY DEF OutboxInv, OutboxTypes
    <2>2. event'[e] = event[e] \/ event'[e] = [event[e] EXCEPT !.claimed = TRUE]
      BY <1>2
    <2> QED BY <1>6, <2>1, <2>2 DEF EventRow
  <1>7. ASSUME NEW v \in Dispatchers, NEW e \in Events, e \in Held(v)'
        PROVE  \/ e \in Held(v) /\ drain'[v] = drain[v]
               \/ \A s \in Subscribers : calls[s][e] > 0 => <<s, e>> \in processed'
    <2>1. CASE v = w
      <3>1. PICK i \in 1 .. n : e = b[i]
        BY <1>4, <1>5, <1>7, <2>1 DEF Held
      <3>2. ~event[e].claimed
        BY <3>1, <1>2, <1>4 DEF NextBatch, Deliverable
      <3> QED BY <3>2, <1>3 DEF MarkedOnce, MarkPending
    <2>2. CASE v # w
      BY <1>5, <1>7, <2>2 DEF Held
    <2> QED BY <2>1, <2>2
  <1>8. MarkPending'
    BY <1>3, <1>6, <1>7, MarkFrame DEF MarkedOnce
  <1> QED
    BY <1>3, <1>8 DEF MarkedOnce, HandledOnce

\* A callback that is skipped or raises.
LEMMA PassedOverMarked ==
    ASSUME OutboxInv, MarkedOnce, NEW w \in Dispatchers, SkipHandled(w) \/ CallRaises(w)
    PROVE  MarkedOnce'
  <1>1. /\ drain[w].batch # <<>> /\ ~drain[w].returned /\ UNCHANGED <<event, processed, calls>>
        /\ \E row : row.batch = drain[w].batch /\ drain' = [drain EXCEPT ![w] = row]
    <2>1. PICK f \in BOOLEAN : NextSubscriber(w, f)
      BY DEF SkipHandled, CallRaises
    <2> DEFINE row == [drain[w] EXCEPT !.sub = drain[w].sub + 1, !.returned = FALSE,
                                       !.failed = drain[w].failed \/ f]
    <2>2. row.batch = drain[w].batch
      BY DEF OutboxInv, OutboxTypes, DrainRow
    <2>3. drain' = [drain EXCEPT ![w] = row]
      BY <2>1 DEF NextSubscriber
    <2> HIDE DEF row
    <2> QED
      BY <2>2, <2>3 DEF SkipHandled, CallRaises, AtSubscriber
  <1>2. Held(w)' = Held(w) /\ \A v \in Dispatchers : v # w => drain'[v] = drain[v]
    BY <1>1 DEF OutboxInv, OutboxTypes, Held
  <1>3. \A e \in Events : e \in Held(w) => \A s \in Subscribers : calls[s][e] > 0 => <<s, e>> \in processed
    BY <1>1 DEF MarkedOnce, MarkPending
  <1>4. MarkPending'
    BY <1>1, <1>2, <1>3, MarkFrame DEF MarkedOnce, Held
  <1> QED
    BY <1>1, <1>4 DEF MarkedOnce, HandledOnce

LEMMA ForgetMarked ==
    ASSUME OutboxInv, MarkedOnce, NEW w \in Dispatchers, Forget(w)
    PROVE  MarkedOnce'
  <1>1. UNCHANGED <<event, processed, calls>> /\ drain' = [drain EXCEPT ![w] = NoDrain]
    BY DEF Forget
  <1>2. drain'[w].batch = <<>> /\ \A v \in Dispatchers : v # w => drain'[v] = drain[v]
    BY <1>1 DEF OutboxInv, OutboxTypes, NoDrain
  <1>3. Held(w)' = {}
    BY <1>2 DEF Held
  <1>4. MarkPending'
    BY <1>1, <1>2, <1>3, MarkFrame DEF MarkedOnce, Held
  <1> QED
    BY <1>1, <1>4 DEF MarkedOnce, HandledOnce

LEMMA RetryMarked ==
    ASSUME OutboxInv, MarkedOnce, NEW e \in Events, RetryDue(e)
    PROVE  MarkedOnce'
  <1>1. event' = [event EXCEPT ![e].due = TRUE] /\ UNCHANGED <<processed, calls, drain>>
    BY DEF RetryDue
  <1>2. \A f \in Events : event'[f].claimed = event[f].claimed
    BY <1>1 DEF OutboxInv, OutboxTypes, EventRow
  <1> QED
    BY <1>1, <1>2 DEF MarkedOnce, MarkPending, HandledOnce, InHand, Held

LEMMA CallMarked ==
    ASSUME OutboxInv, MarkedOnce, NEW w \in Dispatchers, CallReturns(w)
    PROVE  MarkedOnce'
  <1>1. /\ drain[w].batch # <<>> /\ drain[w].sub \in Subscribers /\ ~drain[w].returned
        /\ <<drain[w].sub, InHand(w)>> \notin processed
        /\ UNCHANGED <<event, processed>>
        /\ drain' = [drain EXCEPT ![w].returned = TRUE]
    BY DEF CallReturns, AtSubscriber, Handled
  <1>2. PICK e \in Events, s \in Subscribers : e = InHand(w) /\ s = drain[w].sub
    BY <1>1, HeadInHand
  <1>3. e \in Held(w) /\ event[e].claimed
    BY <1>1, <1>2, HeadInHand DEF OutboxInv, HeldFirst
  <1>4. calls' = [calls EXCEPT ![s][e] = @ + 1]
    BY <1>2 DEF CallReturns
  <1>5. calls[s][e] = 0
    <2>1. ~(calls[s][e] > 0)
      BY <1>1, <1>2, <1>3 DEF MarkedOnce, MarkPending
    <2> QED BY <2>1 DEF OutboxInv, OutboxTypes
  <1>6. calls'[s][e] = 1 /\ \A t \in Subscribers, f \in Events : t # s \/ f # e => calls'[t][f] = calls[t][f]
    BY <1>4, <1>5 DEF OutboxInv, OutboxTypes
  <1>7. /\ drain'[w].batch = drain[w].batch /\ drain'[w].sub = s /\ drain'[w].returned = TRUE
        /\ \A v \in Dispatchers : v # w => drain'[v] = drain[v]
    BY <1>1, <1>2 DEF OutboxInv, OutboxTypes, DrainRow
  <1>8. MarkPending'
    <2> SUFFICES ASSUME NEW t \in Subscribers, NEW f \in Events,
                        calls'[t][f] > 0, <<t, f>> \notin processed
                 PROVE  /\ event[f].claimed
                        /\ \A v \in Dispatchers : f \in Held(v)' =>
                              InHand(v)' = f /\ drain'[v].sub = t /\ drain'[v].returned
      BY <1>1 DEF MarkPending
    <2>1. CASE t = s /\ f = e
      <3>1. ASSUME NEW v \in Dispatchers, f \in Held(v)' PROVE v = w
        <4>1. f \in Held(v)
          BY <3>1, <1>7 DEF Held
        <4> QED BY <4>1, <2>1, <1>3, HeldAlone DEF OneInFlight
      <3> QED BY <2>1, <3>1, <1>2, <1>3, <1>7 DEF InHand
    <2>2. CASE ~(t = s /\ f = e)
      <3>1. /\ event[f].claimed
            /\ \A v \in Dispatchers : f \in Held(v) =>
                  InHand(v) = f /\ drain[v].sub = t /\ drain[v].returned
        BY <2>2, <1>6 DEF MarkedOnce, MarkPending
      <3>2. f \notin Held(w)
        BY <3>1, <1>1
      <3> QED BY <3>1, <3>2, <1>7 DEF InHand, Held
    <2> QED BY <2>1, <2>2
  <1>9. HandledOnce'
    BY <1>6 DEF MarkedOnce, HandledOnce
  <1> QED
    BY <1>8, <1>9 DEF MarkedOnce

LEMMA MarkMarked ==
    ASSUME OutboxInv, MarkedOnce, NEW w \in Dispatchers, MarkProcessed(w)
    PROVE  MarkedOnce'
  <1>1. /\ drain[w].batch # <<>> /\ UNCHANGED <<event, calls>>
        /\ processed' = processed \cup {<<drain[w].sub, InHand(w)>>}
        /\ \E row : row.batch = drain[w].batch /\ drain' = [drain EXCEPT ![w] = row]
    <2> DEFINE row == [drain[w] EXCEPT !.sub = drain[w].sub + 1, !.returned = FALSE,
                                       !.failed = drain[w].failed \/ FALSE]
    <2>2. row.batch = drain[w].batch
      BY DEF OutboxInv, OutboxTypes, DrainRow
    <2>3. drain' = [drain EXCEPT ![w] = row]
      BY DEF MarkProcessed, NextSubscriber
    <2> HIDE DEF row
    <2> QED
      BY <2>2, <2>3 DEF MarkProcessed, AtSubscriber
  <1>2. Held(w)' = Held(w) /\ \A v \in Dispatchers : v # w => drain'[v] = drain[v]
    BY <1>1 DEF OutboxInv, OutboxTypes, Held
  <1>3. ASSUME NEW e \in Events, e \in Held(w), NEW s \in Subscribers, calls[s][e] > 0
        PROVE  <<s, e>> \in processed'
    <2>1. <<s, e>> \in processed \/ (e = InHand(w) /\ s = drain[w].sub)
      BY <1>3 DEF MarkedOnce, MarkPending
    <2> QED BY <2>1, <1>1
  <1>4. processed \subseteq processed'
    BY <1>1
  <1>5. MarkPending'
    BY <1>1, <1>2, <1>3, <1>4, MarkFrame DEF MarkedOnce, Held
  <1> QED
    BY <1>1, <1>5 DEF MarkedOnce, HandledOnce

LEMMA SettleMarked ==
    ASSUME OutboxInv, MarkedOnce, NEW w \in Dispatchers, Settle(w)
    PROVE  MarkedOnce'
  <1>1. /\ drain[w].batch # <<>> /\ drain[w].sub > MaxSubs /\ UNCHANGED <<processed, calls>>
        /\ event' = [event EXCEPT ![InHand(w)] = Outcome(event[InHand(w)], drain[w].failed)]
        /\ drain' = [drain EXCEPT ![w] = [NoDrain EXCEPT !.batch = Tail(drain[w].batch)]]
    BY DEF Settle
  <1>2. ASSUME NEW e \in Events, e \in Held(w), NEW s \in Subscribers, calls[s][e] > 0
        PROVE  <<s, e>> \in processed
    <2>1. drain[w].sub # s
      BY <1>1, OutboxBounds DEF Subscribers
    <2> QED BY <2>1, <1>2 DEF MarkedOnce, MarkPending
  <1>3. /\ drain'[w].batch = Tail(drain[w].batch)
        /\ \A v \in Dispatchers : v # w => drain'[v] = drain[v]
    BY <1>1 DEF OutboxInv, OutboxTypes, NoDrain
  <1>4. \A e \in Events : e \in Held(w)' => e \in Held(w)
    <2> SUFFICES ASSUME NEW e \in Events, e \in Held(w)' PROVE e \in Held(w)
      OBVIOUS
    <2>1. drain[w].batch \in Seq(Events)
      BY DEF OutboxInv, OutboxTypes, DrainRow
    <2>2. PICK i \in 1 .. Len(Tail(drain[w].batch)) : e = Tail(drain[w].batch)[i]
      BY <1>3 DEF Held
    <2> DEFINE b == drain[w].batch
               n == i + 1
    <2>3. /\ Tail(b) \in Seq(Events) /\ Len(b) \in Nat /\ Len(b) > 0 /\ Len(Tail(b)) = Len(b) - 1
          /\ \A j \in 1 .. Len(Tail(b)) : Tail(b)[j] = b[j + 1]
      BY <1>1, <2>1
    <2>4. n \in 1 .. Len(b) /\ e = b[n]
      BY <2>2, <2>3
    <2> HIDE DEF n
    <2> QED BY <2>4 DEF Held
  <1>5. MarkPending'
    <2> SUFFICES ASSUME NEW s \in Subscribers, NEW e \in Events,
                        calls[s][e] > 0, <<s, e>> \notin processed
                 PROVE  /\ event'[e].claimed
                        /\ \A v \in Dispatchers : e \in Held(v)' =>
                              InHand(v)' = e /\ drain'[v].sub = s /\ drain'[v].returned
      BY <1>1 DEF MarkPending
    <2>1. e \notin Held(w)
      BY <1>2
    <2>2. e # InHand(w)
      BY <2>1, <1>1, HeadInHand
    <2>3. event'[e] = event[e]
      BY <2>2, <1>1 DEF OutboxInv, OutboxTypes
    <2>4. /\ event[e].claimed
          /\ \A v \in Dispatchers : e \in Held(v) =>
                InHand(v) = e /\ drain[v].sub = s /\ drain[v].returned
      BY DEF MarkedOnce, MarkPending
    <2>5. ASSUME NEW v \in Dispatchers, e \in Held(v)'
          PROVE  InHand(v)' = e /\ drain'[v].sub = s /\ drain'[v].returned
      <3>1. v # w
        BY <2>5, <2>1, <1>4
      <3>2. drain'[v] = drain[v]
        BY <3>1, <1>3
      <3>3. e \in Held(v)
        BY <3>2, <2>5 DEF Held
      <3> QED BY <3>2, <3>3, <2>4 DEF InHand
    <2> QED BY <2>3, <2>4, <2>5
  <1> QED
    BY <1>1, <1>5 DEF MarkedOnce, HandledOnce

LEMMA MarkedStepInv == OutboxInv /\ MarkedOnce /\ MarkedStep => MarkedOnce'
  <1> SUFFICES ASSUME OutboxInv, MarkedOnce, MarkedStep PROVE MarkedOnce'
    OBVIOUS
  <1>1. CASE UNCHANGED outboxVars
    BY <1>1 DEF outboxVars, MarkedOnce, MarkPending, HandledOnce, InHand, Held
  <1> QED
    BY <1>1, EmitMarked, ClaimMarked, PassedOverMarked, CallMarked, MarkMarked, SettleMarked,
       ForgetMarked, RetryMarked DEF MarkedStep

-----------------------------------------------------------------------------
(* The steps of a scenario.                                                *)

LEMMA MCStep == MCNext => Next /\ env' = env
  BY DEF MCNext, MCRequest, MCFault, Next

LEMMA MCStepMarked == MCNext /\ "error" \notin env => MarkedStep
  <1> SUFFICES ASSUME MCNext, "error" \notin env PROVE MarkedStep
    OBVIOUS
  <1>1. ASSUME NEW w \in Workers, TickStep(w) PROVE MarkedStep
    <2>1. CASE EventsBegin(w)
      BY <2>1, OneProcess DEF EventsBegin, MarkedStep
    <2>2. CASE Dispatch(w)
      BY <2>2, OneProcess DEF Dispatch, MarkedStep
    <2>3. CASE \/ SweepStep(w) \/ SchedulesBegin(w) \/ PassQuiet(w) \/ SchedulesEnd(w)
               \/ EventsEnd(w) \/ Eligible(w) \/ ClaimNone(w) \/ Complete(w) \/ Fail(w)
      BY <2>3 DEF SweepStep, SchedulesBegin, PassQuiet, SchedulesEnd, EventsEnd, Eligible,
                  ClaimNone, Complete, Fail, MarkedStep
    <2>4. CASE \/ \E t \in Tasks : PassEnqueue(w, t) \/ ClaimOne(w, t)
               \/ \E o \in Outcomes : Handle(w, o) \/ RunOp(w, o)
      BY <2>4 DEF PassEnqueue, ClaimOne, Handle, RunOp, MarkedStep
    <2> QED BY <1>1, <2>1, <2>2, <2>3, <2>4 DEF TickStep
  <1>2. CASE MCRequest
    BY <1>2 DEF MCRequest, ScheduleRequest, UpdateRequest, SkipRequest, RunRequest, SubmitRequest,
                EmitRequest, MarkedStep
  <1>3. CASE MCFault
    BY <1>3, OneProcess DEF MCFault, Boot, Crash, LeaseTime, MarkedStep
  <1>4. CASE RetryTime
    BY <1>4 DEF RetryTime, MarkedStep
  <1>5. CASE Clock
    BY <1>5 DEF Clock, MarkedStep
  <1> QED
    BY <1>1, <1>2, <1>3, <1>4, <1>5 DEF MCNext

LEMMA MCOutbox == MCSpec => []OutboxInv
  <1>1. MCInit => OutboxInv
    BY OutboxInitInv DEF MCInit
  <1>2. OutboxInv /\ [MCNext]_mcVars => OutboxInv'
    <2>1. [MCNext]_mcVars => [Next]_vars
      BY MCStep DEF mcVars
    <2> QED BY <2>1, OutboxStepInv, StepsOutbox
  <1> QED
    BY <1>1, <1>2, PTL DEF MCSpec

\* No subscriber handles an event twice where no mark fails: retries for the
\* sake of another subscriber, crashes and any number of dispatchers included
\* (claim_events, dispatch_one, mark_processed).
THEOREM MarkedHandledAtMostOnce == MCSpec => []MarkedHandledOnce
  <1> DEFINE Inv == "error" \notin env => MarkedOnce
  <1>1. MCInit => Inv
    BY MarkedInit DEF MCInit
  <1>2. Inv /\ OutboxInv /\ [MCNext]_mcVars => Inv'
    <2> SUFFICES ASSUME Inv, OutboxInv, [MCNext]_mcVars, "error" \notin env' PROVE MarkedOnce'
      OBVIOUS
    <2>1. env' = env
      BY DEF MCNext, mcVars
    <2>2. MarkedStep
      <3>1. CASE MCNext
        BY <3>1, <2>1, MCStepMarked
      <3>2. CASE UNCHANGED mcVars
        BY <3>2 DEF mcVars, vars, MarkedStep
      <3> QED BY <3>1, <3>2
    <2> QED BY <2>1, <2>2, MarkedStepInv
  <1>3. Inv => MarkedHandledOnce
    BY DEF MarkedOnce, MarkedHandledOnce
  <1> HIDE DEF Inv
  <1> QED
    BY <1>1, <1>2, <1>3, MCOutbox, PTL DEF MCSpec
-----------------------------------------------------------------------------
(* Passes without updates and crashes.                                     *)

\* Task t is the firing of an occurrence of s.
Firing(t, s) == log[t].sid = s /\ log[t].by = "cron"

\* No occurrence of s from this one on has fired.
Unfired(s, at) == \A t \in Tasks : Firing(t, s) => log[t].at < at

FiredKnown == \A t \in Tasks, s \in Schedules :
    log[t].sid = s => sched[s].life # "absent"
FiredOnce == \A s \in Schedules : \A t, u \in Tasks :
    Firing(t, s) /\ Firing(u, s) /\ log[t].at = log[u].at => t = u

\* What a pass has fired, or any before it, was due when it began.
PassedBy(w) == pass[w].stage # "out" =>
    \A t \in Tasks, s \in Schedules : Firing(t, s) => log[t].at <= pass[w].now
\* The rows a pass still has to look at have not fired, one for each schedule ...
RowsAhead(w) ==
    /\ \A r \in pass[w].rows : /\ sched[r.sid].life # "absent"
                               /\ Unfired(r.sid, r.at)
    /\ \A r, q \in pass[w].rows : r.sid = q.sid => r = q
    /\ pass[w].stage = "out" => pass[w].rows = {}
\* ... and nor has the one in hand until its task is enqueued.
RowAhead(w) ==
    /\ pass[w].stage \in {"fire", "advance"} =>
          /\ sched[pass[w].row.sid].life # "absent"
          /\ \A r \in pass[w].rows : r.sid # pass[w].row.sid
    /\ \A r \in pass[w].rows : r.at <= pass[w].now
    /\ pass[w].stage = "fire" => /\ pass[w].row.at <= pass[w].now
                                 /\ Unfired(pass[w].row.sid, pass[w].row.at)

Advancing(s) == \E w \in Workers : pass[w].stage = "advance" /\ pass[w].row.sid = s
\* The next run of a schedule has not fired, unless a pass is about to move it.
NextAhead == \A s \in Schedules :
    Exists(s) => Advancing(s) \/ Unfired(s, sched[s].next)

Ahead == /\ FiredKnown /\ FiredOnce /\ NextAhead
         /\ \A w \in Workers : PassedBy(w) /\ RowsAhead(w) /\ RowAhead(w)

OnePass == \A v, w \in Workers : pass[v].stage # "out" /\ pass[w].stage # "out" => v = w

LEMMA SoleOnePass == Sole /\ Placed /\ HandInv => OnePass
  <1> SUFFICES ASSUME Sole, Placed, HandInv, NEW v \in Workers, pass[v].stage # "out"
               PROVE  worker[v].boots > 0
    BY DEF OnePass, Sole
  <1>1. worker[v].at # "down" /\ worker[v].boots \in Nat
    BY DEF Placed, HandInv, QueueTypes, WorkerRow
  <1> QED
    BY <1>1 DEF HandInv, HandPlaces

LEMMA SameAhead == Ahead /\ UNCHANGED <<sched, log, pass>> => Ahead'
  BY DEF Ahead, FiredKnown, FiredOnce, NextAhead, Exists, Advancing, Unfired, Firing,
         PassedBy, RowsAhead, RowAhead

\* A schedule is created, switched or deleted.
LEMMA SchedAhead ==
    ASSUME Ahead, SkipInv, UNCHANGED <<log, pass>>,
           \A s \in Schedules : sched[s].life # "absent" => sched'[s].life # "absent",
           \A s \in Schedules : Exists(s)' => \/ sched[s].life = "absent"
                                              \/ Exists(s) /\ sched'[s].next = sched[s].next
    PROVE  Ahead'
  <1>1. FiredKnown' /\ FiredOnce'
    BY DEF Ahead, FiredKnown, FiredOnce, Firing
  <1>2. NextAhead'
    <2> SUFFICES ASSUME NEW s \in Schedules, Exists(s)'
                 PROVE  Advancing(s)' \/ Unfired(s, sched[s].next)'
      BY DEF NextAhead
    <2>1. CASE sched[s].life = "absent"
      BY <2>1 DEF Ahead, FiredKnown, Unfired, Firing
    <2>2. CASE Exists(s) /\ sched'[s].next = sched[s].next
      BY <2>2 DEF Ahead, NextAhead, Advancing, Unfired, Firing
    <2> QED BY <2>1, <2>2
  <1>3. ASSUME NEW w \in Workers PROVE PassedBy(w)' /\ RowsAhead(w)' /\ RowAhead(w)'
    <2>1. /\ \A r \in pass[w].rows : r.sid \in Schedules
          /\ pass[w].stage \in {"fire", "advance"} => pass[w].row.sid \in Schedules
      BY DEF SkipInv, PassOK, PassRecord, DueRow
    <2>2. PassedBy(w) /\ RowsAhead(w) /\ RowAhead(w)
      BY DEF Ahead
    <2>3. PassedBy(w)'
      BY <2>2 DEF PassedBy, Firing
    <2>4. RowsAhead(w)'
      BY <2>1, <2>2 DEF RowsAhead, Unfired, Firing
    <2>5. RowAhead(w)'
      BY <2>1, <2>2 DEF RowAhead, Unfired, Firing
    <2> QED BY <2>3, <2>4, <2>5
  <1> QED
    BY <1>1, <1>2, <1>3 DEF Ahead

\* The run log gets a row by request, or an outcome.
LEMMA LogAhead ==
    ASSUME Ahead, SkipInv, NEW t \in Tasks, NEW row, log' = [log EXCEPT ![t] = row],
           UNCHANGED <<sched, pass>>,
           row.by # "cron" \/ (row.by = log[t].by /\ row.at = log[t].at),
           row.sid \in Schedules => row.sid = log[t].sid \/ sched[row.sid].life # "absent",
           row.by = "cron" => row.sid = log[t].sid
    PROVE  Ahead'
  <1>1. log'[t] = row /\ \A u \in Tasks : u # t => log'[u] = log[u]
    BY DEF SkipInv, ScheduleDomains
  <1>2. \A u \in Tasks : \A s : Firing(u, s)' => Firing(u, s) /\ log'[u].at = log[u].at
    BY <1>1 DEF Firing
  <1>3. FiredKnown'
    BY <1>1 DEF Ahead, FiredKnown
  <1>4. \A s, at : Unfired(s, at) => Unfired(s, at)'
    BY <1>2 DEF Unfired
  <1>5. FiredOnce' /\ NextAhead'
    BY <1>2, <1>4 DEF Ahead, FiredOnce, NextAhead, Exists, Advancing
  <1>6. ASSUME NEW w \in Workers PROVE PassedBy(w)' /\ RowsAhead(w)' /\ RowAhead(w)'
    <2>1. PassedBy(w) /\ RowsAhead(w) /\ RowAhead(w)
      BY DEF Ahead
    <2>2. PassedBy(w)'
      BY <2>1, <1>2 DEF PassedBy
    <2>3. RowsAhead(w)'
      BY <2>1, <1>4 DEF RowsAhead
    <2>4. RowAhead(w)'
      BY <2>1, <1>4 DEF RowAhead
    <2> QED BY <2>2, <2>3, <2>4
  <1> QED
    BY <1>3, <1>5, <1>6 DEF Ahead

\* A step of one pass that leaves the log and the schedules, and is about to
\* advance what it was about to advance.
LEMMA PassAhead ==
    ASSUME Ahead, NEW w \in Workers, UNCHANGED <<sched, log>>,
           \A v \in Workers : v # w => pass'[v] = pass[v],
           pass[w].stage = "advance" => pass'[w].stage = "advance" /\ pass'[w].row = pass[w].row,
           PassedBy(w)', RowsAhead(w)', RowAhead(w)'
    PROVE  Ahead'
  <1>1. FiredKnown' /\ FiredOnce'
    BY DEF Ahead, FiredKnown, FiredOnce, Firing
  <1>2. \A s : Advancing(s) => Advancing(s)'
    BY DEF Advancing
  <1>3. NextAhead'
    BY <1>2 DEF Ahead, NextAhead, Exists, Unfired, Firing
  <1>4. \A v \in Workers : v # w => PassedBy(v)' /\ RowsAhead(v)' /\ RowAhead(v)'
    BY DEF Ahead, PassedBy, RowsAhead, RowAhead, Unfired, Firing
  <1> QED
    BY <1>1, <1>3, <1>4 DEF Ahead

LEMMA BeginAhead ==
    ASSUME Ahead, SkipInv, NEW w \in Workers, PassBegin(w),
           \A v \in Workers : pass[v].stage = "out"
    PROVE  Ahead'
  <1> DEFINE new == [stage |-> "next", now |-> clock, rows |-> Due(clock), row |-> NoDue]
  <1>1. pass' = [pass EXCEPT ![w] = new] /\ UNCHANGED <<clock, sched, skips, log, req>>
    BY DEF PassBegin
  <1>2. new.stage = "next" /\ new.now = clock /\ new.rows = Due(clock)
    OBVIOUS
  <1> HIDE DEF new
  <1>3. pass'[w] = new /\ \A v \in Workers : v # w => pass'[v] = pass[v]
    BY <1>1 DEF SkipInv, ScheduleDomains
  <1>4. \A s : ~Advancing(s)
    BY DEF Advancing
  <1>5. \A r \in Due(clock) : /\ r.sid \in Schedules /\ Exists(r.sid) /\ r.at = sched[r.sid].next
                              /\ r.cron = sched[r.sid].cron /\ r.at <= clock
    BY DEF Due
  <1>6. \A r, q \in Due(clock) : r.sid = q.sid => r = q
    BY DEF Due
  <1>7. PassedBy(w)'
    BY <1>1, <1>2, <1>3 DEF PassedBy, Firing, SkipInv, LogOK
  <1>8. \A r \in Due(clock) : sched[r.sid].life # "absent" /\ Unfired(r.sid, r.at)
    BY <1>4, <1>5 DEF Ahead, NextAhead, Exists
  <1>9. \A s, at : Unfired(s, at)' <=> Unfired(s, at)
    BY <1>1 DEF Unfired, Firing
  <1>10. RowsAhead(w)' /\ RowAhead(w)'
    BY <1>1, <1>2, <1>3, <1>5, <1>6, <1>8, <1>9 DEF RowsAhead, RowAhead
  <1> QED
    BY <1>1, <1>3, <1>7, <1>10, PassAhead

LEMMA RowStepAhead ==
    ASSUME Ahead, SkipInv, NEW w \in Workers, NEW row \in pass[w].rows, PassRow(w, row)
    PROVE  Ahead'
  <1> DEFINE stage == IF IsSkipped(row) THEN "advance" ELSE "fire"
             new == [pass[w] EXCEPT !.rows = pass[w].rows \ {row}, !.row = row, !.stage = stage]
  <1>1. /\ pass[w].stage = "next" /\ pass' = [pass EXCEPT ![w] = new]
        /\ UNCHANGED <<clock, sched, skips, log, req>>
    BY DEF PassRow
  <1>2. stage \in {"advance", "fire"}
    OBVIOUS
  <1> HIDE DEF stage
  <1>3. /\ new.row = row /\ new.stage = stage /\ new.now = pass[w].now
        /\ new.rows = pass[w].rows \ {row}
    BY DEF SkipInv, PassOK, PassRecord
  <1> HIDE DEF new
  <1>4. pass'[w] = new /\ \A v \in Workers : v # w => pass'[v] = pass[v]
    BY <1>1 DEF SkipInv, ScheduleDomains
  <1>5. PassedBy(w) /\ RowsAhead(w) /\ RowAhead(w)
    BY DEF Ahead
  <1>6. PassedBy(w)'
    BY <1>1, <1>3, <1>4, <1>5 DEF PassedBy, Firing
  <1>7. \A s, at : Unfired(s, at)' <=> Unfired(s, at)
    BY <1>1 DEF Unfired, Firing
  <1>8. RowsAhead(w)'
    BY <1>1, <1>2, <1>3, <1>4, <1>5, <1>7 DEF RowsAhead
  <1>9. RowAhead(w)'
    BY <1>1, <1>2, <1>3, <1>4, <1>5, <1>7 DEF RowAhead, RowsAhead
  <1> QED
    BY <1>1, <1>4, <1>6, <1>8, <1>9, PassAhead

\* A pass that ends or passes over a row.
LEMMA QuietAhead ==
    ASSUME Ahead, SkipInv, NEW w \in Workers, UNCHANGED <<sched, log>>,
           \/ pass[w].stage = "fire" /\ pass' = [pass EXCEPT ![w].stage = "next"]
           \/ pass[w].stage = "next" /\ pass' = [pass EXCEPT ![w] = NoPass]
    PROVE  Ahead'
  <1>1. \A v \in Workers : v # w => pass'[v] = pass[v]
    BY DEF SkipInv, ScheduleDomains
  <1>2. pass[w].stage # "advance" /\ PassedBy(w) /\ RowsAhead(w) /\ RowAhead(w)
    BY DEF Ahead
  <1>3. CASE pass[w].stage = "fire" /\ pass' = [pass EXCEPT ![w].stage = "next"]
    <2>1. /\ pass'[w].stage = "next" /\ pass'[w].now = pass[w].now /\ pass'[w].rows = pass[w].rows
      BY <1>3 DEF SkipInv, ScheduleDomains, PassOK, PassRecord
    <2>2. PassedBy(w)' /\ RowsAhead(w)' /\ RowAhead(w)'
      BY <1>2, <1>3, <2>1 DEF PassedBy, RowsAhead, RowAhead, Unfired, Firing
    <2> QED BY <1>1, <1>2, <2>2, PassAhead
  <1>4. CASE pass' = [pass EXCEPT ![w] = NoPass]
    <2>1. pass'[w].stage = "out" /\ pass'[w].rows = {}
      BY <1>4 DEF SkipInv, ScheduleDomains, NoPass
    <2>2. PassedBy(w)' /\ RowsAhead(w)' /\ RowAhead(w)'
      BY <2>1 DEF PassedBy, RowsAhead, RowAhead
    <2> QED BY <1>1, <1>2, <2>2, PassAhead
  <1> QED
    BY <1>3, <1>4

\* The row in hand fires: no other row of its schedule is ahead, and its next
\* run is about to move.
LEMMA FireAhead ==
    ASSUME Ahead, SkipInv, OnePass, NEW w \in Workers, NEW t \in Tasks, PassFire(w, t)
    PROVE  Ahead'
  <1>0. /\ pass[w].stage = "fire" /\ pass[w] \in PassRecord
        /\ pass[w].row.sid \in Schedules /\ pass[w].row.at \in Nat
    BY DEF PassFire, SkipInv, PassOK, DueRow
  <1>3. PICK s \in Schedules, at \in Nat : s = pass[w].row.sid /\ at = pass[w].row.at
    BY <1>0
  <1> DEFINE new == [sid |-> s, at |-> at, by |-> "cron", status |-> "queued"]
  <1>1. /\ pass[w].stage = "fire" /\ pass' = [pass EXCEPT ![w].stage = "advance"]
        /\ log' = [log EXCEPT ![t] = new] /\ UNCHANGED <<clock, sched, skips, req>>
    BY <1>3 DEF PassFire, EnqueueRun
  <1>2. new.sid = s /\ new.at = at /\ new.by = "cron"
    OBVIOUS
  <1> HIDE DEF new
  <1>5. log'[t] = new /\ \A u \in Tasks : u # t => log'[u] = log[u]
    BY <1>1 DEF SkipInv, ScheduleDomains
  <1>6. /\ pass'[w].row = pass[w].row /\ pass'[w].rows = pass[w].rows
        /\ pass'[w].stage = "advance" /\ pass'[w].now = pass[w].now
        /\ \A v \in Workers : v # w => pass'[v] = pass[v]
    BY <1>0, <1>1 DEF SkipInv, ScheduleDomains, PassRecord
  <1>7. PassedBy(w) /\ RowsAhead(w) /\ RowAhead(w)
    BY DEF Ahead
  <1>8. Unfired(s, at) /\ at <= pass[w].now /\ sched[s].life # "absent"
        /\ \A r \in pass[w].rows : r.sid # s
    BY <1>3, <1>1, <1>7 DEF RowAhead
  <1>9. \A u \in Tasks : \A x : Firing(u, x)' =>
          \/ u # t /\ Firing(u, x) /\ log'[u].at = log[u].at
          \/ u = t /\ x = s /\ log'[u].at = at
    BY <1>2, <1>5 DEF Firing
  <1>10. \A x, i : x # s /\ Unfired(x, i) => Unfired(x, i)'
    BY <1>9 DEF Unfired
  <1>11. FiredKnown'
    BY <1>1, <1>2, <1>5, <1>8 DEF Ahead, FiredKnown
  <1>12. FiredOnce'
    <2> SUFFICES ASSUME NEW x \in Schedules, NEW u \in Tasks, NEW v \in Tasks,
                        Firing(u, x)', Firing(v, x)', log'[u].at = log'[v].at
                 PROVE  u = v
      BY DEF FiredOnce
    <2>1. CASE u # t /\ v # t
      BY <2>1, <1>9 DEF Ahead, FiredOnce
    <2>2. ASSUME NEW y \in Tasks, y # t, Firing(y, s)' PROVE log'[y].at # at
      <3>1. Firing(y, s) /\ log'[y].at = log[y].at /\ log[y].at < at
        BY <2>2, <1>8, <1>9 DEF Unfired
      <3>2. log[y].at \in Nat
        BY DEF SkipInv, LogOK, LogRecord
      <3> QED BY <3>1, <3>2
    <2>3. CASE u = t /\ v # t
      BY <2>3, <2>2, <1>9
    <2>4. CASE u # t /\ v = t
      BY <2>4, <2>2, <1>9
    <2> QED BY <2>1, <2>3, <2>4
  <1>13. NextAhead'
    <2> SUFFICES ASSUME NEW x \in Schedules, Exists(x)
                 PROVE  Advancing(x)' \/ Unfired(x, sched[x].next)'
      BY <1>1 DEF NextAhead, Exists
    <2>1. CASE x = s
      BY <2>1, <1>3, <1>6 DEF Advancing
    <2>2. CASE x # s
      <3>1. ~Advancing(x)
        BY <2>2, <1>3, <1>1 DEF OnePass, Advancing
      <3> QED BY <3>1, <2>2, <1>1, <1>10 DEF Ahead, NextAhead
    <2> QED BY <2>1, <2>2
  <1>14. PassedBy(w)' /\ RowsAhead(w)' /\ RowAhead(w)'
    <2>1. PassedBy(w)'
      BY <1>1, <1>6, <1>7, <1>8, <1>9 DEF PassedBy
    <2>2. RowsAhead(w)'
      BY <1>1, <1>6, <1>7, <1>8, <1>10 DEF RowsAhead
    <2>3. RowAhead(w)'
      BY <1>3, <1>1, <1>6, <1>7, <1>8 DEF RowAhead
    <2> QED BY <2>1, <2>2, <2>3
  <1>15. ASSUME NEW v \in Workers, v # w PROVE PassedBy(v)' /\ RowsAhead(v)' /\ RowAhead(v)'
    <2>1. pass'[v].stage = "out" /\ pass'[v].rows = {}
      BY <1>1, <1>6, <1>15 DEF OnePass, Ahead, RowsAhead
    <2> QED BY <2>1 DEF PassedBy, RowsAhead, RowAhead
  <1> QED
    BY <1>11, <1>12, <1>13, <1>14, <1>15 DEF Ahead

\* The next run moves beyond the instant of the pass, and so beyond all that
\* has fired.
LEMMA AdvanceAhead ==
    ASSUME Ahead, SkipInv, ScheduleTypes, OnePass, NEW w \in Workers, PassAdvance(w)
    PROVE  Ahead'
  <1>0. pass[w].stage = "advance" /\ pass[w].row \in DueRow /\ pass[w] \in PassRecord
    BY DEF PassAdvance, SkipInv, PassOK
  <1>2. PICK s \in Schedules : s = pass[w].row.sid
    BY <1>0 DEF DueRow
  <1> DEFINE n == NextRun(pass[w].row.cron, pass[w].now)
  <1>1. /\ pass[w].stage = "advance"
        /\ sched' = IF Exists(s) THEN [sched EXCEPT ![s].next = n] ELSE sched
        /\ pass' = [pass EXCEPT ![w].stage = "next"]
        /\ UNCHANGED <<clock, skips, log, req>>
    BY <1>2 DEF PassAdvance
  <1>3. /\ pass[w].now \in Nat
        /\ n \in {i \in pass[w].row.cron : i > pass[w].now} \cup {Never} /\ n \in Nat
    BY <1>0, NextRunIn DEF DueRow, PassRecord
  <1>4. PassedBy(w) /\ RowsAhead(w) /\ RowAhead(w)
    BY DEF Ahead
  <1>5. Unfired(s, n)
    <2> SUFFICES ASSUME NEW t \in Tasks, Firing(t, s) PROVE log[t].at < n
      BY DEF Unfired
    <2>1. log[t].at \in Nat /\ log[t].at <= pass[w].now /\ log[t].at <= clock
      BY <1>1, <1>3, <1>4 DEF PassedBy, SkipInv, LogOK, LogRecord, Firing
    <2>2. CASE n > pass[w].now
      BY <2>1, <2>2, <1>3
    <2>3. CASE n = Never
      BY <2>1, <2>3, TimeAssumption DEF ScheduleTypes, Never, Times
    <2> QED BY <2>2, <2>3, <1>3
  <1>6. /\ pass'[w].rows = pass[w].rows /\ pass'[w].stage = "next" /\ pass'[w].now = pass[w].now
        /\ \A v \in Workers : v # w => pass'[v] = pass[v]
    BY <1>0, <1>1 DEF SkipInv, ScheduleDomains, PassRecord
  <1> HIDE DEF n
  <1>7. /\ \A x \in Schedules : sched'[x].life = sched[x].life
        /\ \A x \in Schedules : x # s => sched'[x] = sched[x]
        /\ Exists(s) => sched'[s].next = n
    BY <1>1, <1>3 DEF SkipInv, ScheduleDomains, ScheduleTypes, ScheduleRow
  <1>8. FiredKnown' /\ FiredOnce'
    BY <1>1, <1>7 DEF Ahead, FiredKnown, FiredOnce, Firing
  <1>9. \A x, i : Unfired(x, i)' <=> Unfired(x, i)
    BY <1>1 DEF Unfired, Firing
  <1>10. NextAhead'
    <2> SUFFICES ASSUME NEW x \in Schedules, Exists(x)' PROVE Unfired(x, sched[x].next)'
      BY DEF NextAhead
    <2>1. Exists(x)
      BY <1>7 DEF Exists
    <2>2. CASE x = s
      BY <2>1, <2>2, <1>5, <1>7, <1>9
    <2>3. CASE x # s
      <3>1. ~Advancing(x)
        BY <2>3, <1>2, <1>1 DEF OnePass, Advancing
      <3> QED BY <3>1, <2>1, <2>3, <1>7, <1>9 DEF Ahead, NextAhead
    <2> QED BY <2>2, <2>3
  <1>11. PassedBy(w)' /\ RowsAhead(w)' /\ RowAhead(w)'
    <2>1. \A r \in pass[w].rows : r.sid \in Schedules
      BY <1>0 DEF PassRecord, DueRow
    <2>2. PassedBy(w)'
      BY <1>1, <1>4, <1>6 DEF PassedBy, Firing
    <2>3. RowsAhead(w)'
      BY <2>1, <1>4, <1>6, <1>7, <1>9 DEF RowsAhead
    <2>4. RowAhead(w)'
      BY <1>4, <1>6 DEF RowAhead
    <2> QED BY <2>2, <2>3, <2>4
  <1>12. ASSUME NEW v \in Workers, v # w PROVE PassedBy(v)' /\ RowsAhead(v)' /\ RowAhead(v)'
    <2>1. pass'[v].stage = "out" /\ pass'[v].rows = {}
      BY <1>1, <1>6, <1>12 DEF OnePass, Ahead, RowsAhead
    <2> QED BY <2>1 DEF PassedBy, RowsAhead, RowAhead
  <1> QED
    BY <1>8, <1>10, <1>11, <1>12 DEF Ahead

\* What a scenario without updates and crashes does to schedules and passes.
LEMMA MCAhead ==
    ASSUME Ahead, SkipInv, HandInv, Placed, ScheduleTypes, Sole, MCNext,
           env \cap {"crash", "update"} = {}
    PROVE  Ahead'
  <1>0. OnePass
    BY SoleOnePass
  <1>1. ASSUME NEW w \in Workers, TickStep(w) PROVE Ahead'
    <2>1. CASE SchedulesBegin(w)
      <3>1. PassBegin(w) /\ worker[w].at = "schedules"
        BY <2>1 DEF SchedulesBegin, At
      <3>2. worker[w].boots > 0
        BY <3>1 DEF HandInv, HandPlaces, QueueTypes, WorkerRow
      <3>3. ASSUME NEW v \in Workers PROVE pass[v].stage = "out"
        <4>1. CASE v = w
          BY <4>1, <3>1 DEF Placed
        <4>2. CASE v # w
          <5>1. ~(worker[v].boots > 0) /\ worker[v].boots \in Nat
            BY <4>2, <3>2 DEF Sole, HandInv, QueueTypes, WorkerRow
          <5> QED BY <5>1 DEF Placed, HandInv, HandPlaces
        <4> QED BY <4>1, <4>2
      <3> QED BY <3>1, <3>3, BeginAhead
    <2>2. CASE PassQuiet(w)
      <3>1. CASE \E row \in pass[w].rows : PassRow(w, row)
        BY <3>1, RowStepAhead
      <3>2. CASE PassFull(w)
        BY <3>2, QuietAhead DEF PassFull
      <3>3. CASE PassAdvance(w)
        BY <3>3, <1>0, AdvanceAhead
      <3> QED BY <2>2, <3>1, <3>2, <3>3 DEF PassQuiet
    <2>3. CASE \E t \in Tasks : PassEnqueue(w, t)
      BY <2>3, <1>0, FireAhead DEF PassEnqueue
    <2>4. CASE SchedulesEnd(w)
      BY <2>4, QuietAhead DEF SchedulesEnd, PassEnd
    <2>5. CASE \E o \in Outcomes : RunOp(w, o)
      <3>1. PICK o \in Outcomes : RunOp(w, o)
        BY <2>5
      <3> DEFINE t == worker[w].task
                 row == [log[t] EXCEPT !.status = IF o = "ok" THEN "done" ELSE "failed"]
      <3>2. t \in Tasks
        BY <3>1, NoTaskAt DEF RunOp, HandInv, HandPlaces, At
      <3>3. log' = [log EXCEPT ![t] = row] /\ UNCHANGED <<sched, pass>>
        BY <3>1 DEF RunOp, FinalizeRun
      <3>4. row.by = log[t].by /\ row.at = log[t].at /\ row.sid = log[t].sid
        BY <3>2 DEF SkipInv, LogOK, LogRecord
      <3> HIDE DEF row
      <3> QED BY <3>2, <3>3, <3>4, LogAhead
    <2>6. CASE \/ SweepStep(w) \/ EventsBegin(w) \/ Dispatch(w) \/ EventsEnd(w)
               \/ Eligible(w) \/ ClaimNone(w) \/ Complete(w) \/ Fail(w)
               \/ \E t \in Tasks : ClaimOne(w, t)
               \/ \E o \in Outcomes : Handle(w, o)
      <3>1. UNCHANGED <<sched, log, pass>>
        BY <2>6 DEF SweepStep, EventsBegin, Dispatch, EventsEnd, Eligible, ClaimNone, Complete,
                    Fail, ClaimOne, Handle, scheduleVars
      <3> QED BY <3>1, SameAhead
    <2> QED BY <1>1, <2>1, <2>2, <2>3, <2>4, <2>5, <2>6 DEF TickStep
  <1>2. CASE ScheduleRequest
    <2>1. PICK s \in Schedules : \/ \E c \in Crons : CreateSchedule(s, c)
                                 \/ \E e \in BOOLEAN : SetEnabled(s, e)
                                 \/ DeleteSchedule(s)
      BY <1>2 DEF ScheduleRequest
    <2>2. \A x \in Schedules : sched[x] \in ScheduleRow
      BY DEF ScheduleTypes
    <2>3. CASE \E c \in Crons : CreateSchedule(s, c)
      <3>1. PICK c \in Crons : CreateSchedule(s, c)
        BY <2>3
      <3> DEFINE row == [life |-> "live", enabled |-> TRUE, cron |-> c, next |-> NextRun(c, clock)]
      <3>2. sched[s].life = "absent" /\ row.life = "live" /\ sched' = [sched EXCEPT ![s] = row]
            /\ UNCHANGED <<log, pass>>
        BY <3>1 DEF CreateSchedule
      <3> HIDE DEF row
      <3>3. sched'[s] = row /\ \A x \in Schedules : x # s => sched'[x] = sched[x]
        BY <3>2 DEF ScheduleTypes
      <3> QED BY <3>2, <3>3, SchedAhead DEF Exists
    <2>4. CASE \E e \in BOOLEAN : SetEnabled(s, e)
      <3>1. PICK e \in BOOLEAN : SetEnabled(s, e)
        BY <2>4
      <3>2. sched' = [sched EXCEPT ![s].enabled = e] /\ UNCHANGED <<log, pass>>
        BY <3>1 DEF SetEnabled
      <3>3. \A x \in Schedules : sched'[x].life = sched[x].life /\ sched'[x].next = sched[x].next
        BY <3>2, <2>2 DEF ScheduleTypes, ScheduleRow
      <3> QED BY <3>2, <3>3, SchedAhead DEF Exists
    <2>5. CASE DeleteSchedule(s)
      <3> DEFINE row == [NoSchedule EXCEPT !.life = "deleted"]
      <3>1. row.life = "deleted" /\ sched' = [sched EXCEPT ![s] = row] /\ UNCHANGED <<log, pass>>
        BY <2>5 DEF DeleteSchedule, NoSchedule
      <3> HIDE DEF row
      <3>2. sched'[s] = row /\ \A x \in Schedules : x # s => sched'[x] = sched[x]
        BY <3>1 DEF ScheduleTypes
      <3> QED BY <3>1, <3>2, SchedAhead DEF Exists
    <2> QED BY <2>1, <2>3, <2>4, <2>5
  <1>3. CASE RunRequest
    <2>1. PICK s \in Schedules, t \in Tasks : RunNow(s, t)
      BY <1>3 DEF RunRequest
    <2> DEFINE row == [sid |-> s, at |-> clock, by |-> "request", status |-> "queued"]
    <2>2. row.by # "cron" /\ row.sid = s /\ sched[s].life # "absent"
          /\ log' = [log EXCEPT ![t] = row] /\ UNCHANGED <<sched, pass>>
      BY <2>1 DEF RunNow, EnqueueRun, Exists
    <2> HIDE DEF row
    <2> QED BY <2>2, LogAhead
  <1>4. ASSUME NEW w \in Workers, StoreFault(w) PROVE Ahead'
    <2>1. \/ pass[w].stage = "fire" /\ pass' = [pass EXCEPT ![w].stage = "next"] /\ UNCHANGED <<sched, log>>
          \/ UNCHANGED <<sched, log, pass>>
      BY <1>4 DEF StoreFault, scheduleVars
    <2> QED BY <2>1, QuietAhead, SameAhead
  <1>5. CASE \/ SkipRequest \/ SubmitRequest \/ EmitRequest \/ RetryTime \/ LeaseTime \/ Clock
             \/ \E w \in Workers : Boot(w)
    <2>1. UNCHANGED <<sched, log, pass>>
      BY <1>5 DEF SkipRequest, SkipCheck, SkipWrite, Unskip, SubmitRequest, EmitRequest, RetryTime,
                  LeaseTime, Clock, Tick, Boot, scheduleVars
    <2> QED BY <2>1, SameAhead
  <1> QED
    BY <1>1, <1>2, <1>3, <1>4, <1>5 DEF MCNext, MCRequest, MCFault

LEMMA BootsGrow ==
    ASSUME HandInv, [Next]_vars, NEW v \in Workers
    PROVE  worker'[v].boots >= worker[v].boots
  <1> DEFINE Grown == worker'[v].boots >= worker[v].boots
  <1>0. worker[v] \in WorkerRow /\ worker[v].boots \in Nat /\ DOMAIN worker = Workers
    BY DEF HandInv, QueueTypes, WorkerRow
  <1>1. CASE worker' = worker
    BY <1>0, <1>1
  <1>2. ASSUME NEW w \in Workers, NEW place, Go(w, place) PROVE Grown
    BY <1>0, <1>2 DEF Go, WorkerRow
  <1>3. ASSUME NEW w \in Workers, NEW o, Report(w, o) PROVE Grown
    BY <1>0, <1>3 DEF Report, WorkerRow
  <1>4. ASSUME NEW w \in Workers, EndTick(w) PROVE Grown
    BY <1>0, <1>4 DEF EndTick, WorkerRow
  <1>5. ASSUME NEW w \in Workers, TickStep(w) PROVE Grown
    <2>1. CASE \/ SweepStep(w) \/ SchedulesBegin(w) \/ SchedulesEnd(w) \/ EventsBegin(w)
               \/ EventsEnd(w) \/ Eligible(w)
      BY <2>1, <1>2 DEF SweepStep, SchedulesBegin, SchedulesEnd, EventsBegin, EventsEnd, Eligible
    <2>2. CASE PassQuiet(w) \/ Dispatch(w) \/ \E t \in Tasks : PassEnqueue(w, t)
      BY <2>2, <1>1 DEF PassQuiet, Dispatch, PassEnqueue
    <2>3. CASE ClaimNone(w) \/ Complete(w) \/ Fail(w)
      BY <2>3, <1>4 DEF ClaimNone, Complete, Fail
    <2>4. CASE \E o \in Outcomes : Handle(w, o) \/ RunOp(w, o)
      BY <2>4, <1>3 DEF Handle, RunOp
    <2>5. CASE \E t \in Tasks : ClaimOne(w, t)
      <3>1. PICK t \in Tasks : worker' = [worker EXCEPT ![w].at = "handle", ![w].task = t]
        BY <2>5 DEF ClaimOne
      <3> QED BY <3>1, <1>0 DEF WorkerRow
    <2> QED BY <1>5, <2>1, <2>2, <2>3, <2>4, <2>5 DEF TickStep
  <1>6. ASSUME NEW w \in Workers, Boot(w) PROVE Grown
    <2>1. worker' = [worker EXCEPT ![w].at = "sweep", ![w].boots = @ + 1]
      BY <1>6 DEF Boot
    <2>2. worker'[v].boots = worker[v].boots \/ worker'[v].boots = worker[v].boots + 1
      BY <2>1, <1>0 DEF WorkerRow
    <2> QED BY <2>2, <1>0
  <1>7. ASSUME NEW w \in Workers, Crash(w) PROVE Grown
    <2>1. worker' = [worker EXCEPT ![w] = [Down EXCEPT !.boots = worker[w].boots]]
      BY <1>7 DEF Crash
    <2>2. worker'[v].boots = worker[v].boots
      BY <2>1, <1>0 DEF Down
    <2> QED BY <2>2, <1>0
  <1>8. ASSUME NEW w \in Workers, StoreFault(w) PROVE Grown
    BY <1>8, <1>1, <1>3 DEF StoreFault
  <1>9. CASE \/ ScheduleRequest \/ UpdateRequest \/ SkipRequest \/ RunRequest
             \/ SubmitRequest \/ EmitRequest \/ Clock \/ RetryTime \/ LeaseTime
    BY <1>9, <1>1 DEF ScheduleRequest, UpdateRequest, SkipRequest, RunRequest, SubmitRequest,
                      EmitRequest, Clock, RetryTime, LeaseTime
  <1>10. CASE UNCHANGED vars
    BY <1>10, <1>1 DEF vars
  <1> QED
    BY <1>5, <1>6, <1>7, <1>8, <1>9, <1>10 DEF Next

\* What holds of every behaviour holds of every scenario.
ScenarioInv == OutboxInv /\ HandInv /\ SkipInv /\ Placed /\ ScheduleTypes

LEMMA ScenarioInit == MCInit => ScenarioInv /\ Ahead
  <1> SUFFICES ASSUME MCInit PROVE ScenarioInv /\ Ahead
    OBVIOUS
  <1>1. /\ QueueInit /\ OutboxInit /\ worker = [w \in Workers |-> Down]
        /\ skips = {} /\ clock = 0 /\ log = [t \in Tasks |-> NoLog]
        /\ pass = [w \in Workers |-> NoPass] /\ req = [q \in Requests |-> NoRequest]
    BY DEF MCInit
  <1>0. PICK there \in SUBSET Schedules : \E c \in [there -> Crons] :
            sched = [s \in Schedules |->
                       IF s \in there THEN [life |-> "live", enabled |-> TRUE,
                                            cron |-> c[s], next |-> NextRun(c[s], 0)]
                       ELSE NoSchedule]
    BY DEF MCInit
  <1>2. PICK c \in [there -> Crons] :
            sched = [s \in Schedules |->
                       IF s \in there THEN [life |-> "live", enabled |-> TRUE,
                                            cron |-> c[s], next |-> NextRun(c[s], 0)]
                       ELSE NoSchedule]
    BY <1>0
  <1>3. \A s \in Schedules : sched[s] \in ScheduleRow /\ (Exists(s) => sched[s].cron \in Crons)
    <2> SUFFICES ASSUME NEW s \in Schedules
                 PROVE  sched[s] \in ScheduleRow /\ (Exists(s) => sched[s].cron \in Crons)
      OBVIOUS
    <2>1. CASE s \in there
      <3> DEFINE n == NextRun(c[s], 0)
      <3>1. c[s] \in Crons
        BY <2>1
      <3>2. n \in Times \cup {Never}
        <4>1. n \in {i \in c[s] : i > 0} \cup {Never} /\ c[s] \subseteq Times
          BY <3>1, NextRunIn, CronAssumption
        <4> QED BY <4>1
      <3>3. sched[s] = [life |-> "live", enabled |-> TRUE, cron |-> c[s], next |-> n]
        BY <1>2, <2>1
      <3> HIDE DEF n
      <3> QED BY <3>1, <3>2, <3>3 DEF ScheduleRow
    <2>2. CASE s \notin there
      BY <1>2, <2>2, TimeAssumption DEF NoSchedule, ScheduleRow, Times, Exists
    <2> QED BY <2>1, <2>2
  <1>4. /\ \A t \in Tasks : log[t] = NoLog
        /\ \A q \in Requests : req[q].op = None
        /\ \A w \in Workers : pass[w] = NoPass
    BY <1>1 DEF NoRequest
  <1>5. NoLog \in LogRecord /\ NoLog.by = None /\ NoLog.at = 0 /\ NoLog.sid = None
    BY DEF NoLog, LogRecord
  <1>6. NoPass \in PassRecord /\ NoPass.stage = "out" /\ NoPass.rows = {}
    BY DEF NoPass, PassRecord
  <1>7. ScheduleTypes
    BY <1>1, <1>2, <1>3, <1>4, TimeAssumption, RequestNone DEF ScheduleTypes, Times
  <1>8. SkipInv
    <2>1. ScheduleDomains
      BY <1>1, <1>2 DEF ScheduleDomains
    <2>2. SchedOK
      BY <1>3, TimeAssumption DEF SchedOK, ScheduleRow, Times, Never
    <2>3. ReqOK
      BY <1>4, RequestNone DEF ReqOK
    <2>4. PassOK /\ FireClear
      BY <1>4, <1>6 DEF PassOK, FireClear
    <2>5. LogOK
      BY <1>1, <1>4, <1>5 DEF LogOK
    <2>6. SkipsOK /\ SkipHonoured
      BY <1>1 DEF SkipsOK, SkipHonoured
    <2> QED BY <2>1, <2>2, <2>3, <2>4, <2>5, <2>6 DEF SkipInv
  <1>9. Placed
    BY <1>1, <1>6, WorkerBounds, OutcomeNone, OneProcess DEF OutboxInit, Placed, Down, NoDrain, Outcomes
  <1>10. Ahead
    <2>1. \A t \in Tasks, s \in Schedules : log[t].sid # s /\ ~Firing(t, s)
      BY <1>4, <1>5, ScheduleNone DEF Firing
    <2>2. FiredKnown /\ FiredOnce /\ NextAhead
      BY <2>1 DEF FiredKnown, FiredOnce, NextAhead, Unfired
    <2>3. \A w \in Workers : PassedBy(w) /\ RowsAhead(w) /\ RowAhead(w)
      BY <1>4, <1>6 DEF PassedBy, RowsAhead, RowAhead
    <2> QED BY <2>2, <2>3 DEF Ahead
  <1> QED
    BY <1>1, <1>7, <1>8, <1>9, <1>10, HandInitInv, OutboxInitInv DEF ScenarioInv

LEMMA ScenarioStep == ScenarioInv /\ [MCNext]_mcVars => ScenarioInv'
  <1>1. [MCNext]_mcVars => [Next]_vars
    BY MCStep DEF mcVars
  <1> QED
    BY <1>1, StepsOutbox, OutboxStepInv, HandStepInv, SkipStepInv, PlacedStepInv, ScheduleStep
       DEF ScenarioInv

LEMMA OnceFires == Ahead => FiresOnce
  <1> SUFFICES ASSUME Ahead, NEW s \in Schedules, NEW at \in Times
               PROVE  Cardinality(FiredAt(s, at)) <= 1
    BY DEF FiresOnce
  <1>1. \A t, u \in FiredAt(s, at) : t = u
    BY DEF FiredAt, Ahead, FiredOnce, Firing
  <1>2. CASE FiredAt(s, at) = {}
    BY <1>2, FS_EmptySet
  <1>3. CASE FiredAt(s, at) # {}
    <2>1. PICK t : FiredAt(s, at) = {t}
      BY <1>1, <1>3
    <2>2. Cardinality({t}) = 1
      BY FS_Singleton
    <2> QED BY <2>1, <2>2
  <1> QED
    BY <1>2, <1>3

\* An occurrence of a schedule is enqueued once, whatever requests create,
\* switch, skip, run and delete schedules meanwhile and whatever enqueue fails,
\* as long as no update is written and no process dies: the pass moves the next
\* run beyond its own instant before it looks at the schedule again
\* (run_due_schedules).  One process works on the queue; two of them can fire
\* the same occurrence.
THEOREM SteadyFirings == MCSpec => [](Sole => SteadyFiresOnce)
  <1> DEFINE Inv == env \cap {"crash", "update"} = {} /\ Sole => Ahead
  <1>1. MCInit => ScenarioInv /\ Inv
    BY ScenarioInit
  <1>2. ScenarioInv /\ [MCNext]_mcVars => ScenarioInv'
    BY ScenarioStep
  <1>3. ScenarioInv /\ Inv /\ [MCNext]_mcVars => Inv'
    <2> SUFFICES ASSUME ScenarioInv, Inv, [MCNext]_mcVars, env' \cap {"crash", "update"} = {}, Sole'
                 PROVE  Ahead'
      OBVIOUS
    <2>1. env' = env /\ [Next]_vars
      BY MCStep DEF mcVars
    <2>2. Sole
      <3>1. \A w \in Workers : worker'[w].boots >= worker[w].boots
        BY <2>1, BootsGrow DEF ScenarioInv
      <3>2. \A w \in Workers : worker'[w].boots \in Nat
        BY ScenarioStep DEF ScenarioInv, HandInv, QueueTypes, WorkerRow
      <3> QED BY <3>1, <3>2, SoleBefore DEF ScenarioInv
    <2>3. CASE MCNext
      BY <2>1, <2>2, <2>3, MCAhead DEF ScenarioInv
    <2>4. CASE UNCHANGED mcVars
      BY <2>1, <2>2, <2>4, SameAhead DEF mcVars, vars, scheduleVars
    <2> QED BY <2>3, <2>4
  <1>4. Inv => (Sole => SteadyFiresOnce)
    BY OnceFires DEF SteadyFiresOnce
  <1> HIDE DEF Inv
  <1> QED
    BY <1>1, <1>2, <1>3, <1>4, PTL DEF MCSpec

==============================================================================
