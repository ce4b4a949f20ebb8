------------------------------ MODULE MCWorker ------------------------------
(***************************************************************************)
(* Worker with its three tables in one database.  A behaviour              *)
(* belongs to one scenario of Scenarios: the kinds of requests and faults  *)
(* that happen in it, and the processes and schedules there are.           *)
(***************************************************************************)
EXTENDS Worker, TLC

CONSTANT Scenarios      \* sets of kinds of requests and faults

\* time: the clock runs; schedule: schedules are created, otherwise one exists
\* at the start; full: all exist; fleet: all workers start, otherwise one.
ASSUME ScenarioAssumption ==
    \A s \in Scenarios :
        s \subseteq {"time", "schedule", "update", "skip", "run", "submit",
                     "emit", "crash", "error", "lease", "full", "fleet"}

VARIABLE env    \* the scenario

mcVars == <<vars, env>>

MCInit ==
    /\ env \in Scenarios
    /\ QueueInit
    /\ OutboxInit
    /\ clock = 0
    /\ \E there \in SUBSET Schedules :
          /\ Cardinality(there) = IF "schedule" \in env THEN 0
                                  ELSE IF "full" \in env
                                  THEN Cardinality(Schedules) ELSE 1
          /\ \E c \in [there -> Crons] :
                sched = [s \in Schedules |->
                           IF s \in there
                           THEN [life |-> "live", enabled |-> TRUE,
                                 cron |-> c[s], next |-> NextRun(c[s], 0)]
                           ELSE NoSchedule]
    /\ skips = {}
    /\ log = [t \in Tasks |-> NoLog]
    /\ pass = [w \in Workers |-> NoPass]
    /\ req = [q \in Requests |-> NoRequest]
    /\ worker = [w \in Workers |-> Down]

MCRequest ==
    \/ "schedule" \in env /\ ScheduleRequest
    \/ "update" \in env /\ UpdateRequest
    \/ "skip" \in env /\ SkipRequest
    \/ "run" \in env /\ RunRequest
    \/ "submit" \in env /\ SubmitRequest
    \/ "emit" \in env /\ EmitRequest

Used(w) == worker[w].boots > 0

\* The last process to start does not die.
MCFault ==
    \/ \E w \in Workers :
          \/ /\ \/ "fleet" \in env
                \/ \A v \in Workers : Used(v) => v = w
             /\ Boot(w)
          \/ "crash" \in env /\ worker[w].boots < MaxBoots /\ Crash(w)
          \/ "error" \in env /\ StoreFault(w)
    \/ "lease" \in env /\ LeaseTime

MCNext ==
    /\ \/ \E w \in Workers : TickStep(w)
       \/ MCRequest \/ MCFault \/ RetryTime
       \/ "time" \in env /\ Clock
    /\ UNCHANGED env

MCSpec == MCInit /\ [][MCNext]_mcVars

MCFairSpec == MCSpec /\ Fairness

\* FiresOnce while no process dies and no update is under way: whatever else
\* happens to a schedule.
SteadyFiresOnce == env \cap {"crash", "update"} = {} => FiresOnce

\* HandledOnce where no mark_processed raises: retries for the sake of another
\* subscriber, crashes and a second worker included.
MarkedHandledOnce == "error" \notin env => HandledOnce

Symmetry == Permutations(Workers) \cup Permutations(Entities)
             \cup Permutations(Schedules)
=============================================================================
