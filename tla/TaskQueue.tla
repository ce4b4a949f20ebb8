------------------------------ MODULE TaskQueue ------------------------------
(***************************************************************************)
(* The durable task queue: the table tasks and the store methods on it.    *)
(* Every method is one transaction of LocalStore, hence one action.  The   *)
(* actions constrain only the variables of this module; Worker composes    *)
(* them with the rest of a worker tick.                                    *)
(*                                                                         *)
(* Time.  A lease either still runs or has expired, and a task is due when *)
(* its available_at has passed.  Every caller of enqueue leaves priority   *)
(* and delay_s at their defaults, so ORDER BY priority, available_at is    *)
(* the order in which the available_at of the tasks passed: line.          *)
(***************************************************************************)
EXTENDS Naturals, FiniteSets, Sequences

Seqs == INSTANCE SequencesExt

CONSTANTS
    Workers,        \* worker processes
    MaxTasks,       \* tasks are enqueued in the order 1 .. MaxTasks
    MaxRetries,     \* max_retries of a task
    MaxPending,     \* MAX_PENDING_TASKS
    MaxConcurrent,  \* MAX_CONCURRENT_TASKS
    Kinds,          \* task_type
    None            \* SQL NULL

Tasks == 1 .. MaxTasks

ASSUME QueueBounds == /\ MaxTasks \in Nat
                      /\ MaxRetries \in Nat
                      /\ MaxPending \in Nat
                      /\ MaxConcurrent \in Nat
ASSUME QueueNone == None \notin Workers \cup Kinds \cup Nat

VARIABLES
    task,       \* task[t]: the tasks row
    line,       \* the tasks that came due, by available_at
    starts      \* starts[t]: how often t was claimed (auxiliary)

queueVars == <<task, line, starts>>

NoTask == [status |-> "absent", kind |-> None, retries |-> 0, owner |-> None,
           leased |-> FALSE]

TaskRow == [status : {"absent", "pending", "running", "done", "failed"},
            kind : Kinds \cup {None}, retries : Nat,
            owner : Workers \cup {None}, leased : BOOLEAN]

QueueInit ==
    /\ task = [t \in Tasks |-> NoTask]
    /\ line = <<>>
    /\ starts = [t \in Tasks |-> 0]

InState(status) == {t \in Tasks : task[t].status = status}

Settled(t) == task[t].status \in {"done", "failed"}

\* A task is in the line at most once.
Without(t) == Seqs!RemoveFirst(line, t)

-----------------------------------------------------------------------------

\* enqueue: inside the transaction of the caller.
NextTask(t) == /\ task[t].status = "absent"
               /\ \A u \in Tasks : u < t => task[u].status # "absent"

BacklogFull == Cardinality(InState("pending")) >= MaxPending

Enqueue(t, kind) ==
    /\ NextTask(t)
    /\ ~BacklogFull
    /\ task' = [task EXCEPT ![t] = [NoTask EXCEPT !.status = "pending",
                                                  !.kind = kind]]
    /\ line' = Append(line, t)
    /\ UNCHANGED starts

\* The cap is read by eligible_tenants, in no transaction with the claim.
BelowCap == Cardinality(InState("running")) < MaxConcurrent

Claimable == {i \in 1 .. Len(line) : task[line[i]].status = "pending"}

ClaimTask(w, t) ==
    /\ \E i \in Claimable : /\ line[i] = t
                            /\ \A j \in Claimable : i <= j
    /\ task' = [task EXCEPT ![t] = [task[t] EXCEPT !.status = "running",
                                                   !.owner = w,
                                                   !.leased = TRUE]]
    /\ starts' = [starts EXCEPT ![t] = starts[t] + 1]
    /\ UNCHANGED line

\* Neither outcome looks at the status or the owner of the row.
CompleteTask(t) ==
    /\ task' = [task EXCEPT ![t].status = "done"]
    /\ UNCHANGED <<line, starts>>

\* Mutant of Attempted: the limit is not looked at.
AttemptedUnlimited(row) ==
    [row EXCEPT !.status = "pending", !.retries = row.retries + 1,
                !.owner = None, !.leased = FALSE]
\* The row after one more failed attempt.
Attempted(row) ==
    IF row.retries + 1 <= MaxRetries
    THEN [row EXCEPT !.status = "pending", !.retries = row.retries + 1,
                     !.owner = None, !.leased = FALSE]
    ELSE [row EXCEPT !.status = "failed", !.retries = row.retries + 1]

\* The retry_at of a retry is thirty seconds ahead: the task leaves the line
\* until ComesDue.
FailTask(t) ==
    /\ task' = [task EXCEPT ![t] = Attempted(task[t])]
    /\ line' = IF task'[t].status = "pending" THEN Without(t) ELSE line
    /\ UNCHANGED starts

SweepLeases ==
    /\ task' = [t \in Tasks |->
                  IF task[t].status = "running" /\ ~task[t].leased
                  THEN [task[t] EXCEPT !.status = "pending", !.owner = None]
                  ELSE task[t]]
    /\ UNCHANGED <<line, starts>>

\* Mutant of RecoverOrphans: as SweepLeases does it, without counting.
RecoverUncounted ==
    /\ task' = [t \in Tasks |->
                  IF task[t].status = "running"
                  THEN [task[t] EXCEPT !.status = "pending", !.owner = None]
                  ELSE task[t]]
    /\ UNCHANGED <<line, starts>>

\* recover_orphan_tasks: every running task, whoever runs it; available_at and
\* with it the place in the line stay.
RecoverOrphans ==
    /\ task' = [t \in Tasks |-> IF task[t].status = "running"
                                THEN Attempted(task[t]) ELSE task[t]]
    /\ UNCHANGED <<line, starts>>

-----------------------------------------------------------------------------
(* Time.                                                                   *)

ComesDue(t) ==
    /\ task[t].status = "pending"
    /\ \A i \in 1 .. Len(line) : line[i] # t
    /\ line' = Append(line, t)
    /\ UNCHANGED <<task, starts>>

LeaseExpires(t) ==
    /\ task[t].status = "running" /\ task[t].leased
    /\ task' = [task EXCEPT ![t].leased = FALSE]
    /\ UNCHANGED <<line, starts>>
=============================================================================
