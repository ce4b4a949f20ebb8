------------------------------ MODULE TodoStore ------------------------------
(***************************************************************************)
(* The part of LocalStore that the agent runtime lives on: the tables      *)
(* models, agents, todos, todo_runs and the messages of the todos'         *)
(* conversations.  Every store method runs in one SQLite transaction, so   *)
(* every method is one action; a method that raises Conflict or NotFound   *)
(* rolls back, so its failure is the action not being enabled.             *)
(*                                                                         *)
(* The specification is the most general client of the store: any caller   *)
(* (API process, worker, a worker that stalled and woke up again) may call *)
(* any method with any argument at any time.  AgentRuntime restricts the   *)
(* callers to the code that exists.                                        *)
(***************************************************************************)
EXTENDS Naturals, FiniteSets, Sequences

CONSTANTS
    Agents,         \* ids of configured agents
    Models,         \* ids of registered models
    MaxTodos,       \* todos are created in the order 1 .. MaxTodos
    MaxRuns,        \* claims (generations) are numbered 1 .. MaxRuns
    Complexities,   \* simple | medium | hard | complex
    Priorities,     \* todo priorities, 0 being that of a new todo
    Capacities,     \* admissible values of max_concurrency
    None,           \* SQL NULL
    User            \* author of the messages a requester appends

Todos == 1 .. MaxTodos
Runs == 1 .. MaxRuns

ASSUME BoundsAssumption == MaxTodos \in Nat /\ MaxRuns \in Nat
ASSUME CapacityAssumption == Capacities \subseteq Nat \ {0}
ASSUME PriorityAssumption == Priorities \subseteq Nat /\ 0 \in Priorities
ASSUME NoneAssumption ==
    None \notin Agents \cup Models \cup Complexities \cup Nat
ASSUME UserAssumption == User \notin Nat

VARIABLES
    model,      \* model[m]: status and max_concurrency
    agent,      \* agent[a]: the agents row
    fresh,      \* fresh[a]: last_heartbeat is less than 30 seconds old
    todo,       \* todo[t]: the todos row; created_at is the order of the ids
    run,        \* run[r]: the todo_runs ledger row of generation r
    script      \* script[t]: authors of the messages of t's conversation

storeVars == <<model, agent, fresh, todo, run, script>>

NoModel == [status |-> "absent", cap |-> 1]
NoAgent == [life |-> "absent", status |-> "offline", cur |-> None,
            model |-> None, cx |-> None, enabled |-> FALSE]
NoTodo  == [status |-> "absent", agent |-> None, pref |-> None, cx |-> None,
            prio |-> 0, cancel |-> FALSE, token |-> None, conv |-> FALSE]
NoRun   == [status |-> "unused", todo |-> None, agent |-> None,
            model |-> None]

ModelRow == [status : {"absent", "ready", "paused", "disabled"},
             cap : Capacities \cup {1}]
AgentRow == [life : {"absent", "live", "deleted"},
             status : {"idle", "busy", "offline"},
             cur : Todos \cup {None}, model : Models \cup {None},
             cx : Complexities \cup {None}, enabled : BOOLEAN]
TodoRow  == [status : {"absent", "queued", "running", "done", "failed",
                       "deleted"},
             agent : Agents \cup {None}, pref : Agents \cup {None},
             cx : Complexities \cup {None}, prio : Priorities,
             cancel : BOOLEAN, token : Runs \cup {None}, conv : BOOLEAN]
RunRow   == [status : {"unused", "running", "done", "failed", "cancelled",
                       "stale"},
             todo : Todos \cup {None}, agent : Agents \cup {None},
             model : Models \cup {None}]

StoreInit ==
    /\ model = [m \in Models |-> NoModel]
    /\ agent = [a \in Agents |-> NoAgent]
    /\ fresh = [a \in Agents |-> FALSE]
    /\ todo = [t \in Todos |-> NoTodo]
    /\ run = [r \in Runs |-> NoRun]
    /\ script = [t \in Todos |-> <<>>]

-----------------------------------------------------------------------------
(* Models: models:create, update, pause, resume, delete.                   *)

Ready(m) == m \in Models /\ model[m].status = "ready"

CreateModel(m, c) ==
    /\ model[m].status = "absent"
    /\ model' = [model EXCEPT ![m] = [status |-> "ready", cap |-> c]]
    /\ UNCHANGED <<agent, fresh, todo, run, script>>

\* Nothing compares the new limit with the work already running.
SetCapacity(m, c) ==
    /\ model[m].status # "absent"
    /\ model' = [model EXCEPT ![m].cap = c]
    /\ UNCHANGED <<agent, fresh, todo, run, script>>

\* paused and ready are reached from each other only; no reference check.
SetModelStatus(m, target) ==
    /\ model[m].status = IF target = "paused" THEN "ready" ELSE "paused"
    /\ model' = [model EXCEPT ![m].status = target]
    /\ UNCHANGED <<agent, fresh, todo, run, script>>

DeleteModel(m) ==
    /\ model[m].status # "absent"
    /\ \A a \in Agents : agent[a].life = "live" => agent[a].model # m
    /\ model' = [model EXCEPT ![m].status = "disabled"]
    /\ UNCHANGED <<agent, fresh, todo, run, script>>

-----------------------------------------------------------------------------
(* Agents: agents:create, update, delete.                                  *)

CreateAgent(a, m, x) ==
    /\ agent[a].life = "absent"
    /\ Ready(m)
    /\ agent' = [agent EXCEPT ![a] =
                    [life |-> "live", status |-> "offline", cur |-> None,
                     model |-> m, cx |-> x, enabled |-> TRUE]]
    /\ UNCHANGED <<model, fresh, todo, run, script>>

\* Only real changes are protected while the agent is busy, and a change of
\* enabled, in either direction, resets the runtime state.
UpdateAgent(a, m, x, e) ==
    /\ agent[a].life = "live"
    /\ <<m, x, e>> # <<agent[a].model, agent[a].cx, agent[a].enabled>>
    /\ m # agent[a].model => Ready(m)
    /\ agent[a].status # "busy"
    /\ agent' = [agent EXCEPT ![a] =
                    IF e = agent[a].enabled
                    THEN [agent[a] EXCEPT !.model = m, !.cx = x]
                    ELSE [agent[a] EXCEPT !.model = m, !.cx = x, !.enabled = e,
                                          !.status = "offline", !.cur = None]]
    /\ UNCHANGED <<model, fresh, todo, run, script>>

DeleteAgent(a) ==
    /\ agent[a].life = "live"
    /\ agent[a].status # "busy"
    /\ agent' = [agent EXCEPT ![a] =
                    [agent[a] EXCEPT !.life = "deleted", !.enabled = FALSE,
                                     !.status = "offline", !.model = None,
                                     !.cur = None]]
    /\ UNCHANGED <<model, fresh, todo, run, script>>

-----------------------------------------------------------------------------
(* Todos: todos:create, set_priority, stop, delete, continue.              *)

\* Mutant: the generation is identified by its agent, not by its token.
OwnsByAgent(r) ==
    /\ run[r].todo \in Todos
    /\ todo[run[r].todo].status = "running"
    /\ todo[run[r].todo].agent = run[r].agent

\* The exact generation r still holds its todo.
Owns(r) ==
    /\ run[r].todo \in Todos
    /\ todo[run[r].todo].status = "running"
    /\ todo[run[r].todo].token = r
    /\ todo[run[r].todo].agent = run[r].agent

Cancelled(r) == todo[run[r].todo].cancel
\* Mutant: a requested stop is not looked at.
MayProceedStopped(r) == Owns(r)

MayProceed(r) == Owns(r) /\ ~Cancelled(r)

\* Mutants: the todo takes over the status of its ledger row; the token stays.
RequeuedAsCancelled(row) == [row EXCEPT !.status = "cancelled", !.agent = None,
                                        !.cancel = FALSE, !.token = None]
RequeuedWithToken(row) == [row EXCEPT !.status = "queued", !.agent = None,
                                      !.cancel = FALSE]

\* What every path back into the queue resets.
Requeued(row) == [row EXCEPT !.status = "queued", !.agent = None,
                             !.cancel = FALSE, !.token = None]

\* Consecutive messages of one author count as one block.
Signed(s, author) ==
    IF s # <<>> /\ s[Len(s)] = author THEN s ELSE Append(s, author)

CreateTodo(t, x, p) ==
    /\ todo[t].status = "absent"
    /\ \A u \in Todos : u < t => todo[u].status # "absent"
    /\ p # None => /\ agent[p].life = "live"
                   /\ agent[p].enabled
                   /\ agent[p].cx = x
    /\ todo' = [todo EXCEPT ![t] = [NoTodo EXCEPT !.status = "queued",
                                                  !.cx = x, !.pref = p]]
    /\ UNCHANGED <<model, agent, fresh, run, script>>

SetPriority(t, p) ==
    /\ todo[t].status \notin {"absent", "deleted"}
    /\ todo' = [todo EXCEPT ![t].prio = p]
    /\ UNCHANGED <<model, agent, fresh, run, script>>

\* The handler reads the row first: r is the generation it saw there.
RequestStop(r) ==
    /\ Owns(r)
    /\ todo' = [todo EXCEPT ![run[r].todo].cancel = TRUE]
    /\ UNCHANGED <<model, agent, fresh, run, script>>

DeleteTodo(t) ==
    /\ todo[t].status \in {"queued", "done", "failed"}
    /\ todo' = [todo EXCEPT ![t] = [NoTodo EXCEPT !.status = "deleted"]]
    /\ UNCHANGED <<model, agent, fresh, run, script>>

\* One transaction: the requester's message and the way back to the queue.
ContinueTodo(t) ==
    /\ todo[t].status \in {"done", "failed"}
    /\ todo[t].conv
    /\ script' = [script EXCEPT ![t] = Signed(script[t], User)]
    /\ todo' = [todo EXCEPT ![t] = Requeued(todo[t])]
    /\ UNCHANGED <<model, agent, fresh, run>>

-----------------------------------------------------------------------------
(* Claiming.                                                               *)

\* Mutants: a stopped todo gives its place back before its execution ends; a
\* finished todo, which keeps its assignee, never does.
RunningUnstopped(m) == {t \in Todos : /\ todo[t].status = "running"
                                      /\ ~todo[t].cancel
                                      /\ todo[t].agent # None
                                      /\ agent[todo[t].agent].model = m}
AssignedTo(m) == {t \in Todos : /\ todo[t].agent # None
                                /\ agent[todo[t].agent].model = m}

\* Capacity in use is derived: running todos by the model their assigned
\* agent has now.
RunningOn(m) == {t \in Todos : /\ todo[t].status = "running"
                               /\ todo[t].agent # None
                               /\ agent[todo[t].agent].model = m}

Eligible(a) == {t \in Todos : /\ todo[t].status = "queued"
                              /\ todo[t].cx = agent[a].cx
                              /\ todo[t].pref \in {None, a}}

\* ORDER BY priority DESC, created_at ASC
Precedes(t, u) == \/ todo[t].prio > todo[u].prio
                  \/ todo[t].prio = todo[u].prio /\ t <= u

NextRun(r) == /\ run[r].status = "unused"
              /\ \A q \in Runs : q < r => run[q].status # "unused"

Supervised(a) == agent[a].life = "live" /\ agent[a].enabled

MayClaim(a) ==
    /\ Supervised(a)
    /\ agent[a].status = "idle"
    /\ Ready(agent[a].model)
    /\ Cardinality(RunningOn(agent[a].model)) < model[agent[a].model].cap

ClaimTodo(a, t, r) ==
    /\ MayClaim(a)
    /\ t \in Eligible(a)
    /\ \A u \in Eligible(a) : Precedes(t, u)
    /\ NextRun(r)
    /\ agent' = [agent EXCEPT ![a] = [agent[a] EXCEPT !.status = "busy",
                                                      !.cur = t]]
    /\ todo' = [todo EXCEPT ![t] = [todo[t] EXCEPT !.status = "running",
                                                   !.agent = a, !.token = r]]
    /\ run' = [run EXCEPT ![r] = [status |-> "running", todo |-> t,
                                  agent |-> a, model |-> agent[a].model]]
    /\ UNCHANGED <<model, fresh, script>>

-----------------------------------------------------------------------------
(* Outcomes.  Both release the agent in the same transaction, and a        *)
(* release that matches no row rolls everything back.                      *)

Holds(a, t) == agent[a].status = "busy" /\ agent[a].cur = t

\* Mutant: current_todo_id is not cleared.
ReleasedWithTodo(row) == [row EXCEPT !.status = "idle"]

Released(row) == [row EXCEPT !.status = "idle", !.cur = None]

\* The todo keeps assigned_agent_id as attribution of the settled run.
FinishTodo(r, outcome) ==
    /\ MayProceed(r)
    /\ Holds(run[r].agent, run[r].todo)
    /\ LET t == run[r].todo  a == run[r].agent
       IN  /\ todo' = [todo EXCEPT ![t] = [todo[t] EXCEPT !.status = outcome,
                                                          !.token = None]]
           /\ agent' = [agent EXCEPT ![a] = Released(agent[a])]
    /\ run' = [run EXCEPT ![r].status = outcome]
    /\ UNCHANGED <<model, fresh, script>>

RequeueCancelled(r) ==
    /\ Owns(r) /\ Cancelled(r)
    /\ Holds(run[r].agent, run[r].todo)
    /\ LET t == run[r].todo  a == run[r].agent
       IN  /\ todo' = [todo EXCEPT ![t] = Requeued(todo[t])]
           /\ agent' = [agent EXCEPT ![a] = Released(agent[a])]
    /\ run' = [run EXCEPT ![r].status = "cancelled"]
    /\ UNCHANGED <<model, fresh, script>>

-----------------------------------------------------------------------------
(* Transcript of a run: both guards are evaluated in the writing           *)
(* transaction.                                                            *)

LinkConversation(r) ==
    /\ MayProceed(r)
    /\ ~todo[run[r].todo].conv
    /\ todo' = [todo EXCEPT ![run[r].todo].conv = TRUE]
    /\ UNCHANGED <<model, agent, fresh, run, script>>

\* Mutant: the guard knows the agent and the conversation, not the token.
CanWriteByAgent(r) ==
    /\ run[r].todo \in Todos
    /\ todo[run[r].todo].status = "running"
    /\ todo[run[r].todo].agent = run[r].agent
    /\ ~Cancelled(r)
    /\ todo[run[r].todo].conv

CanWrite(r) == MayProceed(r) /\ todo[run[r].todo].conv

WriteTranscript(r) ==
    /\ CanWrite(r)
    /\ LET t == run[r].todo
       IN  script' = [script EXCEPT ![t] = Signed(script[t], r)]
    /\ UNCHANGED <<model, agent, fresh, todo, run>>

-----------------------------------------------------------------------------
(* Heartbeats and their expiry.  The caller passes the timestamp; "recent"  *)
(* says that it is itself less than thirty seconds old when it is written. *)

\* agent_run_heartbeat: only for the exact generation that still owns the todo.
RunHeartbeat(r, recent) ==
    LET a == run[r].agent
    IN  /\ Owns(r)
        /\ Supervised(a)
        /\ fresh' = [fresh EXCEPT ![a] = recent]
        /\ agent' = [agent EXCEPT ![a] = [agent[a] EXCEPT !.status = "busy",
                                                 !.cur = run[r].todo]]
        /\ UNCHANGED <<model, todo, run, script>>

\* agent_heartbeat as the supervisor calls it: it reports a status and either
\* clears current_todo_id or keeps it.  Nothing compares the row with the one
\* the caller saw.
AgentHeartbeat(a, status, cur, recent) ==
    /\ Supervised(a)
    /\ fresh' = [fresh EXCEPT ![a] = recent]
    /\ agent' = [agent EXCEPT ![a] = [agent[a] EXCEPT !.status = status,
                                                      !.cur = cur]]
    /\ UNCHANGED <<model, todo, run, script>>

\* One transaction over all agents that are stale at the caller's clock.
SweptTodos(S) == {t \in Todos : /\ todo[t].status = "running"
                                /\ \E a \in S : agent[a].cur = t}

\* Mutants: the ledger row stays running; the todo stays with the dead run.
SweepForgetsLedger(S) ==
    /\ \A a \in S : agent[a].status # "offline" /\ ~fresh[a]
    /\ agent' = [a \in Agents |->
                   IF a \in S
                   THEN [agent[a] EXCEPT !.status = "offline", !.cur = None]
                   ELSE agent[a]]
    /\ todo' = [t \in Todos |-> IF t \in SweptTodos(S) THEN Requeued(todo[t])
                                ELSE todo[t]]
    /\ UNCHANGED <<model, fresh, run, script>>
SweepForgetsTodo(S) ==
    /\ \A a \in S : agent[a].status # "offline" /\ ~fresh[a]
    /\ agent' = [a \in Agents |->
                   IF a \in S
                   THEN [agent[a] EXCEPT !.status = "offline", !.cur = None]
                   ELSE agent[a]]
    /\ UNCHANGED <<model, fresh, todo, run, script>>

SweepStale(S) ==
    /\ \A a \in S : agent[a].status # "offline" /\ ~fresh[a]
    /\ agent' = [a \in Agents |->
                   IF a \in S
                   THEN [agent[a] EXCEPT !.status = "offline", !.cur = None]
                   ELSE agent[a]]
    /\ todo' = [t \in Todos |-> IF t \in SweptTodos(S) THEN Requeued(todo[t])
                                ELSE todo[t]]
    /\ run' = [r \in Runs |->
                 IF /\ run[r].status = "running"
                    /\ run[r].todo \in SweptTodos(S)
                    /\ todo[run[r].todo].token = r
                 THEN [run[r] EXCEPT !.status = "stale"]
                 ELSE run[r]]
    /\ UNCHANGED <<model, fresh, script>>

\* Thirty seconds pass without a heartbeat of a.
Elapse(a) ==
    /\ fresh[a]
    /\ fresh' = [fresh EXCEPT ![a] = FALSE]
    /\ UNCHANGED <<model, agent, todo, run, script>>

-----------------------------------------------------------------------------

ModelStep ==
    \E m \in Models :
        \/ \E c \in Capacities : CreateModel(m, c) \/ SetCapacity(m, c)
        \/ \E s \in {"paused", "ready"} : SetModelStatus(m, s)
        \/ DeleteModel(m)

AgentStep ==
    \E a \in Agents :
        \/ \E m \in Models, x \in Complexities :
              \/ CreateAgent(a, m, x)
              \/ \E e \in BOOLEAN : UpdateAgent(a, m, x, e)
        \/ DeleteAgent(a)

TodoStep ==
    \/ \E t \in Todos :
          \/ \E x \in Complexities, p \in Agents \cup {None} :
                CreateTodo(t, x, p)
          \/ \E p \in Priorities : SetPriority(t, p)
          \/ DeleteTodo(t)
          \/ ContinueTodo(t)
    \/ \E r \in Runs : RequestStop(r)

RunStep ==
    \/ \E a \in Agents, t \in Todos, r \in Runs : ClaimTodo(a, t, r)
    \/ \E r \in Runs :
          \/ \E o \in {"done", "failed"} : FinishTodo(r, o)
          \/ RequeueCancelled(r)
          \/ LinkConversation(r)
          \/ WriteTranscript(r)

LivenessStep ==
    \/ \E recent \in BOOLEAN :
          \/ \E r \in Runs : RunHeartbeat(r, recent)
          \/ \E a \in Agents :
                \/ AgentHeartbeat(a, "offline", None, recent)
                \/ AgentHeartbeat(a, "idle", None, recent)
                \/ AgentHeartbeat(a, "idle", agent[a].cur, recent)
    \/ \E a \in Agents : Elapse(a)
    \/ \E S \in SUBSET Agents : S # {} /\ SweepStale(S)

StoreNext == ModelStep \/ AgentStep \/ TodoStep \/ RunStep \/ LivenessStep

StoreSpec == StoreInit /\ [][StoreNext]_storeVars

-----------------------------------------------------------------------------
(* Properties.                                                             *)

\* Every row has the columns and the value ranges of its table.
StoreTypeOK ==
    /\ model \in [Models -> ModelRow]
    /\ agent \in [Agents -> AgentRow]
    /\ fresh \in [Agents -> BOOLEAN]
    /\ todo \in [Todos -> TodoRow]
    /\ run \in [Runs -> RunRow]
    /\ script \in [Todos -> Seq(Runs \cup {User})]

\* The ledger and the queue tell the same story whoever calls what in which
\* order: a generation is running in todo_runs exactly while a running todo
\* carries its token and its agent, so no claim, sweep, stop or finish leaves a
\* running ledger row behind or a running todo without one.
LedgerMatches ==
    /\ \A r \in Runs : run[r].status = "running" <=> Owns(r)
    /\ \A t \in Todos :
          /\ todo[t].status = "running" <=> todo[t].token # None
          /\ todo[t].token # None => /\ run[todo[t].token].todo = t
                                     /\ Owns(todo[t].token)

\* What sweep_stale_workers relies on when it requeues current_todo_id of a
\* stale agent without looking at the assignee: the todo an agent points to is
\* running and assigned to that very agent, so a sweep never takes a todo away
\* from another agent.  A busy agent points to a todo.
AgentCurrent ==
    \A a \in Agents :
        /\ agent[a].status = "busy" => agent[a].cur # None
        /\ agent[a].cur # None => /\ todo[agent[a].cur].status = "running"
                                  /\ todo[agent[a].cur].agent = a

\* The fence around transcripts (run_token in _guard_runtime_write): a
\* generation writes one uninterrupted block; once another author has written,
\* or the generation was swept, stopped or settled, it never writes again.
TranscriptFenced ==
    \A t \in Todos : \A i \in 1 .. Len(script[t]) :
        script[t][i] # User =>
            /\ run[script[t][i]].todo = t
            /\ i < Len(script[t]) => run[script[t][i]].status # "running"
            /\ \A j \in 1 .. Len(script[t]) :
                  script[t][j] = script[t][i] => i = j

\* A generation has one outcome: whatever late calls arrive from a worker that
\* was swept or a stop that raced the finish, done, failed, cancelled and stale
\* rows never change, and a todo settles only through its own generation.
OutcomeStep ==
    /\ \A r \in Runs : run[r].status \notin {"unused", "running"}
                         => run'[r] = run[r]
    /\ \A t \in Todos :
          (/\ todo[t].status \notin {"done", "failed"}
           /\ todo'[t].status \in {"done", "failed"})
          => /\ todo[t].token \in Runs
             /\ ~todo[t].cancel
             /\ run'[todo[t].token].status = todo'[t].status

OutcomeFinal == [][OutcomeStep]_storeVars
=============================================================================
