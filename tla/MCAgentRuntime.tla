--------------------------- MODULE MCAgentRuntime ---------------------------
(***************************************************************************)
(* AgentRuntime from a store that already has its models and agents.  A    *)
(* behaviour belongs to one scenario of Scenarios: the kinds of requests   *)
(* and faults that happen in it, and the agents and models there are.      *)
(***************************************************************************)
EXTENDS AgentRuntime, TLC

CONSTANTS Scenarios,    \* sets of kinds of requests and faults
          InitCap,      \* max_concurrency of the models at the start
          simple

Disturbing == {"pause", "model", "agent", "stop", "continue", "delete",
               "crash", "close", "error"}

\* solo: only one of the agents; mono: only one of the models.
ASSUME ScenarioAssumption ==
    \A s \in Scenarios :
        s \subseteq Disturbing \cup {"capacity", "stall", "elapse", "solo", "mono"}

VARIABLE env    \* the scenario

mcVars == <<vars, env>>

MCInit ==
    /\ env \in Scenarios
    /\ RuntimeInit
    /\ \E there \in SUBSET Models, team \in SUBSET Agents :
          /\ IF "mono" \in env THEN Cardinality(there) = 1 ELSE there = Models
          /\ IF "solo" \in env THEN Cardinality(team) = 1 ELSE team = Agents
          /\ model = [m \in Models |-> IF m \in there
                                       THEN [status |-> "ready", cap |-> InitCap]
                                       ELSE NoModel]
          /\ \E bind \in [Agents -> there] :
                agent = [a \in Agents |->
                           IF a \in team
                           THEN [NoAgent EXCEPT !.life = "live",
                                                !.model = bind[a],
                                                !.cx = simple, !.enabled = TRUE]
                           ELSE NoAgent]
    /\ fresh = [a \in Agents |-> FALSE]
    /\ todo = [t \in Todos |-> [NoTodo EXCEPT !.status = "queued",
                                              !.cx = simple]]
    /\ run = [r \in Runs |-> NoRun]
    /\ script = [t \in Todos |-> <<>>]

MCClient ==
    /\ \/ /\ "pause" \in env
          /\ \E m \in Models, s \in {"paused", "ready"} : SetModelStatus(m, s)
       \/ /\ "capacity" \in env
          /\ \E m \in Models, c \in Capacities : SetCapacity(m, c)
       \/ "model" \in env /\ ModelStep
       \/ "agent" \in env /\ AgentStep
       \/ "stop" \in env /\ \E r \in Runs : RequestStop(r)
       \/ "continue" \in env /\ \E t \in Todos : ContinueTodo(t)
       \/ "delete" \in env /\ \E t \in Todos : DeleteTodo(t)
    /\ UNCHANGED <<sup, exec>>

\* Another process runs, or one can still be started: the last process neither
\* crashes nor is shut down.
Replaceable(w) ==
    \E v \in Workers :
        \/ sup[v].boots < MaxBoots
        \/ v # w /\ sup[v].pc \notin {"down", "closing"}

MCFault ==
    \/ \E w \in Workers :
          \/ Boot(w)
          \/ "crash" \in env /\ Replaceable(w) /\ Crash(w)
          \/ "close" \in env /\ Replaceable(w) /\ CloseBegin(w)
          \/ "stall" \in env /\ Stall(w)
    \/ "error" \in env /\ \E r \in Runs : StoreError(r)
    \/ "elapse" \in env /\ \E a \in Agents : Elapse(a) /\ UNCHANGED <<sup, exec>>

MCNext == (MCClient \/ WorkerStep \/ MCFault) /\ UNCHANGED env

MCSpec == MCInit /\ [][MCNext]_mcVars

MCFairSpec == MCSpec /\ Fairness

\* TodosSettle where nothing stops, removes or breaks anything: whatever the
\* capacity does and time passes, every queued todo reaches an outcome.
UndisturbedTodosSettle == [](env \cap Disturbing = {}) => TodosSettle

Symmetry == Permutations(Agents) \cup Permutations(Models)
=============================================================================
