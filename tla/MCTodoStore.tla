---------------------------- MODULE MCTodoStore ----------------------------
(***************************************************************************)
(* TodoStore with two kinds of clients.  In "pair" two agents compete for  *)
(* two todos on a model with room for both, registered before.  In         *)
(* "generations" one agent and one todo go through three claims, with      *)
(* every operation on models, agents and todos.                            *)
(***************************************************************************)
EXTENDS TodoStore, TLC

CONSTANT simple

VARIABLE client

MCInit ==
    /\ client \in {"pair", "generations"}
    /\ model = [m \in Models |-> IF client = "pair" THEN [status |-> "ready", cap |-> 2] ELSE NoModel]
    /\ agent = [a \in Agents |-> NoAgent]
    /\ fresh = [a \in Agents |-> FALSE]
    /\ todo = [t \in Todos |-> NoTodo]
    /\ run = [r \in Runs |-> NoRun]
    /\ script = [t \in Todos |-> <<>>]

PairStep ==
    \/ \E a \in Agents, m \in Models :
          \/ CreateAgent(a, m, simple)
          \/ \E e \in BOOLEAN : UpdateAgent(a, m, simple, e)
    \/ \E t \in Todos :
          \/ \E p \in Agents \cup {None} : CreateTodo(t, simple, p)
          \/ DeleteTodo(t) \/ ContinueTodo(t)
    \/ \E r \in Runs : RequestStop(r)
    \/ RunStep \/ LivenessStep

\* One claim less for the pair.  With one todo, priority and capacity mean nothing: they
\* change before there is an agent.
InScope ==
    IF client = "pair" THEN run[MaxRuns] = NoRun
    ELSE LET team == {a \in Agents : agent[a].life # "absent"} IN
         /\ Cardinality(team) <= 1
         /\ todo[2] = NoTodo
         /\ team # {} => todo[1].prio = 0 /\ \A m \in Models : model[m].cap = 1

MCNext ==
    /\ IF client = "pair" THEN PairStep ELSE StoreNext
    /\ UNCHANGED client /\ InScope'

MCSpec == MCInit /\ [][MCNext]_<<storeVars, client>>

Symmetry == Permutations(Agents)
=============================================================================
