-------------------------- MODULE TodoStoreProofs --------------------------
(***************************************************************************)
(* What TodoStore keeps true for every number of agents, models, todos and *)
(* generations, and for every client of the store.                         *)
(***************************************************************************)
EXTENDS TodoStore, TLAPS

\* Rows that the operations rewrite as a whole stay rows of their table.
LEMMA RowTypes ==
    /\ \A row \in TodoRow : Requeued(row) \in TodoRow
    /\ \A row \in AgentRow : Released(row) \in AgentRow
    /\ NoTodo \in TodoRow /\ NoAgent \in AgentRow
    /\ NoModel \in ModelRow /\ NoRun \in RunRow
  BY PriorityAssumption
     DEF TodoRow, AgentRow, ModelRow, RunRow, Requeued, Released, NoTodo,
         NoAgent, NoModel, NoRun

\* Every row is of its type.
LEMMA RowsTyped ==
    ASSUME StoreTypeOK
    PROVE  /\ \A a \in Agents : agent[a] \in AgentRow
           /\ \A t \in Todos : todo[t] \in TodoRow
           /\ \A r \in Runs : run[r] \in RunRow
  BY DEF StoreTypeOK

\* Steps on models and agents leave todos, generations and transcripts alone.
LEMMA ConfigFrame ==
    ASSUME ModelStep \/ AgentStep \/ UNCHANGED storeVars
    PROVE  todo' = todo /\ run' = run /\ script' = script
  <1>1. CASE ModelStep
    BY <1>1 DEF ModelStep, CreateModel, SetCapacity, SetModelStatus, DeleteModel
  <1>2. CASE AgentStep
    <2>1. PICK a \in Agents :
             \/ \E m \in Models, x \in Complexities :
                   \/ CreateAgent(a, m, x)
                   \/ \E e \in BOOLEAN : UpdateAgent(a, m, x, e)
             \/ DeleteAgent(a)
      BY <1>2 DEF AgentStep
    <2>2. CASE DeleteAgent(a)
      BY <2>2 DEF DeleteAgent
    <2>3. ASSUME NEW m \in Models, NEW x \in Complexities,
                 CreateAgent(a, m, x)
          PROVE  todo' = todo /\ run' = run /\ script' = script
      BY <2>3 DEF CreateAgent
    <2>4. ASSUME NEW m \in Models, NEW x \in Complexities, NEW e \in BOOLEAN,
                 UpdateAgent(a, m, x, e)
          PROVE  todo' = todo /\ run' = run /\ script' = script
      BY <2>4 DEF UpdateAgent
    <2>5. QED
      BY <2>1, <2>2, <2>3, <2>4
  <1>3. CASE UNCHANGED storeVars
    BY <1>3 DEF storeVars
  <1>4. QED
    BY <1>1, <1>2, <1>3

\* A block is an author of the transcript's alphabet.
LEMMA SignedType ==
    ASSUME NEW S, NEW s \in Seq(S), NEW x \in S
    PROVE  Signed(s, x) \in Seq(S)
  BY DEF Signed

THEOREM StoreTypeInit == StoreInit => StoreTypeOK
  BY RowTypes DEF StoreInit, StoreTypeOK

LEMMA TypeModelStep == StoreTypeOK /\ ModelStep => StoreTypeOK'
  <1> SUFFICES ASSUME StoreTypeOK, ModelStep
               PROVE  StoreTypeOK'
    OBVIOUS
  <1>1. PICK m \in Models :
           \/ \E c \in Capacities : CreateModel(m, c) \/ SetCapacity(m, c)
           \/ \E s \in {"paused", "ready"} : SetModelStatus(m, s)
           \/ DeleteModel(m)
    BY DEF ModelStep
  <1>2. ASSUME NEW c \in Capacities, CreateModel(m, c) \/ SetCapacity(m, c)
        PROVE  StoreTypeOK'
    BY <1>2 DEF StoreTypeOK, CreateModel, SetCapacity, ModelRow
  <1>3. ASSUME NEW s \in {"paused", "ready"}, SetModelStatus(m, s)
        PROVE  StoreTypeOK'
    BY <1>3 DEF StoreTypeOK, SetModelStatus, ModelRow
  <1>4. CASE DeleteModel(m)
    BY <1>4 DEF StoreTypeOK, DeleteModel, ModelRow
  <1>5. QED
    BY <1>1, <1>2, <1>3, <1>4

LEMMA TypeAgentStep == StoreTypeOK /\ AgentStep => StoreTypeOK'
  <1> SUFFICES ASSUME StoreTypeOK, AgentStep
               PROVE  StoreTypeOK'
    OBVIOUS
  <1>1. PICK a \in Agents :
           \/ \E m \in Models, x \in Complexities :
                 \/ CreateAgent(a, m, x)
                 \/ \E e \in BOOLEAN : UpdateAgent(a, m, x, e)
           \/ DeleteAgent(a)
    BY DEF AgentStep
  <1>2. ASSUME NEW m \in Models, NEW x \in Complexities, CreateAgent(a, m, x)
        PROVE  StoreTypeOK'
    BY <1>2 DEF StoreTypeOK, CreateAgent, AgentRow
  <1>3. ASSUME NEW m \in Models, NEW x \in Complexities, NEW e \in BOOLEAN,
               UpdateAgent(a, m, x, e)
        PROVE  StoreTypeOK'
    <2>1. agent[a] \in AgentRow
      BY DEF StoreTypeOK
    <2>2. [agent[a] EXCEPT !.model = m, !.cx = x] \in AgentRow
      BY <2>1 DEF AgentRow
    <2>3. [agent[a] EXCEPT !.model = m, !.cx = x, !.enabled = e,
                           !.status = "offline", !.cur = None] \in AgentRow
      BY <2>1 DEF AgentRow
    <2>4. agent' \in [Agents -> AgentRow]
      BY <1>3, <2>2, <2>3 DEF StoreTypeOK, UpdateAgent
    <2>5. QED
      BY <1>3, <2>4 DEF StoreTypeOK, UpdateAgent
  <1>4. CASE DeleteAgent(a)
    <2>1. [agent[a] EXCEPT !.life = "deleted", !.enabled = FALSE,
                           !.status = "offline", !.model = None, !.cur = None]
             \in AgentRow
      BY RowsTyped DEF AgentRow
    <2>2. QED
      BY <1>4, <2>1 DEF StoreTypeOK, DeleteAgent
  <1>5. QED
    BY <1>1, <1>2, <1>3, <1>4

LEMMA TypeTodoStep == StoreTypeOK /\ TodoStep => StoreTypeOK'
  <1> SUFFICES ASSUME StoreTypeOK, TodoStep
               PROVE  StoreTypeOK'
    OBVIOUS
  <1>1. ASSUME NEW t \in Todos, NEW x \in Complexities,
               NEW p \in Agents \cup {None}, CreateTodo(t, x, p)
        PROVE  StoreTypeOK'
    <2>1. [NoTodo EXCEPT !.status = "queued", !.cx = x, !.pref = p] \in TodoRow
      BY RowTypes DEF TodoRow, NoTodo
    <2>2. QED
      BY <1>1, <2>1 DEF StoreTypeOK, CreateTodo
  <1>2. ASSUME NEW t \in Todos, NEW p \in Priorities, SetPriority(t, p)
        PROVE  StoreTypeOK'
    <2>1. [todo[t] EXCEPT !.prio = p] \in TodoRow
      BY RowsTyped DEF TodoRow
    <2>2. QED
      BY <1>2, <2>1 DEF StoreTypeOK, SetPriority
  <1>3. ASSUME NEW t \in Todos, DeleteTodo(t)
        PROVE  StoreTypeOK'
    <2>1. [NoTodo EXCEPT !.status = "deleted"] \in TodoRow
      BY RowTypes DEF TodoRow, NoTodo
    <2>2. QED
      BY <1>3, <2>1 DEF StoreTypeOK, DeleteTodo
  <1>4. ASSUME NEW t \in Todos, ContinueTodo(t)
        PROVE  StoreTypeOK'
    <2>1. Requeued(todo[t]) \in TodoRow
      BY RowTypes DEF StoreTypeOK
    <2>2. Signed(script[t], User) \in Seq(Runs \cup {User})
      BY SignedType DEF StoreTypeOK
    <2>3. QED
      BY <1>4, <2>1, <2>2 DEF StoreTypeOK, ContinueTodo
  <1>5. ASSUME NEW r \in Runs, RequestStop(r)
        PROVE  StoreTypeOK'
    <2>1. PICK t \in Todos : t = run[r].todo
      BY <1>5 DEF RequestStop, Owns
    <2>2. [todo[t] EXCEPT !.cancel = TRUE] \in TodoRow
      BY RowsTyped DEF TodoRow
    <2>3. QED
      BY <1>5, <2>1, <2>2 DEF StoreTypeOK, RequestStop
  <1>6. QED
    BY <1>1, <1>2, <1>3, <1>4, <1>5 DEF TodoStep

LEMMA TypeRunStep == StoreTypeOK /\ RunStep => StoreTypeOK'
  <1> SUFFICES ASSUME StoreTypeOK, RunStep
               PROVE  StoreTypeOK'
    OBVIOUS
  <1>1. ASSUME NEW a \in Agents, NEW t \in Todos, NEW r \in Runs,
               ClaimTodo(a, t, r)
        PROVE  StoreTypeOK'
    <2>1. [agent[a] EXCEPT !.status = "busy", !.cur = t] \in AgentRow
      BY RowsTyped DEF AgentRow
    <2>2. [todo[t] EXCEPT !.status = "running", !.agent = a, !.token = r]
             \in TodoRow
      BY RowsTyped DEF TodoRow
    <2>3. agent[a].model \in Models
      BY <1>1 DEF ClaimTodo, MayClaim, Ready
    <2>4. [status |-> "running", todo |-> t, agent |-> a,
           model |-> agent[a].model] \in RunRow
      BY <2>3 DEF RunRow
    <2>5. QED
      BY <1>1, <2>1, <2>2, <2>4 DEF StoreTypeOK, ClaimTodo
  <1>2. ASSUME NEW r \in Runs, NEW o \in {"done", "failed"}, FinishTodo(r, o)
        PROVE  StoreTypeOK'
    <2>1. PICK t \in Todos : t = run[r].todo
      BY <1>2 DEF FinishTodo, MayProceed, Owns
    <2>2. [todo[t] EXCEPT !.status = o, !.token = None] \in TodoRow
      BY RowsTyped DEF TodoRow
    <2>3. [run[r] EXCEPT !.status = o] \in RunRow
      BY RowsTyped DEF RunRow
    <2>4. \A a \in Agents : Released(agent[a]) \in AgentRow
      BY RowTypes DEF StoreTypeOK
    <2>5. agent' \in [Agents -> AgentRow]
      BY <1>2, <2>4 DEF StoreTypeOK, FinishTodo
    <2>6. QED
      BY <1>2, <2>1, <2>2, <2>3, <2>5 DEF StoreTypeOK, FinishTodo
  <1>3. ASSUME NEW r \in Runs, RequeueCancelled(r)
        PROVE  StoreTypeOK'
    <2>1. PICK t \in Todos : t = run[r].todo
      BY <1>3 DEF RequeueCancelled, Owns
    <2>2. Requeued(todo[t]) \in TodoRow
      BY RowTypes DEF StoreTypeOK
    <2>3. [run[r] EXCEPT !.status = "cancelled"] \in RunRow
      BY RowsTyped DEF RunRow
    <2>4. \A a \in Agents : Released(agent[a]) \in AgentRow
      BY RowTypes DEF StoreTypeOK
    <2>5. agent' \in [Agents -> AgentRow]
      BY <1>3, <2>4 DEF StoreTypeOK, RequeueCancelled
    <2>6. QED
      BY <1>3, <2>1, <2>2, <2>3, <2>5 DEF StoreTypeOK, RequeueCancelled
  <1>4. ASSUME NEW r \in Runs, LinkConversation(r)
        PROVE  StoreTypeOK'
    <2>1. PICK t \in Todos : t = run[r].todo
      BY <1>4 DEF LinkConversation, MayProceed, Owns
    <2>2. [todo[t] EXCEPT !.conv = TRUE] \in TodoRow
      BY RowsTyped DEF TodoRow
    <2>3. QED
      BY <1>4, <2>1, <2>2 DEF StoreTypeOK, LinkConversation
  <1>5. ASSUME NEW r \in Runs, WriteTranscript(r)
        PROVE  StoreTypeOK'
    <2>1. PICK t \in Todos : t = run[r].todo
      BY <1>5 DEF WriteTranscript, CanWrite, MayProceed, Owns
    <2>2. Signed(script[t], r) \in Seq(Runs \cup {User})
      BY SignedType DEF StoreTypeOK
    <2>3. QED
      BY <1>5, <2>1, <2>2 DEF StoreTypeOK, WriteTranscript
  <1>6. QED
    BY <1>1, <1>2, <1>3, <1>4, <1>5 DEF RunStep

LEMMA TypeLivenessStep == StoreTypeOK /\ LivenessStep => StoreTypeOK'
  <1> SUFFICES ASSUME StoreTypeOK, LivenessStep
               PROVE  StoreTypeOK'
    OBVIOUS
  <1>1. ASSUME NEW recent \in BOOLEAN, NEW r \in Runs, RunHeartbeat(r, recent)
        PROVE  StoreTypeOK'
    <2>1. run[r].todo \in Todos
      BY <1>1 DEF RunHeartbeat, Owns
    <2>2. \A a \in Agents : [agent[a] EXCEPT !.status = "busy",
                                             !.cur = run[r].todo] \in AgentRow
      BY <2>1, RowsTyped DEF AgentRow
    <2>3. agent' \in [Agents -> AgentRow] /\ fresh' \in [Agents -> BOOLEAN]
      BY <1>1, <2>2 DEF StoreTypeOK, RunHeartbeat
    <2>4. QED
      BY <1>1, <2>3 DEF StoreTypeOK, RunHeartbeat
  <1>2. ASSUME NEW recent \in BOOLEAN, NEW a \in Agents,
               NEW s \in {"idle", "offline"}, NEW c \in Todos \cup {None},
               AgentHeartbeat(a, s, c, recent)
        PROVE  StoreTypeOK'
    <2>1. [agent[a] EXCEPT !.status = s, !.cur = c] \in AgentRow
      BY RowsTyped DEF AgentRow
    <2>2. QED
      BY <1>2, <2>1 DEF StoreTypeOK, AgentHeartbeat
  <1>3. ASSUME NEW a \in Agents, Elapse(a)
        PROVE  StoreTypeOK'
    BY <1>3 DEF StoreTypeOK, Elapse
  <1>4. ASSUME NEW S \in SUBSET Agents, SweepStale(S)
        PROVE  StoreTypeOK'
    <2>1. \A a \in Agents : [agent[a] EXCEPT !.status = "offline",
                                             !.cur = None] \in AgentRow
      BY RowsTyped DEF AgentRow
    <2>2. \A t \in Todos : Requeued(todo[t]) \in TodoRow
      BY RowTypes DEF StoreTypeOK
    <2>3. \A r \in Runs : [run[r] EXCEPT !.status = "stale"] \in RunRow
      BY RowsTyped DEF RunRow
    <2>4. agent' \in [Agents -> AgentRow]
      BY <1>4, <2>1 DEF StoreTypeOK, SweepStale
    <2>5. todo' \in [Todos -> TodoRow]
      BY <1>4, <2>2 DEF StoreTypeOK, SweepStale
    <2>6. run' \in [Runs -> RunRow]
      BY <1>4, <2>3 DEF StoreTypeOK, SweepStale
    <2>7. QED
      BY <1>4, <2>4, <2>5, <2>6 DEF StoreTypeOK, SweepStale
  <1>5. \A a \in Agents : agent[a].cur \in Todos \cup {None}
    BY DEF StoreTypeOK, AgentRow
  <1>6. QED
    BY <1>1, <1>2, <1>3, <1>4, <1>5 DEF LivenessStep

LEMMA TypeStutter == StoreTypeOK /\ UNCHANGED storeVars => StoreTypeOK'
  BY DEF StoreTypeOK, storeVars

LEMMA StoreTypeStep == StoreTypeOK /\ [StoreNext]_storeVars => StoreTypeOK'
  BY TypeModelStep, TypeAgentStep, TypeTodoStep, TypeRunStep,
     TypeLivenessStep, TypeStutter DEF StoreNext

\* Type correctness of the store under every client.
THEOREM StoreTypeCorrect == StoreSpec => []StoreTypeOK
  BY StoreTypeInit, StoreTypeStep, PTL DEF StoreSpec

-----------------------------------------------------------------------------
(* The ledger.                                                             *)

\* What a row looks like after it went back to the queue.
LEMMA RequeuedFields ==
    ASSUME NEW row \in TodoRow
    PROVE  /\ Requeued(row).status = "queued"
           /\ Requeued(row).token = None
           /\ Requeued(row).agent = None
           /\ Requeued(row).cancel = FALSE
  BY DEF Requeued, TodoRow

LEMMA ReleasedFields ==
    ASSUME NEW row \in AgentRow
    PROVE  Released(row).status = "idle" /\ Released(row).cur = None
  BY DEF Released, AgentRow

LEMMA StaleFields ==
    ASSUME NEW row \in RunRow
    PROVE  /\ [row EXCEPT !.status = "stale"].status = "stale"
           /\ [row EXCEPT !.status = "stale"].todo = row.todo
           /\ [row EXCEPT !.status = "stale"].agent = row.agent
           /\ [row EXCEPT !.status = "stale"].model = row.model
  BY DEF RunRow

\* None is no todo and no generation.
LEMMA NoneIsNoId == None \notin Todos /\ None \notin Runs /\ None \notin Agents
  BY NoneAssumption, BoundsAssumption DEF Todos, Runs

\* Whatever touches neither todos nor todo_runs keeps the ledger.
LEMMA LedgerFrame == LedgerMatches /\ UNCHANGED <<todo, run>> => LedgerMatches'
  BY DEF LedgerMatches, Owns

\* Ending the generation r of a todo t: the ledger row leaves "running" and
\* the todo loses status and token together.
LEMMA LedgerEnd ==
    ASSUME StoreTypeOK, LedgerMatches,
           NEW r \in Runs, NEW t \in Todos, Owns(r), run[r].todo = t,
           NEW st, st # "running", NEW row \in TodoRow,
           row.status # "running", row.token = None,
           todo' = [todo EXCEPT ![t] = row],
           run' = [run EXCEPT ![r].status = st]
    PROVE  LedgerMatches'
  <1>1. todo'[t] = row /\ \A u \in Todos : u # t => todo'[u] = todo[u]
    BY DEF StoreTypeOK
  <1>2. run[r] \in RunRow
    BY DEF StoreTypeOK
  <1>3. run'[r].status = st /\ \A q \in Runs : q # r => run'[q] = run[q]
    BY <1>2 DEF StoreTypeOK, RunRow
  <1>4. run'[r].todo = t
    BY <1>2 DEF StoreTypeOK, RunRow
  <1>5. todo[t].token = r
    BY DEF Owns
  <1>6. ASSUME NEW q \in Runs
        PROVE  (run[q].status = "running" <=> Owns(q))'
    <2>1. CASE q = r
      BY <2>1, <1>1, <1>3, <1>4 DEF Owns
    <2>2. CASE q # r /\ run[q].todo = t
      BY <2>2, <1>1, <1>3, <1>5 DEF Owns, LedgerMatches
    <2>3. CASE q # r /\ run[q].todo # t
      BY <2>3, <1>1, <1>3 DEF Owns, LedgerMatches
    <2>4. QED
      BY <2>1, <2>2, <2>3
  <1>7. ASSUME NEW u \in Todos
        PROVE  (/\ todo[u].status = "running" <=> todo[u].token # None
                /\ todo[u].token # None => /\ run[todo[u].token].todo = u
                                           /\ Owns(todo[u].token))'
    <2>1. CASE u = t
      BY <2>1, <1>1
    <2>2. CASE u # t
      <3>1. todo'[u] = todo[u]
        BY <2>2, <1>1
      <3>2. CASE todo[u].token = None
        BY <3>1, <3>2 DEF LedgerMatches
      <3>3. CASE todo[u].token # None
        <4>1. todo[u].token \in Runs
          BY <3>3 DEF StoreTypeOK, TodoRow
        <4>2. todo[u].token # r
          BY <2>2, <3>3 DEF LedgerMatches
        <4>3. run'[todo[u].token] = run[todo[u].token]
          BY <4>1, <4>2, <1>3
        <4>4. /\ todo[u].status = "running"
              /\ run[todo[u].token].todo = u
              /\ run[todo[u].token].agent = todo[u].agent
          BY <3>3 DEF LedgerMatches, Owns
        <4>5. QED
          BY <3>1, <3>3, <4>3, <4>4 DEF Owns
      <3>4. QED
        BY <3>2, <3>3
    <2>3. QED
      BY <2>1, <2>2
  <1>8. QED
    BY <1>6, <1>7 DEF LedgerMatches

\* Changing a todo without touching status, token and assignee.
LEMMA LedgerKeep ==
    ASSUME StoreTypeOK, LedgerMatches, run' = run,
           \A t \in Todos : /\ todo'[t].status = todo[t].status
                            /\ todo'[t].token = todo[t].token
                            /\ todo'[t].agent = todo[t].agent
    PROVE  LedgerMatches'
  <1>1. \A r \in Runs : Owns(r) <=> Owns(r)'
    BY DEF Owns
  <1>2. \A t \in Todos : todo[t].token \in Runs \cup {None}
    BY DEF StoreTypeOK, TodoRow
  <1>3. QED
    BY <1>1, <1>2 DEF LedgerMatches

\* Changing a todo that is not running into another that is not running.
LEMMA LedgerIdle ==
    ASSUME StoreTypeOK, LedgerMatches, run' = run, NEW t \in Todos,
           NEW row \in TodoRow, todo[t].status # "running",
           row.status # "running", row.token = None,
           todo' = [todo EXCEPT ![t] = row]
    PROVE  LedgerMatches'
  <1>1. todo'[t] = row /\ \A u \in Todos : u # t => todo'[u] = todo[u]
    BY DEF StoreTypeOK
  <1>2. ASSUME NEW q \in Runs
        PROVE  Owns(q) <=> Owns(q)'
    <2>1. CASE run[q].todo = t
      BY <2>1, <1>1 DEF Owns
    <2>2. CASE run[q].todo # t
      BY <2>2, <1>1 DEF Owns
    <2>3. QED
      BY <2>1, <2>2
  <1>3. \A u \in Todos : todo[u].token \in Runs \cup {None}
    BY DEF StoreTypeOK, TodoRow
  <1>4. ASSUME NEW u \in Todos
        PROVE  (/\ todo[u].status = "running" <=> todo[u].token # None
                /\ todo[u].token # None => /\ run[todo[u].token].todo = u
                                           /\ Owns(todo[u].token))'
    <2>1. CASE u = t
      BY <2>1, <1>1
    <2>2. CASE u # t
      BY <2>2, <1>1, <1>2, <1>3 DEF LedgerMatches
    <2>3. QED
      BY <2>1, <2>2
  <1>5. QED
    BY <1>2, <1>4 DEF LedgerMatches

\* A claim: a queued todo and an unused generation get each other.
LEMMA LedgerClaim ==
    ASSUME StoreTypeOK, LedgerMatches,
           NEW a \in Agents, NEW t \in Todos, NEW r \in Runs,
           ClaimTodo(a, t, r)
    PROVE  LedgerMatches'
  <1>1. /\ todo[t].status = "queued" /\ run[r].status = "unused"
        /\ todo[t] \in TodoRow
    BY DEF ClaimTodo, Eligible, NextRun, StoreTypeOK
  <1>2. /\ todo'[t].status = "running" /\ todo'[t].agent = a
        /\ todo'[t].token = r
        /\ \A u \in Todos : u # t => todo'[u] = todo[u]
    BY <1>1 DEF ClaimTodo, StoreTypeOK, TodoRow
  <1>3. /\ run'[r].status = "running" /\ run'[r].todo = t /\ run'[r].agent = a
        /\ \A q \in Runs : q # r => run'[q] = run[q]
    BY DEF ClaimTodo, StoreTypeOK
  <1>4. Owns(r)'
    BY <1>2, <1>3 DEF Owns
  <1>5. ~Owns(r)
    BY <1>1 DEF LedgerMatches
  <1>6. ASSUME NEW q \in Runs
        PROVE  (run[q].status = "running" <=> Owns(q))'
    <2>1. CASE q = r
      BY <2>1, <1>3, <1>4
    <2>2. CASE q # r /\ run[q].todo = t
      BY <2>2, <1>1, <1>2, <1>3 DEF Owns, LedgerMatches
    <2>3. CASE q # r /\ run[q].todo # t
      BY <2>3, <1>2, <1>3 DEF Owns, LedgerMatches
    <2>4. QED
      BY <2>1, <2>2, <2>3
  <1>7. ASSUME NEW u \in Todos
        PROVE  (/\ todo[u].status = "running" <=> todo[u].token # None
                /\ todo[u].token # None => /\ run[todo[u].token].todo = u
                                           /\ Owns(todo[u].token))'
    <2>1. CASE u = t
      BY <2>1, <1>2, <1>3, <1>4, NoneIsNoId
    <2>2. CASE u # t
      <3>1. todo'[u] = todo[u]
        BY <2>2, <1>2
      <3>2. CASE todo[u].token = None
        BY <3>1, <3>2 DEF LedgerMatches
      <3>3. CASE todo[u].token # None
        <4>1. todo[u].token \in Runs
          BY <3>3 DEF StoreTypeOK, TodoRow
        <4>2. todo[u].token # r
          BY <3>3, <1>5 DEF LedgerMatches
        <4>3. run'[todo[u].token] = run[todo[u].token]
          BY <4>1, <4>2, <1>3
        <4>4. /\ todo[u].status = "running"
              /\ run[todo[u].token].todo = u
              /\ run[todo[u].token].agent = todo[u].agent
          BY <3>3 DEF LedgerMatches, Owns
        <4>5. QED
          BY <3>1, <3>3, <4>3, <4>4 DEF Owns
      <3>4. QED
        BY <3>2, <3>3
    <2>3. QED
      BY <2>1, <2>2
  <1>8. QED
    BY <1>6, <1>7 DEF LedgerMatches

\* A sweep: the swept todos and the generations they carry end together.
LEMMA LedgerSweep ==
    ASSUME StoreTypeOK, LedgerMatches, NEW S \in SUBSET Agents, SweepStale(S)
    PROVE  LedgerMatches'
  <1> DEFINE Swept == SweptTodos(S)
  <1>1. \A t \in Todos : todo'[t] = IF t \in Swept THEN Requeued(todo[t])
                                    ELSE todo[t]
    BY DEF SweepStale
  <1>2. ASSUME NEW r \in Runs
        PROVE  /\ run'[r].todo = run[r].todo /\ run'[r].agent = run[r].agent
               /\ IF /\ run[r].status = "running"
                     /\ run[r].todo \in Swept
                     /\ todo[run[r].todo].token = r
                  THEN run'[r].status = "stale"
                  ELSE run'[r] = run[r]
    <2>1. run[r] \in RunRow
      BY DEF StoreTypeOK
    <2>2. run'[r] = IF /\ run[r].status = "running"
                       /\ run[r].todo \in Swept
                       /\ todo[run[r].todo].token = r
                    THEN [run[r] EXCEPT !.status = "stale"]
                    ELSE run[r]
      BY DEF SweepStale
    <2> HIDE DEF Swept
    <2>3. QED
      BY <2>1, <2>2, StaleFields
  <1>4. \A t \in Todos : todo[t] \in TodoRow
    BY DEF StoreTypeOK
  <1>3. ASSUME NEW t \in Todos
        PROVE  Requeued(todo[t]).status = "queued" /\ Requeued(todo[t]).token = None
    BY <1>4, RequeuedFields
  <1>5. ASSUME NEW t \in Swept
        PROVE  /\ t \in Todos /\ todo[t].status = "running"
               /\ todo'[t].status = "queued" /\ todo'[t].token = None
    <2>1. t \in Todos /\ todo[t].status = "running"
      BY DEF SweptTodos
    <2>2. todo'[t] = Requeued(todo[t])
      BY <2>1, <1>1
    <2>3. Requeued(todo[t]).status = "queued" /\ Requeued(todo[t]).token = None
      BY <2>1, <1>3
    <2> HIDE DEF Swept
    <2>4. QED
      BY <2>1, <2>2, <2>3
  <1> HIDE DEF Swept
  <1>7. ASSUME NEW r \in Runs
        PROVE  (run[r].status = "running" <=> Owns(r))'
    <2>1. CASE run[r].todo \in Swept /\ Owns(r)
      <3>1. run'[r].status = "stale"
        BY <2>1, <1>2 DEF Owns, LedgerMatches
      <3>2. QED
        BY <2>1, <3>1, <1>2, <1>5 DEF Owns
    <2>2. CASE run[r].todo \in Swept /\ ~Owns(r)
      <3>1. run[r].status # "running"
        BY <2>2 DEF LedgerMatches
      <3>2. run'[r] = run[r] /\ todo'[run[r].todo].status = "queued"
        BY <2>2, <3>1, <1>2, <1>5
      <3>3. QED
        BY <3>1, <3>2 DEF Owns
    <2>3. CASE run[r].todo \notin Swept
      <3>1. run'[r] = run[r]
        BY <2>3, <1>2
      <3>2. run[r].todo \in Todos => todo'[run[r].todo] = todo[run[r].todo]
        BY <2>3, <1>1
      <3>3. QED
        BY <3>1, <3>2 DEF Owns, LedgerMatches
    <2>4. QED
      BY <2>1, <2>2, <2>3
  <1>8. ASSUME NEW u \in Todos
        PROVE  (/\ todo[u].status = "running" <=> todo[u].token # None
                /\ todo[u].token # None => /\ run[todo[u].token].todo = u
                                           /\ Owns(todo[u].token))'
    <2>1. CASE u \in Swept
      BY <2>1, <1>5
    <2>2. CASE u \notin Swept /\ todo[u].token = None
      BY <2>2, <1>1 DEF LedgerMatches
    <2>3. CASE u \notin Swept /\ todo[u].token # None
      <3>1. todo'[u] = todo[u]
        BY <2>3, <1>1
      <3>2. PICK q \in Runs : q = todo[u].token
        BY <2>3, <1>4 DEF TodoRow
      <3>3. run[q].todo = u /\ Owns(q)
        BY <2>3, <3>2 DEF LedgerMatches
      <3>4. run'[q] = run[q]
        BY <2>3, <3>3, <1>2
      <3>5. Owns(q)'
        BY <3>1, <3>3, <3>4 DEF Owns
      <3>6. QED
        BY <3>1, <3>2, <3>3, <3>4, <3>5 DEF LedgerMatches
    <2>4. QED
      BY <2>1, <2>2, <2>3
  <1>9. QED
    BY <1>7, <1>8 DEF LedgerMatches

LEMMA LedgerInit == StoreInit => LedgerMatches
  BY NoneIsNoId DEF StoreInit, LedgerMatches, Owns, NoRun, NoTodo

LEMMA LedgerTodoStep == StoreTypeOK /\ LedgerMatches /\ TodoStep => LedgerMatches'
  <1> SUFFICES ASSUME StoreTypeOK, LedgerMatches, TodoStep
               PROVE  LedgerMatches'
    OBVIOUS
  <1>1. ASSUME NEW t \in Todos, NEW x \in Complexities,
               NEW p \in Agents \cup {None}, CreateTodo(t, x, p)
        PROVE  LedgerMatches'
    <2> DEFINE row == [NoTodo EXCEPT !.status = "queued", !.cx = x, !.pref = p]
    <2>1. row \in TodoRow /\ row.status = "queued" /\ row.token = None
      BY RowTypes DEF TodoRow, NoTodo
    <2>2. todo' = [todo EXCEPT ![t] = row] /\ run' = run /\ todo[t].status = "absent"
      BY <1>1 DEF CreateTodo
    <2> HIDE DEF row
    <2>3. QED
      BY <2>1, <2>2, LedgerIdle
  <1>2. ASSUME NEW t \in Todos, NEW p \in Priorities, SetPriority(t, p)
        PROVE  LedgerMatches'
    <2>1. \A u \in Todos : /\ todo'[u].status = todo[u].status
                           /\ todo'[u].token = todo[u].token
                           /\ todo'[u].agent = todo[u].agent
      BY <1>2 DEF SetPriority, StoreTypeOK, TodoRow
    <2>2. QED
      BY <1>2, <2>1, LedgerKeep DEF SetPriority
  <1>3. ASSUME NEW t \in Todos, DeleteTodo(t)
        PROVE  LedgerMatches'
    <2> DEFINE row == [NoTodo EXCEPT !.status = "deleted"]
    <2>1. row \in TodoRow /\ row.status = "deleted" /\ row.token = None
      BY RowTypes DEF TodoRow, NoTodo
    <2>2. /\ todo' = [todo EXCEPT ![t] = row] /\ run' = run
          /\ todo[t].status # "running"
      BY <1>3 DEF DeleteTodo
    <2> HIDE DEF row
    <2>3. QED
      BY <2>1, <2>2, LedgerIdle
  <1>4. ASSUME NEW t \in Todos, ContinueTodo(t)
        PROVE  LedgerMatches'
    <2>1. todo[t] \in TodoRow /\ Requeued(todo[t]) \in TodoRow
      BY RowTypes DEF StoreTypeOK
    <2>2. /\ todo' = [todo EXCEPT ![t] = Requeued(todo[t])] /\ run' = run
          /\ todo[t].status # "running"
      BY <1>4 DEF ContinueTodo
    <2>3. QED
      BY <2>1, <2>2, RequeuedFields, LedgerIdle
  <1>5. ASSUME NEW r \in Runs, RequestStop(r)
        PROVE  LedgerMatches'
    <2>1. PICK t \in Todos : t = run[r].todo
      BY <1>5 DEF RequestStop, Owns
    <2>2. todo' = [todo EXCEPT ![t].cancel = TRUE] /\ run' = run
      BY <1>5, <2>1 DEF RequestStop
    <2>3. \A u \in Todos : /\ todo'[u].status = todo[u].status
                           /\ todo'[u].token = todo[u].token
                           /\ todo'[u].agent = todo[u].agent
      BY <2>2 DEF StoreTypeOK, TodoRow
    <2>4. QED
      BY <2>2, <2>3, LedgerKeep
  <1>6. QED
    BY <1>1, <1>2, <1>3, <1>4, <1>5 DEF TodoStep

LEMMA LedgerRunStep == StoreTypeOK /\ LedgerMatches /\ RunStep => LedgerMatches'
  <1> SUFFICES ASSUME StoreTypeOK, LedgerMatches, RunStep
               PROVE  LedgerMatches'
    OBVIOUS
  <1>1. ASSUME NEW a \in Agents, NEW t \in Todos, NEW r \in Runs,
               ClaimTodo(a, t, r)
        PROVE  LedgerMatches'
    BY <1>1, LedgerClaim
  <1>2. ASSUME NEW r \in Runs, NEW o \in {"done", "failed"}, FinishTodo(r, o)
        PROVE  LedgerMatches'
    <2>1. PICK t \in Todos : t = run[r].todo
      BY <1>2 DEF FinishTodo, MayProceed, Owns
    <2> DEFINE row == [todo[t] EXCEPT !.status = o, !.token = None]
    <2>2. row \in TodoRow /\ row.status = o /\ row.token = None
      BY DEF StoreTypeOK, TodoRow
    <2>3. /\ todo' = [todo EXCEPT ![t] = row]
          /\ run' = [run EXCEPT ![r].status = o] /\ Owns(r)
      BY <1>2, <2>1 DEF FinishTodo, MayProceed
    <2> HIDE DEF row
    <2>4. QED
      BY <2>1, <2>2, <2>3, LedgerEnd
  <1>3. ASSUME NEW r \in Runs, RequeueCancelled(r)
        PROVE  LedgerMatches'
    <2>1. PICK t \in Todos : t = run[r].todo
      BY <1>3 DEF RequeueCancelled, Owns
    <2>2. todo[t] \in TodoRow /\ Requeued(todo[t]) \in TodoRow
      BY RowTypes DEF StoreTypeOK
    <2>3. /\ todo' = [todo EXCEPT ![t] = Requeued(todo[t])]
          /\ run' = [run EXCEPT ![r].status = "cancelled"] /\ Owns(r)
      BY <1>3, <2>1 DEF RequeueCancelled
    <2>4. QED
      BY <2>1, <2>2, <2>3, RequeuedFields, LedgerEnd
  <1>4. ASSUME NEW r \in Runs, LinkConversation(r)
        PROVE  LedgerMatches'
    <2>1. PICK t \in Todos : t = run[r].todo
      BY <1>4 DEF LinkConversation, MayProceed, Owns
    <2>2. todo' = [todo EXCEPT ![t].conv = TRUE] /\ run' = run
      BY <1>4, <2>1 DEF LinkConversation
    <2>3. \A u \in Todos : /\ todo'[u].status = todo[u].status
                           /\ todo'[u].token = todo[u].token
                           /\ todo'[u].agent = todo[u].agent
      BY <2>2 DEF StoreTypeOK, TodoRow
    <2>4. QED
      BY <2>2, <2>3, LedgerKeep
  <1>5. ASSUME NEW r \in Runs, WriteTranscript(r)
        PROVE  LedgerMatches'
    BY <1>5, LedgerFrame DEF WriteTranscript
  <1>6. QED
    BY <1>1, <1>2, <1>3, <1>4, <1>5 DEF RunStep

LEMMA LedgerStep ==
    StoreTypeOK /\ LedgerMatches /\ [StoreNext]_storeVars => LedgerMatches'
  <1> SUFFICES ASSUME StoreTypeOK, LedgerMatches, [StoreNext]_storeVars
               PROVE  LedgerMatches'
    OBVIOUS
  <1>1. CASE ModelStep
    BY <1>1, LedgerFrame
       DEF ModelStep, CreateModel, SetCapacity, SetModelStatus, DeleteModel
  <1>2. CASE AgentStep
    BY <1>2, ConfigFrame, LedgerFrame
  <1>3. CASE TodoStep
    BY <1>3, LedgerTodoStep
  <1>4. CASE RunStep
    BY <1>4, LedgerRunStep
  <1>5. CASE LivenessStep
    <2>1. CASE \E S \in SUBSET Agents : SweepStale(S)
      BY <2>1, LedgerSweep
    <2>2. CASE UNCHANGED <<todo, run>>
      BY <2>2, LedgerFrame
    <2>3. QED
      BY <1>5, <2>1, <2>2 DEF LivenessStep, RunHeartbeat, AgentHeartbeat, Elapse
  <1>6. CASE UNCHANGED storeVars
    BY <1>6, LedgerFrame DEF storeVars
  <1>7. QED
    BY <1>1, <1>2, <1>3, <1>4, <1>5, <1>6 DEF StoreNext

\* The ledger and the queue agree under every client of the store.
THEOREM LedgerCorrect == StoreSpec => []LedgerMatches
  BY StoreTypeCorrect, LedgerInit, LedgerStep, PTL DEF StoreSpec

-----------------------------------------------------------------------------
(* Agents and their current todos.                                         *)

\* One agent's part of AgentCurrent.
Points(a) ==
    /\ agent[a].status = "busy" => agent[a].cur # None
    /\ agent[a].cur # None => /\ todo[agent[a].cur].status = "running"
                              /\ todo[agent[a].cur].agent = a

LEMMA PointsAll == AgentCurrent <=> \A a \in Agents : Points(a)
  BY DEF AgentCurrent, Points

\* An agent keeps its todo while neither row changes what AgentCurrent reads.
LEMMA PointsKeep ==
    ASSUME NEW a \in Agents, Points(a), agent'[a] = agent[a],
           agent[a].cur # None =>
              /\ todo'[agent[a].cur].status = todo[agent[a].cur].status
              /\ todo'[agent[a].cur].agent = todo[agent[a].cur].agent
    PROVE  Points(a)'
  BY DEF Points

\* An agent without a todo that is not busy satisfies it.
LEMMA PointsFree ==
    ASSUME NEW a, agent'[a].status # "busy", agent'[a].cur = None
    PROVE  Points(a)'
  BY DEF Points

\* Two agents never point to one todo.
LEMMA PointsApart ==
    ASSUME AgentCurrent, NEW a \in Agents, NEW b \in Agents,
           agent[a].cur # None, agent[a].cur = agent[b].cur
    PROVE  a = b
  BY DEF AgentCurrent

\* A todo that is not running may change freely.
LEMMA CurrentIdle ==
    ASSUME StoreTypeOK, AgentCurrent, agent' = agent, NEW t \in Todos,
           todo[t].status # "running", NEW row, todo' = [todo EXCEPT ![t] = row]
    PROVE  AgentCurrent'
  <1>1. ASSUME NEW a \in Agents
        PROVE  Points(a)'
    <2>1. agent[a].cur # None => agent[a].cur \in Todos /\ agent[a].cur # t
      BY DEF AgentCurrent, StoreTypeOK, AgentRow
    <2>2. \A u \in Todos : u # t => todo'[u] = todo[u]
      BY DEF StoreTypeOK
    <2>3. QED
      BY <2>1, <2>2, PointsAll, PointsKeep
  <1>2. QED
    BY <1>1 DEF AgentCurrent, Points

\* Changing a todo without touching status and assignee.
LEMMA CurrentKeep ==
    ASSUME StoreTypeOK, AgentCurrent, agent' = agent,
           \A t \in Todos : /\ todo'[t].status = todo[t].status
                            /\ todo'[t].agent = todo[t].agent
    PROVE  AgentCurrent'
  <1>1. \A a \in Agents : agent[a].cur # None => agent[a].cur \in Todos
    BY DEF StoreTypeOK, AgentRow
  <1>2. QED
    BY <1>1 DEF AgentCurrent

\* The owner of a generation is released together with its todo.
LEMMA CurrentEnd ==
    ASSUME StoreTypeOK, AgentCurrent, NEW t \in Todos, NEW a \in Agents,
           todo[t].agent = a, NEW row,
           todo' = [todo EXCEPT ![t] = row],
           agent' = [agent EXCEPT ![a] = Released(agent[a])]
    PROVE  AgentCurrent'
  <1>1. ASSUME NEW b \in Agents
        PROVE  Points(b)'
    <2>1. CASE b = a
      <3>1. agent[a] \in AgentRow /\ agent'[a] = Released(agent[a])
        BY DEF StoreTypeOK
      <3>2. agent'[a].status = "idle" /\ agent'[a].cur = None
        BY <3>1, ReleasedFields
      <3>3. QED
        BY <2>1, <3>2, PointsFree
    <2>2. CASE b # a
      <3>1. agent'[b] = agent[b]
        BY <2>2 DEF StoreTypeOK
      <3>2. agent[b].cur # None => agent[b].cur \in Todos /\ agent[b].cur # t
        BY <2>2 DEF AgentCurrent, StoreTypeOK, AgentRow
      <3>3. \A u \in Todos : u # t => todo'[u] = todo[u]
        BY DEF StoreTypeOK
      <3>4. QED
        BY <3>1, <3>2, <3>3, PointsAll, PointsKeep
    <2>3. QED
      BY <2>1, <2>2
  <1>2. QED
    BY <1>1 DEF AgentCurrent, Points

LEMMA CurrentInit == StoreInit => AgentCurrent
  BY DEF StoreInit, AgentCurrent, NoAgent

LEMMA CurrentAgentStep == StoreTypeOK /\ AgentCurrent /\ AgentStep => AgentCurrent'
  <1> SUFFICES ASSUME StoreTypeOK, AgentCurrent, AgentStep
               PROVE  AgentCurrent'
    OBVIOUS
  <1>1. todo' = todo
    BY ConfigFrame
  <1>2. ASSUME NEW a \in Agents, NEW row \in AgentRow, row.status # "busy",
               row.cur \in {None, agent[a].cur},
               agent' = [agent EXCEPT ![a] = row]
        PROVE  AgentCurrent'
    <2>1. agent'[a] = row /\ \A b \in Agents : b # a => agent'[b] = agent[b]
      BY <1>2 DEF StoreTypeOK
    <2>2. QED
      BY <1>1, <1>2, <2>1 DEF AgentCurrent
  <1>3. PICK a \in Agents :
           \/ \E m \in Models, x \in Complexities :
                 \/ CreateAgent(a, m, x)
                 \/ \E e \in BOOLEAN : UpdateAgent(a, m, x, e)
           \/ DeleteAgent(a)
    BY DEF AgentStep
  <1>4. agent[a] \in AgentRow
    BY DEF StoreTypeOK
  <1>5. ASSUME NEW m \in Models, NEW x \in Complexities, CreateAgent(a, m, x)
        PROVE  AgentCurrent'
    <2> DEFINE row == [life |-> "live", status |-> "offline", cur |-> None,
                       model |-> m, cx |-> x, enabled |-> TRUE]
    <2>1. row \in AgentRow /\ row.status = "offline" /\ row.cur = None
      BY DEF AgentRow
    <2>2. agent' = [agent EXCEPT ![a] = row]
      BY <1>5 DEF CreateAgent
    <2> HIDE DEF row
    <2>3. QED
      BY <2>1, <2>2, <1>2
  <1>6. ASSUME NEW m \in Models, NEW x \in Complexities, NEW e \in BOOLEAN,
               UpdateAgent(a, m, x, e)
        PROVE  AgentCurrent'
    <2> DEFINE kept  == [agent[a] EXCEPT !.model = m, !.cx = x]
               reset == [agent[a] EXCEPT !.model = m, !.cx = x, !.enabled = e,
                                         !.status = "offline", !.cur = None]
    <2>1. /\ kept \in AgentRow /\ kept.status = agent[a].status
          /\ kept.cur = agent[a].cur
      BY <1>4 DEF AgentRow
    <2>2. reset \in AgentRow /\ reset.status = "offline" /\ reset.cur = None
      BY <1>4 DEF AgentRow
    <2>3. /\ agent' = [agent EXCEPT ![a] = kept]
             \/ agent' = [agent EXCEPT ![a] = reset]
          /\ agent[a].status # "busy"
      BY <1>6 DEF UpdateAgent
    <2> HIDE DEF kept, reset
    <2>4. QED
      BY <2>1, <2>2, <2>3, <1>2
  <1>7. CASE DeleteAgent(a)
    <2> DEFINE row == [agent[a] EXCEPT !.life = "deleted", !.enabled = FALSE,
                                       !.status = "offline", !.model = None,
                                       !.cur = None]
    <2>1. row \in AgentRow /\ row.status = "offline" /\ row.cur = None
      BY <1>4 DEF AgentRow
    <2>2. agent' = [agent EXCEPT ![a] = row]
      BY <1>7 DEF DeleteAgent
    <2> HIDE DEF row
    <2>3. QED
      BY <2>1, <2>2, <1>2
  <1>8. QED
    BY <1>3, <1>5, <1>6, <1>7

LEMMA CurrentTodoStep == StoreTypeOK /\ AgentCurrent /\ TodoStep => AgentCurrent'
  <1> SUFFICES ASSUME StoreTypeOK, AgentCurrent, TodoStep
               PROVE  AgentCurrent'
    OBVIOUS
  <1>1. ASSUME NEW t \in Todos, NEW x \in Complexities,
               NEW p \in Agents \cup {None}, CreateTodo(t, x, p)
        PROVE  AgentCurrent'
    BY <1>1, CurrentIdle DEF CreateTodo
  <1>2. ASSUME NEW t \in Todos, NEW p \in Priorities, SetPriority(t, p)
        PROVE  AgentCurrent'
    <2>1. \A u \in Todos : /\ todo'[u].status = todo[u].status
                           /\ todo'[u].agent = todo[u].agent
      BY <1>2 DEF SetPriority, StoreTypeOK, TodoRow
    <2>2. QED
      BY <1>2, <2>1, CurrentKeep DEF SetPriority
  <1>3. ASSUME NEW t \in Todos, DeleteTodo(t)
        PROVE  AgentCurrent'
    BY <1>3, CurrentIdle DEF DeleteTodo
  <1>4. ASSUME NEW t \in Todos, ContinueTodo(t)
        PROVE  AgentCurrent'
    BY <1>4, CurrentIdle DEF ContinueTodo
  <1>5. ASSUME NEW r \in Runs, RequestStop(r)
        PROVE  AgentCurrent'
    <2>1. PICK t \in Todos : t = run[r].todo
      BY <1>5 DEF RequestStop, Owns
    <2>2. todo' = [todo EXCEPT ![t].cancel = TRUE] /\ agent' = agent
      BY <1>5, <2>1 DEF RequestStop
    <2>3. \A u \in Todos : /\ todo'[u].status = todo[u].status
                           /\ todo'[u].agent = todo[u].agent
      BY <2>2 DEF StoreTypeOK, TodoRow
    <2>4. QED
      BY <2>2, <2>3, CurrentKeep
  <1>6. QED
    BY <1>1, <1>2, <1>3, <1>4, <1>5 DEF TodoStep

\* Auxiliary: a ledger row that was ever used names its todo and its agent.
LedgerAttributed ==
    \A r \in Runs : run[r].status # "unused" => /\ run[r].todo \in Todos
                                               /\ run[r].agent \in Agents

LEMMA AttributedInit == StoreInit => LedgerAttributed
  BY DEF StoreInit, LedgerAttributed, NoRun

LEMMA AttributedStep ==
    /\ StoreTypeOK /\ LedgerMatches /\ LedgerAttributed
    /\ [StoreNext]_storeVars
    => LedgerAttributed'
  <1> SUFFICES ASSUME StoreTypeOK, LedgerMatches, LedgerAttributed,
                      [StoreNext]_storeVars
               PROVE  LedgerAttributed'
    OBVIOUS
  <1>1. CASE run' = run
    BY <1>1 DEF LedgerAttributed
  <1>2. ASSUME NEW a \in Agents, NEW t \in Todos, NEW r \in Runs,
               ClaimTodo(a, t, r)
        PROVE  LedgerAttributed'
    <2>1. /\ run'[r].todo = t /\ run'[r].agent = a
          /\ \A q \in Runs : q # r => run'[q] = run[q]
      BY <1>2 DEF ClaimTodo, StoreTypeOK
    <2>2. QED
      BY <2>1 DEF LedgerAttributed
  <1>3. ASSUME NEW r \in Runs, NEW st, Owns(r),
               run' = [run EXCEPT ![r].status = st]
        PROVE  LedgerAttributed'
    <2>1. run[r].status # "unused"
      BY <1>3 DEF LedgerMatches
    <2>2. /\ run'[r].todo = run[r].todo /\ run'[r].agent = run[r].agent
          /\ \A q \in Runs : q # r => run'[q] = run[q]
      BY <1>3 DEF StoreTypeOK, RunRow
    <2>3. QED
      BY <2>1, <2>2 DEF LedgerAttributed
  <1>4. ASSUME NEW S \in SUBSET Agents, SweepStale(S)
        PROVE  LedgerAttributed'
    <2>1. ASSUME NEW r \in Runs
          PROVE  /\ run[r].status = "unused" => run'[r] = run[r]
                 /\ run'[r].todo = run[r].todo /\ run'[r].agent = run[r].agent
      <3>1. run[r] \in RunRow
        BY DEF StoreTypeOK
      <3>2. \/ run'[r] = run[r]
            \/ /\ run[r].status = "running"
               /\ run'[r] = [run[r] EXCEPT !.status = "stale"]
        BY <1>4 DEF SweepStale
      <3>3. QED
        BY <3>1, <3>2, StaleFields
    <2>2. QED
      BY <2>1 DEF LedgerAttributed
  <1>5. CASE RunStep
    BY <1>1, <1>2, <1>3, <1>5
       DEF RunStep, FinishTodo, RequeueCancelled, MayProceed, LinkConversation,
           WriteTranscript
  <1>6. CASE LivenessStep
    BY <1>1, <1>4, <1>6 DEF LivenessStep, RunHeartbeat, AgentHeartbeat, Elapse
  <1>7. CASE ModelStep \/ AgentStep \/ UNCHANGED storeVars
    BY <1>1, <1>7, ConfigFrame
  <1>8. CASE TodoStep
    BY <1>1, <1>8
       DEF TodoStep, CreateTodo, SetPriority, RequestStop, DeleteTodo, ContinueTodo
  <1>9. QED
    BY <1>5, <1>6, <1>7, <1>8 DEF StoreNext

LEMMA CurrentRunStep ==
    /\ StoreTypeOK /\ LedgerMatches /\ LedgerAttributed /\ AgentCurrent
    /\ RunStep
    => AgentCurrent'
  <1> SUFFICES ASSUME StoreTypeOK, LedgerMatches, LedgerAttributed,
                      AgentCurrent, RunStep
               PROVE  AgentCurrent'
    OBVIOUS
  <1>1. ASSUME NEW a \in Agents, NEW t \in Todos, NEW r \in Runs,
               ClaimTodo(a, t, r)
        PROVE  AgentCurrent'
    <2>1. todo[t].status = "queued"
      BY <1>1 DEF ClaimTodo, Eligible
    <2>2. /\ todo'[t].status = "running" /\ todo'[t].agent = a
          /\ \A u \in Todos : u # t => todo'[u] = todo[u]
      BY <1>1 DEF ClaimTodo, StoreTypeOK, TodoRow
    <2>3. agent'[a].cur = t /\ \A b \in Agents : b # a => agent'[b] = agent[b]
      BY <1>1 DEF ClaimTodo, StoreTypeOK, AgentRow
    <2>4. Points(a)'
      BY <2>2, <2>3, NoneIsNoId DEF Points
    <2>5. ASSUME NEW b \in Agents, b # a
          PROVE  Points(b)'
      <3>1. agent[b].cur # None => agent[b].cur \in Todos /\ agent[b].cur # t
        BY <2>1 DEF AgentCurrent, StoreTypeOK, AgentRow
      <3>2. QED
        BY <2>2, <2>3, <2>5, <3>1, PointsAll, PointsKeep
    <2>6. QED
      BY <2>4, <2>5 DEF AgentCurrent, Points
  <1>2. \A r \in Runs : Owns(r) => run[r].agent \in Agents
    BY DEF LedgerMatches, LedgerAttributed
  <1>3. ASSUME NEW r \in Runs, NEW o \in {"done", "failed"}, FinishTodo(r, o)
        PROVE  AgentCurrent'
    <2>1. PICK t \in Todos, a \in Agents :
             t = run[r].todo /\ a = run[r].agent /\ todo[t].agent = a
      BY <1>2, <1>3 DEF FinishTodo, MayProceed, Owns
    <2>2. /\ agent' = [agent EXCEPT ![a] = Released(agent[a])]
          /\ todo' = [todo EXCEPT ![t] = [todo[t] EXCEPT !.status = o,
                                                        !.token = None]]
      BY <1>3, <2>1 DEF FinishTodo
    <2>3. QED
      BY <2>1, <2>2, CurrentEnd
  <1>4. ASSUME NEW r \in Runs, RequeueCancelled(r)
        PROVE  AgentCurrent'
    <2>1. PICK t \in Todos, a \in Agents :
             t = run[r].todo /\ a = run[r].agent /\ todo[t].agent = a
      BY <1>2, <1>4 DEF RequeueCancelled, Owns
    <2>2. /\ agent' = [agent EXCEPT ![a] = Released(agent[a])]
          /\ todo' = [todo EXCEPT ![t] = Requeued(todo[t])]
      BY <1>4, <2>1 DEF RequeueCancelled
    <2>3. QED
      BY <2>1, <2>2, CurrentEnd
  <1>5. ASSUME NEW r \in Runs, LinkConversation(r)
        PROVE  AgentCurrent'
    <2>1. PICK t \in Todos : t = run[r].todo
      BY <1>5 DEF LinkConversation, MayProceed, Owns
    <2>2. todo' = [todo EXCEPT ![t].conv = TRUE] /\ agent' = agent
      BY <1>5, <2>1 DEF LinkConversation
    <2>3. \A u \in Todos : /\ todo'[u].status = todo[u].status
                           /\ todo'[u].agent = todo[u].agent
      BY <2>2 DEF StoreTypeOK, TodoRow
    <2>4. QED
      BY <2>2, <2>3, CurrentKeep
  <1>6. ASSUME NEW r \in Runs, WriteTranscript(r)
        PROVE  AgentCurrent'
    BY <1>6, CurrentKeep DEF WriteTranscript
  <1>7. QED
    BY <1>1, <1>3, <1>4, <1>5, <1>6 DEF RunStep

LEMMA CurrentLivenessStep ==
    /\ StoreTypeOK /\ LedgerMatches /\ LedgerAttributed /\ AgentCurrent
    /\ LivenessStep
    => AgentCurrent'
  <1> SUFFICES ASSUME StoreTypeOK, LedgerMatches, LedgerAttributed,
                      AgentCurrent, LivenessStep
               PROVE  AgentCurrent'
    OBVIOUS
  <1>1. ASSUME NEW recent \in BOOLEAN, NEW r \in Runs, RunHeartbeat(r, recent)
        PROVE  AgentCurrent'
    <2>1. PICK t \in Todos, a \in Agents : t = run[r].todo /\ a = run[r].agent
      BY <1>1 DEF RunHeartbeat, Owns, LedgerMatches, LedgerAttributed
    <2>2. todo[t].status = "running" /\ todo[t].agent = a
      BY <1>1, <2>1 DEF RunHeartbeat, Owns
    <2>3. /\ todo' = todo
          /\ agent' = [agent EXCEPT ![a] = [agent[a] EXCEPT !.status = "busy",
                                                           !.cur = t]]
      BY <1>1, <2>1 DEF RunHeartbeat
    <2>4. agent'[a].cur = t /\ \A b \in Agents : b # a => agent'[b] = agent[b]
      BY <2>3 DEF StoreTypeOK, AgentRow
    <2>5. QED
      BY <2>2, <2>3, <2>4, NoneIsNoId DEF AgentCurrent
  <1>2. ASSUME NEW recent \in BOOLEAN, NEW a \in Agents,
               NEW s \in {"idle", "offline"}, NEW c \in {None, agent[a].cur},
               AgentHeartbeat(a, s, c, recent)
        PROVE  AgentCurrent'
    <2>1. agent[a] \in AgentRow
      BY DEF StoreTypeOK
    <2>2. [agent[a] EXCEPT !.status = s, !.cur = c].status = s
          /\ [agent[a] EXCEPT !.status = s, !.cur = c].cur = c
      BY <2>1 DEF AgentRow
    <2>3. /\ todo' = todo
          /\ agent' = [agent EXCEPT ![a] = [agent[a] EXCEPT !.status = s,
                                                           !.cur = c]]
      BY <1>2 DEF AgentHeartbeat
    <2>4. /\ agent'[a].status = s /\ agent'[a].cur = c
          /\ \A b \in Agents : b # a => agent'[b] = agent[b]
      BY <2>2, <2>3 DEF StoreTypeOK
    <2>5. QED
      BY <2>3, <2>4 DEF AgentCurrent
  <1>3. ASSUME NEW a \in Agents, Elapse(a)
        PROVE  AgentCurrent'
    BY <1>3, CurrentKeep DEF Elapse
  <1>4. ASSUME NEW S \in SUBSET Agents, SweepStale(S)
        PROVE  AgentCurrent'
    <2>1. ASSUME NEW b \in S
          PROVE  Points(b)'
      <3>1. b \in Agents /\ agent[b] \in AgentRow
        BY DEF StoreTypeOK
      <3>2. agent'[b] = [agent[b] EXCEPT !.status = "offline", !.cur = None]
        BY <1>4, <3>1 DEF SweepStale
      <3>3. agent'[b].status = "offline" /\ agent'[b].cur = None
        BY <3>1, <3>2 DEF AgentRow
      <3>4. QED
        BY <3>3, PointsFree
    <2>2. ASSUME NEW b \in Agents, b \notin S
          PROVE  Points(b)'
      <3>1. agent'[b] = agent[b]
        BY <1>4, <2>2 DEF SweepStale
      <3>2. CASE agent[b].cur = None
        BY <3>1, <3>2, PointsAll, PointsKeep
      <3>3. CASE agent[b].cur # None
        <4>1. agent[b].cur \in Todos
          BY <3>3 DEF StoreTypeOK, AgentRow
        <4>2. agent[b].cur \notin SweptTodos(S)
          BY <2>2, <3>3, PointsApart DEF SweptTodos
        <4>3. todo'[agent[b].cur] = todo[agent[b].cur]
          BY <1>4, <4>1, <4>2 DEF SweepStale
        <4>4. QED
          BY <3>1, <4>3, PointsAll, PointsKeep
      <3>4. QED
        BY <3>2, <3>3
    <2>3. QED
      BY <2>1, <2>2 DEF AgentCurrent, Points
  <1>5. QED
    BY <1>1, <1>2, <1>3, <1>4 DEF LivenessStep

LEMMA CurrentStep ==
    /\ StoreTypeOK /\ LedgerMatches /\ LedgerAttributed /\ AgentCurrent
    /\ [StoreNext]_storeVars
    => AgentCurrent'
  <1>1. StoreTypeOK /\ AgentCurrent /\ ModelStep => AgentCurrent'
    BY CurrentKeep
       DEF ModelStep, CreateModel, SetCapacity, SetModelStatus, DeleteModel
  <1>2. StoreTypeOK /\ AgentCurrent /\ UNCHANGED storeVars => AgentCurrent'
    BY CurrentKeep DEF storeVars
  <1>3. QED
    BY <1>1, <1>2, CurrentAgentStep, CurrentTodoStep, CurrentRunStep,
       CurrentLivenessStep DEF StoreNext

\* A sweep never takes a todo from an agent that is not swept.
THEOREM CurrentCorrect == StoreSpec => []AgentCurrent
  <1> DEFINE IInv == /\ StoreTypeOK /\ LedgerMatches /\ LedgerAttributed
                     /\ AgentCurrent
  <1>1. StoreInit => IInv
    BY StoreTypeInit, LedgerInit, AttributedInit, CurrentInit
  <1>2. IInv /\ [StoreNext]_storeVars => IInv'
    BY StoreTypeStep, LedgerStep, AttributedStep, CurrentStep
  <1>3. IInv => AgentCurrent
    OBVIOUS
  <1>4. QED
    BY <1>1, <1>2, <1>3, PTL DEF StoreSpec

-----------------------------------------------------------------------------
(* Outcomes and transcripts.                                               *)

\* A ledger row that was ever used keeps its todo and its agent, is not used
\* again, and does not change any more once it is not running.
RowKept(r) ==
    run[r].status # "unused" =>
        /\ run'[r].todo = run[r].todo
        /\ run'[r].agent = run[r].agent
        /\ run'[r].model = run[r].model
        /\ run'[r].status # "unused"
        /\ run[r].status # "running" => run'[r] = run[r]

LEMMA RowsKept ==
    ASSUME StoreTypeOK, LedgerMatches, [StoreNext]_storeVars
    PROVE  \A r \in Runs : RowKept(r)
  <1>1. CASE run' = run
    BY <1>1 DEF RowKept
  <1>2. ASSUME NEW a \in Agents, NEW t \in Todos, NEW r \in Runs,
               ClaimTodo(a, t, r)
        PROVE  \A q \in Runs : RowKept(q)
    <2>1. run[r].status = "unused" /\ \A q \in Runs : q # r => run'[q] = run[q]
      BY <1>2 DEF ClaimTodo, NextRun, StoreTypeOK
    <2>2. QED
      BY <2>1 DEF RowKept
  <1>3. ASSUME NEW r \in Runs, NEW st, st # "unused", Owns(r),
               run' = [run EXCEPT ![r].status = st]
        PROVE  \A q \in Runs : RowKept(q)
    <2>1. run[r].status = "running"
      BY <1>3 DEF LedgerMatches
    <2>2. /\ run'[r].todo = run[r].todo /\ run'[r].agent = run[r].agent
          /\ run'[r].model = run[r].model /\ run'[r].status = st
          /\ \A q \in Runs : q # r => run'[q] = run[q]
      BY <1>3 DEF StoreTypeOK, RunRow
    <2>3. QED
      BY <1>3, <2>1, <2>2 DEF RowKept
  <1>4. ASSUME NEW S \in SUBSET Agents, SweepStale(S), NEW r \in Runs
        PROVE  RowKept(r)
    <2>1. run[r] \in RunRow
      BY DEF StoreTypeOK
    <2>2. \/ run'[r] = run[r]
          \/ /\ run[r].status = "running"
             /\ run'[r] = [run[r] EXCEPT !.status = "stale"]
      BY <1>4 DEF SweepStale
    <2>3. QED
      BY <2>1, <2>2, StaleFields DEF RowKept
  <1>5. CASE RunStep
    BY <1>1, <1>2, <1>3, <1>5
       DEF RunStep, FinishTodo, RequeueCancelled, MayProceed, LinkConversation,
           WriteTranscript
  <1>6. CASE LivenessStep
    BY <1>1, <1>4, <1>6 DEF LivenessStep, RunHeartbeat, AgentHeartbeat, Elapse
  <1>7. CASE ModelStep \/ AgentStep \/ UNCHANGED storeVars
    BY <1>1, <1>7, ConfigFrame
  <1>8. CASE TodoStep
    BY <1>1, <1>8
       DEF TodoStep, CreateTodo, SetPriority, RequestStop, DeleteTodo, ContinueTodo
  <1>9. QED
    BY <1>5, <1>6, <1>7, <1>8 DEF StoreNext

\* Auxiliary: only claimed generations have written.
AuthorsClaimed ==
    \A t \in Todos : \A i \in 1 .. Len(script[t]) :
        script[t][i] # User => run[script[t][i]].status # "unused"

\* What holds of a message is kept by every step that does not write.
LEMMA FencedFrame ==
    ASSUME StoreTypeOK, TranscriptFenced, AuthorsClaimed, script' = script,
           \A r \in Runs : RowKept(r)
    PROVE  TranscriptFenced' /\ AuthorsClaimed'
  <1>1. ASSUME NEW t \in Todos, NEW i \in 1 .. Len(script[t]),
               script[t][i] # User
        PROVE  /\ script[t][i] \in Runs /\ RowKept(script[t][i])
               /\ run[script[t][i]].status # "unused"
    <2>1. script[t] \in Seq(Runs \cup {User})
      BY DEF StoreTypeOK
    <2>2. script[t][i] \in Runs
      BY <1>1, <2>1
    <2>3. QED
      BY <1>1, <2>2 DEF AuthorsClaimed
  <1>2. AuthorsClaimed'
    BY <1>1 DEF AuthorsClaimed, RowKept
  <1>3. TranscriptFenced'
    BY <1>1 DEF TranscriptFenced, RowKept
  <1>4. QED
    BY <1>2, <1>3

\* A write by x while no other generation of t is running.
LEMMA FencedWrite ==
    ASSUME StoreTypeOK, TranscriptFenced, AuthorsClaimed,
           NEW t \in Todos, NEW x \in Runs \cup {User},
           x \in Runs => run[x].todo = t /\ run[x].status = "running",
           \A r \in Runs : run[r].todo = t /\ run[r].status = "running" => r = x,
           script' = [script EXCEPT ![t] = Signed(script[t], x)], run' = run
    PROVE  TranscriptFenced' /\ AuthorsClaimed'
  <1> DEFINE s == script[t]
  <1>1. s \in Seq(Runs \cup {User}) /\ User \notin Runs
    BY UserAssumption, BoundsAssumption DEF StoreTypeOK, Runs
  <1>2. /\ script'[t] = Signed(s, x)
        /\ \A u \in Todos : u # t => script'[u] = script[u]
    BY DEF StoreTypeOK
  <1>3. CASE s # <<>> /\ s[Len(s)] = x
    <2>1. script'[t] = s
      BY <1>2, <1>3 DEF Signed
    <2>2. script' = script
      BY <2>1, <1>2 DEF StoreTypeOK
    <2>3. \A r \in Runs : RowKept(r)
      BY DEF RowKept
    <2>4. QED
      BY <2>2, <2>3, FencedFrame
  <1>4. CASE ~(s # <<>> /\ s[Len(s)] = x)
    <2>1. script'[t] = Append(s, x)
      BY <1>2, <1>4 DEF Signed
    <2>2. /\ Len(script'[t]) = Len(s) + 1 /\ Len(s) \in Nat
          /\ \A i \in 1 .. Len(s) : script'[t][i] = s[i]
          /\ script'[t][Len(s) + 1] = x
      BY <1>1, <2>1
    <2>3. ASSUME NEW i \in 1 .. Len(s), s[i] # User
          PROVE  /\ s[i] \in Runs /\ run[s[i]].todo = t
                 /\ run[s[i]].status \notin {"unused", "running"}
                 /\ s[i] # x
                 /\ \A j \in 1 .. Len(s) : s[j] = s[i] => i = j
      <3>1. s[i] \in Runs
        BY <1>1, <2>3
      <3>2. /\ run[s[i]].todo = t /\ run[s[i]].status # "unused"
            /\ i < Len(s) => run[s[i]].status # "running"
            /\ \A j \in 1 .. Len(s) : s[j] = s[i] => i = j
        BY <2>3 DEF TranscriptFenced, AuthorsClaimed
      <3>3. CASE i < Len(s)
        BY <3>1, <3>2, <3>3
      <3>4. CASE i = Len(s)
        <4>1. s # <<>> /\ s[i] # x
          BY <1>1, <1>4, <2>2, <3>4
        <4>2. QED
          BY <3>1, <3>2, <4>1
      <3>5. QED
        BY <2>2, <3>3, <3>4
    <2>4. AuthorsClaimed'
      <3>1. ASSUME NEW u \in Todos, NEW i \in 1 .. Len(script'[u]),
                   script'[u][i] # User
            PROVE  run'[script'[u][i]].status # "unused"
        <4>1. CASE u # t
          BY <3>1, <4>1, <1>2 DEF AuthorsClaimed
        <4>2. CASE u = t /\ i \in 1 .. Len(s)
          BY <3>1, <4>2, <2>2, <2>3
        <4>3. CASE u = t /\ i = Len(s) + 1
          BY <3>1, <4>3, <2>2
        <4>4. QED
          BY <4>1, <4>2, <4>3, <2>2
      <3>2. QED
        BY <3>1 DEF AuthorsClaimed
    <2>5. TranscriptFenced'
      <3>1. ASSUME NEW u \in Todos, NEW i \in 1 .. Len(script'[u]),
                   script'[u][i] # User
            PROVE  /\ run'[script'[u][i]].todo = u
                   /\ i < Len(script'[u])
                      => run'[script'[u][i]].status # "running"
                   /\ \A j \in 1 .. Len(script'[u]) :
                         script'[u][j] = script'[u][i] => i = j
        <4>1. CASE u # t
          BY <3>1, <4>1, <1>2 DEF TranscriptFenced
        <4>2. CASE u = t /\ i \in 1 .. Len(s)
          BY <3>1, <4>2, <2>2, <2>3
        <4>3. CASE u = t /\ i = Len(s) + 1
          <5>1. x \in Runs /\ script'[u][i] = x
            BY <3>1, <4>3, <2>2
          <5>2. \A j \in 1 .. Len(s) : script'[u][j] # x
            BY <5>1, <4>3, <1>1, <2>2, <2>3
          <5>3. QED
            BY <4>3, <5>1, <5>2, <2>2
        <4>4. QED
          BY <4>1, <4>2, <4>3, <2>2
      <3>2. QED
        BY <3>1 DEF TranscriptFenced
    <2>6. QED
      BY <2>4, <2>5
  <1>5. QED
    BY <1>3, <1>4

LEMMA FencedInit == StoreInit => TranscriptFenced /\ AuthorsClaimed
  BY DEF StoreInit, TranscriptFenced, AuthorsClaimed

\* The voice of the user is no generation.
LEMMA UserNoRun == User \notin Runs
  BY UserAssumption, BoundsAssumption DEF Runs

LEMMA FencedStep ==
    /\ StoreTypeOK /\ LedgerMatches /\ TranscriptFenced /\ AuthorsClaimed
    /\ [StoreNext]_storeVars
    => TranscriptFenced' /\ AuthorsClaimed'
  <1> SUFFICES ASSUME StoreTypeOK, LedgerMatches, TranscriptFenced,
                      AuthorsClaimed, [StoreNext]_storeVars
               PROVE  TranscriptFenced' /\ AuthorsClaimed'
    OBVIOUS
  <1>1. CASE script' = script
    BY <1>1, RowsKept, FencedFrame
  <1>2. ASSUME NEW t \in Todos, ContinueTodo(t)
        PROVE  TranscriptFenced' /\ AuthorsClaimed'
    <2>1. /\ script' = [script EXCEPT ![t] = Signed(script[t], User)]
          /\ run' = run /\ todo[t].status # "running"
      BY <1>2 DEF ContinueTodo
    <2>2. \A r \in Runs : run[r].todo = t => run[r].status # "running"
      BY <2>1 DEF LedgerMatches, Owns
    <2>3. User \in Runs => run[User].todo = t /\ run[User].status = "running"
      BY UserNoRun
    <2>4. \A r \in Runs : run[r].todo = t /\ run[r].status = "running" => r = User
      BY <2>2
    <2>5. User \in Runs \cup {User}
      OBVIOUS
    <2>6. QED
      BY <2>1, <2>3, <2>4, <2>5, FencedWrite
  <1>3. ASSUME NEW r \in Runs, WriteTranscript(r)
        PROVE  TranscriptFenced' /\ AuthorsClaimed'
    <2>1. PICK t \in Todos : t = run[r].todo
      BY <1>3 DEF WriteTranscript, CanWrite, MayProceed, Owns
    <2>2. /\ script' = [script EXCEPT ![t] = Signed(script[t], r)]
          /\ run' = run /\ Owns(r)
      BY <1>3, <2>1 DEF WriteTranscript, CanWrite, MayProceed
    <2>3. run[r].todo = t /\ run[r].status = "running" /\ todo[t].token = r
      BY <2>1, <2>2 DEF LedgerMatches, Owns
    <2>4. \A q \in Runs : run[q].todo = t /\ run[q].status = "running" => q = r
      BY <2>3 DEF LedgerMatches, Owns
    <2>5. r \in Runs \cup {User}
      OBVIOUS
    <2>6. QED
      BY <2>2, <2>3, <2>4, <2>5, FencedWrite
  <1>4. CASE ModelStep \/ AgentStep \/ UNCHANGED storeVars
    BY <1>1, <1>4, ConfigFrame
  <1>5. CASE LivenessStep
    <2>1. ASSUME NEW S \in SUBSET Agents, SweepStale(S)
          PROVE  script' = script
      BY <2>1 DEF SweepStale
    <2>2. QED
      BY <1>1, <1>5, <2>1
         DEF LivenessStep, RunHeartbeat, AgentHeartbeat, Elapse
  <1>6. CASE TodoStep
    BY <1>1, <1>2, <1>6
       DEF TodoStep, CreateTodo, SetPriority, DeleteTodo, RequestStop
  <1>7. CASE RunStep
    BY <1>1, <1>3, <1>7
       DEF RunStep, ClaimTodo, FinishTodo, RequeueCancelled, LinkConversation
  <1>8. QED
    BY <1>4, <1>6, <1>7, <1>5 DEF StoreNext

\* A generation writes one block, and never again after it ended.
THEOREM FencedCorrect == StoreSpec => []TranscriptFenced
  <1> DEFINE IInv == /\ StoreTypeOK /\ LedgerMatches /\ TranscriptFenced
                     /\ AuthorsClaimed
  <1>1. StoreInit => IInv
    BY StoreTypeInit, LedgerInit, FencedInit
  <1>2. IInv /\ [StoreNext]_storeVars => IInv'
    BY StoreTypeStep, LedgerStep, FencedStep
  <1>3. IInv => TranscriptFenced
    OBVIOUS
  <1>4. QED
    BY <1>1, <1>2, <1>3, PTL DEF StoreSpec

\* A todo that is settled after a step was settled before it.
NoneSettles ==
    \A t \in Todos : todo'[t].status \in {"done", "failed"}
                      => todo[t].status \in {"done", "failed"}

\* Only FinishTodo settles a todo.
LEMMA OnlyFinishSettles ==
    ASSUME StoreTypeOK, [StoreNext]_storeVars
    PROVE  \/ \E r \in Runs, o \in {"done", "failed"} : FinishTodo(r, o)
           \/ NoneSettles
  <1>1. ASSUME todo' = todo
        PROVE  NoneSettles
    BY <1>1 DEF NoneSettles
  <1>2. ASSUME NEW t \in Todos, NEW row \in TodoRow,
               row.status \in {"queued", "deleted"},
               todo' = [todo EXCEPT ![t] = row]
        PROVE  NoneSettles
    <2>1. todo'[t] = row /\ \A u \in Todos : u # t => todo'[u] = todo[u]
      BY <1>2 DEF StoreTypeOK
    <2>2. QED
      BY <1>2, <2>1 DEF NoneSettles
  <1>3. \A t \in Todos : todo[t] \in TodoRow
    BY DEF StoreTypeOK
  <1>4. \A t \in Todos : /\ Requeued(todo[t]) \in TodoRow
                         /\ Requeued(todo[t]).status = "queued"
    BY <1>3, RequeuedFields, RowTypes
  <1>5. CASE ModelStep \/ AgentStep \/ UNCHANGED storeVars
    BY <1>1, <1>5, ConfigFrame
  <1>6. ASSUME TodoStep
        PROVE  NoneSettles
    <2>1. ASSUME NEW t \in Todos, NEW x \in Complexities,
                 NEW p \in Agents \cup {None}, CreateTodo(t, x, p)
          PROVE  NoneSettles
      <3> DEFINE row == [NoTodo EXCEPT !.status = "queued", !.cx = x,
                                       !.pref = p]
      <3>1. row \in TodoRow /\ row.status = "queued"
        BY RowTypes DEF TodoRow
      <3>2. todo' = [todo EXCEPT ![t] = row]
        BY <2>1 DEF CreateTodo
      <3> HIDE DEF row
      <3>3. QED
        BY <3>1, <3>2, <1>2
    <2>2. ASSUME NEW t \in Todos, NEW p \in Priorities, SetPriority(t, p)
          PROVE  NoneSettles
      BY <2>2, <1>3 DEF SetPriority, NoneSettles, StoreTypeOK, TodoRow
    <2>3. ASSUME NEW t \in Todos, DeleteTodo(t)
          PROVE  NoneSettles
      <3> DEFINE row == [NoTodo EXCEPT !.status = "deleted"]
      <3>1. row \in TodoRow /\ row.status = "deleted"
        BY RowTypes DEF TodoRow
      <3>2. todo' = [todo EXCEPT ![t] = row]
        BY <2>3 DEF DeleteTodo
      <3> HIDE DEF row
      <3>3. QED
        BY <3>1, <3>2, <1>2
    <2>4. ASSUME NEW t \in Todos, ContinueTodo(t)
          PROVE  NoneSettles
      <3>1. todo' = [todo EXCEPT ![t] = Requeued(todo[t])]
        BY <2>4 DEF ContinueTodo
      <3>2. QED
        BY <3>1, <1>2, <1>4
    <2>5. ASSUME NEW r \in Runs, RequestStop(r)
          PROVE  NoneSettles
      <3>1. PICK t \in Todos : t = run[r].todo
        BY <2>5 DEF RequestStop, Owns
      <3>2. todo' = [todo EXCEPT ![t].cancel = TRUE]
        BY <2>5, <3>1 DEF RequestStop
      <3>3. QED
        BY <3>2, <1>3 DEF NoneSettles, StoreTypeOK, TodoRow
    <2>6. QED
      BY <1>6, <2>1, <2>2, <2>3, <2>4, <2>5 DEF TodoStep
  <1>7. CASE RunStep
    <2>1. ASSUME NEW a \in Agents, NEW t \in Todos, NEW r \in Runs,
                 ClaimTodo(a, t, r)
          PROVE  NoneSettles
      BY <2>1, <1>3 DEF ClaimTodo, NoneSettles, StoreTypeOK, TodoRow
    <2>2. ASSUME NEW r \in Runs, RequeueCancelled(r)
          PROVE  NoneSettles
      <3>1. PICK t \in Todos : t = run[r].todo
        BY <2>2 DEF RequeueCancelled, Owns
      <3>2. todo' = [todo EXCEPT ![t] = Requeued(todo[t])]
        BY <2>2, <3>1 DEF RequeueCancelled
      <3>3. QED
        BY <3>2, <1>2, <1>4
    <2>3. ASSUME NEW r \in Runs, LinkConversation(r)
          PROVE  NoneSettles
      <3>1. PICK t \in Todos : t = run[r].todo
        BY <2>3 DEF LinkConversation, MayProceed, Owns
      <3>2. todo' = [todo EXCEPT ![t].conv = TRUE]
        BY <2>3, <3>1 DEF LinkConversation
      <3>3. QED
        BY <3>2, <1>3 DEF NoneSettles, StoreTypeOK, TodoRow
    <2>4. ASSUME NEW r \in Runs, WriteTranscript(r)
          PROVE  NoneSettles
      BY <2>4, <1>1 DEF WriteTranscript
    <2>5. QED
      BY <1>7, <2>1, <2>2, <2>3, <2>4 DEF RunStep
  <1>8. CASE LivenessStep
    <2>1. ASSUME NEW S \in SUBSET Agents, SweepStale(S)
          PROVE  NoneSettles
      BY <2>1, <1>4 DEF SweepStale, NoneSettles
    <2>2. QED
      BY <1>1, <1>8, <2>1 DEF LivenessStep, RunHeartbeat, AgentHeartbeat, Elapse
  <1>9. QED
    BY <1>5, <1>6, <1>7, <1>8 DEF StoreNext

LEMMA OutcomeStepHolds ==
    StoreTypeOK /\ LedgerMatches /\ [StoreNext]_storeVars => OutcomeStep
  <1> SUFFICES ASSUME StoreTypeOK, LedgerMatches, [StoreNext]_storeVars
               PROVE  OutcomeStep
    OBVIOUS
  <1>1. \A r \in Runs : run[r].status \notin {"unused", "running"}
                        => run'[r] = run[r]
    BY RowsKept DEF RowKept
  <1>2. CASE NoneSettles
    BY <1>1, <1>2 DEF NoneSettles, OutcomeStep
  <1>3. ASSUME NEW r \in Runs, NEW o \in {"done", "failed"}, FinishTodo(r, o)
        PROVE  OutcomeStep
    <2>1. PICK t \in Todos : t = run[r].todo
      BY <1>3 DEF FinishTodo, MayProceed, Owns
    <2>2. todo[t].token = r /\ ~todo[t].cancel
      BY <1>3, <2>1 DEF FinishTodo, MayProceed, Owns, Cancelled
    <2>3. todo' = [todo EXCEPT ![t] = [todo[t] EXCEPT !.status = o,
                                                     !.token = None]]
      BY <1>3, <2>1 DEF FinishTodo
    <2>4. /\ todo'[t].status = o
          /\ \A u \in Todos : u # t => todo'[u] = todo[u]
      BY <2>3 DEF StoreTypeOK, TodoRow
    <2>5. run'[r].status = o
      BY <1>3 DEF FinishTodo, StoreTypeOK, RunRow
    <2>6. QED
      BY <1>1, <2>2, <2>4, <2>5 DEF OutcomeStep
  <1>4. QED
    BY <1>2, <1>3, OnlyFinishSettles

\* A generation has one outcome, under every client of the store.
THEOREM OutcomesFinal == StoreSpec => OutcomeFinal
  BY StoreTypeCorrect, LedgerCorrect, OutcomeStepHolds, PTL
     DEF StoreSpec, OutcomeFinal
=============================================================================
