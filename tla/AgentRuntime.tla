---------------------------- MODULE AgentRuntime ----------------------------
(***************************************************************************)
(* brain2-worker: AgentRuntimeSupervisor (one per worker process) and the  *)
(* executions it submits (run_agent_todo with the turn loop of chat.py),   *)
(* on top of the store they share with the API.  Every read of the store   *)
(* that the code acts on later is a step of its own; two reads or a read   *)
(* and a guarded write are one step only where the guard makes the earlier *)
(* read redundant (ownership of a generation, once lost, never returns).   *)
(***************************************************************************)
EXTENDS TodoStore

CONSTANTS
    Workers,        \* worker processes
    MaxWorkers,     \* max_workers: futures of one supervisor
    MaxTurns,       \* _MAX_TURNS: provider calls of one turn
    MaxBoots        \* bound: how often a process starts

ASSUME RuntimeAssumption ==
    /\ MaxWorkers \in Nat \ {0}
    /\ MaxTurns \in Nat \ {0}
    /\ MaxBoots \in Nat

VARIABLES
    sup,        \* sup[w]: the supervisor object and where its thread is
    exec        \* exec[r]: the future executing generation r

vars == <<storeVars, sup, exec>>

NoExec == [pc |-> "none", worker |-> None, model |-> None, turn |-> 0]

Down(boots) == [pc |-> "down", boots |-> boots, stale |-> {}, late |-> FALSE,
                look |-> [a \in Agents |-> "seen"], at |-> None,
                claims |-> {}, left |-> {}]

ActivePC == {"submitted", "resolve", "link", "open", "check", "turn", "call",
             "tool", "error", "answered", "finish", "fail", "blame",
             "conflict"}

Live(r) == exec[r].pc \in ActivePC

SupRow == [pc : {"down", "rest", "beat", "sweep", "list", "scan", "claim",
                 "endbeat", "closing"},
           boots : 0 .. MaxBoots, stale : SUBSET Agents, late : BOOLEAN,
           look : [Agents -> {"seen", "skip", "down", "wake", "stay"}],
           at : Agents \cup {None}, claims : SUBSET Runs, left : SUBSET Runs]
ExecRow == [pc : ActivePC \cup {"none", "exited", "lost"},
            worker : Workers \cup {None}, model : Models \cup {None},
            turn : 0 .. MaxTurns]

RuntimeInit ==
    /\ sup = [w \in Workers |-> Down(0)]
    /\ exec = [r \in Runs |-> NoExec]

Init == StoreInit /\ RuntimeInit

-----------------------------------------------------------------------------
(* One tick of the supervisor: reap, heartbeat, sweep, then one pass over  *)
(* a snapshot of the agents.                                               *)

\* _reap, then "now" is read: what is stale at that moment is what the sweep
\* will judge by.
TickBegin(w) ==
    /\ sup[w].pc = "rest"
    /\ LET kept == {r \in sup[w].claims : exec[r].pc # "exited"}
       IN  sup' = [sup EXCEPT ![w] =
                     [@ EXCEPT !.pc = "beat", !.claims = kept, !.left = kept,
                               !.stale = {a \in Agents : ~fresh[a]},
                               !.late = FALSE]]
    /\ UNCHANGED <<storeVars, exec>>

\* _heartbeat_running, one claim: at the start and at the end of the tick,
\* with the same timestamp.  The sweep of this tick compares with that very
\* timestamp, so it spares the agent however late it is by then.
Beat(w, r) ==
    /\ sup[w].pc \in {"beat", "endbeat"}
    /\ r \in sup[w].left
    /\ IF Owns(r) /\ Supervised(run[r].agent)
       THEN /\ RunHeartbeat(r, ~sup[w].late)
            /\ sup' = [sup EXCEPT ![w].left = @ \ {r},
                                  ![w].stale = @ \ {run[r].agent}]
       ELSE /\ sup' = [sup EXCEPT ![w].left = @ \ {r}]
            /\ UNCHANGED storeVars
    /\ UNCHANGED exec

Sweep(w) ==
    /\ sup[w].pc = "beat" /\ sup[w].left = {}
    /\ SweepStale({a \in sup[w].stale : ~fresh[a] /\ agent[a].status # "offline"})
    /\ sup' = [sup EXCEPT ![w].pc = "list", ![w].stale = {}]
    /\ UNCHANGED exec

\* Mutants: the model is looked at before the own futures; an agent that is
\* busy without a future is taken for an offline one.
GlanceModelFirst(w, a) ==
    IF agent[a].life # "live" THEN "seen"
    ELSE IF ~agent[a].enabled THEN "skip"
    ELSE IF ~Ready(agent[a].model)
    THEN IF agent[a].status = "offline" THEN "skip" ELSE "down"
    ELSE IF \E r \in sup[w].claims : run[r].agent = a THEN "skip"
    ELSE CASE agent[a].status = "offline" -> "wake"
           [] agent[a].status = "idle" -> "stay"
           [] agent[a].status = "busy" -> "skip"
GlanceWakesBusy(w, a) ==
    IF agent[a].life # "live" THEN "seen"
    ELSE IF ~agent[a].enabled \/ \E r \in sup[w].claims : run[r].agent = a
    THEN "skip"
    ELSE IF ~Ready(agent[a].model)
    THEN IF agent[a].status = "offline" THEN "skip" ELSE "down"
    ELSE IF agent[a].status = "idle" THEN "stay" ELSE "wake"

\* What the loop body will do with the row it sees in the snapshot.
Glance(w, a) ==
    IF agent[a].life # "live" THEN "seen"
    ELSE IF ~agent[a].enabled \/ \E r \in sup[w].claims : run[r].agent = a
    THEN "skip"
    ELSE IF ~Ready(agent[a].model)
    THEN IF agent[a].status = "offline" THEN "skip" ELSE "down"
    ELSE CASE agent[a].status = "offline" -> "wake"
           [] agent[a].status = "idle" -> "stay"
           [] agent[a].status = "busy" -> "skip"

List(w) ==
    /\ sup[w].pc = "list"
    /\ sup' = [sup EXCEPT ![w].pc = "scan",
                          ![w].look = [a \in Agents |-> Glance(w, a)]]
    /\ UNCHANGED <<storeVars, exec>>

Full(w) == Cardinality(sup[w].claims) >= MaxWorkers

\* One agent of the snapshot: the heartbeat is written from the snapshot, the
\* row may have changed since.  The order of the agents is that of their names.
Visit(w, a) ==
    /\ sup[w].pc = "scan" /\ ~Full(w)
    /\ sup[w].look[a] \in {"down", "wake", "stay"}
    /\ LET status == IF sup[w].look[a] = "down" THEN "offline" ELSE "idle"
           cur    == IF sup[w].look[a] = "stay" THEN agent[a].cur ELSE None
       IN  IF Supervised(a) THEN AgentHeartbeat(a, status, cur, ~sup[w].late)
                            ELSE UNCHANGED storeVars
    /\ sup' = [sup EXCEPT ![w] =
                 [@ EXCEPT !.look = [sup[w].look EXCEPT ![a] = "seen"],
                           !.pc = IF sup[w].look[a] = "down" THEN "scan"
                                                             ELSE "claim",
                           !.at = IF sup[w].look[a] = "down" THEN None ELSE a]]
    /\ UNCHANGED exec

\* claim_todo_for_agent in its own transaction, then submit.
Claim(w) ==
    /\ sup[w].pc = "claim"
    /\ \E t \in Todos, r \in Runs :
          /\ ClaimTodo(sup[w].at, t, r)
          /\ exec' = [exec EXCEPT ![r] = [NoExec EXCEPT !.pc = "submitted",
                                                        !.worker = w]]
          /\ sup' = [sup EXCEPT ![w] = [@ EXCEPT !.pc = "scan", !.at = None,
                                            !.claims = sup[w].claims \cup {r}]]

\* Nothing to claim, no capacity, or the agent is not idle any more.  (The
\* last disjunct is the bound MaxRuns.)
ClaimNothing(w) ==
    /\ sup[w].pc = "claim"
    /\ \/ ~MayClaim(sup[w].at)
       \/ Eligible(sup[w].at) = {}
       \/ \A r \in Runs : run[r].status # "unused"
    /\ sup' = [sup EXCEPT ![w] = [@ EXCEPT !.pc = "scan", !.at = None]]
    /\ UNCHANGED <<storeVars, exec>>

Resting(w) == [sup[w] EXCEPT !.pc = "rest", !.late = FALSE,
                            !.look = [a \in Agents |-> "seen"]]

\* The pass is over, or the executor is full: that return skips the heartbeat.
PassDone(w) ==
    /\ sup[w].pc = "scan"
    /\ \A a \in Agents : sup[w].look[a] \in {"seen", "skip"}
    /\ sup' = [sup EXCEPT ![w].pc = "endbeat", ![w].left = sup[w].claims]
    /\ UNCHANGED <<storeVars, exec>>

ExecutorFull(w) ==
    /\ sup[w].pc = "scan" /\ Full(w)
    /\ \E a \in Agents : sup[w].look[a] # "seen"
    /\ sup' = [sup EXCEPT ![w] = Resting(w)]
    /\ UNCHANGED <<storeVars, exec>>

TickEnd(w) ==
    /\ sup[w].pc = "endbeat" /\ sup[w].left = {}
    /\ sup' = [sup EXCEPT ![w] = Resting(w)]
    /\ UNCHANGED <<storeVars, exec>>

TickStep(w) ==
    \/ TickBegin(w)
    \/ \E r \in Runs : Beat(w, r)
    \/ Sweep(w)
    \/ List(w)
    \/ \E a \in Agents : Visit(w, a)
    \/ Claim(w)
    \/ ClaimNothing(w)
    \/ PassDone(w)
    \/ ExecutorFull(w)
    \/ TickEnd(w)

-----------------------------------------------------------------------------
(* One execution: run_agent_todo.                                          *)

Goes(r, pc) == exec' = [exec EXCEPT ![r].pc = pc]

\* A thread takes the future; _assert_run_owned.
Start(r) ==
    /\ exec[r].pc = "submitted"
    /\ Goes(r, IF MayProceed(r) THEN "resolve" ELSE "fail")
    /\ UNCHANGED <<storeVars, sup>>

\* _resolve_claiming_agent: the model the agent is bound to now.
Resolve(r) ==
    /\ exec[r].pc = "resolve"
    /\ LET row == agent[run[r].agent]
       IN  IF row.life = "live" /\ row.model # None
           THEN exec' = [exec EXCEPT ![r].pc = "link", ![r].model = row.model]
           ELSE Goes(r, "fail")
    /\ UNCHANGED <<storeVars, sup>>

\* _ensure_conversation
Link(r) ==
    /\ exec[r].pc = "link"
    /\ \/ LinkConversation(r) /\ Goes(r, "open")
       \/ /\ MayProceed(r) /\ todo[run[r].todo].conv
          /\ Goes(r, "open") /\ UNCHANGED storeVars
       \/ ~MayProceed(r) /\ Goes(r, "fail") /\ UNCHANGED storeVars
    /\ UNCHANGED sup

\* The title becomes the first user message of an empty conversation.
Open(r) ==
    /\ exec[r].pc = "open"
    /\ LET empty == script[run[r].todo] = <<>>
       IN  \/ empty /\ WriteTranscript(r) /\ Goes(r, "check")
           \/ ~empty /\ Goes(r, "check") /\ UNCHANGED storeVars
           \/ empty /\ ~CanWrite(r) /\ Goes(r, "fail") /\ UNCHANGED storeVars
    /\ UNCHANGED sup

\* Owned, requester known, model ready, still owned.
Check(r) ==
    /\ exec[r].pc = "check"
    /\ Goes(r, IF MayProceed(r) /\ Ready(exec[r].model) THEN "turn" ELSE "fail")
    /\ UNCHANGED <<storeVars, sup>>

\* Top of run_turn's loop: stop_check, then the provider is called.
Turn(r) ==
    /\ exec[r].pc = "turn"
    /\ IF MayProceed(r)
       THEN exec' = [exec EXCEPT ![r].pc = "call", ![r].turn = @ + 1]
       ELSE Goes(r, "error")
    /\ UNCHANGED <<storeVars, sup>>

\* The provider failed, or its answer came back to a generation that must stop
\* (stop_check), or whose guarded insert is refused (Conflict).
ReplyLost(r) ==
    /\ exec[r].pc = "call"
    /\ \/ Goes(r, "error")
       \/ ~MayProceed(r) /\ Goes(r, "fail")
    /\ UNCHANGED <<storeVars, sup>>

\* The assistant message is persisted: final, or with tool calls in it.
ReplySaved(r) ==
    /\ exec[r].pc = "call"
    /\ WriteTranscript(r)
    /\ Goes(r, "answered") \/ Goes(r, "tool")
    /\ UNCHANGED sup

\* Mutant: the loop has no limit.
ToolUnlimited(r) ==
    /\ exec[r].pc = "tool"
    /\ WriteTranscript(r)
    /\ Goes(r, "turn")
    /\ UNCHANGED sup

\* The tools were dispatched; their results are written under the same guard.
Tool(r) ==
    /\ exec[r].pc = "tool"
    /\ \/ /\ WriteTranscript(r)
          /\ Goes(r, IF exec[r].turn < MaxTurns THEN "turn" ELSE "error")
       \/ /\ ~MayProceed(r)
          /\ Goes(r, "error") \/ Goes(r, "fail")
          /\ UNCHANGED storeVars
    /\ UNCHANGED sup

\* _requeue_if_cancelled; TRUE for callers that then return.
Yields(r) == RequeueCancelled(r) /\ Goes(r, "exited")
CannotYield(r) == ~(Owns(r) /\ Cancelled(r) /\ Holds(run[r].agent, run[r].todo))

\* run_turn ended with an error event.
AfterError(r) ==
    /\ exec[r].pc = "error"
    /\ \/ Yields(r)
       \/ CannotYield(r) /\ Goes(r, "fail") /\ UNCHANGED storeVars
    /\ UNCHANGED sup

\* run_turn ended with done; an empty answer counts as a failure.
AfterDone(r) ==
    /\ exec[r].pc = "answered"
    /\ \/ Yields(r)
       \/ /\ CannotYield(r)
          /\ Goes(r, "finish") \/ Goes(r, "fail")
          /\ UNCHANGED storeVars
    /\ UNCHANGED sup

CanFinish(r) == MayProceed(r) /\ Holds(run[r].agent, run[r].todo)

Finish(r) ==
    /\ exec[r].pc = "finish"
    /\ \/ FinishTodo(r, "done") /\ Goes(r, "exited")
       \/ ~CanFinish(r) /\ Goes(r, "fail") /\ UNCHANGED storeVars
    /\ UNCHANGED sup

\* _persist_failure up to the error message in the transcript.
Fail(r) ==
    /\ exec[r].pc = "fail"
    /\ \/ ~Owns(r) /\ Goes(r, "exited") /\ UNCHANGED storeVars
       \/ Yields(r)
       \/ /\ Owns(r) /\ Cancelled(r) /\ CannotYield(r)
          /\ Goes(r, "conflict") /\ UNCHANGED storeVars
       \/ WriteTranscript(r) /\ Goes(r, "blame")
       \/ /\ MayProceed(r) /\ ~CanWrite(r)
          /\ Goes(r, "blame") /\ UNCHANGED storeVars
    /\ UNCHANGED sup

\* _persist_failure, finish_todo
Blame(r) ==
    /\ exec[r].pc = "blame"
    /\ \/ FinishTodo(r, "failed") /\ Goes(r, "exited")
       \/ ~CanFinish(r) /\ Goes(r, "conflict") /\ UNCHANGED storeVars
    /\ UNCHANGED sup

\* A stop won the race after the failure began.
Conflicted(r) ==
    /\ exec[r].pc = "conflict"
    /\ \/ Yields(r)
       \/ CannotYield(r) /\ Goes(r, "exited") /\ UNCHANGED storeVars
    /\ UNCHANGED sup

ExecStep(r) ==
    \/ Start(r) \/ Resolve(r) \/ Link(r) \/ Open(r) \/ Check(r)
    \/ Turn(r) \/ ReplyLost(r) \/ ReplySaved(r) \/ Tool(r)
    \/ AfterError(r) \/ AfterDone(r) \/ Finish(r)
    \/ Fail(r) \/ Blame(r) \/ Conflicted(r)

-----------------------------------------------------------------------------
(* Shutdown, faults and time.                                              *)

\* run_worker's finally: close() may begin wherever the thread is.
CloseBegin(w) ==
    /\ sup[w].pc \notin {"down", "closing"}
    /\ sup' = [sup EXCEPT ![w] = [Down(sup[w].boots) EXCEPT !.pc = "closing",
                                     !.claims = sup[w].claims,
                                     !.left = sup[w].claims]]
    /\ UNCHANGED <<storeVars, exec>>

\* close(), one claim: ask the generation to stop unless it is no longer the
\* owner; a future that no thread has taken yet is cancelled and requeued.
CloseStop(w, r) ==
    /\ sup[w].pc = "closing" /\ r \in sup[w].left
    /\ Owns(r) /\ ~Cancelled(r)
    /\ RequestStop(r)
    /\ UNCHANGED <<sup, exec>>

CloseCancel(w, r) ==
    /\ sup[w].pc = "closing" /\ r \in sup[w].left
    /\ ~MayProceed(r)
    /\ sup' = [sup EXCEPT ![w].left = @ \ {r}]
    /\ IF exec[r].pc = "submitted"
       THEN /\ Goes(r, "exited")
            /\ \/ RequeueCancelled(r)
               \/ CannotYield(r) /\ UNCHANGED storeVars
       ELSE UNCHANGED <<storeVars, exec>>

\* executor.shutdown(wait=True): every thread has returned.
CloseEnd(w) ==
    /\ sup[w].pc = "closing" /\ sup[w].left = {}
    /\ \A r \in sup[w].claims : ~Live(r)
    /\ sup' = [sup EXCEPT ![w] = Down(sup[w].boots)]
    /\ UNCHANGED <<storeVars, exec>>

CloseStep(w) ==
    \/ \E r \in Runs : CloseStop(w, r) \/ CloseCancel(w, r)
    \/ CloseEnd(w)

\* The process dies; its threads die with it, the database does not.
Crash(w) ==
    /\ sup[w].pc # "down"
    /\ sup' = [sup EXCEPT ![w] = Down(sup[w].boots)]
    /\ exec' = [r \in Runs |-> IF exec[r].worker = w /\ Live(r)
                               THEN [exec[r] EXCEPT !.pc = "lost"]
                               ELSE exec[r]]
    /\ UNCHANGED storeVars

Boot(w) ==
    /\ sup[w].pc = "down" /\ sup[w].boots < MaxBoots
    /\ sup' = [sup EXCEPT ![w].pc = "rest", ![w].boots = @ + 1]
    /\ UNCHANGED <<storeVars, exec>>

\* A store call of the execution fails for good ("database is locked"): the
\* try block turns it into a failed run, the failure handler does not catch it
\* and the future ends without releasing anything.
StoreError(r) ==
    /\ Live(r) /\ exec[r].pc # "submitted"
    /\ Goes(r, IF exec[r].pc \in {"fail", "blame", "conflict"}
               THEN "exited" ELSE "fail")
    /\ UNCHANGED <<storeVars, sup>>

\* The supervisor thread is held up for thirty seconds inside a tick: the
\* timestamp it still has in hand is old by now.
Stall(w) ==
    /\ sup[w].pc \notin {"down", "rest", "closing"} /\ ~sup[w].late
    /\ sup' = [sup EXCEPT ![w].late = TRUE]
    /\ UNCHANGED <<storeVars, exec>>

FaultStep ==
    \/ \E w \in Workers : CloseBegin(w) \/ Crash(w) \/ Boot(w) \/ Stall(w)
    \/ \E r \in Runs : StoreError(r)
    \/ \E a \in Agents : Elapse(a) /\ UNCHANGED <<sup, exec>>

-----------------------------------------------------------------------------

\* API requests.
ClientStep == (ModelStep \/ AgentStep \/ TodoStep) /\ UNCHANGED <<sup, exec>>

WorkerStep == \/ \E w \in Workers : TickStep(w) \/ CloseStep(w)
              \/ \E r \in Runs : ExecStep(r)

Next == ClientStep \/ WorkerStep \/ FaultStep

Spec == Init /\ [][Next]_vars

\* No supervisor heartbeats for a any more, so its last heartbeat gets old.
Silent(a) == \A w \in Workers : \A r \in sup[w].claims : run[r].agent # a

\* The loop of run_worker ticks for ever, threads get to run, provider calls
\* return (httpx timeout), a dead process is started again, and time passes.
\* Requests, crashes and store errors are under no obligation.
Fairness ==
    /\ \A w \in Workers : /\ WF_vars(TickStep(w))
                          /\ WF_vars(CloseStep(w))
                          /\ WF_vars(Boot(w))
    /\ \A r \in Runs : WF_vars(ExecStep(r))
    /\ \A a \in Agents :
          WF_vars(Silent(a) /\ Elapse(a) /\ UNCHANGED <<sup, exec>>)

FairSpec == Spec /\ Fairness

-----------------------------------------------------------------------------
(* Properties.                                                             *)

\* Where supervisors and executions can be.
RuntimeTypeOK == sup \in [Workers -> SupRow] /\ exec \in [Runs -> ExecRow]

\* With one supervisor, whatever requests, stops, sweeps, stalls and store
\* errors do: as long as the future of a generation may still persist output,
\* the todo is running under that very generation (so it is not claimable),
\* the agent is busy with it and with nothing else, and the model being called
\* is the one the ledger attributes the run to.
ExecutionBacked ==
    \A r \in Runs : Live(r) =>
        /\ Owns(r)
        /\ Holds(run[r].agent, run[r].todo)
        /\ Supervised(run[r].agent)
        /\ exec[r].model \in {None, run[r].model}

\* The sweep can only find an orphan through current_todo_id: a running todo
\* that no future executes any more is still the current todo of its agent,
\* and the agent is not offline.
OrphanReachable ==
    \A r \in Runs : run[r].status = "running" /\ ~Live(r) =>
        /\ agent[run[r].agent].cur = run[r].todo
        /\ agent[run[r].agent].status # "offline"

Executing(m) == {r \in Runs : Live(r) /\ run[r].model = m}

\* A model is never oversubscribed by the supervisor: a step that puts one more
\* generation to work on a model leaves at most max_concurrency of them there,
\* although the limit is read in the claim and counted over the agents' models.
ModelNotOversubscribed ==
    [][\A m \in Models :
          Cardinality(Executing(m)') > Cardinality(Executing(m))
          => Cardinality(Executing(m)') <= model'[m].cap]_vars

\* Every claimed generation ends: finished, failed, cancelled by a stop, or
\* recovered as stale after its future died with the process or with a store
\* error; its agent and its share of the model are released in that step.
RunsEnd ==
    \A r \in Runs : run[r].status = "running" ~> run[r].status # "running"

\* Nothing in the queue is forgotten: with agents of its complexity and a ready
\* model, every queued todo reaches an outcome.
TodosSettle ==
    \A t \in Todos :
        todo[t].status = "queued" ~> todo[t].status \in {"done", "failed"}
=============================================================================
