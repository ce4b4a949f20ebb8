------------------------------ MODULE TodoPage ------------------------------
(***************************************************************************)
(* The todo queue of the Agents page (pages/Agents/index.tsx and           *)
(* components.tsx) and the drawer with a todo's conversation, over the     *)
(* calls of hooks/useAgents.ts.  One lock, a ref, admits one queue action  *)
(* at a time; after a stop it is kept until the polled list shows that the *)
(* agent was told.  TodoStore.tla has the todos themselves: here they do   *)
(* what the page can see of them.                                          *)
(***************************************************************************)
EXTENDS Naturals, Sequences, FiniteSets

CONSTANTS
    Todos,
    None,
    MaxMoves,   \* bound: steps of the agents
    MaxActs,    \* bound: queue actions
    MaxTexts    \* bound: continuations typed

VARIABLES
    todos,        \* the server's rows: status, stop request, priority
    moves,
    listed,       \* the cached list
    listFetch,    \* "idle" or "asked"
    menuId, openId,
    copy,         \* what the drawer shows: the cached answer of todos:get
    draft,        \* the continuation typed: None or the number of the text
    texts,
    queueLock,    \* queueActionLockRef
    queueAction,  \* the state of the action shown
    acts,         \* calls of queue actions
    continued     \* calls of todos:continue

drawerVars == <<openId, copy, draft, texts, continued>>
todoPageVars == <<todos, moves, listed, listFetch, menuId, drawerVars, queueLock, queueAction, acts>>

Gone == [status |-> "gone", cancel |-> FALSE, priority |-> FALSE]
Fresh == [status |-> "queued", cancel |-> FALSE, priority |-> FALSE]
Terminal == {"done", "failed"}

TodoPageInit ==
    /\ todos \in [Todos -> {[Fresh EXCEPT !.status = s] : s \in {"queued", "done"}}]
    /\ moves = 0
    /\ listed = todos /\ listFetch = "idle"
    /\ menuId = None /\ openId = None /\ copy = Gone
    /\ draft = None /\ texts = 0
    /\ queueLock = FALSE /\ queueAction = None
    /\ acts = <<>> /\ continued = <<>>

-----------------------------------------------------------------------------
(* The agents. *)

\* A todo is claimed, ends, or goes back to the queue when its agent heeds the stop.
AgentMoves(t) ==
    /\ moves < MaxMoves /\ moves' = moves + 1
    /\ \/ todos[t].status = "queued" /\ todos' = [todos EXCEPT ![t].status = "running"]
       \/ todos[t].status = "running" /\ \E s \in Terminal : todos' = [todos EXCEPT ![t].status = s, ![t].cancel = FALSE]
       \/ todos[t].cancel /\ todos' = [todos EXCEPT ![t].status = "queued", ![t].cancel = FALSE]
    /\ UNCHANGED <<listed, listFetch, menuId, drawerVars, queueLock, queueAction, acts>>

-----------------------------------------------------------------------------
(* The list: polled every four seconds. *)

\* A call waits for the list that its success asked for.
Refreshing == (\E i \in DOMAIN acts : acts[i].stage = "refreshing")
              \/ \E i \in DOMAIN continued : continued[i].stage = "refreshing"

PollList ==
    /\ listFetch = "idle" /\ ~Refreshing
    /\ listed # todos   \* a poll that changes nothing is not seen
    /\ listFetch' = "asked"
    /\ UNCHANGED <<todos, moves, listed, menuId, drawerVars, queueLock, queueAction, acts>>

\* The effect on the list: a stop has converged when the list does not show the todo
\* running without a stop request.
Converged(rows) ==
    /\ queueAction # None /\ queueAction.kind = "stop-convergence"
    /\ ~(rows[queueAction.todo].status = "running" /\ ~rows[queueAction.todo].cancel)

\* The answer arrives: a list older than an action's success was cancelled by it.
ListReturns ==
    /\ listFetch = "asked" /\ listFetch' = "idle"
    /\ listed' = todos
    /\ queueLock' = (queueLock /\ ~Converged(todos))
    /\ queueAction' = IF Converged(todos) THEN None ELSE queueAction
    /\ UNCHANGED <<todos, moves, menuId, drawerVars, acts>>

ListFails ==
    /\ listFetch = "asked" /\ listFetch' = "idle"
    /\ UNCHANGED <<todos, moves, listed, menuId, drawerVars, queueLock, queueAction, acts>>

-----------------------------------------------------------------------------
(* Queue actions. *)

Idle(calls) == \A i \in DOMAIN calls : calls[i].stage = "done"
QueueMutating == (queueAction # None /\ queueAction.pending) \/ ~Idle(continued)

\* The rows are inert under the drawer; their menus are disabled during an action.
ToggleMenu(t) ==
    /\ openId = None /\ listed[t].status # "gone" /\ ~QueueMutating
    /\ menuId' = IF menuId = t THEN None ELSE t
    /\ UNCHANGED <<todos, moves, listed, listFetch, drawerVars, queueLock, queueAction, acts>>

\* rowMenu: what the menu of a row offers, by the cached row.
Offers(t) ==
    IF listed[t].status = "running" THEN IF listed[t].cancel THEN {} ELSE {"stop"}
    ELSE IF listed[t].status = "queued" THEN {"priority", "remove"}
    ELSE {"rerun", "remove"}

\* runQueueAction: refused under the lock or during a continuation.
RunQueueAction(t, op) ==
    /\ menuId = t /\ op \in Offers(t) /\ Len(acts) < MaxActs
    /\ ~queueLock /\ Idle(continued)
    /\ menuId' = None /\ queueLock' = TRUE
    /\ queueAction' = [todo |-> t, kind |-> "mutation", pending |-> TRUE]
    /\ acts' = Append(acts, [todo |-> t, op |-> op, was |-> listed[t].priority, stage |-> "sent", ok |-> TRUE])
    /\ UNCHANGED <<todos, moves, listed, listFetch, drawerVars>>

DismissError ==
    /\ openId = None /\ queueAction # None /\ ~queueAction.pending
    /\ queueAction' = None
    /\ UNCHANGED <<todos, moves, listed, listFetch, menuId, drawerVars, queueLock, acts>>

\* todo_ops.py: nothing is found of a todo that is gone; a stop needs a run, a removal none.
Refuses(a) ==
    \/ a.op # "rerun" /\ todos[a.todo].status = "gone"
    \/ a.op = "stop" /\ todos[a.todo].status # "running"
    \/ a.op = "remove" /\ todos[a.todo].status = "running"

Effect(a) ==
    CASE a.op = "stop"     -> [todos EXCEPT ![a.todo].cancel = TRUE]
      [] a.op = "remove"   -> [todos EXCEPT ![a.todo] = Gone]
      [] a.op = "priority" -> [todos EXCEPT ![a.todo].priority = ~a.was]
      [] OTHER             -> todos    \* the todo of a re-run is a new one

ActServed(i) ==
    /\ acts[i].stage = "sent"
    /\ todos' = IF Refuses(acts[i]) THEN todos ELSE Effect(acts[i])
    /\ acts' = [acts EXCEPT ![i].stage = "served", ![i].ok = ~Refuses(acts[i])]
    /\ UNCHANGED <<moves, listed, listFetch, menuId, drawerVars, queueLock, queueAction>>

\* The hook's onSuccess asks for the list, cancelling a poll, and waits for it; a stop
\* also asks for the drawer's copy.
ActSucceeds(i) ==
    /\ acts[i].stage = "served" /\ acts[i].ok
    /\ acts' = [acts EXCEPT ![i].stage = "refreshing"]
    /\ listFetch' = "asked"
    /\ copy' = IF openId = acts[i].todo /\ acts[i].op = "stop" THEN todos[openId] ELSE copy
    /\ UNCHANGED <<todos, moves, listed, menuId, openId, draft, texts, continued, queueLock, queueAction>>

\* Mutant: the lock is kept after an error.
ActFailsLocked(i) ==
    /\ acts[i].stage \in {"sent", "served"}
    /\ acts' = [acts EXCEPT ![i].stage = "done"]
    /\ queueAction' = [todo |-> acts[i].todo, kind |-> "mutation", pending |-> FALSE]
    /\ UNCHANGED <<todos, moves, listed, listFetch, menuId, drawerVars, queueLock>>

\* Refused, not reached or its answer lost: onError and onSettled; the error stays on the screen, the lock is released.
ActFails(i) ==
    /\ acts[i].stage \in {"sent", "served"}
    /\ acts' = [acts EXCEPT ![i].stage = "done"]
    /\ queueLock' = FALSE
    /\ queueAction' = [todo |-> acts[i].todo, kind |-> "mutation", pending |-> FALSE]
    /\ UNCHANGED <<todos, moves, listed, listFetch, menuId, drawerVars>>

\* onSuccess and onSettled of the page, once the list has come: a stop keeps the lock
\* unless it has converged, a removal closes the drawer of its todo.
ActSettles(i) ==
    /\ acts[i].stage = "refreshing" /\ listFetch = "idle"
    /\ acts' = [acts EXCEPT ![i].stage = "done"]
    /\ LET row == listed[acts[i].todo]
           waits == acts[i].op = "stop" /\ row.status = "running" /\ ~row.cancel IN
       /\ queueLock' = waits
       /\ queueAction' = IF waits THEN [todo |-> acts[i].todo, kind |-> "stop-convergence", pending |-> TRUE] ELSE None
    /\ openId' = IF acts[i].op = "remove" /\ openId = acts[i].todo THEN None ELSE openId
    /\ draft' = IF openId' = openId THEN draft ELSE None
    /\ copy' = IF openId' = openId THEN copy ELSE Gone
    /\ UNCHANGED <<todos, moves, listed, listFetch, menuId, texts, continued>>

-----------------------------------------------------------------------------
(* The drawer. *)

\* actions.open, from a row or from an agent's card, also while an action is out.
OpenTodo(t) ==
    /\ openId = None /\ listed[t].status # "gone"
    /\ openId' = t /\ copy' = todos[t] /\ draft' = None /\ menuId' = None
    /\ UNCHANGED <<todos, moves, listed, listFetch, texts, continued, queueLock, queueAction, acts>>

\* Close, Escape or the backdrop: not while a continuation is out.
CloseTodo ==
    /\ openId # None /\ Idle(continued)
    /\ openId' = None /\ copy' = Gone /\ draft' = None
    /\ UNCHANGED <<todos, moves, listed, listFetch, menuId, texts, continued, queueLock, queueAction, acts>>

\* The copy of a running todo is polled, and its stream asks for it on every message;
\* that of a queued one is not.
CopyRefreshes ==
    /\ openId # None /\ copy.status = "running" /\ copy # todos[openId]
    /\ copy' = todos[openId]
    /\ UNCHANGED <<todos, moves, listed, listFetch, menuId, openId, draft, texts, continued, queueLock, queueAction, acts>>

TypeText ==
    /\ openId # None /\ copy.status \in Terminal /\ Idle(continued)
    /\ draft = None /\ texts < MaxTexts
    /\ texts' = texts + 1 /\ draft' = texts + 1
    /\ UNCHANGED <<todos, moves, listed, listFetch, menuId, openId, copy, continued, queueLock, queueAction, acts>>

\* send: Continue, or Enter with a modifier.
SendText ==
    /\ openId # None /\ draft # None /\ copy.status \in Terminal /\ Idle(continued)
    /\ Len(continued) < MaxTexts + 1
    /\ continued' = Append(continued, [todo |-> openId, text |-> draft, stage |-> "sent", ok |-> FALSE])
    /\ UNCHANGED <<todos, moves, listed, listFetch, menuId, openId, copy, draft, texts, queueLock, queueAction, acts>>

\* todos:continue appends the text and queues the todo, if it has ended.
TextServed(i) ==
    /\ continued[i].stage = "sent"
    /\ LET t == continued[i].todo
           ended == todos[t].status \in Terminal IN
       /\ todos' = IF ended THEN [todos EXCEPT ![t].status = "queued", ![t].cancel = FALSE] ELSE todos
       /\ continued' = [continued EXCEPT ![i].stage = "served", ![i].ok = ended]
    /\ UNCHANGED <<moves, listed, listFetch, menuId, openId, copy, draft, texts, queueLock, queueAction, acts>>

TextSucceeds(i) ==
    /\ continued[i].stage = "served" /\ continued[i].ok
    /\ continued' = [continued EXCEPT ![i].stage = "refreshing"]
    /\ listFetch' = "asked"
    /\ copy' = IF openId = continued[i].todo THEN todos[openId] ELSE copy
    /\ UNCHANGED <<todos, moves, listed, menuId, openId, draft, texts, queueLock, queueAction, acts>>

\* Mutant: the text stays in the box after a success.
TextSettlesKept(i) ==
    /\ continued[i].stage = "refreshing" /\ listFetch = "idle"
    /\ continued' = [continued EXCEPT ![i].stage = "done"]
    /\ UNCHANGED <<todos, moves, listed, listFetch, menuId, openId, copy, draft, texts, queueLock, queueAction, acts>>

\* onSuccess clears the box.
TextSettles(i) ==
    /\ continued[i].stage = "refreshing" /\ listFetch = "idle"
    /\ continued' = [continued EXCEPT ![i].stage = "done"]
    /\ draft' = None
    /\ UNCHANGED <<todos, moves, listed, listFetch, menuId, openId, copy, texts, queueLock, queueAction, acts>>

\* Refused, or the answer is lost: the text can be sent again.
TextFails(i) ==
    /\ continued[i].stage \in {"sent", "served"}
    /\ continued' = [continued EXCEPT ![i].stage = "done", ![i].ok = FALSE]
    /\ UNCHANGED <<todos, moves, listed, listFetch, menuId, openId, copy, draft, texts, queueLock, queueAction, acts>>

TodoPageNext ==
    \/ \E t \in Todos :
          \/ AgentMoves(t) \/ ToggleMenu(t) \/ OpenTodo(t)
          \/ \E op \in {"stop", "priority", "remove", "rerun"} : RunQueueAction(t, op)
    \/ PollList \/ ListReturns \/ ListFails \/ DismissError
    \/ \E i \in DOMAIN acts : ActServed(i) \/ ActSucceeds(i) \/ ActFails(i) \/ ActSettles(i)
    \/ CloseTodo \/ CopyRefreshes \/ TypeText \/ SendText
    \/ \E i \in DOMAIN continued : TextServed(i) \/ TextSucceeds(i) \/ TextFails(i) \/ TextSettles(i)

TodoPageSpec == TodoPageInit /\ [][TodoPageNext]_todoPageVars

-----------------------------------------------------------------------------
(* Properties. *)

\* The ref and the state it guards never part: whenever the lock is held the page shows
\* a pending action, and someone is left to release it, a call that is out or the next
\* answer of the list.
LockHasHolder ==
    /\ queueLock = (queueAction # None /\ queueAction.pending)
    /\ queueLock => \/ ~Idle(acts)
                    \/ /\ queueAction.kind = "stop-convergence"
                       /\ listed[queueAction.todo].status = "running" /\ ~listed[queueAction.todo].cancel

\* One queue action at a time.
OneQueueAction == Cardinality({i \in DOMAIN acts : acts[i].stage # "done"}) <= 1

\* A text is sent again only after a call that failed.
ContinuedOnce ==
    \A i, j \in DOMAIN continued :
        i < j /\ continued[i].text = continued[j].text => continued[i].stage = "done" /\ ~continued[i].ok

TodoPageSafe == LockHasHolder /\ OneQueueAction /\ ContinuedOnce
=============================================================================
