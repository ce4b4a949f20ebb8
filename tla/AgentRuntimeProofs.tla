------------------------- MODULE AgentRuntimeProofs -------------------------
(***************************************************************************)
(* The agent runtime for any number of workers, agents, todos and boots.   *)
(* Supervisors and executions stay within their types, and they are        *)
(* clients of the store, so what TodoStoreProofs shows of every client     *)
(* holds of them.  One supervisor at a time guarantees more, for any       *)
(* number of models, generations and restarts: the generation a live       *)
(* future writes for is the one that holds the todo and the agent, an      *)
(* orphan stays within reach of the sweep, and no model gets more          *)
(* executions than its limit allows.                                       *)
(*                                                                         *)
(* OneAtATime is the deployment the code is written for: a supervisor may  *)
(* crash, be shut down and be started again, in the same process or in     *)
(* another one, as long as two of them never run together.  It is a        *)
(* hypothesis of the theorems and not part of the specification: two       *)
(* supervisors side by side do break ExecutionBacked.                      *)
(***************************************************************************)
EXTENDS AgentRuntime, TodoStoreProofs, FiniteSetTheorems

\* What the type invariant needs to be inductive: a supervisor claims for an
\* agent, an execution that may still call its provider has a turn left, and
\* only claimed generations are executed.
EarlyPC == {"submitted", "resolve", "link", "open", "check", "turn"}

RuntimeInv ==
    /\ RuntimeTypeOK
    /\ \A w \in Workers : sup[w].pc = "claim" => sup[w].at \in Agents
    /\ \A r \in Runs : exec[r].pc \in EarlyPC => exec[r].turn < MaxTurns
    /\ \A r \in Runs : exec[r].pc # "none" => run[r].status # "unused"

\* The three parts of RuntimeInv.
SupInv == /\ sup \in [Workers -> SupRow]
          /\ \A w \in Workers : sup[w].pc = "claim" => sup[w].at \in Agents
ExecInv == /\ exec \in [Runs -> ExecRow]
           /\ \A r \in Runs : exec[r].pc \in EarlyPC => exec[r].turn < MaxTurns
ExecClaimed == \A r \in Runs : exec[r].pc # "none" => run[r].status # "unused"

LEMMA Parts ==
    /\ RuntimeInv <=> SupInv /\ ExecInv /\ ExecClaimed
    /\ (RuntimeInv <=> SupInv /\ ExecInv /\ ExecClaimed)'
  BY DEF RuntimeInv, RuntimeTypeOK, SupInv, ExecInv, ExecClaimed

LEMMA RuntimeInvInit == RuntimeInit => RuntimeInv
  BY RuntimeAssumption
     DEF RuntimeInit, RuntimeInv, RuntimeTypeOK, SupRow, ExecRow, Down, NoExec,
         EarlyPC

-----------------------------------------------------------------------------
(* Executions.                                                             *)

\* A step of one execution to another place in the code.
LEMMA GoesKeeps ==
    ASSUME ExecInv, NEW r \in Runs, NEW pc \in ActivePC \cup {"exited", "lost"},
           pc \in EarlyPC => exec[r].turn < MaxTurns, Goes(r, pc)
    PROVE  ExecInv'
  <1>1. exec' = [exec EXCEPT ![r].pc = pc]
    BY DEF Goes
  <1>2. exec[r] \in ExecRow
    BY DEF ExecInv
  <1>3. [exec[r] EXCEPT !.pc = pc] \in ExecRow
    BY <1>2 DEF ExecRow
  <1>4. exec' \in [Runs -> ExecRow]
    BY <1>1, <1>3 DEF ExecInv
  <1>5. /\ exec'[r].pc = pc /\ exec'[r].turn = exec[r].turn
        /\ \A q \in Runs : q # r => exec'[q] = exec[q]
    BY <1>1, <1>2 DEF ExecInv, ExecRow
  <1>6. QED
    BY <1>4, <1>5 DEF ExecInv

LEMMA ExecInvStep ==
    ASSUME StoreTypeOK, LedgerAttributed, ExecInv, ExecClaimed,
           NEW r \in Runs, ExecStep(r)
    PROVE  ExecInv'
  <1>1. exec[r] \in ExecRow
    BY DEF ExecInv
  <1>2. ASSUME NEW pc \in (ActivePC \ EarlyPC) \cup {"exited"}, Goes(r, pc)
        PROVE  ExecInv'
    BY <1>2, GoesKeeps DEF ActivePC, EarlyPC
  <1>3. ASSUME NEW pc \in EarlyPC, exec[r].pc \in EarlyPC, Goes(r, pc)
        PROVE  ExecInv'
    <2>1. exec[r].turn < MaxTurns
      BY <1>3 DEF ExecInv
    <2>2. pc \in ActivePC
      BY DEF EarlyPC, ActivePC
    <2>3. QED
      BY <1>3, <2>1, <2>2, GoesKeeps
  <1> USE DEF EarlyPC, ActivePC
  <1>4. CASE Start(r)
    BY <1>2, <1>3, <1>4 DEF Start
  <1>5. CASE Resolve(r)
    <2>1. CASE Goes(r, "fail")
      BY <2>1, <1>2
    <2>2. ASSUME NEW m \in Models,
                 exec' = [exec EXCEPT ![r].pc = "link", ![r].model = m]
          PROVE  ExecInv'
      <3>1. exec' = [exec EXCEPT ![r] = [exec[r] EXCEPT !.pc = "link",
                                                        !.model = m]]
        BY <2>2 DEF ExecInv
      <3>2. [exec[r] EXCEPT !.pc = "link", !.model = m] \in ExecRow
        BY <1>1 DEF ExecRow
      <3>3. exec' \in [Runs -> ExecRow]
        BY <3>1, <3>2 DEF ExecInv
      <3>4. /\ exec'[r].turn = exec[r].turn
            /\ \A q \in Runs : q # r => exec'[q] = exec[q]
        BY <3>1, <1>1 DEF ExecInv, ExecRow
      <3>5. exec[r].turn < MaxTurns
        BY <1>5 DEF Resolve, ExecInv
      <3>6. QED
        BY <3>3, <3>4, <3>5 DEF ExecInv
    <2>3. run[r].agent \in Agents
      BY <1>5 DEF Resolve, ExecClaimed, LedgerAttributed
    <2>4. agent[run[r].agent].model \in Models \cup {None}
      BY <2>3 DEF StoreTypeOK, AgentRow
    <2>5. QED
      BY <1>5, <2>1, <2>2, <2>4 DEF Resolve
  <1>6. CASE Link(r)
    BY <1>2, <1>3, <1>6 DEF Link
  <1>7. CASE Open(r)
    BY <1>2, <1>3, <1>7 DEF Open
  <1>8. CASE Check(r)
    BY <1>2, <1>3, <1>8 DEF Check
  <1>9. CASE Turn(r)
    <2>1. CASE Goes(r, "error")
      BY <2>1, <1>2
    <2>2. CASE exec' = [exec EXCEPT ![r].pc = "call", ![r].turn = @ + 1]
      <3>1. exec' = [exec EXCEPT ![r] = [exec[r] EXCEPT !.pc = "call",
                                              !.turn = exec[r].turn + 1]]
        BY <2>2 DEF ExecInv
      <3>2. exec[r].turn < MaxTurns
        BY <1>9 DEF Turn, ExecInv
      <3>3. exec[r].turn + 1 \in 0 .. MaxTurns
        BY <1>1, <3>2, RuntimeAssumption DEF ExecRow
      <3>4. [exec[r] EXCEPT !.pc = "call", !.turn = exec[r].turn + 1] \in ExecRow
        BY <1>1, <3>3 DEF ExecRow
      <3>5. exec' \in [Runs -> ExecRow]
        BY <3>1, <3>4 DEF ExecInv
      <3>6. exec'[r].pc = "call" /\ \A q \in Runs : q # r => exec'[q] = exec[q]
        BY <3>1, <1>1 DEF ExecInv, ExecRow
      <3>7. QED
        BY <3>5, <3>6 DEF ExecInv
    <2>3. QED
      BY <1>9, <2>1, <2>2 DEF Turn
  <1>10. CASE ReplyLost(r)
    BY <1>2, <1>10 DEF ReplyLost
  <1>11. CASE ReplySaved(r)
    BY <1>2, <1>11 DEF ReplySaved
  <1>12. CASE Tool(r)
    <2>1. CASE Goes(r, "turn") /\ exec[r].turn < MaxTurns
      BY <2>1, GoesKeeps
    <2>2. CASE Goes(r, "error") \/ Goes(r, "fail")
      BY <2>2, <1>2
    <2>3. QED
      BY <1>12, <2>1, <2>2 DEF Tool
  <1>13. CASE AfterError(r) \/ AfterDone(r)
    BY <1>2, <1>13 DEF AfterError, AfterDone, Yields
  <1>14. CASE Finish(r) \/ Blame(r)
    BY <1>2, <1>14 DEF Finish, Blame
  <1>15. CASE Fail(r) \/ Conflicted(r)
    BY <1>2, <1>15 DEF Fail, Conflicted, Yields
  <1>16. QED
    BY <1>4, <1>5, <1>6, <1>7, <1>8, <1>9, <1>10, <1>11, <1>12, <1>13, <1>14,
       <1>15 DEF ExecStep

-----------------------------------------------------------------------------
(* Supervisors.                                                            *)

\* A step of one supervisor.
LEMMA SupSet ==
    ASSUME SupInv, NEW w \in Workers, NEW row \in SupRow,
           row.pc = "claim" => row.at \in Agents,
           sup' = [sup EXCEPT ![w] = row]
    PROVE  SupInv'
  BY DEF SupInv

LEMMA SupTickStep ==
    ASSUME StoreTypeOK, SupInv, NEW w \in Workers, TickStep(w)
    PROVE  SupInv'
  <1>1. sup[w] \in SupRow
    BY DEF SupInv
  <1>2. CASE TickBegin(w)
    <2> DEFINE kept == {r \in sup[w].claims : exec[r].pc # "exited"}
               row  == [sup[w] EXCEPT !.pc = "beat", !.claims = kept,
                                      !.left = kept,
                                      !.stale = {a \in Agents : ~fresh[a]},
                                      !.late = FALSE]
    <2>1. row \in SupRow /\ row.pc = "beat"
      BY <1>1 DEF SupRow
    <2>2. sup' = [sup EXCEPT ![w] = row]
      BY <1>2 DEF TickBegin
    <2> HIDE DEF row
    <2>3. QED
      BY <2>1, <2>2, SupSet
  <1>3. ASSUME NEW r \in Runs, Beat(w, r)
        PROVE  SupInv'
    <2> DEFINE row(x) == [sup[w] EXCEPT !.left = sup[w].left \ {r}, !.stale = x]
    <2>1. ASSUME NEW x \in SUBSET Agents
          PROVE  row(x) \in SupRow /\ row(x).pc = sup[w].pc
      BY <1>1 DEF SupRow
    <2>2. sup[w].stale \ {run[r].agent} \in SUBSET Agents
          /\ sup[w].stale \in SUBSET Agents
      BY <1>1 DEF SupRow
    <2>3. \/ sup' = [sup EXCEPT ![w] = row(sup[w].stale \ {run[r].agent})]
          \/ sup' = [sup EXCEPT ![w] = row(sup[w].stale)]
      BY <1>1, <1>3 DEF Beat, SupInv, SupRow
    <2>4. sup[w].pc # "claim"
      BY <1>3 DEF Beat
    <2> HIDE DEF row
    <2>5. QED
      BY <2>1, <2>2, <2>3, <2>4, SupSet
  <1>4. CASE Sweep(w)
    <2> DEFINE row == [sup[w] EXCEPT !.pc = "list", !.stale = {}]
    <2>1. row \in SupRow /\ row.pc = "list"
      BY <1>1 DEF SupRow
    <2>2. sup' = [sup EXCEPT ![w] = row]
      BY <1>4 DEF Sweep, SupInv
    <2> HIDE DEF row
    <2>3. QED
      BY <2>1, <2>2, SupSet
  <1>5. CASE List(w)
    <2> DEFINE look == [a \in Agents |-> Glance(w, a)]
               row  == [sup[w] EXCEPT !.pc = "scan", !.look = look]
    <2>1. \A a \in Agents :
             Glance(w, a) \in {"seen", "skip", "down", "wake", "stay"}
      BY DEF StoreTypeOK, AgentRow, Glance
    <2>2. look \in [Agents -> {"seen", "skip", "down", "wake", "stay"}]
      BY <2>1
    <2> HIDE DEF look
    <2>3. row \in SupRow /\ row.pc = "scan"
      BY <1>1, <2>2 DEF SupRow
    <2>4. sup' = [sup EXCEPT ![w] = row]
      BY <1>5 DEF List, SupInv, look
    <2> HIDE DEF row
    <2>5. QED
      BY <2>3, <2>4, SupSet
  <1>6. ASSUME NEW a \in Agents, Visit(w, a)
        PROVE  SupInv'
    <2> DEFINE down == sup[w].look[a] = "down"
               look == [sup[w].look EXCEPT ![a] = "seen"]
               row  == [sup[w] EXCEPT !.look = look,
                                      !.pc = IF down THEN "scan" ELSE "claim",
                                      !.at = IF down THEN None ELSE a]
    <2>1. look \in [Agents -> {"seen", "skip", "down", "wake", "stay"}]
      BY <1>1 DEF SupRow
    <2>2. sup' = [sup EXCEPT ![w] = row]
      BY <1>6 DEF Visit
    <2> HIDE DEF look
    <2>3. CASE down
      <3>1. row \in SupRow /\ row.pc = "scan"
        BY <1>1, <2>1, <2>3 DEF SupRow
      <3> HIDE DEF row
      <3>2. QED
        BY <2>2, <3>1, SupSet
    <2>4. CASE ~down
      <3>1. row \in SupRow /\ row.at = a
        BY <1>1, <2>1, <2>4 DEF SupRow
      <3> HIDE DEF row
      <3>2. QED
        BY <2>2, <3>1, SupSet
    <2>5. QED
      BY <2>3, <2>4
  <1>7. CASE Claim(w)
    <2>1. PICK r \in Runs :
             sup' = [sup EXCEPT ![w] = [sup[w] EXCEPT !.pc = "scan",
                        !.at = None, !.claims = sup[w].claims \cup {r}]]
      BY <1>7 DEF Claim
    <2> DEFINE row == [sup[w] EXCEPT !.pc = "scan", !.at = None,
                                     !.claims = sup[w].claims \cup {r}]
    <2>2. row \in SupRow /\ row.pc = "scan"
      BY <1>1 DEF SupRow
    <2>3. sup' = [sup EXCEPT ![w] = row]
      BY <2>1
    <2> HIDE DEF row
    <2>4. QED
      BY <2>2, <2>3, SupSet
  <1>8. CASE ClaimNothing(w)
    <2> DEFINE row == [sup[w] EXCEPT !.pc = "scan", !.at = None]
    <2>1. row \in SupRow /\ row.pc = "scan"
      BY <1>1 DEF SupRow
    <2>2. sup' = [sup EXCEPT ![w] = row]
      BY <1>8 DEF ClaimNothing
    <2> HIDE DEF row
    <2>3. QED
      BY <2>1, <2>2, SupSet
  <1>9. CASE PassDone(w)
    <2> DEFINE row == [sup[w] EXCEPT !.pc = "endbeat", !.left = sup[w].claims]
    <2>1. row \in SupRow /\ row.pc = "endbeat"
      BY <1>1 DEF SupRow
    <2>2. sup' = [sup EXCEPT ![w] = row]
      BY <1>9 DEF PassDone, SupInv
    <2> HIDE DEF row
    <2>3. QED
      BY <2>1, <2>2, SupSet
  <1>10. CASE ExecutorFull(w) \/ TickEnd(w)
    <2>1. Resting(w) \in SupRow /\ Resting(w).pc = "rest"
      BY <1>1 DEF SupRow, Resting
    <2>2. sup' = [sup EXCEPT ![w] = Resting(w)]
      BY <1>10 DEF ExecutorFull, TickEnd
    <2>3. QED
      BY <2>1, <2>2, SupSet
  <1>11. QED
    BY <1>2, <1>3, <1>4, <1>5, <1>6, <1>7, <1>8, <1>9, <1>10 DEF TickStep

\* Shutdown, crash, boot and stall.
LEMMA DownRow == \A b \in 0 .. MaxBoots : /\ Down(b) \in SupRow
                                         /\ Down(b).pc = "down"
  BY DEF Down, SupRow

LEMMA SupLifeStep ==
    ASSUME SupInv, NEW w \in Workers,
           CloseStep(w) \/ CloseBegin(w) \/ Crash(w) \/ Boot(w) \/ Stall(w)
    PROVE  SupInv'
  <1>1. sup[w] \in SupRow
    BY DEF SupInv
  <1>2. Down(sup[w].boots) \in SupRow /\ Down(sup[w].boots).pc = "down"
    BY <1>1, DownRow DEF SupRow
  <1>3. CASE UNCHANGED sup
    BY <1>3 DEF SupInv
  <1>4. CASE CloseEnd(w) \/ Crash(w)
    BY <1>2, <1>4, SupSet DEF CloseEnd, Crash
  <1>5. ASSUME NEW r \in Runs, CloseCancel(w, r)
        PROVE  SupInv'
    <2> DEFINE row == [sup[w] EXCEPT !.left = sup[w].left \ {r}]
    <2>1. row \in SupRow /\ row.pc = sup[w].pc /\ sup[w].pc # "claim"
      BY <1>1, <1>5 DEF SupRow, CloseCancel
    <2>2. sup' = [sup EXCEPT ![w] = row]
      BY <1>5 DEF CloseCancel, SupInv
    <2> HIDE DEF row
    <2>3. QED
      BY <2>1, <2>2, SupSet
  <1>6. CASE CloseStep(w)
    BY <1>3, <1>4, <1>5, <1>6 DEF CloseStep, CloseStop
  <1>7. CASE CloseBegin(w)
    <2> DEFINE row == [Down(sup[w].boots) EXCEPT !.pc = "closing",
                          !.claims = sup[w].claims, !.left = sup[w].claims]
    <2>1. row \in SupRow /\ row.pc = "closing"
      BY <1>1, <1>2 DEF SupRow
    <2>2. sup' = [sup EXCEPT ![w] = row]
      BY <1>7 DEF CloseBegin
    <2> HIDE DEF row
    <2>3. QED
      BY <2>1, <2>2, SupSet
  <1>8. CASE Boot(w)
    <2> DEFINE row == [sup[w] EXCEPT !.pc = "rest", !.boots = sup[w].boots + 1]
    <2>1. sup[w].boots + 1 \in 0 .. MaxBoots
      BY <1>1, <1>8, RuntimeAssumption DEF SupRow, Boot
    <2>2. row \in SupRow /\ row.pc = "rest"
      BY <1>1, <2>1 DEF SupRow
    <2>3. sup' = [sup EXCEPT ![w] = row]
      BY <1>8 DEF Boot, SupInv
    <2> HIDE DEF row
    <2>4. QED
      BY <2>2, <2>3, SupSet
  <1>9. CASE Stall(w)
    <2> DEFINE row == [sup[w] EXCEPT !.late = TRUE]
    <2>1. row \in SupRow /\ row.pc = sup[w].pc /\ row.at = sup[w].at
      BY <1>1 DEF SupRow
    <2>2. sup' = [sup EXCEPT ![w] = row]
      BY <1>9 DEF Stall
    <2>3. sup[w].pc = "claim" => sup[w].at \in Agents
      BY DEF SupInv
    <2> HIDE DEF row
    <2>4. QED
      BY <2>1, <2>2, <2>3, SupSet
  <1>10. QED
    BY <1>4, <1>6, <1>7, <1>8, <1>9

\* What supervisors and faults do to executions.
LEMMA ExecOtherStep ==
    ASSUME ExecInv,
           \/ \E w \in Workers : TickStep(w) \/ CloseStep(w)
           \/ FaultStep
    PROVE  ExecInv'
  <1>1. CASE UNCHANGED exec
    BY <1>1 DEF ExecInv
  <1>2. ASSUME NEW w \in Workers, Claim(w)
        PROVE  ExecInv'
    <2>1. PICK r \in Runs : exec' = [exec EXCEPT ![r] =
                [NoExec EXCEPT !.pc = "submitted", !.worker = w]]
      BY <1>2 DEF Claim
    <2> DEFINE row == [NoExec EXCEPT !.pc = "submitted", !.worker = w]
    <2>2. NoExec \in ExecRow /\ NoExec.turn = 0
      BY RuntimeAssumption DEF NoExec, ExecRow
    <2>3. row \in ExecRow /\ row.turn = 0
      BY <2>2 DEF ExecRow, ActivePC
    <2>4. exec' = [exec EXCEPT ![r] = row]
      BY <2>1
    <2> HIDE DEF row
    <2>5. QED
      BY <2>3, <2>4, RuntimeAssumption DEF ExecInv
  <1>3. ASSUME NEW w \in Workers, TickStep(w)
        PROVE  ExecInv'
    BY <1>1, <1>2, <1>3
       DEF TickStep, TickBegin, Beat, Sweep, List, Visit, ClaimNothing, PassDone,
           ExecutorFull, TickEnd
  <1>4. ASSUME NEW r \in Runs, Goes(r, "exited") \/ Goes(r, "fail")
        PROVE  ExecInv'
    BY <1>4, GoesKeeps DEF ActivePC, EarlyPC
  <1>5. ASSUME NEW w \in Workers, CloseStep(w)
        PROVE  ExecInv'
    BY <1>1, <1>4, <1>5 DEF CloseStep, CloseStop, CloseCancel, CloseEnd
  <1>6. ASSUME NEW w \in Workers, Crash(w)
        PROVE  ExecInv'
    <2> DEFINE row(r) == IF exec[r].worker = w /\ Live(r)
                         THEN [exec[r] EXCEPT !.pc = "lost"] ELSE exec[r]
    <2>1. exec' = [r \in Runs |-> row(r)]
      BY <1>6 DEF Crash
    <2>2. ASSUME NEW r \in Runs
          PROVE  row(r) \in ExecRow /\ (row(r).pc \in EarlyPC => row(r) = exec[r])
      <3>1. exec[r] \in ExecRow
        BY DEF ExecInv
      <3>2. /\ [exec[r] EXCEPT !.pc = "lost"] \in ExecRow
            /\ [exec[r] EXCEPT !.pc = "lost"].pc = "lost"
        BY <3>1 DEF ExecRow
      <3>3. QED
        BY <3>1, <3>2 DEF EarlyPC
    <2> HIDE DEF row
    <2>3. QED
      BY <2>1, <2>2 DEF ExecInv
  <1>7. CASE FaultStep
    BY <1>1, <1>4, <1>6, <1>7
       DEF FaultStep, CloseBegin, Boot, Stall, StoreError
  <1>8. QED
    BY <1>3, <1>5, <1>7

-----------------------------------------------------------------------------
(* The runtime as a client of the store.                                   *)

LEMMA TickIsClient ==
    ASSUME StoreTypeOK, SupInv, NEW w \in Workers, TickStep(w)
    PROVE  [StoreNext]_storeVars
  <1>1. CASE UNCHANGED storeVars
    BY <1>1
  <1>2. sup[w].late \in BOOLEAN
    BY DEF SupInv, SupRow
  <1>3. ASSUME NEW r \in Runs, Beat(w, r)
        PROVE  [StoreNext]_storeVars
    <2>1. (~sup[w].late) \in BOOLEAN
      BY <1>2
    <2>2. CASE RunHeartbeat(r, ~sup[w].late)
      BY <2>1, <2>2 DEF StoreNext, LivenessStep
    <2>3. QED
      BY <1>1, <1>3, <2>2 DEF Beat
  <1>4. CASE Sweep(w)
    <2>1. PICK S \in SUBSET Agents : SweepStale(S)
      <3> DEFINE S == {a \in sup[w].stale : ~fresh[a]
                                            /\ agent[a].status # "offline"}
      <3>1. SweepStale(S)
        BY <1>4 DEF Sweep
      <3>2. S \in SUBSET Agents
        BY DEF SupInv, SupRow
      <3>3. QED
        BY <3>1, <3>2
    <2>2. CASE S # {}
      BY <2>1, <2>2 DEF StoreNext, LivenessStep
    <2>3. CASE S = {}
      <3>1. agent' = [a \in Agents |-> agent[a]]
        BY <2>1, <2>3 DEF SweepStale
      <3>2. SweptTodos(S) = {}
        BY <2>3 DEF SweptTodos
      <3>3. todo' = [t \in Todos |-> todo[t]] /\ run' = [r \in Runs |-> run[r]]
        BY <2>1, <3>2 DEF SweepStale
      <3>4. agent' = agent /\ todo' = todo /\ run' = run
        BY <3>1, <3>3 DEF StoreTypeOK
      <3>5. QED
        BY <2>1, <3>4, <1>1 DEF SweepStale, storeVars
    <2>4. QED
      BY <2>2, <2>3
  <1>5. ASSUME NEW a \in Agents, Visit(w, a)
        PROVE  [StoreNext]_storeVars
    <2> DEFINE recent == ~sup[w].late
    <2>1. recent \in BOOLEAN
      BY <1>2
    <2>2. CASE \/ AgentHeartbeat(a, "offline", None, recent)
               \/ AgentHeartbeat(a, "idle", None, recent)
               \/ AgentHeartbeat(a, "idle", agent[a].cur, recent)
      <3> HIDE DEF recent
      <3>1. QED
        BY <2>1, <2>2 DEF StoreNext, LivenessStep
    <2>3. CASE ~Supervised(a)
      BY <1>1, <1>5, <2>3 DEF Visit
    <2>4. CASE Supervised(a)
      <3>1. CASE sup[w].look[a] = "down"
        <4>1. AgentHeartbeat(a, "offline", None, recent)
          BY <1>5, <2>4, <3>1 DEF Visit
        <4>2. QED
          BY <4>1, <2>2
      <3>2. CASE sup[w].look[a] = "wake"
        <4>1. AgentHeartbeat(a, "idle", None, recent)
          BY <1>5, <2>4, <3>2 DEF Visit
        <4>2. QED
          BY <4>1, <2>2
      <3>3. CASE sup[w].look[a] = "stay"
        <4>1. AgentHeartbeat(a, "idle", agent[a].cur, recent)
          BY <1>5, <2>4, <3>3 DEF Visit
        <4>2. QED
          BY <4>1, <2>2
      <3>4. QED
        BY <1>5, <3>1, <3>2, <3>3 DEF Visit
    <2>5. QED
      BY <2>3, <2>4
  <1>6. CASE Claim(w)
    <2>1. sup[w].at \in Agents
      BY <1>6 DEF Claim, SupInv
    <2>2. PICK t \in Todos, r \in Runs : ClaimTodo(sup[w].at, t, r)
      BY <1>6 DEF Claim
    <2>3. QED
      BY <2>1, <2>2 DEF StoreNext, RunStep
  <1>7. QED
    BY <1>1, <1>3, <1>4, <1>5, <1>6
       DEF TickStep, TickBegin, List, ClaimNothing, PassDone, ExecutorFull,
           TickEnd

LEMMA ExecIsClient ==
    ASSUME NEW r \in Runs, ExecStep(r)
    PROVE  [StoreNext]_storeVars
  <1>1. CASE \/ LinkConversation(r) \/ WriteTranscript(r) \/ RequeueCancelled(r)
             \/ \E o \in {"done", "failed"} : FinishTodo(r, o)
    BY <1>1 DEF StoreNext, RunStep
  <1>2. CASE UNCHANGED storeVars
    BY <1>2
  <1>3. CASE \/ Start(r) \/ Resolve(r) \/ Link(r) \/ Open(r) \/ Check(r)
             \/ Turn(r) \/ ReplyLost(r) \/ ReplySaved(r) \/ Tool(r)
    BY <1>1, <1>2, <1>3
       DEF Start, Resolve, Link, Open, Check, Turn, ReplyLost, ReplySaved, Tool
  <1>4. CASE \/ AfterError(r) \/ AfterDone(r) \/ Finish(r)
             \/ Fail(r) \/ Blame(r) \/ Conflicted(r)
    BY <1>1, <1>2, <1>4
       DEF AfterError, AfterDone, Finish, Fail, Blame, Conflicted, Yields
  <1>5. QED
    BY <1>3, <1>4 DEF ExecStep

\* Every step of the runtime is a step of some client of the store.
LEMMA StepIsClient ==
    ASSUME StoreTypeOK, SupInv, [Next]_vars
    PROVE  [StoreNext]_storeVars
  <1>1. CASE ClientStep
    BY <1>1 DEF ClientStep, StoreNext
  <1>2. ASSUME NEW w \in Workers, TickStep(w)
        PROVE  [StoreNext]_storeVars
    BY <1>2, TickIsClient
  <1>3. ASSUME NEW w \in Workers, CloseStep(w)
        PROVE  [StoreNext]_storeVars
    <2>1. \/ \E r \in Runs : RequestStop(r) \/ RequeueCancelled(r)
          \/ UNCHANGED storeVars
      BY <1>3 DEF CloseStep, CloseStop, CloseCancel, CloseEnd
    <2>2. QED
      BY <2>1 DEF StoreNext, TodoStep, RunStep
  <1>4. ASSUME NEW r \in Runs, ExecStep(r)
        PROVE  [StoreNext]_storeVars
    BY <1>4, ExecIsClient
  <1>5. CASE FaultStep
    <2>1. (\E a \in Agents : Elapse(a)) \/ UNCHANGED storeVars
      BY <1>5 DEF FaultStep, CloseBegin, Crash, Boot, Stall, StoreError
    <2>2. QED
      BY <2>1 DEF StoreNext, LivenessStep
  <1>6. CASE UNCHANGED vars
    BY <1>6 DEF vars
  <1>7. QED
    BY <1>1, <1>2, <1>3, <1>4, <1>5, <1>6 DEF Next, WorkerStep

-----------------------------------------------------------------------------
(* The invariants of the runtime.                                          *)

\* A generation is executed only after its claim.
LEMMA ExecClaimedStep ==
    ASSUME StoreTypeOK, LedgerMatches, SupInv, ExecInv, ExecClaimed, [Next]_vars
    PROVE  ExecClaimed'
  <1>1. \A r \in Runs : RowKept(r)
    BY StepIsClient, RowsKept
  <1>2. ASSUME \A r \in Runs : exec'[r].pc # "none" => exec[r].pc # "none"
        PROVE  ExecClaimed'
    BY <1>1, <1>2 DEF ExecClaimed, RowKept
  <1>3. CASE UNCHANGED exec
    BY <1>2, <1>3
  <1>4. ASSUME NEW w \in Workers, Claim(w)
        PROVE  ExecClaimed'
    <2>1. PICK t \in Todos, r \in Runs :
             /\ ClaimTodo(sup[w].at, t, r)
             /\ exec' = [exec EXCEPT ![r] =
                   [NoExec EXCEPT !.pc = "submitted", !.worker = w]]
      BY <1>4 DEF Claim
    <2>2. run'[r].status # "unused"
      BY <2>1 DEF ClaimTodo, StoreTypeOK
    <2>3. \A q \in Runs : q # r => exec'[q] = exec[q]
      BY <2>1 DEF ExecInv
    <2>4. QED
      BY <1>1, <2>2, <2>3 DEF ExecClaimed, RowKept
  <1>5. ASSUME NEW w \in Workers, TickStep(w)
        PROVE  ExecClaimed'
    BY <1>3, <1>4, <1>5
       DEF TickStep, TickBegin, Beat, Sweep, List, Visit, ClaimNothing, PassDone,
           ExecutorFull, TickEnd
  <1>6. ASSUME NEW r \in Runs, exec[r].pc # "none",
               \A q \in Runs : q # r => exec'[q] = exec[q]
        PROVE  ExecClaimed'
    BY <1>2, <1>6
  <1>7. ASSUME NEW r \in Runs, NEW pc, exec[r].pc # "none", Goes(r, pc)
        PROVE  ExecClaimed'
    <2>1. \A q \in Runs : q # r => exec'[q] = exec[q]
      BY <1>7 DEF Goes, ExecInv
    <2>2. QED
      BY <1>7, <2>1, <1>6
  <1>8. ASSUME NEW r \in Runs, ExecStep(r)
        PROVE  ExecClaimed'
    <2>1. exec[r].pc # "none"
      BY <1>8
         DEF ExecStep, Start, Resolve, Link, Open, Check, Turn, ReplyLost,
             ReplySaved, Tool, AfterError, AfterDone, Finish, Fail, Blame,
             Conflicted
    <2>2. CASE Resolve(r) \/ Turn(r)
      <3>1. \A q \in Runs : q # r => exec'[q] = exec[q]
        BY <2>2 DEF Resolve, Turn, Goes, ExecInv
      <3>2. QED
        BY <2>1, <3>1, <1>6
    <2>3. CASE \/ Start(r) \/ Link(r) \/ Open(r) \/ Check(r) \/ ReplyLost(r)
               \/ ReplySaved(r) \/ Tool(r)
      BY <2>1, <2>3, <1>7
         DEF Start, Link, Open, Check, ReplyLost, ReplySaved, Tool
    <2>4. CASE \/ AfterError(r) \/ AfterDone(r) \/ Finish(r) \/ Fail(r)
               \/ Blame(r) \/ Conflicted(r)
      BY <2>1, <2>4, <1>7
         DEF AfterError, AfterDone, Finish, Fail, Blame, Conflicted, Yields
    <2>5. QED
      BY <1>8, <2>2, <2>3, <2>4 DEF ExecStep
  <1>9. ASSUME NEW w \in Workers, CloseStep(w)
        PROVE  ExecClaimed'
    BY <1>3, <1>7, <1>9 DEF CloseStep, CloseStop, CloseCancel, CloseEnd
  <1>10. ASSUME NEW w \in Workers, Crash(w)
         PROVE  ExecClaimed'
    <2>1. \A r \in Runs : exec[r].pc = "none" => exec'[r] = exec[r]
      BY <1>10 DEF Crash, Live, ActivePC
    <2>2. QED
      BY <2>1, <1>2
  <1>11. CASE FaultStep
    BY <1>3, <1>7, <1>10, <1>11
       DEF FaultStep, CloseBegin, Boot, Stall, StoreError, Live, ActivePC
  <1>12. QED
    BY <1>3, <1>5, <1>8, <1>9, <1>11
       DEF Next, WorkerStep, ClientStep, vars

LEMMA RuntimeInvStep ==
    ASSUME StoreTypeOK, LedgerMatches, LedgerAttributed, RuntimeInv, [Next]_vars
    PROVE  RuntimeInv'
  <1>1. SupInv /\ ExecInv /\ ExecClaimed
    BY Parts
  <1>2. ExecClaimed'
    BY <1>1, ExecClaimedStep
  <1>3. CASE UNCHANGED <<sup, exec>>
    BY <1>1, <1>2, <1>3, Parts DEF SupInv, ExecInv
  <1>4. ASSUME NEW w \in Workers, TickStep(w) \/ CloseStep(w)
        PROVE  SupInv' /\ ExecInv'
    BY <1>1, <1>4, SupTickStep, SupLifeStep, ExecOtherStep
  <1>5. ASSUME NEW r \in Runs, ExecStep(r)
        PROVE  SupInv' /\ ExecInv'
    <2>1. UNCHANGED sup
      BY <1>5
         DEF ExecStep, Start, Resolve, Link, Open, Check, Turn, ReplyLost,
             ReplySaved, Tool, AfterError, AfterDone, Finish, Fail, Blame,
             Conflicted
    <2>2. QED
      BY <1>1, <1>5, <2>1, ExecInvStep DEF SupInv
  <1>6. CASE FaultStep
    <2>1. SupInv'
      <3>1. CASE UNCHANGED sup
        BY <1>1, <3>1 DEF SupInv
      <3>2. QED
        BY <1>1, <1>6, <3>1, SupLifeStep DEF FaultStep, StoreError
    <2>2. QED
      BY <1>1, <1>2, <1>6, <2>1, ExecOtherStep, Parts
  <1>7. QED
    BY <1>2, <1>3, <1>4, <1>5, <1>6, Parts
       DEF Next, WorkerStep, ClientStep, vars

\* Everything the proofs below use of a reachable state.
ReachableInv == /\ StoreTypeOK /\ LedgerMatches /\ LedgerAttributed
                /\ RuntimeInv

LEMMA ReachableStep == ReachableInv /\ [Next]_vars => ReachableInv'
  <1> SUFFICES ASSUME ReachableInv, [Next]_vars
               PROVE  ReachableInv'
    OBVIOUS
  <1>1. [StoreNext]_storeVars
    BY StepIsClient, Parts DEF ReachableInv
  <1>2. StoreTypeOK' /\ LedgerMatches' /\ LedgerAttributed'
    BY <1>1, StoreTypeStep, LedgerStep, AttributedStep DEF ReachableInv
  <1>3. QED
    BY <1>2, RuntimeInvStep DEF ReachableInv

LEMMA Reachable == Spec => []ReachableInv
  <1>1. Init => ReachableInv
    BY StoreTypeInit, LedgerInit, AttributedInit, RuntimeInvInit
       DEF Init, ReachableInv
  <1>2. QED
    BY <1>1, ReachableStep, PTL DEF Spec

\* Supervisors and executions stay where the code can be.
THEOREM RuntimeTypeCorrect == Spec => []RuntimeTypeOK
  <1>1. ReachableInv => RuntimeTypeOK
    BY DEF ReachableInv, RuntimeInv
  <1>2. QED
    BY <1>1, Reachable, PTL

\* Any number of workers, with their crashes, stalls and store errors, is a
\* client of the store.
THEOREM RuntimeIsClient == Spec => StoreSpec
  <1>1. Init => StoreInit
    BY DEF Init
  <1>2. ReachableInv /\ [Next]_vars => [StoreNext]_storeVars
    BY StepIsClient, Parts DEF ReachableInv
  <1>3. QED
    BY <1>1, <1>2, Reachable, PTL DEF Spec, StoreSpec

\* What the store promises every client, for the runtime.
COROLLARY RuntimeKeepsRecords ==
    Spec => [](LedgerMatches /\ AgentCurrent /\ TranscriptFenced) /\ OutcomeFinal
  BY RuntimeIsClient, LedgerCorrect, CurrentCorrect, FencedCorrect,
     OutcomesFinal, PTL

-----------------------------------------------------------------------------
(* One supervisor at a time.                                               *)

OneAtATime ==
    \A v, w \in Workers : sup[v].pc # "down" /\ sup[w].pc # "down" => v = w

Running(r) == run[r].status = "running"

\* Generation r has all it was claimed with: its agent is busy with its todo,
\* enabled, and bound to the model of the ledger row.
Kept(r) == /\ Holds(run[r].agent, run[r].todo)
           /\ Supervised(run[r].agent)
           /\ agent[run[r].agent].model = run[r].model

\* The agents whose row the pass of w still overwrites from its snapshot.
Pending(w) ==
    {a \in Agents : /\ sup[w].pc \in {"scan", "claim"}
                    /\ sup[w].look[a] \in {"down", "wake", "stay"}}

Untouched(r) == \A w \in Workers : run[r].agent \notin Pending(w)

\* A supervisor that is down holds nothing, heartbeats are due for claims only,
\* the agent it claims for is one it has just visited, and its claims were
\* generations of the ledger.
HandsTidy ==
    \A w \in Workers :
        /\ sup[w].pc = "down" => sup[w].claims = {}
        /\ sup[w].left \subseteq sup[w].claims
        /\ sup[w].pc = "claim" => sup[w].look[sup[w].at] = "seen"
        /\ \A r \in sup[w].claims : run[r].status # "unused"

\* A live future belongs to a supervisor, and its generation is still running.
Tracked(r) ==
    /\ Running(r)
    /\ exec[r].worker \in Workers
    /\ r \in sup[exec[r].worker].claims
    /\ exec[r].model \in {None, run[r].model}

LiveTracked == \A r \in Runs : Live(r) => Tracked(r)

\* What a supervisor has claimed and nobody ended is kept for it.
ClaimsKept ==
    \A w \in Workers : \A r \in sup[w].claims :
        Running(r) => Kept(r) /\ Untouched(r)

\* The heartbeat at the start of a tick takes the agents of all claims out of
\* what the sweep of that tick judges by.
Spared ==
    \A w \in Workers : sup[w].pc = "beat" =>
        \A r \in sup[w].claims :
            Running(r) => r \in sup[w].left \/ run[r].agent \notin sup[w].stale

\* What is known of every reachable state, whatever runs side by side.
Known == ReachableInv /\ AgentCurrent

LEMMA KnownAlways == Spec => []Known
  BY Reachable, RuntimeIsClient, CurrentCorrect, PTL DEF Known

-----------------------------------------------------------------------------
(* What each operation of the store leaves of a generation that is kept.   *)

\* A generation's todo and agent are ids, and it owns its todo.
LEMMA RunningIds ==
    ASSUME Known, NEW r \in Runs, Running(r)
    PROVE  /\ run[r].todo \in Todos /\ run[r].agent \in Agents
           /\ Owns(r)
           /\ todo[run[r].todo].token = r
  BY DEF Known, ReachableInv, LedgerAttributed, LedgerMatches, Running, Owns

\* Requests do not touch a busy agent.
LEMMA ClientHolds ==
    ASSUME StoreTypeOK, NEW a \in Agents, agent[a].life = "live",
           agent[a].status = "busy", ModelStep \/ AgentStep \/ TodoStep
    PROVE  agent'[a] = agent[a]
  <1>1. CASE ModelStep
    BY <1>1 DEF ModelStep, CreateModel, SetCapacity, SetModelStatus, DeleteModel
  <1>2. CASE TodoStep
    BY <1>2
       DEF TodoStep, CreateTodo, SetPriority, DeleteTodo, ContinueTodo,
           RequestStop
  <1>3. CASE AgentStep
    <2>1. PICK b \in Agents :
             \/ \E m \in Models, x \in Complexities :
                   \/ CreateAgent(b, m, x)
                   \/ \E e \in BOOLEAN : UpdateAgent(b, m, x, e)
             \/ DeleteAgent(b)
      BY <1>3 DEF AgentStep
    <2>2. b # a
      BY <2>1 DEF CreateAgent, UpdateAgent, DeleteAgent
    <2>3. CASE DeleteAgent(b)
      BY <2>2, <2>3 DEF DeleteAgent, StoreTypeOK
    <2>4. ASSUME NEW m \in Models, NEW x \in Complexities, CreateAgent(b, m, x)
          PROVE  agent'[a] = agent[a]
      BY <2>2, <2>4 DEF CreateAgent, StoreTypeOK
    <2>5. ASSUME NEW m \in Models, NEW x \in Complexities, NEW e \in BOOLEAN,
                 UpdateAgent(b, m, x, e)
          PROVE  agent'[a] = agent[a]
      BY <2>2, <2>5 DEF UpdateAgent, StoreTypeOK
    <2>6. QED
      BY <2>1, <2>3, <2>4, <2>5
  <1>4. QED
    BY <1>1, <1>2, <1>3

\* The transactions that end generation q.
Ends(q) == \/ RequeueCancelled(q)
           \/ \E o \in {"done", "failed"} : FinishTodo(q, o)

\* The end of another generation releases another agent.
LEMMA OutcomeHolds ==
    ASSUME Known, NEW r \in Runs, Running(r), Kept(r), Running(r)',
           NEW q \in Runs,
           Ends(q)
    PROVE  agent'[run[r].agent] = agent[run[r].agent]
  <1>1. /\ Owns(q) /\ Holds(run[q].agent, run[q].todo)
        /\ agent' = [agent EXCEPT ![run[q].agent] = Released(agent[run[q].agent])]
    BY DEF Ends, RequeueCancelled, FinishTodo, MayProceed
  <1>2. \E st \in {"cancelled", "done", "failed"} :
           run' = [run EXCEPT ![q].status = st]
    BY DEF Ends, RequeueCancelled, FinishTodo
  <1>3. q # r
    BY <1>2 DEF Running, Known, ReachableInv, StoreTypeOK, RunRow
  <1>4. run[q].agent # run[r].agent
    <2>1. SUFFICES ASSUME run[q].agent = run[r].agent
                   PROVE  FALSE
      OBVIOUS
    <2>2. run[q].todo = run[r].todo
      BY <1>1, <2>1 DEF Kept, Holds
    <2>3. todo[run[q].todo].token = q
      BY <1>1 DEF Owns
    <2>4. QED
      BY <1>3, <2>2, <2>3, RunningIds
  <1>5. run[r].agent \in Agents
    BY RunningIds
  <1>6. QED
    BY <1>1, <1>4, <1>5 DEF Known, ReachableInv, StoreTypeOK

\* A sweep of the agent ends the generation it holds.
LEMMA SweepHolds ==
    ASSUME Known, NEW r \in Runs, Running(r), Kept(r), Running(r)',
           NEW S \in SUBSET Agents, SweepStale(S)
    PROVE  /\ run[r].agent \notin S
           /\ agent'[run[r].agent] = agent[run[r].agent]
  <1>1. /\ run[r].todo \in Todos /\ run[r].agent \in Agents
        /\ todo[run[r].todo].status = "running"
        /\ todo[run[r].todo].token = r
    BY RunningIds DEF Owns
  <1>2. ASSUME run[r].agent \in S
        PROVE  FALSE
    <2>1. run[r].todo \in SweptTodos(S)
      BY <1>1, <1>2 DEF SweptTodos, Kept, Holds
    <2>2. run'[r] = [run[r] EXCEPT !.status = "stale"]
      BY <1>1, <2>1 DEF SweepStale, Running
    <2>3. run'[r].status = "stale"
      BY <2>2, StaleFields DEF Known, ReachableInv, StoreTypeOK
    <2>4. QED
      BY <2>3 DEF Running
  <1>3. QED
    BY <1>1, <1>2 DEF SweepStale

\* A claim takes an idle agent.
LEMMA ClaimHolds ==
    ASSUME StoreTypeOK, NEW a \in Agents, agent[a].status = "busy",
           NEW b \in Agents, NEW t \in Todos, NEW q \in Runs, ClaimTodo(b, t, q)
    PROVE  agent'[a] = agent[a]
  <1>1. agent[b].status = "idle"
    BY DEF ClaimTodo, MayClaim
  <1>2. agent' = [agent EXCEPT ![b] = [agent[b] EXCEPT !.status = "busy",
                                                       !.cur = t]]
    BY DEF ClaimTodo
  <1>3. QED
    BY <1>1, <1>2 DEF StoreTypeOK

\* The heartbeat of a generation that is kept writes what is there already.
LEMMA BeatHolds ==
    ASSUME StoreTypeOK, NEW q \in Runs, Kept(q), run[q].agent \in Agents,
           NEW recent, RunHeartbeat(q, recent)
    PROVE  agent' = agent
  <1> DEFINE a == run[q].agent
             row == [agent[a] EXCEPT !.status = "busy", !.cur = run[q].todo]
  <1>1. agent' = [agent EXCEPT ![a] = row]
    BY DEF RunHeartbeat
  <1>2. agent[a] \in AgentRow /\ agent[a].status = "busy"
        /\ agent[a].cur = run[q].todo
    BY DEF StoreTypeOK, Kept, Holds
  <1>3. row = agent[a]
    BY <1>2 DEF AgentRow
  <1> HIDE DEF row
  <1>4. QED
    BY <1>1, <1>3 DEF StoreTypeOK

-----------------------------------------------------------------------------
(* What the steps of the runtime do to the store.                          *)

\* What an execution does to the store besides ending its own generation.
Leaves(q) == UNCHANGED <<model, agent, run>>

\* What it does to its own future besides moving it on.
Moves(q) == /\ \A p \in Runs : p # q => exec'[p] = exec[p]
            /\ exec'[q].worker = exec[q].worker
            /\ exec'[q].model \in {exec[q].model, agent[run[q].agent].model}

\* A step of one execution: its future moves on, or ends together with the
\* generation.
LEMMA ExecEffect ==
    ASSUME ExecInv, NEW q \in Runs, ExecStep(q)
    PROVE  /\ Live(q) /\ sup' = sup
           /\ Moves(q)
           /\ Leaves(q) \/ (Ends(q) /\ ~Live(q)')
  <1>1. exec[q] \in ExecRow
    BY DEF ExecInv
  <1>2. ASSUME NEW pc, Goes(q, pc)
        PROVE  Moves(q) /\ exec'[q].pc = pc
    BY <1>1, <1>2 DEF Goes, ExecInv, ExecRow, Moves
  <1>3. Live(q) /\ sup' = sup
    BY DEF ExecStep, Start, Resolve, Link, Open, Check, Turn, ReplyLost,
           ReplySaved, Tool, AfterError, AfterDone, Finish, Fail, Blame,
           Conflicted, Live, ActivePC
  <1>4. ASSUME UNCHANGED storeVars \/ LinkConversation(q) \/ WriteTranscript(q)
        PROVE  Leaves(q)
    BY <1>4 DEF storeVars, LinkConversation, WriteTranscript, Leaves
  <1>5. ASSUME Ends(q), Goes(q, "exited")
        PROVE  Moves(q) /\ Ends(q) /\ ~Live(q)'
    BY <1>2, <1>5 DEF Live, ActivePC
  <1>6. CASE Resolve(q)
    <2>1. ASSUME exec' = [exec EXCEPT ![q].pc = "link",
                             ![q].model = agent[run[q].agent].model]
          PROVE  Moves(q)
      BY <1>1, <2>1 DEF ExecInv, ExecRow, Moves
    <2>2. Moves(q)
      BY <1>2, <1>6, <2>1 DEF Resolve
    <2>3. Leaves(q)
      BY <1>6, <1>4 DEF Resolve
    <2>4. QED
      BY <1>3, <2>2, <2>3
  <1>7. CASE Turn(q)
    <2>1. ASSUME exec' = [exec EXCEPT ![q].pc = "call", ![q].turn = @ + 1]
          PROVE  Moves(q)
      BY <1>1, <2>1 DEF ExecInv, ExecRow, Moves
    <2>2. Moves(q)
      BY <1>2, <1>7, <2>1 DEF Turn
    <2>3. Leaves(q)
      BY <1>7, <1>4 DEF Turn
    <2>4. QED
      BY <1>3, <2>2, <2>3
  <1>8. CASE Start(q) \/ Link(q) \/ Open(q) \/ Check(q)
    <2>1. Moves(q)
      BY <1>2, <1>8 DEF Start, Link, Open, Check
    <2>2. Leaves(q)
      BY <1>4, <1>8 DEF Start, Link, Open, Check
    <2>3. QED
      BY <1>3, <2>1, <2>2
  <1>9. CASE ReplyLost(q) \/ ReplySaved(q) \/ Tool(q)
    <2>1. Moves(q)
      BY <1>2, <1>9 DEF ReplyLost, ReplySaved, Tool
    <2>2. Leaves(q)
      BY <1>4, <1>9 DEF ReplyLost, ReplySaved, Tool
    <2>3. QED
      BY <1>3, <2>1, <2>2
  <1>10. CASE \/ AfterError(q) \/ AfterDone(q) \/ Finish(q) \/ Fail(q)
              \/ Blame(q) \/ Conflicted(q)
    <2>1. \/ Ends(q) /\ Goes(q, "exited")
          \/ /\ UNCHANGED storeVars \/ WriteTranscript(q)
             /\ \E pc \in {"exited", "fail", "finish", "conflict", "blame"} :
                   Goes(q, pc)
      BY <1>10
         DEF AfterError, AfterDone, Finish, Fail, Blame, Conflicted, Yields, Ends
    <2>2. QED
      BY <1>2, <1>3, <1>4, <1>5, <2>1
  <1>11. QED
    BY <1>6, <1>7, <1>8, <1>9, <1>10 DEF ExecStep

-----------------------------------------------------------------------------
(* Generations that are kept.                                              *)

\* What a request, a transaction of another generation or a step of any
\* supervisor leaves of a kept generation that nobody ends, as long as no pass
\* still has the agent before it and heartbeats are sent for kept generations.
LEMMA AgentSteady ==
    ASSUME Known, [Next]_vars, NEW r \in Runs, Running(r), Kept(r),
           Untouched(r), Running(r)',
           \A w \in Workers : \A q \in sup[w].left : Running(q) => Kept(q)
    PROVE  agent'[run[r].agent] = agent[run[r].agent]
  <1> DEFINE a == run[r].agent
  <1>1. /\ StoreTypeOK /\ a \in Agents /\ agent[a].status = "busy"
        /\ agent[a].life = "live"
    BY RunningIds DEF Known, ReachableInv, Kept, Holds, Supervised
  <1>2. CASE agent' = agent
    BY <1>2
  <1>3. ASSUME ModelStep \/ AgentStep \/ TodoStep
        PROVE  agent'[a] = agent[a]
    BY <1>1, <1>3, ClientHolds
  <1>4. ASSUME NEW q \in Runs, Ends(q)
        PROVE  agent'[a] = agent[a]
    BY <1>4, OutcomeHolds
  <1>5. ASSUME NEW w \in Workers, NEW q \in Runs, Beat(w, q)
        PROVE  agent'[a] = agent[a]
    <2>1. CASE UNCHANGED storeVars
      BY <2>1 DEF storeVars
    <2>2. CASE RunHeartbeat(q, ~sup[w].late)
      <3>1. Owns(q) /\ q \in sup[w].left
        BY <1>5, <2>2 DEF RunHeartbeat, Beat
      <3>2. Running(q)
        BY <3>1 DEF Known, ReachableInv, LedgerMatches, Running
      <3>3. Kept(q) /\ run[q].agent \in Agents
        BY <3>1, <3>2, RunningIds
      <3>4. QED
        BY <1>1, <2>2, <3>3, BeatHolds
    <2>3. QED
      BY <1>5, <2>1, <2>2 DEF Beat
  <1>6. ASSUME NEW w \in Workers, Sweep(w)
        PROVE  agent'[a] = agent[a]
    <2> DEFINE S == {b \in sup[w].stale : ~fresh[b]
                                          /\ agent[b].status # "offline"}
    <2>1. SweepStale(S)
      BY <1>6 DEF Sweep
    <2>2. S \in SUBSET Agents
      BY Parts DEF Known, ReachableInv, SupInv, SupRow
    <2>3. QED
      BY <2>1, <2>2, SweepHolds
  <1>7. ASSUME NEW w \in Workers, NEW b \in Agents, Visit(w, b)
        PROVE  agent'[a] = agent[a]
    <2>1. b \in Pending(w)
      BY <1>7 DEF Visit, Pending
    <2>2. b # a
      BY <2>1 DEF Untouched
    <2>3. CASE UNCHANGED storeVars
      BY <2>3 DEF storeVars
    <2>4. CASE \E status, cur, recent : AgentHeartbeat(b, status, cur, recent)
      BY <1>1, <2>2, <2>4 DEF AgentHeartbeat, StoreTypeOK
    <2>5. QED
      BY <1>7, <2>3, <2>4 DEF Visit
  <1>8. ASSUME NEW w \in Workers, Claim(w)
        PROVE  agent'[a] = agent[a]
    <2>1. sup[w].at \in Agents
      BY <1>8, Parts DEF Known, ReachableInv, SupInv, Claim
    <2>2. PICK t \in Todos, q \in Runs : ClaimTodo(sup[w].at, t, q)
      BY <1>8 DEF Claim
    <2>3. QED
      BY <1>1, <2>1, <2>2, ClaimHolds
  <1>9. ASSUME NEW w \in Workers, TickStep(w)
        PROVE  agent'[a] = agent[a]
    BY <1>5, <1>6, <1>7, <1>8, <1>9
       DEF TickStep, TickBegin, List, ClaimNothing, PassDone, ExecutorFull,
           TickEnd, storeVars
  <1>10. ASSUME NEW w \in Workers, CloseStep(w)
         PROVE  agent'[a] = agent[a]
    <2>1. \/ \E q \in Runs : RequestStop(q) \/ RequeueCancelled(q)
          \/ UNCHANGED storeVars
      BY <1>10 DEF CloseStep, CloseStop, CloseCancel, CloseEnd
    <2>2. QED
      BY <2>1, <1>3, <1>4 DEF TodoStep, Ends, storeVars
  <1>11. ASSUME NEW q \in Runs, ExecStep(q)
         PROVE  agent'[a] = agent[a]
    <2>1. ExecInv
      BY Parts DEF Known, ReachableInv
    <2>2. QED
      BY <1>11, <2>1, <1>4, ExecEffect DEF Leaves
  <1>12. CASE FaultStep
    BY <1>12
       DEF FaultStep, CloseBegin, Crash, Boot, Stall, StoreError, Elapse,
           storeVars
  <1>13. CASE UNCHANGED vars
    BY <1>13 DEF vars, storeVars
  <1>14. QED
    BY <1>3, <1>9, <1>10, <1>11, <1>12, <1>13 DEF Next, WorkerStep, ClientStep

\* Such a generation is kept by the step.
LEMMA KeptStep ==
    ASSUME Known, [Next]_vars, NEW r \in Runs, Running(r), Kept(r),
           Untouched(r), Running(r)',
           \A w \in Workers : \A q \in sup[w].left : Running(q) => Kept(q)
    PROVE  Kept(r)' /\ run'[r].agent = run[r].agent
  <1>1. agent'[run[r].agent] = agent[run[r].agent]
    BY AgentSteady
  <1>2. RowKept(r)
    BY StepIsClient, RowsKept, Parts DEF Known, ReachableInv
  <1>3. /\ run'[r].todo = run[r].todo /\ run'[r].agent = run[r].agent
        /\ run'[r].model = run[r].model
    BY <1>2 DEF RowKept, Running
  <1>4. QED
    BY <1>1, <1>3 DEF Kept, Holds, Supervised

\* Where a step of supervisor w leaves it, field by field.
Same(w, f) == sup'[w][f] = sup[w][f]

LEMMA SupFields ==
    ASSUME SupInv, NEW w \in Workers
    PROVE  /\ TickBegin(w) =>
                /\ sup'[w].pc = "beat" /\ sup'[w].left = sup'[w].claims
                /\ sup'[w].claims = {r \in sup[w].claims : exec[r].pc # "exited"}
           /\ \A r \in Runs : Beat(w, r) =>
                /\ Same(w, "pc") /\ Same(w, "claims")
                /\ sup'[w].left = sup[w].left \ {r}
                /\ sup'[w].stale = IF Owns(r) /\ Supervised(run[r].agent)
                                   THEN sup[w].stale \ {run[r].agent}
                                   ELSE sup[w].stale
           /\ Sweep(w) => sup'[w].pc = "list" /\ Same(w, "claims")
                          /\ Same(w, "left")
           /\ List(w) => sup'[w].pc = "scan" /\ Same(w, "claims")
                         /\ Same(w, "left")
                         /\ sup'[w].look = [a \in Agents |-> Glance(w, a)]
           /\ \A a \in Agents : Visit(w, a) =>
                /\ sup'[w].pc \in {"scan", "claim"}
                /\ sup'[w].pc = "claim" => sup'[w].at = a
                /\ Same(w, "claims") /\ Same(w, "left")
                /\ sup'[w].look = [sup[w].look EXCEPT ![a] = "seen"]
           /\ Claim(w) => sup'[w].pc = "scan" /\ Same(w, "look")
                          /\ Same(w, "left")
           /\ ClaimNothing(w) => sup'[w].pc = "scan" /\ Same(w, "look")
                                 /\ Same(w, "claims") /\ Same(w, "left")
           /\ PassDone(w) => sup'[w].pc = "endbeat" /\ Same(w, "claims")
                             /\ sup'[w].left = sup[w].claims
           /\ ExecutorFull(w) \/ TickEnd(w) =>
                sup'[w].pc = "rest" /\ Same(w, "claims") /\ Same(w, "left")
           /\ CloseBegin(w) => sup'[w].pc = "closing" /\ Same(w, "claims")
                               /\ sup'[w].left = sup[w].claims
           /\ \A r \in Runs : CloseCancel(w, r) =>
                sup'[w].pc = "closing" /\ Same(w, "claims")
                /\ sup'[w].left \subseteq sup[w].left
           /\ CloseEnd(w) \/ Crash(w) =>
                sup'[w].pc = "down" /\ sup'[w].claims = {}
                /\ sup'[w].left = {}
           /\ Boot(w) => sup'[w].pc = "rest" /\ Same(w, "claims")
                         /\ Same(w, "left")
           /\ Stall(w) => /\ Same(w, "pc") /\ Same(w, "claims")
                          /\ Same(w, "left") /\ Same(w, "look")
                          /\ Same(w, "at") /\ Same(w, "stale")
  <1>1. sup[w] \in SupRow
    BY DEF SupInv
  <1>2. ASSUME NEW row, sup' = [sup EXCEPT ![w] = row]
        PROVE  sup'[w] = row
    BY <1>2 DEF SupInv
  <1> USE DEF Same
  <1>3. ASSUME TickBegin(w)
        PROVE  /\ sup'[w].pc = "beat" /\ sup'[w].left = sup'[w].claims
               /\ sup'[w].claims = {r \in sup[w].claims : exec[r].pc # "exited"}
    <2> DEFINE kept == {r \in sup[w].claims : exec[r].pc # "exited"}
               row  == [sup[w] EXCEPT !.pc = "beat", !.claims = kept,
                                      !.left = kept,
                                      !.stale = {a \in Agents : ~fresh[a]},
                                      !.late = FALSE]
    <2>1. sup' = [sup EXCEPT ![w] = row]
      BY <1>3 DEF TickBegin
    <2>2. row.pc = "beat" /\ row.left = kept /\ row.claims = kept
      BY <1>1 DEF SupRow
    <2>3. sup'[w] = row
      BY <2>1, <1>2
    <2> HIDE DEF row
    <2>4. QED
      BY <2>2, <2>3
  <1>4. ASSUME NEW r \in Runs, Beat(w, r)
        PROVE  /\ Same(w, "pc") /\ Same(w, "claims")
               /\ sup'[w].left = sup[w].left \ {r}
               /\ sup'[w].stale = IF Owns(r) /\ Supervised(run[r].agent)
                                  THEN sup[w].stale \ {run[r].agent}
                                  ELSE sup[w].stale
    <2> DEFINE row(x) == [sup[w] EXCEPT !.left = sup[w].left \ {r}, !.stale = x]
    <2>1. ASSUME NEW x
          PROVE  /\ row(x).pc = sup[w].pc /\ row(x).claims = sup[w].claims
                 /\ row(x).left = sup[w].left \ {r} /\ row(x).stale = x
      BY <1>1 DEF SupRow
    <2>2. CASE Owns(r) /\ Supervised(run[r].agent)
      <3>1. sup' = [sup EXCEPT ![w] = row(sup[w].stale \ {run[r].agent})]
        BY <1>1, <1>4, <2>2 DEF Beat, SupInv, SupRow
      <3>2. sup'[w] = row(sup[w].stale \ {run[r].agent})
        BY <3>1, <1>2
      <3> HIDE DEF row
      <3>3. QED
        BY <2>1, <2>2, <3>2
    <2>3. CASE ~(Owns(r) /\ Supervised(run[r].agent))
      <3>1. sup' = [sup EXCEPT ![w] = row(sup[w].stale)]
        BY <1>1, <1>4, <2>3 DEF Beat, SupInv, SupRow
      <3>2. sup'[w] = row(sup[w].stale)
        BY <3>1, <1>2
      <3> HIDE DEF row
      <3>3. QED
        BY <2>1, <2>3, <3>2
    <2>4. QED
      BY <2>2, <2>3
  <1>5. Sweep(w) => sup'[w].pc = "list" /\ Same(w, "claims") /\ Same(w, "left")
    BY <1>1 DEF Sweep, SupInv, SupRow
  <1>6. ASSUME List(w)
        PROVE  /\ sup'[w].pc = "scan" /\ Same(w, "claims") /\ Same(w, "left")
               /\ sup'[w].look = [a \in Agents |-> Glance(w, a)]
    <2> DEFINE look == [a \in Agents |-> Glance(w, a)]
               row == [sup[w] EXCEPT !.pc = "scan", !.look = look]
    <2>1. sup' = [sup EXCEPT ![w] = row]
      BY <1>6 DEF List, SupInv
    <2> HIDE DEF look
    <2>2. /\ row.pc = "scan" /\ row.look = look
          /\ row.claims = sup[w].claims /\ row.left = sup[w].left
      BY <1>1 DEF SupRow
    <2>3. sup'[w] = row
      BY <2>1, <1>2
    <2> HIDE DEF row
    <2>4. QED
      BY <2>2, <2>3 DEF look
  <1>7. ASSUME NEW a \in Agents, Visit(w, a)
        PROVE  /\ sup'[w].pc \in {"scan", "claim"}
               /\ sup'[w].pc = "claim" => sup'[w].at = a
               /\ Same(w, "claims") /\ Same(w, "left")
               /\ sup'[w].look = [sup[w].look EXCEPT ![a] = "seen"]
    <2> DEFINE down == sup[w].look[a] = "down"
               look == [sup[w].look EXCEPT ![a] = "seen"]
               row  == [sup[w] EXCEPT !.look = look,
                                      !.pc = IF down THEN "scan" ELSE "claim",
                                      !.at = IF down THEN None ELSE a]
    <2>1. sup' = [sup EXCEPT ![w] = row]
      BY <1>7 DEF Visit
    <2> HIDE DEF look, down
    <2>2. /\ row.pc = IF down THEN "scan" ELSE "claim"
          /\ row.at = IF down THEN None ELSE a
          /\ row.look = look
          /\ row.claims = sup[w].claims /\ row.left = sup[w].left
      BY <1>1 DEF SupRow
    <2>3. sup'[w] = row
      BY <2>1, <1>2
    <2> HIDE DEF row
    <2>4. QED
      BY <2>2, <2>3 DEF look
  <1>8. ASSUME Claim(w)
        PROVE  sup'[w].pc = "scan" /\ Same(w, "look") /\ Same(w, "left")
    <2>1. PICK r \in Runs :
             sup' = [sup EXCEPT ![w] = [sup[w] EXCEPT !.pc = "scan",
                        !.at = None, !.claims = sup[w].claims \cup {r}]]
      BY <1>8 DEF Claim
    <2> DEFINE row == [sup[w] EXCEPT !.pc = "scan", !.at = None,
                                     !.claims = sup[w].claims \cup {r}]
    <2>2. row.pc = "scan" /\ row.look = sup[w].look /\ row.left = sup[w].left
      BY <1>1 DEF SupRow
    <2>3. sup'[w] = row
      BY <2>1, <1>2
    <2> HIDE DEF row
    <2>4. QED
      BY <2>2, <2>3
  <1>9. ASSUME ClaimNothing(w)
        PROVE  sup'[w].pc = "scan" /\ Same(w, "look") /\ Same(w, "claims")
               /\ Same(w, "left")
    BY <1>1, <1>9 DEF ClaimNothing, SupInv, SupRow
  <1>10. PassDone(w) => sup'[w].pc = "endbeat" /\ Same(w, "claims")
                        /\ sup'[w].left = sup[w].claims
    BY <1>1 DEF PassDone, SupInv, SupRow
  <1>11. ASSUME ExecutorFull(w) \/ TickEnd(w)
         PROVE  sup'[w].pc = "rest" /\ Same(w, "claims") /\ Same(w, "left")
    <2>1. sup'[w] = Resting(w)
      BY <1>11, <1>2 DEF ExecutorFull, TickEnd
    <2>2. /\ Resting(w).pc = "rest" /\ Resting(w).claims = sup[w].claims
          /\ Resting(w).left = sup[w].left
      BY <1>1 DEF Resting, SupRow
    <2>3. QED
      BY <2>1, <2>2
  <1>12. \A b : /\ Down(b).pc = "down" /\ Down(b).claims = {}
                /\ Down(b).left = {}
    BY DEF Down
  <1>13. ASSUME CloseBegin(w)
         PROVE  sup'[w].pc = "closing" /\ Same(w, "claims")
                /\ sup'[w].left = sup[w].claims
    <2> DEFINE row == [Down(sup[w].boots) EXCEPT !.pc = "closing",
                          !.claims = sup[w].claims, !.left = sup[w].claims]
    <2>1. /\ row.pc = "closing" /\ row.claims = sup[w].claims
          /\ row.left = sup[w].claims
      BY DEF Down
    <2>2. sup'[w] = row
      BY <1>13, <1>2 DEF CloseBegin
    <2> HIDE DEF row
    <2>3. QED
      BY <2>1, <2>2
  <1>14. ASSUME NEW r \in Runs, CloseCancel(w, r)
         PROVE  sup'[w].pc = "closing" /\ Same(w, "claims")
                /\ sup'[w].left \subseteq sup[w].left
    BY <1>1, <1>14 DEF CloseCancel, SupInv, SupRow
  <1>15. CloseEnd(w) \/ Crash(w) =>
            sup'[w].pc = "down" /\ sup'[w].claims = {} /\ sup'[w].left = {}
    BY <1>2, <1>12 DEF CloseEnd, Crash
  <1>16. Boot(w) => sup'[w].pc = "rest" /\ Same(w, "claims") /\ Same(w, "left")
    BY <1>1 DEF Boot, SupInv, SupRow
  <1>17. Stall(w) => /\ Same(w, "pc") /\ Same(w, "claims")
                     /\ Same(w, "left") /\ Same(w, "look")
                     /\ Same(w, "at") /\ Same(w, "stale")
    BY <1>1 DEF Stall, SupInv, SupRow
  <1> HIDE DEF Same
  <1>18. QED
    BY <1>3, <1>4, <1>5, <1>6, <1>7, <1>8, <1>9, <1>10, <1>11, <1>13, <1>14,
       <1>15, <1>16, <1>17

\* A step moves one supervisor.
LifeStep(v) == \/ TickStep(v) \/ CloseStep(v) \/ CloseBegin(v)
               \/ Crash(v) \/ Boot(v) \/ Stall(v)

LEMMA SupOthers ==
    ASSUME SupInv, NEW v \in Workers, LifeStep(v)
    PROVE  \A w \in Workers : w # v => sup'[w] = sup[w]
  <1>1. CASE TickStep(v)
    BY <1>1
       DEF SupInv, TickStep, TickBegin, Beat, Sweep, List, Visit, Claim,
           ClaimNothing, PassDone, ExecutorFull, TickEnd
  <1>2. CASE CloseStep(v)
    BY <1>2 DEF SupInv, CloseStep, CloseStop, CloseCancel, CloseEnd
  <1>3. CASE CloseBegin(v) \/ Crash(v) \/ Boot(v) \/ Stall(v)
    BY <1>3 DEF SupInv, CloseBegin, Crash, Boot, Stall
  <1>4. QED
    BY <1>1, <1>2, <1>3 DEF LifeStep

LEMMA SupMoves ==
    ASSUME ExecInv, [Next]_vars
    PROVE  sup' = sup \/ \E v \in Workers : LifeStep(v)
  <1>1. ASSUME NEW q \in Runs, ExecStep(q)
        PROVE  sup' = sup
    BY <1>1, ExecEffect
  <1>2. QED
    BY <1>1
       DEF Next, WorkerStep, ClientStep, FaultStep, StoreError, vars, LifeStep

\* Only a new snapshot puts agents before a pass.
LEMMA PendingShrinks ==
    ASSUME SupInv, ExecInv, [Next]_vars, NEW w \in Workers, ~List(w)
    PROVE  Pending(w)' \subseteq Pending(w)
  <1> USE DEF Same
  <1>1. CASE sup'[w] = sup[w]
    BY <1>1 DEF Pending
  <1>2. CASE sup'[w].pc \notin {"scan", "claim"}
    BY <1>2 DEF Pending
  <1>3. CASE /\ sup[w].pc \in {"scan", "claim"} \/ Same(w, "pc")
             /\ Same(w, "look")
    BY <1>3 DEF Pending
  <1>4. ASSUME NEW r \in Runs, Beat(w, r)
        PROVE  sup'[w].pc \notin {"scan", "claim"}
    BY <1>4, SupFields DEF Beat
  <1>5. ASSUME NEW a \in Agents, Visit(w, a)
        PROVE  Pending(w)' \subseteq Pending(w)
    <2>1. sup[w].pc = "scan"
          /\ sup'[w].look = [sup[w].look EXCEPT ![a] = "seen"]
      BY <1>5, SupFields DEF Visit
    <2>2. sup[w].look \in [Agents -> {"seen", "skip", "down", "wake", "stay"}]
      BY DEF SupInv, SupRow
    <2>3. \A b \in Agents : sup'[w].look[b] \in {"seen", sup[w].look[b]}
      BY <2>1, <2>2
    <2>4. QED
      BY <2>1, <2>3 DEF Pending
  <1>6. CASE TickStep(w)
    <2>1. CASE Claim(w) \/ ClaimNothing(w)
      BY <1>3, <2>1, SupFields DEF Claim, ClaimNothing
    <2>2. CASE TickBegin(w) \/ Sweep(w) \/ PassDone(w) \/ ExecutorFull(w)
               \/ TickEnd(w)
      <3>1. sup'[w].pc \in {"beat", "list", "endbeat", "rest"}
        BY <2>2, SupFields
      <3>2. QED
        BY <1>2, <3>1
    <2>3. QED
      BY <1>2, <1>4, <1>5, <1>6, <2>1, <2>2 DEF TickStep
  <1>7. CASE CloseStep(w)
    <2>1. sup' = sup \/ sup'[w].pc \in {"closing", "down"}
      BY <1>7, SupFields DEF CloseStep, CloseStop
    <2>2. QED
      BY <1>1, <1>2, <2>1
  <1>8. CASE CloseBegin(w) \/ Crash(w) \/ Boot(w)
    <2>1. sup'[w].pc \in {"closing", "down", "rest"}
      BY <1>8, SupFields
    <2>2. QED
      BY <1>2, <2>1
  <1>9. CASE Stall(w)
    BY <1>3, <1>9, SupFields
  <1>10. QED
    BY <1>1, <1>6, <1>7, <1>8, <1>9, SupMoves, SupOthers DEF LifeStep

\* A snapshot passes over the agent of a kept generation: either its future is
\* known to the supervisor, or the agent is busy and its model ready.
LEMMA UntouchedStep ==
    ASSUME Known, [Next]_vars, NEW r \in Runs, Running(r), Kept(r),
           Untouched(r), run'[r].agent = run[r].agent,
           \A w \in Workers : sup[w].pc = "list" =>
              r \in sup[w].claims \/ Ready(run[r].model)
    PROVE  Untouched(r)'
  <1> SUFFICES ASSUME NEW w \in Workers
               PROVE  run[r].agent \notin Pending(w)'
    BY DEF Untouched
  <1>1. SupInv /\ ExecInv
    BY Parts DEF Known, ReachableInv
  <1>2. CASE ~List(w)
    BY <1>1, <1>2, PendingShrinks DEF Untouched
  <1>3. CASE List(w)
    <2> DEFINE a == run[r].agent
    <2>1. a \in Agents
      BY RunningIds
    <2>2. sup'[w].look[a] = Glance(w, a)
      BY <1>1, <1>3, <2>1 DEF List, SupInv, SupRow
    <2>3. r \in sup[w].claims \/ Ready(agent[a].model)
      BY <1>3 DEF List, Kept
    <2>4. Glance(w, a) = "skip"
      BY <2>3 DEF Glance, Kept, Holds, Supervised
    <2>5. QED
      BY <2>2, <2>4 DEF Pending
  <1>4. QED
    BY <1>2, <1>3

-----------------------------------------------------------------------------
(* The invariant of one supervisor at a time.                              *)

Backed == HandsTidy /\ LiveTracked /\ ClaimsKept /\ Spared

\* Rows of the ledger keep their content, and only a running generation was
\* running before or was not used.
LEMMA RunBefore ==
    ASSUME Known, [Next]_vars, NEW r \in Runs, run[r].status # "unused"
    PROVE  /\ run'[r].status # "unused"
           /\ run'[r].agent = run[r].agent
           /\ Running(r)' => Running(r)
  <1>1. RowKept(r)
    BY StepIsClient, RowsKept, Parts DEF Known, ReachableInv
  <1>2. QED
    BY <1>1 DEF RowKept, Running

\* A claim adds one generation, with a future of its own.
LEMMA ClaimEffect ==
    ASSUME SupInv, ExecInv, NEW w \in Workers, Claim(w)
    PROVE  \E t \in Todos, r \in Runs :
              /\ ClaimTodo(sup[w].at, t, r)
              /\ sup'[w].claims = sup[w].claims \cup {r}
              /\ exec'[r].worker = w /\ exec'[r].model = None
              /\ \A q \in Runs : q # r => exec'[q] = exec[q]
  <1>1. PICK t \in Todos, r \in Runs :
           /\ ClaimTodo(sup[w].at, t, r)
           /\ exec' = [exec EXCEPT ![r] = [NoExec EXCEPT !.pc = "submitted",
                                                         !.worker = w]]
           /\ sup' = [sup EXCEPT ![w] = [sup[w] EXCEPT !.pc = "scan",
                        !.at = None, !.claims = sup[w].claims \cup {r}]]
    BY DEF Claim
  <1>2. sup'[w].claims = sup[w].claims \cup {r}
    <2> DEFINE row == [sup[w] EXCEPT !.pc = "scan", !.at = None,
                                     !.claims = sup[w].claims \cup {r}]
    <2>1. row.claims = sup[w].claims \cup {r}
      BY DEF SupInv, SupRow
    <2>2. sup'[w] = row
      BY <1>1 DEF SupInv
    <2> HIDE DEF row
    <2>3. QED
      BY <2>1, <2>2
  <1>3. /\ exec'[r].worker = w /\ exec'[r].model = None
        /\ \A q \in Runs : q # r => exec'[q] = exec[q]
    <2> DEFINE row == [NoExec EXCEPT !.pc = "submitted", !.worker = w]
    <2>1. row.worker = w /\ row.model = None
      BY DEF NoExec
    <2>2. exec' = [exec EXCEPT ![r] = row]
      BY <1>1
    <2> HIDE DEF row
    <2>3. QED
      BY <2>1, <2>2 DEF ExecInv
  <1>4. QED
    BY <1>1, <1>2, <1>3

\* Nothing else adds claims.
LEMMA ClaimsGrow ==
    ASSUME SupInv, ExecInv, [Next]_vars, NEW w \in Workers,
           ~(sup'[w].claims \subseteq sup[w].claims)
    PROVE  Claim(w)
  <1>1. LifeStep(w)
    BY SupMoves, SupOthers
  <1>2. QED
    BY <1>1, SupFields DEF LifeStep, TickStep, CloseStep, CloseStop, Same

LEMMA TidyStep ==
    ASSUME Known, HandsTidy, [Next]_vars
    PROVE  HandsTidy'
  <1>1. SupInv /\ ExecInv
    BY Parts DEF Known, ReachableInv
  <1> SUFFICES ASSUME NEW w \in Workers
               PROVE  /\ sup'[w].pc = "down" => sup'[w].claims = {}
                      /\ sup'[w].left \subseteq sup'[w].claims
                      /\ sup'[w].pc = "claim" => sup'[w].look[sup'[w].at] = "seen"
                      /\ \A r \in sup'[w].claims : run'[r].status # "unused"
    BY DEF HandsTidy
  <1> DEFINE Hands == /\ sup'[w].pc = "down" => sup'[w].claims = {}
                      /\ sup'[w].left \subseteq sup'[w].claims
                      /\ sup'[w].pc = "claim" =>
                            sup'[w].look[sup'[w].at] = "seen"
  <1>2. \A r \in sup'[w].claims : run'[r].status # "unused"
    <2>1. sup[w].claims \subseteq Runs
      BY <1>1 DEF SupInv, SupRow
    <2>2. \A r \in sup[w].claims : run'[r].status # "unused"
      BY <2>1, RunBefore DEF HandsTidy
    <2>3. CASE Claim(w)
      <3>1. PICK t \in Todos, r \in Runs :
               /\ ClaimTodo(sup[w].at, t, r)
               /\ sup'[w].claims = sup[w].claims \cup {r}
        BY <1>1, <2>3, ClaimEffect
      <3>2. run'[r].status = "running"
        BY <3>1 DEF ClaimTodo, Known, ReachableInv, StoreTypeOK
      <3>3. QED
        BY <2>2, <3>1, <3>2
    <2>4. QED
      BY <1>1, <2>2, <2>3, ClaimsGrow
  <1>3. CASE sup'[w] = sup[w]
    BY <1>2, <1>3 DEF HandsTidy
  <1>4. ASSUME NEW a \in Agents, Visit(w, a)
        PROVE  Hands
    <2>1. /\ sup'[w].pc \in {"scan", "claim"}
          /\ sup'[w].pc = "claim" => sup'[w].at = a
          /\ sup'[w].claims = sup[w].claims /\ sup'[w].left = sup[w].left
          /\ sup'[w].look = [sup[w].look EXCEPT ![a] = "seen"]
      BY <1>1, <1>4, SupFields DEF Same
    <2>2. sup[w].look \in [Agents -> {"seen", "skip", "down", "wake", "stay"}]
      BY <1>1 DEF SupInv, SupRow
    <2>3. QED
      BY <2>1, <2>2 DEF HandsTidy
  <1>5. CASE Claim(w)
    <2>1. sup'[w].pc = "scan" /\ sup'[w].left = sup[w].left
      BY <1>1, <1>5, SupFields DEF Same
    <2>2. sup[w].claims \subseteq sup'[w].claims
      BY <1>1, <1>5, ClaimEffect
    <2>3. QED
      BY <1>2, <2>1, <2>2 DEF HandsTidy
  <1>6. ASSUME NEW r \in Runs, Beat(w, r)
        PROVE  Hands
    <2>1. /\ sup'[w].pc = sup[w].pc /\ sup'[w].claims = sup[w].claims
          /\ sup'[w].left \subseteq sup[w].left
          /\ sup[w].pc \in {"beat", "endbeat"}
      BY <1>1, <1>6, SupFields DEF Same, Beat
    <2>2. QED
      BY <2>1 DEF HandsTidy
  <1>7. CASE TickStep(w)
    <2>1. CASE \/ TickBegin(w) \/ Sweep(w) \/ List(w) \/ ClaimNothing(w)
               \/ PassDone(w) \/ ExecutorFull(w) \/ TickEnd(w)
      <3>1. /\ sup'[w].pc \notin {"down", "claim"}
            /\ \/ sup'[w].left = sup'[w].claims
               \/ Same(w, "claims") /\ sup'[w].left \subseteq sup[w].left
        BY <1>1, <2>1, SupFields DEF Same
      <3>2. QED
        BY <1>2, <3>1 DEF HandsTidy, Same
    <2>2. QED
      BY <1>2, <1>4, <1>5, <1>6, <1>7, <2>1 DEF TickStep
  <1>8. CASE CloseStep(w) \/ CloseBegin(w) \/ Crash(w) \/ Boot(w)
    <2>1. CASE \E r \in Runs : CloseStop(w, r)
      BY <1>3, <2>1 DEF CloseStop
    <2>2. CASE CloseEnd(w) \/ Crash(w)
      BY <1>1, <1>2, <2>2, SupFields
    <2>3. CASE \/ \E r \in Runs : CloseCancel(w, r)
               \/ CloseBegin(w) \/ Boot(w)
      <3>1. /\ sup'[w].pc \notin {"down", "claim"}
            /\ sup'[w].claims = sup[w].claims
            /\ \/ sup'[w].left = sup'[w].claims
               \/ sup'[w].left \subseteq sup[w].left
        BY <1>1, <2>3, SupFields DEF Same
      <3>2. QED
        BY <1>2, <3>1 DEF HandsTidy
    <2>4. QED
      BY <1>8, <2>1, <2>2, <2>3 DEF CloseStep
  <1>9. CASE Stall(w)
    <2>1. /\ sup'[w].pc = sup[w].pc /\ sup'[w].claims = sup[w].claims
          /\ sup'[w].left = sup[w].left /\ sup'[w].look = sup[w].look
          /\ sup'[w].at = sup[w].at
      BY <1>1, <1>9, SupFields DEF Same
    <2>2. QED
      BY <1>2, <2>1 DEF HandsTidy
  <1>10. QED
    BY <1>1, <1>3, <1>7, <1>8, <1>9, SupMoves, SupOthers DEF LifeStep

\* A generation starts out kept: its agent was visited just now and no other
\* supervisor is up.
LEMMA NewKept ==
    ASSUME Known, OneAtATime, HandsTidy, [Next]_vars,
           NEW w \in Workers, Claim(w),
           NEW t \in Todos, NEW r \in Runs, ClaimTodo(sup[w].at, t, r)
    PROVE  /\ run'[r].status = "running" /\ run'[r].model = agent[sup[w].at].model
           /\ Kept(r)' /\ Untouched(r)'
           /\ \A q \in Runs : q # r => run'[q] = run[q]
  <1> DEFINE a == sup[w].at
  <1>1. SupInv /\ ExecInv /\ StoreTypeOK
    BY Parts DEF Known, ReachableInv
  <1>2. sup[w].pc = "claim" /\ a \in Agents
    BY <1>1 DEF Claim, SupInv
  <1>3. /\ run'[r] = [status |-> "running", todo |-> t, agent |-> a,
                      model |-> agent[a].model]
        /\ \A q \in Runs : q # r => run'[q] = run[q]
    BY <1>1 DEF ClaimTodo, StoreTypeOK
  <1>4. Kept(r)'
    <2>1. agent[a].life = "live" /\ agent[a].enabled
      BY DEF ClaimTodo, MayClaim, Supervised
    <2> DEFINE row == [agent[a] EXCEPT !.status = "busy", !.cur = t]
    <2>2. agent' = [agent EXCEPT ![a] = row]
      BY DEF ClaimTodo
    <2>3. /\ row.status = "busy" /\ row.cur = t
          /\ row.life = agent[a].life /\ row.enabled = agent[a].enabled
          /\ row.model = agent[a].model
      BY <1>1, <1>2 DEF StoreTypeOK, AgentRow
    <2> HIDE DEF row
    <2>4. agent'[a] = row
      BY <1>1, <1>2, <2>2 DEF StoreTypeOK
    <2>5. /\ run'[r].todo = t /\ run'[r].agent = a
          /\ run'[r].model = agent[a].model
      BY <1>3
    <2> HIDE DEF a
    <2>6. QED
      BY <2>1, <2>3, <2>4, <2>5 DEF Kept, Holds, Supervised
  <1>5. ASSUME NEW v \in Workers
        PROVE  a \notin Pending(v)'
    <2>1. CASE v = w
      <3>1. sup[w].look[a] = "seen" /\ sup'[w].look = sup[w].look
        BY <1>1, <1>2, SupFields DEF HandsTidy, Same
      <3>2. QED
        BY <2>1, <3>1 DEF Pending
    <2>2. CASE v # w
      <3>1. sup[v].pc = "down"
        BY <1>2, <2>2 DEF OneAtATime
      <3>2. sup'[v] = sup[v]
        BY <1>1, <2>2, SupOthers DEF LifeStep, TickStep
      <3>3. QED
        BY <3>1, <3>2 DEF Pending
    <2>3. QED
      BY <2>1, <2>2
  <1>6. QED
    BY <1>3, <1>4, <1>5 DEF Untouched

LEMMA ClaimsKeptStep ==
    ASSUME Known, OneAtATime, HandsTidy, ClaimsKept, [Next]_vars
    PROVE  ClaimsKept'
  <1>1. SupInv /\ ExecInv
    BY Parts DEF Known, ReachableInv
  <1>2. \A w \in Workers : sup[w].claims \subseteq Runs /\ sup[w].left \subseteq Runs
    BY <1>1 DEF SupInv, SupRow
  <1>3. \A w \in Workers : \A q \in sup[w].left : Running(q) => Kept(q)
    BY DEF HandsTidy, ClaimsKept
  <1>4. ASSUME NEW w \in Workers, NEW r \in sup[w].claims, Running(r)'
        PROVE  Kept(r)' /\ Untouched(r)'
    <2>1. r \in Runs /\ run[r].status # "unused"
      BY <1>2, <1>4 DEF HandsTidy
    <2>2. Running(r) /\ Kept(r) /\ Untouched(r)
      BY <1>4, <2>1, RunBefore DEF ClaimsKept
    <2>3. Kept(r)' /\ run'[r].agent = run[r].agent
      BY <1>3, <1>4, <2>1, <2>2, KeptStep
    <2>4. \A v \in Workers : sup[v].pc = "list" => v = w
      BY <1>4 DEF HandsTidy, OneAtATime
    <2>5. QED
      BY <1>4, <2>1, <2>2, <2>3, <2>4, UntouchedStep
  <1>5. ASSUME NEW w \in Workers, NEW r \in sup'[w].claims, Running(r)',
               r \notin sup[w].claims
        PROVE  Kept(r)' /\ Untouched(r)'
    <2>1. Claim(w)
      BY <1>1, <1>5, ClaimsGrow
    <2>2. PICK t \in Todos, q \in Runs :
             /\ ClaimTodo(sup[w].at, t, q)
             /\ sup'[w].claims = sup[w].claims \cup {q}
      BY <1>1, <2>1, ClaimEffect
    <2>3. Kept(q)' /\ Untouched(q)'
      BY <2>1, <2>2, NewKept
    <2>4. q = r
      BY <1>5, <2>2
    <2>5. QED
      BY <2>3, <2>4
  <1>6. ASSUME NEW w \in Workers, NEW r \in sup'[w].claims
        PROVE  Running(r)' => Kept(r)' /\ Untouched(r)'
    BY <1>4, <1>5, <1>6
  <1>7. QED
    BY <1>6 DEF ClaimsKept

\* A sweep spares what the supervisor executes.
LEMMA SweepSpares ==
    ASSUME Known, OneAtATime, HandsTidy, ClaimsKept, Spared,
           NEW v \in Workers, Sweep(v),
           NEW w \in Workers, NEW r \in sup[w].claims, Running(r)
    PROVE  run'[r] = run[r]
  <1>1. SupInv
    BY Parts DEF Known, ReachableInv
  <1>2. sup[v].pc = "beat" /\ sup[v].left = {}
    BY DEF Sweep
  <1>3. v = w
    BY <1>2 DEF HandsTidy, OneAtATime
  <1>4. r \in Runs
    BY <1>1 DEF SupInv, SupRow
  <1>5. run[r].agent \notin sup[v].stale
    BY <1>2, <1>3 DEF Spared
  <1> DEFINE S == {b \in sup[v].stale : ~fresh[b]
                                        /\ agent[b].status # "offline"}
  <1>6. SweepStale(S)
    BY DEF Sweep
  <1>7. S \subseteq Agents /\ run[r].agent \notin S
    BY <1>1, <1>5 DEF SupInv, SupRow
  <1>8. run[r].todo \notin SweptTodos(S)
    <2>1. ASSUME NEW b \in S, agent[b].cur = run[r].todo
          PROVE  FALSE
      <3>1. /\ agent[run[r].agent].cur = run[r].todo
            /\ run[r].agent \in Agents /\ run[r].todo \in Todos
        BY <1>4, RunningIds DEF ClaimsKept, Kept, Holds
      <3>2. agent[run[r].agent].cur # None
        BY <3>1, NoneIsNoId
      <3>3. run[r].agent = b
        BY <1>7, <2>1, <3>1, <3>2, PointsApart DEF Known
      <3>4. QED
        BY <1>7, <2>1, <3>3
    <2> HIDE DEF S
    <2>2. QED
      BY <2>1 DEF SweptTodos
  <1> HIDE DEF S
  <1>9. QED
    BY <1>4, <1>6, <1>8 DEF SweepStale

\* A future whose row and whose place among the claims stay is tracked.
LEMMA TrackedKeep ==
    ASSUME NEW r \in Runs, Tracked(r), run'[r] = run[r],
           exec'[r].worker = exec[r].worker, exec'[r].model = exec[r].model,
           r \in sup'[exec[r].worker].claims
    PROVE  Tracked(r)'
  BY DEF Tracked, Running

LEMMA TrackedTick ==
    ASSUME Known, OneAtATime, Backed, [Next]_vars,
           NEW w \in Workers, TickStep(w), NEW r \in Runs, Live(r)'
    PROVE  Tracked(r)'
  <1>1. SupInv /\ ExecInv /\ StoreTypeOK
    BY Parts DEF Known, ReachableInv
  <1>2. \A v \in Workers : v # w => sup'[v] = sup[v]
    BY <1>1, SupOthers DEF LifeStep
  <1>3. CASE Claim(w)
    <2>1. PICK t \in Todos, q \in Runs :
             /\ ClaimTodo(sup[w].at, t, q)
             /\ sup'[w].claims = sup[w].claims \cup {q}
             /\ exec'[q].worker = w /\ exec'[q].model = None
             /\ \A p \in Runs : p # q => exec'[p] = exec[p]
      BY <1>1, <1>3, ClaimEffect
    <2>2. run'[q].status = "running" /\ \A p \in Runs : p # q => run'[p] = run[p]
      BY <1>3, <2>1, NewKept DEF Backed
    <2>3. CASE r = q
      BY <2>1, <2>2, <2>3 DEF Tracked, Running
    <2>4. CASE r # q
      <3>1. exec'[r] = exec[r] /\ run'[r] = run[r]
        BY <2>1, <2>2, <2>4
      <3>2. Tracked(r)
        BY <3>1 DEF Backed, LiveTracked, Live
      <3>3. r \in sup'[exec[r].worker].claims
        BY <1>2, <2>1, <3>2 DEF Tracked
      <3>4. QED
        BY <3>1, <3>2, <3>3, TrackedKeep
    <2>5. QED
      BY <2>3, <2>4
  <1>4. CASE ~Claim(w)
    <2>1. exec' = exec
      BY <1>4
         DEF TickStep, TickBegin, Beat, Sweep, List, Visit, ClaimNothing,
             PassDone, ExecutorFull, TickEnd
    <2>2. Live(r) /\ Tracked(r)
      BY <2>1 DEF Backed, LiveTracked, Live
    <2>3. run'[r] = run[r]
      <3>1. CASE Sweep(w)
        BY <2>2, <3>1, SweepSpares DEF Backed, Tracked
      <3>2. CASE ~Sweep(w)
        BY <1>4, <3>2
           DEF TickStep, TickBegin, Beat, RunHeartbeat, List, Visit,
               AgentHeartbeat, ClaimNothing, PassDone, ExecutorFull, TickEnd,
               storeVars
      <3>3. QED
        BY <3>1, <3>2
    <2>4. exec[r].worker = w => r \in sup'[w].claims
      <3>1. CASE TickBegin(w)
        <4>1. sup'[w].claims = {p \in sup[w].claims : exec[p].pc # "exited"}
          BY <1>1, <3>1, SupFields
        <4>2. exec[r].pc # "exited"
          BY <2>2 DEF Live, ActivePC
        <4>3. QED
          BY <2>2, <4>1, <4>2 DEF Tracked
      <3>2. CASE ~TickBegin(w)
        <4>1. sup'[w].claims = sup[w].claims
          BY <1>1, <1>4, <3>2, SupFields DEF TickStep, Same
        <4>2. QED
          BY <2>2, <4>1 DEF Tracked
      <3>3. QED
        BY <3>1, <3>2
    <2>5. r \in sup'[exec[r].worker].claims
      BY <1>2, <2>2, <2>4 DEF Tracked
    <2>6. QED
      BY <2>1, <2>2, <2>3, <2>5, TrackedKeep
  <1>5. QED
    BY <1>3, <1>4

LEMMA TrackedClose ==
    ASSUME Known, Backed, NEW w \in Workers, CloseStep(w),
           NEW r \in Runs, Live(r)'
    PROVE  Tracked(r)'
  <1>1. SupInv /\ ExecInv /\ StoreTypeOK
    BY Parts DEF Known, ReachableInv
  <1>2. ASSUME NEW q \in Runs, CloseStop(w, q)
        PROVE  Tracked(r)'
    BY <1>2, TrackedKeep
       DEF CloseStop, RequestStop, Backed, LiveTracked, Live, Tracked
  <1>3. ASSUME NEW q \in Runs, CloseCancel(w, q)
        PROVE  Tracked(r)'
    <2>1. CASE exec[q].pc # "submitted"
      <3>1. exec' = exec /\ run' = run
        BY <1>3, <2>1 DEF CloseCancel, storeVars
      <3>2. sup'[w].claims = sup[w].claims
            /\ \A v \in Workers : v # w => sup'[v] = sup[v]
        BY <1>1, <1>3, SupFields, SupOthers DEF LifeStep, CloseStep, Same
      <3>3. Tracked(r)
        BY <3>1 DEF Backed, LiveTracked, Live
      <3>4. r \in sup'[exec[r].worker].claims
        BY <3>2, <3>3 DEF Tracked
      <3>5. QED
        BY <3>1, <3>3, <3>4, TrackedKeep
    <2>2. CASE exec[q].pc = "submitted"
      <3>1. exec' = [exec EXCEPT ![q].pc = "exited"]
        BY <1>3, <2>2 DEF CloseCancel, Goes
      <3>2. r # q
        BY <1>1, <3>1 DEF Live, ActivePC, ExecInv, ExecRow
      <3>3. exec'[r] = exec[r]
        BY <1>1, <3>1, <3>2 DEF ExecInv
      <3>4. run'[r] = run[r]
        BY <1>1, <1>3, <2>2, <3>2
           DEF CloseCancel, RequeueCancelled, StoreTypeOK, storeVars
      <3>5. sup'[w].claims = sup[w].claims
            /\ \A v \in Workers : v # w => sup'[v] = sup[v]
        BY <1>1, <1>3, SupFields, SupOthers DEF LifeStep, CloseStep, Same
      <3>6. Tracked(r)
        BY <3>3 DEF Backed, LiveTracked, Live
      <3>7. r \in sup'[exec[r].worker].claims
        BY <3>5, <3>6 DEF Tracked
      <3>8. QED
        BY <3>3, <3>4, <3>6, <3>7, TrackedKeep
    <2>3. QED
      BY <2>1, <2>2
  <1>4. CASE CloseEnd(w)
    <2>1. exec' = exec /\ run' = run /\ Live(r)
      BY <1>4 DEF CloseEnd, storeVars, Live
    <2>2. Tracked(r)
      BY <2>1 DEF Backed, LiveTracked
    <2>3. exec[r].worker # w
      BY <1>4, <2>1, <2>2 DEF CloseEnd, Tracked
    <2>4. sup'[exec[r].worker] = sup[exec[r].worker]
      BY <1>1, <1>4, <2>2, <2>3, SupOthers DEF LifeStep, CloseStep, Tracked
    <2>5. QED
      BY <2>1, <2>2, <2>4, TrackedKeep DEF Tracked
  <1>5. QED
    BY <1>2, <1>3, <1>4 DEF CloseStep

LEMMA TrackedExec ==
    ASSUME Known, Backed, NEW q \in Runs, ExecStep(q), NEW r \in Runs, Live(r)'
    PROVE  Tracked(r)'
  <1>1. ExecInv /\ StoreTypeOK
    BY Parts DEF Known, ReachableInv
  <1>2. /\ Live(q) /\ sup' = sup /\ Moves(q)
        /\ Leaves(q) \/ (Ends(q) /\ ~Live(q)')
    BY <1>1, ExecEffect
  <1>3. Live(r) /\ Tracked(r)
    BY <1>2 DEF Moves, Live, Backed, LiveTracked
  <1>4. run'[r] = run[r]
    <2>1. CASE Leaves(q)
      BY <2>1 DEF Leaves
    <2>2. CASE Ends(q) /\ ~Live(q)'
      <3>1. r # q
        BY <2>2
      <3>2. QED
        BY <1>1, <2>2, <3>1
           DEF Ends, RequeueCancelled, FinishTodo, StoreTypeOK
    <2>3. QED
      BY <1>2, <2>1, <2>2
  <1>5. exec'[r].worker = exec[r].worker
    BY <1>2 DEF Moves
  <1>6. exec'[r].model \in {exec[r].model, run[r].model}
    <2>1. agent[run[r].agent].model = run[r].model
      BY <1>3 DEF Tracked, Backed, ClaimsKept, Kept
    <2>2. QED
      BY <1>2, <2>1 DEF Moves
  <1>7. QED
    BY <1>2, <1>3, <1>4, <1>5, <1>6 DEF Tracked, Running

LEMMA TrackedFault ==
    ASSUME Known, Backed, FaultStep, NEW r \in Runs, Live(r)'
    PROVE  Tracked(r)'
  <1>1. SupInv /\ ExecInv
    BY Parts DEF Known, ReachableInv
  <1>2. run' = run
    BY DEF FaultStep, CloseBegin, Crash, Boot, Stall, StoreError, Elapse,
           storeVars
  <1>3. ASSUME NEW w \in Workers, CloseBegin(w) \/ Boot(w) \/ Stall(w)
        PROVE  Tracked(r)'
    <2>1. exec' = exec
      BY <1>3 DEF CloseBegin, Boot, Stall
    <2>2. Tracked(r)
      BY <2>1 DEF Backed, LiveTracked, Live
    <2>3. /\ sup'[w].claims = sup[w].claims
          /\ \A v \in Workers : v # w => sup'[v] = sup[v]
      BY <1>1, <1>3, SupFields, SupOthers DEF LifeStep, Same
    <2>4. r \in sup'[exec[r].worker].claims
      BY <2>2, <2>3 DEF Tracked
    <2>5. QED
      BY <1>2, <2>1, <2>2, <2>4, TrackedKeep
  <1>4. ASSUME NEW w \in Workers, Crash(w)
        PROVE  Tracked(r)'
    <2>1. exec'[r] = IF exec[r].worker = w /\ Live(r)
                     THEN [exec[r] EXCEPT !.pc = "lost"] ELSE exec[r]
      BY <1>4 DEF Crash
    <2>2. exec[r] \in ExecRow
      BY <1>1 DEF ExecInv
    <2>3. [exec[r] EXCEPT !.pc = "lost"].pc = "lost"
      BY <2>2 DEF ExecRow
    <2>4. ~(exec[r].worker = w /\ Live(r))
      BY <2>1, <2>3 DEF Live, ActivePC
    <2>5. exec'[r] = exec[r] /\ Live(r)
      BY <2>1, <2>4 DEF Live
    <2>6. Tracked(r)
      BY <2>5 DEF Backed, LiveTracked
    <2>7. sup'[exec[r].worker] = sup[exec[r].worker]
      BY <1>1, <1>4, <2>4, <2>5, <2>6, SupOthers DEF LifeStep, Tracked
    <2>8. QED
      BY <1>2, <2>5, <2>6, <2>7, TrackedKeep DEF Tracked
  <1>5. ASSUME NEW q \in Runs, StoreError(q)
        PROVE  Tracked(r)'
    <2>1. /\ sup' = sup /\ Live(q)
          /\ \E pc : exec' = [exec EXCEPT ![q].pc = pc]
      BY <1>5 DEF StoreError, Goes
    <2>2. exec'[r].worker = exec[r].worker /\ exec'[r].model = exec[r].model
          /\ (r # q => exec'[r] = exec[r])
      BY <1>1, <2>1 DEF ExecInv, ExecRow
    <2>3. Live(r)
      BY <2>1, <2>2 DEF Live
    <2>4. QED
      BY <1>2, <2>1, <2>2, <2>3, TrackedKeep DEF Backed, LiveTracked, Tracked
  <1>6. ASSUME UNCHANGED <<sup, exec>>
        PROVE  Tracked(r)'
    BY <1>2, <1>6, TrackedKeep DEF Backed, LiveTracked, Live, Tracked
  <1>7. QED
    BY <1>3, <1>4, <1>5, <1>6 DEF FaultStep

LEMMA TrackedStep ==
    ASSUME Known, OneAtATime, Backed, [Next]_vars
    PROVE  LiveTracked'
  <1> SUFFICES ASSUME NEW r \in Runs, Live(r)'
               PROVE  Tracked(r)'
    BY DEF LiveTracked
  <1>1. CASE ClientStep \/ UNCHANGED vars
    <2>1. sup' = sup /\ exec' = exec
      BY <1>1 DEF ClientStep, vars
    <2>2. run' = run
      BY <1>1, ConfigFrame
         DEF ClientStep, TodoStep, CreateTodo, SetPriority, DeleteTodo,
             ContinueTodo, RequestStop, vars, storeVars
    <2>3. QED
      BY <2>1, <2>2, TrackedKeep DEF Backed, LiveTracked, Live, Tracked
  <1>2. QED
    BY <1>1, TrackedTick, TrackedClose, TrackedExec, TrackedFault
       DEF Next, WorkerStep

LEMMA SparedStep ==
    ASSUME Known, Backed, [Next]_vars
    PROVE  Spared'
  <1>1. SupInv /\ ExecInv
    BY Parts DEF Known, ReachableInv
  <1> SUFFICES ASSUME NEW w \in Workers, sup'[w].pc = "beat",
                      NEW r \in sup'[w].claims, Running(r)'
               PROVE  r \in sup'[w].left \/ run'[r].agent \notin sup'[w].stale
    BY DEF Spared
  <1>2. CASE TickBegin(w)
    BY <1>1, <1>2, SupFields
  <1>3. ASSUME sup'[w].claims = sup[w].claims
        PROVE  /\ r \in sup[w].claims /\ r \in Runs /\ Running(r)
               /\ run'[r].agent = run[r].agent
    <2>1. r \in sup[w].claims /\ r \in Runs
      BY <1>1, <1>3 DEF SupInv, SupRow
    <2>2. run[r].status # "unused"
      BY <2>1 DEF Backed, HandsTidy
    <2>3. QED
      BY <2>1, <2>2, RunBefore
  <1>4. CASE /\ sup'[w].pc = sup[w].pc /\ sup'[w].claims = sup[w].claims
             /\ sup'[w].left = sup[w].left /\ sup'[w].stale = sup[w].stale
    BY <1>3, <1>4 DEF Backed, Spared
  <1>5. ASSUME NEW q \in Runs, Beat(w, q)
        PROVE  r \in sup'[w].left \/ run'[r].agent \notin sup'[w].stale
    <2>1. /\ sup'[w].pc = sup[w].pc /\ sup'[w].claims = sup[w].claims
          /\ sup'[w].left = sup[w].left \ {q}
          /\ sup'[w].stale = IF Owns(q) /\ Supervised(run[q].agent)
                             THEN sup[w].stale \ {run[q].agent}
                             ELSE sup[w].stale
      BY <1>1, <1>5, SupFields DEF Same
    <2>2. /\ r \in sup[w].claims /\ r \in Runs /\ Running(r)
          /\ run'[r].agent = run[r].agent
      BY <1>3, <2>1
    <2>3. r \in sup[w].left \/ run[r].agent \notin sup[w].stale
      BY <2>1, <2>2 DEF Backed, Spared
    <2>4. r = q => Owns(q) /\ Supervised(run[q].agent)
      BY <2>2, RunningIds DEF Backed, ClaimsKept, Kept
    <2>5. QED
      BY <2>1, <2>2, <2>3, <2>4
  <1>6. CASE TickStep(w)
    <2>1. CASE \/ Sweep(w) \/ List(w) \/ Claim(w) \/ ClaimNothing(w)
               \/ PassDone(w) \/ ExecutorFull(w) \/ TickEnd(w)
               \/ \E a \in Agents : Visit(w, a)
      <3>1. sup'[w].pc # "beat"
        BY <1>1, <2>1, SupFields
      <3>2. QED
        BY <3>1
    <2>2. QED
      BY <1>2, <1>5, <1>6, <2>1 DEF TickStep
  <1>7. CASE CloseStep(w) \/ CloseBegin(w) \/ Crash(w) \/ Boot(w)
    <2>1. sup' = sup \/ sup'[w].pc # "beat"
      BY <1>1, <1>7, SupFields DEF CloseStep, CloseStop
    <2>2. QED
      BY <2>1, <1>4
  <1>8. CASE Stall(w)
    BY <1>1, <1>4, <1>8, SupFields DEF Same
  <1>9. QED
    BY <1>1, <1>4, <1>6, <1>7, <1>8, SupMoves, SupOthers DEF LifeStep

LEMMA BackedStep ==
    ASSUME Known, OneAtATime, Backed, [Next]_vars
    PROVE  Backed'
  BY TidyStep, TrackedStep, ClaimsKeptStep, SparedStep DEF Backed

LEMMA BackedInit == Init => Backed
  <1> SUFFICES ASSUME Init
               PROVE  Backed
    OBVIOUS
  <1>1. \A w \in Workers : sup[w] = Down(0)
    BY DEF Init, RuntimeInit
  <1>2. Down(0).pc = "down" /\ Down(0).claims = {} /\ Down(0).left = {}
    BY DEF Down
  <1>3. \A r \in Runs : ~Live(r)
    BY DEF Init, RuntimeInit, NoExec, Live, ActivePC
  <1>4. QED
    BY <1>1, <1>2, <1>3 DEF Backed, HandsTidy, LiveTracked, ClaimsKept, Spared

LEMMA BackedAlways == Spec /\ []OneAtATime => []Backed
  <1>1. Known /\ OneAtATime /\ Backed /\ [Next]_vars => Backed'
    BY BackedStep
  <1>2. QED
    BY <1>1, BackedInit, KnownAlways, PTL DEF Spec

\* As long as supervisors do not overlap, a future that may still persist
\* output works for the generation that holds its todo, on an enabled agent
\* that is busy with that todo, and calls the model the ledger names: through
\* every interleaving with requests, stops, sweeps, stalls, crashes, shutdowns
\* and store errors.
THEOREM ExecutionsBacked == Spec /\ []OneAtATime => []ExecutionBacked
  <1>1. Known /\ Backed => ExecutionBacked
    BY RunningIds
       DEF Backed, LiveTracked, Tracked, ClaimsKept, Kept, ExecutionBacked
  <1>2. QED
    BY <1>1, KnownAlways, BackedAlways, PTL

\* The deployment with a single worker process needs no hypothesis.
COROLLARY SoleWorkerBacked ==
    ASSUME \A v, w \in Workers : v = w
    PROVE  Spec => []ExecutionBacked
  <1>1. OneAtATime
    BY DEF OneAtATime
  <1>2. []OneAtATime
    BY <1>1, PTL
  <1>3. QED
    BY <1>2, ExecutionsBacked, PTL

-----------------------------------------------------------------------------
(* Orphans.                                                                *)

\* No model of an enabled agent is paused, disabled or missing.
ModelsReady == \A a \in Agents : Supervised(a) => Ready(agent[a].model)

\* Whatever runs is kept, whether its future is still alive or not.
AllKept == \A r \in Runs : Running(r) => Kept(r) /\ Untouched(r)

\* A generation begins with a claim.
LEMMA RunningBegins ==
    ASSUME Known, [Next]_vars, NEW r \in Runs, Running(r)', ~Running(r)
    PROVE  \E w \in Workers, t \in Todos :
              Claim(w) /\ ClaimTodo(sup[w].at, t, r)
  <1>1. /\ run[r].status = "unused" /\ run'[r] # run[r]
    BY RunBefore DEF Running
  <1>2. StoreTypeOK /\ ExecInv
    BY Parts DEF Known, ReachableInv
  <1>3. ASSUME NEW q \in Runs, Ends(q)
        PROVE  FALSE
    <2>1. Running(q)
      BY <1>3
         DEF Ends, RequeueCancelled, FinishTodo, MayProceed, Known,
             ReachableInv, LedgerMatches, Running
    <2>2. q # r
      BY <2>1
    <2>3. run'[r] = run[r]
      BY <1>2, <1>3, <2>2 DEF Ends, RequeueCancelled, FinishTodo, StoreTypeOK
    <2>4. QED
      BY <1>1, <2>3
  <1>4. ASSUME NEW w \in Workers, NEW t \in Todos, NEW q \in Runs, Claim(w),
               ClaimTodo(sup[w].at, t, q)
        PROVE  q = r
    BY <1>1, <1>2, <1>4 DEF ClaimTodo, StoreTypeOK
  <1>5. ASSUME NEW w \in Workers, TickStep(w)
        PROVE  Claim(w)
    <2>1. CASE Sweep(w)
      BY <1>1, <2>1 DEF Sweep, SweepStale, Running
    <2>2. CASE run' = run
      BY <1>1, <2>2
    <2>3. QED
      BY <1>5, <2>1, <2>2
         DEF TickStep, TickBegin, Beat, RunHeartbeat, List, Visit,
             AgentHeartbeat, ClaimNothing, PassDone, ExecutorFull, TickEnd,
             storeVars
  <1>6. ASSUME NEW q \in Runs, ExecStep(q)
        PROVE  FALSE
    BY <1>1, <1>2, <1>3, <1>6, ExecEffect DEF Leaves
  <1>7. ASSUME NEW w \in Workers, CloseStep(w)
        PROVE  FALSE
    BY <1>1, <1>3, <1>7
       DEF CloseStep, CloseStop, CloseCancel, CloseEnd, RequestStop, Ends,
           storeVars
  <1>8. CASE ClientStep
    BY <1>1, <1>8, ConfigFrame
       DEF ClientStep, TodoStep, CreateTodo, SetPriority, DeleteTodo,
           ContinueTodo, RequestStop
  <1>9. CASE FaultStep
    BY <1>1, <1>9
       DEF FaultStep, CloseBegin, Crash, Boot, Stall, StoreError, Elapse,
           storeVars
  <1>10. PICK w \in Workers : Claim(w)
    BY <1>1, <1>5, <1>6, <1>7, <1>8, <1>9
       DEF Next, WorkerStep, vars, storeVars
  <1>11. PICK t \in Todos, q \in Runs : ClaimTodo(sup[w].at, t, q)
    BY <1>10 DEF Claim
  <1>12. QED
    BY <1>4, <1>10, <1>11

LEMMA AllKeptStep ==
    ASSUME Known, OneAtATime, ModelsReady, HandsTidy, AllKept, [Next]_vars
    PROVE  AllKept'
  <1> SUFFICES ASSUME NEW r \in Runs, Running(r)'
               PROVE  Kept(r)' /\ Untouched(r)'
    BY DEF AllKept
  <1>1. CASE Running(r)
    <2>1. Kept(r) /\ Untouched(r)
      BY <1>1 DEF AllKept
    <2>2. \A w \in Workers : \A q \in sup[w].left : Running(q) => Kept(q)
      BY Parts DEF AllKept, Known, ReachableInv, SupInv, SupRow
    <2>3. Kept(r)' /\ run'[r].agent = run[r].agent
      BY <1>1, <2>1, <2>2, KeptStep
    <2>4. Ready(run[r].model)
      BY <1>1, <2>1, RunningIds DEF Kept, ModelsReady
    <2>5. QED
      BY <1>1, <2>1, <2>3, <2>4, UntouchedStep
  <1>2. CASE ~Running(r)
    BY <1>2, RunningBegins, NewKept
  <1>3. QED
    BY <1>1, <1>2

LEMMA AllKeptInit == Init => AllKept
  BY DEF Init, StoreInit, NoRun, AllKept, Running

\* While no model of an enabled agent is paused, disabled or missing (the run
\* runtime_orphan_paused shows what happens otherwise), a generation whose
\* future died with its process or with a store error remains the current todo
\* of an agent that is not offline, so the sweep can find it.
THEOREM OrphansReachable ==
    Spec /\ []OneAtATime /\ []ModelsReady => []OrphanReachable
  <1>1. Known /\ OneAtATime /\ ModelsReady /\ Backed /\ AllKept /\ [Next]_vars
        => AllKept'
    BY AllKeptStep DEF Backed
  <1>2. AllKept => OrphanReachable
    BY DEF AllKept, OrphanReachable, Running, Kept, Holds
  <1>3. QED
    BY <1>1, <1>2, AllKeptInit, KnownAlways, BackedAlways, PTL DEF Spec

-----------------------------------------------------------------------------
(* Capacity.                                                               *)

\* Executions of one model work on different todos, each of which takes a
\* place of that model.
LEMMA ExecutingBounded ==
    ASSUME Known, Backed, NEW m
    PROVE  /\ IsFiniteSet(Executing(m)) /\ IsFiniteSet(RunningOn(m))
           /\ Cardinality(Executing(m)) <= Cardinality(RunningOn(m))
  <1>1. IsFiniteSet(RunningOn(m))
    <2>1. IsFiniteSet(Todos)
      BY BoundsAssumption, FS_Interval DEF Todos
    <2>2. RunningOn(m) \in SUBSET Todos
      BY DEF RunningOn
    <2>3. QED
      BY <2>1, <2>2, FS_Subset
  <1> DEFINE f == [r \in Executing(m) |-> run[r].todo]
  <1>2. ASSUME NEW r \in Executing(m)
        PROVE  r \in Runs /\ run[r].todo \in RunningOn(m)
               /\ todo[run[r].todo].token = r
    <2>1. r \in Runs /\ Live(r) /\ run[r].model = m
      BY <1>2 DEF Executing
    <2>2. Running(r) /\ Kept(r)
      BY <2>1 DEF Backed, LiveTracked, Tracked, ClaimsKept
    <2>3. /\ run[r].todo \in Todos /\ Owns(r) /\ run[r].agent \in Agents
          /\ todo[run[r].todo].token = r
      BY <2>1, <2>2, RunningIds
    <2>4. run[r].agent # None
      BY <2>3, NoneIsNoId
    <2>5. QED
      BY <2>1, <2>2, <2>3, <2>4 DEF RunningOn, Owns, Kept
  <1>3. f \in Injection(Executing(m), RunningOn(m))
    <2>1. f \in [Executing(m) -> RunningOn(m)]
      BY <1>2
    <2>2. \A r, q \in Executing(m) : f[r] = f[q] => r = q
      BY <1>2
    <2>3. QED
      BY <2>1, <2>2 DEF Injection, IsInjective
  <1>4. QED
    BY <1>1, <1>3, FS_Injection

\* Only a claim puts one more generation to work.
LEMMA LiveBefore ==
    ASSUME Known, [Next]_vars, NEW r \in Runs, Live(r)', ~Live(r)
    PROVE  \E w \in Workers, t \in Todos :
              /\ Claim(w) /\ ClaimTodo(sup[w].at, t, r)
              /\ \A q \in Runs : q # r => exec'[q] = exec[q]
  <1>1. SupInv /\ ExecInv
    BY Parts DEF Known, ReachableInv
  <1>2. exec'[r] # exec[r]
    BY DEF Live
  <1>3. ASSUME NEW q \in Runs, Live(q), NEW pc, Goes(q, pc)
        PROVE  FALSE
    <2>1. r # q
      BY <1>3
    <2>2. QED
      BY <1>1, <1>2, <1>3, <2>1 DEF Goes, ExecInv
  <1>4. ASSUME NEW q \in Runs, ExecStep(q)
        PROVE  FALSE
    <2>1. Live(q) /\ Moves(q)
      BY <1>1, <1>4, ExecEffect
    <2>2. QED
      BY <1>2, <2>1 DEF Moves
  <1>5. ASSUME NEW w \in Workers, CloseStep(w)
        PROVE  FALSE
    BY <1>2, <1>3, <1>5
       DEF CloseStep, CloseStop, CloseCancel, CloseEnd, Live, ActivePC
  <1>6. CASE FaultStep
    <2>1. ASSUME NEW w \in Workers, Crash(w)
          PROVE  FALSE
      <3>1. exec'[r] = exec[r]
        BY <2>1 DEF Crash
      <3>2. QED
        BY <1>2, <3>1
    <2>2. QED
      BY <1>2, <1>3, <1>6, <2>1
         DEF FaultStep, CloseBegin, Boot, Stall, StoreError
  <1>7. ASSUME NEW w \in Workers, TickStep(w)
        PROVE  Claim(w)
    BY <1>2, <1>7
       DEF TickStep, TickBegin, Beat, Sweep, List, Visit, ClaimNothing,
           PassDone, ExecutorFull, TickEnd
  <1>8. PICK w \in Workers : Claim(w)
    BY <1>2, <1>4, <1>5, <1>6, <1>7 DEF Next, WorkerStep, ClientStep, vars
  <1>9. PICK t \in Todos, q \in Runs :
           /\ ClaimTodo(sup[w].at, t, q)
           /\ \A p \in Runs : p # q => exec'[p] = exec[p]
    BY <1>1, <1>8, ClaimEffect
  <1>10. q = r
    BY <1>2, <1>9
  <1>11. QED
    BY <1>8, <1>9, <1>10

\* The action of ModelNotOversubscribed.
CapacityStep ==
    \A m \in Models :
        Cardinality(Executing(m)') > Cardinality(Executing(m))
        => Cardinality(Executing(m)') <= model'[m].cap

LEMMA CapacityKept ==
    ASSUME Known, OneAtATime, Backed, [Next]_vars
    PROVE  CapacityStep
  <1> SUFFICES ASSUME NEW m \in Models,
                      Cardinality(Executing(m)') > Cardinality(Executing(m))
               PROVE  Cardinality(Executing(m)') <= model'[m].cap
    BY DEF CapacityStep
  <1>1. /\ IsFiniteSet(Executing(m)) /\ IsFiniteSet(RunningOn(m))
        /\ Cardinality(Executing(m)) <= Cardinality(RunningOn(m))
        /\ Cardinality(Executing(m)) \in Nat /\ Cardinality(RunningOn(m)) \in Nat
    BY ExecutingBounded, FS_CardinalityType
  <1>2. ASSUME NEW r \in Executing(m)', Live(r)
        PROVE  r \in Executing(m)
    <2>1. r \in Runs /\ run'[r].model = m
      BY <1>2 DEF Executing
    <2>2. RowKept(r) /\ run[r].status = "running"
      BY <1>2, <2>1, StepIsClient, RowsKept, Parts
         DEF Known, ReachableInv, Backed, LiveTracked, Tracked, Running
    <2>3. run[r].model = m
      BY <2>1, <2>2 DEF RowKept
    <2>4. QED
      BY <1>2, <2>1, <2>3 DEF Executing
  <1>3. PICK r \in Executing(m)' : ~Live(r)
    <2>1. CASE Executing(m)' \subseteq Executing(m)
      <3>1. /\ Cardinality(Executing(m)') <= Cardinality(Executing(m))
            /\ Cardinality(Executing(m)') \in Nat
        BY <1>1, <2>1, FS_Subset, FS_CardinalityType
      <3>2. QED
        BY <1>1, <3>1
    <2>2. QED
      BY <1>2, <2>1
  <1>4. r \in Runs /\ Live(r)' /\ run'[r].model = m
    BY <1>3 DEF Executing
  <1>5. PICK w \in Workers, t \in Todos :
           /\ Claim(w) /\ ClaimTodo(sup[w].at, t, r)
           /\ \A q \in Runs : q # r => exec'[q] = exec[q]
    BY <1>3, <1>4, LiveBefore
  <1>6. agent[sup[w].at].model = m
    BY <1>4, <1>5, NewKept DEF Backed
  <1>7. /\ Cardinality(RunningOn(m)) < model[m].cap /\ model' = model
        /\ model[m].cap \in Nat
    BY <1>5, <1>6, CapacityAssumption
       DEF ClaimTodo, MayClaim, Known, ReachableInv, StoreTypeOK, ModelRow
  <1>8. Executing(m)' \subseteq Executing(m) \cup {r}
    <2>1. ASSUME NEW q \in Executing(m)', q # r
          PROVE  q \in Executing(m)
      <3>1. q \in Runs /\ Live(q)'
        BY <2>1 DEF Executing
      <3>2. Live(q)
        BY <1>5, <2>1, <3>1 DEF Live
      <3>3. QED
        BY <1>2, <2>1, <3>2
    <2>2. QED
      BY <2>1
  <1>9. /\ IsFiniteSet(Executing(m) \cup {r})
        /\ Cardinality(Executing(m) \cup {r}) <= Cardinality(Executing(m)) + 1
        /\ Cardinality(Executing(m) \cup {r}) \in Nat
    <2>1. /\ IsFiniteSet(Executing(m) \cup {r})
          /\ Cardinality(Executing(m) \cup {r}) =
                IF r \in Executing(m) THEN Cardinality(Executing(m))
                                      ELSE Cardinality(Executing(m)) + 1
      BY <1>1, FS_AddElement
    <2>2. QED
      BY <1>1, <2>1
  <1>10. /\ Cardinality(Executing(m)') <= Cardinality(Executing(m) \cup {r})
         /\ Cardinality(Executing(m)') \in Nat
    BY <1>8, <1>9, FS_Subset, FS_CardinalityType
  <1>11. QED
    BY <1>1, <1>7, <1>9, <1>10

\* As long as supervisors do not overlap, a step that puts one more generation
\* to work on a model leaves at most max_concurrency of them there: the todos
\* the claim counts are at least the executions, since each execution works
\* for a todo of its own whose agent is still bound to the model.
THEOREM ModelsNotOversubscribed ==
    Spec /\ []OneAtATime => ModelNotOversubscribed
  <1>1. Known /\ OneAtATime /\ Backed /\ [Next]_vars => [CapacityStep]_vars
    BY CapacityKept
  <1>2. [][CapacityStep]_vars => ModelNotOversubscribed
    BY PTL DEF ModelNotOversubscribed, CapacityStep
  <1>3. QED
    BY <1>1, <1>2, KnownAlways, BackedAlways, PTL DEF Spec

==============================================================================
