---------------------------- MODULE WorkerProofs ----------------------------
(***************************************************************************)
(* The background worker for any number of processes, tasks, events and    *)
(* subscribers: the claim of an event locks its entity and the outbox      *)
(* implements ordered delivery, whatever callbacks and marks fail and      *)
(* whatever processes die, a single worker executes nothing that the task  *)
(* table does not show, and a skip made in time holds.                     *)
(***************************************************************************)
EXTENDS Worker, WellFoundedInduction, TLAPS

\* The rows of the outbox and of what a dispatcher has in hand.
EventRow == [status : {"absent", "open", "delivered", "dead"}, entity : Entities \cup {0},
             claimed : BOOLEAN, retries : Nat, due : BOOLEAN]
DrainRow == [batch : Seq(Events), sub : Nat \ {0}, returned : BOOLEAN, failed : BOOLEAN]

OutboxTypes ==
    /\ event \in [Events -> EventRow]
    /\ processed \subseteq Subscribers \X Events
    /\ calls \in [Subscribers -> [Events -> Nat]]
    /\ drain \in [Dispatchers -> DrainRow]

EmittedInOrder == \A e, f \in Events :
    f < e /\ event[e].status # "absent" => event[f].status # "absent"

\* What is in hand is open, claimed and the first of its entity, and in hand once.
HeldFirst == \A w \in Dispatchers, e \in Events :
    e \in Held(w) => Open(e) /\ event[e].claimed /\ FirstOfEntity(e)
HeldOnce == \A v, w \in Dispatchers :
    \A i \in DOMAIN drain[v].batch, j \in DOMAIN drain[w].batch :
        drain[v].batch[i] = drain[w].batch[j] => v = w /\ i = j

\* What the calls say of the event in dispatch.
CalledEmitted == \A s \in Subscribers, e \in Events :
    calls[s][e] > 0 => event[e].status # "absent"
HandledCalled == \A s \in Subscribers, e \in Events :
    <<s, e>> \in processed => calls[s][e] > 0
\* An event counts as delivered only when every subscriber has handled it.
DeliveredToAll ==
    \A e \in Events : event[e].status = "delivered" =>
        \A s \in Subscribers : <<s, e>> \in processed /\ calls[s][e] > 0
DispatchTrue == \A w \in Dispatchers : drain[w].batch # <<>> =>
    /\ drain[w].returned /\ drain[w].sub \in Subscribers => calls[drain[w].sub][InHand(w)] > 0
    /\ ~drain[w].failed => \A s \in Subscribers : s < drain[w].sub => <<s, InHand(w)>> \in processed

OutboxInv ==
    /\ OutboxTypes
    /\ EmittedInOrder /\ HeldFirst /\ HeldOnce
    /\ CalledEmitted /\ HandledCalled /\ DispatchTrue
    /\ EntityOrder /\ DeliveredToAll

\* What the worker and its surroundings do to the outbox.
OutboxStep ==
    \/ \E e \in Events, x \in Entities : Emit(e, x)
    \/ \E w \in Dispatchers : ClaimEvents(w)
    \/ \E w \in Dispatchers : SkipHandled(w) \/ CallReturns(w) \/ CallRaises(w)
    \/ \E w \in Dispatchers : MarkProcessed(w) \/ MarkRaises(w) \/ Settle(w) \/ Forget(w)
    \/ \E e \in Events : RetryDue(e)
    \/ UNCHANGED outboxVars

\* The rows of the steps of a dispatcher.
LEMMA FreshRow ==
    ASSUME NEW b \in Seq(Events) PROVE [NoDrain EXCEPT !.batch = b] \in DrainRow
  <1>1. NoDrain \in DrainRow
    BY DEF NoDrain, DrainRow
  <1>2. ASSUME NEW row \in DrainRow PROVE [row EXCEPT !.batch = b] \in DrainRow
    BY <1>2 DEF DrainRow
  <1> QED
    BY <1>1, <1>2

LEMMA AdvancedRow ==
    ASSUME NEW row \in DrainRow, NEW f \in BOOLEAN
    PROVE  LET next == [row EXCEPT !.sub = row.sub + 1, !.returned = FALSE, !.failed = f]
           IN  /\ next \in DrainRow
               /\ next.batch = row.batch /\ next.sub = row.sub + 1
               /\ next.returned = FALSE /\ next.failed = f
  <1> DEFINE n == row.sub + 1
             next == [row EXCEPT !.sub = n, !.returned = FALSE, !.failed = f]
  <1>1. n \in Nat \ {0}
    BY DEF DrainRow
  <1> HIDE DEF n
  <1>2. next \in DrainRow
    BY <1>1 DEF DrainRow
  <1>3. next.batch = row.batch /\ next.sub = n /\ next.returned = FALSE /\ next.failed = f
    BY DEF DrainRow
  <1> QED
    BY <1>2, <1>3 DEF n

LEMMA OutboxInitInv == OutboxInit => OutboxInv
  <1> SUFFICES ASSUME OutboxInit PROVE OutboxInv
    OBVIOUS
  <1>1. OutboxTypes
    BY OutboxBounds DEF OutboxInit, OutboxTypes, EventRow, DrainRow, NoEvent, NoDrain
  <1>2. \A w \in Dispatchers : drain[w].batch = <<>>
    BY DEF OutboxInit, NoDrain
  <1>3. \A e \in Events : event[e].status = "absent"
    BY DEF OutboxInit, NoEvent
  <1>4. \A s \in Subscribers, e \in Events : calls[s][e] = 0
    BY DEF OutboxInit
  <1>5. processed = {}
    BY DEF OutboxInit
  <1> QED
    BY <1>1, <1>2, <1>3, <1>4, <1>5
       DEF OutboxInv, EmittedInOrder, HeldFirst, Held, HeldOnce, CalledEmitted, HandledCalled,
           DispatchTrue, EntityOrder, DeliveredToAll

\* The claim of every event in hand is the lock of its entity.
LEMMA HeldAlone == OutboxInv => OneInFlight
  <1> SUFFICES ASSUME OutboxInv,
                      NEW v \in Dispatchers, NEW w \in Dispatchers,
                      NEW i \in DOMAIN drain[v].batch, NEW j \in DOMAIN drain[w].batch,
                      event[drain[v].batch[i]].entity = event[drain[w].batch[j]].entity
               PROVE  v = w /\ drain[v].batch[i] = drain[w].batch[j]
    BY DEF OneInFlight, Held, OutboxInv, OutboxTypes, DrainRow
  <1> DEFINE e == drain[v].batch[i]
             f == drain[w].batch[j]
  <1>1. e \in Events /\ f \in Events
    BY DEF OutboxInv, OutboxTypes, DrainRow
  <1>2. Open(e) /\ Open(f) /\ FirstOfEntity(e) /\ FirstOfEntity(f)
    BY <1>1 DEF OutboxInv, OutboxTypes, DrainRow, HeldFirst, Held
  <1>3. e = f
    BY <1>1, <1>2 DEF FirstOfEntity, Events
  <1> QED
    BY <1>3 DEF OutboxInv, HeldOnce

-----------------------------------------------------------------------------
(* One lemma for the steps that leave what is in hand alone, and one for    *)
(* each of the others.                                                      *)

LEMMA EmitInv ==
    ASSUME OutboxInv, NEW e \in Events, NEW x \in Entities, Emit(e, x)
    PROVE  OutboxInv'
  <1>1. event' = [event EXCEPT ![e] = [NoEvent EXCEPT !.status = "open", !.entity = x]]
    BY DEF Emit
  <1>2. UNCHANGED <<processed, calls, drain>>
    BY DEF Emit
  <1>3. OutboxTypes'
    BY <1>1, <1>2 DEF OutboxInv, OutboxTypes, EventRow, NoEvent
  <1>4. event'[e].status = "open" /\ event[e].status = "absent"
    BY <1>1 DEF Emit, OutboxInv, OutboxTypes, NoEvent
  <1>5. \A f \in Events : f # e => event'[f] = event[f]
    BY <1>1 DEF OutboxInv, OutboxTypes
  <1>6. \A f \in Events : event[f].status # "absent" => f < e
    <2> SUFFICES ASSUME NEW f \in Events, event[f].status # "absent" PROVE f < e
      OBVIOUS
    <2>1. f # e /\ ~(e < f)
      BY <1>4 DEF OutboxInv, EmittedInOrder
    <2> QED BY <2>1 DEF Events
  <1>7. EmittedInOrder'
    <2> SUFFICES ASSUME NEW g \in Events, NEW f \in Events, f < g, event'[g].status # "absent"
                 PROVE  event'[f].status # "absent"
      BY DEF EmittedInOrder
    <2>1. CASE f = e
      BY <2>1, <1>4
    <2>2. CASE f # e /\ g = e
      BY <2>2, <1>5 DEF Emit
    <2>3. CASE f # e /\ g # e
      BY <2>3, <1>5 DEF OutboxInv, EmittedInOrder
    <2> QED BY <2>1, <2>2, <2>3
  <1>8. HeldFirst'
    <2> SUFFICES ASSUME NEW w \in Dispatchers, NEW f \in Events, f \in Held(w)
                 PROVE  Open(f)' /\ event'[f].claimed /\ FirstOfEntity(f)'
      BY <1>2 DEF HeldFirst, Held
    <2>2. Open(f) /\ event[f].claimed /\ FirstOfEntity(f)
      BY DEF OutboxInv, HeldFirst
    <2>3. f < e
      BY <1>6, <2>2 DEF Open
    <2>4. event'[f] = event[f]
      BY <1>5, <2>3 DEF Events
    <2>5. FirstOfEntity(f)'
      <3> SUFFICES ASSUME NEW g \in Events, event'[g].status = "open",
                          event'[g].entity = event'[f].entity
                   PROVE  g >= f
        BY DEF FirstOfEntity, Open
      <3>1. CASE g = e
        BY <3>1, <2>3 DEF Events
      <3>2. CASE g # e
        BY <3>2, <1>5, <2>2, <2>4 DEF FirstOfEntity, Open
      <3> QED BY <3>1, <3>2
    <2> QED
      BY <2>2, <2>4, <2>5 DEF Open
  <1>9. CalledEmitted'
    BY <1>2, <1>4, <1>5 DEF OutboxInv, CalledEmitted
  <1>10. EntityOrder'
    <2> SUFFICES ASSUME NEW s \in Subscribers, NEW f \in Events, NEW g \in Events,
                        f < g, event'[f].entity = event'[g].entity, calls[s][g] > 0
                 PROVE  event'[f].status # "open"
      BY <1>2 DEF EntityOrder, Open
    <2>1. g < e /\ f # e
      BY <1>6 DEF OutboxInv, CalledEmitted, Events
    <2> QED
      BY <2>1, <1>5 DEF OutboxInv, EntityOrder, Open, Events
  <1>11. HandledCalled' /\ HeldOnce' /\ DispatchTrue'
    BY <1>2 DEF OutboxInv, HandledCalled, HeldOnce, DispatchTrue, InHand
  <1>12. DeliveredToAll'
    BY <1>2, <1>4, <1>5 DEF OutboxInv, DeliveredToAll
  <1> QED
    BY <1>3, <1>7, <1>8, <1>9, <1>10, <1>11, <1>12 DEF OutboxInv

LEMMA RetryInv ==
    ASSUME OutboxInv, NEW e \in Events, RetryDue(e)
    PROVE  OutboxInv'
  <1>1. event' = [event EXCEPT ![e].due = TRUE] /\ UNCHANGED <<processed, calls, drain>>
    BY DEF RetryDue
  <1>2. OutboxTypes'
    BY <1>1 DEF OutboxInv, OutboxTypes, EventRow
  <1>3. \A f \in Events : /\ event'[f].status = event[f].status
                          /\ event'[f].entity = event[f].entity
                          /\ event'[f].claimed = event[f].claimed
    BY <1>1 DEF OutboxInv, OutboxTypes, EventRow
  <1>4. \A f \in Events : FirstOfEntity(f) => FirstOfEntity(f)'
    BY <1>3 DEF FirstOfEntity, Open
  <1>5. HeldFirst'
    BY <1>1, <1>3, <1>4 DEF OutboxInv, HeldFirst, Held, Open
  <1>6. EmittedInOrder' /\ CalledEmitted'
    BY <1>1, <1>3 DEF OutboxInv, EmittedInOrder, CalledEmitted
  <1>7. EntityOrder' /\ DeliveredToAll'
    BY <1>1, <1>3 DEF OutboxInv, EntityOrder, DeliveredToAll, Open
  <1>8. HandledCalled' /\ HeldOnce' /\ DispatchTrue'
    BY <1>1 DEF OutboxInv, HandledCalled, HeldOnce, DispatchTrue, InHand
  <1> QED
    BY <1>2, <1>5, <1>6, <1>7, <1>8 DEF OutboxInv

LEMMA ClaimInv ==
    ASSUME OutboxInv, NEW w \in Dispatchers, ClaimEvents(w)
    PROVE  OutboxInv'
  <1>1. PICK n \in 0 .. Batch : \E b \in [1 .. n -> Events] :
          /\ NextBatch(b)
          /\ drain' = [drain EXCEPT ![w] = [NoDrain EXCEPT !.batch = b]]
          /\ event' = [e \in Events |->
                         IF \E i \in 1 .. n : b[i] = e
                         THEN [event[e] EXCEPT !.claimed = TRUE] ELSE event[e]]
    BY DEF ClaimEvents
  <1>2. PICK b \in [1 .. n -> Events] :
          /\ NextBatch(b)
          /\ drain' = [drain EXCEPT ![w] = [NoDrain EXCEPT !.batch = b]]
          /\ event' = [e \in Events |->
                         IF \E i \in 1 .. n : b[i] = e
                         THEN [event[e] EXCEPT !.claimed = TRUE] ELSE event[e]]
    BY <1>1
  <1>3. UNCHANGED <<processed, calls>>
    BY DEF ClaimEvents
  <1>4. n \in Nat /\ b \in Seq(Events) /\ DOMAIN b = 1 .. n
    BY OutboxBounds
  <1>0. /\ event' = [e \in Events |-> event'[e]]
        /\ \A f \in Events : event'[f] = IF \E i \in 1 .. n : b[i] = f
                                         THEN [event[f] EXCEPT !.claimed = TRUE] ELSE event[f]
    BY <1>2
  <1>5. \A f \in Events : /\ event'[f] \in EventRow
                          /\ event'[f].status = event[f].status
                          /\ event'[f].entity = event[f].entity
                          /\ event[f].claimed => event'[f].claimed
                          /\ (\E i \in 1 .. n : b[i] = f) => event'[f].claimed
    <2> TAKE f \in Events
    <2>1. event[f] \in EventRow
      BY DEF OutboxInv, OutboxTypes
    <2>2. CASE \E i \in 1 .. n : b[i] = f
      <3>1. event'[f] = [event[f] EXCEPT !.claimed = TRUE]
        BY <2>2, <1>0
      <3> QED BY <2>1, <3>1 DEF EventRow
    <2>3. CASE ~\E i \in 1 .. n : b[i] = f
      <3>1. event'[f] = event[f]
        BY <2>3, <1>0
      <3> QED BY <2>1, <2>3, <3>1
    <2> QED BY <2>2, <2>3
  <1>6. event' \in [Events -> EventRow]
    BY <1>0, <1>5
  <1>7. /\ drain'[w].batch = b /\ drain'[w].sub = 1
        /\ drain'[w].returned = FALSE /\ drain'[w].failed = FALSE
    BY <1>2 DEF OutboxInv, OutboxTypes, NoDrain
  <1>8. \A v \in Dispatchers : v # w => drain'[v] = drain[v]
    BY <1>2 DEF OutboxInv, OutboxTypes
  <1>9. drain' \in [Dispatchers -> DrainRow]
    <2>1. [NoDrain EXCEPT !.batch = b] \in DrainRow
      BY <1>4, FreshRow
    <2> QED BY <1>2, <2>1 DEF OutboxInv, OutboxTypes
  <1>10. OutboxTypes'
    BY <1>3, <1>6, <1>9 DEF OutboxInv, OutboxTypes
  <1>11. \A f \in Events : FirstOfEntity(f) => FirstOfEntity(f)'
    BY <1>5 DEF FirstOfEntity, Open
  <1>12. \A i \in 1 .. n : Deliverable(b[i]) /\ b[i] \in Events
    BY <1>2, <1>4 DEF NextBatch
  <1>13. \A i, j \in 1 .. n : b[i] = b[j] => i = j
    <2> SUFFICES ASSUME NEW i \in 1 .. n, NEW j \in 1 .. n, i < j PROVE b[i] # b[j]
      BY <1>4
    <2>1. b[i] < b[j] /\ b[i] \in Events /\ b[j] \in Events
      BY <1>2, <1>4, <1>12 DEF NextBatch
    <2> QED BY <2>1 DEF Events
  <1>14. HeldFirst'
    <2> SUFFICES ASSUME NEW v \in Dispatchers, NEW f \in Events, f \in Held(v)'
                 PROVE  Open(f)' /\ event'[f].claimed /\ FirstOfEntity(f)'
      BY DEF HeldFirst
    <2>1. CASE v = w
      <3>1. PICK i \in 1 .. n : f = b[i]
        BY <2>1, <1>4, <1>7 DEF Held
      <3>2. Open(f) /\ FirstOfEntity(f)
        BY <3>1, <1>12 DEF Deliverable
      <3> QED
        BY <3>1, <3>2, <1>5, <1>11 DEF Open
    <2>2. CASE v # w
      <3>1. f \in Held(v)
        BY <2>2, <1>8 DEF Held
      <3> QED
        BY <3>1, <1>5, <1>11 DEF OutboxInv, HeldFirst, Open
    <2> QED BY <2>1, <2>2
  <1>15. \A v \in Dispatchers : \A i \in DOMAIN drain[v].batch, j \in 1 .. n :
            drain[v].batch[i] # b[j]
    <2> SUFFICES ASSUME NEW v \in Dispatchers, NEW i \in DOMAIN drain[v].batch, NEW j \in 1 .. n,
                        drain[v].batch[i] = b[j]
                 PROVE  FALSE
      OBVIOUS
    <2>1. event[b[j]].claimed
      BY <1>12 DEF OutboxInv, OutboxTypes, DrainRow, HeldFirst, Held
    <2> QED BY <2>1, <1>12 DEF Deliverable
  <1>16. HeldOnce'
    <2> SUFFICES ASSUME NEW u \in Dispatchers, NEW v \in Dispatchers,
                        NEW i \in DOMAIN drain'[u].batch, NEW j \in DOMAIN drain'[v].batch,
                        drain'[u].batch[i] = drain'[v].batch[j]
                 PROVE  u = v /\ i = j
      BY DEF HeldOnce
    <2>1. CASE u = w /\ v = w
      BY <2>1, <1>4, <1>7, <1>13
    <2>2. CASE u = w /\ v # w
      BY <2>2, <1>4, <1>7, <1>8, <1>15
    <2>3. CASE u # w /\ v = w
      BY <2>3, <1>4, <1>7, <1>8, <1>15
    <2>4. CASE u # w /\ v # w
      BY <2>4, <1>8 DEF OutboxInv, HeldOnce
    <2> QED BY <2>1, <2>2, <2>3, <2>4
  <1>17. DispatchTrue'
    <2> SUFFICES ASSUME NEW v \in Dispatchers, drain'[v].batch # <<>>
                 PROVE  /\ drain'[v].returned /\ drain'[v].sub \in Subscribers
                             => calls'[drain'[v].sub][Head(drain'[v].batch)] > 0
                        /\ ~drain'[v].failed => \A s \in Subscribers : s < drain'[v].sub
                             => <<s, Head(drain'[v].batch)>> \in processed'
      BY DEF DispatchTrue, InHand
    <2>1. CASE v = w
      BY <2>1, <1>7 DEF Subscribers
    <2>2. CASE v # w
      BY <2>2, <1>3, <1>8 DEF OutboxInv, DispatchTrue, InHand
    <2> QED BY <2>1, <2>2
  <1>18. EmittedInOrder' /\ CalledEmitted'
    BY <1>3, <1>5 DEF OutboxInv, EmittedInOrder, CalledEmitted
  <1>19. EntityOrder' /\ DeliveredToAll'
    BY <1>3, <1>5 DEF OutboxInv, EntityOrder, DeliveredToAll, Open
  <1>20. HandledCalled'
    BY <1>3 DEF OutboxInv, HandledCalled
  <1> QED
    BY <1>10, <1>14, <1>16, <1>17, <1>18, <1>19, <1>20 DEF OutboxInv

\* The head of a batch that is not empty is in hand.
LEMMA HeadInHand ==
    ASSUME OutboxInv, NEW w \in Dispatchers, drain[w].batch # <<>>
    PROVE  /\ 1 \in DOMAIN drain[w].batch /\ InHand(w) = drain[w].batch[1]
           /\ InHand(w) \in Events /\ InHand(w) \in Held(w)
           /\ Open(InHand(w)) /\ FirstOfEntity(InHand(w))
  <1>1. drain[w].batch \in Seq(Events)
    BY DEF OutboxInv, OutboxTypes, DrainRow
  <1>2. /\ 1 \in DOMAIN drain[w].batch /\ InHand(w) = drain[w].batch[1]
        /\ InHand(w) \in Events /\ InHand(w) \in Held(w)
    BY <1>1 DEF InHand, Held
  <1> QED
    BY <1>2 DEF OutboxInv, HeldFirst

\* The dispatcher goes on to the next subscriber: with success only when the
\* subscriber it leaves is recorded.
LEMMA AdvanceInv ==
    ASSUME OutboxInv, NEW w \in Dispatchers, NEW failed \in BOOLEAN,
           drain[w].batch # <<>>, drain[w].sub \in Subscribers,
           NextSubscriber(w, failed), UNCHANGED <<event, calls>>,
           processed \subseteq processed',
           processed' \subseteq processed \cup {<<drain[w].sub, InHand(w)>>},
           <<drain[w].sub, InHand(w)>> \in processed' => calls[drain[w].sub][InHand(w)] > 0,
           ~failed => <<drain[w].sub, InHand(w)>> \in processed'
    PROVE  OutboxInv'
  <1> DEFINE row == [drain[w] EXCEPT !.sub = drain[w].sub + 1, !.returned = FALSE,
                                     !.failed = drain[w].failed \/ failed]
  <1>1. drain' = [drain EXCEPT ![w] = row] /\ drain[w] \in DrainRow
    BY DEF NextSubscriber, OutboxInv, OutboxTypes
  <1>2. (drain[w].failed \/ failed) \in BOOLEAN
    OBVIOUS
  <1>3. /\ row \in DrainRow
        /\ row.batch = drain[w].batch /\ row.sub = drain[w].sub + 1
        /\ row.returned = FALSE /\ row.failed = (drain[w].failed \/ failed)
    BY <1>1, <1>2, AdvancedRow
  <1>4. \A v \in Dispatchers : drain'[v].batch = drain[v].batch /\ (v # w => drain'[v] = drain[v])
    BY <1>1, <1>3 DEF OutboxInv, OutboxTypes
  <1>5. /\ drain'[w].batch = drain[w].batch /\ drain'[w].sub = drain[w].sub + 1
        /\ drain'[w].returned = FALSE
        /\ drain'[w].failed = (drain[w].failed \/ failed)
    BY <1>1, <1>3 DEF OutboxInv, OutboxTypes
  <1> HIDE DEF row
  <1>6. InHand(w) \in Events
    BY HeadInHand
  <1>7. OutboxTypes'
    <2>1. drain' \in [Dispatchers -> DrainRow]
      BY <1>1, <1>3 DEF OutboxInv, OutboxTypes
    <2>2. processed' \subseteq Subscribers \X Events
      BY <1>6 DEF OutboxInv, OutboxTypes
    <2> QED BY <2>1, <2>2 DEF OutboxInv, OutboxTypes
  <1>8. \A v \in Dispatchers : Held(v)' = Held(v)
    BY <1>4 DEF Held
  <1>9. HeldFirst' /\ HeldOnce'
    BY <1>4, <1>8 DEF OutboxInv, HeldFirst, HeldOnce, Open, FirstOfEntity
  <1>10. EmittedInOrder' /\ CalledEmitted' /\ EntityOrder' /\ DeliveredToAll'
    BY DEF OutboxInv, EmittedInOrder, CalledEmitted, EntityOrder, DeliveredToAll, Open
  <1>11. HandledCalled'
    BY <1>6 DEF OutboxInv, HandledCalled
  <1>12. DispatchTrue'
    <2> SUFFICES ASSUME NEW v \in Dispatchers, drain'[v].batch # <<>>
                 PROVE  /\ drain'[v].returned /\ drain'[v].sub \in Subscribers
                             => calls'[drain'[v].sub][Head(drain'[v].batch)] > 0
                        /\ ~drain'[v].failed => \A s \in Subscribers : s < drain'[v].sub
                             => <<s, Head(drain'[v].batch)>> \in processed'
      BY DEF DispatchTrue, InHand
    <2>1. CASE v = w
      <3>1. ~drain'[v].failed => ~drain[w].failed /\ ~failed
        BY <2>1, <1>5
      <3>2. ASSUME ~drain'[v].failed, NEW s \in Subscribers, s < drain'[v].sub
            PROVE  <<s, InHand(w)>> \in processed'
        <4>1. s < drain[w].sub \/ s = drain[w].sub
          BY <2>1, <3>2, <1>5 DEF Subscribers
        <4>2. CASE s < drain[w].sub
          BY <4>2, <3>1, <3>2 DEF OutboxInv, DispatchTrue
        <4>3. CASE s = drain[w].sub
          BY <4>3, <3>1, <3>2
        <4> QED BY <4>1, <4>2, <4>3
      <3> QED
        BY <2>1, <3>2, <1>5 DEF InHand
    <2>2. CASE v # w
      BY <2>2, <1>4 DEF OutboxInv, DispatchTrue, InHand
    <2> QED BY <2>1, <2>2
  <1> QED
    BY <1>7, <1>9, <1>10, <1>11, <1>12 DEF OutboxInv

LEMMA SubscriberInv ==
    ASSUME OutboxInv, NEW w \in Dispatchers,
           SkipHandled(w) \/ CallRaises(w) \/ MarkProcessed(w) \/ MarkRaises(w)
    PROVE  OutboxInv'
  <1>1. drain[w].batch # <<>> /\ drain[w].sub \in Subscribers
    BY DEF SkipHandled, CallRaises, MarkProcessed, MarkRaises, AtSubscriber
  <1>2. InHand(w) \in Events
    BY <1>1, HeadInHand
  <1>3. <<drain[w].sub, InHand(w)>> \in processed => calls[drain[w].sub][InHand(w)] > 0
    BY <1>1, <1>2 DEF OutboxInv, HandledCalled
  <1>4. CASE SkipHandled(w)
    BY <1>1, <1>3, <1>4, AdvanceInv DEF SkipHandled, Handled
  <1>5. CASE CallRaises(w)
    BY <1>1, <1>3, <1>5, AdvanceInv DEF CallRaises
  <1>6. CASE MarkProcessed(w)
    <2>1. calls[drain[w].sub][InHand(w)] > 0
      BY <1>1, <1>6 DEF MarkProcessed, OutboxInv, DispatchTrue
    <2> QED
      BY <1>1, <1>6, <2>1, AdvanceInv DEF MarkProcessed
  <1>7. CASE MarkRaises(w)
    BY <1>1, <1>3, <1>7, AdvanceInv DEF MarkRaises
  <1> QED
    BY <1>4, <1>5, <1>6, <1>7

LEMMA CallInv ==
    ASSUME OutboxInv, NEW w \in Dispatchers, CallReturns(w)
    PROVE  OutboxInv'
  <1> DEFINE s == drain[w].sub
             e == InHand(w)
  <1>1. drain[w].batch # <<>> /\ s \in Subscribers
    BY DEF CallReturns, AtSubscriber
  <1>2. e \in Events /\ Open(e) /\ FirstOfEntity(e)
    BY <1>1, HeadInHand
  <1>3. /\ calls' = [calls EXCEPT ![s][e] = @ + 1]
        /\ drain' = [drain EXCEPT ![w].returned = TRUE]
        /\ UNCHANGED <<event, processed>>
    BY DEF CallReturns
  <1>4. /\ calls' \in [Subscribers -> [Events -> Nat]]
        /\ calls'[s][e] > 0
        /\ \A t \in Subscribers, f \in Events : t # s \/ f # e => calls'[t][f] = calls[t][f]
    BY <1>1, <1>2, <1>3 DEF OutboxInv, OutboxTypes
  <1>5. drain' \in [Dispatchers -> DrainRow]
    BY <1>3 DEF OutboxInv, OutboxTypes, DrainRow
  <1>6. \A v \in Dispatchers : /\ drain'[v].batch = drain[v].batch /\ drain'[v].sub = drain[v].sub
                               /\ drain'[v].failed = drain[v].failed
                               /\ v # w => drain'[v] = drain[v]
    BY <1>3 DEF OutboxInv, OutboxTypes, DrainRow
  <1> HIDE DEF s, e
  <1>7. OutboxTypes'
    BY <1>3, <1>4, <1>5 DEF OutboxInv, OutboxTypes
  <1>8. \A v \in Dispatchers : Held(v)' = Held(v)
    BY <1>6 DEF Held
  <1>9. HeldFirst' /\ HeldOnce' /\ EmittedInOrder'
    BY <1>3, <1>6, <1>8 DEF OutboxInv, HeldFirst, HeldOnce, EmittedInOrder, Open, FirstOfEntity
  <1>10. \A t \in Subscribers, f \in Events : calls[t][f] > 0 => calls'[t][f] > 0
    BY <1>4
  <1>11. HandledCalled' /\ DeliveredToAll'
    BY <1>3, <1>10 DEF OutboxInv, HandledCalled, DeliveredToAll
  <1>12. CalledEmitted'
    BY <1>2, <1>3, <1>4 DEF OutboxInv, CalledEmitted, Open
  <1>13. EntityOrder'
    <2> SUFFICES ASSUME NEW t \in Subscribers, NEW f \in Events, NEW g \in Events,
                        f < g, event[f].entity = event[g].entity, calls'[t][g] > 0
                 PROVE  event[f].status # "open"
      BY <1>3 DEF EntityOrder, Open
    <2>1. CASE t = s /\ g = e
      BY <2>1, <1>2 DEF FirstOfEntity, Open, Events
    <2>2. CASE t # s \/ g # e
      BY <2>2, <1>4 DEF OutboxInv, EntityOrder, Open
    <2> QED BY <2>1, <2>2
  <1>14. DispatchTrue'
    <2> SUFFICES ASSUME NEW v \in Dispatchers, drain'[v].batch # <<>>
                 PROVE  /\ drain'[v].returned /\ drain'[v].sub \in Subscribers
                             => calls'[drain'[v].sub][Head(drain'[v].batch)] > 0
                        /\ ~drain'[v].failed => \A t \in Subscribers : t < drain'[v].sub
                             => <<t, Head(drain'[v].batch)>> \in processed'
      BY DEF DispatchTrue, InHand
    <2>1. drain[v].batch # <<>> /\ Head(drain'[v].batch) = InHand(v) /\ InHand(v) \in Events
      BY <1>6, HeadInHand DEF InHand
    <2>2. ~drain'[v].failed => \A t \in Subscribers : t < drain'[v].sub
                             => <<t, Head(drain'[v].batch)>> \in processed'
      BY <1>3, <1>6, <2>1 DEF OutboxInv, DispatchTrue
    <2>3. CASE v = w
      BY <2>1, <2>2, <2>3, <1>4, <1>6 DEF s, e
    <2>4. CASE v # w
      BY <2>1, <2>2, <2>4, <1>6, <1>10 DEF OutboxInv, DispatchTrue
    <2> QED BY <2>3, <2>4
  <1> QED
    BY <1>7, <1>9, <1>11, <1>12, <1>13, <1>14 DEF OutboxInv

\* An outcome keeps the entity, and delivers only what no subscriber failed.
LEMMA OutcomeRow ==
    ASSUME NEW row \in EventRow, row.status = "open", NEW failed \in BOOLEAN
    PROVE  LET next == Outcome(row, failed)
           IN  /\ next \in EventRow
               /\ next.entity = row.entity /\ next.status \in {"open", "delivered", "dead"}
               /\ next.status = "delivered" => ~failed
  <1>1. Acked(row) \in EventRow /\ Acked(row).entity = row.entity /\ Acked(row).status = "delivered"
    BY DEF Acked, EventRow
  <1>2. /\ DeadLettered(row) \in EventRow /\ DeadLettered(row).entity = row.entity
        /\ DeadLettered(row).status = "dead"
    BY DEF DeadLettered, EventRow
  <1>3. Nacked(row) \in EventRow /\ Nacked(row).entity = row.entity /\ Nacked(row).status = "open"
    <2> DEFINE n == row.retries + 1
    <2>1. n \in Nat
      BY DEF EventRow
    <2> HIDE DEF n
    <2>2. [row EXCEPT !.retries = n, !.due = FALSE, !.claimed = FALSE] \in EventRow
      BY <2>1 DEF EventRow
    <2>3. /\ [row EXCEPT !.retries = n, !.due = FALSE, !.claimed = FALSE].entity = row.entity
          /\ [row EXCEPT !.retries = n, !.due = FALSE, !.claimed = FALSE].status = row.status
      BY DEF EventRow
    <2> QED
      BY <2>2, <2>3 DEF Nacked, n
  <1>4. row.retries \in Nat
    BY DEF EventRow
  <1>5. CASE ~failed
    <2>1. Outcome(row, failed) = Acked(row)
      BY <1>5 DEF Outcome
    <2> QED BY <1>1, <1>5, <2>1
  <1>6. CASE failed /\ row.retries + 1 > MaxDeliveries
    <2>1. Outcome(row, failed) = DeadLettered(row)
      BY <1>4, <1>6, OutboxBounds DEF Outcome
    <2> QED BY <1>2, <2>1
  <1>7. CASE failed /\ row.retries + 1 <= MaxDeliveries
    <2>1. Outcome(row, failed) = Nacked(row)
      BY <1>4, <1>7, OutboxBounds DEF Outcome
    <2> QED BY <1>3, <2>1
  <1> QED
    BY <1>4, <1>5, <1>6, <1>7, OutboxBounds

\* A dispatcher loses some of what it had in hand, and begins afresh.
LEMMA DropInv ==
    ASSUME OutboxInv, NEW w \in Dispatchers, NEW b \in Seq(Events), NEW k \in Nat,
           \A i \in DOMAIN b : i + k \in DOMAIN drain[w].batch /\ b[i] = drain[w].batch[i + k],
           drain' = [drain EXCEPT ![w] = [NoDrain EXCEPT !.batch = b]]
    PROVE  /\ drain' \in [Dispatchers -> DrainRow]
           /\ \A v \in Dispatchers : Held(v)' \subseteq Held(v) /\ (v # w => Held(v)' = Held(v))
           /\ HeldOnce'
           /\ \A v \in Dispatchers : v # w => drain'[v] = drain[v]
           /\ drain'[w].batch = b
           /\ drain'[w].sub = 1 /\ drain'[w].returned = FALSE /\ drain'[w].failed = FALSE
  <1>1. drain' \in [Dispatchers -> DrainRow]
    BY FreshRow DEF OutboxInv, OutboxTypes
  <1>2. /\ drain'[w].batch = b /\ drain'[w].sub = 1
        /\ drain'[w].returned = FALSE /\ drain'[w].failed = FALSE
    BY DEF OutboxInv, OutboxTypes, NoDrain
  <1>3. \A v \in Dispatchers : v # w => drain'[v] = drain[v]
    BY DEF OutboxInv, OutboxTypes
  <1>4. \A i, j \in DOMAIN b : i \in Nat /\ j \in Nat
    OBVIOUS
  <1>5. drain[w].batch \in Seq(Events)
    BY DEF OutboxInv, OutboxTypes, DrainRow
  <1>6. \A v \in Dispatchers : v # w => Held(v)' = Held(v)
    BY <1>3 DEF Held
  <1>7. Held(w)' \subseteq Held(w)
    <2> SUFFICES ASSUME NEW f, f \in Held(w)' PROVE f \in Held(w)
      OBVIOUS
    <2>1. PICK i \in 1 .. Len(b) : f = b[i]
      BY <1>2 DEF Held
    <2>2. i + k \in 1 .. Len(drain[w].batch) /\ f = drain[w].batch[i + k]
      BY <1>5, <2>1
    <2> QED BY <2>2 DEF Held
  <1>8. HeldOnce'
    <2> SUFFICES ASSUME NEW u \in Dispatchers, NEW v \in Dispatchers,
                        NEW i \in DOMAIN drain'[u].batch, NEW j \in DOMAIN drain'[v].batch,
                        drain'[u].batch[i] = drain'[v].batch[j]
                 PROVE  u = v /\ i = j
      BY DEF HeldOnce
    <2>1. CASE u = w /\ v = w
      <3>1. /\ i + k \in DOMAIN drain[w].batch /\ j + k \in DOMAIN drain[w].batch
            /\ drain[w].batch[i + k] = drain[w].batch[j + k]
        BY <2>1, <1>2
      <3>2. i + k = j + k
        BY <3>1 DEF OutboxInv, HeldOnce
      <3> QED BY <2>1, <3>2, <1>2, <1>4
    <2>2. CASE u = w /\ v # w
      <3>1. i + k \in DOMAIN drain[w].batch /\ drain[w].batch[i + k] = drain[v].batch[j]
        BY <2>2, <1>2, <1>3
      <3> QED BY <2>2, <3>1, <1>3 DEF OutboxInv, HeldOnce
    <2>3. CASE u # w /\ v = w
      <3>1. j + k \in DOMAIN drain[w].batch /\ drain[w].batch[j + k] = drain[u].batch[i]
        BY <2>3, <1>2, <1>3
      <3> QED BY <2>3, <3>1, <1>3 DEF OutboxInv, HeldOnce
    <2>4. CASE u # w /\ v # w
      BY <2>4, <1>3 DEF OutboxInv, HeldOnce
    <2> QED BY <2>1, <2>2, <2>3, <2>4
  <1> QED
    BY <1>1, <1>2, <1>3, <1>6, <1>7, <1>8

\* What a fresh dispatcher and the others have in dispatch.
LEMMA FreshDispatch ==
    ASSUME OutboxInv, NEW w \in Dispatchers, UNCHANGED <<processed, calls>>,
           drain'[w].sub = 1, drain'[w].returned = FALSE,
           \A v \in Dispatchers : v # w => drain'[v] = drain[v]
    PROVE  DispatchTrue'
  <1> SUFFICES ASSUME NEW v \in Dispatchers, drain'[v].batch # <<>>
               PROVE  /\ drain'[v].returned /\ drain'[v].sub \in Subscribers
                           => calls'[drain'[v].sub][Head(drain'[v].batch)] > 0
                      /\ ~drain'[v].failed => \A s \in Subscribers : s < drain'[v].sub
                           => <<s, Head(drain'[v].batch)>> \in processed'
    BY DEF DispatchTrue, InHand
  <1>1. CASE v = w
    BY <1>1 DEF Subscribers
  <1>2. CASE v # w
    BY <1>2 DEF OutboxInv, DispatchTrue, InHand
  <1> QED BY <1>1, <1>2

LEMMA ForgetInv ==
    ASSUME OutboxInv, NEW w \in Dispatchers, Forget(w)
    PROVE  OutboxInv'
  <1>1. drain' = [drain EXCEPT ![w] = NoDrain] /\ UNCHANGED <<event, processed, calls>>
    BY DEF Forget
  <1>2. [NoDrain EXCEPT !.batch = <<>>] = NoDrain
    BY DEF NoDrain
  <1>3. /\ drain' \in [Dispatchers -> DrainRow] /\ HeldOnce'
        /\ \A v \in Dispatchers : Held(v)' \subseteq Held(v)
        /\ \A v \in Dispatchers : v # w => drain'[v] = drain[v]
        /\ drain'[w].sub = 1 /\ drain'[w].returned = FALSE
    <2> DEFINE b == <<>>
    <2>1. b \in Seq(Events) /\ DOMAIN b = {}
      OBVIOUS
    <2>2. drain' = [drain EXCEPT ![w] = [NoDrain EXCEPT !.batch = b]]
      BY <1>1, <1>2
    <2> HIDE DEF b
    <2>3. \A i \in DOMAIN b : i + 0 \in DOMAIN drain[w].batch /\ b[i] = drain[w].batch[i + 0]
      BY <2>1
    <2> QED
      BY <2>1, <2>2, <2>3, DropInv
  <1>4. HeldFirst'
    BY <1>1, <1>3 DEF OutboxInv, HeldFirst, Open, FirstOfEntity
  <1>5. DispatchTrue'
    BY <1>1, <1>3, FreshDispatch
  <1>6. OutboxTypes' /\ EmittedInOrder' /\ CalledEmitted' /\ HandledCalled'
    BY <1>1, <1>3 DEF OutboxInv, OutboxTypes, EmittedInOrder, CalledEmitted, HandledCalled
  <1>7. EntityOrder' /\ DeliveredToAll'
    BY <1>1 DEF OutboxInv, EntityOrder, DeliveredToAll, Open
  <1> QED
    BY <1>3, <1>4, <1>5, <1>6, <1>7 DEF OutboxInv

LEMMA SettleInv ==
    ASSUME OutboxInv, NEW w \in Dispatchers, Settle(w)
    PROVE  OutboxInv'
  <1> DEFINE e == InHand(w)
             row == Outcome(event[e], drain[w].failed)
             b == Tail(drain[w].batch)
  <1>1. drain[w].batch # <<>> /\ drain[w].sub > MaxSubs
    BY DEF Settle
  <1>2. /\ event' = [event EXCEPT ![e] = row]
        /\ drain' = [drain EXCEPT ![w] = [NoDrain EXCEPT !.batch = b]]
        /\ UNCHANGED <<processed, calls>>
    BY DEF Settle
  <1>3. /\ 1 \in DOMAIN drain[w].batch /\ e = drain[w].batch[1] /\ e \in Events
        /\ Open(e)
    BY <1>1, HeadInHand
  <1>4. event[e] \in EventRow /\ drain[w].failed \in BOOLEAN /\ drain[w].batch \in Seq(Events)
    BY <1>3 DEF OutboxInv, OutboxTypes, DrainRow
  <1>5. /\ row \in EventRow /\ row.entity = event[e].entity /\ row.status # "absent"
        /\ row.status = "delivered" => ~drain[w].failed
    BY <1>3, <1>4, OutcomeRow DEF Open
  <1>6. /\ b \in Seq(Events)
        /\ \A i \in DOMAIN b : i + 1 \in DOMAIN drain[w].batch /\ b[i] = drain[w].batch[i + 1]
    BY <1>1, <1>4
  <1> HIDE DEF e, row, b
  <1>7. /\ drain' \in [Dispatchers -> DrainRow] /\ HeldOnce'
        /\ \A v \in Dispatchers : Held(v)' \subseteq Held(v)
        /\ \A v \in Dispatchers : v # w => drain'[v] = drain[v]
        /\ drain'[w].batch = b /\ drain'[w].sub = 1 /\ drain'[w].returned = FALSE
    <2>1. PICK t \in Seq(Events) : t = b
      BY <1>6
    <2>2. PICK k \in Nat : k = 1
      OBVIOUS
    <2>3. \A i \in DOMAIN t : i + k \in DOMAIN drain[w].batch /\ t[i] = drain[w].batch[i + k]
      BY <1>6, <2>1, <2>2
    <2>4. drain' = [drain EXCEPT ![w] = [NoDrain EXCEPT !.batch = t]]
      BY <1>2, <2>1
    <2>5. drain' \in [Dispatchers -> DrainRow]
      BY <2>3, <2>4, DropInv
    <2>6. HeldOnce'
      BY <2>3, <2>4, DropInv
    <2>7. \A v \in Dispatchers : Held(v)' \subseteq Held(v)
      BY <2>3, <2>4, DropInv
    <2>8. \A v \in Dispatchers : v # w => drain'[v] = drain[v]
      BY <2>3, <2>4, DropInv
    <2>9. drain'[w].batch = t /\ drain'[w].sub = 1 /\ drain'[w].returned = FALSE
      BY <2>4 DEF OutboxInv, OutboxTypes, NoDrain
    <2> QED BY <2>1, <2>5, <2>6, <2>7, <2>8, <2>9
  <1>8. event' \in [Events -> EventRow]
    BY <1>2, <1>5 DEF OutboxInv, OutboxTypes
  <1>9. event'[e] = row /\ \A f \in Events : f # e => event'[f] = event[f]
    BY <1>2, <1>3 DEF OutboxInv, OutboxTypes
  <1>10. \A f \in Events : /\ event'[f].entity = event[f].entity
                           /\ Open(f)' => Open(f)
                           /\ event'[f].status = "absent" <=> event[f].status = "absent"
    BY <1>3, <1>5, <1>9 DEF Open
  <1>11. \A f \in Events : FirstOfEntity(f) => FirstOfEntity(f)'
    BY <1>10 DEF FirstOfEntity
  <1>12. HeldFirst'
    <2> SUFFICES ASSUME NEW v \in Dispatchers, NEW f \in Events, f \in Held(v)'
                 PROVE  Open(f)' /\ event'[f].claimed /\ FirstOfEntity(f)'
      BY DEF HeldFirst
    <2>1. f \in Held(v)
      BY <1>7
    <2>2. f # e
      <3>1. CASE v = w
        <4>1. PICK i \in DOMAIN b : f = b[i]
          BY <3>1, <1>6, <1>7 DEF Held
        <4>2. i \in Nat \ {0}
          BY <1>6
        <4>3. f = drain[w].batch[i + 1] /\ i + 1 \in DOMAIN drain[w].batch /\ i + 1 # 1
          BY <4>1, <4>2, <1>6
        <4> QED BY <4>3, <1>3 DEF OutboxInv, HeldOnce
      <3>2. CASE v # w
        <4>1. PICK i \in DOMAIN drain[v].batch : f = drain[v].batch[i]
          BY <2>1 DEF Held, OutboxInv, OutboxTypes, DrainRow
        <4> QED BY <3>2, <4>1, <1>3 DEF OutboxInv, HeldOnce
      <3> QED BY <3>1, <3>2
    <2>3. event'[f] = event[f]
      BY <1>9, <2>2
    <2> QED
      BY <2>1, <2>3, <1>11 DEF OutboxInv, HeldFirst, Open
  <1>13. DispatchTrue'
    BY <1>2, <1>7, FreshDispatch
  <1>14. OutboxTypes'
    BY <1>2, <1>7, <1>8 DEF OutboxInv, OutboxTypes
  <1>15. EmittedInOrder' /\ CalledEmitted' /\ HandledCalled'
    BY <1>2, <1>10 DEF OutboxInv, EmittedInOrder, CalledEmitted, HandledCalled
  <1>16. EntityOrder'
    BY <1>2, <1>10 DEF OutboxInv, EntityOrder
  <1>17. DeliveredToAll'
    <2> SUFFICES ASSUME NEW f \in Events, event'[f].status = "delivered", NEW s \in Subscribers
                 PROVE  <<s, f>> \in processed /\ calls[s][f] > 0
      BY <1>2 DEF DeliveredToAll
    <2>1. CASE f = e
      <3>1. ~drain[w].failed
        BY <2>1, <1>5, <1>9
      <3>2. s < drain[w].sub
        BY <1>1, OutboxBounds DEF Subscribers, OutboxInv, OutboxTypes, DrainRow
      <3>3. <<s, e>> \in processed
        BY <3>1, <3>2, <1>1 DEF OutboxInv, DispatchTrue, e
      <3> QED BY <2>1, <3>3, <1>3 DEF OutboxInv, HandledCalled
    <2>2. CASE f # e
      BY <2>2, <1>9 DEF OutboxInv, DeliveredToAll
    <2> QED BY <2>1, <2>2
  <1> QED
    BY <1>7, <1>12, <1>13, <1>14, <1>15, <1>16, <1>17 DEF OutboxInv

LEMMA OutboxStepInv == OutboxInv /\ OutboxStep => OutboxInv'
  <1> SUFFICES ASSUME OutboxInv, OutboxStep PROVE OutboxInv'
    OBVIOUS
  <1>1. CASE \E e \in Events, x \in Entities : Emit(e, x)
    BY <1>1, EmitInv
  <1>2. CASE \E w \in Dispatchers : ClaimEvents(w)
    BY <1>2, ClaimInv
  <1>3. CASE \E w \in Dispatchers : CallReturns(w)
    BY <1>3, CallInv
  <1>4. CASE \E w \in Dispatchers : SkipHandled(w) \/ CallRaises(w) \/ MarkProcessed(w) \/ MarkRaises(w)
    BY <1>4, SubscriberInv
  <1>5. CASE \E w \in Dispatchers : Settle(w)
    BY <1>5, SettleInv
  <1>6. CASE \E w \in Dispatchers : Forget(w)
    BY <1>6, ForgetInv
  <1>7. CASE \E e \in Events : RetryDue(e)
    BY <1>7, RetryInv
  <1>8. CASE UNCHANGED outboxVars
    BY <1>8 DEF outboxVars, OutboxInv, OutboxTypes, EmittedInOrder, HeldFirst, Held, HeldOnce,
                CalledEmitted, HandledCalled, DispatchTrue, InHand, EntityOrder, DeliveredToAll,
                Open, FirstOfEntity
  <1> QED
    BY <1>1, <1>2, <1>3, <1>4, <1>5, <1>6, <1>7, <1>8 DEF OutboxStep

-----------------------------------------------------------------------------
(* The tick of a worker.                                                   *)

LEMMA StepsOutbox == [Next]_vars => OutboxStep
  <1> SUFFICES ASSUME [Next]_vars PROVE OutboxStep
    OBVIOUS
  <1> USE OneProcess
  <1>1. CASE UNCHANGED vars
    BY <1>1 DEF vars, OutboxStep
  <1>2. CASE \E w \in Workers : TickStep(w)
    <2> PICK w \in Workers : TickStep(w)
      BY <1>2
    <2>1. CASE EventsBegin(w)
      BY <2>1 DEF EventsBegin, OutboxStep
    <2>2. CASE Dispatch(w)
      BY <2>2 DEF Dispatch, OutboxStep
    <2>3. CASE \/ SweepStep(w) \/ SchedulesBegin(w) \/ PassQuiet(w) \/ SchedulesEnd(w)
               \/ EventsEnd(w) \/ Eligible(w) \/ ClaimNone(w) \/ Complete(w) \/ Fail(w)
      BY <2>3 DEF SweepStep, SchedulesBegin, PassQuiet, SchedulesEnd, EventsEnd, Eligible,
                  ClaimNone, Complete, Fail, OutboxStep
    <2>4. CASE \/ \E t \in Tasks : PassEnqueue(w, t) \/ ClaimOne(w, t)
               \/ \E o \in Outcomes : Handle(w, o) \/ RunOp(w, o)
      BY <2>4 DEF PassEnqueue, ClaimOne, Handle, RunOp, OutboxStep, outboxVars
    <2> QED
      BY <2>1, <2>2, <2>3, <2>4 DEF TickStep
  <1>3. CASE \E w \in Workers : Boot(w) \/ Crash(w) \/ StoreFault(w)
    BY <1>3 DEF Boot, Crash, StoreFault, OutboxStep, outboxVars
  <1>4. CASE EmitRequest
    BY <1>4 DEF EmitRequest, OutboxStep
  <1>5. CASE RetryTime
    BY <1>5 DEF RetryTime, OutboxStep, outboxVars
  <1>6. CASE \/ ScheduleRequest \/ UpdateRequest \/ SkipRequest \/ RunRequest
             \/ SubmitRequest \/ Clock \/ LeaseTime
    BY <1>6 DEF ScheduleRequest, UpdateRequest, SkipRequest, RunRequest, SubmitRequest, Clock,
                LeaseTime, OutboxStep
  <1> QED
    BY <1>1, <1>2, <1>3, <1>4, <1>5, <1>6 DEF Next

LEMMA OutboxAlways == Spec => []OutboxInv
  <1>1. WorkerInit => OutboxInv
    BY OutboxInitInv DEF WorkerInit
  <1>2. OutboxInv /\ [Next]_vars => OutboxInv'
    BY OutboxStepInv, StepsOutbox
  <1> QED
    BY <1>1, <1>2, PTL DEF Spec

(* A task is in hand from its claim to the report.                         *)

WorkerRow == [at : Places, task : Tasks \cup {None}, outcome : Outcomes \cup {None}, boots : Nat]

QueueTypes == task \in [Tasks -> TaskRow] /\ worker \in [Workers -> WorkerRow]
HandPlaces == \A w \in Workers :
    /\ worker[w].task \in Tasks <=> worker[w].at \in {"handle", "report"}
    /\ worker[w].boots = 0 => worker[w].at = "down"

Running(t) == task[t].status = "running"
Sole == \A v, w \in Workers : worker[v].boots > 0 /\ worker[w].boots > 0 => v = w

HandInv == QueueTypes /\ HandPlaces /\ ClaimHeld

LEMMA NoneIsNoTask == None \notin Tasks
  BY QueueNone, QueueBounds DEF Tasks

\* ClaimHeld with its premise named.
LEMMA HeldWhenSole ==
    ClaimHeld <=> (Sole => \A w \in Workers, t \in Tasks :
                        /\ worker[w].task = t => Running(t) /\ task[t].owner = w
                        /\ Running(t) /\ worker[w].boots > 0 => worker[w].task = t \/ At(w, "down"))
  BY DEF ClaimHeld, Sole, Running

LEMMA HandInitInv == QueueInit /\ worker = [w \in Workers |-> Down] => HandInv
  <1> SUFFICES ASSUME QueueInit, worker = [w \in Workers |-> Down] PROVE HandInv
    OBVIOUS
  <1>1. task = [t \in Tasks |-> NoTask] /\ worker = [w \in Workers |-> Down]
    BY DEF QueueInit
  <1>2. NoTask \in TaskRow /\ NoTask.status = "absent"
    BY DEF NoTask, TaskRow
  <1>3. Down \in WorkerRow /\ Down.at = "down" /\ Down.task = None /\ Down.boots = 0
    BY DEF Down, WorkerRow, Places
  <1>4. \A t \in Tasks : ~Running(t)
    BY <1>1, <1>2 DEF Running
  <1>5. QueueTypes
    BY <1>1, <1>2, <1>3 DEF QueueTypes
  <1>6. HandPlaces
    BY <1>1, <1>3, NoneIsNoTask DEF HandPlaces
  <1>7. ClaimHeld
    BY <1>1, <1>3, <1>4, NoneIsNoTask DEF ClaimHeld, Running
  <1> QED
    BY <1>5, <1>6, <1>7 DEF HandInv

\* Steps that start and end no execution.
QuietTasks == /\ task' \in [Tasks -> TaskRow]
              /\ \A t \in Tasks : /\ Running(t)' <=> Running(t)
                                  /\ Running(t) => task'[t].owner = task[t].owner
QuietWorkers == /\ worker' \in [Workers -> WorkerRow]
                /\ \A w \in Workers : /\ worker'[w].task = worker[w].task
                                      /\ worker'[w].boots = worker[w].boots
                                      /\ worker'[w].at = "down" <=> worker[w].at = "down"
                                      /\ worker'[w].task \in Tasks
                                           <=> worker'[w].at \in {"handle", "report"}

LEMMA QuietInv == HandInv /\ QuietTasks /\ QuietWorkers => HandInv'
  <1> SUFFICES ASSUME HandInv, QuietTasks, QuietWorkers PROVE HandInv'
    OBVIOUS
  <1>1. QueueTypes' /\ HandPlaces'
    BY DEF HandInv, QueueTypes, HandPlaces, QuietTasks, QuietWorkers
  <1>2. ClaimHeld'
    BY DEF HandInv, ClaimHeld, At, Running, QuietTasks, QuietWorkers
  <1> QED
    BY <1>1, <1>2 DEF HandInv

\* The steps on the rows of the queue that are quiet.
LEMMA EnqueueQuiet ==
    ASSUME HandInv, NEW t \in Tasks, NEW kind \in Kinds, Enqueue(t, kind)
    PROVE  QuietTasks
  <1> DEFINE row == [NoTask EXCEPT !.status = "pending", !.kind = kind]
  <1>1. row \in TaskRow /\ row.status = "pending"
    BY DEF NoTask, TaskRow
  <1>2. task' = [task EXCEPT ![t] = row] /\ task[t].status = "absent"
    BY DEF Enqueue, NextTask
  <1> HIDE DEF row
  <1> QED
    BY <1>1, <1>2 DEF QuietTasks, Running, HandInv, QueueTypes

LEMMA SameTasks == HandInv /\ task' = task => QuietTasks
  BY DEF QuietTasks, Running, HandInv, QueueTypes

LEMMA LeaseQuiet ==
    ASSUME HandInv, NEW t \in Tasks, LeaseExpires(t)
    PROVE  QuietTasks
  <1>1. task' = [task EXCEPT ![t].leased = FALSE]
    BY DEF LeaseExpires
  <1> QED
    BY <1>1 DEF QuietTasks, Running, HandInv, QueueTypes, TaskRow

\* A worker that goes on, without taking or giving back a task.
LEMMA SameWorkers == HandInv /\ worker' = worker => QuietWorkers
  BY DEF QuietWorkers, HandInv, QueueTypes, HandPlaces

LEMMA GoQuiet ==
    ASSUME HandInv, NEW w \in Workers, NEW place \in Places, Go(w, place),
           ~At(w, "down"), place \notin {"down", "handle", "report"},
           worker[w].task \notin Tasks
    PROVE  QuietWorkers
  <1>1. worker' = [worker EXCEPT ![w].at = place]
    BY DEF Go
  <1> QED
    BY <1>1 DEF QuietWorkers, At, HandInv, QueueTypes, WorkerRow, HandPlaces

LEMMA ReportQuiet ==
    ASSUME HandInv, NEW w \in Workers, NEW o \in Outcomes, Report(w, o), worker[w].task \in Tasks
    PROVE  QuietWorkers
  <1>1. worker' = [worker EXCEPT ![w].at = "report", ![w].outcome = o]
    BY DEF Report
  <1> QED
    BY <1>1 DEF QuietWorkers, At, HandInv, QueueTypes, WorkerRow, HandPlaces, Places

LEMMA EndTickRow ==
    ASSUME HandInv, NEW w \in Workers, EndTick(w)
    PROVE  /\ worker' \in [Workers -> WorkerRow]
           /\ worker'[w].task = None /\ worker'[w].at = "sweep"
           /\ worker'[w].boots = worker[w].boots
           /\ \A v \in Workers : v # w => worker'[v] = worker[v]
  <1>1. worker' = [worker EXCEPT ![w] = [worker[w] EXCEPT !.at = "sweep", !.task = None, !.outcome = None]]
    BY DEF EndTick
  <1> QED
    BY <1>1 DEF HandInv, QueueTypes, WorkerRow, Places

\* With one worker that lives and has no task in hand, nothing is running.
LEMMA NothingRuns ==
    ASSUME HandInv, Sole, NEW w \in Workers, ~At(w, "down"), worker[w].task \notin Tasks
    PROVE  \A t \in Tasks : ~Running(t)
  <1>1. worker[w].boots > 0
    BY DEF HandInv, QueueTypes, WorkerRow, HandPlaces, At
  <1> QED
    BY <1>1, HeldWhenSole DEF HandInv

LEMMA SoleBefore ==
    ASSUME HandInv, Sole', \A w \in Workers : worker'[w].boots >= worker[w].boots,
           \A w \in Workers : worker'[w].boots \in Nat
    PROVE  Sole
  BY DEF Sole, HandInv, QueueTypes, WorkerRow

LEMMA AttemptedRow ==
    ASSUME NEW row \in TaskRow
    PROVE  Attempted(row) \in TaskRow /\ Attempted(row).status # "running"
  <1> DEFINE n == row.retries + 1
  <1>1. n \in Nat
    BY DEF TaskRow
  <1> HIDE DEF n
  <1>2. /\ [row EXCEPT !.status = "pending", !.retries = n, !.owner = None, !.leased = FALSE] \in TaskRow
        /\ [row EXCEPT !.status = "failed", !.retries = n] \in TaskRow
    BY <1>1 DEF TaskRow
  <1>3. /\ [row EXCEPT !.status = "pending", !.retries = n, !.owner = None,
                       !.leased = FALSE].status = "pending"
        /\ [row EXCEPT !.status = "failed", !.retries = n].status = "failed"
    BY DEF TaskRow
  <1> QED
    BY <1>2, <1>3 DEF Attempted, n

LEMMA BootInv ==
    ASSUME HandInv, NEW w \in Workers, Boot(w)
    PROVE  HandInv'
  <1>1. /\ At(w, "down") /\ RecoverOrphans
        /\ worker' = [worker EXCEPT ![w].at = "sweep", ![w].boots = @ + 1]
    BY DEF Boot
  <1>2. /\ worker' \in [Workers -> WorkerRow]
        /\ worker'[w].boots = worker[w].boots + 1 /\ worker'[w].task = worker[w].task
        /\ worker'[w].at = "sweep"
        /\ \A v \in Workers : v # w => worker'[v] = worker[v]
    BY <1>1 DEF HandInv, QueueTypes, WorkerRow, Places
  <1>3. worker[w].task \notin Tasks
    BY <1>1 DEF HandInv, HandPlaces, At
  <1>4. ASSUME NEW t \in Tasks PROVE task'[t] \in TaskRow /\ task'[t].status # "running"
    <2>1. task[t] \in TaskRow
      BY DEF HandInv, QueueTypes
    <2>2. task'[t] = IF task[t].status = "running" THEN Attempted(task[t]) ELSE task[t]
      BY <1>1 DEF RecoverOrphans
    <2>3. Attempted(task[t]) \in TaskRow /\ Attempted(task[t]).status # "running"
      BY <2>1, AttemptedRow
    <2> QED BY <2>1, <2>2, <2>3
  <1>5. QueueTypes'
    <2>1. task' = [t \in Tasks |-> task'[t]]
      BY <1>1 DEF RecoverOrphans
    <2> QED BY <2>1, <1>2, <1>4 DEF QueueTypes
  <1>6. HandPlaces'
    BY <1>2, <1>3 DEF HandInv, HandPlaces, QueueTypes, WorkerRow
  <1>7. ClaimHeld'
    <2> SUFFICES ASSUME Sole', NEW v \in Workers, NEW t \in Tasks
                 PROVE  /\ worker'[v].task = t => task'[t].status = "running" /\ task'[t].owner = v
                        /\ task'[t].status = "running" /\ worker'[v].boots > 0
                             => worker'[v].task = t \/ worker'[v].at = "down"
      BY DEF ClaimHeld, Sole, At
    <2>1. worker'[v].task # t
      <3>1. CASE v = w
        BY <3>1, <1>2, <1>3
      <3>2. CASE v # w
        <4>1. worker[v].boots = 0
          BY <3>2, <1>2 DEF Sole, HandInv, QueueTypes, WorkerRow
        <4> QED BY <3>2, <4>1, <1>2 DEF HandInv, HandPlaces
      <3> QED BY <3>1, <3>2
    <2> QED BY <2>1, <1>4
  <1> QED
    BY <1>5, <1>6, <1>7 DEF HandInv

LEMMA CrashInv ==
    ASSUME HandInv, NEW w \in Workers, Crash(w)
    PROVE  HandInv'
  <1>1. /\ ~At(w, "down") /\ task' = task
        /\ worker' = [worker EXCEPT ![w] = [Down EXCEPT !.boots = worker[w].boots]]
    BY DEF Crash, queueVars
  <1>2. /\ worker' \in [Workers -> WorkerRow]
        /\ worker'[w].boots = worker[w].boots /\ worker'[w].task = None
        /\ worker'[w].at = "down"
        /\ \A v \in Workers : v # w => worker'[v] = worker[v]
    BY <1>1 DEF HandInv, QueueTypes, WorkerRow, Places, Down
  <1>3. QueueTypes' /\ HandPlaces'
    BY <1>1, <1>2, NoneIsNoTask DEF HandInv, QueueTypes, HandPlaces
  <1>4. ClaimHeld'
    BY <1>1, <1>2, NoneIsNoTask DEF HandInv, ClaimHeld, At
  <1> QED
    BY <1>3, <1>4 DEF HandInv

LEMMA SweepInv ==
    ASSUME HandInv, NEW w \in Workers, SweepStep(w)
    PROVE  HandInv'
  <1>1. At(w, "sweep") /\ SweepLeases /\ Go(w, "schedules")
    BY DEF SweepStep
  <1>2. worker[w].task \notin Tasks /\ ~At(w, "down")
    BY <1>1 DEF HandInv, HandPlaces, At
  <1>3. QuietWorkers
    BY <1>1, <1>2, GoQuiet DEF Places
  <1>4. ASSUME NEW t \in Tasks
        PROVE  task'[t] \in TaskRow /\ (task'[t].status = "running" => task'[t] = task[t])
    <2>1. task[t] \in TaskRow
      BY DEF HandInv, QueueTypes
    <2>2. CASE task[t].status = "running" /\ ~task[t].leased
      <3>1. task'[t] = [task[t] EXCEPT !.status = "pending", !.owner = None]
        BY <1>1, <2>2 DEF SweepLeases
      <3> QED BY <2>1, <3>1 DEF TaskRow
    <2>3. CASE ~(task[t].status = "running" /\ ~task[t].leased)
      <3>1. task'[t] = task[t]
        BY <1>1, <2>3 DEF SweepLeases
      <3> QED BY <2>1, <3>1
    <2> QED BY <2>2, <2>3
  <1>5. task' \in [Tasks -> TaskRow]
    <2>1. task' = [t \in Tasks |-> task'[t]]
      BY <1>1 DEF SweepLeases
    <2> QED BY <2>1, <1>4
  <1>6. QueueTypes' /\ HandPlaces'
    BY <1>3, <1>5 DEF HandInv, QueueTypes, HandPlaces, QuietWorkers
  <1>7. ClaimHeld'
    <2> SUFFICES ASSUME Sole', NEW v \in Workers, NEW t \in Tasks
                 PROVE  /\ worker'[v].task = t => task'[t].status = "running" /\ task'[t].owner = v
                        /\ task'[t].status = "running" /\ worker'[v].boots > 0
                             => worker'[v].task = t \/ worker'[v].at = "down"
      BY DEF ClaimHeld, Sole, At
    <2>1. Sole
      BY <1>3 DEF Sole, QuietWorkers
    <2>2. \A u \in Tasks : ~Running(u)
      BY <1>2, <2>1, NothingRuns
    <2>3. task'[t].status # "running"
      BY <1>4, <2>2 DEF Running
    <2>4. worker'[v].task # t
      BY <1>3, <2>1, <2>2, HeldWhenSole DEF HandInv, QuietWorkers
    <2> QED BY <2>3, <2>4
  <1> QED
    BY <1>6, <1>7 DEF HandInv

LEMMA ClaimOneInv ==
    ASSUME HandInv, NEW w \in Workers, NEW t \in Tasks, ClaimOne(w, t)
    PROVE  HandInv'
  <1>1. /\ At(w, "claim") /\ ClaimTask(w, t)
        /\ worker' = [worker EXCEPT ![w].at = "handle", ![w].task = t]
    BY DEF ClaimOne
  <1>2. worker[w].task \notin Tasks /\ ~At(w, "down")
    BY <1>1 DEF HandInv, HandPlaces, At
  <1>3. /\ worker' \in [Workers -> WorkerRow]
        /\ worker'[w].boots = worker[w].boots /\ worker'[w].task = t
        /\ worker'[w].at = "handle"
        /\ \A v \in Workers : v # w => worker'[v] = worker[v]
    BY <1>1 DEF HandInv, QueueTypes, WorkerRow, Places
  <1> DEFINE row == [task[t] EXCEPT !.status = "running", !.owner = w, !.leased = TRUE]
  <1>4. row \in TaskRow /\ row.status = "running" /\ row.owner = w
    BY DEF HandInv, QueueTypes, TaskRow
  <1>5. task' = [task EXCEPT ![t] = row]
    BY <1>1 DEF ClaimTask
  <1> HIDE DEF row
  <1>6. QueueTypes' /\ HandPlaces'
    BY <1>2, <1>3, <1>4, <1>5 DEF HandInv, QueueTypes, HandPlaces, At
  <1>7. ClaimHeld'
    <2> SUFFICES ASSUME Sole', NEW v \in Workers, NEW u \in Tasks
                 PROVE  /\ worker'[v].task = u => task'[u].status = "running" /\ task'[u].owner = v
                        /\ task'[u].status = "running" /\ worker'[v].boots > 0
                             => worker'[v].task = u \/ worker'[v].at = "down"
      BY DEF ClaimHeld, Sole, At
    <2>1. Sole
      BY <1>3 DEF Sole
    <2>2. \A x \in Tasks : ~Running(x)
      BY <1>2, <2>1, NothingRuns
    <2>3. \A v1 \in Workers, x \in Tasks : worker[v1].task # x
      BY <2>1, <2>2, HeldWhenSole DEF HandInv
    <2>4. task'[t] = row /\ (u # t => task'[u] = task[u])
      BY <1>5 DEF HandInv, QueueTypes
    <2>5. worker[w].boots > 0
      BY <1>2 DEF HandInv, QueueTypes, WorkerRow, HandPlaces, At
    <2>6. worker'[v].boots > 0 => v = w
      BY <1>3, <2>5 DEF Sole
    <2>7. CASE u = t
      BY <2>3, <2>4, <2>6, <2>7, <1>3, <1>4
    <2>8. CASE u # t
      BY <2>2, <2>3, <2>4, <2>8, <1>3 DEF Running
    <2> QED BY <2>7, <2>8
  <1> QED
    BY <1>6, <1>7 DEF HandInv

\* The outcome of the task in hand.
LEMMA OutcomeInv ==
    ASSUME HandInv, NEW w \in Workers, At(w, "report"), worker[w].task \in Tasks,
           NEW row \in TaskRow, row.status # "running",
           task' = [task EXCEPT ![worker[w].task] = row], EndTick(w)
    PROVE  HandInv'
  <1>1. /\ worker' \in [Workers -> WorkerRow]
        /\ worker'[w].task = None /\ worker'[w].at = "sweep"
        /\ worker'[w].boots = worker[w].boots
        /\ \A v \in Workers : v # w => worker'[v] = worker[v]
    BY EndTickRow
  <1>2. worker[w].boots # 0
    BY DEF HandInv, HandPlaces, At
  <1>3. QueueTypes' /\ HandPlaces'
    BY <1>1, <1>2, NoneIsNoTask DEF HandInv, QueueTypes, HandPlaces
  <1>4. ClaimHeld'
    <2> SUFFICES ASSUME Sole', NEW v \in Workers, NEW u \in Tasks
                 PROVE  /\ worker'[v].task = u => task'[u].status = "running" /\ task'[u].owner = v
                        /\ task'[u].status = "running" /\ worker'[v].boots > 0
                             => worker'[v].task = u \/ worker'[v].at = "down"
      BY DEF ClaimHeld, Sole, At
    <2>1. Sole
      BY <1>1 DEF Sole
    <2>2. worker[w].boots > 0
      BY <1>2 DEF HandInv, QueueTypes, WorkerRow
    <2>3. \A x \in Tasks : Running(x) => worker[w].task = x
      BY <2>1, <2>2, HeldWhenSole DEF HandInv, At
    <2>4. task'[u].status # "running"
      BY <2>3 DEF Running, HandInv, QueueTypes
    <2>5. worker'[v].task # u
      <3>1. CASE v = w
        BY <3>1, <1>1, NoneIsNoTask
      <3>2. CASE v # w
        <4>1. worker[v].boots = 0
          BY <3>2, <2>1, <2>2 DEF Sole, HandInv, QueueTypes, WorkerRow
        <4> QED BY <3>2, <4>1, <1>1 DEF HandInv, HandPlaces
      <3> QED BY <3>1, <3>2
    <2> QED BY <2>4, <2>5
  <1> QED
    BY <1>3, <1>4 DEF HandInv

LEMMA CompleteInv ==
    ASSUME HandInv, NEW w \in Workers, Complete(w)
    PROVE  HandInv'
  <1>1. At(w, "report") /\ CompleteTask(worker[w].task) /\ EndTick(w)
    BY DEF Complete
  <1>2. worker[w].task \in Tasks
    BY <1>1 DEF HandInv, HandPlaces, At
  <1> DEFINE row == [task[worker[w].task] EXCEPT !.status = "done"]
  <1>3. row \in TaskRow /\ row.status # "running"
    BY <1>2 DEF HandInv, QueueTypes, TaskRow
  <1>4. task' = [task EXCEPT ![worker[w].task] = row]
    BY <1>1 DEF CompleteTask
  <1> HIDE DEF row
  <1> QED
    BY <1>1, <1>2, <1>3, <1>4, OutcomeInv

LEMMA FailInv ==
    ASSUME HandInv, NEW w \in Workers, Fail(w)
    PROVE  HandInv'
  <1>1. At(w, "report") /\ FailTask(worker[w].task) /\ EndTick(w)
    BY DEF Fail
  <1>2. worker[w].task \in Tasks
    BY <1>1 DEF HandInv, HandPlaces, At
  <1> DEFINE row == Attempted(task[worker[w].task])
  <1>3. row \in TaskRow /\ row.status # "running"
    BY <1>2, AttemptedRow DEF HandInv, QueueTypes
  <1>4. task' = [task EXCEPT ![worker[w].task] = row]
    BY <1>1 DEF FailTask
  <1> HIDE DEF row
  <1> QED
    BY <1>1, <1>2, <1>3, <1>4, OutcomeInv

\* A place of the tick at which no task is in hand.
LEMMA NoTaskAt ==
    ASSUME HandInv, NEW w \in Workers, worker[w].at \notin {"handle", "report"}
    PROVE  worker[w].task \notin Tasks
  BY DEF HandInv, HandPlaces

LEMMA TickHandInv ==
    ASSUME HandInv, NEW w \in Workers, TickStep(w)
    PROVE  HandInv'
  <1>1. CASE SweepStep(w)
    BY <1>1, SweepInv
  <1>2. CASE SchedulesBegin(w)
    <2>1. worker[w].task \notin Tasks /\ QuietTasks
      BY <1>2, NoTaskAt, SameTasks DEF SchedulesBegin, At, queueVars
    <2>2. QuietWorkers
      BY <1>2, <2>1, GoQuiet DEF SchedulesBegin, At, Places
    <2> QED BY <2>1, <2>2, QuietInv
  <1>3. CASE PassQuiet(w)
    BY <1>3, SameTasks, SameWorkers, QuietInv DEF PassQuiet, queueVars
  <1>4. CASE SchedulesEnd(w)
    <2>1. worker[w].task \notin Tasks /\ QuietTasks
      BY <1>4, NoTaskAt, SameTasks DEF SchedulesEnd, At, queueVars
    <2>2. QuietWorkers
      BY <1>4, <2>1, GoQuiet DEF SchedulesEnd, At, Places
    <2> QED BY <2>1, <2>2, QuietInv
  <1>5. CASE EventsBegin(w)
    <2>1. worker[w].task \notin Tasks /\ QuietTasks
      BY <1>5, NoTaskAt, SameTasks DEF EventsBegin, At, queueVars
    <2>2. QuietWorkers
      BY <1>5, <2>1, GoQuiet DEF EventsBegin, At, Places
    <2> QED BY <2>1, <2>2, QuietInv
  <1>6. CASE Dispatch(w)
    BY <1>6, SameTasks, SameWorkers, QuietInv DEF Dispatch, queueVars
  <1>7. CASE EventsEnd(w)
    <2>1. worker[w].task \notin Tasks /\ QuietTasks
      BY <1>7, NoTaskAt, SameTasks DEF EventsEnd, At, queueVars
    <2>2. QuietWorkers
      BY <1>7, <2>1, GoQuiet DEF EventsEnd, At, Places
    <2> QED BY <2>1, <2>2, QuietInv
  <1>8. CASE Eligible(w)
    <2>1. worker[w].task \notin Tasks /\ QuietTasks
      BY <1>8, NoTaskAt, SameTasks DEF Eligible, At, queueVars
    <2>2. PICK place \in {"claim", "sweep"} : Go(w, place)
      BY <1>8 DEF Eligible
    <2>3. QuietWorkers
      BY <1>8, <2>1, <2>2, GoQuiet DEF Eligible, At, Places
    <2> QED BY <2>1, <2>3, QuietInv
  <1>9. CASE ClaimNone(w)
    <2>1. worker[w].task = None /\ QuietTasks
      BY <1>9, NoTaskAt, SameTasks DEF ClaimNone, At, queueVars, HandInv, QueueTypes, WorkerRow
    <2>2. QuietWorkers
      BY <1>9, <2>1, EndTickRow, NoneIsNoTask DEF ClaimNone, QuietWorkers, At, HandInv, HandPlaces
    <2> QED BY <2>1, <2>2, QuietInv
  <1>10. CASE \E t \in Tasks : PassEnqueue(w, t)
    <2>1. PICK t \in Tasks : PassEnqueue(w, t)
      BY <1>10
    <2>2. QuietTasks
      BY <2>1, EnqueueQuiet, WorkerKinds DEF PassEnqueue, PassFire, EnqueueRun
    <2> QED BY <2>1, <2>2, SameWorkers, QuietInv DEF PassEnqueue
  <1>11. CASE \E t \in Tasks : ClaimOne(w, t)
    BY <1>11, ClaimOneInv
  <1>12. CASE \E o \in Outcomes : Handle(w, o) \/ RunOp(w, o)
    <2>1. PICK o \in Outcomes : Handle(w, o) \/ RunOp(w, o)
      BY <1>12
    <2>2. worker[w].task \in Tasks /\ Report(w, o)
      BY <2>1 DEF Handle, RunOp, At, HandInv, HandPlaces
    <2>3. QuietTasks
      BY <2>1, SameTasks DEF Handle, RunOp, queueVars
    <2> QED BY <2>2, <2>3, ReportQuiet, QuietInv
  <1>13. CASE Complete(w)
    BY <1>13, CompleteInv
  <1>14. CASE Fail(w)
    BY <1>14, FailInv
  <1> QED
    BY <1>1, <1>2, <1>3, <1>4, <1>5, <1>6, <1>7, <1>8, <1>9, <1>10, <1>11, <1>12, <1>13, <1>14
       DEF TickStep

LEMMA HandStepInv == HandInv /\ [Next]_vars => HandInv'
  <1> SUFFICES ASSUME HandInv, [Next]_vars PROVE HandInv'
    OBVIOUS
  <1>1. CASE UNCHANGED vars
    BY <1>1, SameTasks, SameWorkers, QuietInv DEF vars, queueVars
  <1>2. CASE \E w \in Workers : TickStep(w)
    BY <1>2, TickHandInv
  <1>3. CASE \E w \in Workers : Boot(w)
    BY <1>3, BootInv
  <1>4. CASE \E w \in Workers : Crash(w)
    BY <1>4, CrashInv
  <1>5. CASE \E w \in Workers : StoreFault(w)
    <2>1. PICK w \in Workers : StoreFault(w)
      BY <1>5
    <2>2. QuietTasks
      BY <2>1, SameTasks DEF StoreFault, queueVars
    <2>3. QuietWorkers
      <3>1. CASE worker' = worker
        BY <3>1, SameWorkers
      <3>2. CASE At(w, "report") /\ Report(w, "error")
        BY <3>2, ReportQuiet DEF At, HandInv, HandPlaces, Outcomes
      <3> QED BY <2>1, <3>1, <3>2 DEF StoreFault
    <2> QED BY <2>2, <2>3, QuietInv
  <1>6. CASE RunRequest
    <2>1. PICK s \in Schedules, t \in Tasks : RunNow(s, t)
      BY <1>6 DEF RunRequest
    <2>2. QuietTasks
      BY <2>1, EnqueueQuiet, WorkerKinds DEF RunNow, EnqueueRun
    <2> QED BY <1>6, <2>2, SameWorkers, QuietInv DEF RunRequest
  <1>7. CASE SubmitRequest
    <2>1. PICK t \in Tasks, j \in Jobs : Enqueue(t, j)
      BY <1>7 DEF SubmitRequest
    <2>2. QuietTasks
      BY <2>1, EnqueueQuiet, WorkerKinds
    <2> QED BY <1>7, <2>2, SameWorkers, QuietInv DEF SubmitRequest
  <1>8. CASE LeaseTime
    BY <1>8, LeaseQuiet, SameWorkers, QuietInv DEF LeaseTime
  <1>9. CASE \/ ScheduleRequest \/ UpdateRequest \/ SkipRequest \/ EmitRequest
             \/ Clock \/ RetryTime
    <2>1. task' = task /\ worker' = worker
      BY <1>9 DEF ScheduleRequest, UpdateRequest, SkipRequest, EmitRequest, Clock, RetryTime,
                  ComesDue, queueVars
    <2> QED BY <2>1, SameTasks, SameWorkers, QuietInv
  <1> QED
    BY <1>1, <1>2, <1>3, <1>4, <1>5, <1>6, <1>7, <1>8, <1>9 DEF Next

LEMMA HandAlways == Spec => []HandInv
  <1>1. WorkerInit => HandInv
    BY HandInitInv DEF WorkerInit
  <1>2. HandInv /\ [Next]_vars => HandInv'
    BY HandStepInv
  <1> QED
    BY <1>1, <1>2, PTL DEF Spec

-----------------------------------------------------------------------------
(* Skips, passes and the run log against the clock.                        *)

DueRow == [sid : Schedules, at : Nat, cron : Crons]
PassRecord == [stage : {"out", "next", "fire", "advance"}, now : Nat, rows : SUBSET DueRow,
               row : DueRow \cup {NoDue}]
LogRecord == [sid : Schedules \cup {None}, at : Nat, by : {"cron", "request", None},
              status : {"queued", "done", "failed", None}]

SchedOK == \A s \in Schedules :
    /\ sched[s].next \in Nat
    /\ Exists(s) => sched[s].cron \in Crons
ReqOK == \A q \in Requests :
    /\ req[q].op = "update" => /\ req[q].sid \in Schedules /\ req[q].cron \in Crons
                               /\ req[q].at \in Nat
    /\ req[q].op = "skip" => req[q].sid \in Schedules /\ req[q].at \in Nat
\* A pass has only occurrences in hand that were due when it began.
PassOK == \A w \in Workers :
    /\ pass[w] \in PassRecord
    /\ \A r \in pass[w].rows : r.at <= clock
    /\ pass[w].stage \in {"fire", "advance"} => pass[w].row \in DueRow /\ pass[w].row.at <= clock
LogOK == \A t \in Tasks : log[t] \in LogRecord /\ (log[t].by = "cron" => log[t].at <= clock)
SkipsOK == \A k \in skips : k.at \in Nat
\* An early skip is seen by every firing that has not happened.
FireClear == \A w \in Workers, k \in skips :
    pass[w].stage = "fire" /\ k.early => ~(k.sid = pass[w].row.sid /\ k.at = pass[w].row.at)

ScheduleDomains == /\ clock \in Nat
                   /\ DOMAIN sched = Schedules /\ DOMAIN req = Requests
                   /\ DOMAIN pass = Workers /\ DOMAIN log = Tasks

SkipInv == /\ ScheduleDomains /\ SchedOK /\ ReqOK /\ PassOK /\ LogOK /\ SkipsOK
           /\ FireClear /\ SkipHonoured

LEMMA LeastExists ==
    ASSUME NEW T \in SUBSET Nat, T # {}
    PROVE  \E x \in T : \A y \in T : x <= y
  <1> DEFINE R == OpToRel(<, Nat)
  <1>1. IsWellFoundedOn(R, Nat)
    BY NatLessThanWellFounded
  <1>2. \A x, y \in Nat : y < x => <<y, x>> \in R
    BY DEF OpToRel
  <1> HIDE DEF R
  <1>3. PICK x \in T : \A y \in T : ~(<<y, x>> \in R)
    BY <1>1, WFMin
  <1>4. \A y \in T : x <= y
    <2> SUFFICES ASSUME NEW y \in T PROVE x <= y
      OBVIOUS
    <2>1. x \in Nat /\ y \in Nat /\ ~(y < x)
      BY <1>2, <1>3
    <2> QED BY <2>1
  <1> QED
    BY <1>4

\* The next run of an expression is one of its instants after now, or never.
LEMMA NextRunIn ==
    ASSUME NEW c \in Crons, NEW now
    PROVE  /\ NextRun(c, now) \in {i \in c : i > now} \cup {Never}
           /\ NextRun(c, now) \in Nat
  <1> DEFINE later == {i \in c : i > now}
  <1>1. later \in SUBSET Nat
    <2>1. c \subseteq Times
      BY CronAssumption
    <2>2. Times \subseteq Nat
      BY TimeAssumption DEF Times
    <2> QED BY <2>1, <2>2
  <1>2. Never \in Nat
    BY TimeAssumption DEF Never
  <1>3. CASE later = {}
    <2>1. NextRun(c, now) = Never
      BY <1>3 DEF NextRun, Earliest
    <2> QED BY <1>2, <2>1
  <1>4. CASE later # {}
    <2> HIDE DEF later
    <2>1. \E i \in later : \A j \in later : i <= j
      BY <1>1, <1>4, LeastExists
    <2>2. NextRun(c, now) \in later
      BY <1>4, <2>1 DEF NextRun, Earliest, later
    <2> QED BY <1>1, <2>2 DEF later
  <1> QED
    BY <1>3, <1>4

LEMMA SkipInitInv == WorkerInit => SkipInv
  <1> SUFFICES ASSUME WorkerInit PROVE SkipInv
    OBVIOUS
  <1>1. SchedulerInit
    BY DEF WorkerInit
  <1>2. /\ \A s \in Schedules : sched[s].next = 0 /\ sched[s].life = "absent"
        /\ \A t \in Tasks : log[t] = NoLog
        /\ \A q \in Requests : req[q].op = None
        /\ \A w \in Workers : pass[w] = NoPass
        /\ skips = {} /\ clock = 0
    BY <1>1 DEF SchedulerInit, NoSchedule, NoRequest
  <1>3. ScheduleDomains
    BY <1>1 DEF SchedulerInit, ScheduleDomains
  <1>4. NoLog \in LogRecord /\ NoLog.at = 0 /\ NoPass \in PassRecord /\ NoPass.stage = "out" /\ NoPass.rows = {}
    BY DEF NoLog, LogRecord, NoPass, PassRecord
  <1> QED
    BY <1>2, <1>3, <1>4, RequestNone
       DEF SkipInv, SchedOK, Exists, ReqOK, PassOK, LogOK, SkipsOK, FireClear, SkipHonoured

\* What requests and firings do to the skips and the log they are judged by.
LEMMA SchedOnly ==
    ASSUME SkipInv, UNCHANGED <<clock, skips, log, pass>>, SchedOK', ReqOK',
           DOMAIN sched' = Schedules, DOMAIN req' = Requests
    PROVE  SkipInv'
  <1>1. ScheduleDomains' /\ PassOK' /\ LogOK' /\ SkipsOK' /\ FireClear'
    BY DEF SkipInv, ScheduleDomains, PassOK, LogOK, SkipsOK, FireClear
  <1>2. SkipHonoured'
    BY DEF SkipInv, SkipHonoured, FiredAt
  <1> QED
    BY <1>1, <1>2 DEF SkipInv

LEMMA CreateInv ==
    ASSUME SkipInv, NEW s \in Schedules, NEW c \in Crons, CreateSchedule(s, c)
    PROVE  SkipInv'
  <1> DEFINE n == NextRun(c, clock)
  <1>1. n \in Nat
    BY NextRunIn
  <1>2. /\ sched' = [sched EXCEPT ![s] = [life |-> "live", enabled |-> TRUE, cron |-> c, next |-> n]]
        /\ UNCHANGED <<clock, skips, log, pass, req>>
    BY DEF CreateSchedule
  <1> HIDE DEF n
  <1>3. SchedOK' /\ DOMAIN sched' = Schedules
    BY <1>1, <1>2 DEF SkipInv, SchedOK, ScheduleDomains, Exists
  <1>4. ReqOK' /\ DOMAIN req' = Requests
    BY <1>2 DEF SkipInv, ReqOK, ScheduleDomains
  <1> QED
    BY <1>2, <1>3, <1>4, SchedOnly

LEMMA ToggleInv ==
    ASSUME SkipInv, NEW s \in Schedules, NEW e, SetEnabled(s, e) \/ DeleteSchedule(s)
    PROVE  SkipInv'
  <1>1. UNCHANGED <<clock, skips, log, pass, req>>
    BY DEF SetEnabled, DeleteSchedule
  <1>2. ReqOK' /\ DOMAIN req' = Requests
    BY <1>1 DEF SkipInv, ReqOK, ScheduleDomains
  <1>3. CASE SetEnabled(s, e)
    <2>1. sched' = [sched EXCEPT ![s].enabled = e]
      BY <1>3 DEF SetEnabled
    <2>2. SchedOK' /\ DOMAIN sched' = Schedules
      <3>1. \A x \in Schedules : /\ sched'[x].next = sched[x].next
                                 /\ sched'[x].life = sched[x].life
                                 /\ sched'[x].cron = sched[x].cron
        BY <2>1 DEF SkipInv, ScheduleDomains
      <3> QED BY <2>1, <3>1 DEF SkipInv, SchedOK, ScheduleDomains, Exists
    <2> QED BY <1>1, <1>2, <2>2, SchedOnly
  <1>4. CASE DeleteSchedule(s)
    <2>1. /\ NoSchedule.life = "absent" /\ NoSchedule.next = 0
          /\ sched' = [sched EXCEPT ![s] = [NoSchedule EXCEPT !.life = "deleted"]]
      BY <1>4 DEF DeleteSchedule, NoSchedule
    <2>2. SchedOK' /\ DOMAIN sched' = Schedules
      BY <2>1 DEF SkipInv, SchedOK, ScheduleDomains, Exists, NoSchedule
    <2> QED BY <1>1, <1>2, <2>2, SchedOnly
  <1> QED
    BY <1>3, <1>4

LEMMA UpdateComputeInv ==
    ASSUME SkipInv, NEW q \in Requests, NEW s \in Schedules, NEW c \in Crons, NEW e,
           UpdateCompute(q, s, c, e)
    PROVE  SkipInv'
  <1> DEFINE n == NextRun(c, clock)
  <1>1. n \in Nat
    BY NextRunIn
  <1>2. /\ req' = [req EXCEPT ![q] = [op |-> "update", sid |-> s, cron |-> c, enabled |-> e, at |-> n]]
        /\ UNCHANGED <<clock, sched, skips, log, pass>>
    BY DEF UpdateCompute
  <1> HIDE DEF n
  <1>3. SchedOK' /\ DOMAIN sched' = Schedules
    BY <1>2 DEF SkipInv, SchedOK, ScheduleDomains, Exists
  <1>4. ReqOK' /\ DOMAIN req' = Requests
    BY <1>1, <1>2 DEF SkipInv, ReqOK, ScheduleDomains
  <1> QED
    BY <1>2, <1>3, <1>4, SchedOnly

LEMMA UpdateWriteInv ==
    ASSUME SkipInv, NEW q \in Requests, UpdateWrite(q)
    PROVE  SkipInv'
  <1> DEFINE r == req[q]
             row == [sched[r.sid] EXCEPT !.cron = r.cron, !.next = r.at,
                        !.enabled = IF r.enabled = None THEN @ ELSE r.enabled]
  <1>1. /\ r.op = "update" /\ r.sid \in Schedules /\ r.cron \in Crons /\ r.at \in Nat
        /\ UNCHANGED <<clock, skips, log, pass>>
    BY DEF UpdateWrite, SkipInv, ReqOK
  <1>2. sched' = IF Exists(r.sid) THEN [sched EXCEPT ![r.sid] = row] ELSE sched
    BY DEF UpdateWrite
  <1>3. req' = [req EXCEPT ![q] = NoRequest] /\ NoRequest.op = None
    BY DEF UpdateWrite, NoRequest
  <1> HIDE DEF r
  <1>4. Exists(r.sid) => row.cron = r.cron /\ row.next = r.at
    BY <1>1 DEF SkipInv, SchedOK, Exists
  <1> HIDE DEF row
  <1>5. SchedOK' /\ DOMAIN sched' = Schedules
    <2>1. DOMAIN sched' = Schedules
      BY <1>1, <1>2 DEF SkipInv, ScheduleDomains
    <2>2. \A s \in Schedules : sched'[s] = sched[s]
             \/ (s = r.sid /\ Exists(r.sid) /\ sched'[s] = row)
      BY <1>1, <1>2 DEF SkipInv, ScheduleDomains
    <2>3. SchedOK'
      BY <1>1, <1>4, <2>2 DEF SkipInv, SchedOK, Exists
    <2> QED BY <2>1, <2>3
  <1>6. ReqOK' /\ DOMAIN req' = Requests
    BY <1>3, RequestNone DEF SkipInv, ReqOK, ScheduleDomains
  <1> QED
    BY <1>1, <1>5, <1>6, SchedOnly

LEMMA SkipCheckInv ==
    ASSUME SkipInv, NEW q \in Requests, NEW s \in Schedules, NEW at \in Times, SkipCheck(q, s, at)
    PROVE  SkipInv'
  <1> DEFINE row == [NoRequest EXCEPT !.op = "skip", !.sid = s, !.at = at]
  <1>1. req' = [req EXCEPT ![q] = row] /\ UNCHANGED <<clock, sched, skips, log, pass>>
    BY DEF SkipCheck
  <1>2. row.op = "skip" /\ row.sid = s /\ row.at = at
    BY DEF NoRequest
  <1>3. at \in Nat
    BY TimeAssumption DEF Times
  <1> HIDE DEF row
  <1>4. SchedOK' /\ DOMAIN sched' = Schedules
    BY <1>1 DEF SkipInv, SchedOK, ScheduleDomains, Exists
  <1>5. ReqOK' /\ DOMAIN req' = Requests
    BY <1>1, <1>2, <1>3 DEF SkipInv, ReqOK, ScheduleDomains
  <1> QED
    BY <1>1, <1>4, <1>5, SchedOnly

\* An early skip is of an instant to come: nothing fired or fires at it.
LEMMA SkipWriteInv ==
    ASSUME SkipInv, NEW q \in Requests, SkipWrite(q)
    PROVE  SkipInv'
  <1> DEFINE r == req[q]
             new == [sid |-> r.sid, at |-> r.at, early |-> clock < r.at]
  <1>1. /\ r.op = "skip" /\ r.sid \in Schedules /\ r.at \in Nat /\ clock \in Nat
        /\ UNCHANGED <<clock, sched, log, pass>>
    BY DEF SkipWrite, SkipInv, ReqOK, ScheduleDomains
  <1>2. /\ skips' \subseteq skips \cup {new}
        /\ req' = [req EXCEPT ![q] = NoRequest] /\ NoRequest.op = None
    BY DEF SkipWrite, NoRequest
  <1>3. new.sid = r.sid /\ new.at = r.at /\ (new.early => clock < r.at)
    OBVIOUS
  <1> HIDE DEF r, new
  <1>4. ScheduleDomains' /\ SchedOK' /\ PassOK' /\ LogOK'
    BY <1>1, <1>2 DEF SkipInv, ScheduleDomains, SchedOK, Exists, PassOK, LogOK
  <1>5. ReqOK'
    BY <1>2, RequestNone DEF SkipInv, ReqOK, ScheduleDomains
  <1>6. SkipsOK'
    BY <1>1, <1>2, <1>3 DEF SkipInv, SkipsOK
  <1>7. FireClear'
    <2> SUFFICES ASSUME NEW w \in Workers, NEW k \in skips', pass[w].stage = "fire", k.early,
                        k.sid = pass[w].row.sid, k.at = pass[w].row.at
                 PROVE  FALSE
      BY <1>1 DEF FireClear
    <2>1. pass[w].row.at \in Nat /\ pass[w].row.at <= clock
      BY DEF SkipInv, PassOK, DueRow
    <2>2. CASE k = new
      BY <2>1, <2>2, <1>1, <1>3
    <2>3. CASE k \in skips
      BY <2>3 DEF SkipInv, FireClear
    <2> QED BY <2>2, <2>3, <1>2
  <1>8. SkipHonoured'
    <2> SUFFICES ASSUME NEW k \in skips', k.early, NEW t \in Tasks,
                        log[t].sid = k.sid, log[t].at = k.at, log[t].by = "cron"
                 PROVE  FALSE
      BY <1>1 DEF SkipHonoured, FiredAt
    <2>1. log[t].at \in Nat /\ log[t].at <= clock
      BY DEF SkipInv, LogOK, LogRecord
    <2>2. CASE k = new
      BY <2>1, <2>2, <1>1, <1>3
    <2>3. CASE k \in skips
      BY <2>3 DEF SkipInv, SkipHonoured, FiredAt
    <2> QED BY <2>2, <2>3, <1>2
  <1> QED
    BY <1>4, <1>5, <1>6, <1>7, <1>8 DEF SkipInv

LEMMA UnskipInv ==
    ASSUME SkipInv, NEW s \in Schedules, NEW at, Unskip(s, at)
    PROVE  SkipInv'
  <1>1. skips' \subseteq skips /\ UNCHANGED <<clock, sched, log, pass, req>>
    BY DEF Unskip
  <1> QED
    BY <1>1 DEF SkipInv, ScheduleDomains, SchedOK, Exists, ReqOK, PassOK, LogOK, SkipsOK, FireClear,
                SkipHonoured, FiredAt

\* A pass that fires nothing: its rows are of now or earlier.
LEMMA PassOnly ==
    ASSUME SkipInv, UNCHANGED <<clock, skips, log, req>>, SchedOK', PassOK', FireClear',
           DOMAIN sched' = Schedules, DOMAIN pass' = Workers
    PROVE  SkipInv'
  <1>1. ScheduleDomains' /\ ReqOK' /\ LogOK' /\ SkipsOK'
    BY DEF SkipInv, ScheduleDomains, ReqOK, LogOK, SkipsOK
  <1>2. SkipHonoured'
    BY DEF SkipInv, SkipHonoured, FiredAt
  <1> QED
    BY <1>1, <1>2 DEF SkipInv

LEMMA PassBeginInv ==
    ASSUME SkipInv, NEW w \in Workers, PassBegin(w)
    PROVE  SkipInv'
  <1> DEFINE new == [stage |-> "next", now |-> clock, rows |-> Due(clock), row |-> NoDue]
  <1>1. pass' = [pass EXCEPT ![w] = new] /\ UNCHANGED <<clock, sched, skips, log, req>>
    BY DEF PassBegin
  <1>2. \A r \in Due(clock) : r \in DueRow /\ r.at <= clock
    BY DEF Due, DueRow, SkipInv, SchedOK
  <1>3. new \in PassRecord /\ new.stage = "next" /\ new.rows = Due(clock)
    BY <1>2 DEF PassRecord, SkipInv, ScheduleDomains
  <1> HIDE DEF new
  <1>4. DOMAIN pass' = Workers /\ \A v \in Workers : pass'[v] = IF v = w THEN new ELSE pass[v]
    BY <1>1 DEF SkipInv, ScheduleDomains
  <1>5. PassOK' /\ FireClear'
    BY <1>1, <1>2, <1>3, <1>4 DEF SkipInv, ScheduleDomains, PassOK, FireClear
  <1>6. SchedOK' /\ DOMAIN sched' = Schedules
    BY <1>1 DEF SkipInv, ScheduleDomains, SchedOK, Exists
  <1> QED
    BY <1>1, <1>4, <1>5, <1>6, PassOnly

\* The lookup is of the occurrence that fires.
LEMMA PassRowInv ==
    ASSUME SkipInv, NEW w \in Workers, NEW row \in pass[w].rows, PassRow(w, row)
    PROVE  SkipInv'
  <1> DEFINE stage == IF IsSkipped(row) THEN "advance" ELSE "fire"
             new == [pass[w] EXCEPT !.rows = pass[w].rows \ {row}, !.row = row, !.stage = stage]
  <1>1. pass' = [pass EXCEPT ![w] = new] /\ UNCHANGED <<clock, sched, skips, log, req>>
    BY DEF PassRow
  <1>2. row \in DueRow /\ row.at <= clock /\ pass[w] \in PassRecord
    BY DEF SkipInv, PassOK, PassRecord
  <1>3. stage \in {"advance", "fire"} /\ (stage = "fire" => ~IsSkipped(row))
    OBVIOUS
  <1> HIDE DEF stage
  <1>4. DOMAIN pass' = Workers /\ \A v \in Workers : v # w => pass'[v] = pass[v]
    BY <1>1 DEF SkipInv, ScheduleDomains
  <1>5. /\ new \in PassRecord /\ new.row = row /\ new.stage = stage
        /\ new.rows = pass[w].rows \ {row}
    BY <1>2, <1>3 DEF PassRecord
  <1> HIDE DEF new
  <1>6. pass'[w] = new
    BY <1>1 DEF SkipInv, ScheduleDomains
  <1>7. PassOK'
    BY <1>1, <1>2, <1>4, <1>5, <1>6 DEF SkipInv, PassOK
  <1>8. FireClear'
    BY <1>1, <1>3, <1>4, <1>5, <1>6 DEF SkipInv, FireClear, IsSkipped
  <1>9. SchedOK' /\ DOMAIN sched' = Schedules
    BY <1>1 DEF SkipInv, ScheduleDomains, SchedOK, Exists
  <1> QED
    BY <1>1, <1>4, <1>7, <1>8, <1>9, PassOnly

\* The occurrence that fires is of now or earlier, and no early skip is of it.
LEMMA PassFireInv ==
    ASSUME SkipInv, NEW w \in Workers, NEW t \in Tasks, PassFire(w, t)
    PROVE  SkipInv'
  <1> DEFINE row == pass[w].row
             new == [sid |-> row.sid, at |-> row.at, by |-> "cron", status |-> "queued"]
  <1>1. /\ pass[w].stage = "fire" /\ pass' = [pass EXCEPT ![w].stage = "advance"]
        /\ log' = [log EXCEPT ![t] = new] /\ UNCHANGED <<clock, sched, skips, req>>
    BY DEF PassFire, EnqueueRun
  <1>2. row \in DueRow /\ row.at <= clock /\ pass[w] \in PassRecord
    BY <1>1 DEF SkipInv, PassOK
  <1>3. new \in LogRecord /\ new.sid = row.sid /\ new.at = row.at
    BY <1>2 DEF DueRow, LogRecord
  <1>4. [pass[w] EXCEPT !.stage = "advance"] \in PassRecord
    BY <1>2 DEF PassRecord
  <1>5. /\ DOMAIN pass' = Workers /\ DOMAIN log' = Tasks
        /\ \A v \in Workers : v # w => pass'[v] = pass[v]
        /\ pass'[w] \in PassRecord /\ pass'[w].row = row /\ pass'[w].rows = pass[w].rows
        /\ pass'[w].stage = "advance"
        /\ \A u \in Tasks : log'[u] = IF u = t THEN new ELSE log[u]
    BY <1>1, <1>2, <1>4 DEF SkipInv, ScheduleDomains, PassRecord
  <1> HIDE DEF row, new
  <1>6. PassOK'
    BY <1>1, <1>2, <1>5 DEF SkipInv, PassOK
  <1>7. LogOK'
    BY <1>1, <1>2, <1>3, <1>5 DEF SkipInv, LogOK
  <1>8. FireClear'
    BY <1>1, <1>5 DEF SkipInv, FireClear
  <1>9. ScheduleDomains' /\ SchedOK' /\ ReqOK' /\ SkipsOK'
    BY <1>1, <1>5 DEF SkipInv, ScheduleDomains, SchedOK, Exists, ReqOK, SkipsOK
  <1>10. SkipHonoured'
    <2> SUFFICES ASSUME NEW k \in skips, k.early, NEW u \in Tasks,
                        log'[u].sid = k.sid, log'[u].at = k.at, log'[u].by = "cron"
                 PROVE  FALSE
      BY <1>1 DEF SkipHonoured, FiredAt
    <2>1. CASE u = t
      BY <2>1, <1>1, <1>3, <1>5 DEF SkipInv, FireClear, row
    <2>2. CASE u # t
      BY <2>2, <1>5 DEF SkipInv, SkipHonoured, FiredAt
    <2> QED BY <2>1, <2>2
  <1> QED
    BY <1>6, <1>7, <1>8, <1>9, <1>10 DEF SkipInv

LEMMA PassAdvanceInv ==
    ASSUME SkipInv, NEW w \in Workers, PassAdvance(w)
    PROVE  SkipInv'
  <1> DEFINE s == pass[w].row.sid
             n == NextRun(pass[w].row.cron, pass[w].now)
  <1>1. /\ pass[w].stage = "advance"
        /\ sched' = IF Exists(s) THEN [sched EXCEPT ![s].next = n] ELSE sched
        /\ pass' = [pass EXCEPT ![w].stage = "next"]
        /\ UNCHANGED <<clock, skips, log, req>>
    BY DEF PassAdvance
  <1>2. pass[w].row \in DueRow /\ pass[w] \in PassRecord
    BY <1>1 DEF SkipInv, PassOK
  <1>3. s \in Schedules /\ n \in Nat
    BY <1>2, NextRunIn DEF DueRow
  <1>4. /\ DOMAIN pass' = Workers
        /\ \A v \in Workers : v # w => pass'[v] = pass[v]
        /\ pass'[w] \in PassRecord /\ pass'[w].rows = pass[w].rows /\ pass'[w].stage = "next"
    BY <1>1, <1>2 DEF SkipInv, ScheduleDomains, PassRecord
  <1> HIDE DEF s, n
  <1>5. PassOK' /\ FireClear'
    BY <1>1, <1>4 DEF SkipInv, PassOK, FireClear
  <1>6. DOMAIN sched' = Schedules
    BY <1>1 DEF SkipInv, ScheduleDomains
  <1>7. SchedOK'
    <2>1. CASE Exists(s)
      <3>1. \A x \in Schedules : x # s => sched'[x] = sched[x]
        BY <1>1, <2>1 DEF SkipInv, ScheduleDomains
      <3>2. sched'[s] = [sched[s] EXCEPT !.next = n]
        BY <1>1, <1>3, <2>1 DEF SkipInv, ScheduleDomains
      <3>3. sched'[s].life = sched[s].life /\ sched'[s].cron = sched[s].cron
        BY <3>2
      <3>4. sched'[s].next \in Nat
        BY <1>3, <3>2 DEF SkipInv, SchedOK
      <3> QED BY <3>1, <3>3, <3>4 DEF SkipInv, SchedOK, Exists
    <2>2. CASE ~Exists(s)
      BY <1>1, <2>2 DEF SkipInv, SchedOK, Exists
    <2> QED BY <2>1, <2>2
  <1> QED
    BY <1>1, <1>4, <1>5, <1>6, <1>7, PassOnly

\* A pass that ends, is dropped with its process, or passes over a row.
LEMMA PassQuietInv ==
    ASSUME SkipInv, NEW w \in Workers, UNCHANGED <<clock, sched, skips, log, req>>,
           pass' \in {[pass EXCEPT ![w].stage = "next"], [pass EXCEPT ![w] = NoPass]}
    PROVE  SkipInv'
  <1>1. NoPass \in PassRecord /\ NoPass.rows = {} /\ NoPass.stage = "out"
    BY DEF NoPass, PassRecord
  <1>2. pass[w] \in PassRecord
    BY DEF SkipInv, PassOK
  <1>3. /\ DOMAIN pass' = Workers
        /\ \A v \in Workers : v # w => pass'[v] = pass[v]
        /\ pass'[w] \in PassRecord /\ pass'[w].rows \subseteq pass[w].rows
        /\ pass'[w].stage \in {"next", "out"}
    BY <1>1, <1>2 DEF SkipInv, ScheduleDomains, PassRecord
  <1>4. PassOK' /\ FireClear'
    BY <1>3 DEF SkipInv, PassOK, FireClear
  <1>5. SchedOK' /\ DOMAIN sched' = Schedules
    BY DEF SkipInv, ScheduleDomains, SchedOK, Exists
  <1> QED
    BY <1>3, <1>4, <1>5, PassOnly

\* The run log gets a row by request, or an outcome.
LEMMA LogOnlyInv ==
    ASSUME SkipInv, NEW t \in Tasks, NEW row \in LogRecord, log' = [log EXCEPT ![t] = row],
           row.by # "cron" \/ (row.by = log[t].by /\ row.sid = log[t].sid /\ row.at = log[t].at),
           UNCHANGED <<clock, sched, skips, pass, req>>
    PROVE  SkipInv'
  <1>1. DOMAIN log' = Tasks /\ \A u \in Tasks : log'[u] = IF u = t THEN row ELSE log[u]
    BY DEF SkipInv, ScheduleDomains
  <1>2. LogOK'
    BY <1>1 DEF SkipInv, LogOK
  <1>3. SkipHonoured'
    BY <1>1 DEF SkipInv, SkipHonoured, FiredAt
  <1>4. ScheduleDomains' /\ SchedOK' /\ ReqOK' /\ PassOK' /\ SkipsOK' /\ FireClear'
    BY <1>1 DEF SkipInv, ScheduleDomains, SchedOK, Exists, ReqOK, PassOK, SkipsOK, FireClear
  <1> QED
    BY <1>2, <1>3, <1>4 DEF SkipInv

LEMMA TickInv ==
    ASSUME SkipInv, Tick PROVE SkipInv'
  <1>1. clock' = clock + 1 /\ UNCHANGED <<sched, skips, log, pass, req>>
    BY DEF Tick
  <1>2. clock \in Nat
    BY DEF SkipInv, ScheduleDomains
  <1>3. ScheduleDomains' /\ SchedOK' /\ ReqOK' /\ SkipsOK' /\ FireClear'
    BY <1>1, <1>2 DEF SkipInv, ScheduleDomains, SchedOK, Exists, ReqOK, SkipsOK, FireClear
  <1>4. PassOK'
    BY <1>1, <1>2 DEF SkipInv, PassOK, PassRecord, DueRow
  <1>5. LogOK'
    BY <1>1, <1>2 DEF SkipInv, LogOK, LogRecord
  <1>6. SkipHonoured'
    BY <1>1 DEF SkipInv, SkipHonoured, FiredAt
  <1> QED
    BY <1>3, <1>4, <1>5, <1>6 DEF SkipInv

LEMMA SameSchedules ==
    ASSUME SkipInv, UNCHANGED scheduleVars PROVE SkipInv'
  BY DEF scheduleVars, SkipInv, ScheduleDomains, SchedOK, Exists, ReqOK, PassOK, LogOK, SkipsOK,
         FireClear, SkipHonoured, FiredAt

LEMMA TickStepSkips ==
    ASSUME SkipInv, HandInv, NEW w \in Workers, TickStep(w)
    PROVE  SkipInv'
  <1>1. CASE UNCHANGED scheduleVars
    BY <1>1, SameSchedules
  <1>2. CASE SchedulesBegin(w)
    BY <1>2, PassBeginInv DEF SchedulesBegin
  <1>3. CASE PassQuiet(w)
    <2>1. CASE \E row \in pass[w].rows : PassRow(w, row)
      BY <2>1, PassRowInv
    <2>2. CASE PassFull(w)
      BY <2>2, PassQuietInv DEF PassFull
    <2>3. CASE PassAdvance(w)
      BY <2>3, PassAdvanceInv
    <2> QED BY <1>3, <2>1, <2>2, <2>3 DEF PassQuiet
  <1>4. CASE SchedulesEnd(w)
    BY <1>4, PassQuietInv DEF SchedulesEnd, PassEnd
  <1>5. CASE \E t \in Tasks : PassEnqueue(w, t)
    BY <1>5, PassFireInv DEF PassEnqueue
  <1>6. CASE \E o \in Outcomes : RunOp(w, o)
    <2>1. PICK o \in Outcomes : RunOp(w, o)
      BY <1>6
    <2>2. PICK t \in Tasks : t = worker[w].task
      BY <2>1 DEF RunOp, At, HandInv, HandPlaces
    <2>3. PICK st \in {"done", "failed"} : FinalizeRun(t, st)
      BY <2>1, <2>2 DEF RunOp
    <2> DEFINE row == [log[t] EXCEPT !.status = st]
    <2>4. log[t] \in LogRecord
      BY DEF SkipInv, LogOK
    <2>5. row \in LogRecord /\ row.by = log[t].by /\ row.sid = log[t].sid /\ row.at = log[t].at
      BY <2>4 DEF LogRecord
    <2>6. log' = [log EXCEPT ![t] = row] /\ UNCHANGED <<clock, sched, skips, pass, req>>
      BY <2>3 DEF FinalizeRun
    <2> HIDE DEF row
    <2> QED BY <2>5, <2>6, LogOnlyInv
  <1>7. CASE \/ SweepStep(w) \/ EventsBegin(w) \/ Dispatch(w) \/ EventsEnd(w)
             \/ Eligible(w) \/ ClaimNone(w) \/ Complete(w) \/ Fail(w)
    BY <1>1, <1>7 DEF SweepStep, EventsBegin, Dispatch, EventsEnd, Eligible, ClaimNone, Complete, Fail
  <1>8. CASE \/ \E t \in Tasks : ClaimOne(w, t)
             \/ \E o \in Outcomes : Handle(w, o)
    BY <1>1, <1>8 DEF ClaimOne, Handle
  <1> QED
    BY <1>2, <1>3, <1>4, <1>5, <1>6, <1>7, <1>8 DEF TickStep

LEMMA SkipStepInv == SkipInv /\ HandInv /\ [Next]_vars => SkipInv'
  <1> SUFFICES ASSUME SkipInv, HandInv, [Next]_vars PROVE SkipInv'
    OBVIOUS
  <1>1. CASE UNCHANGED vars
    BY <1>1, SameSchedules DEF vars
  <1>2. CASE \E w \in Workers : TickStep(w)
    BY <1>2, TickStepSkips
  <1>3. CASE \E w \in Workers : Boot(w)
    BY <1>3, SameSchedules DEF Boot
  <1>4. CASE \E w \in Workers : Crash(w)
    BY <1>4, PassQuietInv DEF Crash
  <1>5. CASE \E w \in Workers : StoreFault(w)
    BY <1>5, PassQuietInv, SameSchedules DEF StoreFault
  <1>6. CASE ScheduleRequest
    <2>1. CASE \E s \in Schedules, c \in Crons : CreateSchedule(s, c)
      BY <2>1, CreateInv
    <2>2. CASE \E s \in Schedules, e \in BOOLEAN : SetEnabled(s, e)
      BY <2>2, ToggleInv
    <2>3. CASE \E s \in Schedules : DeleteSchedule(s)
      BY <2>3, ToggleInv
    <2> QED BY <1>6, <2>1, <2>2, <2>3 DEF ScheduleRequest
  <1>7. CASE UpdateRequest
    BY <1>7, UpdateComputeInv, UpdateWriteInv DEF UpdateRequest
  <1>8. CASE SkipRequest
    BY <1>8, SkipCheckInv, SkipWriteInv, UnskipInv DEF SkipRequest
  <1>9. CASE RunRequest
    <2>1. PICK s \in Schedules, t \in Tasks : RunNow(s, t)
      BY <1>9 DEF RunRequest
    <2> DEFINE row == [sid |-> s, at |-> clock, by |-> "request", status |-> "queued"]
    <2>2. row \in LogRecord /\ row.by = "request"
      BY DEF LogRecord, SkipInv, ScheduleDomains
    <2>3. log' = [log EXCEPT ![t] = row] /\ UNCHANGED <<clock, sched, skips, pass, req>>
      BY <2>1 DEF RunNow, EnqueueRun
    <2> HIDE DEF row
    <2> QED BY <2>2, <2>3, LogOnlyInv
  <1>10. CASE Clock
    BY <1>10, TickInv DEF Clock
  <1>11. CASE SubmitRequest \/ EmitRequest \/ RetryTime \/ LeaseTime
    BY <1>11, SameSchedules DEF SubmitRequest, EmitRequest, RetryTime, LeaseTime
  <1> QED
    BY <1>1, <1>2, <1>3, <1>4, <1>5, <1>6, <1>7, <1>8, <1>9, <1>10, <1>11 DEF Next

-----------------------------------------------------------------------------

\* A skip made in time holds: its occurrence is never fired as long as it
\* stands, whatever updates, toggles, late passes, crashes and failing writes
\* come between the steps of any number of workers and requests (make_skip,
\* run_due_schedules).
THEOREM SkipsHold == Spec => []SkipHonoured
  <1>1. WorkerInit => SkipInv
    BY SkipInitInv
  <1>2. SkipInv /\ HandInv /\ [Next]_vars => SkipInv'
    BY SkipStepInv
  <1>3. SkipInv => SkipHonoured
    BY DEF SkipInv
  <1> QED
    BY <1>1, <1>2, <1>3, HandAlways, PTL DEF Spec

\* Every execution is visible: with one worker, a task is running exactly
\* while it is in its hands or waits for the next boot, whatever leases expire,
\* handlers raise and processes die (claim_task, sweep_expired_leases,
\* recover_orphan_tasks).
THEOREM ExecutionsVisible == Spec => []ClaimHeld
  <1>1. HandInv => ClaimHeld
    BY DEF HandInv
  <1> QED
    BY <1>1, HandAlways, PTL

\* The claim of an event locks its entity: any number of dispatchers that
\* claim, crash and retry never hold two events of an entity (claim_events).
THEOREM EntityLocked == Spec => []OneInFlight
  <1>1. OutboxInv => OneInFlight
    BY HeldAlone
  <1> QED
    BY <1>1, OutboxAlways, PTL

\* The events of an entity reach every subscriber in their order, through
\* failures, retries and dead letters (claim_events, dispatch_one).
THEOREM EventsInOrder == Spec => []EntityOrder
  <1>1. OutboxInv => EntityOrder
    BY DEF OutboxInv
  <1> QED
    BY <1>1, OutboxAlways, PTL

-----------------------------------------------------------------------------
(* The refinement: each step of the outbox is a step of ordered delivery.  *)

\* What is in dispatch is the turn of its entity.
LEMMA HeadHasTurn ==
    ASSUME OutboxInv, NEW w \in Dispatchers, drain[w].batch # <<>>
    PROVE  Delivery!Turn(InHand(w))
  <1>1. InHand(w) \in Events /\ Open(InHand(w)) /\ FirstOfEntity(InHand(w))
    BY HeadInHand
  <1>2. PICK e \in Events : e = InHand(w)
    BY <1>1
  <1>3. ASSUME NEW f \in Events, f < e, event[f].entity = event[e].entity
        PROVE  event[f].status \in {"delivered", "dead"}
    <2>1. event[f].status # "absent"
      BY <1>1, <1>2, <1>3 DEF OutboxInv, EmittedInOrder, Open
    <2>2. ~Open(f)
      BY <1>1, <1>2, <1>3 DEF FirstOfEntity, Events
    <2> QED
      BY <2>1, <2>2 DEF Open, OutboxInv, OutboxTypes, EventRow
  <1>4. Delivery!Turn(e)
    BY <1>1, <1>2, <1>3 DEF Delivery!Turn, Open
  <1> QED
    BY <1>2, <1>4

LEMMA EmitPublishes ==
    ASSUME OutboxInv, NEW e \in Events, NEW x \in Entities, Emit(e, x)
    PROVE  Delivery!Publish(e, x)
  <1> DEFINE row == [NoEvent EXCEPT !.status = "open", !.entity = x]
  <1>1. row.status = "open" /\ row.entity = x
    BY DEF NoEvent
  <1>2. event' = [event EXCEPT ![e] = row] /\ UNCHANGED calls
    BY DEF Emit
  <1> HIDE DEF row
  <1>3. event'[e] = row /\ \A f \in Events : f # e => event'[f] = event[f]
    BY <1>2 DEF OutboxInv, OutboxTypes
  <1>4. /\ [f \in Events |-> event'[f].status] =
              [[f \in Events |-> event[f].status] EXCEPT ![e] = "open"]
        /\ [f \in Events |-> event'[f].entity] =
              [[f \in Events |-> event[f].entity] EXCEPT ![e] = x]
    BY <1>1, <1>3
  <1> QED
    BY <1>2, <1>4 DEF Delivery!Publish, Emit

LEMMA CallHears ==
    ASSUME OutboxInv, NEW w \in Dispatchers, CallReturns(w)
    PROVE  \E e \in Events, s \in Subscribers : Delivery!Hear(s, e)
  <1> DEFINE Heard(c) == {p \in Subscribers \X Events : c[p[1]][p[2]] > 0}
  <1>1. drain[w].batch # <<>> /\ drain[w].sub \in Subscribers
    BY DEF CallReturns, AtSubscriber
  <1>2. InHand(w) \in Events /\ Delivery!Turn(InHand(w))
    BY <1>1, HeadInHand, HeadHasTurn
  <1>3. PICK e \in Events, s \in Subscribers : e = InHand(w) /\ s = drain[w].sub
    BY <1>1, <1>2
  <1>4. calls' = [calls EXCEPT ![s][e] = @ + 1] /\ UNCHANGED event
    BY <1>3 DEF CallReturns
  <1>5. calls \in [Subscribers -> [Events -> Nat]]
    BY DEF OutboxInv, OutboxTypes
  <1>6. /\ calls'[s][e] > 0
        /\ \A t \in Subscribers, f \in Events : t # s \/ f # e => calls'[t][f] = calls[t][f]
    BY <1>4, <1>5
  <1>7. Heard(calls') = Heard(calls) \cup {<<s, e>>}
    BY <1>6
  <1>8. Delivery!Hear(s, e)
    BY <1>2, <1>3, <1>4, <1>7 DEF Delivery!Hear
  <1> QED
    BY <1>8

\* A settlement delivers, gives up, or leaves the event for a retry.
LEMMA SettleOutcome ==
    ASSUME OutboxInv, NEW w \in Dispatchers, Settle(w)
    PROVE  \/ \E e \in Events : Delivery!Deliver(e) \/ Delivery!GiveUp(e)
           \/ UNCHANGED Delivery!deliveryVars
  <1>1. drain[w].batch # <<>> /\ drain[w].sub > MaxSubs
    BY DEF Settle
  <1>2. InHand(w) \in Events /\ Open(InHand(w)) /\ Delivery!Turn(InHand(w))
    BY <1>1, HeadInHand, HeadHasTurn
  <1>3. PICK e \in Events : e = InHand(w)
    BY <1>2
  <1> DEFINE row == Outcome(event[e], drain[w].failed)
  <1>4. event' = [event EXCEPT ![e] = row] /\ UNCHANGED calls
    BY <1>3 DEF Settle
  <1>5. event[e] \in EventRow /\ drain[w].failed \in BOOLEAN /\ event[e].status = "open"
    BY <1>2, <1>3 DEF OutboxInv, OutboxTypes, DrainRow, Open
  <1>6. /\ row.entity = event[e].entity
        /\ row.status \in {"open", "delivered", "dead"}
        /\ row.status = "delivered" => ~drain[w].failed
    BY <1>5, OutcomeRow
  <1> HIDE DEF row
  <1>7. event'[e] = row /\ \A f \in Events : f # e => event'[f] = event[f]
    BY <1>4 DEF OutboxInv, OutboxTypes
  <1>8. /\ [f \in Events |-> event'[f].status] =
              [[f \in Events |-> event[f].status] EXCEPT ![e] = row.status]
        /\ [f \in Events |-> event'[f].entity] = [f \in Events |-> event[f].entity]
    BY <1>6, <1>7
  <1>9. CASE row.status = "delivered"
    <2>1. \A s \in Subscribers : <<s, e>> \in processed
      <3>1. drain[w].sub \in Nat
        BY DEF OutboxInv, OutboxTypes, DrainRow
      <3>2. \A s \in Subscribers : s < drain[w].sub
        BY <1>1, <3>1, OutboxBounds DEF Subscribers
      <3>3. ~drain[w].failed
        BY <1>6, <1>9
      <3> QED
        BY <1>1, <1>3, <3>2, <3>3 DEF OutboxInv, DispatchTrue
    <2>2. \A s \in Subscribers : calls[s][e] > 0
      BY <2>1 DEF OutboxInv, HandledCalled
    <2>3. \A s \in Subscribers : <<s, e>> \in {p \in Subscribers \X Events : calls[p[1]][p[2]] > 0}
      BY <2>2
    <2>4. Delivery!Deliver(e)
      BY <1>2, <1>3, <1>4, <1>8, <1>9, <2>3 DEF Delivery!Deliver
    <2> QED
      BY <2>4
  <1>10. CASE row.status = "dead"
    <2>1. Delivery!GiveUp(e)
      BY <1>2, <1>3, <1>4, <1>8, <1>10 DEF Delivery!GiveUp
    <2> QED
      BY <2>1
  <1>11. CASE row.status = "open"
    <2>1. [f \in Events |-> event'[f].status] = [f \in Events |-> event[f].status]
      BY <1>5, <1>8, <1>11
    <2> QED
      BY <1>4, <1>8, <2>1 DEF Delivery!deliveryVars
  <1> QED
    BY <1>6, <1>9, <1>10, <1>11

\* A step that calls nobody and leaves status and entity of every event is none
\* of the delivery.
LEMMA UnheardSteps ==
    ASSUME UNCHANGED calls,
           \A e \in Events : /\ event'[e].status = event[e].status
                             /\ event'[e].entity = event[e].entity
    PROVE  UNCHANGED Delivery!deliveryVars
  BY DEF Delivery!deliveryVars

LEMMA DeliveryStep == OutboxInv /\ OutboxStep => [Delivery!DeliveryNext]_(Delivery!deliveryVars)
  <1> SUFFICES ASSUME OutboxInv, OutboxStep
               PROVE  Delivery!DeliveryNext \/ UNCHANGED Delivery!deliveryVars
    OBVIOUS
  <1>1. CASE \E e \in Events, x \in Entities : Emit(e, x)
    BY <1>1, EmitPublishes DEF Delivery!DeliveryNext
  <1>2. ASSUME NEW w \in Dispatchers, ClaimEvents(w) PROVE UNCHANGED Delivery!deliveryVars
    <2>1. UNCHANGED calls
      BY <1>2 DEF ClaimEvents
    <2>2. \A e \in Events :
            event'[e] = event[e] \/ event'[e] = [event[e] EXCEPT !.claimed = TRUE]
      BY <1>2 DEF ClaimEvents
    <2>3. ASSUME NEW e \in Events
          PROVE  event'[e].status = event[e].status /\ event'[e].entity = event[e].entity
      <3>1. event[e] \in EventRow
        BY DEF OutboxInv, OutboxTypes
      <3>2. CASE event'[e] = event[e]
        BY <3>2
      <3>3. CASE event'[e] = [event[e] EXCEPT !.claimed = TRUE]
        BY <3>1, <3>3 DEF EventRow
      <3> QED BY <2>2, <3>2, <3>3
    <2> QED
      BY <2>1, <2>3, UnheardSteps
  <1>3. CASE \E w \in Dispatchers : CallReturns(w)
    BY <1>3, CallHears DEF Delivery!DeliveryNext
  <1>4. CASE \E w \in Dispatchers : \/ SkipHandled(w) \/ CallRaises(w)
                                    \/ MarkProcessed(w) \/ MarkRaises(w) \/ Forget(w)
    <2>1. UNCHANGED <<event, calls>>
      BY <1>4 DEF SkipHandled, CallRaises, MarkProcessed, MarkRaises, Forget
    <2> QED
      BY <2>1, UnheardSteps
  <1>5. CASE \E w \in Dispatchers : Settle(w)
    BY <1>5, SettleOutcome DEF Delivery!DeliveryNext
  <1>6. ASSUME NEW e \in Events, RetryDue(e) PROVE UNCHANGED Delivery!deliveryVars
    <2>1. event' = [event EXCEPT ![e].due = TRUE] /\ UNCHANGED calls
      BY <1>6 DEF RetryDue
    <2>2. \A f \in Events : /\ event'[f].status = event[f].status
                            /\ event'[f].entity = event[f].entity
      BY <2>1 DEF OutboxInv, OutboxTypes, EventRow
    <2> QED
      BY <2>1, <2>2, UnheardSteps
  <1>7. CASE UNCHANGED outboxVars
    BY <1>7, UnheardSteps DEF outboxVars
  <1> QED
    BY <1>1, <1>2, <1>3, <1>4, <1>5, <1>6, <1>7 DEF OutboxStep

\* The outbox delivers in order: claims in batches, callbacks, failing marks,
\* retries, dead letters and crashes of any number of dispatchers implement
\* the delivery of one event of an entity after the other, each to all
\* subscribers or given up (claim_events, dispatch_one, ack_event).
THEOREM DeliveryImplemented == Spec => DeliveryIsOrdered
  <1>1. WorkerInit => Delivery!DeliveryInit
    BY DEF WorkerInit, OutboxInit, NoEvent, Delivery!DeliveryInit
  <1>2. OutboxInv /\ [Next]_vars => [Delivery!DeliveryNext]_(Delivery!deliveryVars)
    BY DeliveryStep, StepsOutbox
  <1> QED
    BY <1>1, <1>2, OutboxAlways, PTL DEF Spec, DeliveryIsOrdered, Delivery!DeliverySpec
=============================================================================
