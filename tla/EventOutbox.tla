----------------------------- MODULE EventOutbox -----------------------------
(***************************************************************************)
(* The transactional outbox: the tables event_outbox and processed_events, *)
(* emit, claim_events and the dispatch of a claimed batch to the           *)
(* subscribers (EventRegistry.dispatch_one).  The claim is a transaction,  *)
(* each ack, nack, dead letter and mark is one, and a callback runs        *)
(* outside of any.                                                         *)
(***************************************************************************)
EXTENDS Naturals, FiniteSets, Sequences

CONSTANTS
    Dispatchers,    \* processes that drain the outbox
    MaxEvents,      \* events are emitted in the order 1 .. MaxEvents
    Entities,       \* entity ids
    MaxSubs,        \* subscribers of the event type, in order of registration
    MaxDeliveries,  \* MAX_RETRIES of the outbox
    Batch           \* event_batch of worker_tick

Events == 1 .. MaxEvents
Subscribers == 1 .. MaxSubs

ASSUME OutboxBounds == /\ MaxEvents \in Nat
                       /\ MaxSubs \in Nat
                       /\ MaxDeliveries \in Nat
                       /\ Batch \in Nat \ {0}

VARIABLES
    event,      \* event[e]: the event_outbox row; enqueued_at is the order
    processed,  \* processed_events: pairs of a subscriber and an event
    calls,      \* calls[s][e]: callbacks that returned (auxiliary)
    drain       \* drain[w]: the events w claimed and has not settled; the first
                \* is in dispatch, sub is the subscriber it has come to

outboxVars == <<event, processed, calls, drain>>

NoEvent == [status |-> "absent", entity |-> 0, claimed |-> FALSE,
            retries |-> 0, due |-> TRUE]
NoDrain == [batch |-> <<>>, sub |-> 1, returned |-> FALSE, failed |-> FALSE]

OutboxInit ==
    /\ event = [e \in Events |-> NoEvent]
    /\ processed = {}
    /\ calls = [s \in Subscribers |-> [e \in Events |-> 0]]
    /\ drain = [w \in Dispatchers |-> NoDrain]

Open(e) == event[e].status = "open"

\* In the transaction of the change it reports.
Emit(e, x) ==
    /\ event[e].status = "absent"
    /\ \A f \in Events : f < e => event[f].status # "absent"
    /\ event' = [event EXCEPT ![e] = [NoEvent EXCEPT !.status = "open",
                                                     !.entity = x]]
    /\ UNCHANGED <<processed, calls, drain>>

\* Mutant of FirstOfEntity: a dead letter still counts as earlier.
FirstUndelivered(e) ==
    \A f \in Events : /\ event[f].status \in {"open", "dead"}
                      /\ event[f].entity = event[e].entity
                      => f >= e

\* The NOT EXISTS of claim_events.
FirstOfEntity(e) ==
    \A f \in Events : /\ Open(f)
                      /\ event[f].entity = event[e].entity
                      => f >= e

\* Mutants of the claim: without the order per entity; without the claim mark.
DeliverableAny(e) == Open(e) /\ ~event[e].claimed /\ event[e].due
DeliverableAgain(e) == Open(e) /\ event[e].due /\ FirstOfEntity(e)
Deliverable(e) == /\ Open(e)
                  /\ ~event[e].claimed
                  /\ event[e].due
                  /\ FirstOfEntity(e)

\* b is the deliverable events in order, at most Batch of them.
NextBatch(b) ==
    /\ \A i \in DOMAIN b : Deliverable(b[i])
    /\ \A i, j \in DOMAIN b : i < j => b[i] < b[j]
    /\ \A e \in Events : Deliverable(e) =>
          \/ \E i \in DOMAIN b : b[i] = e
          \/ Len(b) = Batch /\ \A i \in DOMAIN b : b[i] < e

ClaimEvents(w) ==
    /\ drain[w].batch = <<>>
    /\ \E n \in 0 .. Batch : \E b \in [1 .. n -> Events] :
          /\ NextBatch(b)
          /\ drain' = [drain EXCEPT ![w] = [NoDrain EXCEPT !.batch = b]]
          /\ event' = [e \in Events |->
                         IF \E i \in 1 .. n : b[i] = e
                         THEN [event[e] EXCEPT !.claimed = TRUE] ELSE event[e]]
    /\ UNCHANGED <<processed, calls>>

-----------------------------------------------------------------------------
(* dispatch_one: the subscribers one after the other, then the outcome.    *)

InHand(w) == Head(drain[w].batch)
AtSubscriber(w) == drain[w].batch # <<>> /\ drain[w].sub \in Subscribers
Handled(w) == <<drain[w].sub, InHand(w)>> \in processed

\* Mutant of NextSubscriber: a later success hides an earlier failure.
NextSubscriberOnly(w, failed) ==
    drain' = [drain EXCEPT ![w] =
                [drain[w] EXCEPT !.sub = drain[w].sub + 1, !.returned = FALSE,
                                 !.failed = failed]]

NextSubscriber(w, failed) ==
    drain' = [drain EXCEPT ![w] =
                [drain[w] EXCEPT !.sub = drain[w].sub + 1, !.returned = FALSE,
                                 !.failed = drain[w].failed \/ failed]]

SkipHandled(w) ==
    /\ AtSubscriber(w) /\ ~drain[w].returned
    /\ Handled(w)
    /\ NextSubscriber(w, FALSE)
    /\ UNCHANGED <<event, processed, calls>>

CallReturns(w) ==
    /\ AtSubscriber(w) /\ ~drain[w].returned
    /\ ~Handled(w)
    /\ calls' = [calls EXCEPT ![drain[w].sub][InHand(w)] = @ + 1]
    /\ drain' = [drain EXCEPT ![w].returned = TRUE]
    /\ UNCHANGED <<event, processed>>

CallRaises(w) ==
    /\ AtSubscriber(w) /\ ~drain[w].returned
    /\ ~Handled(w)
    /\ NextSubscriber(w, TRUE)
    /\ UNCHANGED <<event, processed, calls>>

\* Mutant of MarkProcessed: nothing is recorded.
MarkForgets(w) ==
    /\ AtSubscriber(w) /\ drain[w].returned
    /\ NextSubscriber(w, FALSE)
    /\ UNCHANGED <<event, processed, calls>>

MarkProcessed(w) ==
    /\ AtSubscriber(w) /\ drain[w].returned
    /\ processed' = processed \cup {<<drain[w].sub, InHand(w)>>}
    /\ NextSubscriber(w, FALSE)
    /\ UNCHANGED <<event, calls>>

\* mark_processed raises inside the same try as the callback.
MarkRaises(w) ==
    /\ AtSubscriber(w) /\ drain[w].returned
    /\ NextSubscriber(w, TRUE)
    /\ UNCHANGED <<event, processed, calls>>

Acked(row) == [row EXCEPT !.status = "delivered", !.claimed = FALSE]
DeadLettered(row) == [row EXCEPT !.status = "dead", !.claimed = FALSE]
Nacked(row) == [row EXCEPT !.retries = row.retries + 1, !.due = FALSE,
                           !.claimed = FALSE]

Outcome(row, failed) ==
    CASE ~failed -> Acked(row)
      [] failed /\ row.retries + 1 > MaxDeliveries -> DeadLettered(row)
      [] failed /\ row.retries + 1 <= MaxDeliveries -> Nacked(row)

Settle(w) ==
    /\ drain[w].batch # <<>>
    /\ drain[w].sub > MaxSubs
    /\ event' = [event EXCEPT ![InHand(w)] =
                    Outcome(event[InHand(w)], drain[w].failed)]
    /\ drain' = [drain EXCEPT ![w] =
                    [NoDrain EXCEPT !.batch = Tail(drain[w].batch)]]
    /\ UNCHANGED <<processed, calls>>

\* The process dies; claimed_at of its events stays set.
Forget(w) ==
    /\ drain' = [drain EXCEPT ![w] = NoDrain]
    /\ UNCHANGED <<event, processed, calls>>

RetryDue(e) ==
    /\ Open(e) /\ ~event[e].due
    /\ event' = [event EXCEPT ![e].due = TRUE]
    /\ UNCHANGED <<processed, calls, drain>>
=============================================================================
