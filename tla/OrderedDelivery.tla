--------------------------- MODULE OrderedDelivery ---------------------------
(***************************************************************************)
(* What the outbox promises its subscribers: the events of one entity are  *)
(* heard in the order of their emission, the next one only when the one    *)
(* before is delivered or given up, and an event is delivered when all     *)
(* subscribers have heard it.  Claims, batches, retries, marks, crashes    *)
(* and the number of dispatchers are no part of it.                        *)
(***************************************************************************)
EXTENDS Naturals

CONSTANTS Events,       \* natural numbers, emitted in their order
          Entities, Subscribers

VARIABLES life,     \* absent, open, delivered or dead
          about,    \* the entity of an event
          heard     \* pairs of a subscriber and an event

deliveryVars == <<life, about, heard>>

DeliveryInit ==
    /\ life = [e \in Events |-> "absent"]
    /\ about = [e \in Events |-> 0]
    /\ heard = {}

Publish(e, x) ==
    /\ life[e] = "absent"
    /\ \A f \in Events : f < e => life[f] # "absent"
    /\ life' = [life EXCEPT ![e] = "open"]
    /\ about' = [about EXCEPT ![e] = x]
    /\ UNCHANGED heard

\* It is the turn of an open event when the earlier ones of its entity are over.
Turn(e) ==
    /\ life[e] = "open"
    /\ \A f \in Events : f < e /\ about[f] = about[e] => life[f] \in {"delivered", "dead"}

Hear(s, e) ==
    /\ Turn(e)
    /\ heard' = heard \cup {<<s, e>>}
    /\ UNCHANGED <<life, about>>

Deliver(e) ==
    /\ Turn(e) /\ \A s \in Subscribers : <<s, e>> \in heard
    /\ life' = [life EXCEPT ![e] = "delivered"]
    /\ UNCHANGED <<about, heard>>

GiveUp(e) ==
    /\ Turn(e)
    /\ life' = [life EXCEPT ![e] = "dead"]
    /\ UNCHANGED <<about, heard>>

DeliveryNext ==
    \E e \in Events :
        \/ \E x \in Entities : Publish(e, x)
        \/ \E s \in Subscribers : Hear(s, e)
        \/ Deliver(e) \/ GiveUp(e)

DeliverySpec == DeliveryInit /\ [][DeliveryNext]_deliveryVars
==============================================================================
