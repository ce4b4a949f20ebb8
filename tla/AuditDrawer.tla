----------------------------- MODULE AuditDrawer -----------------------------
(***************************************************************************)
(* The audit drawer of the Wiki page (pages/Wiki/AuditDrawer.tsx): an      *)
(* audit is created by one call, run by the event stream the drawer opens  *)
(* next, and its suggestions are accepted one by one.  The stream is an    *)
(* EventSource: when the connection breaks the browser connects again, and *)
(* the server runs an audit that is not done from the start.               *)
(***************************************************************************)
EXTENDS Naturals, Sequences

CONSTANTS
    Topics, None,
    MaxAudits, MaxSuggestions, MaxBreaks,   \* bounds: audits, suggestions of all of them, broken connections
    MaxDecisions, MaxMoves                  \* bounds: accepts and dismissals; openings and changes of page

VARIABLES
    audits,       \* wiki_audits: sequence of [topic, status]
    suggestions,  \* wiki_audit_suggestions: sequence of [audit, status, writes: times written to the page]
    drawerOpen, drawerTopic, moves,
    running,      \* the drawer's flag
    shown,        \* sugs: sequence of [id, state]
    start,        \* the call that creates an audit: [topic, at, audit], or None
    stream,       \* the open EventSource: [audit, line], or None
    wire,         \* events sent and not yet delivered
    breaks,
    latest,       \* the cached latest audit of each topic: its pending suggestions, or None
    decisions     \* calls of wiki:accept_suggestion and wiki:dismiss_suggestion

auditVars == <<audits, suggestions, drawerOpen, drawerTopic, moves, running, shown,
               start, stream, wire, breaks, latest, decisions>>

AuditInit ==
    /\ audits = <<>> /\ suggestions = <<>>
    /\ drawerOpen = FALSE /\ drawerTopic \in Topics /\ moves = 0
    /\ running = FALSE /\ shown = <<>>
    /\ start = None /\ stream = None /\ wire = <<>> /\ breaks = 0
    /\ latest = [t \in Topics |-> None]
    /\ decisions = <<>>

SuggestionFromWire(i) == [id |-> i, state |-> "pending"]

\* The effect on [open, running, latest]: the cached audit replaces what is shown.
Reset(o, run, copy) == IF o /\ ~run /\ copy # None THEN copy ELSE shown

Server == <<audits, suggestions>>
Connection == <<start, stream, wire, breaks>>

-----------------------------------------------------------------------------
(* The drawer *)

OpenDrawer ==
    /\ ~drawerOpen /\ moves < MaxMoves
    /\ drawerOpen' = TRUE /\ moves' = moves + 1
    /\ shown' = Reset(TRUE, running, latest[drawerTopic])
    /\ UNCHANGED <<Server, drawerTopic, running, Connection, latest, decisions>>

\* Closing the drawer closes its stream, and leaves the flag.
CloseDrawer ==
    /\ drawerOpen
    /\ drawerOpen' = FALSE
    /\ stream' = None /\ wire' = <<>>
    /\ UNCHANGED <<Server, drawerTopic, moves, running, shown, start, breaks, latest, decisions>>

\* Another page is chosen: the drawer stays, with its suggestions until the page's own come.
Navigate(t) ==
    /\ t # drawerTopic /\ moves < MaxMoves
    /\ drawerTopic' = t /\ moves' = moves + 1
    /\ shown' = Reset(drawerOpen, running, latest[t])
    /\ UNCHANGED <<Server, drawerOpen, running, Connection, latest, decisions>>

\* The ids of S in the order of the table: the one enumeration there is.
InOrder(S) == {order \in UNION {[1..n -> S] : n \in 0..Len(suggestions)} :
    /\ S = {order[k] : k \in DOMAIN order}
    /\ \A k, l \in DOMAIN order : k < l => order[k] < order[l]}

PendingOf(t) ==
    LET ids == {k \in 1..Len(audits) : audits[k].topic = t} IN
    {i \in 1..Len(suggestions) :
        /\ suggestions[i].status = "pending" /\ suggestions[i].audit \in ids
        /\ \A j \in ids : j <= suggestions[i].audit}

\* The query of the latest audit answers: on a page's first show, on focus, never on an accept.
LatestComes(t) ==
    /\ t = drawerTopic
    /\ \E order \in InOrder(PendingOf(t)) :
        latest' = [latest EXCEPT ![t] = [k \in DOMAIN order |-> SuggestionFromWire(order[k])]]
    /\ shown' = Reset(drawerOpen, running, latest'[t])
    /\ UNCHANGED <<Server, drawerOpen, drawerTopic, moves, running, Connection, decisions>>

-----------------------------------------------------------------------------
(* An audit is run *)

\* A bug: an audit may start while another runs.
RunAuditAnyTime ==
    /\ drawerOpen /\ start = None
    /\ running' = TRUE /\ shown' = <<>>
    /\ start' = [topic |-> drawerTopic, at |-> "asked", audit |-> 0]
    /\ UNCHANGED <<Server, drawerOpen, drawerTopic, moves, stream, wire, breaks, latest, decisions>>

RunAudit ==
    /\ drawerOpen /\ ~running /\ start = None
    /\ running' = TRUE /\ shown' = <<>>
    /\ start' = [topic |-> drawerTopic, at |-> "asked", audit |-> 0]
    /\ UNCHANGED <<Server, drawerOpen, drawerTopic, moves, stream, wire, breaks, latest, decisions>>

\* The row is written under the status it keeps while it runs.
StartServed ==
    /\ start # None /\ start.at = "asked" /\ Len(audits) < MaxAudits
    /\ audits' = Append(audits, [topic |-> start.topic, status |-> "running"])
    /\ start' = [start EXCEPT !.at = "answered", !.audit = Len(audits')]
    /\ UNCHANGED <<suggestions, drawerOpen, drawerTopic, moves, running, shown, stream, wire, breaks, latest, decisions>>

\* The drawer opens the stream, be it closed by now or not.
StartReturns ==
    /\ start # None /\ start.at = "answered"
    /\ stream' = [audit |-> start.audit, line |-> "connecting"]
    /\ start' = None
    /\ UNCHANGED <<Server, drawerOpen, drawerTopic, moves, running, shown, wire, breaks, latest, decisions>>

\* The call fails, or the answer to one that was served: the audit is there and nobody runs it.
StartFails ==
    /\ start # None
    /\ start' = None
    /\ running' = FALSE
    /\ shown' = Reset(drawerOpen, FALSE, latest[drawerTopic])
    /\ UNCHANGED <<Server, drawerOpen, drawerTopic, moves, stream, wire, breaks, latest, decisions>>

SuggestionsOf(a) == {i \in 1..Len(suggestions) : suggestions[i].audit = a}
Done == [type |-> "done", id |-> 0]
Emitted(i) == [type |-> "suggestion", id |-> i]

\* The stream connects: an audit that is done is replayed, any other is run again; no
\* model of the audit's name is a refusal, after which the browser does not come back.
Connect ==
    /\ stream # None /\ stream.line = "connecting"
    /\ IF audits[stream.audit].status = "done"
       THEN /\ \E order \in InOrder(SuggestionsOf(stream.audit)) :
                wire' = Append([k \in DOMAIN order |-> Emitted(order[k])], Done)
            /\ stream' = [stream EXCEPT !.line = "open"]
       ELSE /\ wire' = <<>>
            /\ \E l \in {"open", "refused"} : stream' = [stream EXCEPT !.line = l]
    /\ UNCHANGED <<Server, drawerOpen, drawerTopic, moves, running, shown, start, breaks, latest, decisions>>

\* An audit that is not done is run by every connection, one that failed included; the
\* last event of a connection is Done or an error.
Streaming ==
    /\ stream # None /\ stream.line = "open"
    /\ wire # <<>> => wire[Len(wire)].type = "suggestion"

StreamEmits ==
    /\ Streaming /\ Len(suggestions) < MaxSuggestions
    /\ suggestions' = Append(suggestions, [audit |-> stream.audit, status |-> "pending", writes |-> 0])
    /\ wire' = Append(wire, Emitted(Len(suggestions')))
    /\ UNCHANGED <<audits, drawerOpen, drawerTopic, moves, running, shown, start, stream, breaks, latest, decisions>>

\* The model answered all, or failed.
StreamEnds ==
    /\ Streaming
    /\ \E s \in {"done", "failed"} :
        /\ audits' = [audits EXCEPT ![stream.audit].status = s]
        /\ wire' = Append(wire, IF s = "done" THEN Done ELSE [Done EXCEPT !.type = "error"])
    /\ UNCHANGED <<suggestions, drawerOpen, drawerTopic, moves, running, shown, start, stream, breaks, latest, decisions>>

\* What was sent and not delivered is lost; the browser connects again on its own.
StreamBreaks ==
    /\ stream # None /\ stream.line = "open" /\ breaks < MaxBreaks
    /\ stream' = [stream EXCEPT !.line = "connecting"]
    /\ wire' = <<>> /\ breaks' = breaks + 1
    /\ UNCHANGED <<Server, drawerOpen, drawerTopic, moves, running, shown, start, latest, decisions>>

\* done and error end the run, and with it the effect puts the cached audit back.
Delivered ==
    /\ wire # <<>>
    /\ LET event == Head(wire) IN
       IF event.type = "suggestion"
       THEN /\ shown' = Append(shown, SuggestionFromWire(event.id))
            /\ wire' = Tail(wire)
            /\ UNCHANGED <<running, stream>>
       ELSE /\ running' = FALSE
            /\ shown' = Reset(drawerOpen, FALSE, latest[drawerTopic])
            /\ stream' = None /\ wire' = <<>>
    /\ UNCHANGED <<Server, drawerOpen, drawerTopic, moves, start, breaks, latest, decisions>>

-----------------------------------------------------------------------------
(* A suggestion is decided *)

\* A bug: the card is marked when the call is sent.
DecideAtOnce(k, kind) ==
    /\ drawerOpen /\ k \in 1..Len(shown) /\ shown[k].state = "pending"
    /\ Len(decisions) < MaxDecisions
    /\ decisions' = Append(decisions, [id |-> shown[k].id, kind |-> kind, at |-> "asked"])
    /\ shown' = [shown EXCEPT ![k].state = "accepted"]
    /\ UNCHANGED <<Server, drawerOpen, drawerTopic, moves, running, Connection, latest>>

\* The card's buttons stay until the answer is there.
Decide(k, kind) ==
    /\ drawerOpen /\ k \in 1..Len(shown) /\ shown[k].state = "pending"
    /\ Len(decisions) < MaxDecisions
    /\ decisions' = Append(decisions, [id |-> shown[k].id, kind |-> kind, at |-> "asked"])
    /\ UNCHANGED <<Server, drawerOpen, drawerTopic, moves, running, shown, Connection, latest>>

At(d, stage) == d \in 1..Len(decisions) /\ decisions[d].at = stage
Moves(d, stage) == decisions' = [decisions EXCEPT ![d].at = stage]
DrawerKept == <<drawerOpen, drawerTopic, moves, running, Connection, latest>>

\* apply_suggestion: the status is read, then the page is written, then the status.
\* A dismissal names no project, and its action is one of a project: it is refused.
DecisionServed(d) ==
    /\ At(d, "asked")
    /\ Moves(d, IF decisions[d].kind = "accept" /\ suggestions[decisions[d].id].status = "pending"
                THEN "checked" ELSE "refused")
    /\ UNCHANGED <<Server, shown, DrawerKept>>

PageWritten(d) ==
    /\ At(d, "checked")
    /\ suggestions' = [suggestions EXCEPT ![decisions[d].id].writes = @ + 1]
    /\ Moves(d, "written")
    /\ UNCHANGED <<audits, shown, DrawerKept>>

StatusWritten(d) ==
    /\ At(d, "written")
    /\ suggestions' = [suggestions EXCEPT ![decisions[d].id].status = "accepted"]
    /\ Moves(d, "accepted")
    /\ UNCHANGED <<audits, shown, DrawerKept>>

\* The call may also fail at any of its steps, and its answer be lost.
DecisionFails(d) ==
    /\ \E at \in {"asked", "checked", "written", "refused", "accepted"} : At(d, at)
    /\ Moves(d, "over")
    /\ UNCHANGED <<Server, shown, DrawerKept>>

SetLocalState(d) == [k \in 1..Len(shown) |->
    IF shown[k].id = decisions[d].id THEN [shown[k] EXCEPT !.state = "accepted"] ELSE shown[k]]

\* A handler of the call itself: only the latest call's is run.
DecisionReturns(d) ==
    /\ At(d, "accepted")
    /\ shown' = IF \E e \in (d + 1)..Len(decisions) : decisions[e].kind = "accept"
                THEN shown ELSE SetLocalState(d)
    /\ Moves(d, "over")
    /\ UNCHANGED <<Server, DrawerKept>>

AuditStep == StartServed \/ StartReturns \/ StartFails \/ Connect \/ StreamEmits \/ StreamEnds \/ StreamBreaks \/ Delivered

AuditNext ==
    \/ OpenDrawer \/ CloseDrawer \/ RunAudit
    \/ \E t \in Topics : Navigate(t) \/ LatestComes(t)
    \/ AuditStep
    \/ \E k \in 1..MaxSuggestions + 2, kind \in {"accept", "dismiss"} : Decide(k, kind)
    \/ \E d \in 1..MaxDecisions :
           DecisionServed(d) \/ PageWritten(d) \/ StatusWritten(d) \/ DecisionReturns(d) \/ DecisionFails(d)

AuditSpec == AuditInit /\ [][AuditNext]_auditVars

-----------------------------------------------------------------------------
(* Properties *)

\* A card that says "Applied" stands for a suggestion that was written to its page, however
\* the latest audit, the stream and other decisions come in between.
AppliedWasWritten ==
    \A k \in 1..Len(shown) : shown[k].state = "accepted" =>
        suggestions[shown[k].id].status = "accepted" /\ suggestions[shown[k].id].writes > 0

\* The drawer has one audit at a time: a call that starts one and an open stream exclude
\* each other, and both come with the running flag; no stream is forgotten in favour of a second.
OneAuditAtATime ==
    /\ start # None => running /\ stream = None
    /\ stream # None => running

AuditSafe == AppliedWasWritten /\ OneAuditAtATime

\* "run, then accept / edit / dismiss the streamed suggestions" (AuditDrawer.tsx:3-4): an
\* audit that ends leaves its suggestions in the open drawer.  It does not: the effect puts
\* the cached audit of before the run back.
FinishedAuditStaysShown ==
    [][(running /\ ~running' /\ drawerOpen /\ Len(wire) > 0 /\ Head(wire).type = "done")
          => Len(shown') >= Len(shown)]_auditVars

\* A running flag has a call or a stream that may end it.
RunningHasCause == running => (start # None \/ stream # None)

=============================================================================
