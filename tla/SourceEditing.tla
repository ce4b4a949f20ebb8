--------------------------- MODULE SourceEditing ---------------------------
(***************************************************************************)
(* The Sources page of the web console (pages/Sources/index.tsx): the list *)
(* and its selection, the preview pane with its tabs, the editor of the    *)
(* extracted text with its optimistic version check, the history with its  *)
(* restore, re-ingest and delete; and the operations of source_ops.py they *)
(* call.  Every write of the server appends a row to source_extractions.   *)
(*                                                                         *)
(* A change of React state and the effects it triggers are one action.     *)
(***************************************************************************)
EXTENDS Naturals, Sequences, FiniteSets

CONSTANTS
    Sources, Texts, None,
    Empty,        \* the text of a source that has no extraction, none of Texts
    MaxVersions,  \* bound: versions of a source
    MaxSaves,     \* bound: saves of the editor
    MaxMoves      \* bound: changes of the selection, the tab and the mode

VARIABLES
    content,    \* source_extractions: the texts of a source, by version
    condition,  \* sources.status
    listed,     \* the statuses in the cached list, None for a source not in it
    copy,       \* the cached answer of sources:get_extracted
    asked,      \* sources whose refetch was sent
    answer,     \* what the server answered to it
    chosen,     \* selectedId
    tab, startEditing,
    body,       \* ExtractedBody while it is mounted
    saves,      \* calls of put_extracted, oldest first
    removal,    \* the source a running delete was asked for
    listStale,  \* the list query is invalidated
    moves       \* changes of the selection, the tab and the mode so far

sourceVars == <<content, condition, listed, copy, asked, answer, chosen, tab, startEditing,
                body, saves, removal, listStale, moves>>

TextOf(s, v) == IF v = 0 THEN Empty ELSE content[s][v]
Current(s) == [text |-> TextOf(s, Len(content[s])), version |-> Len(content[s])]
Shown(cache, s) == IF cache[s] = None THEN [text |-> Empty, version |-> 0] ELSE cache[s]

\* ExtractedBody's state when it mounts, and when its effect sets it again.
Fresh(s, cache, start, saving) ==
    [text |-> Shown(cache, s).text, base |-> Shown(cache, s).text, editing |-> start, saving |-> saving]

\* Mutant: the effect depends on the source and the flag only.
BodyAfterKeepsText(s, cache, t, start) ==
    IF t # "extracted" \/ s = None THEN None
    ELSE IF body = None THEN Fresh(s, cache, start, FALSE)
    ELSE IF <<s, start>> = <<chosen, startEditing>> THEN body
    ELSE Fresh(s, cache, start, body.saving)

\* The body after a change: unmounted, mounted anew, kept, or reset by the effect on
\* s.id, extractedText and startEditing.
BodyAfter(s, cache, t, start) ==
    IF t # "extracted" \/ s = None THEN None
    ELSE IF body = None THEN Fresh(s, cache, start, FALSE)
    ELSE IF <<s, Shown(cache, s).text, start>> = <<chosen, Shown(copy, chosen).text, startEditing>> THEN body
    ELSE Fresh(s, cache, start, body.saving)

\* Unmounting the body cuts it from the promises it waits for.
SavesAfter(newBody) ==
    IF newBody = None THEN [i \in DOMAIN saves |-> [saves[i] EXCEPT !.orphan = TRUE]] ELSE saves

FirstTab(status) == IF status = "failed" THEN "extracted" ELSE "preview"

\* PreviewPane for source s under list l: its effect runs when the id or the status changed.
Pane(s, l) ==
    LET moved == s # chosen \/ (s # None /\ l[s] # listed[s])
        t == IF moved /\ s # None THEN FirstTab(l[s]) ELSE tab
        start == IF moved THEN FALSE ELSE startEditing
    IN /\ chosen' = s /\ tab' = t /\ startEditing' = start
       /\ body' = BodyAfter(s, copy, t, start)
       /\ saves' = SavesAfter(BodyAfter(s, copy, t, start))

-----------------------------------------------------------------------------
SourceInit ==
    /\ content \in [Sources -> {<<>>} \cup {<<x>> : x \in Texts}]
    /\ condition = [s \in Sources |-> IF content[s] = <<>> THEN "failed" ELSE "extracted"]
    /\ listed = condition
    /\ copy = [s \in Sources |-> None]
    /\ asked = {} /\ answer = [s \in Sources |-> None]
    /\ chosen = None /\ tab = "preview" /\ startEditing = FALSE /\ body = None
    /\ saves = <<>> /\ removal = None /\ listStale = FALSE /\ moves = 0

Move == moves < MaxMoves /\ moves' = moves + 1

\* selectSource, or the effect that selects the first source; useExtracted of the new
\* selection fetches unless its cached answer is fresh.
Select(s) ==
    /\ listed[s] # None /\ s # chosen /\ Move
    /\ Pane(s, listed)
    /\ \E fresh \in BOOLEAN : asked' = IF copy[s] # None /\ fresh THEN asked ELSE asked \cup {s}
    /\ UNCHANGED <<content, condition, listed, copy, answer, removal, listStale>>

OpenTab(t) ==
    /\ chosen # None /\ t # tab /\ Move
    /\ tab' = t
    /\ body' = BodyAfter(chosen, copy, t, startEditing)
    /\ saves' = SavesAfter(body')
    /\ UNCHANGED <<content, condition, listed, copy, asked, answer, chosen, startEditing, removal, listStale>>

\* The "Edit MD" button of the header.
EditMD ==
    /\ chosen # None /\ Move
    /\ tab' = "extracted" /\ startEditing' = TRUE
    /\ body' = BodyAfter(chosen, copy, "extracted", TRUE)
    /\ UNCHANGED <<content, condition, listed, copy, asked, answer, chosen, saves, removal, listStale>>

-----------------------------------------------------------------------------
(* The editor. *)

SameButBody == UNCHANGED <<content, condition, listed, copy, asked, answer, chosen, tab, startEditing, removal, listStale, moves>>

StartEdit ==
    /\ body # None /\ ~body.editing /\ Move
    /\ body' = [body EXCEPT !.editing = TRUE]
    /\ UNCHANGED <<content, condition, listed, copy, asked, answer, chosen, tab, startEditing, saves, removal, listStale>>

CancelEdit ==
    /\ body # None /\ body.editing /\ ~body.saving
    /\ body' = [Fresh(chosen, copy, FALSE, FALSE) EXCEPT !.saving = body.saving]
    /\ UNCHANGED saves /\ SameButBody

Type(x) ==
    /\ body # None /\ body.editing /\ body.text # x
    /\ body' = [body EXCEPT !.text = x]
    /\ UNCHANGED saves /\ SameButBody

\* handleSave: the draft goes out with the version shown now.
Save ==
    /\ body # None /\ body.editing /\ ~body.saving
    /\ Len(saves) < MaxSaves
    /\ body' = [body EXCEPT !.saving = TRUE]
    /\ saves' = Append(saves, [source |-> chosen, text |-> body.text, base |-> body.base,
                               expect |-> Shown(copy, chosen).version, stage |-> "sent", orphan |-> FALSE])
    /\ SameButBody

\* The version is compared in one statement and written in a later transaction.
SaveChecked(i) ==
    /\ saves[i].stage = "sent"
    /\ saves' = [saves EXCEPT ![i].stage =
                   IF saves[i].expect = Len(content[saves[i].source]) THEN "checked" ELSE "conflict"]
    /\ UNCHANGED body /\ SameButBody

\* set_source_extracted: one transaction appends the version and the status.
Written(s, x) ==
    /\ Len(content[s]) < MaxVersions
    /\ content' = [content EXCEPT ![s] = Append(@, x)]
    /\ condition' = [condition EXCEPT ![s] = "extracted"]

SaveWritten(i) ==
    /\ saves[i].stage = "checked"
    /\ Written(saves[i].source, saves[i].text)
    /\ saves' = [saves EXCEPT ![i].stage = "ok"]
    /\ UNCHANGED <<listed, copy, asked, answer, chosen, tab, startEditing, body, removal, listStale, moves>>

Over(i) == saves' = [saves EXCEPT ![i] = [@ EXCEPT !.stage = "done", !.text = Empty, !.base = Empty, !.expect = 0]]

\* usePutExtracted invalidates; the editor that asked closes, or keeps the draft.
SaveReturns(i) ==
    /\ saves[i].stage \in {"ok", "conflict"}
    /\ Over(i)
    /\ IF saves[i].stage = "ok"
         THEN /\ asked' = IF saves[i].source = chosen THEN asked \cup {chosen} ELSE asked
              /\ answer' = [answer EXCEPT ![saves[i].source] = None]
              /\ copy' = IF saves[i].source = chosen THEN copy ELSE [copy EXCEPT ![saves[i].source] = None]
         ELSE UNCHANGED <<asked, answer, copy>>
    /\ body' = IF saves[i].orphan THEN body
               ELSE [body EXCEPT !.saving = FALSE, !.editing = @ /\ saves[i].stage = "conflict"]
    /\ UNCHANGED <<content, condition, listed, chosen, tab, startEditing, removal, listStale, moves>>

\* The call is lost, or the answer of a save that was carried out: the editor keeps the draft
\* over the text of before, and nothing is invalidated.
SaveFails(i) ==
    /\ saves[i].stage \in {"sent", "ok"}
    /\ Over(i)
    /\ body' = IF saves[i].orphan THEN body ELSE [body EXCEPT !.saving = FALSE]
    /\ SameButBody

-----------------------------------------------------------------------------
(* The caches. *)

\* A refetch is answered by the server.
Answered(s) ==
    /\ s \in asked
    /\ asked' = asked \ {s}
    /\ answer' = [answer EXCEPT ![s] = Current(s)]
    /\ UNCHANGED <<content, condition, listed, copy, chosen, tab, startEditing, body, saves, removal, listStale, moves>>

Arrives(s) ==
    /\ answer[s] # None
    /\ copy' = [copy EXCEPT ![s] = answer[s]]
    /\ answer' = [answer EXCEPT ![s] = None]
    /\ IF s = chosen THEN body' = BodyAfter(s, copy', tab, startEditing) ELSE UNCHANGED body
    /\ UNCHANGED <<content, condition, listed, asked, chosen, tab, startEditing, saves, removal, listStale, moves>>

\* Invalidation of ['sources', project]: an event of the stream, a restore, a re-ingest.
InvalidateAll ==
    /\ listStale' = TRUE
    /\ answer' = [s \in Sources |-> None]
    /\ asked' = IF chosen = None THEN {} ELSE {chosen}
    /\ copy' = [s \in Sources |-> IF s = chosen THEN copy[s] ELSE None]

\* sources:list without the deleted ones; a source gone from it leaves the pane empty.
ListArrives ==
    /\ listStale /\ listStale' = FALSE
    /\ listed' = [s \in Sources |-> IF condition[s] = "deleted" THEN None ELSE condition[s]]
    /\ Pane(IF chosen # None /\ listed'[chosen] = None THEN None ELSE chosen, listed')
    /\ UNCHANGED <<content, condition, copy, asked, answer, removal, moves>>

-----------------------------------------------------------------------------
(* Writes that are not the editor's. *)

\* sources:reingest of any user, announced on the stream.
Reingest(s, x) ==
    /\ condition[s] # "deleted"
    /\ \/ Written(s, x)
       \/ /\ condition[s] # "failed"
          /\ condition' = [condition EXCEPT ![s] = "failed"] /\ UNCHANGED content
    /\ InvalidateAll
    /\ UNCHANGED <<listed, chosen, tab, startEditing, body, saves, removal, moves>>

\* HistoryBody: an older version is written again; the caches learn of it if the answer comes.
Restore(v) ==
    /\ tab = "history" /\ chosen # None
    /\ v < Len(content[chosen])
    /\ Written(chosen, content[chosen][v])
    /\ InvalidateAll \/ UNCHANGED <<copy, asked, answer, listStale>>
    /\ UNCHANGED <<listed, chosen, tab, startEditing, body, saves, removal, moves>>

Delete ==
    /\ tab = "details" /\ chosen # None /\ removal = None /\ condition[chosen] # "deleted"
    /\ removal' = chosen
    /\ UNCHANGED <<content, condition, listed, copy, asked, answer, chosen, tab, startEditing, body, saves, listStale, moves>>

\* onDeleted clears the selection, whichever source it is by then.
DeleteReturns ==
    /\ removal # None /\ removal' = None
    /\ condition' = [condition EXCEPT ![removal] = "deleted"]
    /\ listStale' = TRUE
    /\ Pane(None, listed)
    /\ UNCHANGED <<content, listed, copy, asked, answer, moves>>

\* The delete is refused or lost, or its answer is: the selection stays, be the source there or not.
DeleteFails ==
    /\ removal # None /\ removal' = None
    /\ condition' \in {condition, [condition EXCEPT ![removal] = "deleted"]}
    /\ UNCHANGED <<content, listed, copy, asked, answer, chosen, tab, startEditing, body, saves, listStale, moves>>

SourceNext ==
    \/ \E s \in Sources : Select(s) \/ Answered(s) \/ Arrives(s)
    \/ \E t \in {"preview", "extracted", "history", "details"} : OpenTab(t)
    \/ EditMD \/ StartEdit \/ CancelEdit \/ Save
    \/ \E x \in Texts : Type(x) \/ \E s \in Sources : Reingest(s, x)
    \/ \E i \in DOMAIN saves : SaveChecked(i) \/ SaveWritten(i) \/ SaveReturns(i) \/ SaveFails(i)
    \/ ListArrives
    \/ \E v \in 1..MaxVersions : Restore(v)
    \/ Delete \/ DeleteReturns \/ DeleteFails

SourceSpec == SourceInit /\ [][SourceNext]_sourceVars

-----------------------------------------------------------------------------
(* Properties. *)

\* The check of put_extracted protects an edit only if the version sent is that of the
\* text the draft was begun from: through refetches, selections, events and restores
\* between the two, it always is.
SaveNamesItsBase ==
    \A i \in DOMAIN saves : TextOf(saves[i].source, saves[i].expect) = saves[i].base

\* "version mismatch" (source_ops.py:244): a save never replaces a text it did not start from.
NoLostUpdate ==
    [][\A i \in DOMAIN saves :
          saves[i].stage = "checked" /\ saves'[i].stage = "ok"
          => saves[i].expect = Len(content[saves[i].source])]_sourceVars
=============================================================================
