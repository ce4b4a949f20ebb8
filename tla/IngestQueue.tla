---------------------------- MODULE IngestQueue ----------------------------
(***************************************************************************)
(* The "Ingest sources" modal of the web console (pages/Sources/           *)
(* IngestModal.tsx) and the upload calls it makes (hooks/useIngest.ts).    *)
(*                                                                         *)
(* The queue is React state, the picked files are a Map by name in a ref:  *)
(* a submission reads the rows of the moment of the click and the Map of   *)
(* the moment its links are done.  The Sources page keeps the modal        *)
(* mounted and resets it when it opens; the Home page mounts a new one.    *)
(***************************************************************************)
EXTENDS Naturals, Sequences, FiniteSets

CONSTANTS
    Names,     \* file names, and the names a row can be given
    Contents,  \* what a picked file holds
    Urls,      \* links
    Modes,     \* ingestion modes
    Wiki,      \* the mode of a new row, one of Modes
    Tags, Vaults, None,
    MaxRows,   \* bound: rows of a queue
    MaxOpens,  \* bound: openings of the modal
    MaxSubs,   \* bound: submissions
    MaxEdits   \* bound: changes of rows

VARIABLES
    host,         \* the page: "sources" keeps the modal mounted, "home" does not
    ingestOpen, vaultList, vaultPick,
    queue,        \* rows
    sel,          \* ids of the selected rows
    pending,      \* pendingFiles: name -> File, None where there is no entry
    ingestErrors, \* uploadErrors is not empty
    submitting,
    opens, edits, \* openings and changes so far
    subs,         \* the submissions, by number of the click
    ingested      \* the sources the server created for them

ingestView == <<ingestOpen, vaultList, vaultPick, queue, sel, pending, ingestErrors, submitting>>
ingestVars == <<host, ingestView, opens, edits, subs, ingested>>

NoFiles == [n \in Names |-> None]

\* norm and addUrl: the id of a file row carries its place and its name.
FileRow(n, place) == [id |-> <<"q", place, n>>, url |-> None, name |-> n, tags |-> {}, mode |-> Wiki]
UrlRow(u, stamp) == [id |-> <<"u", stamp, u>>, url |-> u, name |-> u, tags |-> {}, mode |-> Wiki]

\* The vault of the session: the one picked if the workspace has it, else the first.
ActiveVault ==
    IF \E i \in DOMAIN vaultList : vaultList[i] = vaultPick THEN vaultPick
    ELSE IF vaultList = <<>> THEN None ELSE vaultList[1]

Change(id, f, v) == [i \in DOMAIN queue |-> IF queue[i].id = id THEN [queue[i] EXCEPT ![f] = v] ELSE queue[i]]
ChangeSelected(f, v) == [i \in DOMAIN queue |-> IF queue[i].id \in sel THEN [queue[i] EXCEPT ![f] = v] ELSE queue[i]]

IngestInit ==
    /\ host \in {"sources", "home"}
    /\ ingestOpen = FALSE
    /\ vaultList \in {<<>>} \cup {<<v>> : v \in Vaults}
    /\ vaultPick = None
    /\ queue = <<>> /\ sel = {} /\ pending = NoFiles
    /\ ingestErrors = FALSE /\ submitting = FALSE
    /\ opens = 0 /\ edits = 0
    /\ subs = <<>> /\ ingested = {}

-----------------------------------------------------------------------------
(* Opening and closing. *)

\* The effect on `open`, or a new instance of the modal.
OpenIngest ==
    /\ ~ingestOpen /\ opens < MaxOpens
    /\ ingestOpen' = TRUE /\ opens' = opens + 1
    /\ vaultPick' = IF host = "home" THEN None ELSE vaultPick
    /\ queue' = <<>> /\ sel' = {} /\ pending' = NoFiles
    /\ ingestErrors' = FALSE /\ submitting' = FALSE
    /\ UNCHANGED <<host, vaultList, edits, subs, ingested>>

\* A submission whose modal is gone keeps the Map of its own instance.
Orphaned == [s \in DOMAIN subs |->
               IF host = "home" /\ subs[s].opened = opens THEN [subs[s] EXCEPT !.map = pending] ELSE subs[s]]

\* Cancel, Escape or the backdrop, also while a submission runs.
CloseIngest ==
    /\ ingestOpen
    /\ ingestOpen' = FALSE
    /\ subs' = Orphaned
    /\ UNCHANGED <<host, vaultList, vaultPick, queue, sel, pending, ingestErrors, submitting, opens, edits, ingested>>

\* The list of vaults arrives or changes.
VaultsChange(list) ==
    /\ ingestOpen /\ vaultList # list
    /\ edits < MaxEdits /\ edits' = edits + 1
    /\ vaultList' = list
    /\ UNCHANGED <<host, ingestOpen, vaultPick, queue, sel, pending, ingestErrors, submitting, opens, subs, ingested>>

PickVault(v) ==
    /\ ingestOpen /\ \E i \in DOMAIN vaultList : vaultList[i] = v
    /\ vaultPick # v
    /\ vaultPick' = v
    /\ UNCHANGED <<host, ingestOpen, vaultList, queue, sel, pending, ingestErrors, submitting, opens, edits, subs, ingested>>

-----------------------------------------------------------------------------
(* The queue. *)

QueueEdit == ingestOpen /\ edits < MaxEdits /\ edits' = edits + 1

AddUrl(u) ==
    /\ QueueEdit /\ Len(queue) < MaxRows
    /\ queue' = Append(queue, UrlRow(u, edits))
    /\ UNCHANGED <<host, ingestOpen, vaultList, vaultPick, sel, pending, ingestErrors, submitting, opens, subs, ingested>>

\* addFilesToQueue: a file of the same name takes the place of the one before.
AddFile(n, c) ==
    /\ QueueEdit /\ Len(queue) < MaxRows
    /\ pending' = [pending EXCEPT ![n] = c]
    /\ queue' = Append(queue, FileRow(n, Len(queue)))
    /\ UNCHANGED <<host, ingestOpen, vaultList, vaultPick, sel, ingestErrors, submitting, opens, subs, ingested>>

SameButRows == UNCHANGED <<host, ingestOpen, vaultList, vaultPick, pending, ingestErrors, submitting, opens, subs, ingested>>

\* IngestRow.commitName: only the row's name changes.
Rename(i, n) ==
    /\ QueueEdit /\ queue[i].name # n
    /\ queue' = Change(queue[i].id, "name", n)
    /\ UNCHANGED sel /\ SameButRows

\* TagsMenuBody: toggle one tag of the row.
ToggleTag(i, g) ==
    /\ QueueEdit
    /\ queue' = Change(queue[i].id, "tags", IF g \in queue[i].tags THEN queue[i].tags \ {g} ELSE queue[i].tags \cup {g})
    /\ UNCHANGED sel /\ SameButRows

SetMode(i, m) ==
    /\ QueueEdit /\ queue[i].mode # m
    /\ queue' = Change(queue[i].id, "mode", m)
    /\ UNCHANGED sel /\ SameButRows

ToggleRow(i) ==
    /\ QueueEdit
    /\ sel' = IF queue[i].id \in sel THEN sel \ {queue[i].id} ELSE sel \cup {queue[i].id}
    /\ UNCHANGED queue /\ SameButRows

ToggleAll ==
    /\ QueueEdit /\ queue # <<>>
    /\ LET ids == {queue[i].id : i \in DOMAIN queue} IN
       sel' = IF ids \subseteq sel THEN {} ELSE ids
    /\ UNCHANGED queue /\ SameButRows

\* The bar sets the mode, or exactly one tag, of every selected row.
Bulk(f, v) ==
    /\ QueueEdit /\ \E i \in DOMAIN queue : queue[i].id \in sel
    /\ queue' = ChangeSelected(f, v)
    /\ UNCHANGED sel /\ SameButRows

\* removeRow and removeSel: rows leave the queue, the others keep their order; files stay in the Map.
RemoveRows(ids) ==
    /\ QueueEdit /\ \E i \in DOMAIN queue : queue[i].id \in ids
    /\ LET kept == {i \in DOMAIN queue : queue[i].id \notin ids} IN
       \E n \in 0..Len(queue) : \E keep \in [1..n -> kept] :
          /\ kept = {keep[i] : i \in 1..n} /\ \A i, j \in 1..n : i < j => keep[i] < keep[j]
          /\ queue' = [i \in 1..n |-> queue[keep[i]]]
    /\ sel' = sel \ ids
    /\ SameButRows

-----------------------------------------------------------------------------
(* onIngest. *)

NewSub == [rows |-> queue, vault |-> ActiveVault, opened |-> opens, stage |-> "links",
           links |-> {i \in DOMAIN queue : queue[i].url # None},
           files |-> {}, map |-> NoFiles, failed |-> FALSE, reopened |-> FALSE]

\* The click, up to the first await; without a vault it ends at once.
Submit ==
    /\ ingestOpen /\ queue # <<>> /\ ~submitting
    /\ Len(subs) < MaxSubs
    /\ IF ActiveVault = None
         THEN ~ingestErrors /\ ingestErrors' = TRUE /\ UNCHANGED <<submitting, subs>>
         ELSE /\ ingestErrors' = FALSE /\ submitting' = TRUE
              /\ subs' = Append(subs, NewSub)
    /\ UNCHANGED <<host, ingestOpen, vaultList, vaultPick, queue, sel, pending, opens, edits, ingested>>

\* The modal's state still belongs to the instance the submission began in.
SameModal(s) == host = "sources" \/ (ingestOpen /\ subs[s].opened = opens)

\* applyTags writes tag by tag: a failure leaves the source with some of them, or with all of
\* them when it is the answer of the last call that is lost.
Outcomes(tags) == {[made |-> FALSE, tags |-> {}, ok |-> FALSE], [made |-> TRUE, tags |-> tags, ok |-> TRUE]}
                  \cup {[made |-> TRUE, tags |-> T, ok |-> FALSE] : T \in SUBSET tags}

Source(s, item, file, mode, tags) ==
    [sub |-> s, item |-> item, file |-> file, mode |-> mode, tags |-> tags, vault |-> subs[s].vault]

\* sources/from_url of one link row answers, its tags are set.
LinkSettles(s, i) ==
    /\ subs[s].stage = "links" /\ i \in subs[s].links
    /\ LET r == subs[s].rows[i] IN
       \E o \in Outcomes(r.tags) :
          /\ ingested' = IF o.made THEN ingested \cup {Source(s, r.url, None, r.mode, o.tags)} ELSE ingested
          /\ subs' = [subs EXCEPT ![s].links = @ \ {i}, ![s].failed = @ \/ ~o.ok]
    /\ UNCHANGED <<host, ingestView, opens, edits>>

\* Every entry of the Map is uploaded, whatever rows are left.
FilesBegin(s) ==
    /\ subs[s].stage = "links" /\ subs[s].links = {}
    /\ LET map == IF SameModal(s) THEN pending ELSE subs[s].map IN
       subs' = [subs EXCEPT ![s].stage = "files", ![s].map = map,
                            ![s].files = {n \in Names : map[n] # None},
                            ![s].reopened = subs[s].opened # opens]
    /\ UNCHANGED <<host, ingestView, opens, edits, ingested>>

\* The file row of that name, if there is one, gives the mode and the tags.
RowOf(s, n) == LET I == {i \in DOMAIN subs[s].rows : subs[s].rows[i].url = None /\ subs[s].rows[i].name = n}
               IN IF I = {} THEN [mode |-> None, tags |-> {}]
                  ELSE subs[s].rows[CHOOSE i \in I : \A j \in I : i <= j]

\* Mutant: failures of uploads are not collected.
FileSettlesQuietly(s, n) ==
    /\ subs[s].stage = "files" /\ n \in subs[s].files
    /\ LET r == RowOf(s, n) IN
       \E o \in Outcomes(r.tags) :
          /\ ingested' = IF o.made THEN ingested \cup {Source(s, n, subs[s].map[n], r.mode, o.tags)} ELSE ingested
          /\ subs' = [subs EXCEPT ![s].files = @ \ {n}]
    /\ UNCHANGED <<host, ingestView, opens, edits>>

FileSettles(s, n) ==
    /\ subs[s].stage = "files" /\ n \in subs[s].files
    /\ LET r == RowOf(s, n) IN
       \E o \in Outcomes(r.tags) :
          /\ ingested' = IF o.made THEN ingested \cup {Source(s, n, subs[s].map[n], r.mode, o.tags)} ELSE ingested
          /\ subs' = [subs EXCEPT ![s].files = @ \ {n}, ![s].failed = @ \/ ~o.ok]
    /\ UNCHANGED <<host, ingestView, opens, edits>>

\* All settled: the errors are shown, or onClose closes whatever modal is open.
Finish(s) ==
    /\ subs[s].stage = "files" /\ subs[s].files = {}
    /\ submitting' = IF SameModal(s) THEN FALSE ELSE submitting
    /\ IF subs[s].failed
         THEN /\ ingestErrors' = IF SameModal(s) THEN TRUE ELSE ingestErrors
              /\ subs' = [subs EXCEPT ![s].stage = "failed"]
              /\ UNCHANGED ingestOpen
         ELSE /\ ingestOpen' = FALSE
              /\ subs' = [Orphaned EXCEPT ![s].stage = "done"]
              /\ UNCHANGED ingestErrors
    /\ UNCHANGED <<host, vaultList, vaultPick, queue, sel, pending, opens, edits, ingested>>

SubmissionStep(s) ==
    \/ \E i \in subs[s].links : LinkSettles(s, i)
    \/ FilesBegin(s)
    \/ \E n \in subs[s].files : FileSettles(s, n)
    \/ Finish(s)

QueueStep ==
    \/ \E u \in Urls : AddUrl(u)
    \/ \E n \in Names, c \in Contents : AddFile(n, c)
    \/ \E i \in DOMAIN queue :
          \/ \E n \in Names : Rename(i, n)
          \/ \E g \in Tags : ToggleTag(i, g)
          \/ \E m \in Modes : SetMode(i, m)
          \/ ToggleRow(i)
          \/ RemoveRows({queue[i].id})
    \/ ToggleAll
    \/ \E m \in Modes : Bulk("mode", m)
    \/ \E g \in Tags : Bulk("tags", {g})
    \/ RemoveRows(sel)

IngestNext ==
    \/ OpenIngest \/ CloseIngest
    \/ \E v \in Vaults : PickVault(v)
    \/ \E list \in {<<>>} \cup {<<v>> : v \in Vaults} : VaultsChange(list)
    \/ QueueStep
    \/ Submit
    \/ \E s \in DOMAIN subs : SubmissionStep(s)

IngestSpec == IngestInit /\ [][IngestNext]_ingestVars

-----------------------------------------------------------------------------
(* Properties. *)

\* The name was not changed and no other file row bears it.
Plain(s, i) ==
    LET row == subs[s].rows[i] IN
    /\ row.id[3] = row.name
    /\ \A j \in DOMAIN subs[s].rows \ {i} : subs[s].rows[j].name # row.name

Stored(s, i) ==
    LET row == subs[s].rows[i] IN
    \E g \in ingested : /\ g.sub = s /\ g.item = IF row.url # None THEN row.url ELSE row.name
                        /\ g.mode = row.mode /\ row.tags \subseteq g.tags

\* The modal closes without an error only after every row of the click was ingested
\* with its mode and all its tags, through failures of any call and changes of the
\* queue meanwhile; rows renamed or of equal names, and files of a modal that was
\* reopened before the links were done, are not covered by the code.
CompletedMeansIngested ==
    \A s \in DOMAIN subs : subs[s].stage = "done" =>
        \A i \in DOMAIN subs[s].rows :
            Stored(s, i) \/ (subs[s].rows[i].url = None /\ (subs[s].reopened \/ ~Plain(s, i)))

\* "Ingest sources" modal (combined file + URL queue, per-row vault / tags / mode
\* pickers ...)" (IngestModal.tsx:2-3): a source comes from a row of the queue.
OnlyQueuedIngested ==
    \A g \in ingested : \E i \in DOMAIN subs[g.sub].rows :
        LET row == subs[g.sub].rows[i] IN
        (IF row.url # None THEN row.url ELSE row.name) = g.item
=============================================================================
