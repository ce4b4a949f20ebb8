------------------------------ MODULE TagManager ------------------------------
(***************************************************************************)
(* The overlay that renames, merges and deletes the tags of a vault.       *)
(* Renames and merges share one mutation, whose callbacks are those of its *)
(* last call only; the two lists of tags are fetched again after a change, *)
(* and other users tag sources meanwhile.                                  *)
(***************************************************************************)
EXTENDS Naturals, Sequences, FiniteSets

CONSTANTS None, Sources, Tags, MaxCalls, MaxForeign, MaxEdits

VARIABLES tagged, names, editing, mergeFrom, mergeTo, confirming, renames, deletion, tagCalls,
          foreign, edits, stripped

vars == <<tagged, names, editing, mergeFrom, mergeTo, confirming, renames, deletion, tagCalls,
          foreign, edits, stripped>>

AllTags == UNION {tagged[s] : s \in Sources}

TagsInit ==
    /\ tagged \in [Sources -> {{t} : t \in Tags}]
    /\ names = AllTags
    /\ editing = None /\ mergeFrom = None /\ mergeTo = None /\ confirming = None
    /\ renames = <<>> /\ deletion = None /\ tagCalls = 0 /\ foreign = 0 /\ edits = 0
    /\ stripped = {}

Edit == edits < MaxEdits /\ edits' = edits + 1
Call == tagCalls < MaxCalls /\ tagCalls' = tagCalls + 1
Pending == renames # <<>> /\ renames[Len(renames)].out

\* Another user adds a tag to a source or takes one away.
ForeignTag ==
    /\ foreign < MaxForeign /\ foreign' = foreign + 1
    /\ \E s \in Sources, t \in Tags :
        IF t \in tagged[s]
        THEN /\ tagged' = [tagged EXCEPT ![s] = @ \ {t}] /\ stripped' = stripped \cup {s}
        ELSE /\ tagged' = [tagged EXCEPT ![s] = @ \cup {t}] /\ UNCHANGED stripped
    /\ UNCHANGED <<names, editing, mergeFrom, mergeTo, confirming, renames, deletion, tagCalls, edits>>

NamesCome ==
    /\ names # AllTags /\ names' = AllTags
    /\ UNCHANGED <<tagged, editing, mergeFrom, mergeTo, confirming, renames, deletion, tagCalls, foreign, edits, stripped>>

-----------------------------------------------------------------------------
(* The rows. *)

StartEdit(t) ==
    /\ Edit /\ t \in names /\ confirming = None
    /\ editing' = [tag |-> t, value |-> t]
    /\ UNCHANGED <<tagged, names, mergeFrom, mergeTo, confirming, renames, deletion, tagCalls, foreign, stripped>>

EditChange(t) ==
    /\ Edit /\ editing # None /\ editing.tag \in names /\ confirming = None
    /\ editing' = [editing EXCEPT !.value = t]
    /\ UNCHANGED <<tagged, names, mergeFrom, mergeTo, confirming, renames, deletion, tagCalls, foreign, stripped>>

CancelEdit ==
    /\ editing # None /\ confirming = None /\ editing' = None
    /\ UNCHANGED <<tagged, names, mergeFrom, mergeTo, confirming, renames, deletion, tagCalls, foreign, edits, stripped>>

\* Enter confirms also while a rename is under way, the button does not.
ConfirmRename ==
    /\ editing # None /\ editing.tag \in names /\ confirming = None
    /\ IF editing.value \in {None, editing.tag}
       THEN editing' = None /\ UNCHANGED <<renames, tagCalls>>
       ELSE /\ Call /\ UNCHANGED editing
            /\ renames' = Append(renames, [old |-> editing.tag, new |-> editing.value, kind |-> "rename", out |-> TRUE])
    /\ UNCHANGED <<tagged, names, mergeFrom, mergeTo, confirming, deletion, foreign, edits, stripped>>

-----------------------------------------------------------------------------
(* Merging. *)

\* Mutant: another tag to merge from leaves the target.
FromKeepsTarget(t) == mergeFrom' = (IF mergeFrom = t THEN None ELSE t) /\ UNCHANGED mergeTo

\* onSelectForMerge.
SelectFrom(t) == mergeFrom' = (IF mergeFrom = t THEN None ELSE t) /\ mergeTo' = None

SelectForMerge(t) ==
    /\ Edit /\ t \in names /\ confirming = None
    /\ SelectFrom(t)
    /\ UNCHANGED <<tagged, names, editing, confirming, renames, deletion, tagCalls, foreign, stripped>>

SelectTarget(t) ==
    /\ Edit /\ mergeFrom # None /\ t \in names \ {mergeFrom} /\ confirming = None
    /\ mergeTo' = t
    /\ UNCHANGED <<tagged, names, editing, mergeFrom, confirming, renames, deletion, tagCalls, foreign, stripped>>

ConfirmMerge ==
    /\ mergeFrom # None /\ mergeTo # None /\ ~Pending /\ confirming = None /\ Call
    /\ renames' = Append(renames, [old |-> mergeFrom, new |-> mergeTo, kind |-> "merge", out |-> TRUE])
    /\ UNCHANGED <<tagged, names, editing, mergeFrom, mergeTo, confirming, deletion, foreign, edits, stripped>>

\* Where the user is asked nothing else, a merge can be given up at any time.
CancelMerge ==
    /\ mergeFrom # None /\ confirming = None /\ mergeFrom' = None /\ mergeTo' = None
    /\ UNCHANGED <<tagged, names, editing, confirming, renames, deletion, tagCalls, foreign, edits, stripped>>

-----------------------------------------------------------------------------
(* Answers of renames and merges. *)

\* sources:tags:rename: the new tag joins or replaces the old one on each source, in one
\* transaction.
Renamed(T, r) ==
    [s \in Sources |-> IF r.old \in T[s] /\ r.old # r.new THEN (T[s] \ {r.old}) \cup {r.new} ELSE T[s]]

\* Callbacks run for the last call of the mutation.
RenameCallbacks(i) ==
    IF i # Len(renames) THEN UNCHANGED <<editing, mergeFrom, mergeTo>>
    ELSE IF renames[i].kind = "rename" THEN editing' = None /\ UNCHANGED <<mergeFrom, mergeTo>>
    ELSE mergeFrom' = None /\ mergeTo' = None /\ UNCHANGED editing

\* The call is carried out and its answer comes, or is lost, or the call itself is.
RenameAnswers(i) ==
    /\ i \in DOMAIN renames /\ renames[i].out
    /\ renames' = [renames EXCEPT ![i].out = FALSE]
    /\ \/ tagged' = Renamed(tagged, renames[i]) /\ RenameCallbacks(i)
       \/ /\ tagged' \in {tagged, Renamed(tagged, renames[i])}
          /\ UNCHANGED <<editing, mergeFrom, mergeTo>>
    /\ UNCHANGED <<names, confirming, deletion, tagCalls, foreign, edits, stripped>>

-----------------------------------------------------------------------------
(* Deleting, from a box over the overlay. *)

AskDelete(t) ==
    /\ Edit /\ t \in names /\ confirming = None /\ confirming' = t
    /\ UNCHANGED <<tagged, names, editing, mergeFrom, mergeTo, renames, deletion, tagCalls, foreign, stripped>>

CancelDelete ==
    /\ confirming # None /\ deletion = None /\ confirming' = None
    /\ UNCHANGED <<tagged, names, editing, mergeFrom, mergeTo, renames, deletion, tagCalls, foreign, edits, stripped>>

ConfirmDelete ==
    /\ confirming # None /\ deletion = None /\ Call /\ deletion' = confirming
    /\ UNCHANGED <<tagged, names, editing, mergeFrom, mergeTo, confirming, renames, foreign, edits, stripped>>

DeleteAnswers ==
    /\ deletion # None /\ deletion' = None
    /\ \/ UNCHANGED <<tagged, confirming, stripped>>
       \/ /\ tagged' = [s \in Sources |-> tagged[s] \ {deletion}]
          /\ stripped' = stripped \cup {s \in Sources : deletion \in tagged[s]}
          /\ confirming' \in {None, confirming}
    /\ UNCHANGED <<names, editing, mergeFrom, mergeTo, renames, tagCalls, foreign, edits>>

TagsNext ==
    \/ ForeignTag \/ NamesCome \/ CancelEdit \/ ConfirmRename \/ ConfirmMerge \/ CancelMerge
    \/ \E t \in Tags : StartEdit(t) \/ SelectForMerge(t) \/ SelectTarget(t) \/ AskDelete(t)
    \/ \E t \in Tags \cup {None} : EditChange(t)
    \/ \E i \in DOMAIN renames : RenameAnswers(i)
    \/ CancelDelete \/ ConfirmDelete \/ DeleteAnswers

-----------------------------------------------------------------------------
\* No tag is offered, nor sent, to be merged into itself, in whatever order the two are chosen.
MergesAreOfTwo ==
    /\ mergeTo # None => mergeFrom \notin {None, mergeTo}
    /\ \A i \in DOMAIN renames : renames[i].old # renames[i].new

\* The box that asks for a deletion stays until the answer, about the tag that is being deleted.
DeletionIsAskedFor == deletion # None => confirming = deletion

\* Renames and merges that cross each other lose nothing: a source without tags had one deleted.
NoneLostByMerging == \A s \in Sources : tagged[s] = {} => s \in stripped

TagsSafe == MergesAreOfTwo /\ DeletionIsAskedFor /\ NoneLostByMerging

=============================================================================
