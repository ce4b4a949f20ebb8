----------------------------- MODULE NewWorkspace -----------------------------
(***************************************************************************)
(* The dialog that makes a workspace, describes it and adds its members,   *)
(* one call after the other, any of which may fail.  The dialog can be     *)
(* closed and opened again while the calls go on.  Its bar completes what  *)
(* is typed to people of the directory.                                    *)
(***************************************************************************)
EXTENDS Naturals, Sequences

CONSTANTS None, Me, People,
          Texts,        \* What is typed into the bar: the people it matches, the person it names
                        \* in full, and the person whose address it is.
          MaxOpens, MaxAdds, MaxClicks

VARIABLES directory, me, opens, adds, clicks, form, bar, busy, making, made, finished

vars == <<directory, me, opens, adds, clicks, form, bar, busy, making, made, finished>>

NoText == [matches |-> People, exact |-> None, address |-> None]
NewForm == [named |-> FALSE, described |-> FALSE, invited |-> <<>>]
NewBar == [text |-> NoText, picked |-> None, focused |-> FALSE, active |-> 1]

NewWorkspaceInit ==
    /\ directory = {} /\ me = None /\ opens = 0 /\ adds = 0 /\ clicks = 0
    /\ form = None /\ bar = NewBar /\ busy = FALSE
    /\ making = {} /\ made = <<>> /\ finished = {}

InvitedIn(f) == {f.invited[i] : i \in DOMAIN f.invited}

\* The queries of the directory and of the user answer at any time.
DirectoryComes ==
    /\ directory = {} /\ directory' = People
    /\ UNCHANGED <<me, opens, adds, clicks, form, bar, busy, making, made, finished>>

MeComes ==
    /\ me = None /\ me' = Me
    /\ UNCHANGED <<directory, opens, adds, clicks, form, bar, busy, making, made, finished>>

OpenDialog ==
    /\ form = None /\ opens < MaxOpens
    /\ opens' = opens + 1 /\ form' = NewForm /\ bar' = NewBar /\ busy' = FALSE
    /\ UNCHANGED <<directory, me, adds, clicks, making, made, finished>>

\* Escape, the backdrop and Cancel close it, whatever is under way.
CloseDialog ==
    /\ form # None /\ form' = None /\ bar' = NewBar /\ busy' = FALSE
    /\ UNCHANGED <<directory, me, opens, adds, clicks, making, made, finished>>

FillIn ==
    /\ form # None
    /\ \/ ~form.named /\ form' = [form EXCEPT !.named = TRUE]
       \/ ~form.described /\ form' = [form EXCEPT !.described = TRUE]
    /\ UNCHANGED <<directory, me, opens, adds, clicks, bar, busy, making, made, finished>>

-----------------------------------------------------------------------------
(* The bar. *)

Candidates == {p \in directory : p \notin InvitedIn(form) /\ p # me}
Matches == Candidates \cap bar.text.matches
Exact == IF bar.text.exact \in Candidates THEN bar.text.exact ELSE None
External == bar.text.address # None /\ Exact = None
SuggestionsOpen == bar.focused /\ bar.picked = None /\ (Matches # {} \/ External)

Type(t) ==
    /\ form # None /\ bar.text # t
    /\ bar' = [bar EXCEPT !.text = t, !.picked = None, !.focused = TRUE, !.active = 1]
    /\ UNCHANGED <<directory, me, opens, adds, clicks, form, busy, making, made, finished>>

\* A suggestion is taken by the mouse or by Enter; Escape and leaving the field hide them.
PickPerson(p) ==
    /\ form # None /\ SuggestionsOpen /\ p \in Matches
    /\ bar' = [bar EXCEPT !.picked = p, !.focused = FALSE]
    /\ UNCHANGED <<directory, me, opens, adds, clicks, form, busy, making, made, finished>>

HideSuggestions ==
    /\ form # None /\ bar.focused /\ bar' = [bar EXCEPT !.focused = FALSE]
    /\ UNCHANGED <<directory, me, opens, adds, clicks, form, busy, making, made, finished>>

\* What commit gives to onAdd: a person picked, named in full, or by address.
Committed ==
    IF bar.picked # None THEN bar.picked
    ELSE IF Exact # None THEN Exact
    ELSE IF External THEN bar.text.address ELSE None

\* Mutant: whoever is added is appended.
AppendInvited(f, p) == [f EXCEPT !.invited = Append(@, p)]

\* onAdd: someone of the directory who is not invited yet.
WithInvited(f, p) ==
    IF p \notin directory \/ p \in InvitedIn(f) THEN f
    ELSE [f EXCEPT !.invited = Append(@, p)]

Add ==
    /\ form # None /\ Committed # None /\ adds < MaxAdds
    /\ adds' = adds + 1
    /\ form' = WithInvited(form, Committed)
    /\ bar' = [bar EXCEPT !.text = NoText, !.picked = None]
    /\ UNCHANGED <<directory, me, opens, clicks, busy, making, made, finished>>

\* onRemove: whoever is removed was invited once (NobodyTwice).
Uninvite(p) ==
    /\ form # None
    /\ \E i \in DOMAIN form.invited :
        /\ form.invited[i] = p
        /\ form' = [form EXCEPT !.invited = SubSeq(@, 1, i - 1) \o SubSeq(@, i + 1, Len(@))]
    /\ UNCHANGED <<directory, me, opens, adds, clicks, bar, busy, making, made, finished>>

-----------------------------------------------------------------------------
(* create. *)

CreateClick ==
    /\ form # None /\ form.named /\ ~busy /\ clicks < MaxClicks
    /\ clicks' = clicks + 1 /\ busy' = TRUE
    /\ making' = making \cup {[click |-> clicks', dialog |-> opens, form |-> form, ws |-> None,
                               toDescribe |-> form.described, toAdd |-> form.invited]}
    /\ UNCHANGED <<directory, me, opens, adds, form, bar, made, finished>>

\* setBusy(false) is lost on a dialog that is not there any more.
Freed(r) == busy' = IF r.dialog = opens THEN FALSE ELSE busy

Advance(r, next) == making' = (making \ {r}) \cup {next}

\* The next call of a click: the workspace, its description, a member.
Creates(r) == r.ws = None /\ made' = Append(made, [described |-> FALSE, members |-> {}])
Describes(r) == r.ws # None /\ r.toDescribe /\ made' = [made EXCEPT ![r.ws].described = TRUE]
AddsMember(r) ==
    /\ r.ws # None /\ ~r.toDescribe /\ r.toAdd # <<>>
    /\ made' = [made EXCEPT ![r.ws].members = @ \cup {Head(r.toAdd)}]

CallSucceeds(r) ==
    /\ r \in making
    /\ \/ Creates(r) /\ Advance(r, [r EXCEPT !.ws = Len(made')])
       \/ Describes(r) /\ Advance(r, [r EXCEPT !.toDescribe = FALSE])
       \/ AddsMember(r) /\ Advance(r, [r EXCEPT !.toAdd = Tail(@)])
    /\ UNCHANGED <<directory, me, opens, adds, clicks, form, bar, busy, finished>>

\* A failure ends the click, of a call or of the answer to one that was carried out: nothing is
\* undone, the dialog stays.
CallFails(r) ==
    /\ r \in making
    /\ \/ UNCHANGED made /\ (r.ws = None \/ r.toDescribe \/ r.toAdd # <<>>)
       \/ Creates(r) \/ Describes(r) \/ AddsMember(r)
    /\ making' = making \ {r} /\ Freed(r)
    /\ UNCHANGED <<directory, me, opens, adds, clicks, form, bar, finished>>

\* onCreated closes the dialog that is open, be it another one.
Created(r) ==
    /\ making' = making \ {r} /\ finished' = finished \cup {r}
    /\ form' = None /\ bar' = NewBar /\ busy' = FALSE
    /\ UNCHANGED <<directory, me, opens, adds, clicks, made>>

\* Mutant: a member who cannot be added is passed over.
CompletesSkipping(r) ==
    /\ r \in making /\ r.ws # None /\ ~r.toDescribe
    /\ Created(r)

Completes(r) ==
    /\ r \in making /\ r.ws # None /\ ~r.toDescribe /\ r.toAdd = <<>>
    /\ Created(r)

NewWorkspaceNext ==
    \/ DirectoryComes \/ MeComes \/ OpenDialog \/ CloseDialog \/ FillIn \/ HideSuggestions
    \/ \E t \in Texts : Type(t)
    \/ \E p \in People : PickPerson(p) \/ Uninvite(p)
    \/ Add \/ CreateClick
    \/ \E r \in making : CallSucceeds(r) \/ CallFails(r) \/ Completes(r)

-----------------------------------------------------------------------------
\* A click that closed the dialog made a workspace with all that was in the form, whatever else
\* was clicked, closed and opened meanwhile.
CreatedComplete ==
    \A r \in finished : made[r.ws] = [described |-> r.form.described, members |-> InvitedIn(r.form)]

\* Nobody is invited twice, by name or by address, so no role is set twice.
NobodyTwice ==
    form # None => \A i, j \in DOMAIN form.invited : form.invited[i] = form.invited[j] => i = j

NewWorkspaceSafe == CreatedComplete /\ NobodyTwice

=============================================================================
