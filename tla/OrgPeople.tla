------------------------------ MODULE OrgPeople ------------------------------
(***************************************************************************)
(* Who is let into what, as the pages that manage it do it: the            *)
(* organisation's people, groups and guests                                *)
(* (pages/Settings/sections/OrgPeopleSection.tsx), the access drawer of a  *)
(* workspace and the vault access list of the ingest window, over          *)
(* workspace_member_ops.py, group_ops.py, access_ops.py and invite_ops.py. *)
(* A person and a group hold roles of workspaces, a guest holds levels of  *)
(* vaults; one of each is followed, and both kinds of place are Scopes.    *)
(* Every choice is sent at once; calls may be served in any order, and the *)
(* server checks in one transaction and writes in the next.                *)
(***************************************************************************)
EXTENDS Naturals, Sequences

CONSTANTS
    Scopes,     \* workspaces, for a guest vaults
    None,
    MaxCalls    \* bound: calls sent

VARIABLES
    known,      \* the user or group row exists
    held,       \* the role of each in each scope: workspace_members, group_workspace_roles, access_grants
    inGroup,    \* group_membership: the person is in the group
    invites,    \* those with an invite row
    listed,     \* what the page's queries answered: [known, held, inGroup], or None
    rowScope,   \* the scope state of each AddScopeRow
    orgCalls,
    removed     \* history: scopes a served removal took and no served add or invite gave back

orgVars == <<known, held, inGroup, invites, listed, rowScope, orgCalls, removed>>

Kinds == {"person", "group", "guest"}
Invitable == {"person", "guest"}
Roles == {"member", "admin"}      \* of a guest: viewer and editor
FirstOf(S) == IF S = {} THEN None ELSE CHOOSE s \in S : TRUE

OrgInit ==
    /\ known \in [Kinds -> BOOLEAN]
    /\ held \in [Kinds -> [Scopes -> {"none", "member"}]]
    /\ \A k \in Kinds : ~known[k] => held[k] = [s \in Scopes |-> "none"]
    /\ inGroup = FALSE
    /\ invites = {} /\ listed = None
    /\ rowScope = [k \in Kinds |-> None]
    /\ orgCalls = <<>>
    /\ removed = [k \in Kinds |-> {}]

-----------------------------------------------------------------------------
(* The page *)

\* The queries answer; a served call asks them again, and so does a visit of the page.
Refetch ==
    /\ listed' = [known |-> known, held |-> held, inGroup |-> inGroup]
    /\ UNCHANGED <<known, held, inGroup, invites, rowScope, orgCalls, removed>>

Taken(k) == {s \in Scopes : listed.held[k][s] # "none"}
Available(k) == Scopes \ Taken(k)
Listed(k) == listed # None /\ listed.known[k]

Send(calls) ==
    /\ Len(orgCalls) + Len(calls) <= MaxCalls
    /\ orgCalls' = orgCalls \o calls
    /\ UNCHANGED <<known, held, inGroup, invites, listed, removed>>

Call(op, k, s, r) == [op |-> op, kind |-> k, scope |-> s, role |-> r, at |-> "asked"]

\* Expanding a row mounts its AddScopeRow, whose scope is chosen then and never again.
Expand(k) ==
    /\ Listed(k)
    /\ rowScope' = [rowScope EXCEPT ![k] = FirstOf(Available(k))]
    /\ UNCHANGED <<known, held, inGroup, invites, listed, orgCalls, removed>>

PickScope(k, s) ==
    /\ Listed(k) /\ s \in Available(k) /\ s # rowScope[k]
    /\ rowScope' = [rowScope EXCEPT ![k] = s]
    /\ UNCHANGED <<known, held, inGroup, invites, listed, orgCalls, removed>>

\* What LevelSelect displays: the chosen scope, or the first one offered when it is none of them.
Displayed(k) == IF rowScope[k] \in Available(k) THEN rowScope[k] ELSE FirstOf(Available(k))

AddScope(k, r) ==
    /\ Listed(k) /\ Available(k) # {} /\ rowScope[k] # None
    /\ Send(<<Call("add", k, rowScope[k], r)>>)
    /\ UNCHANGED rowScope

SetRole(k, s, r) ==
    /\ Listed(k) /\ s \in Taken(k) /\ listed.held[k][s] # r
    /\ Send(<<Call("set", k, s, r)>>)
    /\ UNCHANGED rowScope

RemoveScope(k, s) ==
    /\ Listed(k) /\ s \in Taken(k)
    /\ Send(<<Call("remove", k, s, "none")>>)
    /\ UNCHANGED rowScope

\* A call for each vault of the cached list, in the list's order.
RemoveGuest ==
    /\ Listed("guest") /\ Taken("guest") # {}
    /\ \E n \in 1..MaxCalls : \E guestOf \in [1..n -> Taken("guest")] :
        /\ \A s \in Taken("guest") : \E i \in 1..n : guestOf[i] = s
        /\ \A i, j \in 1..n : guestOf[i] = guestOf[j] => i = j
        /\ Send([i \in 1..n |-> Call("remove", "guest", guestOf[i], "none")])
    /\ UNCHANGED rowScope

DeleteGroup ==
    /\ Listed("group")
    /\ Send(<<Call("delete", "group", None, "none")>>)
    /\ UNCHANGED rowScope

JoinOrLeave ==
    /\ Listed("group") /\ Listed("person")
    /\ Send(<<Call(IF listed.inGroup THEN "leave" ELSE "join", "group", None, "none")>>)
    /\ UNCHANGED rowScope

\* The form refuses an address the list has.
Invite(k, s, r) ==
    /\ k \in Invitable /\ listed # None /\ ~listed.known[k]
    /\ Send(<<Call("invite", k, s, r)>>)
    /\ UNCHANGED rowScope

CreateGroup ==
    /\ listed # None /\ ~listed.known["group"]
    /\ Send(<<Call("create", "group", None, "none")>>)
    /\ UNCHANGED rowScope

-----------------------------------------------------------------------------
(* The server *)

At(c, stage) == c \in 1..Len(orgCalls) /\ orgCalls[c].at = stage
Ends(c, stage) == orgCalls' = [orgCalls EXCEPT ![c].at = stage]

\* The calls that check first, and what they check; the invitation writes its user row here.
ChecksFirst(call) ==
    \/ call.kind = "group" /\ call.op \in {"add", "set", "join"}
    \/ call.kind = "guest" /\ call.op \in {"add", "set"}
    \/ call.op = "invite"

Passes(call) ==
    CASE call.kind = "group" -> known["group"]
      [] call.op = "set"     -> held["guest"][call.scope] # "none"
      [] OTHER               -> TRUE

CallChecked(c) ==
    /\ At(c, "asked") /\ ChecksFirst(orgCalls[c])
    /\ Ends(c, IF Passes(orgCalls[c]) THEN "checked" ELSE "refused")
    /\ known' = IF orgCalls[c].op = "invite" THEN [known EXCEPT ![orgCalls[c].kind] = TRUE] ELSE known
    /\ UNCHANGED <<held, inGroup, invites, listed, rowScope, removed>>

Due(c) == At(c, IF c \in 1..Len(orgCalls) /\ ChecksFirst(orgCalls[c]) THEN "checked" ELSE "asked")

\* A bug: the statement of set_role inserts the row it does not find.
WritableAlways(call) == TRUE

\* set_workspace_member_role updates a row or raises; the rest insert or replace.
Writable(call) == ~(call.kind = "person" /\ call.op = "set" /\ held["person"][call.scope] = "none")

RoleWritten(c) ==
    LET call == orgCalls[c] IN
    /\ Due(c) /\ call.op \in {"add", "set", "invite"}
    /\ IF Writable(call)
       THEN /\ held' = [held EXCEPT ![call.kind][call.scope] = call.role]
            /\ Ends(c, IF call.op = "invite" THEN "granted" ELSE "served")
            /\ removed' = IF call.op = "set" /\ call.kind # "group" THEN removed
                          ELSE [removed EXCEPT ![call.kind] = @ \ {call.scope}]
       ELSE Ends(c, "refused") /\ UNCHANGED <<held, removed>>
    /\ UNCHANGED <<known, inGroup, invites, listed, rowScope>>

InviteIssued(c) ==
    /\ At(c, "granted")
    /\ invites' = invites \cup {orgCalls[c].kind}
    /\ Ends(c, "served")
    /\ UNCHANGED <<known, held, inGroup, listed, rowScope, removed>>

RoleRemoved(c) ==
    LET call == orgCalls[c] IN
    /\ Due(c) /\ call.op = "remove"
    /\ held' = [held EXCEPT ![call.kind][call.scope] = "none"]
    /\ removed' = [removed EXCEPT ![call.kind] = @ \cup {call.scope}]
    /\ Ends(c, "served")
    /\ UNCHANGED <<known, inGroup, invites, listed, rowScope>>

\* delete_group: members, workspace roles, grants and the group, in one transaction.
GroupDeleted(c) ==
    /\ Due(c) /\ orgCalls[c].op = "delete"
    /\ known' = [known EXCEPT !["group"] = FALSE]
    /\ held' = [held EXCEPT !["group"] = [s \in Scopes |-> "none"]]
    /\ inGroup' = FALSE
    /\ Ends(c, "served")
    /\ UNCHANGED <<invites, listed, rowScope, removed>>

GroupCreated(c) ==
    /\ Due(c) /\ orgCalls[c].op = "create"
    /\ known' = [known EXCEPT !["group"] = TRUE]
    /\ Ends(c, "served")
    /\ UNCHANGED <<held, inGroup, invites, listed, rowScope, removed>>

\* The row's foreign key refuses a group that went between the check and the insert.
MembershipWritten(c) ==
    LET call == orgCalls[c] IN
    /\ Due(c) /\ call.op \in {"join", "leave"}
    /\ inGroup' = (call.op = "join" /\ known["group"])
    /\ Ends(c, IF call.op = "join" /\ ~known["group"] THEN "refused" ELSE "served")
    /\ UNCHANGED <<known, held, invites, listed, rowScope, removed>>

\* The server stops between two transactions of a call, or the call never gets there.
CallFails(c) ==
    /\ \E at \in {"asked", "checked", "granted"} : At(c, at)
    /\ Ends(c, "failed")
    /\ UNCHANGED <<known, held, inGroup, invites, listed, rowScope, removed>>

OrgNext ==
    \/ Refetch \/ RemoveGuest \/ DeleteGroup \/ JoinOrLeave \/ CreateGroup
    \/ \E k \in Kinds : Expand(k)
    \/ \E k \in Kinds, s \in Scopes : PickScope(k, s) \/ RemoveScope(k, s)
    \/ \E k \in Kinds, r \in Roles : AddScope(k, r)
    \/ \E k \in Kinds, s \in Scopes, r \in Roles : SetRole(k, s, r) \/ Invite(k, s, r)
    \/ \E c \in 1..MaxCalls :
           CallChecked(c) \/ RoleWritten(c) \/ InviteIssued(c) \/ RoleRemoved(c) \/ GroupDeleted(c)
           \/ GroupCreated(c) \/ MembershipWritten(c) \/ CallFails(c)

OrgSpec == OrgInit /\ [][OrgNext]_orgVars

-----------------------------------------------------------------------------
(* Properties *)

\* A person whose workspace role was removed stays out of the workspace until somebody adds
\* or invites them: a role change that was under way when the removal came does not bring
\* them back, in whatever order the two are served.
RemovedStaysOut == \A s \in removed["person"] : held["person"][s] = "none"

\* A deleted group has no members left to inherit from it, though a member may be added
\* while it is deleted.
DeletedGroupIsEmpty == ~known["group"] => ~inGroup

OrgSafe == RemovedStaysOut /\ DeletedGroupIsEmpty

\* The same of a guest's vaults does not hold: the level of a grant that is gone by the time
\* it is written is written as a new grant.
RemovedGuestStaysOut == \A s \in removed["guest"] : held["guest"][s] = "none"

\* An Add names the scope it displays.  After a first Add it does not.
AddNamesTheDisplayed ==
    [][\A k \in Kinds :
          (Len(orgCalls') > Len(orgCalls) /\ orgCalls'[Len(orgCalls')].op = "add"
              /\ orgCalls'[Len(orgCalls')].kind = k)
          => orgCalls'[Len(orgCalls')].scope = Displayed(k)]_orgVars

\* Whoever has a role by invitation has an invite.  The steps of users:invite may be cut short.
InvitedHaveInvites ==
    \A c \in 1..Len(orgCalls) :
        orgCalls[c].op = "invite" /\ orgCalls[c].at \in {"served", "failed"} /\ known[orgCalls[c].kind]
            => orgCalls[c].kind \in invites

=============================================================================
