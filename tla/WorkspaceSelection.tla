-------------------------- MODULE WorkspaceSelection --------------------------
(***************************************************************************)
(* The workspace and the vault that every page of the console works in:    *)
(* kept in the provider's state, and in the browser's storage under a key  *)
(* of the user.  The provider outlives sign-outs; who the user is, the     *)
(* workspaces and the vaults are queries that answer in any order, and     *)
(* what is chosen, restored and stored follows from effects of renders.    *)
(***************************************************************************)
EXTENDS Naturals, Sequences

CONSTANTS None, Users, Global,
          Lists,     \* The answers of workspaces:list to each user, sequences of workspaces.
          VaultsOf,  \* The vaults of each workspace, a sequence.
          MaxTurns   \* Of sign-ins, reloads, picks and answers that change.

VARIABLES user, me, list, loadedVaults, ws, vault, loadedScope, stored, rendered, turns

vars == <<user, me, list, loadedVaults, ws, vault, loadedScope, stored, rendered, turns>>

Elements(s) == {s[i] : i \in DOMAIN s}
WsOf(u) == UNION {Elements(l) : l \in Lists[u]}

\* scopeFromMe: the key that selections are stored under.
Scope == IF me = None THEN Global ELSE me

Inputs == [scope |-> Scope, loaded |-> loadedScope, ws |-> ws, vault |-> vault,
           list |-> list, vaults |-> loadedVaults]

NoSelection == [ws |-> None, vault |-> None]

\* The provider's first state is what is stored under no user's key.
SelectionInit ==
    /\ user = None /\ me = None /\ list = None /\ loadedVaults = {}
    /\ stored = [s \in Users \cup {Global} |-> NoSelection]
    /\ ws = None /\ vault = None /\ loadedScope = Global
    /\ rendered = None /\ turns = 0

Turn == turns < MaxTurns /\ turns' = turns + 1

\* The effects of a render run before the next event is taken.
Ready == rendered = Inputs

-----------------------------------------------------------------------------
(* Effects. *)

\* The top bar keeps a workspace that is in the list and falls back to the first.
FallsBack == list # None /\ list # <<>> /\ ws \notin Elements(list)

\* resolveActiveProjectId, on the page below it.
ActiveVault ==
    IF ws \notin loadedVaults \/ vault \in Elements(VaultsOf[ws]) THEN vault
    ELSE IF VaultsOf[ws] = <<>> THEN None ELSE VaultsOf[ws][1]

\* Mutant: the selection is stored whether or not it was loaded for this user.
StoresAnyway(s) == TRUE

\* What was chosen for one user is not stored for another.
Stores(s) == loadedScope = s

\* Effects of children run before the provider's, the last to set a state wins.
Effects ==
    LET entered == rendered = None \/ rendered.scope # Scope IN
    /\ ~Ready
    /\ rendered' = Inputs
    /\ stored' = IF Stores(Scope) THEN [stored EXCEPT ![Scope] = [ws |-> ws, vault |-> vault]] ELSE stored
    /\ loadedScope' = Scope
    /\ IF entered THEN ws' = stored[Scope].ws /\ vault' = stored[Scope].vault
       ELSE /\ ws' = IF FallsBack THEN list[1] ELSE ws
            /\ vault' = IF ActiveVault # vault THEN ActiveVault ELSE IF FallsBack THEN None ELSE vault
    /\ UNCHANGED <<user, me, list, loadedVaults, turns>>

-----------------------------------------------------------------------------
(* Events. *)

SignIn(u) ==
    /\ Ready /\ user = None /\ Turn /\ user' = u
    /\ UNCHANGED <<me, list, loadedVaults, ws, vault, loadedScope, stored, rendered>>

\* onSignOut: the cache is cleared, the provider stays.
SignOut ==
    /\ Ready /\ user # None
    /\ user' = None /\ me' = None /\ list' = None /\ loadedVaults' = {}
    /\ UNCHANGED <<ws, vault, loadedScope, stored, rendered, turns>>

MeComes ==
    /\ Ready /\ user # None /\ me = None /\ me' = user
    /\ UNCHANGED <<user, list, loadedVaults, ws, vault, loadedScope, stored, rendered, turns>>

ListComes ==
    /\ Ready /\ user # None
    /\ list' \in Lists[user] \ {list}
    /\ IF list = None THEN UNCHANGED turns ELSE Turn
    /\ UNCHANGED <<user, me, loadedVaults, ws, vault, loadedScope, stored, rendered>>

\* The vaults of a workspace are answered to those who are in it.
VaultsCome ==
    /\ Ready /\ user # None /\ ws \in WsOf(user) \ loadedVaults
    /\ loadedVaults' = loadedVaults \cup {ws}
    /\ UNCHANGED <<user, me, list, ws, vault, loadedScope, stored, rendered, turns>>

\* setWorkspaceId, from the menu.
PickWs(w) ==
    /\ Ready /\ list # None /\ w \in Elements(list) \ {ws} /\ Turn
    /\ ws' = w /\ vault' = None
    /\ UNCHANGED <<user, me, list, loadedVaults, loadedScope, stored, rendered>>

\* setProjectId, from a page of the workspace.
PickVault(v) ==
    /\ Ready /\ user # None /\ ws \in loadedVaults /\ v \in Elements(VaultsOf[ws]) \ {vault} /\ Turn
    /\ vault' = v
    /\ UNCHANGED <<user, me, list, loadedVaults, ws, loadedScope, stored, rendered>>

\* The tab is reloaded, be it between a render and its effects or between two renders.
Reload ==
    /\ Turn
    /\ me' = None /\ list' = None /\ loadedVaults' = {}
    /\ ws' = stored[Global].ws /\ vault' = stored[Global].vault
    /\ loadedScope' = Global /\ rendered' = None
    /\ UNCHANGED <<user, stored>>

SelectionNext ==
    \/ Effects \/ SignOut \/ MeComes \/ ListComes \/ VaultsCome \/ Reload
    \/ \E u \in Users : SignIn(u)
    \/ \E w \in DOMAIN VaultsOf : PickWs(w) \/ \E v \in Elements(VaultsOf[w]) : PickVault(v)

-----------------------------------------------------------------------------
\* Nothing is ever stored under a user's key that is of another user, though one provider serves
\* whoever signs in and the tab may be closed between any two effects.
OwnSelection ==
    \A u \in Users :
        /\ stored[u].ws \in WsOf(u) \cup {None}
        /\ stored[u].vault \in {None} \cup UNION {Elements(VaultsOf[w]) : w \in WsOf(u)}

\* Once the effects have run, the pages work in a workspace of the list, and in one of its vaults
\* where these are known: a selection that was restored, taken away or left over does not stay.
SelectionHeals ==
    Ready /\ list \notin {None, <<>>} =>
        /\ ws \in Elements(list)
        /\ ws \in loadedVaults => IF VaultsOf[ws] = <<>> THEN vault = None ELSE vault \in Elements(VaultsOf[ws])

SelectionSafe == OwnSelection /\ SelectionHeals

=============================================================================
