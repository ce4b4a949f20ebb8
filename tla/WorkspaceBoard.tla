---------------------------- MODULE WorkspaceBoard ----------------------------
(***************************************************************************)
(* The board of workspaces in the settings: cards of vaults are dragged    *)
(* between columns, a drawer edits one vault.  The board is a copy of the  *)
(* server's state that other users outdate and a refetch replaces at any   *)
(* time, under a drag or an open drawer; how the copy is refetched is a    *)
(* matter of QueryCache.  Mode and guests of a vault go like its name.     *)
(***************************************************************************)
EXTENDS Naturals

CONSTANTS None, Vaults, Wss, Names,
          MaxForeign,   \* What other users do.
          MaxTouches    \* Drags, drawers and picks of this user.

VARIABLES vaults, roles, board, drag, over, ctx, draft, boardCalls, foreign, touches

vars == <<vaults, roles, board, drag, over, ctx, draft, boardCalls, foreign, touches>>

\* capsFromRole.
Manages(role) == role \in {"owner", "admin"}
Archives(role) == role = "owner"

BoardInit ==
    /\ \E w \in Wss, n \in Names : vaults = [v \in Vaults |-> [ws |-> w, name |-> n, live |-> TRUE]]
    /\ roles = [w \in Wss |-> "owner"]
    /\ board = [vaults |-> vaults, roles |-> roles]
    /\ drag = None /\ over = None /\ ctx = None /\ draft = None
    /\ boardCalls = {} /\ foreign = 0 /\ touches = 0

Touch == touches < MaxTouches /\ touches' = touches + 1

-----------------------------------------------------------------------------
(* The server, and other users of it. *)

ForeignChange ==
    /\ foreign < MaxForeign /\ foreign' = foreign + 1
    /\ \/ /\ UNCHANGED roles
          /\ \E v \in Vaults : \/ \E w \in Wss \ {vaults[v].ws} : vaults' = [vaults EXCEPT ![v].ws = w]
                               \/ \E n \in Names \ {vaults[v].name} : vaults' = [vaults EXCEPT ![v].name = n]
       \/ /\ UNCHANGED vaults
          /\ \E w \in Wss, r \in {"admin", "member"} : roles' = [roles EXCEPT ![w] = r]
    /\ UNCHANGED <<board, drag, over, ctx, draft, boardCalls, touches>>

\* A call of this user is answered; a move needs both workspaces.
CallRuns(c) ==
    /\ c \in boardCalls /\ boardCalls' = boardCalls \ {c}
    /\ vaults' =
        IF ~Manages(roles[vaults[c.vault].ws]) THEN vaults
        ELSE IF c.op = "rename" THEN [vaults EXCEPT ![c.vault].name = c.name]
        ELSE IF c.op = "archive"
             THEN IF Archives(roles[vaults[c.vault].ws]) THEN [vaults EXCEPT ![c.vault].live = FALSE] ELSE vaults
        ELSE IF Manages(roles[c.to]) THEN [vaults EXCEPT ![c.vault].ws = c.to] ELSE vaults
    /\ UNCHANGED <<roles, board, drag, over, ctx, draft, foreign, touches>>

-----------------------------------------------------------------------------
(* The drawer. *)

\* Mutant: the vault of the drawer is looked for in every workspace.
LiveAnywhere(c, b) == c # None /\ b.vaults[c.vault].live

\* vaultLive: the vault is looked for in the workspace it was opened in.
LiveVault(c, b) == c # None /\ b.vaults[c.vault].live /\ b.vaults[c.vault].ws = c.ws

\* A drawer is mounted with what the board shows and unmounted with the vault.
Drawn(c, b) ==
    IF ~LiveVault(c, b) THEN None
    ELSE IF draft # None THEN draft
    ELSE [name |-> b.vaults[c.vault].name, moveTo |-> b.vaults[c.vault].ws, picked |-> None]

\* The overview is fetched again.
BoardComes ==
    /\ board # [vaults |-> vaults, roles |-> roles]
    /\ board' = [vaults |-> vaults, roles |-> roles]
    /\ draft' = Drawn(ctx, board')
    /\ UNCHANGED <<vaults, roles, drag, over, ctx, boardCalls, foreign, touches>>

OpenVault(v) ==
    /\ Touch /\ draft = None /\ board.vaults[v].live
    /\ ctx' = [ws |-> board.vaults[v].ws, vault |-> v]
    /\ draft' = Drawn(ctx', board)
    /\ UNCHANGED <<vaults, roles, board, drag, over, boardCalls, foreign>>

WsNow == board.vaults[ctx.vault].ws
Editable == draft # None /\ Manages(board.roles[WsNow])

TypeName(n) ==
    /\ Touch /\ Editable /\ draft' = [draft EXCEPT !.name = n]
    /\ UNCHANGED <<vaults, roles, board, drag, over, ctx, boardCalls, foreign>>

\* The workspaces to choose from are the current one and the others this user manages.
PickTarget(w) ==
    /\ Touch /\ Editable /\ (w = WsNow \/ Manages(board.roles[w]))
    /\ draft' = [draft EXCEPT !.moveTo = w, !.picked = w]
    /\ UNCHANGED <<vaults, roles, board, drag, over, ctx, boardCalls, foreign>>

Rename(v, n) == [op |-> "rename", vault |-> v, name |-> n]
Move(v, to, picked) == [op |-> "move", vault |-> v, to |-> to, picked |-> picked]

\* save: what differs from the vault on the board is sent, one call each.
Save ==
    /\ Editable
    /\ boardCalls' = boardCalls
        \cup {Rename(ctx.vault, n) : n \in {draft.name} \ {board.vaults[ctx.vault].name}}
        \cup {Move(ctx.vault, w, draft.picked) : w \in {draft.moveTo} \ {WsNow}}
    /\ ctx' = None /\ draft' = None
    /\ UNCHANGED <<vaults, roles, board, drag, over, foreign, touches>>

Archive ==
    /\ draft # None /\ Archives(board.roles[WsNow])
    /\ boardCalls' = boardCalls \cup {[op |-> "archive", vault |-> ctx.vault]}
    /\ ctx' = None /\ draft' = None
    /\ UNCHANGED <<vaults, roles, board, drag, over, foreign, touches>>

Close ==
    /\ draft # None
    /\ ctx' = None /\ draft' = None
    /\ UNCHANGED <<vaults, roles, board, drag, over, boardCalls, foreign, touches>>

-----------------------------------------------------------------------------
(* Dragging. *)

DragStart(v) ==
    /\ Touch /\ draft = None /\ board.vaults[v].live /\ Manages(board.roles[board.vaults[v].ws])
    /\ drag' = [vault |-> v, from |-> board.vaults[v].ws]
    /\ UNCHANGED <<vaults, roles, board, over, ctx, draft, boardCalls, foreign>>

\* isDropOk.
DropOk(w) == drag # None /\ Manages(board.roles[w]) /\ drag.from # w

DragOver(w) ==
    /\ DropOk(w) /\ over # w /\ over' = w
    /\ UNCHANGED <<vaults, roles, board, drag, ctx, draft, boardCalls, foreign, touches>>

DragLeave ==
    /\ over # None /\ over' = None
    /\ UNCHANGED <<vaults, roles, board, drag, ctx, draft, boardCalls, foreign, touches>>

Drop(w) ==
    /\ DropOk(w) /\ over = w
    /\ boardCalls' = boardCalls \cup {Move(drag.vault, w, w)}
    /\ drag' = None /\ over' = None
    /\ UNCHANGED <<vaults, roles, board, ctx, draft, foreign, touches>>

\* A card that is gone from its column does not say that its drag ended.
DragEnd ==
    /\ drag # None /\ board.vaults[drag.vault].live /\ board.vaults[drag.vault].ws = drag.from
    /\ drag' = None /\ over' = None
    /\ UNCHANGED <<vaults, roles, board, ctx, draft, boardCalls, foreign, touches>>

BoardNext ==
    \/ ForeignChange \/ BoardComes \/ \E c \in boardCalls : CallRuns(c)
    \/ \E v \in Vaults : OpenVault(v) \/ DragStart(v)
    \/ \E n \in Names : TypeName(n)
    \/ \E w \in Wss : PickTarget(w) \/ DragOver(w) \/ Drop(w)
    \/ Save \/ Archive \/ Close \/ DragLeave \/ DragEnd

-----------------------------------------------------------------------------
\* Whoever moves a vault meanwhile, a save moves it only where this user picked: the workspace
\* a drawer was opened in is never taken for a wish to move the vault back there.
MovesWerePicked == \A c \in boardCalls : c.op = "move" => c.picked = c.to

\* An open drawer is about a vault where the board shows it: what it takes for the vault's
\* workspace, to tell a wish to move from none, is where the vault is.
DrawerWhereShown == draft # None => ctx.ws = WsNow /\ board.vaults[ctx.vault].live

BoardSafe == MovesWerePicked /\ DrawerWhereShown

=============================================================================
