------------------------------ MODULE OrgGraph ------------------------------
(***************************************************************************)
(* The organization graph (pages/Graph/OrgGraphView.tsx), of the whole     *)
(* organization or of one vault.  The nodes are built once per scope from  *)
(* tables that every refetch overwrites; the selection has a trail to go   *)
(* back and forward on, which effects write after a render; a simulation   *)
(* that runs by frames keeps the nodes a pointer holds and a request to    *)
(* move the camera.  Coordinates, forces, zoom and colours are left out:   *)
(* what is kept of the layout is which nodes it gives a place.             *)
(***************************************************************************)
EXTENDS Naturals, Sequences

CONSTANTS None,
          Org,        \* The scope of the whole organization; a vault is the scope of its own graph.
          Kind,       \* The kind of every node.
          Ws,         \* The workspace of a workspace, vault, page or source.
          Vault,      \* The vault of a vault, page or source.
          Access,     \* <<person or group, workspace>>
          Member,     \* <<person, group>>
          GuestOf,    \* <<guest, vault>>
          Linked,     \* <<page or source, page>>
          DataSets,   \* What a fetch may answer: sets of nodes.
          Grabbed,    \* The nodes the pointer goes down on.
          MaxPicks    \* Selections, toggles of layers and changes of scope; what may come before one, too.

VARIABLES scope, dir, graph, layers, selected, trail, pointer, sim, fit, focus, resizing, picks

vars == <<scope, dir, graph, layers, selected, trail, pointer, sim, fit, focus, resizing, picks>>

Nodes == DOMAIN Kind
Reset == "reset"
GraphScopes == {Org} \cup {n \in Nodes : Kind[n] = "vault"}
OfKind(S, kinds) == {n \in S : Kind[n] \in kinds}
Content == {"page", "source"}

-----------------------------------------------------------------------------
(* Nodes, the closure of a selection, and the places of its layout. *)

\* buildOrgGraph: the nodes of a scope, from the tables as they are.
Built(s, d) == IF s = Org THEN d ELSE {n \in OfKind(d, Content \cup {"vault"}) : Vault[n] = s}

GroupsOf(p) == {g \in Nodes : <<p, g>> \in Member}
GrantedTo(S) == {w \in Nodes : \E x \in S : <<x, w>> \in Access}
VaultsIn(W) == {v \in OfKind(Nodes, {"vault"}) : Ws[v] \in W}
Holders(w) == {x \in Nodes : <<x, w>> \in Access}

\* ogClosure, by the kind of the node.
Related == [n \in Nodes |->
    CASE Kind[n] = "person" ->
            LET W == GrantedTo({n} \cup GroupsOf(n)) IN GroupsOf(n) \cup W \cup VaultsIn(W)
      [] Kind[n] = "guest" -> {v \in Nodes : <<n, v>> \in GuestOf}
      [] Kind[n] = "group" ->
            {p \in Nodes : <<p, n>> \in Member} \cup GrantedTo({n}) \cup VaultsIn(GrantedTo({n}))
      [] Kind[n] = "ws" ->
            {x \in OfKind(Nodes, Content \cup {"vault"}) : Ws[x] = n} \cup Holders(n)
                \cup {p \in Nodes : GroupsOf(p) \cap Holders(n) # {}}
      [] Kind[n] = "vault" ->
            {Ws[n]} \cup {x \in OfKind(Nodes, Content) : Vault[x] = n}
                \cup {g \in Nodes : <<g, n>> \in GuestOf} \cup Holders(Ws[n])
      [] OTHER -> {Vault[n]} \cup {x \in Nodes : <<x, n>> \in Linked \/ <<n, x>> \in Linked}]

Closure(n, G) == {n} \cup (Related[n] \cap G)

\* ogFocusLayout: the kinds its rings and clusters take, by the kind of the selection.
PlacedKinds(n) ==
    CASE Kind[n] = "ws" -> {"person", "guest", "group", "vault"} \cup Content
      [] Kind[n] = "vault" -> {"person", "guest", "group", "ws"} \cup Content
      [] Kind[n] \in {"person", "guest"} -> {"group", "ws", "vault"} \cup Content
      [] Kind[n] = "group" -> {"person", "ws", "vault"} \cup Content
      [] OTHER -> {"vault"} \cup Content

\* Mutant: the inner ring of a group is that of a person.
PlacedWithoutMembers(n, G, V) ==
    {n} \cup OfKind(Closure(n, G) \cap V, {"group", "ws", "vault"} \cup Content)

Placed(n, G, V) == {n} \cup OfKind(Closure(n, G) \cap V, PlacedKinds(n))

-----------------------------------------------------------------------------
(* What is visible. *)

InVault(n, G) == n \in G /\ Kind[n] \in {"vault"} \cup Content

PagesOn(s, l, n, G) == s # Org \/ l.pages = "on" \/ (l.pages = "off" /\ InVault(n, G))

\* A chip hides a workspace of the organization; the graph of a vault has a workspace of its own.
Off(s, l) == IF s = Org THEN l.wsOff ELSE {}

\* wsAll: the workspaces a person, guest or group reaches.
Reaches == [n \in OfKind(Nodes, {"person", "guest", "group"}) |->
    IF Kind[n] = "guest" THEN {Ws[v] : v \in {x \in Nodes : <<n, x>> \in GuestOf}}
    ELSE GrantedTo({n} \cup GroupsOf(n))]

Visible(s, l, n, G) ==
    {x \in G :
        CASE Kind[x] \in {"ws", "vault"} -> Ws[x] \notin Off(s, l)
          [] Kind[x] = "page" -> PagesOn(s, l, n, G) /\ Ws[x] \notin Off(s, l)
          [] Kind[x] = "source" -> l.sources /\ Ws[x] \notin Off(s, l)
          [] Kind[x] = "group" -> l.groups /\ ~(Reaches[x] \subseteq Off(s, l))
          [] OTHER -> l.people /\ (Reaches[x] = {} \/ ~(Reaches[x] \subseteq Off(s, l)))}

Shown == Visible(scope, layers, selected, graph)

-----------------------------------------------------------------------------
(* Effects of a render. *)

NoFocus == [id |-> None, placed |-> {}]
Focus(s, l, n, G) ==
    IF n \in G THEN [id |-> n, placed |-> Placed(n, G, Visible(s, l, n, G))] ELSE NoFocus
Request(n, G) == IF n \in G THEN n ELSE Reset

\* The effect on selected: a step along the trail or a reset records nothing.
Recorded(t, n) ==
    IF n = selected THEN t
    ELSE IF t.skip THEN [t EXCEPT !.skip = FALSE]
    ELSE IF t.nav THEN [t EXCEPT !.nav = FALSE]
    ELSE IF selected # None THEN [t EXCEPT !.past = Append(t.past, selected), !.ahead = <<>>]
    ELSE t

\* The effect on vaultFocused: hidden pages are no longer hidden at the next vault.
Released(l, n, G) ==
    IF l.pages = "suppressed" /\ InVault(n, G) /\ ~InVault(selected, graph)
    THEN [l EXCEPT !.pages = "off"] ELSE l

\* Mutant: the focus effect runs when the selection changes and not when the visible nodes do.
RenderKeepsPlaces(n, l, t, touched) ==
    LET shownLayers == Released(l, n, graph) IN
    /\ selected' = n
    /\ trail' = Recorded(t, n)
    /\ layers' = shownLayers
    /\ IF n # selected
       THEN focus' = Focus(scope, shownLayers, n, graph) /\ fit' = Request(n, graph)
       ELSE UNCHANGED <<focus, fit>>

\* A render of the same scope: selection n, layers l, which are a new object if touched.
Render(n, l, t, touched) ==
    LET shownLayers == Released(l, n, graph) IN
    /\ selected' = n
    /\ trail' = Recorded(t, n)
    /\ layers' = shownLayers
    /\ IF n # selected \/ touched
       THEN focus' = Focus(scope, shownLayers, n, graph) /\ fit' = Request(n, graph)
       ELSE UNCHANGED <<focus, fit>>

-----------------------------------------------------------------------------
NewLayers == [people |-> TRUE, groups |-> TRUE, pages |-> "off", sources |-> FALSE, wsOff |-> {}]
NewTrail == [past |-> <<>>, ahead |-> <<>>, nav |-> FALSE, skip |-> FALSE]
NewSim == [seeded |-> None, nodes |-> {}, pinned |-> {}]

GraphInit ==
    /\ scope \in GraphScopes /\ dir \in DataSets /\ graph = Built(scope, dir)
    /\ layers = NewLayers /\ selected = None /\ trail = NewTrail
    /\ pointer = None /\ sim = NewSim
    /\ fit = Reset /\ focus = NoFocus /\ resizing = FALSE /\ picks = 0

Pick == picks < MaxPicks /\ picks' = picks + 1

\* go: only to a node of the graph; a source shows its layer.
Go(n) ==
    /\ Pick /\ n \in graph
    /\ LET source == Kind[n] = "source" IN
       Render(n, IF source THEN [layers EXCEPT !.sources = TRUE] ELSE layers, trail, source)
    /\ UNCHANGED <<scope, dir, graph, pointer, sim, resizing>>

\* The search lists the nodes of the graph, hidden or not.
Search(n) == scope = Org /\ Go(n)

\* The rows of the inspector, from the tables as they are.
Offers(n) ==
    IF Kind[n] \in {"page", "source"} THEN Related[n] \ {Vault[n]}
    ELSE IF Kind[n] = "vault" THEN Related[n] \ ({Ws[n]} \cup OfKind(Nodes, Content \cup {"group"}))
    ELSE IF Kind[n] = "ws" THEN OfKind(Related[n], {"vault", "person"})
    ELSE OfKind(Related[n], {"ws", "group", "person"}) \cup {v \in Nodes : <<n, v>> \in GuestOf}

Inspect(n) == selected \in graph /\ n \in Offers(selected) \cap dir /\ Go(n)

\* The edges of the selected node can be clicked where both ends are visible.
Adjacent == [n \in Nodes |->
    {x \in Nodes : \/ <<x, n>> \in Access \cup Member \cup GuestOf \cup Linked
                   \/ <<n, x>> \in Access \cup Member \cup GuestOf \cup Linked
                   \/ Kind[x] = "vault" /\ Kind[n] \in Content /\ Vault[n] = x
                   \/ Kind[n] = "vault" /\ Kind[x] \in Content /\ Vault[x] = n
                   \/ Kind[x] = "vault" /\ Kind[n] = "ws" /\ Ws[x] = n
                   \/ Kind[n] = "vault" /\ Kind[x] = "ws" /\ Ws[n] = x}]

ClickEdge(n) == selected \in Shown /\ n \in Adjacent[selected] \cap Shown /\ Go(n)

CloseInspector ==
    /\ selected \in graph /\ Pick
    /\ Render(None, layers, trail, FALSE)
    /\ UNCHANGED <<scope, dir, graph, pointer, sim, resizing>>

GoBack ==
    /\ trail.past # <<>>
    /\ LET last == trail.past[Len(trail.past)] IN
       Render(last, layers,
              [trail EXCEPT !.nav = TRUE, !.past = SubSeq(@, 1, Len(@) - 1),
                            !.ahead = IF selected = None THEN @ ELSE <<selected>> \o @], FALSE)
    /\ UNCHANGED <<scope, dir, graph, pointer, sim, resizing, picks>>

GoForward ==
    /\ trail.ahead # <<>>
    /\ Render(Head(trail.ahead), layers,
              [trail EXCEPT !.nav = TRUE, !.ahead = Tail(@),
                            !.past = IF selected = None THEN @ ELSE Append(@, selected)], FALSE)
    /\ UNCHANGED <<scope, dir, graph, pointer, sim, resizing, picks>>

\* Mutant: the reset keeps what is selected.
RerunResetKeeps ==
    /\ sim' = [sim EXCEPT !.seeded = None]
    /\ trail' = [trail EXCEPT !.past = <<>>, !.ahead = <<>>, !.skip = TRUE]
    /\ fit' = None
    /\ UNCHANGED <<scope, dir, graph, layers, selected, focus, pointer, resizing, picks>>

\* rerunReset: nodes are seeded anew and the trail is dropped.
RerunReset ==
    LET emptied == [trail EXCEPT !.past = <<>>, !.ahead = <<>>, !.skip = TRUE] IN
    /\ sim' = [sim EXCEPT !.seeded = None]
    /\ selected' = None
    /\ trail' = Recorded(emptied, None)
    /\ IF selected # None THEN focus' = NoFocus /\ fit' = Reset ELSE fit' = None /\ UNCHANGED focus
    /\ UNCHANGED <<scope, dir, graph, layers, pointer, resizing, picks>>

-----------------------------------------------------------------------------
(* Layers. *)

SetLayers(l) ==
    /\ Pick /\ Render(selected, l, trail, TRUE)
    /\ UNCHANGED <<scope, dir, graph, pointer, sim, resizing>>

ToggleLayer ==
    \/ scope = Org /\ SetLayers([layers EXCEPT !.people = ~@])
    \/ scope = Org /\ SetLayers([layers EXCEPT !.groups = ~@])
    \/ SetLayers([layers EXCEPT !.sources = ~@])

\* Pages have three settings: where a vault is selected they show unless hidden there.
TogglePages ==
    LET inVault == InVault(selected, graph)
        showing == layers.pages = "on" \/ (layers.pages = "off" /\ inVault)
    IN /\ scope = Org
       /\ SetLayers([layers EXCEPT !.pages =
                        IF ~showing THEN "on" ELSE IF inVault THEN "suppressed" ELSE "off"])

\* A chip shows its workspace alone; the chip of the only one shown brings all back.
IsolateWs(w) ==
    LET all == OfKind(dir, {"ws"}) IN
    /\ scope = Org /\ w \in all
    /\ SetLayers([layers EXCEPT !.wsOff = IF all \ @ = {w} THEN {} ELSE all \ {w}])

-----------------------------------------------------------------------------
(* Data and scope. *)

\* A refetch overwrites the tables; the graph was built when the scope was entered.
DataComes ==
    /\ picks < MaxPicks /\ dir' \in DataSets \ {dir}
    /\ UNCHANGED <<scope, graph, layers, selected, trail, pointer, sim, fit, focus, resizing, picks>>

\* To a scope whose data is cached the view stays mounted: its first render has the old
\* selection, the second has none.  To another one the view is mounted anew.
ChangeScope(s) ==
    /\ s # scope /\ Pick
    /\ scope' = s /\ graph' = Built(s, dir)
    /\ selected' = None /\ fit' = Reset /\ focus' = NoFocus
    /\ \/ /\ trail' = Recorded(trail, None)
          /\ layers' = Released(layers, selected, graph')
          /\ UNCHANGED <<pointer, sim, resizing>>
       \/ /\ trail' = NewTrail /\ layers' = NewLayers
          /\ pointer' = None /\ sim' = NewSim /\ resizing' = FALSE
    /\ UNCHANGED dir

-----------------------------------------------------------------------------
(* Pointer, frames and size. *)

\* One button at a time: a second button pressed while the first is down, which
\* onNodeDown and the background would take for a new gesture, is left out.
NodeDown(n) ==
    /\ picks < MaxPicks /\ pointer = None /\ n \in Shown \cap Grabbed
    /\ pointer' = [node |-> n, moved |-> FALSE]
    /\ UNCHANGED <<scope, dir, graph, layers, selected, trail, sim, fit, focus, resizing, picks>>

BackgroundDown ==
    /\ picks < MaxPicks /\ pointer = None
    /\ pointer' = [node |-> None, moved |-> FALSE]
    /\ UNCHANGED <<scope, dir, graph, layers, selected, trail, sim, fit, focus, resizing, picks>>

\* A held node is pinned under the pointer, from more than four pixels on it is a drag; the
\* background moves the camera.
PointerMoves ==
    /\ pointer # None
    /\ \E far \in BOOLEAN : pointer' = [pointer EXCEPT !.moved = @ \/ far]
    /\ IF pointer.node = None THEN fit' = None /\ UNCHANGED sim
       ELSE sim' = [sim EXCEPT !.pinned = @ \cup ({pointer.node} \cap sim.nodes)] /\ UNCHANGED fit
    /\ UNCHANGED <<scope, dir, graph, layers, selected, trail, focus, resizing, picks>>

\* Mutant: a click is not released.
PointerUpHolds ==
    /\ pointer # None
    /\ pointer' = None
    /\ IF pointer.moved
       THEN sim' = [sim EXCEPT !.pinned = @ \ {pointer.node}] /\ UNCHANGED <<selected, trail, layers, fit, focus, picks>>
       ELSE /\ Pick /\ UNCHANGED sim
            /\ Render(IF pointer.node = selected THEN None ELSE pointer.node, layers, trail, FALSE)
    /\ UNCHANGED <<scope, dir, graph, resizing>>

\* What was not dragged was clicked.
PointerUp ==
    /\ pointer # None
    /\ pointer' = None
    /\ sim' = [sim EXCEPT !.pinned = @ \ {pointer.node}]
    /\ IF pointer.moved THEN UNCHANGED <<selected, trail, layers, fit, focus, picks>>
       ELSE Pick /\ Render(IF pointer.node = selected THEN None ELSE pointer.node, layers, trail, FALSE)
    /\ UNCHANGED <<scope, dir, graph, resizing>>

\* A frame: ensureSeed, step, paint, and maybeFit, which waits for the layout to calm down
\* unless it resets the camera.
Frame ==
    /\ sim' = IF sim.seeded = scope /\ sim.nodes # {} THEN sim
              ELSE [seeded |-> scope, nodes |-> graph, pinned |-> {}]
    /\ fit' \in {None} \cup ({fit} \cap Nodes)
    /\ UNCHANGED <<scope, dir, graph, layers, selected, trail, pointer, focus, resizing, picks>>

\* Wheel, pinch, buttons: the user moves the camera, a request is dropped.
Zoom ==
    /\ fit # None /\ fit' = None
    /\ UNCHANGED <<scope, dir, graph, layers, selected, trail, pointer, sim, focus, resizing, picks>>

\* The window's size settles 180 ms after it changed.
Resize ==
    /\ picks < MaxPicks /\ ~resizing /\ resizing' = TRUE
    /\ UNCHANGED <<scope, dir, graph, layers, selected, trail, pointer, sim, fit, focus, picks>>

ResizeSettles ==
    /\ resizing /\ resizing' = FALSE
    /\ sim' = [sim EXCEPT !.seeded = None]
    /\ fit' = IF selected = None THEN Reset ELSE selected
    /\ UNCHANGED <<scope, dir, graph, layers, selected, trail, pointer, focus, picks>>

GraphNext ==
    \/ \E n \in Nodes : Search(n) \/ Inspect(n) \/ ClickEdge(n) \/ NodeDown(n)
    \/ CloseInspector \/ GoBack \/ GoForward \/ RerunReset
    \/ ToggleLayer \/ TogglePages \/ \E w \in Nodes : IsolateWs(w)
    \/ DataComes \/ \E s \in GraphScopes : ChangeScope(s)
    \/ BackgroundDown \/ PointerMoves \/ PointerUp \/ Frame \/ Zoom \/ Resize \/ ResizeSettles

-----------------------------------------------------------------------------
\* Layout and camera are about the node that is selected, whatever was picked, hidden, resized
\* or gone back to: all that is visible of its closure has a place, and a request to move the
\* camera names it.
ViewFollowsSelection ==
    /\ fit \in Nodes => fit = selected
    /\ fit = Reset => selected \notin graph
    /\ focus.id = (IF selected \in graph THEN selected ELSE None)
    /\ selected \in graph => Closure(selected, graph) \cap Shown \subseteq focus.placed

\* Only the node under the pointer is pinned: no order of clicks, drags, frames and resizes
\* leaves one behind that no longer moves.
OnlyHeldNodePinned == \A n \in sim.pinned : pointer # None /\ pointer.node = n

\* A reset that is still to be skipped by the trail loses nothing: nothing is selected then.
SkipLosesNothing == trail.skip => selected = None

GraphSafe == ViewFollowsSelection /\ OnlyHeldNodePinned /\ SkipLosesNothing

=============================================================================
