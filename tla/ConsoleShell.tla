---------------------------- MODULE ConsoleShell ----------------------------
(***************************************************************************)
(* The frame around the console's pages: the menus and the palette of the  *)
(* top bar, the modals and row menus that pages open, and the tab bar of   *)
(* small screens with what does not fit into it.  Layers lie over each     *)
(* other: a modal over the page, popovers over modals, the palette over    *)
(* all.  A click meets the top one, a key press every one that listens.    *)
(***************************************************************************)
EXTENDS Naturals, Sequences, FiniteSets

CONSTANTS None, Items,                  \* the tabs in their order; a tab stands for its page
          OtherRoutes,                  \* pages without a tab
          Home, Login,
          Widths, MinTab,
          Places,                       \* where an element may be on the screen
          MaxTurns

VARIABLES route, width, menu, modal, rowMenu, openMore, leaving,
          anchor, pos, shifted, escaped, turns

vars == <<route, width, menu, modal, rowMenu, openMore, leaving, anchor, pos, shifted, escaped,
          turns>>
layers == <<menu, modal, rowMenu, openMore>>
placed == <<anchor, pos, shifted>>

Anchored == {"ws", "inbox", "profile"}
Popover == menu \in Anchored \/ rowMenu
Covered == menu # None \/ rowMenu \/ modal

-----------------------------------------------------------------------------
(* What the tab bar shows. *)

Fit == IF width \div MinTab > 1 THEN width \div MinTab ELSE 1

\* Mutant: no place is left for the tab that opens the rest.
PrimaryTabsAll == IF Fit < Len(Items) THEN Fit ELSE Len(Items)

PrimaryTabs == IF Fit >= Len(Items) THEN Len(Items) ELSE IF Fit > 1 THEN Fit - 1 ELSE 1

VisibleTabs == SubSeq(Items, 1, PrimaryTabs)
OverflowTabs == SubSeq(Items, PrimaryTabs + 1, Len(Items))
In(seq) == {seq[i] : i \in DOMAIN seq}

-----------------------------------------------------------------------------
ShellInit ==
    /\ route = Home /\ width \in Widths
    /\ menu = None /\ modal = FALSE /\ rowMenu = FALSE /\ openMore = FALSE /\ leaving = FALSE
    /\ anchor \in Places /\ pos = anchor /\ shifted = FALSE
    /\ escaped = FALSE /\ turns = 0

Turn == turns < MaxTurns /\ turns' = turns + 1

\* What is clicked lies outside the tab bar, and the press closes what the bar had opened; what is
\* chosen with the keyboard does not.
Chosen == openMore' \in {openMore, FALSE}

\* A popover measures its anchor as it mounts.
Measured == pos' = anchor /\ shifted' = FALSE /\ UNCHANGED anchor

\* A button of the bar. While its menu is open it is reached with the keyboard only.
ToggleMenu(id) ==
    /\ route # Login /\ ~modal /\ ~rowMenu /\ menu \in Anchored \cup {None} /\ Turn
    /\ menu' = (IF menu = id THEN None ELSE id) /\ escaped' = FALSE
    /\ Measured
    /\ Chosen
    /\ UNCHANGED <<route, width, modal, rowMenu, leaving>>

\* The shortcut works from everywhere, over modals and row menus too.
OpenPalette ==
    /\ route # Login /\ menu # "palette" /\ Turn
    /\ menu' = "palette" /\ escaped' = FALSE
    /\ Chosen
    /\ UNCHANGED <<route, width, modal, rowMenu, leaving, placed>>

OpenModal ==
    /\ route # Login /\ ~Covered /\ Turn
    /\ modal' = TRUE /\ escaped' = FALSE
    /\ Chosen
    /\ UNCHANGED <<route, width, menu, rowMenu, leaving, placed>>

\* A row's menu, on the page or in a modal.
OpenRowMenu ==
    /\ route # Login /\ menu = None /\ ~rowMenu /\ Turn
    /\ rowMenu' = TRUE /\ escaped' = FALSE
    /\ Measured
    /\ Chosen
    /\ UNCHANGED <<route, width, menu, modal, leaving>>

\* An item does what it says, which may be to open a modal that asks, and the menu closes.
PickRowItem(asks) ==
    /\ rowMenu /\ menu = None /\ Turn
    /\ rowMenu' = FALSE /\ modal' = (modal \/ asks) /\ escaped' = FALSE
    /\ Chosen
    /\ UNCHANGED <<route, width, menu, leaving, placed>>

-----------------------------------------------------------------------------
(* Closing *)

\* A click beside what is on top: its backdrop alone gets it, but a press anywhere outside the
\* tab bar closes what the bar had opened. Some modals stay.
ClickOutside(stays) ==
    /\ Covered \/ openMore
    /\ openMore' = FALSE
    /\ IF menu # None THEN menu' = None /\ UNCHANGED <<modal, rowMenu>>
       ELSE IF rowMenu THEN rowMenu' = FALSE /\ UNCHANGED <<menu, modal>>
       ELSE modal' = (modal /\ stays) /\ UNCHANGED <<menu, rowMenu>>
    /\ UNCHANGED <<route, width, leaving, placed, escaped, turns>>

CloseModal ==
    /\ modal /\ menu = None /\ ~rowMenu
    /\ modal' = FALSE
    /\ Chosen
    /\ UNCHANGED <<route, width, menu, rowMenu, leaving, placed, escaped, turns>>

\* Mutant: a popover leaves the key to what lies under it.
EscapeUnderPopover ==
    /\ menu' = (IF menu = "palette" THEN None ELSE menu)
    /\ modal' = FALSE /\ openMore' = FALSE /\ UNCHANGED rowMenu

\* Palette, popovers, modals and the tab bar all listen to the document.
EscapeHeard == menu' = None /\ modal' = FALSE /\ rowMenu' = FALSE /\ openMore' = FALSE

Escape ==
    /\ Covered \/ openMore
    /\ EscapeHeard /\ escaped' = TRUE
    /\ UNCHANGED <<route, width, leaving, placed, turns>>

-----------------------------------------------------------------------------
(* Going elsewhere *)

Gone == menu' = None /\ modal' = FALSE /\ rowMenu' = FALSE /\ openMore' = FALSE

\* The links of palette, inbox and profile load the page; nothing of this one is kept.
FollowLink(r) ==
    /\ menu \in {"palette", "inbox", "profile"} /\ Turn
    /\ route' = r /\ Gone /\ leaving' = FALSE
    /\ UNCHANGED <<width, placed, escaped>>

\* A tab. A press on the bar itself does not close what the bar had opened.
TabClick(r) ==
    /\ route # Login /\ ~Covered /\ r \in In(VisibleTabs) \ {route} /\ Turn
    /\ route' = r
    /\ UNCHANGED <<width, layers, leaving, placed, escaped>>

MoreClick ==
    /\ route # Login /\ ~Covered /\ OverflowTabs # <<>> /\ Turn
    /\ openMore' = ~openMore /\ escaped' = FALSE
    /\ UNCHANGED <<route, width, menu, modal, rowMenu, leaving, placed>>

MoreItem(r) ==
    /\ route # Login /\ ~Covered /\ openMore /\ r \in In(OverflowTabs) /\ Turn
    /\ route' = r /\ openMore' = FALSE
    /\ UNCHANGED <<width, menu, modal, rowMenu, leaving, placed, escaped>>

\* The rail of large screens lies outside the tab bar.
RailClick(r) ==
    /\ route # Login /\ ~Covered /\ r # route /\ Turn
    /\ route' = r /\ openMore' = FALSE
    /\ UNCHANGED <<width, menu, modal, rowMenu, leaving, placed, escaped>>

\* Signing out closes the menu and waits for the server; the page stays usable meanwhile.
SignOut ==
    /\ menu = "profile" /\ menu' = None /\ leaving' = TRUE
    /\ Chosen
    /\ UNCHANGED <<route, width, modal, rowMenu, placed, escaped, turns>>

SignOutReturns ==
    /\ leaving /\ leaving' = FALSE
    /\ route' = Login /\ Gone
    /\ UNCHANGED <<width, placed, escaped, turns>>

SignIn ==
    /\ route = Login /\ Turn /\ route' = Home
    /\ UNCHANGED <<width, layers, leaving, placed, escaped>>

-----------------------------------------------------------------------------
(* The screen *)

\* Mutant: areas that scroll within the page go unnoticed.
HearsWindow(what) == what \in {"resize", "page"}

\* What a popover listens to: resizes, and scrolling of whatever scrolls.
Hears(what) == what \in {"resize", "page", "area"}

\* The anchor of the popover moves: with a resize, as something scrolls, or because what lies
\* before it grows or shrinks.
AnchorMoves(what, y) ==
    /\ Popover /\ y # anchor /\ what # "resize" /\ Turn
    /\ anchor' = y
    /\ IF Hears(what) THEN pos' = y /\ shifted' = FALSE
       ELSE pos' = pos /\ shifted' = (shifted \/ what = "content")
    /\ UNCHANGED <<route, width, layers, leaving, escaped>>

Resize(w, y) ==
    /\ w # width /\ Turn
    /\ width' = w /\ anchor' = y
    /\ IF Popover /\ Hears("resize") THEN pos' = y /\ shifted' = FALSE
       ELSE UNCHANGED <<pos, shifted>>
    /\ UNCHANGED <<route, layers, leaving, escaped>>

Routes == In(Items) \cup OtherRoutes

ShellNext ==
    \/ \E id \in Anchored : ToggleMenu(id)
    \/ OpenPalette \/ OpenModal \/ OpenRowMenu
    \/ \E b \in BOOLEAN : PickRowItem(b) \/ ClickOutside(b)
    \/ CloseModal \/ Escape
    \/ \E r \in Routes : FollowLink(r)
    \/ \E r \in In(Items) : TabClick(r) \/ MoreItem(r) \/ RailClick(r)
    \/ MoreClick
    \/ SignOut \/ SignOutReturns \/ SignIn
    \/ \E y \in Places :
        \/ \E what \in {"page", "area", "content"} : AnchorMoves(what, y)
        \/ \E w \in Widths : Resize(w, y)

-----------------------------------------------------------------------------
\* At every width each page has one place in the bar, a tab or the rest, and the tabs fit in
\* beside the one that opens the rest.
NavCovers ==
    /\ In(VisibleTabs) \cup In(OverflowTabs) = In(Items)
    /\ In(VisibleTabs) \cap In(OverflowTabs) = {}
    /\ VisibleTabs # <<>>
    /\ LET shown == Len(VisibleTabs) + (IF OverflowTabs = <<>> THEN 0 ELSE 1)
       IN  Fit > 1 => shown <= Fit

\* Escape leaves no layer, in whatever order they were opened.
EscapeClosesAll == escaped => ~Covered /\ ~openMore

\* A popover is where its anchor is, whatever scrolled or was resized, until the page's content
\* moves the anchor by itself.
PopoverOnAnchor == (Popover /\ ~shifted) => pos = anchor

\* Where nobody is signed in no layer of the shell is left.
LoginUncovered == route = Login => ~Covered /\ ~openMore

ShellSafe == NavCovers /\ EscapeClosesAll /\ PopoverOnAnchor /\ LoginUncovered

=============================================================================
