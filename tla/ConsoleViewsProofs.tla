-------------------------- MODULE ConsoleViewsProofs --------------------------
(***************************************************************************)
(* Theorems about the pages of ConsoleViews: the shell, the dialog of a    *)
(* new workspace, the settings, the modal that ingests sources, the audit  *)
(* drawer, the organisation's graph and the timeline.  Every page has an   *)
(* inductive invariant of its own, over its own steps; the last section    *)
(* carries them over to the specification of the console.                  *)
(***************************************************************************)
EXTENDS ConsoleViews, SequenceTheorems, FiniteSetTheorems, TLAPS

-----------------------------------------------------------------------------
(* The shell. *)

LEMMA ShellPageOpens == ViewsInit /\ onPage = "shell" => Shell!ShellInit
  BY DEF ViewsInit

LEMMA ShellPageMoves ==
    ASSUME [ViewsNext]_pagesVars, onPage' = "shell"
    PROVE  onPage = "shell" /\ [Shell!ShellNext]_(Shell!vars)
  BY DEF ViewsNext, pagesVars, Shell!vars, shellRoute, screenWidth, menu, modal, rowMenu, openMore,
     leaving, anchor, pos, shifted, escaped, shellTurns

\* A tab bar that is cut anywhere but at its beginning shows each tab in one of its parts.
LEMMA TabsCut ==
    ASSUME NEW p \in 1..Len(Items)
    PROVE  /\ Shell!In(SubSeq(Items, 1, p)) \cup Shell!In(SubSeq(Items, p + 1, Len(Items))) = Shell!In(Items)
           /\ Shell!In(SubSeq(Items, 1, p)) \cap Shell!In(SubSeq(Items, p + 1, Len(Items))) = {}
           /\ Len(SubSeq(Items, 1, p)) = p
           /\ SubSeq(Items, p + 1, Len(Items)) # <<>> => p < Len(Items)
  <1> DEFINE n == Len(Items)
             S == {Items[i] : i \in DOMAIN Items}
             first == SubSeq(Items, 1, p)
             rest == SubSeq(Items, p + 1, n)
  <1>1. Items \in Seq(S) /\ n \in Nat /\ DOMAIN Items = 1..n /\ \A i \in 1..n : Items[i] \in S
    BY ShellAssumption, LenProperties
  <1> HIDE DEF S
  <1>2. /\ DOMAIN first = 1..p /\ Len(first) = p
        /\ \A i \in 1..p : first[i] = Items[i]
    BY <1>1
  <1>3. /\ DOMAIN rest = 1..(n - p) /\ Len(rest) = n - p
        /\ \A i \in 1..(n - p) : rest[i] = Items[p + i]
    <2>1. p \in Nat /\ p <= n /\ \A i \in (p + 1)..n : Items[i] \in S
      BY <1>1
    <2>2. /\ Len(rest) = (IF p + 1 <= n THEN n - (p + 1) + 1 ELSE 0) /\ rest \in Seq(S)
          /\ \A i \in 1..(n - (p + 1) + 1) : rest[i] = Items[(p + 1) + i - 1]
      BY <1>1, <2>1, SubSeqProperties
    <2>3. Len(rest) = n - p
      <3> HIDE DEF n, rest
      <3> QED BY <1>1, <2>1, <2>2
    <2>4. ASSUME NEW i \in 1..(n - p) PROVE rest[i] = Items[p + i]
      <3> HIDE DEF n, rest
      <3>1. i \in 1..(n - (p + 1) + 1) /\ (p + 1) + i - 1 = p + i
        BY <1>1, <2>1
      <3> QED BY <2>2, <3>1
    <2>5. DOMAIN rest = 1..(n - p)
      BY <2>2, <2>3, LenProperties
    <2> QED BY <2>3, <2>4, <2>5
  <1>4. ASSUME NEW i \in 1..n PROVE i \in 1..p \/ (i - p \in 1..(n - p) /\ rest[i - p] = Items[i])
    <2>1. i \in 1..p \/ (i - p \in 1..(n - p) /\ p + (i - p) = i)
      BY <1>1
    <2> HIDE DEF n, rest
    <2> QED BY <1>3, <2>1
  <1>5. Shell!In(first) \cup Shell!In(rest) = Shell!In(Items)
    <2>1. ASSUME NEW i \in 1..n PROVE Items[i] \in Shell!In(first) \cup Shell!In(rest)
      BY <1>2, <1>3, <1>4 DEF Shell!In
    <2>2. ASSUME NEW i \in 1..p PROVE first[i] \in Shell!In(Items)
      <3>1. i \in 1..n
        BY <1>1
      <3> HIDE DEF n, first
      <3> QED BY <1>1, <1>2, <3>1 DEF Shell!In
    <2>3. ASSUME NEW i \in 1..(n - p) PROVE rest[i] \in Shell!In(Items)
      <3>1. p + i \in 1..n
        BY <1>1
      <3> QED BY <1>1, <1>3, <3>1 DEF Shell!In
    <2> QED BY <1>1, <1>2, <1>3, <2>1, <2>2, <2>3 DEF Shell!In
  <1>6. Shell!In(first) \cap Shell!In(rest) = {}
    <2>1. ASSUME NEW i \in 1..p, NEW j \in 1..(n - p) PROVE first[i] # rest[j]
      <3>1. i \in DOMAIN Items /\ p + j \in DOMAIN Items /\ i # p + j
        BY <1>1
      <3> HIDE DEF n, first, rest
      <3> QED BY <1>2, <1>3, <3>1, ShellAssumption
    <2> HIDE DEF n, first, rest
    <2> QED BY <1>2, <1>3, <2>1 DEF Shell!In
  <1>7. rest # <<>> => p < n
    <2>1. ASSUME p = n PROVE rest = <<>>
      BY <1>1, <2>1, SubSeqEmpty
    <2> HIDE DEF n, rest
    <2> QED BY <1>1, <2>1
  <1> QED BY <1>2, <1>5, <1>6, <1>7

\* What fits in, as a number, and how many tabs are shown.
LEMMA TabsFit ==
    ASSUME screenWidth \in Nat
    PROVE  /\ Shell!Fit \in Nat \ {0} /\ Shell!PrimaryTabs \in 1..Len(Items)
           /\ Shell!Fit > 1 => IF Shell!PrimaryTabs = Len(Items) THEN Shell!PrimaryTabs <= Shell!Fit
                                                                 ELSE Shell!PrimaryTabs + 1 <= Shell!Fit
  <1>1. screenWidth \div MinTab \in Int
    BY ShellAssumption
  <1>2. Shell!Fit \in Nat \ {0}
    BY <1>1 DEF Shell!Fit
  <1>3. Len(Items) \in Nat \ {0}
    BY ShellAssumption, EmptySeq, LenProperties
  <1> QED BY <1>2, <1>3 DEF Shell!PrimaryTabs

ShellInv ==
    /\ screenWidth \in Nat
    /\ modal \in BOOLEAN /\ rowMenu \in BOOLEAN /\ openMore \in BOOLEAN /\ escaped \in BOOLEAN /\ shifted \in BOOLEAN
    /\ Shell!EscapeClosesAll /\ Shell!PopoverOnAnchor /\ Shell!LoginUncovered

LEMMA ShellStarts == Shell!ShellInit => ShellInv
  BY ShellAssumption DEF Shell!ShellInit, ShellInv, Shell!EscapeClosesAll, Shell!PopoverOnAnchor,
     Shell!LoginUncovered, Shell!Covered, Shell!Popover, Shell!Anchored

LEMMA ShellStep == ASSUME ShellInv, [Shell!ShellNext]_(Shell!vars) PROVE ShellInv'
  <1>0. None \notin {"ws", "inbox", "profile"} /\ ScreenWidths \subseteq Nat
    BY ShellAssumption
  <1> USE DEF ShellInv, Shell!EscapeClosesAll, Shell!PopoverOnAnchor, Shell!LoginUncovered,
      Shell!Covered, Shell!Popover, Shell!Anchored, Shell!Chosen, Shell!placed, Shell!layers, Shell!Measured, Shell!Gone
  <1>1. CASE UNCHANGED Shell!vars
    BY <1>1 DEF Shell!vars
  <1>2. CASE \E id \in Shell!Anchored : Shell!ToggleMenu(id)
    BY <1>0, <1>2 DEF Shell!ToggleMenu
  <1>3. CASE Shell!OpenPalette
    BY <1>0, <1>3 DEF Shell!OpenPalette
  <1>4. CASE Shell!OpenModal
    BY <1>0, <1>4 DEF Shell!OpenModal
  <1>5. CASE Shell!OpenRowMenu
    BY <1>0, <1>5 DEF Shell!OpenRowMenu
  <1>6. CASE \E b \in BOOLEAN : Shell!PickRowItem(b)
    BY <1>0, <1>6 DEF Shell!PickRowItem
  <1>7. ASSUME NEW b \in BOOLEAN, Shell!ClickOutside(b) PROVE ShellInv'
    BY <1>0, <1>7 DEF Shell!ClickOutside
  <1>8. CASE Shell!CloseModal
    BY <1>0, <1>8 DEF Shell!CloseModal
  <1>9. CASE Shell!Escape
    BY <1>0, <1>9 DEF Shell!Escape, Shell!EscapeHeard
  <1>10. CASE \E r \in Shell!Routes : Shell!FollowLink(r)
    BY <1>0, <1>10 DEF Shell!FollowLink
  <1>11. ASSUME NEW r \in Shell!In(Items), Shell!TabClick(r) PROVE ShellInv'
    <2>1. r # Login
      BY ShellAssumption DEF Shell!In
    <2> QED BY <1>0, <1>11, <2>1 DEF Shell!TabClick
  <1>12. ASSUME NEW r, Shell!MoreItem(r) PROVE ShellInv'
    BY <1>0, <1>12 DEF Shell!MoreItem
  <1>13. ASSUME NEW r, Shell!RailClick(r) PROVE ShellInv'
    BY <1>0, <1>13 DEF Shell!RailClick
  <1>14. CASE Shell!MoreClick
    BY <1>0, <1>14 DEF Shell!MoreClick
  <1>15. CASE Shell!SignOut
    BY <1>0, <1>15 DEF Shell!SignOut
  <1>16. CASE Shell!SignOutReturns
    BY <1>0, <1>16 DEF Shell!SignOutReturns
  <1>17. CASE Shell!SignIn
    BY <1>0, <1>17 DEF Shell!SignIn
  <1>18. ASSUME NEW y, NEW what \in {"page", "area", "content"}, Shell!AnchorMoves(what, y) PROVE ShellInv'
    <2>1. CASE Shell!Hears(what)
      BY <1>0, <1>18, <2>1 DEF Shell!AnchorMoves
    <2>2. CASE ~Shell!Hears(what)
      <3>1. what = "content"
        BY <2>2 DEF Shell!Hears
      <3>2. shifted' = TRUE
        BY <1>18, <2>2, <3>1, Zenon DEF Shell!AnchorMoves
      <3> QED BY <1>0, <1>18, <2>2, <3>2 DEF Shell!AnchorMoves
    <2> QED BY <2>1, <2>2
  <1>19. ASSUME NEW y, NEW w \in ScreenWidths, Shell!Resize(w, y) PROVE ShellInv'
    BY <1>0, <1>19 DEF Shell!Resize, Shell!Hears
  <1> QED
    BY <1>1, <1>2, <1>3, <1>4, <1>5, <1>6, <1>7, <1>8, <1>9, <1>10, <1>11, <1>12, <1>13, <1>14, <1>15, <1>16, <1>17, <1>18, <1>19 DEF Shell!ShellNext

LEMMA ShellHolds == ShellInv => Shell!ShellSafe
  <1> SUFFICES ASSUME ShellInv PROVE Shell!NavCovers
    BY DEF ShellInv, Shell!ShellSafe
  <1>1. Len(Items) \in Nat
    BY ShellAssumption, LenProperties
  <1>2. Shell!VisibleTabs # <<>>
    BY TabsFit, TabsCut DEF ShellInv, Shell!VisibleTabs
  <1> QED BY <1>1, <1>2, TabsFit, TabsCut
    DEF ShellInv, Shell!NavCovers, Shell!VisibleTabs, Shell!OverflowTabs
-----------------------------------------------------------------------------
(* The dialog of a new workspace. *)

LEMMA NewWsPageOpens == ViewsInit /\ onPage = "newws" => NewWs!NewWorkspaceInit
  BY DEF ViewsInit

LEMMA NewWsPageMoves ==
    ASSUME [ViewsNext]_pagesVars, onPage' = "newws"
    PROVE  onPage = "newws" /\ [NewWs!NewWorkspaceNext]_(NewWs!vars)
  BY DEF ViewsNext, pagesVars, NewWs!vars, directory, ownId, formOpens, adds, creates, wsForm, bar,
     busy, making, made, finished

AllIn(seq) == {seq[i] : i \in DOMAIN seq}
NoRepeats(seq) == \A i, j \in DOMAIN seq : seq[i] = seq[j] => i = j

InviteForms == [named : BOOLEAN, described : BOOLEAN, invited : Seq(People)]
Makings == [click : Nat, dialog : Nat, form : InviteForms, ws : Nat \cup {None},
            toDescribe : BOOLEAN, toAdd : Seq(People)]
Workspaces == [described : BOOLEAN, members : SUBSET People]

NewWsTypes ==
    /\ directory \subseteq People /\ formOpens \in Nat /\ creates \in Nat
    /\ wsForm # None => wsForm \in InviteForms
    /\ making \subseteq Makings /\ finished \subseteq Makings
    /\ made \in Seq(Workspaces)

\* A click is known by its number, and no two made the same workspace.
ClicksApart ==
    /\ making \cap finished = {}
    /\ \A r \in making \cup finished : r.click <= creates
    /\ \A r, q \in making \cup finished : r.click = q.click => r = q
    /\ \A r, q \in making \cup finished : (r.ws # None /\ r.ws = q.ws) => r.click = q.click

\* What a click has done to its workspace, and what it has left to do, is all its form said.
MakingFits(r) ==
    /\ r.toDescribe => r.form.described
    /\ r.ws = None => r.toDescribe = r.form.described /\ r.toAdd = r.form.invited
    /\ r.ws # None => /\ r.ws \in DOMAIN made
                      /\ made[r.ws].described <=> (r.form.described /\ ~r.toDescribe)
                      /\ made[r.ws].members \cup AllIn(r.toAdd) = AllIn(r.form.invited)

NewWsInv ==
    /\ NewWsTypes /\ ClicksApart
    /\ \A r \in making : MakingFits(r)
    /\ \A r \in finished : r.ws # None /\ ~r.toDescribe /\ r.toAdd = <<>> /\ MakingFits(r)
    /\ NewWs!NobodyTwice

LEMMA NewWsStarts == NewWs!NewWorkspaceInit => NewWsInv
  BY DEF NewWs!NewWorkspaceInit, NewWsInv, NewWsTypes, ClicksApart, NewWs!NobodyTwice

\* Whoever is taken off a sequence without repetitions leaves one without repetitions.
LEMMA OneTakenOff ==
    ASSUME NEW S, NEW seq \in Seq(S), NoRepeats(seq),
           NEW k \in DOMAIN seq
    PROVE  LET less == SubSeq(seq, 1, k - 1) \o SubSeq(seq, k + 1, Len(seq))
           IN  less \in Seq(S) /\ NoRepeats(less)
  <1> DEFINE n == Len(seq)
             first == SubSeq(seq, 1, k - 1)
             rest == SubSeq(seq, k + 1, n)
             less == first \o rest
  <1>1. n \in Nat /\ k \in 1..n /\ DOMAIN seq = 1..n
    BY LenProperties
  <1>2. first \in Seq(S) /\ Len(first) = k - 1 /\ \A i \in 1..(k - 1) : first[i] = seq[i]
    <2>1. \A i \in 1..(k - 1) : seq[i] \in S
      BY <1>1
    <2>2. /\ first \in Seq(S) /\ Len(first) = (IF 1 <= k - 1 THEN k - 1 - 1 + 1 ELSE 0)
          /\ \A i \in 1..(k - 1 - 1 + 1) : first[i] = seq[1 + i - 1]
      BY <1>1, <2>1, SubSeqProperties
    <2> HIDE DEF n, first
    <2>3. k - 1 - 1 + 1 = k - 1 /\ \A i \in 1..(k - 1) : 1 + i - 1 = i
      BY <1>1
    <2>4. Len(first) = k - 1
      BY <1>1, <2>2
    <2> QED BY <1>1, <2>2, <2>3, <2>4
  <1>3. rest \in Seq(S) /\ Len(rest) = n - k /\ \A i \in 1..(n - k) : rest[i] = seq[k + i]
    <2>1. \A i \in (k + 1)..n : seq[i] \in S
      BY <1>1
    <2>2. /\ rest \in Seq(S) /\ Len(rest) = (IF k + 1 <= n THEN n - (k + 1) + 1 ELSE 0)
          /\ \A i \in 1..(n - (k + 1) + 1) : rest[i] = seq[(k + 1) + i - 1]
      BY <1>1, <2>1, SubSeqProperties
    <2> HIDE DEF n, rest
    <2>3. n - (k + 1) + 1 = n - k /\ \A i \in 1..(n - k) : (k + 1) + i - 1 = k + i
      BY <1>1
    <2>4. Len(rest) = n - k
      BY <1>1, <2>2
    <2> QED BY <1>1, <2>2, <2>3, <2>4
  <1> HIDE DEF n, first, rest
  <1>4. /\ less \in Seq(S) /\ Len(less) = n - 1
        /\ \A i \in 1..(n - 1) : less[i] = IF i <= k - 1 THEN seq[i] ELSE seq[i + 1]
    <2>1. /\ less \in Seq(S) /\ Len(less) = Len(first) + Len(rest)
          /\ \A i \in 1..(Len(first) + Len(rest)) : less[i] = IF i <= Len(first) THEN first[i] ELSE rest[i - Len(first)]
      <3>1. first \in Seq(S) /\ rest \in Seq(S)
        BY <1>2, <1>3
      <3> QED BY <3>1, ConcatProperties, Zenon
    <2>2. Len(less) = n - 1
      BY <1>1, <1>2, <1>3, <2>1
    <2>3. ASSUME NEW i \in 1..(n - 1) PROVE less[i] = IF i <= k - 1 THEN seq[i] ELSE seq[i + 1]
      <3> HIDE DEF less
      <3>1. less[i] = IF i <= k - 1 THEN first[i] ELSE rest[i - (k - 1)]
        BY <1>1, <1>2, <1>3, <2>1
      <3>2. CASE i <= k - 1
        BY <1>1, <1>2, <3>1, <3>2
      <3>3. CASE ~(i <= k - 1)
        <4>1. i - (k - 1) \in 1..(n - k) /\ k + (i - (k - 1)) = i + 1
          BY <1>1, <3>3
        <4> QED BY <1>3, <3>1, <3>3, <4>1
      <3> QED BY <3>2, <3>3
    <2> QED BY <2>1, <2>2, <2>3
  <1> HIDE DEF less
  <1>5. ASSUME NEW i \in DOMAIN less, NEW j \in DOMAIN less, less[i] = less[j] PROVE i = j
    <2>1. i \in 1..(n - 1) /\ j \in 1..(n - 1)
      BY <1>4, <1>5, LenProperties
    <2>2. /\ (IF i <= k - 1 THEN i ELSE i + 1) \in DOMAIN seq
          /\ (IF j <= k - 1 THEN j ELSE j + 1) \in DOMAIN seq
      BY <1>1, <2>1
    <2>3. seq[IF i <= k - 1 THEN i ELSE i + 1] = seq[IF j <= k - 1 THEN j ELSE j + 1]
      BY <1>4, <1>5, <2>1
    <2>4. (IF i <= k - 1 THEN i ELSE i + 1) = (IF j <= k - 1 THEN j ELSE j + 1)
      BY <2>2, <2>3 DEF NoRepeats
    <2> QED BY <1>1, <2>1, <2>4
  <1> QED BY <1>4, <1>5 DEF NoRepeats, less, first, rest, n

\* A form that is shown changes by what is typed, and by who is invited or taken off.
LEMMA FormEdited ==
    ASSUME NewWsInv,
           NewWs!FillIn \/ NewWs!Add \/ \E p \in People : NewWs!Uninvite(p)
    PROVE  NewWsInv'
  <1>0. wsForm \in InviteForms /\ UNCHANGED <<directory, formOpens, creates, making, made, finished>>
    BY DEF NewWsInv, NewWsTypes, NewWs!FillIn, NewWs!Add, NewWs!Uninvite
  <1>1. wsForm' \in InviteForms /\ NoRepeats(wsForm'.invited)
    <2>0. wsForm.invited \in Seq(People) /\ NoRepeats(wsForm.invited)
      BY <1>0 DEF NoRepeats, InviteForms, NewWsInv, NewWs!NobodyTwice, NewWs!FillIn, NewWs!Add, NewWs!Uninvite
    <2>1. CASE NewWs!FillIn
      BY <1>0, <2>0, <2>1 DEF NewWs!FillIn, InviteForms
    <2>2. CASE NewWs!Add
      <3>1. CASE wsForm' = wsForm
        BY <1>0, <2>0, <3>1, Zenon
      <3> SUFFICES ASSUME wsForm' # wsForm PROVE wsForm' \in InviteForms /\ NoRepeats(wsForm'.invited)
        BY <3>1
      <3> DEFINE p == NewWs!Committed
      <3>2. p \in People /\ p \notin NewWs!InvitedIn(wsForm) /\ wsForm' = [wsForm EXCEPT !.invited = Append(@, p)]
        <4> HIDE DEF p
        <4>1. wsForm' = NewWs!WithInvited(wsForm, p)
          BY <2>2 DEF NewWs!Add, p
        <4> QED BY <4>1 DEF NewWs!WithInvited, NewWsInv, NewWsTypes
      <3> HIDE DEF p
      <3>3. /\ wsForm'.invited = Append(wsForm.invited, p)
            /\ wsForm' \in InviteForms
        BY <1>0, <2>0, <3>2 DEF InviteForms
      <3>4. \A i \in DOMAIN wsForm.invited : wsForm.invited[i] # p
        BY <3>2 DEF NewWs!InvitedIn
      <3> DEFINE old == wsForm.invited
                 new == wsForm'.invited
      <3>5. /\ DOMAIN old = 1..Len(old) /\ DOMAIN new = 1..(Len(old) + 1) /\ Len(old) \in Nat
            /\ new[Len(old) + 1] = p /\ \A i \in 1..Len(old) : new[i] = old[i]
        BY <2>0, <3>3
      <3> HIDE DEF old, new
      <3>6. NoRepeats(new)
        <4> SUFFICES ASSUME NEW i \in DOMAIN new, NEW j \in DOMAIN new, new[i] = new[j] PROVE i = j
          BY DEF NoRepeats
        <4>1. (i \in 1..Len(old) \/ i = Len(old) + 1) /\ (j \in 1..Len(old) \/ j = Len(old) + 1)
          BY <3>5
        <4> QED BY <2>0, <3>4, <3>5, <4>1 DEF old, NoRepeats
      <3> QED BY <3>3, <3>6 DEF new
    <2>3. ASSUME NEW p \in People, NewWs!Uninvite(p)
          PROVE  wsForm' \in InviteForms /\ NoRepeats(wsForm'.invited)
      <3>1. PICK k \in DOMAIN wsForm.invited :
              wsForm' = [wsForm EXCEPT !.invited = SubSeq(@, 1, k - 1) \o SubSeq(@, k + 1, Len(@))]
        BY <2>3 DEF NewWs!Uninvite
      <3> DEFINE less == SubSeq(wsForm.invited, 1, k - 1) \o SubSeq(wsForm.invited, k + 1, Len(wsForm.invited))
      <3>2. wsForm' = [wsForm EXCEPT !.invited = less]
        BY <3>1
      <3>3. less \in Seq(People) /\ NoRepeats(less)
        BY <2>0, OneTakenOff
      <3> HIDE DEF less
      <3> QED BY <1>0, <3>2, <3>3 DEF InviteForms
    <2> QED BY <2>1, <2>2, <2>3
  <1> QED BY <1>0, <1>1 DEF NewWsInv, NewWsTypes, ClicksApart, MakingFits, NewWs!NobodyTwice, NoRepeats

\* The dialog opens and closes, and its bar is used.
LEMMA DialogUsed ==
    ASSUME NewWsInv, UNCHANGED <<creates, making, made, finished>>, directory' \subseteq People,
           formOpens' \in Nat, wsForm' \in {wsForm, None, NewWs!NewForm}
    PROVE  NewWsInv'
  <1>1. NewWs!NewForm \in InviteForms /\ NewWs!NewForm.invited = <<>>
    BY DEF NewWs!NewForm, InviteForms
  <1>2. wsForm' # None => wsForm' \in InviteForms
    BY <1>1 DEF NewWsInv, NewWsTypes
  <1>3. NewWs!NobodyTwice'
    BY <1>1 DEF NewWsInv, NewWs!NobodyTwice
  <1> QED BY <1>2, <1>3 DEF NewWsInv, NewWsTypes, ClicksApart, MakingFits

LEMMA Clicked == ASSUME NewWsInv, NewWs!CreateClick PROVE NewWsInv'
  <1> DEFINE r == [click |-> creates', dialog |-> formOpens, form |-> wsForm, ws |-> None,
                   toDescribe |-> wsForm.described, toAdd |-> wsForm.invited]
  <1>1. /\ wsForm \in InviteForms /\ creates' = creates + 1 /\ making' = making \cup {r}
        /\ UNCHANGED <<directory, formOpens, wsForm, made, finished>>
    BY DEF NewWs!CreateClick, NewWsInv, NewWsTypes
  <1>2. r \in Makings /\ r.ws = None /\ r.click = creates' /\ MakingFits(r)
    BY <1>1 DEF NewWsInv, NewWsTypes, Makings, InviteForms, MakingFits
  <1> HIDE DEF r
  <1>3. NewWsTypes' /\ NewWs!NobodyTwice'
    BY <1>1, <1>2 DEF NewWsInv, NewWsTypes, NewWs!NobodyTwice
  <1>4. ClicksApart'
    <2>1. \A q \in making \cup finished : q.click \in Nat /\ q.click <= creates
      BY DEF NewWsInv, NewWsTypes, ClicksApart, Makings
    <2>2. creates \in Nat
      BY DEF NewWsInv, NewWsTypes
    <2> QED BY <1>1, <1>2, <2>1, <2>2 DEF NewWsInv, ClicksApart
  <1>5. \A q : MakingFits(q) => MakingFits(q)'
    BY <1>1 DEF MakingFits
  <1> QED BY <1>1, <1>2, <1>3, <1>4, <1>5 DEF NewWsInv

\* A click that goes on is replaced by what it is then.
LEMMA ClicksStayApart ==
    ASSUME NewWsInv, NEW r \in making, NEW next, next.click = r.click,
           \/ next.ws = r.ws
           \/ next.ws # None /\ \A q \in making \cup finished : next.ws # q.ws,
           making' = (making \ {r}) \cup {next}, UNCHANGED <<creates, finished>>
    PROVE  ClicksApart'
  <1>1. r \notin finished /\ \A q \in (making \cup finished) \ {r} : q.click # r.click
    BY DEF NewWsInv, ClicksApart
  <1>2. next \notin finished
    BY <1>1
  <1>3. \A q \in (making \cup finished)' : q = next \/ q \in (making \cup finished) \ {r}
    BY <1>1
  <1>4. \A q \in (making \cup finished) \ {r} : next.ws # None /\ next.ws = q.ws => FALSE
    BY <1>1 DEF NewWsInv, ClicksApart
  <1>5. making' \cap finished' = {}
    BY <1>2 DEF NewWsInv, ClicksApart
  <1>6. \A q \in (making \cup finished)' : q.click <= creates'
    BY <1>3 DEF NewWsInv, ClicksApart
  <1>7. ASSUME NEW q \in (making \cup finished)', NEW o \in (making \cup finished)'
        PROVE  /\ q.click = o.click => q = o
               /\ (q.ws # None /\ q.ws = o.ws) => q.click = o.click
    <2>1. CASE q = next
      BY <1>1, <1>3, <1>4, <1>7, <2>1
    <2>2. CASE o = next
      BY <1>1, <1>3, <1>4, <1>7, <2>2
    <2>3. CASE q # next /\ o # next
      BY <1>3, <1>7, <2>3 DEF NewWsInv, ClicksApart
    <2> QED BY <2>1, <2>2, <2>3
  <1> QED BY <1>5, <1>6, <1>7 DEF ClicksApart

\* The rest of a list and its first are the list.
LEMMA FirstAndRest ==
    ASSUME NEW S, NEW seq \in Seq(S), seq # <<>>
    PROVE  Head(seq) \in S /\ Tail(seq) \in Seq(S) /\ AllIn(seq) = {Head(seq)} \cup AllIn(Tail(seq))
  <1> DEFINE rest == Tail(seq)
  <1>1. Head(seq) \in S /\ rest \in Seq(S) /\ Len(rest) = Len(seq) - 1 /\ \A i \in 1..Len(rest) : rest[i] = seq[i + 1]
    BY HeadTailProperties
  <1>2. DOMAIN seq = 1..Len(seq) /\ Len(seq) \in Nat \ {0} /\ Head(seq) = seq[1] /\ DOMAIN rest = 1..Len(rest)
    BY <1>1, EmptySeq, LenProperties
  <1> HIDE DEF rest
  <1>3. ASSUME NEW i \in DOMAIN seq PROVE seq[i] \in {Head(seq)} \cup AllIn(rest)
    <2>1. CASE i = 1
      BY <1>2, <2>1
    <2>2. CASE i # 1
      <3>1. i - 1 \in 1..Len(rest) /\ (i - 1) + 1 = i
        BY <1>1, <1>2, <2>2
      <3> QED BY <1>1, <1>2, <3>1 DEF AllIn
    <2> QED BY <2>1, <2>2
  <1>4. ASSUME NEW i \in DOMAIN rest PROVE rest[i] \in AllIn(seq)
    <2>1. i + 1 \in DOMAIN seq
      BY <1>1, <1>2
    <2> QED BY <1>1, <1>2, <2>1 DEF AllIn
  <1>5. Head(seq) \in AllIn(seq)
    BY <1>2 DEF AllIn
  <1> QED BY <1>1, <1>3, <1>4, <1>5 DEF AllIn, rest

\* One workspace changes for the click that made it: what others did stays done.
LEMMA OthersKept ==
    ASSUME NewWsInv, NEW r \in making, r.ws # None, NEW w \in Workspaces, made' = [made EXCEPT ![r.ws] = w]
    PROVE  /\ made' \in Seq(Workspaces) /\ DOMAIN made' = DOMAIN made /\ made'[r.ws] = w
           /\ \A q \in (making \cup finished) \ {r} : MakingFits(q)'
  <1>1. r.ws \in DOMAIN made /\ made \in Seq(Workspaces)
    BY DEF NewWsInv, NewWsTypes, MakingFits
  <1>2. made' \in Seq(Workspaces) /\ DOMAIN made' = DOMAIN made /\ made'[r.ws] = w
    BY <1>1
  <1>3. ASSUME NEW q \in (making \cup finished) \ {r} PROVE MakingFits(q)'
    <2>1. MakingFits(q) /\ (q.ws # None => q.ws # r.ws)
      BY DEF NewWsInv, ClicksApart
    <2>2. q.ws # None => made'[q.ws] = made[q.ws]
      BY <1>1, <2>1 DEF MakingFits
    <2> QED BY <1>2, <2>1, <2>2 DEF MakingFits
  <1> QED BY <1>2, <1>3

LEMMA ClickAdvances ==
    ASSUME NewWsInv, NEW r \in making, NEW next \in Makings, next.click = r.click,
           \/ next.ws = r.ws
           \/ next.ws # None /\ \A q \in making \cup finished : next.ws # q.ws,
           made' \in Seq(Workspaces), MakingFits(next)',
           \A q \in (making \cup finished) \ {r} : MakingFits(q)',
           making' = (making \ {r}) \cup {next},
           UNCHANGED <<directory, formOpens, creates, wsForm, finished>>
    PROVE  NewWsInv'
  <1>1. ClicksApart'
    BY ClicksStayApart
  <1>2. NewWsTypes' /\ NewWs!NobodyTwice'
    BY DEF NewWsInv, NewWsTypes, NewWs!NobodyTwice
  <1>3. r \notin finished
    BY DEF NewWsInv, ClicksApart
  <1> QED BY <1>1, <1>2, <1>3 DEF NewWsInv

LEMMA ClickServed == ASSUME NewWsInv, NEW r \in making, NewWs!CallSucceeds(r) PROVE NewWsInv'
  <1>0. /\ r \in Makings /\ MakingFits(r) /\ made \in Seq(Workspaces)
        /\ UNCHANGED <<directory, formOpens, creates, wsForm, finished>>
    BY DEF NewWs!CallSucceeds, NewWsInv, NewWsTypes
  <1>1. CASE r.ws = None /\ made' = Append(made, [described |-> FALSE, members |-> {}])
             /\ NewWs!Advance(r, [r EXCEPT !.ws = Len(made')])
    <2> DEFINE w == [described |-> FALSE, members |-> {}]
    <2>0. PICK next : next = [r EXCEPT !.ws = Len(made) + 1]
      OBVIOUS
    <2>1. w \in Workspaces /\ w.described = FALSE /\ w.members = {}
      BY DEF Workspaces
    <2> HIDE DEF w
    <2>2. /\ made' \in Seq(Workspaces) /\ Len(made') = Len(made) + 1 /\ Len(made) \in Nat
          /\ made'[Len(made')] = w /\ \A i \in 1..Len(made) : made'[i] = made[i]
          /\ DOMAIN made = 1..Len(made) /\ DOMAIN made' = 1..(Len(made) + 1)
      BY <1>0, <1>1, <2>1 DEF w
    <2>3. /\ next \in Makings /\ next.click = r.click /\ next.ws = Len(made) + 1
          /\ next.form = r.form /\ next.toDescribe = r.toDescribe /\ next.toAdd = r.toAdd
      BY <1>0, <2>0, <2>2 DEF Makings
    <2>4. making' = (making \ {r}) \cup {next}
      BY <1>1, <2>0, <2>2 DEF NewWs!Advance
    <2>5. MakingFits(next)'
      <3>1. r.toDescribe = r.form.described /\ r.toAdd = r.form.invited
        BY <1>0, <1>1 DEF MakingFits
      <3>0. next.ws = Len(made')
        BY <2>2, <2>3
      <3>2. made'[next.ws].described = FALSE /\ made'[next.ws].members = {} /\ next.ws \in DOMAIN made'
        BY <2>1, <2>2, <3>0
      <3>3. (next.toDescribe => next.form.described) /\ ~(next.form.described /\ ~next.toDescribe)
        <4>1. r.toDescribe \in BOOLEAN /\ r.form.described \in BOOLEAN
          BY <1>0 DEF Makings, InviteForms
        <4> QED BY <2>3, <3>1, <4>1, Zenon
      <3>4. made'[next.ws].members \cup AllIn(next.toAdd) = AllIn(next.form.invited)
        BY <2>3, <3>1, <3>2
      <3>5. next.ws = None => next.toDescribe = next.form.described /\ next.toAdd = next.form.invited
        BY <2>3, <3>1
      <3>6. made'[next.ws].described <=> (next.form.described /\ ~next.toDescribe)
        BY <3>2, <3>3
      <3> QED BY <3>2, <3>3, <3>4, <3>5, <3>6 DEF MakingFits
    <2>7. ASSUME NEW q \in making \cup finished PROVE MakingFits(q)'
      <3>1. MakingFits(q)
        BY DEF NewWsInv
      <3>2. q.ws # None => q.ws \in 1..Len(made) /\ made'[q.ws] = made[q.ws] /\ q.ws \in DOMAIN made'
        BY <2>2, <3>1 DEF MakingFits
      <3> QED BY <3>1, <3>2 DEF MakingFits
    <2>8. next.ws = r.ws \/ (next.ws # None /\ \A q \in making \cup finished : next.ws # q.ws)
      <3>1. ASSUME NEW q \in making \cup finished, next.ws # None PROVE next.ws # q.ws
        <4>1. q.ws # None => q.ws \in 1..Len(made)
          BY <2>2 DEF NewWsInv, MakingFits
        <4> QED BY <2>2, <2>3, <3>1, <4>1
      <3> QED BY <1>1, <3>1
    <2>9. \A q \in (making \cup finished) \ {r} : MakingFits(q)'
      BY <2>7
    <2> QED BY <1>0, <2>2, <2>3, <2>4, <2>5, <2>8, <2>9, ClickAdvances
  <1>2. CASE r.ws # None /\ r.toDescribe /\ made' = [made EXCEPT ![r.ws].described = TRUE]
             /\ NewWs!Advance(r, [r EXCEPT !.toDescribe = FALSE])
    <2> DEFINE w == [made[r.ws] EXCEPT !.described = TRUE]
               next == [r EXCEPT !.toDescribe = FALSE]
    <2>1. made[r.ws] \in Workspaces
      BY <1>0, <1>2 DEF MakingFits
    <2>2. w \in Workspaces /\ w.described = TRUE /\ w.members = made[r.ws].members
      BY <2>1 DEF Workspaces
    <2>3. made' = [made EXCEPT ![r.ws] = w]
      BY <1>2
    <2> HIDE DEF w
    <2>4. /\ made' \in Seq(Workspaces) /\ DOMAIN made' = DOMAIN made /\ made'[r.ws] = w
          /\ \A q \in (making \cup finished) \ {r} : MakingFits(q)'
      BY <1>2, <2>2, <2>3, OthersKept
    <2>5. /\ next \in Makings /\ next.click = r.click /\ next.ws = r.ws
          /\ next.form = r.form /\ next.toDescribe = FALSE /\ next.toAdd = r.toAdd
      BY <1>0 DEF Makings
    <2>6. making' = (making \ {r}) \cup {next}
      BY <1>2 DEF NewWs!Advance
    <2> HIDE DEF next
    <2>7. MakingFits(next)'
      BY <1>0, <1>2, <2>2, <2>4, <2>5 DEF MakingFits
    <2> QED BY <1>0, <2>4, <2>5, <2>6, <2>7, ClickAdvances
  <1>3. CASE r.ws # None /\ ~r.toDescribe /\ r.toAdd # <<>>
             /\ made' = [made EXCEPT ![r.ws].members = @ \cup {Head(r.toAdd)}]
             /\ NewWs!Advance(r, [r EXCEPT !.toAdd = Tail(@)])
    <2> DEFINE first == Head(r.toAdd)
               rest == Tail(r.toAdd)
               w == [made[r.ws] EXCEPT !.members = @ \cup {first}]
               next == [r EXCEPT !.toAdd = rest]
    <2>1. made[r.ws] \in Workspaces /\ r.toAdd \in Seq(People)
      BY <1>0, <1>3 DEF MakingFits, Makings
    <2>2. first \in People /\ rest \in Seq(People) /\ AllIn(r.toAdd) = {first} \cup AllIn(rest)
      BY <1>3, <2>1, FirstAndRest
    <2>3. made' = [made EXCEPT ![r.ws] = w] /\ making' = (making \ {r}) \cup {next}
      BY <1>3 DEF NewWs!Advance
    <2> HIDE DEF first, rest
    <2>4. w \in Workspaces /\ w.described = made[r.ws].described /\ w.members = made[r.ws].members \cup {first}
      BY <2>1, <2>2 DEF Workspaces
    <2> HIDE DEF w
    <2>5. /\ made' \in Seq(Workspaces) /\ DOMAIN made' = DOMAIN made /\ made'[r.ws] = w
          /\ \A q \in (making \cup finished) \ {r} : MakingFits(q)'
      BY <1>3, <2>3, <2>4, OthersKept
    <2>6. /\ next \in Makings /\ next.click = r.click /\ next.ws = r.ws
          /\ next.form = r.form /\ next.toDescribe = r.toDescribe /\ next.toAdd = rest
      BY <1>0, <2>2 DEF Makings
    <2> HIDE DEF next
    <2>7. MakingFits(next)'
      BY <1>0, <1>3, <2>2, <2>4, <2>5, <2>6 DEF MakingFits
    <2> QED BY <1>0, <2>3, <2>5, <2>6, <2>7, ClickAdvances
  <1> QED BY <1>1, <1>2, <1>3 DEF NewWs!CallSucceeds, NewWs!Creates, NewWs!Describes, NewWs!AddsMember

LEMMA ClickGone ==
    ASSUME NewWsInv, NEW r \in making, making' = making \ {r}, made' \in Seq(Workspaces),
           \A q \in (making \cup finished) \ {r} : MakingFits(q)',
           UNCHANGED <<directory, formOpens, creates, wsForm, finished>>
    PROVE  NewWsInv'
  <1>1. r \notin finished
    BY DEF NewWsInv, ClicksApart
  <1>2. NewWsTypes' /\ NewWs!NobodyTwice'
    BY DEF NewWsInv, NewWsTypes, NewWs!NobodyTwice
  <1>3. ClicksApart'
    BY DEF NewWsInv, ClicksApart
  <1> QED BY <1>1, <1>2, <1>3 DEF NewWsInv

\* The failed call may have been carried out: what it made is nobody's.
LEMMA ClickFails ==
    ASSUME NewWsInv, NEW r \in making, NewWs!CallFails(r)
    PROVE  NewWsInv'
  <1>0. /\ r \in Makings /\ MakingFits(r) /\ made \in Seq(Workspaces) /\ making' = making \ {r}
        /\ UNCHANGED <<directory, formOpens, creates, wsForm, finished>>
    BY DEF NewWs!CallFails, NewWsInv, NewWsTypes
  <1>1. CASE UNCHANGED made
    <2>1. made' \in Seq(Workspaces) /\ \A q \in (making \cup finished) \ {r} : MakingFits(q)'
      BY <1>0, <1>1 DEF NewWsInv, MakingFits
    <2> QED BY <1>0, <2>1, ClickGone
  <1>2. CASE NewWs!Creates(r)
    <2> PICK w : w = [described |-> FALSE, members |-> {}]
      OBVIOUS
    <2>1. w \in Workspaces /\ made' = Append(made, w)
      BY <1>2 DEF Workspaces, NewWs!Creates
    <2>2. made' \in Seq(Workspaces) /\ \A i \in DOMAIN made : i \in DOMAIN made' /\ made'[i] = made[i]
      BY <1>0, <2>1
    <2>3. ASSUME NEW q \in making \cup finished PROVE MakingFits(q)'
      <3>1. MakingFits(q)
        BY DEF NewWsInv
      <3> QED BY <2>2, <3>1 DEF MakingFits
    <2> QED BY <1>0, <2>2, <2>3, ClickGone
  <1>3. CASE NewWs!Describes(r) \/ NewWs!AddsMember(r)
    <2>1. r.ws # None /\ made[r.ws] \in Workspaces
      BY <1>0, <1>3 DEF NewWs!Describes, NewWs!AddsMember, MakingFits
    <2>2. CASE NewWs!Describes(r)
      <3> PICK w : w = [made[r.ws] EXCEPT !.described = TRUE]
        OBVIOUS
      <3>1. w \in Workspaces
        BY <2>1 DEF Workspaces
      <3> QED BY <1>0, <2>1, <2>2, <3>1, OthersKept, ClickGone DEF NewWs!Describes
    <2>3. CASE NewWs!AddsMember(r)
      <3>1. Head(r.toAdd) \in People
        BY <1>0, <2>3, FirstAndRest DEF NewWs!AddsMember, Makings
      <3> PICK m \in SUBSET People : m = made[r.ws].members \cup {Head(r.toAdd)}
        BY <2>1, <3>1 DEF Workspaces
      <3> PICK w : w = [made[r.ws] EXCEPT !.members = m]
        OBVIOUS
      <3>2. w \in Workspaces
        BY <2>1 DEF Workspaces
      <3>3. made' = [made EXCEPT ![r.ws] = w]
        BY <2>3 DEF NewWs!AddsMember
      <3> QED BY <1>0, <2>1, <3>2, <3>3, OthersKept, ClickGone
    <2> QED BY <1>3, <2>2, <2>3
  <1> QED BY <1>1, <1>2, <1>3 DEF NewWs!CallFails

LEMMA ClickCompletes ==
    ASSUME NewWsInv, NEW r \in making, NewWs!Completes(r)
    PROVE  NewWsInv'
  <1>1. /\ making' = making \ {r} /\ (wsForm' = wsForm \/ wsForm' = None)
        /\ UNCHANGED <<directory, formOpens, creates, made>>
        /\ finished' = finished \cup {r} /\ r.ws # None /\ ~r.toDescribe /\ r.toAdd = <<>>
    BY DEF NewWs!Completes, NewWs!Created
  <1>2. \A q : MakingFits(q) => MakingFits(q)'
    BY <1>1 DEF MakingFits
  <1>3. NewWsTypes' /\ NewWs!NobodyTwice'
    BY <1>1 DEF NewWsInv, NewWsTypes, NewWs!NobodyTwice
  <1>4. ClicksApart'
    BY <1>1 DEF NewWsInv, ClicksApart
  <1> QED BY <1>1, <1>2, <1>3, <1>4 DEF NewWsInv

LEMMA NewWsStep == ASSUME NewWsInv, [NewWs!NewWorkspaceNext]_(NewWs!vars) PROVE NewWsInv'
  <1>0. directory \subseteq People /\ formOpens \in Nat
    BY DEF NewWsInv, NewWsTypes
  <1>1. CASE \/ UNCHANGED NewWs!vars
             \/ NewWs!DirectoryComes \/ NewWs!MeComes \/ NewWs!OpenDialog \/ NewWs!CloseDialog \/ NewWs!HideSuggestions
    <2>1. UNCHANGED <<creates, making, made, finished>>
      BY <1>1 DEF NewWs!vars, NewWs!DirectoryComes, NewWs!MeComes, NewWs!OpenDialog, NewWs!CloseDialog, NewWs!HideSuggestions
    <2>2. directory' \subseteq People
      BY <1>0, <1>1 DEF NewWs!vars, NewWs!DirectoryComes, NewWs!MeComes, NewWs!OpenDialog, NewWs!CloseDialog, NewWs!HideSuggestions
    <2>3. formOpens' \in Nat
      BY <1>0, <1>1 DEF NewWs!vars, NewWs!DirectoryComes, NewWs!MeComes, NewWs!OpenDialog, NewWs!CloseDialog, NewWs!HideSuggestions
    <2>4. wsForm' \in {wsForm, None, NewWs!NewForm}
      BY <1>1 DEF NewWs!vars, NewWs!DirectoryComes, NewWs!MeComes, NewWs!OpenDialog, NewWs!CloseDialog, NewWs!HideSuggestions
    <2> QED BY <2>1, <2>2, <2>3, <2>4, DialogUsed
  <1>5. ASSUME NEW t, NewWs!Type(t) \/ NewWs!PickPerson(t) PROVE NewWsInv'
    <2>1. UNCHANGED <<creates, making, made, finished, directory, formOpens, wsForm>>
      BY <1>5 DEF NewWs!Type, NewWs!PickPerson
    <2> QED BY <1>0, <2>1, DialogUsed
  <1>2. CASE NewWs!FillIn \/ NewWs!Add \/ \E p \in People : NewWs!Uninvite(p)
    BY <1>2, FormEdited
  <1>3. CASE NewWs!CreateClick
    BY <1>3, Clicked
  <1>4. ASSUME NEW r \in making, NewWs!CallSucceeds(r) \/ NewWs!CallFails(r) \/ NewWs!Completes(r) PROVE NewWsInv'
    BY <1>4, ClickServed, ClickFails, ClickCompletes
  <1> QED BY <1>1, <1>2, <1>3, <1>4, <1>5 DEF NewWs!NewWorkspaceNext

LEMMA NewWsHolds == NewWsInv => NewWs!NewWorkspaceSafe
  <1> SUFFICES ASSUME NewWsInv, NEW r \in finished
               PROVE  made[r.ws] = [described |-> r.form.described, members |-> NewWs!InvitedIn(r.form)]
    BY DEF NewWs!NewWorkspaceSafe, NewWs!CreatedComplete, NewWsInv
  <1>1. r \in Makings /\ r.ws # None /\ ~r.toDescribe /\ r.toAdd = <<>> /\ MakingFits(r) /\ made \in Seq(Workspaces)
    BY DEF NewWsInv, NewWsTypes
  <1>2. AllIn(r.toAdd) = {} /\ AllIn(r.form.invited) = NewWs!InvitedIn(r.form)
    <2>1. DOMAIN r.toAdd = {}
      BY <1>1
    <2>2. AllIn(r.toAdd) = {}
      BY <2>1 DEF AllIn
    <2> QED BY <2>2 DEF AllIn, NewWs!InvitedIn
  <1>3. made[r.ws] \in Workspaces /\ made[r.ws].members = NewWs!InvitedIn(r.form) /\ (made[r.ws].described <=> r.form.described)
    <2>1. r.ws \in DOMAIN made /\ made[r.ws].members \cup AllIn(r.toAdd) = AllIn(r.form.invited)
          /\ (made[r.ws].described <=> (r.form.described /\ ~r.toDescribe))
      BY <1>1 DEF MakingFits
    <2>2. made[r.ws] \in Workspaces
      BY <1>1, <2>1
    <2>3. made[r.ws].members = NewWs!InvitedIn(r.form)
      BY <1>2, <2>1
    <2>4. made[r.ws].described <=> r.form.described
      BY <1>1, <2>1, Zenon
    <2> QED BY <2>2, <2>3, <2>4
  <1>4. r.form.described \in BOOLEAN /\ made[r.ws].described \in BOOLEAN
    BY <1>1, <1>3 DEF Makings, InviteForms, Workspaces
  <1>5. made[r.ws].described = r.form.described
    BY <1>3, <1>4, Zenon
  <1> DEFINE m == NewWs!InvitedIn(r.form)
             d == r.form.described
  <1> HIDE DEF m, d
  <1> QED BY <1>3, <1>5 DEF Workspaces, m, d
-----------------------------------------------------------------------------
(* The settings. *)

LEMMA SettingsPageOpens == ViewsInit /\ onPage = "settings" => Settings!SettingsInit
  BY DEF ViewsInit

LEMMA SettingsPageMoves ==
    ASSUME [ViewsNext]_pagesVars, onPage' = "settings"
    PROVE  onPage = "settings" /\ [Settings!SettingsNext]_(Settings!vars)
  BY DEF ViewsNext, pagesVars, Settings!vars, role, docs, password, ownRecord, persona, sec, hash,
     askedFor, profileForm, formMounts, formCalls, theme, settingsTurns

FormTexts == OwnTexts \cup {BlankText}
NoteWords == {"none", "mismatch", "saved", "failed", "wrong", "many"}
PassBoxes == [cur : Passwords \cup {BlankText}, new : Passwords \cup {BlankText}, conf : Passwords \cup {BlankText}]
ProfileForms == [text : [name : FormTexts, persona : FormTexts], pass : PassBoxes,
                 note : [Settings!Forms -> NoteWords], sent : SUBSET Settings!Forms,
                 own : FormTexts, typedLate : BOOLEAN]
FormCalls == [kind : Settings!Forms, mount : Nat, text : FormTexts, pass : PassBoxes,
              stage : {"out", "done", "wrong", "many"}, tries : Nat, changed : Nat]
OwnRecords == [role : {"owner", "member"}, name : FormTexts]

SettingsTypes ==
    /\ role \in {"owner", "member"} /\ docs \in [Settings!Kinds -> FormTexts]
    /\ ownRecord # None => ownRecord \in OwnRecords
    /\ persona \in FormTexts \cup {None}
    /\ formMounts \in Nat
    /\ profileForm # None => profileForm \in ProfileForms
    /\ formCalls \in Seq(FormCalls)
    /\ askedFor = [id |-> askedFor.id, refused |-> askedFor.refused]
    /\ theme = [chosen |-> theme.chosen, drawn |-> theme.drawn, stored |-> theme.stored]

\* What the box of the persona has, measured by the text of an answer.
PersonaMatches(t) ==
    \/ profileForm.text.persona = t
    \/ profileForm.typedLate
    \/ profileForm.text.persona = persona

\* How far a call has come, and what the form that sent it knows of it while it is there.
AttemptFits(c) ==
    /\ c.changed <= 1 /\ c.tries <= 2
    /\ c.stage = "out" => c.changed = 0 /\ c.tries <= 1
    /\ c.stage = "wrong" => c.changed = 0
CallKnown(c) ==
    /\ c.mount <= formMounts
    /\ (profileForm # None /\ c.mount = formMounts) =>
         c.kind \in profileForm.sent /\ (c.kind = "persona" => PersonaMatches(c.text))

\* What is said of the section, of the form, and of what the form says.
SectionHolds == ~Settings!Refuses(sec, ownRecord) /\ Settings!DeepLinkKept /\ Settings!AddressFollows
FormHolds == Settings!PersonaNoteHolds /\ Settings!NotesAreOwn

SettingsInv ==
    /\ SettingsTypes /\ SectionHolds /\ FormHolds /\ Settings!ThemeDrawn
    /\ \A i \in DOMAIN formCalls : AttemptFits(formCalls[i]) /\ CallKnown(formCalls[i])

\* A form as it mounts says nothing.
LEMMA FormMounts ==
    ASSUME NEW m, m # None => m \in OwnRecords, NEW p \in FormTexts \cup {None}
    PROVE  /\ Settings!MountedForm(m, p) \in ProfileForms
           /\ \A k \in Settings!Forms : Settings!MountedForm(m, p).note[k] = "none"
  <1> DEFINE n == IF m = None THEN BlankText ELSE m.name
             q == IF p = None THEN BlankText ELSE p
             none == [k \in Settings!Forms |-> "none"]
             text == [name |-> n, persona |-> q]
  <1>1. n \in FormTexts /\ q \in FormTexts
    BY DEF FormTexts, OwnRecords
  <1>2. none \in [Settings!Forms -> NoteWords] /\ \A k \in Settings!Forms : none[k] = "none"
    BY DEF NoteWords
  <1>3. Settings!NoPasswords \in PassBoxes
    BY DEF Settings!NoPasswords, PassBoxes
  <1>4. BlankText \in FormTexts
    BY DEF FormTexts
  <1>5. Settings!MountedForm(m, p) = [text |-> text, pass |-> Settings!NoPasswords, note |-> none,
                                      sent |-> {}, own |-> BlankText, typedLate |-> FALSE]
    BY DEF Settings!MountedForm
  <1>6. text \in [name : FormTexts, persona : FormTexts]
    <2> HIDE DEF n, q
    <2> QED BY <1>1
  <1> HIDE DEF n, q, none, text
  <1> QED BY <1>2, <1>3, <1>4, <1>5, <1>6 DEF ProfileForms

\* A form whose record was fetched again has the same but for its texts.
LEMMA FormRefreshes ==
    ASSUME SettingsTypes, profileForm # None, NEW m, m # None => m \in OwnRecords, NEW p \in FormTexts \cup {None}
    PROVE  LET f == Settings!Refreshed(profileForm, m, p)
           IN  /\ f \in ProfileForms
               /\ f.note = profileForm.note /\ f.sent = profileForm.sent /\ f.own = profileForm.own
               /\ f.typedLate = profileForm.typedLate
               /\ f.text.persona = IF p # None /\ p # persona THEN p ELSE profileForm.text.persona
  <1> DEFINE n == IF m # None /\ (ownRecord = None \/ m.name # ownRecord.name) THEN m.name ELSE profileForm.text.name
             q == IF p # None /\ p # persona THEN p ELSE profileForm.text.persona
  <1>0. profileForm \in ProfileForms
    BY DEF SettingsTypes
  <1>1. n \in FormTexts /\ q \in FormTexts
    BY <1>0 DEF OwnRecords, ProfileForms
  <1>2. Settings!Refreshed(profileForm, m, p) = [profileForm EXCEPT !.text.name = n, !.text.persona = q]
    BY DEF Settings!Refreshed
  <1>3. q = IF p # None /\ p # persona THEN p ELSE profileForm.text.persona
    OBVIOUS
  <1> HIDE DEF n, q
  <1> DEFINE f == [profileForm EXCEPT !.text.name = n, !.text.persona = q]
  <1>4. f \in ProfileForms
    BY <1>0, <1>1 DEF ProfileForms
  <1>5. /\ f.note = profileForm.note /\ f.sent = profileForm.sent /\ f.own = profileForm.own
        /\ f.typedLate = profileForm.typedLate /\ f.text.persona = q
    BY <1>0, <1>1 DEF ProfileForms
  <1> HIDE DEF f
  <1> QED BY <1>2, <1>3, <1>4, <1>5 DEF f

\* The profile is no section that is refused.
LEMMA ProfileShown == ASSUME NEW m, m # None => m \in OwnRecords PROVE ~Settings!Refuses(Profile, m)
  BY SettingsAssumption DEF Settings!Refuses, Settings!VisibleSectionIds, OwnRecords

LEMMA SettingsStarts == Settings!SettingsInit => SettingsInv
  <1> SUFFICES ASSUME Settings!SettingsInit PROVE SettingsInv
    OBVIOUS
  <1> DEFINE f == Settings!MountedForm(None, None)
  <1>1. f \in ProfileForms /\ \A k \in Settings!Forms : f.note[k] = "none"
    BY FormMounts
  <1>2. profileForm = None \/ profileForm = f
    BY DEF Settings!SettingsInit
  <1> HIDE DEF f
  <1>3. SettingsTypes
    BY <1>1, <1>2, EmptySeq DEF Settings!SettingsInit, SettingsTypes, FormTexts
  <1>4. FormHolds
    BY <1>1, <1>2 DEF FormHolds, Settings!PersonaNoteHolds, Settings!NotesAreOwn, Settings!Forms, Settings!Kinds
  <1>5. SectionHolds /\ Settings!ThemeDrawn
    BY SettingsAssumption DEF Settings!SettingsInit, SectionHolds, Settings!Refuses, Settings!DeepLinkKept,
       Settings!AddressFollows, Settings!ThemeDrawn
  <1>6. DOMAIN formCalls = {}
    BY DEF Settings!SettingsInit
  <1> QED BY <1>3, <1>4, <1>5, <1>6 DEF SettingsInv

\* The form of the profile as the cached records change: kept, left, mounted or refreshed.
LEMMA FormFollows ==
    ASSUME SettingsInv, NEW m, m # None => m \in OwnRecords, NEW p \in FormTexts \cup {None},
           p # None \/ p = persona, persona' = p, formCalls' = formCalls,
           \/ profileForm' = None /\ formMounts' = formMounts
           \/ profileForm' = Settings!MountedForm(m, p) /\ formMounts' = formMounts + 1
           \/ /\ profileForm # None /\ profileForm' = Settings!Refreshed(profileForm, m, p)
              /\ formMounts' = formMounts
    PROVE  /\ formMounts' \in Nat /\ (profileForm' # None => profileForm' \in ProfileForms)
           /\ FormHolds'
           /\ \A i \in DOMAIN formCalls : CallKnown(formCalls[i])'
  <1>0. /\ SettingsTypes /\ FormHolds /\ formMounts \in Nat
        /\ \A i \in DOMAIN formCalls : formCalls[i] \in FormCalls /\ CallKnown(formCalls[i])
    BY DEF SettingsInv, SettingsTypes
  <1>1. CASE profileForm' = None /\ formMounts' = formMounts
    BY <1>0, <1>1 DEF FormHolds, Settings!PersonaNoteHolds, Settings!NotesAreOwn, CallKnown
  <1>2. CASE profileForm' = Settings!MountedForm(m, p) /\ formMounts' = formMounts + 1
    <2>1. profileForm' \in ProfileForms /\ \A k \in Settings!Forms : profileForm'.note[k] = "none"
      BY <1>2, FormMounts
    <2>2. FormHolds'
      BY <2>1 DEF FormHolds, Settings!PersonaNoteHolds, Settings!NotesAreOwn, Settings!Forms, Settings!Kinds
    <2>3. ASSUME NEW i \in DOMAIN formCalls PROVE CallKnown(formCalls[i])'
      <3>1. formCalls[i].mount \in Nat /\ formCalls[i].mount <= formMounts /\ formCalls'[i] = formCalls[i]
        BY <1>0 DEF FormCalls, CallKnown
      <3>2. formCalls[i].mount < formMounts'
        BY <1>0, <1>2, <3>1
      <3> QED BY <1>0, <3>1, <3>2, <1>2 DEF CallKnown
    <2> QED BY <1>0, <1>2, <2>1, <2>2, <2>3
  <1>3. CASE /\ profileForm # None /\ profileForm' = Settings!Refreshed(profileForm, m, p)
             /\ formMounts' = formMounts
    <2>1. /\ profileForm' \in ProfileForms
          /\ profileForm'.note = profileForm.note /\ profileForm'.sent = profileForm.sent
          /\ profileForm'.own = profileForm.own /\ profileForm'.typedLate = profileForm.typedLate
          /\ profileForm'.text.persona = IF p # None /\ p # persona THEN p ELSE profileForm.text.persona
      BY <1>0, <1>3, FormRefreshes
    <2>2. profileForm'.text.persona = persona' \/ (profileForm'.text.persona = profileForm.text.persona /\ persona' = persona)
      BY <2>1
    <2>3. FormHolds'
      BY <1>0, <1>3, <2>1, <2>2 DEF FormHolds, Settings!PersonaNoteHolds, Settings!NotesAreOwn
    <2>4. ASSUME NEW t, PersonaMatches(t) PROVE PersonaMatches(t)'
      BY <2>1, <2>2, <2>4 DEF PersonaMatches
    <2>5. ASSUME NEW i \in DOMAIN formCalls PROVE CallKnown(formCalls[i])'
      BY <1>0, <1>3, <2>1, <2>4 DEF CallKnown
    <2> QED BY <1>0, <1>3, <2>1, <2>3, <2>5
  <1> QED BY <1>1, <1>2, <1>3

\* The page as it settles on a section, and on records that were fetched.
LEMMA PageSettles ==
    ASSUME SettingsInv, NEW s, NEW h, NEW m, m # None => m \in OwnRecords, NEW p \in FormTexts \cup {None},
           p # None \/ p = persona, Settings!Settle(s, h, m, p), h \in Sections => h = s,
           UNCHANGED <<role, docs, formCalls, theme>>,
           askedFor' = [id |-> askedFor'.id, refused |-> askedFor'.refused],
           s = askedFor'.id \/ askedFor'.refused, Settings!Refuses(s, m) => askedFor'.refused
    PROVE  SettingsInv'
  <1>1. /\ persona' = p /\ ownRecord' = m
        /\ \/ ~Settings!Refuses(s, m) /\ sec' = s /\ hash' = h
           \/ Settings!Refuses(s, m) /\ sec' = Profile /\ hash' = Profile
        /\ \/ profileForm' = None /\ formMounts' = formMounts
           \/ profileForm' = Settings!MountedForm(m, p) /\ formMounts' = formMounts + 1
           \/ /\ profileForm # None /\ profileForm' = Settings!Refreshed(profileForm, m, p)
              /\ formMounts' = formMounts
    BY DEF Settings!Settle
  <1>2. /\ formMounts' \in Nat /\ (profileForm' # None => profileForm' \in ProfileForms)
        /\ FormHolds' /\ \A i \in DOMAIN formCalls : CallKnown(formCalls[i])'
    BY <1>1, FormFollows
  <1>3. SettingsTypes'
    BY <1>1, <1>2 DEF SettingsInv, SettingsTypes
  <1>4. SectionHolds'
    <2>1. ~Settings!Refuses(sec', ownRecord')
      BY <1>1, ProfileShown
    <2>2. Settings!DeepLinkKept' /\ Settings!AddressFollows'
      BY <1>1 DEF Settings!DeepLinkKept, Settings!AddressFollows
    <2> QED BY <2>1, <2>2 DEF SectionHolds, Settings!Refuses, Settings!VisibleSectionIds
  <1>5. Settings!ThemeDrawn'
    BY DEF SettingsInv, Settings!ThemeDrawn
  <1>6. \A i \in DOMAIN formCalls : AttemptFits(formCalls[i])'
    BY DEF SettingsInv, AttemptFits
  <1> QED BY <1>2, <1>3, <1>4, <1>5, <1>6 DEF SettingsInv

LEMMA SectionMoves ==
    ASSUME SettingsInv,
           \/ \E h \in Sections \cup {None} : Settings!HashChanges(h)
           \/ \E id \in Sections : Settings!SelectSection(id)
           \/ Settings!MeComes \/ Settings!PersonaComes
    PROVE  SettingsInv'
  <1>0. /\ SettingsTypes /\ SectionHolds /\ persona \in FormTexts \cup {None}
        /\ ownRecord # None => ownRecord \in OwnRecords
    BY DEF SettingsInv, SettingsTypes
  <1>1. ASSUME NEW id, Settings!Settle(id, id, ownRecord, persona), Settings!Ask(id, ownRecord),
               UNCHANGED <<role, docs, formCalls, theme>>
        PROVE  SettingsInv'
    <2>1. /\ askedFor'.id = id /\ (Settings!Refuses(id, ownRecord) => askedFor'.refused)
          /\ askedFor' = [id |-> askedFor'.id, refused |-> askedFor'.refused]
      <3>1. PICK b : b = (ownRecord # None /\ id \notin Settings!VisibleSectionIds(ownRecord.role))
        OBVIOUS
      <3>2. askedFor' = [id |-> id, refused |-> b]
        BY <1>1, <3>1 DEF Settings!Ask
      <3> QED BY <3>1, <3>2 DEF Settings!Refuses
    <2> QED BY <1>0, <1>1, <2>1, PageSettles
  <1>2. ASSUME NEW h \in Sections \cup {None}, Settings!HashChanges(h) PROVE SettingsInv'
    <2>1. CASE h = None
      <3>1. UNCHANGED <<role, docs, sec, ownRecord, persona, profileForm, formMounts, askedFor, formCalls, theme>> /\ hash' = None
        BY <1>2, <2>1 DEF Settings!HashChanges, Settings!settled
      <3>2. SectionHolds'
        BY <1>0, <3>1, SettingsAssumption DEF SectionHolds, Settings!Refuses, Settings!VisibleSectionIds, Settings!DeepLinkKept, Settings!AddressFollows
      <3> QED BY <3>1, <3>2 DEF SettingsInv, SettingsTypes, FormHolds, Settings!PersonaNoteHolds,
            Settings!NotesAreOwn, Settings!ThemeDrawn, AttemptFits, CallKnown, PersonaMatches
    <2>2. CASE h # None
      BY <1>1, <1>2, <2>2 DEF Settings!HashChanges
    <2> QED BY <2>1, <2>2
  <1>3. ASSUME NEW id \in Sections, Settings!SelectSection(id) PROVE SettingsInv'
    BY <1>1, <1>3 DEF Settings!SelectSection, Settings!Selects
  <1>4. CASE Settings!MeComes
    <2> DEFINE m == [role |-> role, name |-> docs["name"]]
    <2>1. m \in OwnRecords
      BY <1>0 DEF OwnRecords, SettingsTypes, Settings!Kinds
    <2>2. m.role = role
      OBVIOUS
    <2>3. Settings!Settle(sec, hash, m, persona) /\ UNCHANGED <<role, docs, formCalls, theme>>
      BY <1>4 DEF Settings!MeComes
    <2>4. /\ sec = askedFor'.id \/ askedFor'.refused
          /\ Settings!Refuses(sec, m) => askedFor'.refused
      <3>1. PICK b : b = (askedFor.refused \/ askedFor.id \notin Settings!VisibleSectionIds(role))
        OBVIOUS
      <3>2. askedFor' = [askedFor EXCEPT !.refused = b]
        BY <1>4, <3>1 DEF Settings!MeComes
      <3>3. askedFor'.id = askedFor.id /\ askedFor'.refused = b
        BY <1>0, <3>2 DEF SettingsTypes
      <3> QED BY <1>0, <3>1, <3>3 DEF SectionHolds, Settings!DeepLinkKept, Settings!Refuses
    <2> HIDE DEF m
    <2>6. askedFor' = [id |-> askedFor'.id, refused |-> askedFor'.refused]
      BY <1>0, <1>4 DEF Settings!MeComes, SettingsTypes
    <2>5. hash \in Sections => hash = sec
      BY <1>0 DEF SectionHolds, Settings!AddressFollows
    <2> QED BY <1>0, <2>1, <2>3, <2>4, <2>5, <2>6, PageSettles
  <1>5. CASE Settings!PersonaComes
    <2>1. docs["persona"] \in FormTexts /\ docs["persona"] # None
      BY <1>0, SettingsAssumption DEF SettingsTypes, Settings!Kinds, FormTexts
    <2>2. /\ Settings!Settle(sec, hash, ownRecord, docs["persona"])
          /\ UNCHANGED <<role, docs, formCalls, theme, askedFor>>
      BY <1>5 DEF Settings!PersonaComes
    <2>3. hash \in Sections => hash = sec
      BY <1>0 DEF SectionHolds, Settings!AddressFollows
    <2>4. (sec = askedFor'.id \/ askedFor'.refused) /\ ~Settings!Refuses(sec, ownRecord)
      BY <1>0, <2>2 DEF SectionHolds, Settings!DeepLinkKept
    <2>5. askedFor' = [id |-> askedFor'.id, refused |-> askedFor'.refused]
      BY <1>0, <2>2 DEF SettingsTypes
    <2> QED BY <1>0, <2>1, <2>2, <2>3, <2>4, <2>5, PageSettles
  <1> QED BY <1>2, <1>3, <1>4, <1>5

\* The form as it is edited: what is known of the calls it sent stays known.
LEMMA FormEditedToo ==
    ASSUME SettingsInv, profileForm # None, profileForm' \in ProfileForms,
           UNCHANGED <<role, docs, ownRecord, persona, sec, hash, askedFor, formMounts, formCalls, theme>>,
           profileForm.sent \subseteq profileForm'.sent,
           FormHolds',
           \A i \in DOMAIN formCalls :
               (formCalls[i].kind = "persona" /\ formCalls[i].mount = formMounts /\ PersonaMatches(formCalls[i].text))
                 => PersonaMatches(formCalls[i].text)'
    PROVE  SettingsInv'
  <1>1. SettingsTypes'
    BY DEF SettingsInv, SettingsTypes
  <1>2. SectionHolds' /\ Settings!ThemeDrawn'
    BY DEF SettingsInv, SectionHolds, Settings!Refuses, Settings!VisibleSectionIds, Settings!DeepLinkKept,
       Settings!AddressFollows, Settings!ThemeDrawn
  <1>3. \A i \in DOMAIN formCalls : AttemptFits(formCalls[i])' /\ CallKnown(formCalls[i])'
    BY DEF SettingsInv, AttemptFits, CallKnown
  <1> QED BY <1>1, <1>2, <1>3 DEF SettingsInv

LEMMA TextTyped ==
    ASSUME SettingsInv, NEW k \in Settings!Kinds, NEW t \in OwnTexts, Settings!Type(k, t)
    PROVE  SettingsInv'
  <1>0. /\ SettingsTypes /\ FormHolds /\ profileForm # None /\ profileForm \in ProfileForms /\ t \in FormTexts
        /\ \A i \in DOMAIN formCalls : formCalls[i] \in FormCalls
        /\ UNCHANGED <<role, docs, ownRecord, persona, sec, hash, askedFor, formMounts, formCalls, theme>>
    BY DEF SettingsInv, SettingsTypes, Settings!Type, Settings!OnScreen, Settings!server, FormTexts
  <1>1. PICK late \in BOOLEAN : late <=> Settings!Pending(k)
    BY DEF Settings!Pending
  <1>2. CASE k = "name"
    <2>1. profileForm' = [profileForm EXCEPT !.text["name"] = t, !.note["persona"] = profileForm.note["persona"],
                                             !.typedLate = profileForm.typedLate]
      BY <1>2 DEF Settings!Type, Settings!Typed
    <2>2. /\ profileForm' \in ProfileForms
          /\ profileForm'.note = profileForm.note /\ profileForm'.sent = profileForm.sent
          /\ profileForm'.own = profileForm.own /\ profileForm'.typedLate = profileForm.typedLate
          /\ profileForm'.text.persona = profileForm.text.persona
      BY <1>0, <2>1 DEF ProfileForms, Settings!Forms, Settings!Kinds
    <2>3. FormHolds'
      BY <1>0, <2>2 DEF FormHolds, Settings!PersonaNoteHolds, Settings!NotesAreOwn
    <2>4. \A i \in DOMAIN formCalls : PersonaMatches(formCalls[i].text) => PersonaMatches(formCalls[i].text)'
      BY <1>0, <2>2 DEF PersonaMatches
    <2> QED BY <1>0, <2>2, <2>3, <2>4, FormEditedToo
  <1>3. CASE k = "persona"
    <2>0. Settings!Pending(k) = late
      BY <1>1 DEF Settings!Pending
    <2>1. profileForm' = [profileForm EXCEPT !.text["persona"] = t, !.note["persona"] = "none", !.typedLate = late]
      BY <1>3, <2>0 DEF Settings!Type, Settings!Typed
    <2>2. /\ profileForm' \in ProfileForms
          /\ profileForm'.note = [profileForm.note EXCEPT !["persona"] = "none"] /\ profileForm'.sent = profileForm.sent
          /\ profileForm'.typedLate = late
      BY <1>0, <2>1 DEF ProfileForms, Settings!Forms, Settings!Kinds, NoteWords
    <2>3. \A j \in Settings!Forms : profileForm'.note[j] = IF j = "persona" THEN "none" ELSE profileForm.note[j]
      BY <1>0, <2>2 DEF ProfileForms
    <2>4. FormHolds'
      BY <1>0, <2>2, <2>3 DEF FormHolds, Settings!PersonaNoteHolds, Settings!NotesAreOwn, Settings!Forms, Settings!Kinds
    <2>5. ASSUME NEW i \in DOMAIN formCalls, formCalls[i].kind = "persona", formCalls[i].mount = formMounts
          PROVE  PersonaMatches(formCalls[i].text)'
      <3>1. late
        BY <1>1, <1>3, <2>5 DEF Settings!Pending
      <3> QED BY <2>2, <3>1 DEF PersonaMatches
    <2> QED BY <1>0, <2>2, <2>4, <2>5, FormEditedToo
  <1> QED BY <1>2, <1>3 DEF Settings!Kinds

LEMMA PasswordsFilled ==
    ASSUME SettingsInv, NEW c \in Passwords, NEW n \in Passwords, NEW k \in Passwords, Settings!FillPasswords(c, n, k)
    PROVE  SettingsInv'
  <1> DEFINE pass == [cur |-> c, new |-> n, conf |-> k]
  <1>0. /\ SettingsTypes /\ FormHolds /\ profileForm # None /\ profileForm \in ProfileForms
        /\ UNCHANGED <<role, docs, ownRecord, persona, sec, hash, askedFor, formMounts, formCalls, theme>>
        /\ profileForm' = [profileForm EXCEPT !.pass = pass]
    BY DEF SettingsInv, SettingsTypes, Settings!FillPasswords, Settings!OnScreen, Settings!server
  <1>1. pass \in PassBoxes
    BY DEF PassBoxes
  <1> HIDE DEF pass
  <1>2. /\ profileForm' \in ProfileForms
        /\ profileForm'.note = profileForm.note /\ profileForm'.sent = profileForm.sent
        /\ profileForm'.own = profileForm.own /\ profileForm'.typedLate = profileForm.typedLate
        /\ profileForm'.text = profileForm.text
    BY <1>0, <1>1 DEF ProfileForms
  <1>3. FormHolds'
    BY <1>0, <1>2 DEF FormHolds, Settings!PersonaNoteHolds, Settings!NotesAreOwn
  <1>4. \A i \in DOMAIN formCalls : PersonaMatches(formCalls[i].text) => PersonaMatches(formCalls[i].text)'
    BY <1>0, <1>2 DEF PersonaMatches
  <1> QED BY <1>0, <1>2, <1>3, <1>4, FormEditedToo

\* A call as it is sent has the form's text, and no call of its kind is out beside it.
LEMMA FormSubmitted ==
    ASSUME SettingsInv, NEW k \in Settings!Forms, Settings!Submit(k)
    PROVE  SettingsInv'
  <1>0. /\ SettingsTypes /\ FormHolds /\ profileForm # None /\ profileForm \in ProfileForms
        /\ formCalls \in Seq(FormCalls) /\ formMounts \in Nat
        /\ \A i \in DOMAIN formCalls : formCalls[i] \in FormCalls /\ AttemptFits(formCalls[i]) /\ CallKnown(formCalls[i])
        /\ UNCHANGED <<role, docs, ownRecord, persona, sec, hash, askedFor, formMounts, theme>>
    BY DEF SettingsInv, SettingsTypes, Settings!Submit, Settings!OnScreen, Settings!server
  <1>1. CASE /\ k = "password" /\ profileForm.pass.new # profileForm.pass.conf
             /\ profileForm' = [profileForm EXCEPT !.note[k] = "mismatch"] /\ UNCHANGED formCalls
    <2>1. /\ profileForm' \in ProfileForms
          /\ profileForm'.note = [profileForm.note EXCEPT ![k] = "mismatch"] /\ profileForm'.sent = profileForm.sent
          /\ profileForm'.own = profileForm.own /\ profileForm'.typedLate = profileForm.typedLate
          /\ profileForm'.text = profileForm.text
      BY <1>0, <1>1 DEF ProfileForms, NoteWords
    <2>2. \A j \in Settings!Forms : profileForm'.note[j] = IF j = k THEN "mismatch" ELSE profileForm.note[j]
      BY <1>0, <2>1 DEF ProfileForms
    <2>3. FormHolds'
      BY <1>0, <1>1, <2>1, <2>2 DEF FormHolds, Settings!PersonaNoteHolds, Settings!NotesAreOwn, Settings!Forms, Settings!Kinds
    <2>4. \A i \in DOMAIN formCalls : PersonaMatches(formCalls[i].text) => PersonaMatches(formCalls[i].text)'
      BY <1>0, <1>1, <2>1 DEF PersonaMatches
    <2> QED BY <1>0, <1>1, <2>1, <2>3, <2>4, FormEditedToo
  <1>2. CASE /\ profileForm' = [profileForm EXCEPT !.note[k] = "none", !.sent = @ \cup {k},
                                                  !.typedLate = IF k = "persona" THEN FALSE ELSE @]
             /\ formCalls' = Append(formCalls, Settings!Call(k))
    <2> DEFINE late == IF k = "persona" THEN FALSE ELSE profileForm.typedLate
               sent == profileForm.sent \cup {k}
               text == IF k \in Settings!Kinds THEN profileForm.text[k] ELSE BlankText
               pass == IF k \in Settings!Kinds THEN Settings!NoPasswords ELSE profileForm.pass
    <2>0. PICK c : c = Settings!Call(k)
      OBVIOUS
    <2>1. late \in BOOLEAN /\ sent \in SUBSET Settings!Forms /\ (k = "persona" => ~late) /\ (k # "persona" => late = profileForm.typedLate)
      BY <1>0 DEF ProfileForms
    <2>2. text \in FormTexts /\ pass \in PassBoxes
      BY <1>0 DEF ProfileForms, FormTexts, PassBoxes, Settings!NoPasswords, Settings!Kinds
    <2>3. c = [kind |-> k, mount |-> formMounts, text |-> text, pass |-> pass, stage |-> "out", tries |-> 0, changed |-> 0]
      BY <2>0 DEF Settings!Call
    <2>4. profileForm' = [profileForm EXCEPT !.note[k] = "none", !.sent = sent, !.typedLate = late]
      BY <1>2
    <2>5. k = "persona" => text = profileForm.text.persona
      BY <1>0 DEF Settings!Kinds, ProfileForms
    <2>6. k \in sent /\ profileForm.sent \subseteq sent
      OBVIOUS
    <2> HIDE DEF late, sent, text, pass
    <2>7. /\ profileForm' \in ProfileForms
          /\ profileForm'.note = [profileForm.note EXCEPT ![k] = "none"] /\ profileForm'.sent = sent
          /\ profileForm'.own = profileForm.own /\ profileForm'.typedLate = late
          /\ profileForm'.text = profileForm.text
      BY <1>0, <2>1, <2>4 DEF ProfileForms, NoteWords
    <2>8. \A j \in Settings!Forms : profileForm'.note[j] = IF j = k THEN "none" ELSE profileForm.note[j]
      BY <1>0, <2>7 DEF ProfileForms
    <2>9. FormHolds'
      BY <1>0, <2>1, <2>6, <2>7, <2>8 DEF FormHolds, Settings!PersonaNoteHolds, Settings!NotesAreOwn, Settings!Forms, Settings!Kinds
    <2>10. /\ c \in FormCalls /\ c.kind = k /\ c.mount = formMounts /\ c.text = text
           /\ c.stage = "out" /\ c.tries = 0 /\ c.changed = 0
      BY <1>0, <2>2, <2>3 DEF FormCalls
    <2>11. /\ formCalls' \in Seq(FormCalls) /\ DOMAIN formCalls' = DOMAIN formCalls \cup {Len(formCalls) + 1}
           /\ \A i \in DOMAIN formCalls : formCalls'[i] = formCalls[i]
           /\ formCalls'[Len(formCalls) + 1] = c
      BY <1>0, <1>2, <2>0, <2>10, AppendProperties
    <2>12. AttemptFits(c)'
      BY <2>10 DEF AttemptFits
    <2>13. CallKnown(c)'
      BY <1>0, <2>5, <2>6, <2>7, <2>10 DEF CallKnown, PersonaMatches
    <2>14. ASSUME NEW i \in DOMAIN formCalls PROVE AttemptFits(formCalls[i])' /\ CallKnown(formCalls[i])'
      <3> DEFINE d == formCalls[i]
      <3>1. PICK e : e = d
        OBVIOUS
      <3>2. AttemptFits(e) /\ CallKnown(e) /\ e \in FormCalls /\ formCalls'[i] = e /\ formCalls[i] = e
        BY <1>0, <2>11, <3>1
      <3>3. k = "persona" => ~(e.kind = "persona" /\ e.mount = formMounts)
        BY <3>2 DEF Settings!Submit, Settings!Pending
      <3>4. AttemptFits(e)'
        BY <3>2 DEF AttemptFits
      <3>5. CallKnown(e)'
        BY <1>0, <2>1, <2>6, <2>7, <3>2, <3>3 DEF CallKnown, PersonaMatches
      <3> QED BY <2>11, <3>1, <3>2, <3>4, <3>5
    <2>15. SettingsTypes'
      BY <1>0, <2>7, <2>11 DEF SettingsTypes
    <2>16. SectionHolds' /\ Settings!ThemeDrawn'
      BY <1>0 DEF SettingsInv, SectionHolds, Settings!Refuses, Settings!VisibleSectionIds, Settings!DeepLinkKept,
         Settings!AddressFollows, Settings!ThemeDrawn
    <2>17. \A i \in DOMAIN formCalls' : (AttemptFits(formCalls[i]) /\ CallKnown(formCalls[i]))'
      <3> SUFFICES ASSUME NEW i \in DOMAIN formCalls' PROVE AttemptFits(formCalls[i])' /\ CallKnown(formCalls[i])'
        OBVIOUS
      <3>1. CASE i \in DOMAIN formCalls
        BY <2>14, <3>1
      <3>2. CASE i = Len(formCalls) + 1
        <4>1. formCalls'[i] = c
          BY <2>11, <3>2
        <4> QED BY <2>12, <2>13, <4>1 DEF AttemptFits, CallKnown, PersonaMatches
      <3> QED BY <2>11, <3>1, <3>2
    <2> QED BY <2>9, <2>15, <2>16, <2>17 DEF SettingsInv
  <1> QED BY <1>1, <1>2 DEF Settings!Submit

\* A call as it is served or sent once more: it keeps what its form knows of it.
LEMMA CallServedOn ==
    ASSUME SettingsInv, NEW i \in DOMAIN formCalls, NEW d, d \in FormCalls, AttemptFits(d),
           d.kind = formCalls[i].kind, d.mount = formCalls[i].mount, d.text = formCalls[i].text,
           formCalls' = [formCalls EXCEPT ![i] = d], docs' \in [Settings!Kinds -> FormTexts],
           UNCHANGED <<role, ownRecord, persona, sec, hash, askedFor, profileForm, formMounts, theme>>
    PROVE  SettingsInv'
  <1>0. /\ SettingsTypes /\ formCalls \in Seq(FormCalls)
        /\ \A j \in DOMAIN formCalls : formCalls[j] \in FormCalls /\ AttemptFits(formCalls[j]) /\ CallKnown(formCalls[j])
    BY DEF SettingsInv, SettingsTypes
  <1>1. /\ formCalls' \in Seq(FormCalls) /\ DOMAIN formCalls' = DOMAIN formCalls /\ formCalls'[i] = d
        /\ \A j \in DOMAIN formCalls : j # i => formCalls'[j] = formCalls[j]
    BY <1>0, ExceptSeq
  <1>2. SettingsTypes'
    BY <1>0, <1>1 DEF SettingsTypes
  <1>3. SectionHolds' /\ FormHolds' /\ Settings!ThemeDrawn'
    BY DEF SettingsInv, SectionHolds, Settings!Refuses, Settings!VisibleSectionIds, Settings!DeepLinkKept,
       Settings!AddressFollows, Settings!ThemeDrawn, FormHolds, Settings!PersonaNoteHolds, Settings!NotesAreOwn
  <1>4. ASSUME NEW j \in DOMAIN formCalls PROVE AttemptFits(formCalls'[j]) /\ CallKnown(formCalls[j])'
    <2>1. CASE j = i
      BY <1>0, <1>1, <2>1 DEF CallKnown, PersonaMatches
    <2>2. CASE j # i
      BY <1>0, <1>1, <2>2 DEF CallKnown, PersonaMatches
    <2> QED BY <2>1, <2>2
  <1> QED BY <1>1, <1>2, <1>3, <1>4 DEF SettingsInv, AttemptFits

LEMMA ServedAtAll ==
    ASSUME SettingsInv, NEW i \in DOMAIN formCalls,
           Settings!ServeText(i) \/ Settings!ServePassword(i) \/ Settings!AskAgain(i)
    PROVE  SettingsInv'
  <1>0. /\ formCalls[i] \in FormCalls /\ AttemptFits(formCalls[i]) /\ docs \in [Settings!Kinds -> FormTexts]
        /\ UNCHANGED <<role, ownRecord, persona, sec, hash, askedFor, profileForm, formMounts, theme>>
    BY DEF SettingsInv, SettingsTypes, Settings!ServeText, Settings!ServePassword, Settings!AskAgain, Settings!settled, Settings!server
  <1>1. CASE Settings!ServeText(i)
    <2> DEFINE d == [formCalls[i] EXCEPT !.stage = "done"]
    <2>1. d \in FormCalls /\ d.kind = formCalls[i].kind /\ d.mount = formCalls[i].mount /\ d.text = formCalls[i].text
          /\ AttemptFits(d)
      BY <1>0 DEF FormCalls, AttemptFits
    <2>2. formCalls' = [formCalls EXCEPT ![i] = d]
      BY <1>1 DEF Settings!ServeText
    <2>3. docs' \in [Settings!Kinds -> FormTexts]
      BY <1>0, <1>1 DEF Settings!ServeText, FormCalls
    <2> HIDE DEF d
    <2> QED BY <1>0, <2>1, <2>2, <2>3, CallServedOn
  <1>2. CASE Settings!ServePassword(i)
    <2>0. /\ formCalls[i].stage = "out" /\ formCalls[i].changed = 0
          /\ formCalls[i].tries \in Nat /\ formCalls[i].tries <= 1 /\ docs' = docs
      BY <1>0, <1>2 DEF Settings!ServePassword, AttemptFits, FormCalls
    <2>1. ASSUME NEW s \in {"many", "wrong", "done"}, NEW n \in {0, 1}, n = 1 => s = "done",
                 formCalls' = [formCalls EXCEPT ![i].stage = s, ![i].tries = @ + 1, ![i].changed = n]
          PROVE  SettingsInv'
      <3> DEFINE t == formCalls[i].tries + 1
                 d == [formCalls[i] EXCEPT !.stage = s, !.tries = t, !.changed = n]
      <3>1. t \in Nat /\ t <= 2 /\ n \in Nat
        BY <2>0
      <3>2. formCalls' = [formCalls EXCEPT ![i] = d]
        BY <2>1
      <3> HIDE DEF t
      <3>3. d \in FormCalls /\ d.kind = formCalls[i].kind /\ d.mount = formCalls[i].mount /\ d.text = formCalls[i].text
            /\ d.stage = s /\ d.tries = t /\ d.changed = n
        BY <1>0, <3>1 DEF FormCalls
      <3>4. AttemptFits(d)
        <4> HIDE DEF d
        <4> QED BY <2>1, <3>1, <3>3 DEF AttemptFits
      <3> HIDE DEF d
      <3> QED BY <1>0, <2>0, <3>2, <3>3, <3>4, CallServedOn
    <2>3. \A s \in {"many", "wrong"} : [formCalls EXCEPT ![i].stage = s, ![i].tries = @ + 1]
            = [formCalls EXCEPT ![i].stage = s, ![i].tries = @ + 1, ![i].changed = 0]
      <3> SUFFICES ASSUME NEW s \in {"many", "wrong"}
                   PROVE  [formCalls EXCEPT ![i].stage = s, ![i].tries = @ + 1]
                            = [formCalls EXCEPT ![i].stage = s, ![i].tries = @ + 1, ![i].changed = 0]
        OBVIOUS
      <3> DEFINE t == formCalls[i].tries + 1
                 d == [formCalls[i] EXCEPT !.stage = s, !.tries = t]
                 e == [formCalls[i] EXCEPT !.stage = s, !.tries = t, !.changed = 0]
      <3>1. d = e
        <4> HIDE DEF t
        <4> QED BY <1>0, <2>0 DEF FormCalls
      <3>2. [formCalls EXCEPT ![i].stage = s, ![i].tries = @ + 1] = [formCalls EXCEPT ![i] = d]
        OBVIOUS
      <3>3. [formCalls EXCEPT ![i].stage = s, ![i].tries = @ + 1, ![i].changed = 0] = [formCalls EXCEPT ![i] = e]
        OBVIOUS
      <3> HIDE DEF d, e
      <3> QED BY <3>1, <3>2, <3>3
    <2>4. formCalls[i].changed + 1 = 1
      BY <2>0
    <2>5. \/ formCalls' = [formCalls EXCEPT ![i].stage = "many", ![i].tries = @ + 1]
          \/ formCalls' = [formCalls EXCEPT ![i].stage = "wrong", ![i].tries = @ + 1]
          \/ formCalls' = [formCalls EXCEPT ![i].stage = "done", ![i].tries = @ + 1, ![i].changed = 1]
      <3> DEFINE n == formCalls[i].changed + 1
      <3>1. \/ formCalls' = [formCalls EXCEPT ![i].stage = "many", ![i].tries = @ + 1]
            \/ formCalls' = [formCalls EXCEPT ![i].stage = "wrong", ![i].tries = @ + 1]
            \/ formCalls' = [formCalls EXCEPT ![i].stage = "done", ![i].tries = @ + 1, ![i].changed = n]
        BY <1>2 DEF Settings!ServePassword
      <3>2. n = 1
        BY <2>4
      <3> HIDE DEF n
      <3> QED BY <3>1, <3>2
    <2>6. CASE formCalls' = [formCalls EXCEPT ![i].stage = "many", ![i].tries = @ + 1]
      <3>1. formCalls' = [formCalls EXCEPT ![i].stage = "many", ![i].tries = @ + 1, ![i].changed = 0]
        BY <2>3, <2>6, Zenon
      <3> QED BY <2>1, <3>1
    <2>7. CASE formCalls' = [formCalls EXCEPT ![i].stage = "wrong", ![i].tries = @ + 1]
      <3>1. formCalls' = [formCalls EXCEPT ![i].stage = "wrong", ![i].tries = @ + 1, ![i].changed = 0]
        BY <2>3, <2>7, Zenon
      <3> QED BY <2>1, <3>1
    <2>8. CASE formCalls' = [formCalls EXCEPT ![i].stage = "done", ![i].tries = @ + 1, ![i].changed = 1]
      BY <2>1, <2>8
    <2> QED BY <2>5, <2>6, <2>7, <2>8
  <1>3. CASE Settings!AskAgain(i)
    <2> DEFINE d == [formCalls[i] EXCEPT !.stage = "out"]
    <2>0. formCalls[i].stage = "wrong" /\ formCalls[i].tries = 1 /\ formCalls[i].changed = 0
      BY <1>0, <1>3 DEF Settings!AskAgain, Settings!Retries, AttemptFits
    <2>1. d \in FormCalls /\ d.kind = formCalls[i].kind /\ d.mount = formCalls[i].mount /\ d.text = formCalls[i].text
          /\ AttemptFits(d)
      BY <1>0, <2>0 DEF FormCalls, AttemptFits
    <2>2. formCalls' = [formCalls EXCEPT ![i] = d] /\ docs' = docs
      BY <1>3 DEF Settings!AskAgain, Settings!server
    <2> HIDE DEF d
    <2> QED BY <1>0, <2>1, <2>2, CallServedOn
  <1> QED BY <1>1, <1>2, <1>3

\* An answer: the call is gone, and the form that sent it says how it ended.
LEMMA AnswerComes ==
    ASSUME SettingsInv, NEW i \in DOMAIN formCalls, Settings!Returns(i)
    PROVE  SettingsInv'
  <1> DEFINE c == formCalls[i]
             T == {d \in FormCalls : \E j \in DOMAIN formCalls : d = formCalls[j]}
  <1>0. /\ SettingsTypes /\ SectionHolds /\ FormHolds /\ Settings!ThemeDrawn /\ formCalls \in Seq(FormCalls) /\ i \in 1..Len(formCalls)
        /\ \A j \in DOMAIN formCalls : formCalls[j] \in FormCalls /\ AttemptFits(formCalls[j]) /\ CallKnown(formCalls[j])
        /\ UNCHANGED <<role, docs, ownRecord, persona, sec, hash, askedFor, formMounts, theme>>
        /\ formCalls' = Settings!Without(i)
    BY DEF SettingsInv, SettingsTypes, Settings!Returns, Settings!server
  <1>1. formCalls' \in Seq(T)
    <2> DEFINE first == SubSeq(formCalls, 1, i - 1)
               rest == SubSeq(formCalls, i + 1, Len(formCalls))
    <2>1. formCalls \in Seq(T) /\ Len(formCalls) \in Nat /\ i \in Nat
      BY <1>0
    <2>2. first \in Seq(T) /\ rest \in Seq(T)
      <3>1. \A j \in 1..i - 1 : formCalls[j] \in T
        BY <1>0, <2>1
      <3>2. \A j \in i + 1..Len(formCalls) : formCalls[j] \in T
        BY <1>0, <2>1
      <3>3. first \in Seq(T)
        BY <2>1, <3>1, SubSeqProperties
      <3>4. rest \in Seq(T)
        BY <2>1, <3>2, SubSeqProperties
      <3> QED BY <3>3, <3>4
    <2>3. formCalls' = first \o rest
      BY <1>0 DEF Settings!Without
    <2> HIDE DEF first, rest, T
    <2> QED BY <2>2, <2>3, ConcatProperties, Zenon
  <1>2. formCalls' \in Seq(FormCalls) /\ \A j \in DOMAIN formCalls' : \E m \in DOMAIN formCalls : formCalls'[j] = formCalls[m]
    BY <1>1
  <1>3. PICK note \in {"saved", "failed", "wrong", "many"} :
          /\ note = "saved" => c.stage = "done"
          /\ profileForm' = IF ~Settings!Heard(c) THEN profileForm
                            ELSE IF c.kind = "persona" /\ note = "saved"
                            THEN [Settings!Noted(profileForm, c.kind, note) EXCEPT !.own = c.text]
                            ELSE Settings!Noted(profileForm, c.kind, note)
    BY <1>0 DEF Settings!Returns, FormCalls
  <1>4. /\ profileForm' # None => profileForm' \in ProfileForms /\ profileForm # None
        /\ FormHolds'
        /\ profileForm # None /\ profileForm' # None => profileForm'.sent = profileForm.sent /\ profileForm'.text = profileForm.text /\ profileForm'.typedLate = profileForm.typedLate
    <2>1. CASE ~Settings!Heard(c)
      <3>1. profileForm' = profileForm
        BY <1>3, <2>1
      <3> QED BY <1>0, <3>1 DEF SettingsTypes, FormHolds, Settings!PersonaNoteHolds, Settings!NotesAreOwn
    <2>2. CASE Settings!Heard(c)
      <3>1. profileForm # None /\ profileForm \in ProfileForms /\ c.kind \in profileForm.sent /\ c.kind \in Settings!Forms
            /\ c.text \in FormTexts /\ (c.kind = "persona" => PersonaMatches(c.text))
        BY <1>0, <2>2 DEF Settings!Heard, SettingsTypes, CallKnown, FormCalls
      <3> DEFINE ofText == IF c.kind = "persona" /\ note = "saved" THEN c.text ELSE profileForm.own
                 pass == IF c.kind = "password" /\ note = "saved" THEN Settings!NoPasswords ELSE profileForm.pass
      <3>2. ofText \in FormTexts /\ pass \in PassBoxes
        BY <3>1 DEF ProfileForms, PassBoxes, Settings!NoPasswords
      <3>3. profileForm' = [profileForm EXCEPT !.note[c.kind] = note, !.pass = pass, !.own = ofText]
        <4> DEFINE f == [profileForm EXCEPT !.note[c.kind] = note, !.pass = pass]
        <4>1. Settings!Noted(profileForm, c.kind, note) = f
          BY DEF Settings!Noted
        <4>2. f \in ProfileForms /\ f.own = profileForm.own
          <5> HIDE DEF pass
          <5> QED BY <3>1, <3>2 DEF ProfileForms, NoteWords
        <4>3. profileForm' = [f EXCEPT !.own = ofText]
          <5>1. CASE c.kind = "persona" /\ note = "saved"
            BY <1>3, <2>2, <4>1, <5>1
          <5>2. CASE ~(c.kind = "persona" /\ note = "saved")
            <6>1. ofText = f.own
              BY <4>2, <5>2
            <6>2. f = [f EXCEPT !.own = f.own]
              <7> HIDE DEF f
              <7> QED BY <4>2 DEF ProfileForms
            <6> HIDE DEF f, ofText
            <6> QED BY <1>3, <2>2, <4>1, <5>2, <6>1, <6>2
          <5> QED BY <5>1, <5>2
        <4> QED BY <4>3
      <3>4. c.kind = "persona" /\ note = "saved" => ofText = c.text
        OBVIOUS
      <3>5. c.kind # "persona" => ofText = profileForm.own
        OBVIOUS
      <3> HIDE DEF ofText, pass
      <3>6. /\ profileForm' \in ProfileForms
            /\ profileForm'.note = [profileForm.note EXCEPT ![c.kind] = note] /\ profileForm'.sent = profileForm.sent
            /\ profileForm'.own = ofText /\ profileForm'.typedLate = profileForm.typedLate
            /\ profileForm'.text = profileForm.text
        BY <3>1, <3>2, <3>3 DEF ProfileForms, NoteWords
      <3>7. \A j \in Settings!Forms : profileForm'.note[j] = IF j = c.kind THEN note ELSE profileForm.note[j]
        BY <3>1, <3>6 DEF ProfileForms
      <3>8. Settings!NotesAreOwn'
        BY <1>0, <3>1, <3>6, <3>7 DEF FormHolds, Settings!NotesAreOwn
      <3>9. Settings!PersonaNoteHolds'
        <4>1. "persona" \in Settings!Forms
          BY DEF Settings!Forms, Settings!Kinds
        <4>2. CASE c.kind = "persona"
          <5>1. profileForm'.note["persona"] = note
            BY <3>7, <4>1, <4>2
          <5> QED BY <1>0, <3>1, <3>4, <3>6, <4>2, <5>1 DEF Settings!PersonaNoteHolds, PersonaMatches
        <4>3. CASE c.kind # "persona"
          <5>1. profileForm'.note["persona"] = profileForm.note["persona"]
            BY <3>7, <4>1, <4>3
          <5> QED BY <1>0, <3>1, <3>5, <3>6, <4>3, <5>1 DEF FormHolds, Settings!PersonaNoteHolds
        <4> QED BY <4>2, <4>3
      <3> QED BY <3>1, <3>6, <3>8, <3>9 DEF FormHolds
    <2> QED BY <2>1, <2>2
  <1>5. \A d : CallKnown(d) => CallKnown(d)'
    BY <1>0, <1>4 DEF CallKnown, PersonaMatches
  <1>6. ASSUME NEW j \in DOMAIN formCalls' PROVE AttemptFits(formCalls'[j]) /\ CallKnown(formCalls[j])'
    <2>1. PICK d : d = formCalls'[j]
      OBVIOUS
    <2>2. AttemptFits(d) /\ CallKnown(d)
      BY <1>0, <1>2, <2>1
    <2>3. CallKnown(d)'
      BY <1>5, <2>2
    <2> QED BY <2>1, <2>2, <2>3 DEF CallKnown, PersonaMatches
  <1>7. SettingsTypes'
    BY <1>0, <1>2, <1>4 DEF SettingsTypes
  <1>8. SectionHolds' /\ Settings!ThemeDrawn'
    BY <1>0 DEF SectionHolds, Settings!Refuses, Settings!VisibleSectionIds, Settings!DeepLinkKept,
       Settings!AddressFollows, Settings!ThemeDrawn
  <1> QED BY <1>4, <1>6, <1>7, <1>8 DEF SettingsInv, AttemptFits

LEMMA SettingsStep == ASSUME SettingsInv, [Settings!SettingsNext]_(Settings!vars) PROVE SettingsInv'
  <1>0. /\ SettingsTypes /\ SectionHolds /\ FormHolds /\ Settings!ThemeDrawn
        /\ \A i \in DOMAIN formCalls : formCalls[i] \in FormCalls /\ AttemptFits(formCalls[i]) /\ CallKnown(formCalls[i])
    BY DEF SettingsInv, SettingsTypes
  <1>1. ASSUME role' \in {"owner", "member"}, docs' \in [Settings!Kinds -> FormTexts],
               Settings!ThemeDrawn', theme' = [chosen |-> theme'.chosen, drawn |-> theme'.drawn, stored |-> theme'.stored],
               UNCHANGED <<ownRecord, persona, sec, hash, askedFor, profileForm, formMounts, formCalls>>
        PROVE  SettingsInv'
    <2>1. SettingsTypes' /\ SectionHolds' /\ FormHolds'
      BY <1>0, <1>1 DEF SettingsTypes, SectionHolds, Settings!Refuses, Settings!VisibleSectionIds, Settings!DeepLinkKept,
         Settings!AddressFollows, FormHolds, Settings!PersonaNoteHolds, Settings!NotesAreOwn
    <2> QED BY <1>0, <1>1, <2>1 DEF SettingsInv, AttemptFits, CallKnown, PersonaMatches
  <1>2. CASE UNCHANGED Settings!vars
    BY <1>0, <1>1, <1>2 DEF Settings!vars, Settings!ThemeDrawn, SettingsTypes
  <1>3. ASSUME NEW h \in Sections \cup {None}, Settings!HashChanges(h) PROVE SettingsInv'
    BY <1>3, SectionMoves
  <1>4. ASSUME NEW id \in Sections, Settings!SelectSection(id) PROVE SettingsInv'
    BY <1>4, SectionMoves
  <1>5. CASE Settings!MeComes \/ Settings!PersonaComes
    BY <1>5, SectionMoves
  <1>6. CASE Settings!RoleChanges \/ Settings!HitsExpire
    BY <1>0, <1>1, <1>6 DEF Settings!RoleChanges, Settings!HitsExpire, Settings!settled, Settings!ThemeDrawn, SettingsTypes
  <1>7. ASSUME NEW k \in Settings!Kinds, NEW t \in OwnTexts, Settings!TextChanges(k, t) PROVE SettingsInv'
    BY <1>0, <1>1, <1>7 DEF Settings!TextChanges, Settings!settled, Settings!ThemeDrawn, SettingsTypes, FormTexts
  <1>8. ASSUME NEW k \in Settings!Kinds, NEW t \in OwnTexts, Settings!Type(k, t) PROVE SettingsInv'
    BY <1>8, TextTyped
  <1>9. ASSUME NEW c \in Passwords, NEW n \in Passwords, NEW k \in Passwords, Settings!FillPasswords(c, n, k) PROVE SettingsInv'
    BY <1>9, PasswordsFilled
  <1>10. ASSUME NEW k \in Settings!Forms, Settings!Submit(k) PROVE SettingsInv'
    BY <1>10, FormSubmitted
  <1>11. ASSUME NEW i \in DOMAIN formCalls, Settings!ServeText(i) \/ Settings!ServePassword(i) \/ Settings!AskAgain(i)
         PROVE  SettingsInv'
    BY <1>11, ServedAtAll
  <1>12. ASSUME NEW i \in DOMAIN formCalls, Settings!Returns(i) PROVE SettingsInv'
    BY <1>12, AnswerComes
  <1>13. ASSUME NEW t, Settings!SetTheme(t), UNCHANGED <<Settings!server, Settings!settled, hash, formCalls>> PROVE SettingsInv'
    BY <1>0, <1>1, <1>13 DEF Settings!SetTheme, Settings!server, Settings!settled, Settings!ThemeDrawn, SettingsTypes
  <1>14. CASE Settings!ToggleTheme
    BY <1>13, <1>14 DEF Settings!ToggleTheme
  <1>15. ASSUME NEW t, Settings!PickTheme(t) PROVE SettingsInv'
    BY <1>13, <1>15 DEF Settings!PickTheme
  <1>16. ASSUME NEW t, Settings!OtherTabsTheme(t) PROVE SettingsInv'
    BY <1>0, <1>1, <1>16 DEF Settings!OtherTabsTheme, Settings!server, Settings!settled, Settings!ThemeDrawn, SettingsTypes
  <1>17. CASE Settings!Reload
    <2> DEFINE f == Settings!MountedForm(None, None)
    <2>1. f \in ProfileForms /\ \A k \in Settings!Forms : f.note[k] = "none"
      BY FormMounts
    <2>2. /\ ownRecord' = None /\ persona' = None /\ UNCHANGED <<role, docs, hash, formCalls>>
          /\ sec' = (IF hash = None THEN Profile ELSE hash) /\ askedFor' = [id |-> sec', refused |-> FALSE]
          /\ profileForm' = None \/ profileForm' = f
          /\ formMounts' = formMounts + 1
      BY <1>17 DEF Settings!Reload, Settings!server
    <2> HIDE DEF f
    <2>3. theme' = [chosen |-> theme'.chosen, drawn |-> theme'.drawn, stored |-> theme'.stored] /\ Settings!ThemeDrawn'
      <3>1. theme' = theme \/ theme' = [theme EXCEPT !.chosen = theme.stored, !.drawn = theme.stored]
        BY <1>17 DEF Settings!Reload
      <3> QED BY <1>0, <3>1 DEF Settings!ThemeDrawn, SettingsTypes
    <2>4. SettingsTypes'
      BY <1>0, <2>1, <2>2, <2>3 DEF SettingsTypes
    <2>5. SectionHolds'
      BY <2>2, SettingsAssumption DEF SectionHolds, Settings!Refuses, Settings!DeepLinkKept, Settings!AddressFollows
    <2>6. FormHolds'
      BY <2>1, <2>2 DEF FormHolds, Settings!PersonaNoteHolds, Settings!NotesAreOwn, Settings!Forms, Settings!Kinds
    <2>7. ASSUME NEW i \in DOMAIN formCalls PROVE CallKnown(formCalls[i])'
      <3>1. formCalls[i].mount \in Nat /\ formCalls[i].mount <= formMounts /\ formMounts \in Nat /\ formCalls'[i] = formCalls[i]
        BY <1>0, <2>2 DEF FormCalls, CallKnown, SettingsTypes
      <3>2. formCalls[i].mount < formMounts'
        BY <2>2, <3>1
      <3> QED BY <2>2, <3>1, <3>2 DEF CallKnown
    <2> QED BY <1>0, <2>2, <2>3, <2>4, <2>5, <2>6, <2>7 DEF SettingsInv, AttemptFits
  <1> QED
    BY <1>2, <1>3, <1>4, <1>5, <1>6, <1>7, <1>8, <1>9, <1>10, <1>11, <1>12, <1>14, <1>15, <1>16, <1>17
    DEF Settings!SettingsNext

LEMMA SettingsHold == SettingsInv => Settings!SettingsSafe
  BY DEF SettingsInv, SectionHolds, FormHolds, AttemptFits, Settings!SettingsSafe, Settings!PasswordChangedOnce
-----------------------------------------------------------------------------
(* The ingest modal. *)

LEMMA IngestPageOpens == ViewsInit /\ onPage = "ingest" => Ingest!IngestInit
  BY DEF ViewsInit

LEMMA IngestPageMoves ==
    ASSUME [ViewsNext]_pagesVars, onPage' = "ingest"
    PROVE  onPage = "ingest" /\ [Ingest!IngestNext]_(Ingest!ingestVars)
  BY DEF ViewsNext, pagesVars, Ingest!ingestVars, Ingest!ingestView, host, ingestOpen, vaultList, vaultPick,
     queue, sel, pending, ingestErrors, submitting, ingestOpens, rowEdits, subs, ingested

QueueRows == [id : {"q", "u"} \X Nat \X (FileNames \cup Links), url : Links \cup {None},
         name : FileNames \cup Links, tags : SUBSET FileTags, mode : IngestModes]
FileMaps == [FileNames -> FileContents \cup {None}]
Subs == [rows : Seq(QueueRows), vault : IngestVaults \cup {None}, opened : Nat,
         stage : {"links", "files", "failed", "done"}, links : SUBSET Nat, files : SUBSET FileNames,
         map : FileMaps, failed : BOOLEAN, reopened : BOOLEAN]

IngestTypes ==
    /\ host \in {"sources", "home"} /\ ingestOpen \in BOOLEAN /\ ingestOpens \in Nat /\ rowEdits \in Nat
    /\ vaultList \in Seq(IngestVaults) /\ vaultPick \in IngestVaults \cup {None}
    /\ queue \in Seq(QueueRows) /\ pending \in FileMaps /\ subs \in Seq(Subs)

\* The file a row was added with is in the map, under the name it had then.
HasFile(row) == row.url = None => row.id[3] \in FileNames /\ pending[row.id[3]] # None

\* A submission that uploads its links: none is lost, and as long as no other modal was opened the
\* files of its rows are in the map it will read.
LinksFit(s) ==
    /\ \A i \in DOMAIN subs[s].rows :
         subs[s].rows[i].url # None => i \in subs[s].links \/ subs[s].failed \/ Ingest!Stored(s, i)
    /\ subs[s].opened = ingestOpens => \A i \in DOMAIN subs[s].rows :
         /\ HasFile(subs[s].rows[i])
         /\ subs[s].rows[i].url = None => Ingest!SameModal(s) \/ subs[s].map[subs[s].rows[i].id[3]] # None

\* One that uploads its files: what is not yet stored is among them, or the code forgets it.
FilesFit(s) ==
    \A i \in DOMAIN subs[s].rows :
        \/ Ingest!Stored(s, i)
        \/ subs[s].failed
        \/ subs[s].rows[i].url = None /\ (subs[s].reopened \/ ~Ingest!Plain(s, i) \/ subs[s].rows[i].name \in subs[s].files)

RowsIngested(s) ==
    \A i \in DOMAIN subs[s].rows :
        Ingest!Stored(s, i) \/ (subs[s].rows[i].url = None /\ (subs[s].reopened \/ ~Ingest!Plain(s, i)))

SubFits(s) ==
    /\ subs[s].opened <= ingestOpens
    /\ subs[s].stage = "links" => LinksFit(s)
    /\ subs[s].stage = "files" => FilesFit(s)
    /\ subs[s].stage = "done" => RowsIngested(s)

IngestInv ==
    /\ IngestTypes
    /\ \A i \in DOMAIN queue : HasFile(queue[i])
    /\ \A s \in DOMAIN subs : SubFits(s)

LEMMA IngestStarts == Ingest!IngestInit => IngestInv
  <1> SUFFICES ASSUME Ingest!IngestInit PROVE IngestInv
    OBVIOUS
  <1>1. queue = <<>> /\ subs = <<>> /\ pending = [n \in FileNames |-> None]
    BY DEF Ingest!IngestInit, Ingest!NoFiles
  <1>2. vaultList \in Seq(IngestVaults)
    <2>1. vaultList = <<>> \/ \E v \in IngestVaults : vaultList = <<v>>
      BY DEF Ingest!IngestInit
    <2>2. \A v \in IngestVaults : <<v>> \in Seq(IngestVaults)
      OBVIOUS
    <2> QED BY <2>1, <2>2, EmptySeq
  <1>3. pending \in FileMaps
    BY <1>1 DEF FileMaps
  <1>4. IngestTypes
    BY <1>1, <1>2, <1>3, EmptySeq DEF Ingest!IngestInit, IngestTypes
  <1> QED BY <1>1, <1>4 DEF IngestInv

\* What was stored stays stored, and a row of a click is what it was.
LEMMA StoredStays ==
    ASSUME NEW s, NEW i, subs'[s].rows = subs[s].rows, ingested \subseteq ingested'
    PROVE  /\ Ingest!Stored(s, i) => Ingest!Stored(s, i)'
           /\ Ingest!Plain(s, i)' <=> Ingest!Plain(s, i)
  <1>1. Ingest!Stored(s, i) => Ingest!Stored(s, i)'
    BY DEF Ingest!Stored
  <1>2. Ingest!Plain(s, i)' <=> Ingest!Plain(s, i)
    BY DEF Ingest!Plain
  <1> QED BY <1>1, <1>2

\* A click keeps what is known of it when only the modal moves on.
LEMMA ClickUntouched ==
    ASSUME IngestInv, NEW s \in DOMAIN subs, subs'[s] = subs[s], ingested \subseteq ingested', host' = host,
           ingestOpens' \in Nat,
           \/ ingestOpens' > ingestOpens
           \/ /\ ingestOpens' = ingestOpens /\ ingestOpen' = ingestOpen
              /\ \A n \in FileNames : pending[n] # None => pending'[n] # None
    PROVE  SubFits(s)'
  <1>0. SubFits(s) /\ subs[s] \in Subs /\ ingestOpens \in Nat
    BY DEF IngestInv, IngestTypes
  <1>1. subs[s].opened \in Nat
    BY <1>0 DEF Subs
  <1>2. \A i : (Ingest!Stored(s, i) => Ingest!Stored(s, i)') /\ (Ingest!Plain(s, i)' <=> Ingest!Plain(s, i))
    BY StoredStays
  <1>3. subs'[s].opened <= ingestOpens'
    BY <1>0, <1>1 DEF SubFits
  <1>4. subs[s].stage = "links" => LinksFit(s)'
    <2> SUFFICES ASSUME subs[s].stage = "links" PROVE LinksFit(s)'
      OBVIOUS
    <2>0. LinksFit(s)
      BY <1>0 DEF SubFits
    <2>1. CASE ingestOpens' > ingestOpens
      <3>1. subs'[s].opened # ingestOpens'
        BY <1>0, <1>1, <2>1 DEF SubFits
      <3> QED BY <1>2, <2>0, <3>1 DEF LinksFit
    <2>2. CASE /\ ingestOpens' = ingestOpens /\ ingestOpen' = ingestOpen
               /\ \A n \in FileNames : pending[n] # None => pending'[n] # None
      BY <1>2, <2>0, <2>2 DEF LinksFit, HasFile, Ingest!SameModal
    <2> QED BY <2>1, <2>2
  <1>5. subs[s].stage = "files" => FilesFit(s)'
    BY <1>0, <1>2 DEF SubFits, FilesFit
  <1>6. subs[s].stage = "done" => RowsIngested(s)'
    BY <1>0, <1>2 DEF SubFits, RowsIngested
  <1> QED BY <1>3, <1>4, <1>5, <1>6 DEF SubFits

\* The queue is changed: every row keeps its file, and the clicks keep their rows.
LEMMA QueueChanged ==
    ASSUME IngestInv, UNCHANGED <<host, ingestOpen, vaultList, vaultPick, ingestOpens, subs, ingested>>,
           rowEdits' \in Nat, pending' \in FileMaps, \A n \in FileNames : pending[n] # None => pending'[n] # None,
           queue' \in Seq(QueueRows), \A i \in DOMAIN queue' : HasFile(queue[i])'
    PROVE  IngestInv'
  <1>1. IngestTypes'
    BY DEF IngestInv, IngestTypes
  <1>2. \A s \in DOMAIN subs : SubFits(s)'
    BY ClickUntouched DEF IngestInv, IngestTypes
  <1> QED BY <1>1, <1>2 DEF IngestInv

\* Rows whose name, mode or tags are changed.
LEMMA RowsChanged ==
    ASSUME IngestInv, NEW f, NEW v, Ingest!QueueEdit, Ingest!SameButRows,
           \/ f = "name" /\ v \in FileNames
           \/ f = "tags" /\ v \in SUBSET FileTags
           \/ f = "mode" /\ v \in IngestModes,
           \/ \E id : queue' = Ingest!Change(id, f, v)
           \/ queue' = Ingest!ChangeSelected(f, v)
    PROVE  IngestInv'
  <1>0. /\ queue \in Seq(QueueRows) /\ rowEdits \in Nat /\ pending \in FileMaps
        /\ \A i \in DOMAIN queue : HasFile(queue[i]) /\ queue[i] \in QueueRows
        /\ DOMAIN queue = 1..Len(queue) /\ Len(queue) \in Nat
    BY DEF IngestInv, IngestTypes
  <1>1. /\ DOMAIN queue' = DOMAIN queue
        /\ \A i \in DOMAIN queue : queue'[i] = queue[i] \/ queue'[i] = [queue[i] EXCEPT ![f] = v]
        /\ queue' = [i \in 1..Len(queue) |-> queue'[i]]
    BY <1>0 DEF Ingest!Change, Ingest!ChangeSelected
  <1>2. \A i \in DOMAIN queue : queue'[i] \in QueueRows /\ queue'[i].id = queue[i].id /\ queue'[i].url = queue[i].url
    <2> SUFFICES ASSUME NEW i \in DOMAIN queue
                 PROVE  queue'[i] \in QueueRows /\ queue'[i].id = queue[i].id /\ queue'[i].url = queue[i].url
      OBVIOUS
    <2>1. PICK row : row = [queue[i] EXCEPT ![f] = v]
      OBVIOUS
    <2>2. row \in QueueRows /\ row.id = queue[i].id /\ row.url = queue[i].url
      <3>1. queue[i] \in QueueRows
        BY <1>0
      <3>2. CASE f = "name" /\ v \in FileNames
        BY <2>1, <3>1, <3>2 DEF QueueRows
      <3>3. CASE f = "tags" /\ v \in SUBSET FileTags
        BY <2>1, <3>1, <3>3 DEF QueueRows
      <3>4. CASE f = "mode" /\ v \in IngestModes
        BY <2>1, <3>1, <3>4 DEF QueueRows
      <3> QED BY <3>2, <3>3, <3>4
    <2>3. queue'[i] = queue[i] \/ queue'[i] = row
      BY <1>1, <2>1
    <2> QED BY <1>0, <2>2, <2>3
  <1>3. queue' \in Seq(QueueRows)
    <2>1. Len(queue) \in Nat /\ \A i \in 1..Len(queue) : queue'[i] \in QueueRows
      BY <1>0, <1>2
    <2> QED BY <1>1, <2>1
  <1>4. UNCHANGED <<host, ingestOpen, vaultList, vaultPick, ingestOpens, subs, ingested, pending>> /\ rowEdits' \in Nat
    BY <1>0 DEF Ingest!SameButRows, Ingest!QueueEdit
  <1>5. \A i \in DOMAIN queue' : HasFile(queue[i])'
    BY <1>0, <1>1, <1>2, <1>4 DEF HasFile
  <1> QED BY <1>0, <1>3, <1>4, <1>5, QueueChanged

LEMMA LinkAdded == ASSUME IngestInv, NEW u \in Links, Ingest!AddUrl(u) PROVE IngestInv'
  <1> DEFINE row == Ingest!UrlRow(u, rowEdits)
  <1>0. /\ queue \in Seq(QueueRows) /\ rowEdits \in Nat /\ pending \in FileMaps
        /\ \A i \in DOMAIN queue : HasFile(queue[i])
    BY DEF IngestInv, IngestTypes
  <1>1. row \in QueueRows /\ row.url = u /\ u # None
    BY <1>0, IngestAssumption DEF Ingest!UrlRow, QueueRows
  <1>2. queue' = Append(queue, row)
    BY DEF Ingest!AddUrl
  <1> HIDE DEF row
  <1>3. PICK r : r = row
    OBVIOUS
  <1>4. /\ queue' \in Seq(QueueRows) /\ DOMAIN queue' = DOMAIN queue \cup {Len(queue) + 1}
        /\ \A i \in DOMAIN queue : queue'[i] = queue[i]
        /\ queue'[Len(queue) + 1] = r
    BY <1>0, <1>1, <1>2, <1>3, AppendProperties
  <1>5. /\ UNCHANGED <<host, ingestOpen, vaultList, vaultPick, ingestOpens, subs, ingested, pending>>
        /\ rowEdits' \in Nat
    BY <1>0 DEF Ingest!AddUrl, Ingest!QueueEdit
  <1>6. \A i \in DOMAIN queue' : HasFile(queue[i])'
    BY <1>0, <1>1, <1>3, <1>4, <1>5 DEF HasFile
  <1> QED BY <1>0, <1>4, <1>5, <1>6, QueueChanged

LEMMA FileAdded ==
    ASSUME IngestInv, NEW n \in FileNames, NEW c \in FileContents, Ingest!AddFile(n, c)
    PROVE  IngestInv'
  <1> DEFINE row == Ingest!FileRow(n, Len(queue))
  <1>0. /\ queue \in Seq(QueueRows) /\ rowEdits \in Nat /\ pending \in FileMaps /\ Len(queue) \in Nat
        /\ \A i \in DOMAIN queue : HasFile(queue[i])
    BY DEF IngestInv, IngestTypes
  <1>1. row \in QueueRows /\ row.id[3] = n
    BY <1>0, IngestAssumption DEF Ingest!FileRow, QueueRows
  <1>2. queue' = Append(queue, row)
    BY DEF Ingest!AddFile
  <1> HIDE DEF row
  <1>3. PICK r : r = row
    OBVIOUS
  <1>4. /\ queue' \in Seq(QueueRows) /\ DOMAIN queue' = DOMAIN queue \cup {Len(queue) + 1}
        /\ \A i \in DOMAIN queue : queue'[i] = queue[i]
        /\ queue'[Len(queue) + 1] = r
    BY <1>0, <1>1, <1>2, <1>3, AppendProperties
  <1>5. /\ UNCHANGED <<host, ingestOpen, vaultList, vaultPick, ingestOpens, subs, ingested>>
        /\ rowEdits' \in Nat /\ pending' = [pending EXCEPT ![n] = c]
    BY <1>0 DEF Ingest!AddFile, Ingest!QueueEdit
  <1>6. pending' \in FileMaps /\ pending'[n] # None /\ \A m \in FileNames : pending[m] # None => pending'[m] # None
    BY <1>0, <1>5, IngestAssumption DEF FileMaps
  <1>7. \A i \in DOMAIN queue' : HasFile(queue[i])'
    BY <1>0, <1>1, <1>3, <1>4, <1>5, <1>6 DEF HasFile
  <1> QED BY <1>0, <1>4, <1>5, <1>6, <1>7, QueueChanged

LEMMA RowsRemoved == ASSUME IngestInv, NEW ids, Ingest!RemoveRows(ids) PROVE IngestInv'
  <1>0. /\ queue \in Seq(QueueRows) /\ rowEdits \in Nat /\ pending \in FileMaps /\ Len(queue) \in Nat
        /\ \A i \in DOMAIN queue : HasFile(queue[i]) /\ queue[i] \in QueueRows
    BY DEF IngestInv, IngestTypes
  <1>1. PICK n \in 0..Len(queue) : \E keep \in [1..n -> DOMAIN queue] : queue' = [i \in 1..n |-> queue[keep[i]]]
    BY DEF Ingest!RemoveRows
  <1>2. n \in Nat /\ DOMAIN queue' = 1..n /\ \A i \in 1..n : queue'[i] \in QueueRows /\ HasFile(queue'[i])
    BY <1>0, <1>1
  <1>3. queue' \in Seq(QueueRows)
    BY <1>1, <1>2
  <1>4. /\ UNCHANGED <<host, ingestOpen, vaultList, vaultPick, ingestOpens, subs, ingested, pending>>
        /\ rowEdits' \in Nat
    BY <1>0 DEF Ingest!RemoveRows, Ingest!QueueEdit, Ingest!SameButRows
  <1>5. \A i \in DOMAIN queue' : HasFile(queue[i])'
    BY <1>2, <1>4 DEF HasFile
  <1> QED BY <1>0, <1>3, <1>4, <1>5, QueueChanged

LEMMA QueueSteps == ASSUME IngestInv, Ingest!QueueStep PROVE IngestInv'
  <1>0. /\ queue \in Seq(QueueRows) /\ rowEdits \in Nat /\ pending \in FileMaps
        /\ \A i \in DOMAIN queue : queue[i] \in QueueRows /\ HasFile(queue[i])
    BY DEF IngestInv, IngestTypes
  <1>1. ASSUME NEW u \in Links, Ingest!AddUrl(u) PROVE IngestInv'
    BY <1>1, LinkAdded
  <1>2. ASSUME NEW n \in FileNames, NEW c \in FileContents, Ingest!AddFile(n, c) PROVE IngestInv'
    BY <1>2, FileAdded
  <1>3. ASSUME NEW i \in DOMAIN queue, NEW n \in FileNames, Ingest!Rename(i, n) PROVE IngestInv'
    BY <1>3, RowsChanged DEF Ingest!Rename
  <1>4. ASSUME NEW i \in DOMAIN queue, NEW g \in FileTags, Ingest!ToggleTag(i, g) PROVE IngestInv'
    <2> DEFINE v == IF g \in queue[i].tags THEN queue[i].tags \ {g} ELSE queue[i].tags \cup {g}
    <2>1. v \in SUBSET FileTags
      BY <1>0 DEF QueueRows
    <2>2. queue' = Ingest!Change(queue[i].id, "tags", v) /\ Ingest!QueueEdit /\ Ingest!SameButRows
      BY <1>4 DEF Ingest!ToggleTag
    <2> HIDE DEF v
    <2> QED BY <2>1, <2>2, RowsChanged
  <1>5. ASSUME NEW i \in DOMAIN queue, NEW m \in IngestModes, Ingest!SetMode(i, m) PROVE IngestInv'
    BY <1>5, RowsChanged DEF Ingest!SetMode
  <1>6. ASSUME Ingest!QueueEdit, Ingest!SameButRows, queue' = queue PROVE IngestInv'
    <2>1. \A i \in DOMAIN queue' : HasFile(queue[i])'
      BY <1>0, <1>6 DEF HasFile, Ingest!SameButRows
    <2> QED BY <1>0, <1>6, <2>1, QueueChanged DEF Ingest!QueueEdit, Ingest!SameButRows
  <1>7. ASSUME NEW i \in DOMAIN queue, Ingest!ToggleRow(i) PROVE IngestInv'
    BY <1>6, <1>7 DEF Ingest!ToggleRow
  <1>8. CASE Ingest!ToggleAll
    BY <1>6, <1>8 DEF Ingest!ToggleAll
  <1>9. ASSUME NEW m \in IngestModes, Ingest!Bulk("mode", m) PROVE IngestInv'
    BY <1>9, RowsChanged DEF Ingest!Bulk
  <1>10. ASSUME NEW g \in FileTags, Ingest!Bulk("tags", {g}) PROVE IngestInv'
    BY <1>10, RowsChanged DEF Ingest!Bulk
  <1>11. ASSUME NEW ids, Ingest!RemoveRows(ids) PROVE IngestInv'
    BY <1>11, RowsRemoved
  <1> QED BY <1>1, <1>2, <1>3, <1>4, <1>5, <1>7, <1>8, <1>9, <1>10, <1>11 DEF Ingest!QueueStep

LEMMA ModalOpens == ASSUME IngestInv, Ingest!OpenIngest PROVE IngestInv'
  <1>0. ingestOpens \in Nat /\ subs \in Seq(Subs)
    BY DEF IngestInv, IngestTypes
  <1>1. /\ ingestOpens' = ingestOpens + 1 /\ queue' = <<>> /\ pending' = [n \in FileNames |-> None]
        /\ ingestOpen' = TRUE /\ (vaultPick' = None \/ vaultPick' = vaultPick)
        /\ UNCHANGED <<host, vaultList, rowEdits, subs, ingested>>
    BY DEF Ingest!OpenIngest, Ingest!NoFiles
  <1>2. pending' \in FileMaps
    BY <1>1 DEF FileMaps
  <1>3. IngestTypes'
    BY <1>0, <1>1, <1>2, EmptySeq DEF IngestInv, IngestTypes
  <1>4. \A s \in DOMAIN subs : SubFits(s)'
    <2>1. ingestOpens' \in Nat /\ ingestOpens' > ingestOpens /\ host' = host /\ ingested \subseteq ingested'
      BY <1>0, <1>1
    <2>2. \A s \in DOMAIN subs : subs'[s] = subs[s]
      BY <1>1
    <2> QED BY <2>1, <2>2, ClickUntouched
  <1> QED BY <1>1, <1>3, <1>4 DEF IngestInv

LEMMA VaultsMove ==
    ASSUME IngestInv,
           \/ \E v \in IngestVaults : Ingest!PickVault(v)
           \/ \E list \in {<<>>} \cup {<<v>> : v \in IngestVaults} : Ingest!VaultsChange(list)
    PROVE  IngestInv'
  <1>1. /\ UNCHANGED <<host, ingestOpen, queue, pending, ingestOpens, subs, ingested>>
        /\ vaultPick' \in IngestVaults \cup {None} /\ rowEdits' \in Nat
    BY DEF Ingest!PickVault, Ingest!VaultsChange, IngestInv, IngestTypes
  <1>2. vaultList' \in Seq(IngestVaults)
    <2>1. vaultList' = vaultList \/ vaultList' = <<>> \/ \E v \in IngestVaults : vaultList' = <<v>>
      BY DEF Ingest!PickVault, Ingest!VaultsChange
    <2>2. \A v \in IngestVaults : <<v>> \in Seq(IngestVaults)
      OBVIOUS
    <2> QED BY <2>1, <2>2, EmptySeq DEF IngestInv, IngestTypes
  <1>3. IngestTypes'
    BY <1>1, <1>2 DEF IngestInv, IngestTypes
  <1>4. \A s \in DOMAIN subs : SubFits(s)'
    BY <1>1, ClickUntouched DEF IngestInv, IngestTypes
  <1>5. \A i \in DOMAIN queue' : HasFile(queue[i])'
    BY <1>1 DEF IngestInv, HasFile
  <1> QED BY <1>1, <1>3, <1>4, <1>5 DEF IngestInv

\* The click itself, with the queue and the vault of its moment.
LEMMA ClickSubmits == ASSUME IngestInv, Ingest!Submit PROVE IngestInv'
  <1>0. /\ IngestTypes /\ queue \in Seq(QueueRows) /\ pending \in FileMaps /\ subs \in Seq(Subs) /\ ingestOpens \in Nat
        /\ vaultList \in Seq(IngestVaults) /\ vaultPick \in IngestVaults \cup {None}
        /\ \A i \in DOMAIN queue : HasFile(queue[i]) /\ queue[i] \in QueueRows
        /\ UNCHANGED <<host, ingestOpen, vaultList, vaultPick, queue, pending, ingestOpens, rowEdits, ingested>>
    BY DEF IngestInv, IngestTypes, Ingest!Submit
  <1>1. \A i \in DOMAIN queue' : HasFile(queue[i])'
    BY <1>0 DEF HasFile
  <1>2. CASE subs' = subs
    <2>1. \A s \in DOMAIN subs : SubFits(s)'
      BY <1>0, <1>2, ClickUntouched
    <2>2. IngestTypes'
      BY <1>0, <1>2 DEF IngestTypes
    <2> QED BY <1>1, <1>2, <2>1, <2>2 DEF IngestInv
  <1>3. CASE subs' = Append(subs, Ingest!NewSub)
    <2> DEFINE v == Ingest!ActiveVault
               l == {i \in DOMAIN queue : queue[i].url # None}
    <2>1. v \in IngestVaults \cup {None}
      BY <1>0 DEF Ingest!ActiveVault
    <2>2. l \in SUBSET Nat /\ \A i \in DOMAIN queue : queue[i].url # None => i \in l
      BY <1>0
    <2>3. PICK d : d = Ingest!NewSub
      OBVIOUS
    <2>4. Ingest!NoFiles \in FileMaps
      BY DEF Ingest!NoFiles, FileMaps
    <2>5. d = [rows |-> queue, vault |-> v, opened |-> ingestOpens, stage |-> "links", links |-> l,
               files |-> {}, map |-> Ingest!NoFiles, failed |-> FALSE, reopened |-> FALSE]
      BY <2>3 DEF Ingest!NewSub
    <2> HIDE DEF v, l
    <2>6. d \in Subs /\ d.rows = queue /\ d.opened = ingestOpens /\ d.stage = "links" /\ d.links = l
      BY <1>0, <2>1, <2>2, <2>4, <2>5 DEF Subs
    <2>7. PICK t : /\ subs' \in Seq(Subs) /\ DOMAIN subs' = DOMAIN subs \cup {t}
                   /\ \A s \in DOMAIN subs : subs'[s] = subs[s]
                   /\ subs'[t] = d
      BY <1>0, <1>3, <2>3, <2>6, AppendProperties
    <2>8. \A s \in DOMAIN subs : SubFits(s)'
      BY <1>0, <2>7, ClickUntouched
    <2>9. SubFits(t)'
      <3>1. subs'[t].opened <= ingestOpens' /\ ingestOpen
        BY <1>0, <2>6, <2>7 DEF Ingest!Submit
      <3>2. LinksFit(t)'
        BY <1>0, <2>2, <2>6, <2>7, <3>1 DEF LinksFit, HasFile, Ingest!SameModal
      <3> QED BY <2>6, <2>7, <3>1, <3>2 DEF SubFits
    <2>10. IngestTypes'
      BY <1>0, <2>7 DEF IngestTypes
    <2> QED BY <1>1, <2>7, <2>8, <2>9, <2>10 DEF IngestInv
  <1> QED BY <1>2, <1>3 DEF Ingest!Submit

\* The map a submission of a page that unmounts takes with it.
LEMMA MapsKept ==
    ASSUME IngestInv
    PROVE  /\ Ingest!Orphaned \in Seq(Subs) /\ DOMAIN Ingest!Orphaned = DOMAIN subs
           /\ \A s \in DOMAIN subs :
                /\ Ingest!Orphaned[s] \in Subs
                /\ \E m \in FileMaps : Ingest!Orphaned[s] = [subs[s] EXCEPT !.map = m]
                /\ (host = "home" /\ subs[s].opened = ingestOpens) => Ingest!Orphaned[s].map = pending
  <1>0. subs \in Seq(Subs) /\ pending \in FileMaps /\ \A s \in DOMAIN subs : subs[s] \in Subs
    BY DEF IngestInv, IngestTypes
  <1>1. DOMAIN Ingest!Orphaned = DOMAIN subs
    BY DEF Ingest!Orphaned
  <1>2. ASSUME NEW s \in DOMAIN subs
        PROVE  /\ Ingest!Orphaned[s] \in Subs
               /\ \E m \in FileMaps : Ingest!Orphaned[s] = [subs[s] EXCEPT !.map = m]
               /\ (host = "home" /\ subs[s].opened = ingestOpens) => Ingest!Orphaned[s].map = pending
    <2>1. PICK d : d = subs[s]
      OBVIOUS
    <2>2. d \in Subs /\ d.map \in FileMaps /\ d = [d EXCEPT !.map = d.map]
      BY <1>0, <2>1 DEF Subs
    <2>3. PICK m \in FileMaps : Ingest!Orphaned[s] = [d EXCEPT !.map = m]
            /\ ((host = "home" /\ d.opened = ingestOpens) => m = pending)
      BY <1>0, <2>1, <2>2 DEF Ingest!Orphaned
    <2>4. PICK e : e = [d EXCEPT !.map = m]
      OBVIOUS
    <2>5. e \in Subs /\ e.map = m
      BY <2>2, <2>4 DEF Subs
    <2> QED BY <2>1, <2>3, <2>4, <2>5
  <1>3. Ingest!Orphaned \in Seq(Subs)
    <2>1. Ingest!Orphaned = [s \in 1..Len(subs) |-> Ingest!Orphaned[s]] /\ Len(subs) \in Nat
      BY <1>0 DEF Ingest!Orphaned
    <2>2. \A s \in 1..Len(subs) : Ingest!Orphaned[s] \in Subs
      BY <1>0, <1>2
    <2> QED BY <2>1, <2>2
  <1> QED BY <1>1, <1>2, <1>3

\* A click keeps what is known of it when the modal closes, with its map.
LEMMA ClickOrphaned ==
    ASSUME IngestInv, NEW s \in DOMAIN subs, NEW m \in FileMaps,
           subs'[s] = [subs[s] EXCEPT !.map = m],
           (host = "home" /\ subs[s].opened = ingestOpens) => m = pending,
           ingestOpen' = FALSE, UNCHANGED <<host, pending, ingestOpens, ingested>>
    PROVE  SubFits(s)'
  <1>0. SubFits(s) /\ subs[s] \in Subs /\ ingestOpens \in Nat
    BY DEF IngestInv, IngestTypes
  <1>1. /\ subs'[s].rows = subs[s].rows /\ subs'[s].opened = subs[s].opened /\ subs'[s].stage = subs[s].stage
        /\ subs'[s].links = subs[s].links /\ subs'[s].files = subs[s].files /\ subs'[s].failed = subs[s].failed
        /\ subs'[s].reopened = subs[s].reopened /\ subs'[s].map = m
    BY <1>0 DEF Subs
  <1>2. \A i : (Ingest!Stored(s, i) => Ingest!Stored(s, i)') /\ (Ingest!Plain(s, i)' <=> Ingest!Plain(s, i))
    BY <1>1, StoredStays
  <1>3. subs[s].stage = "links" => LinksFit(s)'
    <2> SUFFICES ASSUME subs[s].stage = "links" PROVE LinksFit(s)'
      OBVIOUS
    <2>0. LinksFit(s)
      BY <1>0 DEF SubFits
    <2>1. \A i \in DOMAIN subs[s].rows :
            subs[s].rows[i].url # None => i \in subs'[s].links \/ subs'[s].failed \/ Ingest!Stored(s, i)'
      BY <1>1, <1>2, <2>0 DEF LinksFit
    <2>2. ASSUME subs[s].opened = ingestOpens, NEW i \in DOMAIN subs[s].rows
          PROVE  /\ HasFile(subs[s].rows[i])
                 /\ subs[s].rows[i].url = None => host = "sources" \/ m[subs[s].rows[i].id[3]] # None
      <3>1. HasFile(subs[s].rows[i])
        BY <2>0, <2>2 DEF LinksFit
      <3>3. CASE host = "home"
        BY <2>2, <3>1, <3>3 DEF HasFile
      <3>4. CASE host # "home"
        BY <3>1, <3>4 DEF IngestInv, IngestTypes
      <3> QED BY <3>3, <3>4
    <2>3. ASSUME subs'[s].opened = ingestOpens', NEW i \in DOMAIN subs'[s].rows
          PROVE  /\ HasFile(subs[s].rows[i])'
                 /\ subs'[s].rows[i].url = None => Ingest!SameModal(s)' \/ subs'[s].map[subs'[s].rows[i].id[3]] # None
      BY <1>1, <2>2, <2>3 DEF HasFile, Ingest!SameModal
    <2> QED BY <1>1, <2>1, <2>3 DEF LinksFit
  <1>4. subs[s].stage = "files" => FilesFit(s)'
    BY <1>0, <1>1, <1>2 DEF SubFits, FilesFit
  <1>5. subs[s].stage = "done" => RowsIngested(s)'
    BY <1>0, <1>1, <1>2 DEF SubFits, RowsIngested
  <1> QED BY <1>0, <1>1, <1>3, <1>4, <1>5 DEF SubFits

LEMMA ModalCloses == ASSUME IngestInv, Ingest!CloseIngest PROVE IngestInv'
  <1>0. /\ subs' = Ingest!Orphaned /\ ingestOpen' = FALSE
        /\ UNCHANGED <<host, vaultList, vaultPick, queue, pending, ingestOpens, rowEdits, ingested>>
    BY DEF Ingest!CloseIngest
  <1>1. /\ subs' \in Seq(Subs) /\ DOMAIN subs' = DOMAIN subs
    BY <1>0, MapsKept
  <1>2. ASSUME NEW s \in DOMAIN subs PROVE SubFits(s)'
    <2>1. PICK m \in FileMaps : subs'[s] = [subs[s] EXCEPT !.map = m]
      BY <1>0, MapsKept
    <2>2. subs'[s].map = m
      BY <2>1 DEF IngestInv, IngestTypes, Subs
    <2>3. (host = "home" /\ subs[s].opened = ingestOpens) => m = pending
      BY <1>0, <2>2, MapsKept
    <2> QED BY <1>0, <2>1, <2>3, ClickOrphaned
  <1>3. IngestTypes' /\ \A i \in DOMAIN queue' : HasFile(queue[i])'
    BY <1>0, <1>1 DEF IngestInv, IngestTypes, HasFile
  <1> QED BY <1>1, <1>2, <1>3 DEF IngestInv

\* One submission moves on: the others keep what is known of them.
LEMMA OneMoves ==
    ASSUME IngestInv, NEW s \in DOMAIN subs, NEW d, d \in Subs, subs' = [subs EXCEPT ![s] = d],
           ingested \subseteq ingested',
           UNCHANGED <<host, ingestOpen, vaultList, vaultPick, queue, pending, ingestOpens, rowEdits>>,
           SubFits(s)'
    PROVE  IngestInv'
  <1>1. /\ subs' \in Seq(Subs) /\ DOMAIN subs' = DOMAIN subs
        /\ \A t \in DOMAIN subs : t # s => subs'[t] = subs[t]
    BY ExceptSeq DEF IngestInv, IngestTypes
  <1>2. IngestTypes' /\ \A i \in DOMAIN queue' : HasFile(queue[i])'
    BY <1>1 DEF IngestInv, IngestTypes, HasFile
  <1>3. \A t \in DOMAIN subs : t # s => SubFits(t)'
    BY <1>1, ClickUntouched DEF IngestInv, IngestTypes
  <1> QED BY <1>1, <1>2, <1>3 DEF IngestInv

\* A call that went well made the source with every tag it was given.
LEMMA OutcomeFits ==
    ASSUME NEW tags, NEW o \in Ingest!Outcomes(tags)
    PROVE  o.ok \in BOOLEAN /\ (o.ok => o.made /\ o.tags = tags)
  <1>1. CASE o = [made |-> FALSE, tags |-> {}, ok |-> FALSE]
    BY <1>1
  <1>2. CASE o = [made |-> TRUE, tags |-> tags, ok |-> TRUE]
    BY <1>2
  <1>3. ASSUME NEW T \in SUBSET tags, o = [made |-> TRUE, tags |-> T, ok |-> FALSE]
        PROVE  o.ok \in BOOLEAN /\ (o.ok => o.made /\ o.tags = tags)
    BY <1>3
  <1> QED BY <1>1, <1>2, <1>3 DEF Ingest!Outcomes

LEMMA LinkUploaded ==
    ASSUME IngestInv, NEW s \in DOMAIN subs, NEW i \in subs[s].links, Ingest!LinkSettles(s, i)
    PROVE  IngestInv'
  <1> DEFINE r == subs[s].rows[i]
  <1>0. /\ SubFits(s) /\ subs[s] \in Subs /\ subs \in Seq(Subs) /\ ingestOpens \in Nat /\ subs[s].stage = "links"
        /\ UNCHANGED <<host, ingestOpen, vaultList, vaultPick, queue, pending, ingestOpens, rowEdits>>
    BY DEF IngestInv, IngestTypes, Ingest!LinkSettles, Ingest!ingestView
  <1>1. PICK o \in Ingest!Outcomes(r.tags) :
          /\ ingested' = IF o.made THEN ingested \cup {Ingest!Source(s, r.url, None, r.mode, o.tags)} ELSE ingested
          /\ subs' = [subs EXCEPT ![s].links = @ \ {i}, ![s].failed = @ \/ ~o.ok]
    BY DEF Ingest!LinkSettles
  <1>2. o.ok \in BOOLEAN /\ (o.ok => o.made /\ o.tags = r.tags)
    BY OutcomeFits
  <1>3. PICK f \in BOOLEAN : f = (subs[s].failed \/ ~o.ok)
    OBVIOUS
  <1>4. PICK l \in SUBSET Nat : l = subs[s].links \ {i}
    BY <1>0 DEF Subs
  <1>5. PICK d : d = [subs[s] EXCEPT !.links = l, !.failed = f]
    OBVIOUS
  <1>6. subs' = [subs EXCEPT ![s] = d]
    BY <1>1, <1>3, <1>4, <1>5
  <1>7. /\ d \in Subs /\ d.rows = subs[s].rows /\ d.opened = subs[s].opened /\ d.stage = "links"
        /\ d.links = l /\ d.failed = f /\ d.map = subs[s].map
    BY <1>0, <1>3, <1>4, <1>5 DEF Subs
  <1>8. subs'[s] = d
    BY <1>0, <1>6
  <1>9. ingested \subseteq ingested'
    BY <1>1
  <1>10. \A j : Ingest!Stored(s, j) => Ingest!Stored(s, j)'
    BY <1>7, <1>8, <1>9, StoredStays
  <1>11. r.url # None /\ o.ok => Ingest!Stored(s, i)'
    <2> SUFFICES ASSUME r.url # None, o.ok PROVE Ingest!Stored(s, i)'
      OBVIOUS
    <2>1. PICK g : g = Ingest!Source(s, r.url, None, r.mode, o.tags)
      OBVIOUS
    <2>2. g \in ingested'
      BY <1>1, <1>2, <2>1
    <2>3. g.sub = s /\ g.item = r.url /\ g.mode = r.mode /\ g.tags = r.tags
      BY <1>2, <2>1 DEF Ingest!Source
    <2> QED BY <1>7, <1>8, <2>2, <2>3 DEF Ingest!Stored
  <1>12. LinksFit(s)'
    <2>0. LinksFit(s)
      BY <1>0 DEF SubFits
    <2>1. ASSUME NEW j \in DOMAIN subs[s].rows, subs[s].rows[j].url # None
          PROVE  j \in l \/ f \/ Ingest!Stored(s, j)'
      <3>1. CASE j = i
        BY <1>3, <1>11, <2>1, <3>1
      <3>2. CASE j # i
        BY <1>3, <1>4, <1>10, <2>0, <2>1, <3>2 DEF LinksFit
      <3> QED BY <3>1, <3>2
    <2>2. ASSUME subs'[s].opened = ingestOpens', NEW j \in DOMAIN subs'[s].rows
          PROVE  /\ HasFile(subs[s].rows[j])'
                 /\ subs'[s].rows[j].url = None => Ingest!SameModal(s)' \/ subs'[s].map[subs'[s].rows[j].id[3]] # None
      BY <1>0, <1>7, <1>8, <2>0, <2>2 DEF LinksFit, HasFile, Ingest!SameModal
    <2> QED BY <1>7, <1>8, <2>1, <2>2 DEF LinksFit
  <1>13. SubFits(s)'
    BY <1>0, <1>7, <1>8, <1>12 DEF SubFits
  <1> QED BY <1>0, <1>6, <1>7, <1>9, <1>13, OneMoves

LEMMA FilesBegun == ASSUME IngestInv, NEW s \in DOMAIN subs, Ingest!FilesBegin(s) PROVE IngestInv'
  <1>0. /\ SubFits(s) /\ subs[s] \in Subs /\ subs \in Seq(Subs) /\ ingestOpens \in Nat /\ subs[s].stage = "links"
        /\ subs[s].links = {} /\ pending \in FileMaps
        /\ UNCHANGED <<host, ingestOpen, vaultList, vaultPick, queue, pending, ingestOpens, rowEdits, ingested>>
    BY DEF IngestInv, IngestTypes, Ingest!FilesBegin, Ingest!ingestView
  <1>1. PICK m : m = IF Ingest!SameModal(s) THEN pending ELSE subs[s].map
    OBVIOUS
  <1>2. m \in FileMaps
    BY <1>0, <1>1 DEF Subs
  <1>3. PICK b \in BOOLEAN : b = (subs[s].opened # ingestOpens)
    OBVIOUS
  <1>4. PICK f \in SUBSET FileNames : f = {n \in FileNames : m[n] # None}
    OBVIOUS
  <1>5. PICK d : d = [subs[s] EXCEPT !.stage = "files", !.map = m, !.files = f, !.reopened = b]
    OBVIOUS
  <1>6. subs' = [subs EXCEPT ![s] = d]
    BY <1>1, <1>3, <1>4, <1>5 DEF Ingest!FilesBegin
  <1>7. /\ d \in Subs /\ d.rows = subs[s].rows /\ d.opened = subs[s].opened /\ d.stage = "files"
        /\ d.files = f /\ d.failed = subs[s].failed /\ d.reopened = b
    BY <1>0, <1>2, <1>3, <1>4, <1>5 DEF Subs
  <1>8. subs'[s] = d
    BY <1>0, <1>6
  <1>9. \A i : (Ingest!Stored(s, i) => Ingest!Stored(s, i)') /\ (Ingest!Plain(s, i)' <=> Ingest!Plain(s, i))
    BY <1>0, <1>7, <1>8, StoredStays
  <1>10. FilesFit(s)'
    <2>0. LinksFit(s)
      BY <1>0 DEF SubFits
    <2>1. ASSUME NEW i \in DOMAIN subs[s].rows
          PROVE  \/ Ingest!Stored(s, i) \/ subs[s].failed
                 \/ subs[s].rows[i].url = None /\ (b \/ ~Ingest!Plain(s, i) \/ subs[s].rows[i].name \in f)
      <3>1. CASE subs[s].rows[i].url # None
        BY <1>0, <2>0, <2>1, <3>1 DEF LinksFit
      <3>2. CASE subs[s].rows[i].url = None /\ ~b /\ Ingest!Plain(s, i)
        <4>1. /\ HasFile(subs[s].rows[i])
              /\ Ingest!SameModal(s) \/ subs[s].map[subs[s].rows[i].id[3]] # None
          BY <1>3, <2>0, <2>1, <3>2 DEF LinksFit
        <4>2. subs[s].rows[i].id[3] = subs[s].rows[i].name
          BY <3>2 DEF Ingest!Plain
        <4>3. subs[s].rows[i].name \in FileNames /\ m[subs[s].rows[i].name] # None
          BY <1>1, <3>2, <4>1, <4>2 DEF HasFile
        <4> QED BY <1>4, <3>2, <4>3
      <3> QED BY <3>1, <3>2
    <2> QED BY <1>7, <1>8, <1>9, <2>1 DEF FilesFit
  <1>11. SubFits(s)'
    BY <1>0, <1>7, <1>8, <1>10 DEF SubFits
  <1> QED BY <1>0, <1>6, <1>7, <1>11, OneMoves

\* The only row of a file's name gives it the mode and the tags.
LEMMA RowFound ==
    ASSUME NEW s, subs[s] \in Subs, NEW i \in DOMAIN subs[s].rows, subs[s].rows[i].url = None, Ingest!Plain(s, i)
    PROVE  Ingest!RowOf(s, subs[s].rows[i].name) = subs[s].rows[i]
  <1> DEFINE n == subs[s].rows[i].name
             I == {j \in DOMAIN subs[s].rows : subs[s].rows[j].url = None /\ subs[s].rows[j].name = n}
  <1>1. I = {i}
    BY DEF Ingest!Plain
  <1>2. i \in Nat /\ i <= i
    BY DEF Subs
  <1>3. (CHOOSE j \in I : \A k \in I : j <= k) = i
    BY <1>1, <1>2
  <1> QED BY <1>1, <1>3 DEF Ingest!RowOf

LEMMA FileUploaded ==
    ASSUME IngestInv, NEW s \in DOMAIN subs, NEW n \in subs[s].files, Ingest!FileSettles(s, n)
    PROVE  IngestInv'
  <1> DEFINE r == Ingest!RowOf(s, n)
  <1>0. /\ SubFits(s) /\ subs[s] \in Subs /\ subs \in Seq(Subs) /\ ingestOpens \in Nat /\ subs[s].stage = "files"
        /\ UNCHANGED <<host, ingestOpen, vaultList, vaultPick, queue, pending, ingestOpens, rowEdits>>
    BY DEF IngestInv, IngestTypes, Ingest!FileSettles, Ingest!ingestView
  <1>1. PICK o \in Ingest!Outcomes(r.tags) :
          /\ ingested' = IF o.made THEN ingested \cup {Ingest!Source(s, n, subs[s].map[n], r.mode, o.tags)} ELSE ingested
          /\ subs' = [subs EXCEPT ![s].files = @ \ {n}, ![s].failed = @ \/ ~o.ok]
    BY DEF Ingest!FileSettles
  <1>2. o.ok \in BOOLEAN /\ (o.ok => o.made /\ o.tags = r.tags)
    BY OutcomeFits
  <1>3. PICK f \in BOOLEAN : f = (subs[s].failed \/ ~o.ok)
    OBVIOUS
  <1>4. PICK l \in SUBSET FileNames : l = subs[s].files \ {n}
    BY <1>0 DEF Subs
  <1>5. PICK d : d = [subs[s] EXCEPT !.files = l, !.failed = f]
    OBVIOUS
  <1>6. subs' = [subs EXCEPT ![s] = d]
    BY <1>1, <1>3, <1>4, <1>5
  <1>7. /\ d \in Subs /\ d.rows = subs[s].rows /\ d.opened = subs[s].opened /\ d.stage = "files"
        /\ d.files = l /\ d.failed = f /\ d.reopened = subs[s].reopened
    BY <1>0, <1>3, <1>4, <1>5 DEF Subs
  <1>8. subs'[s] = d
    BY <1>0, <1>6
  <1>9. ingested \subseteq ingested'
    BY <1>1
  <1>10. \A j : (Ingest!Stored(s, j) => Ingest!Stored(s, j)') /\ (Ingest!Plain(s, j)' <=> Ingest!Plain(s, j))
    BY <1>7, <1>8, <1>9, StoredStays
  <1>11. ASSUME NEW j \in DOMAIN subs[s].rows, subs[s].rows[j].url = None, subs[s].rows[j].name = n,
                Ingest!Plain(s, j), o.ok
         PROVE  Ingest!Stored(s, j)'
    <2>1. r = subs[s].rows[j]
      BY <1>0, <1>11, RowFound
    <2>2. PICK g : g = Ingest!Source(s, n, subs[s].map[n], r.mode, o.tags)
      OBVIOUS
    <2>3. g \in ingested'
      BY <1>1, <1>2, <1>11, <2>2
    <2>4. g.sub = s /\ g.item = n /\ g.mode = r.mode /\ g.tags = r.tags
      BY <1>2, <1>11, <2>2 DEF Ingest!Source
    <2> QED BY <1>7, <1>8, <1>11, <2>1, <2>3, <2>4 DEF Ingest!Stored
  <1>12. FilesFit(s)'
    <2>0. FilesFit(s)
      BY <1>0 DEF SubFits
    <2>1. ASSUME NEW j \in DOMAIN subs[s].rows
          PROVE  \/ Ingest!Stored(s, j)' \/ f
                 \/ subs[s].rows[j].url = None
                      /\ (subs[s].reopened \/ ~Ingest!Plain(s, j) \/ subs[s].rows[j].name \in l)
      <3>1. CASE Ingest!Stored(s, j) \/ subs[s].failed \/ ~o.ok
        BY <1>3, <1>10, <3>1
      <3>2. CASE subs[s].rows[j].url = None /\ (subs[s].reopened \/ ~Ingest!Plain(s, j))
        BY <3>2
      <3>3. CASE /\ subs[s].rows[j].url = None /\ Ingest!Plain(s, j)
                 /\ subs[s].rows[j].name \in subs[s].files /\ o.ok
        BY <1>4, <1>11, <2>1, <3>3
      <3> QED BY <1>2, <2>0, <2>1, <3>1, <3>2, <3>3 DEF FilesFit
    <2> QED BY <1>7, <1>8, <1>10, <2>1 DEF FilesFit
  <1>13. SubFits(s)'
    BY <1>0, <1>7, <1>8, <1>12 DEF SubFits
  <1> QED BY <1>0, <1>6, <1>7, <1>9, <1>13, OneMoves

LEMMA SubmissionEnds == ASSUME IngestInv, NEW s \in DOMAIN subs, Ingest!Finish(s) PROVE IngestInv'
  <1>0. /\ SubFits(s) /\ subs[s] \in Subs /\ subs \in Seq(Subs) /\ ingestOpens \in Nat /\ subs[s].stage = "files"
        /\ subs[s].files = {}
        /\ UNCHANGED <<host, vaultList, vaultPick, queue, pending, ingestOpens, rowEdits, ingested>>
    BY DEF IngestInv, IngestTypes, Ingest!Finish
  <1>1. CASE /\ subs' = [subs EXCEPT ![s].stage = "failed"] /\ UNCHANGED ingestOpen
    <2>1. PICK d : d = [subs[s] EXCEPT !.stage = "failed"]
      OBVIOUS
    <2>2. d \in Subs /\ d.opened = subs[s].opened /\ d.stage = "failed"
      BY <1>0, <2>1 DEF Subs
    <2>3. subs' = [subs EXCEPT ![s] = d] /\ subs'[s] = d
      BY <1>0, <1>1, <2>1
    <2>4. SubFits(s)'
      BY <1>0, <2>2, <2>3 DEF SubFits
    <2> QED BY <1>0, <1>1, <2>2, <2>3, <2>4, OneMoves
  <1>2. CASE /\ ~subs[s].failed /\ ingestOpen' = FALSE /\ subs' = [Ingest!Orphaned EXCEPT ![s].stage = "done"]
    <2>1. PICK o : o = Ingest!Orphaned
      OBVIOUS
    <2>2. /\ o \in Seq(Subs) /\ DOMAIN o = DOMAIN subs /\ o[s] \in Subs
          /\ \A t \in DOMAIN subs : \E m \in FileMaps : o[t] = [subs[t] EXCEPT !.map = m]
          /\ \A t \in DOMAIN subs : (host = "home" /\ subs[t].opened = ingestOpens) => o[t].map = pending
      BY <2>1, MapsKept
    <2>3. PICK d : d = [o[s] EXCEPT !.stage = "done"]
      OBVIOUS
    <2>4. PICK m \in FileMaps : o[s] = [subs[s] EXCEPT !.map = m]
      BY <2>2
    <2>5. d \in Subs /\ d.rows = subs[s].rows /\ d.opened = subs[s].opened /\ d.stage = "done" /\ d.reopened = subs[s].reopened
      BY <1>0, <2>2, <2>3, <2>4 DEF Subs
    <2>6. subs' = [o EXCEPT ![s] = d]
      BY <1>2, <2>1, <2>3
    <2>7. /\ subs' \in Seq(Subs) /\ DOMAIN subs' = DOMAIN subs /\ subs'[s] = d
          /\ \A t \in DOMAIN subs : t # s => subs'[t] = o[t]
      BY <2>2, <2>5, <2>6, ExceptSeq
    <2>8. \A i : (Ingest!Stored(s, i) => Ingest!Stored(s, i)') /\ (Ingest!Plain(s, i)' <=> Ingest!Plain(s, i))
      BY <1>0, <2>5, <2>7, StoredStays
    <2>9. FilesFit(s)
      BY <1>0 DEF SubFits
    <2>10. RowsIngested(s)'
      BY <1>0, <1>2, <2>5, <2>7, <2>8, <2>9 DEF FilesFit, RowsIngested
    <2>11. SubFits(s)'
      BY <1>0, <2>5, <2>7, <2>10 DEF SubFits
    <2>12. ASSUME NEW t \in DOMAIN subs, t # s PROVE SubFits(t)'
      <3>1. PICK m2 \in FileMaps : o[t] = [subs[t] EXCEPT !.map = m2]
        BY <2>2
      <3>2. subs[t] \in Subs
        BY <1>0
      <3>3. o[t].map = m2
        BY <3>1, <3>2 DEF Subs
      <3>4. (host = "home" /\ subs[t].opened = ingestOpens) => m2 = pending
        BY <2>2, <3>3
      <3>5. subs'[t] = [subs[t] EXCEPT !.map = m2]
        BY <2>7, <2>12, <3>1
      <3> QED BY <1>0, <1>2, <3>4, <3>5, ClickOrphaned
    <2>13. IngestTypes' /\ \A i \in DOMAIN queue' : HasFile(queue[i])'
      BY <1>0, <1>2, <2>7 DEF IngestInv, IngestTypes, HasFile
    <2> QED BY <2>7, <2>11, <2>12, <2>13 DEF IngestInv
  <1> QED BY <1>1, <1>2 DEF Ingest!Finish

LEMMA IngestStep == ASSUME IngestInv, [Ingest!IngestNext]_(Ingest!ingestVars) PROVE IngestInv'
  <1>1. CASE UNCHANGED Ingest!ingestVars
    <2>1. UNCHANGED <<host, ingestOpen, vaultList, vaultPick, queue, pending, ingestOpens, rowEdits, subs, ingested>>
      BY <1>1 DEF Ingest!ingestVars, Ingest!ingestView
    <2>2. IngestTypes' /\ \A i \in DOMAIN queue' : HasFile(queue[i])'
      BY <2>1 DEF IngestInv, IngestTypes, HasFile
    <2>3. \A s \in DOMAIN subs : SubFits(s)'
      BY <2>1, ClickUntouched DEF IngestInv, IngestTypes
    <2> QED BY <2>1, <2>2, <2>3 DEF IngestInv
  <1>2. CASE Ingest!OpenIngest
    BY <1>2, ModalOpens
  <1>3. CASE Ingest!CloseIngest
    BY <1>3, ModalCloses
  <1>4. CASE \/ \E v \in IngestVaults : Ingest!PickVault(v)
             \/ \E list \in {<<>>} \cup {<<v>> : v \in IngestVaults} : Ingest!VaultsChange(list)
    BY <1>4, VaultsMove
  <1>5. CASE Ingest!QueueStep
    BY <1>5, QueueSteps
  <1>6. CASE Ingest!Submit
    BY <1>6, ClickSubmits
  <1>7. ASSUME NEW s \in DOMAIN subs, Ingest!SubmissionStep(s) PROVE IngestInv'
    BY <1>7, LinkUploaded, FilesBegun, FileUploaded, SubmissionEnds DEF Ingest!SubmissionStep
  <1> QED BY <1>1, <1>2, <1>3, <1>4, <1>5, <1>6, <1>7 DEF Ingest!IngestNext

LEMMA IngestHolds == IngestInv => Ingest!CompletedMeansIngested
  BY DEF IngestInv, SubFits, RowsIngested, Ingest!CompletedMeansIngested
-----------------------------------------------------------------------------
(* The audit drawer. *)

LEMMA AuditPageOpens == ViewsInit /\ onPage = "audit" => Audit!AuditInit
  BY DEF ViewsInit

LEMMA AuditPageMoves ==
    ASSUME [ViewsNext]_pagesVars, onPage' = "audit"
    PROVE  onPage = "audit" /\ [Audit!AuditNext]_(Audit!auditVars)
  BY DEF ViewsNext, pagesVars, Audit!auditVars, audits, suggestions, drawerOpen, drawerTopic, drawerMoves,
     running, cards, start, stream, wire, breaks, latest, decisions

AuditRows == [topic : AuditTopics, status : {"running", "done", "failed"}]
SuggestionRows == [audit : Nat, status : {"pending", "accepted"}, writes : Nat]
CardRows == [id : Nat, state : {"pending", "accepted"}]
EventRows == [type : {"suggestion", "done", "error"}, id : Nat]
DecisionRows == [id : Nat, kind : {"accept", "dismiss"},
                 at : {"asked", "checked", "refused", "written", "accepted", "over"}]

Written(i) == suggestions[i].status = "accepted" /\ suggestions[i].writes > 0

TablesHold == audits \in Seq(AuditRows) /\ suggestions \in Seq(SuggestionRows)

\* A card stands for a suggestion of the table; one that says Applied for one that was written.
CardFits(c) == c.id \in 1..Len(suggestions) /\ (c.state = "accepted" => Written(c.id))
CardsHold == cards \in Seq(CardRows) /\ \A k \in DOMAIN cards : CardFits(cards[k])

\* What is cached of an audit was pending when it was read.
LatestHolds ==
    /\ latest \in [AuditTopics -> Seq(CardRows) \cup {None}]
    /\ \A t \in AuditTopics : latest[t] # None =>
         /\ latest[t] \in Seq(CardRows)
         /\ \A k \in DOMAIN latest[t] : CardFits(latest[t][k])

EventFits(e) == e.type = "suggestion" => e.id \in 1..Len(suggestions)
WireHolds == wire \in Seq(EventRows) /\ \A k \in DOMAIN wire : EventFits(wire[k])

\* How far a decision has come in the table.
DecisionFits(d) ==
    /\ d.id \in 1..Len(suggestions)
    /\ d.at \in {"written", "accepted"} => suggestions[d.id].writes > 0
    /\ d.at = "accepted" => suggestions[d.id].status = "accepted"
DecisionsHold == decisions \in Seq(DecisionRows) /\ \A d \in DOMAIN decisions : DecisionFits(decisions[d])

\* The call that starts an audit, its stream and the flag; events come by a stream only.
LineHolds ==
    /\ drawerTopic \in AuditTopics
    /\ start # None => start \in [topic : AuditTopics, at : {"asked", "answered"}, audit : Nat]
    /\ stream # None => stream \in [audit : Nat, line : {"connecting", "open", "refused"}]
    /\ Audit!OneAuditAtATime
    /\ wire # <<>> => stream # None

AuditInv == TablesHold /\ CardsHold /\ LatestHolds /\ WireHolds /\ DecisionsHold /\ LineHolds

LEMMA AuditStarts == Audit!AuditInit => AuditInv
  <1> SUFFICES ASSUME Audit!AuditInit PROVE AuditInv
    OBVIOUS
  <1> USE DEF Audit!AuditInit
  <1>1. TablesHold /\ CardsHold /\ WireHolds /\ DecisionsHold
    BY EmptySeq DEF TablesHold, CardsHold, WireHolds, DecisionsHold
  <1>2. LatestHolds
    BY DEF LatestHolds
  <1>3. LineHolds
    BY DEF LineHolds, Audit!OneAuditAtATime
  <1> QED BY <1>1, <1>2, <1>3 DEF AuditInv

\* No step takes a suggestion back, nor what was written of it.
TableGrows ==
    /\ Len(suggestions) <= Len(suggestions')
    /\ \A i \in 1..Len(suggestions) :
         /\ suggestions[i].status = "accepted" => suggestions'[i].status = "accepted"
         /\ suggestions[i].writes > 0 => suggestions'[i].writes > 0

LEMMA FitsStay ==
    ASSUME TablesHold, TablesHold', TableGrows
    PROVE  /\ \A c : CardFits(c) => CardFits(c)'
           /\ \A e : EventFits(e) => EventFits(e)'
           /\ \A d : DecisionFits(d) => DecisionFits(d)'
  <1>1. Len(suggestions) \in Nat /\ Len(suggestions') \in Nat /\ Len(suggestions) <= Len(suggestions')
    BY DEF TablesHold, TableGrows
  <1>2. \A i : i \in 1..Len(suggestions) => i \in 1..Len(suggestions')
    BY <1>1
  <1>3. \A c : CardFits(c) => CardFits(c)'
    BY <1>2 DEF CardFits, Written, TableGrows
  <1>4. \A e : EventFits(e) => EventFits(e)'
    BY <1>2 DEF EventFits
  <1>5. \A d : DecisionFits(d) => DecisionFits(d)'
    BY <1>2 DEF DecisionFits, TableGrows
  <1> QED BY <1>3, <1>4, <1>5

\* What a step leaves alone fits a table that grows.
LEMMA LeftAlone ==
    ASSUME AuditInv, TablesHold', TableGrows
    PROVE  /\ cards' = cards => CardsHold'
           /\ latest' = latest => LatestHolds'
           /\ wire' = wire => WireHolds'
           /\ decisions' = decisions => DecisionsHold'
  <1>0. /\ \A c : CardFits(c) => CardFits(c)'
        /\ \A e : EventFits(e) => EventFits(e)'
        /\ \A d : DecisionFits(d) => DecisionFits(d)'
    BY FitsStay DEF AuditInv
  <1>1. cards' = cards => CardsHold'
    BY <1>0 DEF AuditInv, CardsHold
  <1>2. latest' = latest => LatestHolds'
    BY <1>0 DEF AuditInv, LatestHolds
  <1>3. wire' = wire => WireHolds'
    BY <1>0 DEF AuditInv, WireHolds
  <1>4. decisions' = decisions => DecisionsHold'
    BY <1>0 DEF AuditInv, DecisionsHold
  <1> QED BY <1>1, <1>2, <1>3, <1>4

LEMMA TableStands ==
    ASSUME AuditInv, suggestions' = suggestions
    PROVE  TableGrows /\ (audits' = audits => TablesHold')
  BY DEF AuditInv, TableGrows, TablesHold

\* The cards are reset to what is cached, or stay.
LEMMA CardsReset ==
    ASSUME AuditInv, suggestions' = suggestions, NEW o, NEW run, NEW t \in AuditTopics, LatestHolds',
           cards' = Audit!Reset(o, run, latest'[t])
    PROVE  CardsHold'
  <1>1. cards' = cards \/ (latest'[t] # None /\ cards' = latest'[t])
    BY DEF Audit!Reset
  <1>2. CASE cards' = cards
    BY <1>2 DEF AuditInv, CardsHold, CardFits, Written
  <1>3. CASE latest'[t] # None /\ cards' = latest'[t]
    BY <1>3 DEF LatestHolds, CardsHold
  <1> QED BY <1>1, <1>2, <1>3

LEMMA DrawerMoves ==
    ASSUME AuditInv,
           \/ Audit!OpenDrawer \/ Audit!CloseDrawer \/ Audit!RunAudit
           \/ \E t \in AuditTopics : Audit!Navigate(t)
    PROVE  AuditInv'
  <1>0. LineHolds /\ LatestHolds
    BY DEF AuditInv
  <1>1. CASE Audit!OpenDrawer
    <2>1. UNCHANGED <<audits, suggestions, latest, wire, decisions>>
      BY <1>1 DEF Audit!OpenDrawer, Audit!Server, Audit!Connection
    <2>2. TablesHold' /\ LatestHolds' /\ WireHolds' /\ DecisionsHold'
      BY <2>1, TableStands, LeftAlone
    <2>3. CardsHold'
      BY <1>0, <1>1, <2>1, <2>2, CardsReset DEF Audit!OpenDrawer, LineHolds
    <2>4. LineHolds'
      BY <1>0, <1>1 DEF Audit!OpenDrawer, Audit!Connection, LineHolds, Audit!OneAuditAtATime
    <2> QED BY <2>2, <2>3, <2>4 DEF AuditInv
  <1>2. CASE Audit!CloseDrawer
    <2>1. UNCHANGED <<audits, suggestions, latest, cards, decisions>> /\ wire' = <<>>
      BY <1>2 DEF Audit!CloseDrawer, Audit!Server
    <2>2. TablesHold' /\ LatestHolds' /\ CardsHold' /\ DecisionsHold'
      BY <2>1, TableStands, LeftAlone
    <2>3. WireHolds'
      BY <2>1, EmptySeq DEF WireHolds
    <2>4. LineHolds'
      BY <1>0, <1>2 DEF Audit!CloseDrawer, LineHolds, Audit!OneAuditAtATime
    <2> QED BY <2>2, <2>3, <2>4 DEF AuditInv
  <1>3. CASE Audit!RunAudit
    <2>1. UNCHANGED <<audits, suggestions, latest, wire, decisions>> /\ cards' = <<>>
      BY <1>3 DEF Audit!RunAudit, Audit!Server
    <2>2. TablesHold' /\ LatestHolds' /\ WireHolds' /\ DecisionsHold'
      BY <2>1, TableStands, LeftAlone
    <2>3. CardsHold'
      BY <2>1, EmptySeq DEF CardsHold
    <2>4. LineHolds'
      BY <1>0, <1>3 DEF Audit!RunAudit, LineHolds, Audit!OneAuditAtATime
    <2> QED BY <2>2, <2>3, <2>4 DEF AuditInv
  <1>4. ASSUME NEW t \in AuditTopics, Audit!Navigate(t) PROVE AuditInv'
    <2>1. UNCHANGED <<audits, suggestions, latest, wire, decisions>>
      BY <1>4 DEF Audit!Navigate, Audit!Server, Audit!Connection
    <2>2. TablesHold' /\ LatestHolds' /\ WireHolds' /\ DecisionsHold'
      BY <2>1, TableStands, LeftAlone
    <2>3. CardsHold'
      BY <1>4, <2>1, <2>2, CardsReset DEF Audit!Navigate
    <2>4. LineHolds'
      BY <1>0, <1>4 DEF Audit!Navigate, Audit!Connection, LineHolds, Audit!OneAuditAtATime
    <2> QED BY <2>2, <2>3, <2>4 DEF AuditInv
  <1> QED BY <1>1, <1>2, <1>3, <1>4

\* An enumeration of ids of the table is a sequence of them.
LEMMA OrderIsSequence ==
    ASSUME TablesHold, NEW S \in SUBSET (1..Len(suggestions)), NEW order \in Audit!InOrder(S)
    PROVE  \E n \in Nat : DOMAIN order = 1..n /\ \A k \in 1..n : order[k] \in 1..Len(suggestions)
  <1>1. Len(suggestions) \in Nat
    BY DEF TablesHold
  <1>2. PICK n \in 0..Len(suggestions) : order \in [1..n -> S]
    BY DEF Audit!InOrder
  <1>3. n \in Nat
    BY <1>1
  <1>4. DOMAIN order = 1..n /\ \A k \in 1..n : order[k] \in S
    BY <1>2
  <1> QED BY <1>3, <1>4

LEMMA CacheAnswers == ASSUME AuditInv, NEW t \in AuditTopics, Audit!LatestComes(t) PROVE AuditInv'
  <1>0. LineHolds /\ LatestHolds /\ TablesHold
    BY DEF AuditInv
  <1>1. UNCHANGED <<audits, suggestions, wire, decisions>>
    BY DEF Audit!LatestComes, Audit!Server, Audit!Connection
  <1>2. TablesHold' /\ WireHolds' /\ DecisionsHold' /\ TableGrows
    BY <1>1, TableStands, LeftAlone
  <1>3. PICK order \in Audit!InOrder(Audit!PendingOf(t)) :
          latest' = [latest EXCEPT ![t] = [k \in DOMAIN order |-> Audit!SuggestionFromWire(order[k])]]
    BY DEF Audit!LatestComes
  <1>4. Audit!PendingOf(t) \in SUBSET (1..Len(suggestions))
    BY DEF Audit!PendingOf
  <1>5. PICK n \in Nat : DOMAIN order = 1..n /\ \A k \in 1..n : order[k] \in 1..Len(suggestions)
    BY <1>0, <1>4, OrderIsSequence
  <1>6. PICK fetched : fetched = [k \in 1..n |-> Audit!SuggestionFromWire(order[k])]
    OBVIOUS
  <1>7. fetched \in Seq(CardRows) /\ DOMAIN fetched = 1..n /\ \A k \in DOMAIN fetched : CardFits(fetched[k])
    <2>1. \A k \in 1..n : fetched[k] \in CardRows /\ CardFits(fetched[k])
      BY <1>0, <1>5, <1>6 DEF Audit!SuggestionFromWire, CardRows, CardFits, TablesHold
    <2> QED BY <1>6, <2>1
  <1>8. latest' = [latest EXCEPT ![t] = fetched]
    BY <1>3, <1>5, <1>6
  <1>9. LatestHolds'
    <2>1. latest' \in [AuditTopics -> Seq(CardRows) \cup {None}]
      BY <1>0, <1>7, <1>8 DEF LatestHolds
    <2>2. ASSUME NEW u \in AuditTopics, latest'[u] # None
          PROVE  latest'[u] \in Seq(CardRows) /\ \A k \in DOMAIN latest'[u] : CardFits(latest[u][k])'
      <3>1. latest'[u] \in Seq(CardRows) /\ \A k \in DOMAIN latest'[u] : CardFits(latest'[u][k])
        BY <1>0, <1>7, <1>8, <2>2 DEF LatestHolds
      <3> QED BY <1>1, <3>1 DEF CardFits, Written
    <2> QED BY <2>1, <2>2 DEF LatestHolds
  <1>10. CardsHold'
    BY <1>1, <1>9, CardsReset DEF Audit!LatestComes
  <1>11. LineHolds'
    BY <1>0 DEF Audit!LatestComes, Audit!Connection, LineHolds, Audit!OneAuditAtATime
  <1> QED BY <1>2, <1>9, <1>10, <1>11 DEF AuditInv

LEMMA CallOfStart ==
    ASSUME AuditInv, Audit!StartServed \/ Audit!StartReturns \/ Audit!StartFails
    PROVE  AuditInv'
  <1>0. LineHolds /\ LatestHolds /\ TablesHold
    BY DEF AuditInv
  <1>1. CASE Audit!StartServed
    <2>1. UNCHANGED <<suggestions, cards, latest, wire, decisions>>
      BY <1>1 DEF Audit!StartServed
    <2>2. PICK row : row = [topic |-> start.topic, status |-> "running"]
      OBVIOUS
    <2>3. row \in AuditRows
      BY <1>0, <1>1, <2>2 DEF LineHolds, Audit!StartServed, AuditRows
    <2>4. audits' = Append(audits, row)
      BY <1>1, <2>2 DEF Audit!StartServed
    <2>5. audits' \in Seq(AuditRows) /\ Len(audits') \in Nat
      BY <1>0, <2>3, <2>4, AppendProperties DEF TablesHold
    <2>6. TablesHold' /\ TableGrows
      BY <1>0, <2>1, <2>5, TableStands DEF TablesHold
    <2>7. CardsHold' /\ LatestHolds' /\ WireHolds' /\ DecisionsHold'
      BY <2>1, <2>6, LeftAlone
    <2>8. start' # None => start' \in [topic : AuditTopics, at : {"asked", "answered"}, audit : Nat]
      BY <1>0, <1>1, <2>5 DEF Audit!StartServed, LineHolds
    <2>9. LineHolds'
      BY <1>0, <1>1, <2>8 DEF Audit!StartServed, LineHolds, Audit!OneAuditAtATime
    <2> QED BY <2>6, <2>7, <2>9 DEF AuditInv
  <1>2. CASE Audit!StartReturns
    <2>1. UNCHANGED <<audits, suggestions, cards, latest, wire, decisions>>
      BY <1>2 DEF Audit!StartReturns, Audit!Server
    <2>2. TablesHold' /\ CardsHold' /\ LatestHolds' /\ WireHolds' /\ DecisionsHold'
      BY <2>1, TableStands, LeftAlone
    <2>3. LineHolds'
      BY <1>0, <1>2 DEF Audit!StartReturns, LineHolds, Audit!OneAuditAtATime
    <2> QED BY <2>2, <2>3 DEF AuditInv
  <1>3. CASE Audit!StartFails
    <2>1. UNCHANGED <<audits, suggestions, latest, wire, decisions, drawerTopic>>
      BY <1>3 DEF Audit!StartFails, Audit!Server
    <2>2. TablesHold' /\ LatestHolds' /\ WireHolds' /\ DecisionsHold'
      BY <2>1, TableStands, LeftAlone
    <2>3. CardsHold'
      BY <1>0, <1>3, <2>1, <2>2, CardsReset DEF Audit!StartFails, LineHolds
    <2>4. LineHolds'
      BY <1>0, <1>3 DEF Audit!StartFails, LineHolds, Audit!OneAuditAtATime
    <2> QED BY <2>2, <2>3, <2>4 DEF AuditInv
  <1> QED BY <1>1, <1>2, <1>3

LEMMA LineConnects == ASSUME AuditInv, Audit!Connect PROVE AuditInv'
  <1>0. LineHolds /\ TablesHold /\ UNCHANGED <<audits, suggestions, cards, latest, decisions>>
    BY DEF AuditInv, Audit!Connect, Audit!Server
  <1>1. TablesHold' /\ CardsHold' /\ LatestHolds' /\ DecisionsHold'
    BY <1>0, TableStands, LeftAlone
  <1>2. WireHolds'
    <2>1. CASE wire' = <<>>
      BY <2>1, EmptySeq DEF WireHolds
    <2>2. ASSUME NEW order \in Audit!InOrder(Audit!SuggestionsOf(stream.audit)),
                 wire' = Append([k \in DOMAIN order |-> Audit!Emitted(order[k])], Audit!Done)
          PROVE  WireHolds'
      <3>1. Audit!SuggestionsOf(stream.audit) \in SUBSET (1..Len(suggestions))
        BY DEF Audit!SuggestionsOf
      <3>2. PICK n \in Nat : DOMAIN order = 1..n /\ \A k \in 1..n : order[k] \in 1..Len(suggestions)
        BY <1>0, <2>2, <3>1, OrderIsSequence
      <3>3. PICK sent : sent = [k \in 1..n |-> Audit!Emitted(order[k])]
        OBVIOUS
      <3>4. sent \in Seq(EventRows) /\ DOMAIN sent = 1..n /\ \A k \in 1..n : EventFits(sent[k])
        <4>1. \A k \in 1..n : sent[k] \in EventRows /\ EventFits(sent[k])
          BY <1>0, <3>2, <3>3 DEF Audit!Emitted, EventRows, EventFits, TablesHold
        <4> QED BY <3>3, <4>1
      <3>5. Audit!Done \in EventRows /\ EventFits(Audit!Done)
        BY DEF Audit!Done, EventRows, EventFits
      <3>6. wire' = Append(sent, Audit!Done)
        BY <2>2, <3>2, <3>3
      <3>7. /\ wire' \in Seq(EventRows)
            /\ \A k \in DOMAIN wire' : wire'[k] = Audit!Done \/ (k \in 1..n /\ wire'[k] = sent[k])
        BY <3>4, <3>5, <3>6, AppendProperties
      <3>8. \A k \in DOMAIN wire' : EventFits(wire'[k])
        BY <3>4, <3>5, <3>7
      <3> QED BY <1>0, <3>7, <3>8 DEF WireHolds, EventFits
    <2> QED BY <2>1, <2>2 DEF Audit!Connect
  <1>3. LineHolds'
    <2>1. stream' # None /\ stream' \in [audit : Nat, line : {"connecting", "open", "refused"}] /\ stream # None
      <3>1. \E l \in {"open", "refused"} : stream' = [stream EXCEPT !.line = l]
        BY DEF Audit!Connect
      <3>2. stream # None
        BY DEF Audit!Connect
      <3>3. stream' \in [audit : Nat, line : {"connecting", "open", "refused"}]
        BY <1>0, <3>1, <3>2 DEF LineHolds
      <3> QED BY <3>2, <3>3, AuditAssumption
    <2> QED BY <1>0, <2>1 DEF Audit!Connect, LineHolds, Audit!OneAuditAtATime
  <1> QED BY <1>1, <1>2, <1>3 DEF AuditInv

LEMMA StreamMoves ==
    ASSUME AuditInv, Audit!StreamEmits \/ Audit!StreamEnds \/ Audit!StreamBreaks
    PROVE  AuditInv'
  <1>0. LineHolds /\ TablesHold /\ WireHolds
    BY DEF AuditInv
  <1>1. CASE Audit!StreamEmits
    <2> DEFINE S == [audit |-> stream.audit, status |-> "pending", writes |-> 0]
    <2>0. UNCHANGED <<audits, cards, latest, decisions, stream, start, running, drawerTopic>> /\ stream # None
      BY <1>1 DEF Audit!StreamEmits, Audit!Streaming
    <2>1. PICK row : row = S
      OBVIOUS
    <2>2. row \in SuggestionRows
      BY <1>0, <2>0, <2>1 DEF LineHolds, SuggestionRows
    <2>3. suggestions' = Append(suggestions, row)
      BY <1>1, <2>1 DEF Audit!StreamEmits
    <2>4. /\ suggestions' \in Seq(SuggestionRows) /\ Len(suggestions') = Len(suggestions) + 1 /\ Len(suggestions) \in Nat
          /\ \A i \in 1..Len(suggestions) : suggestions'[i] = suggestions[i]
      BY <1>0, <2>2, <2>3, AppendProperties DEF TablesHold
    <2>5. TablesHold' /\ TableGrows
      BY <1>0, <2>0, <2>4 DEF TablesHold, TableGrows
    <2>6. CardsHold' /\ LatestHolds' /\ DecisionsHold'
      BY <2>0, <2>5, LeftAlone
    <2>7. PICK e : e = Audit!Emitted(Len(suggestions'))
      OBVIOUS
    <2>8. e \in EventRows /\ e.id \in 1..Len(suggestions')
      BY <2>4, <2>7 DEF Audit!Emitted, EventRows
    <2>9. wire' = Append(wire, e)
      BY <1>1, <2>7 DEF Audit!StreamEmits
    <2>10. /\ wire' \in Seq(EventRows)
           /\ \A k \in DOMAIN wire' : wire'[k] = e \/ (k \in DOMAIN wire /\ wire'[k] = wire[k])
      BY <1>0, <2>8, <2>9, AppendProperties DEF WireHolds
    <2>11. \A f : EventFits(f) => EventFits(f)'
      BY <1>0, <2>5, FitsStay
    <2>12. WireHolds'
      BY <1>0, <2>8, <2>10, <2>11 DEF WireHolds, EventFits
    <2>13. LineHolds'
      BY <1>0, <2>0 DEF LineHolds, Audit!OneAuditAtATime
    <2> QED BY <2>5, <2>6, <2>12, <2>13 DEF AuditInv
  <1>2. CASE Audit!StreamEnds
    <2>0. UNCHANGED <<suggestions, cards, latest, decisions, stream, start, running, drawerTopic>> /\ stream # None
      BY <1>2 DEF Audit!StreamEnds, Audit!Streaming
    <2>1. PICK s \in {"done", "failed"} :
            /\ audits' = [audits EXCEPT ![stream.audit].status = s]
            /\ wire' = Append(wire, IF s = "done" THEN Audit!Done ELSE [Audit!Done EXCEPT !.type = "error"])
      BY <1>2 DEF Audit!StreamEnds
    <2>2. audits' \in Seq(AuditRows)
      <3> DEFINE a == stream.audit
      <3>1. audits \in Seq(AuditRows)
        BY <1>0 DEF TablesHold
      <3>2. PICK row : row = [audits[a] EXCEPT !.status = s]
        OBVIOUS
      <3>3. audits' = [audits EXCEPT ![a] = row]
        BY <2>1, <3>2
      <3>4. CASE a \in DOMAIN audits
        <4>1. row \in AuditRows
          <5>1. audits[a] \in AuditRows
            BY <3>1, <3>4
          <5> HIDE DEF a
          <5>2. PICK old : old = audits[a]
            OBVIOUS
          <5> QED BY <2>1, <3>2, <5>1, <5>2 DEF AuditRows
        <4> HIDE DEF a
        <4> QED BY <3>1, <3>3, <3>4, <4>1, ExceptSeq
      <3>5. CASE a \notin DOMAIN audits
        <4>1. audits' = audits
          BY <3>1, <3>3, <3>5
        <4> QED BY <3>1, <4>1
      <3> QED BY <3>4, <3>5
    <2>3. TablesHold' /\ TableGrows
      BY <1>0, <2>0, <2>2, TableStands DEF TablesHold
    <2>4. CardsHold' /\ LatestHolds' /\ DecisionsHold'
      BY <2>0, <2>3, LeftAlone
    <2>5. PICK e : e = IF s = "done" THEN Audit!Done ELSE [Audit!Done EXCEPT !.type = "error"]
      OBVIOUS
    <2>6. e \in EventRows /\ e.type # "suggestion"
      BY <2>5 DEF Audit!Done, EventRows
    <2>7. wire' = Append(wire, e)
      BY <2>1, <2>5
    <2>8. /\ wire' \in Seq(EventRows)
          /\ \A k \in DOMAIN wire' : wire'[k] = e \/ (k \in DOMAIN wire /\ wire'[k] = wire[k])
      BY <1>0, <2>6, <2>7, AppendProperties DEF WireHolds
    <2>9. WireHolds'
      BY <1>0, <2>0, <2>6, <2>8 DEF WireHolds, EventFits
    <2>10. LineHolds'
      BY <1>0, <2>0 DEF LineHolds, Audit!OneAuditAtATime
    <2> QED BY <2>3, <2>4, <2>9, <2>10 DEF AuditInv
  <1>3. CASE Audit!StreamBreaks
    <2>1. UNCHANGED <<audits, suggestions, cards, latest, decisions>> /\ wire' = <<>>
      BY <1>3 DEF Audit!StreamBreaks, Audit!Server
    <2>2. TablesHold' /\ CardsHold' /\ LatestHolds' /\ DecisionsHold'
      BY <2>1, TableStands, LeftAlone
    <2>3. WireHolds'
      BY <2>1, EmptySeq DEF WireHolds
    <2>4. LineHolds'
      BY <1>0, <1>3 DEF Audit!StreamBreaks, LineHolds, Audit!OneAuditAtATime
    <2> QED BY <2>2, <2>3, <2>4 DEF AuditInv
  <1> QED BY <1>1, <1>2, <1>3

\* A suggestion that arrives is a pending card; the end of the run clears the line.
LEMMA EventArrives == ASSUME AuditInv, Audit!Delivered PROVE AuditInv'
  <1>0. LineHolds /\ TablesHold /\ WireHolds /\ CardsHold /\ wire # <<>> /\ stream # None /\ start = None
    BY DEF AuditInv, Audit!Delivered, LineHolds, Audit!OneAuditAtATime
  <1>1. UNCHANGED <<audits, suggestions, latest, decisions, start, drawerTopic>>
    BY DEF Audit!Delivered, Audit!Server
  <1>2. TablesHold' /\ LatestHolds' /\ DecisionsHold'
    BY <1>1, TableStands, LeftAlone
  <1>3. CASE Head(wire).type = "suggestion"
    <2>1. PICK c : c = Audit!SuggestionFromWire(Head(wire).id)
      OBVIOUS
    <2>2. Head(wire) = wire[1] /\ 1 \in DOMAIN wire /\ wire[1] \in EventRows
      BY <1>0 DEF WireHolds
    <2>3. c \in CardRows /\ CardFits(c)
      BY <1>0, <1>3, <2>1, <2>2 DEF Audit!SuggestionFromWire, CardRows, CardFits, EventRows, EventFits, WireHolds
    <2>4. cards' = Append(cards, c) /\ wire' = Tail(wire) /\ UNCHANGED <<running, stream>>
      BY <1>3, <2>1 DEF Audit!Delivered
    <2>5. /\ cards' \in Seq(CardRows)
          /\ \A k \in DOMAIN cards' : cards'[k] = c \/ (k \in DOMAIN cards /\ cards'[k] = cards[k])
      BY <1>0, <2>3, <2>4, AppendProperties DEF CardsHold
    <2>6. CardsHold'
      BY <1>0, <1>1, <2>3, <2>5 DEF CardsHold, CardFits, Written
    <2>7. /\ wire' \in Seq(EventRows)
          /\ \A k \in DOMAIN wire' : k + 1 \in DOMAIN wire /\ wire'[k] = wire[k + 1]
      BY <1>0, <2>4, HeadTailProperties DEF WireHolds
    <2>8. WireHolds'
      BY <1>0, <1>1, <2>7 DEF WireHolds, EventFits
    <2>9. LineHolds'
      BY <1>0, <1>1, <2>4 DEF LineHolds, Audit!OneAuditAtATime
    <2> QED BY <1>2, <2>6, <2>8, <2>9 DEF AuditInv
  <1>4. CASE Head(wire).type # "suggestion"
    <2>1. /\ running' = FALSE /\ stream' = None /\ wire' = <<>>
          /\ cards' = Audit!Reset(drawerOpen, FALSE, latest'[drawerTopic])
      BY <1>1, <1>4 DEF Audit!Delivered
    <2>2. CardsHold'
      BY <1>0, <1>1, <1>2, <2>1, CardsReset DEF LineHolds
    <2>3. WireHolds'
      BY <2>1, EmptySeq DEF WireHolds
    <2>4. LineHolds'
      BY <1>0, <1>1, <2>1 DEF LineHolds, Audit!OneAuditAtATime
    <2> QED BY <1>2, <2>2, <2>3, <2>4 DEF AuditInv
  <1> QED BY <1>3, <1>4

\* A call on a suggestion is sent, is at work on the server, or is lost.
LEMMA DecisionsMove ==
    ASSUME AuditInv,
           \/ \E k \in 1..MaxSuggestions + 2, kind \in {"accept", "dismiss"} : Audit!Decide(k, kind)
           \/ \E d \in 1..MaxDecisions :
                  \/ Audit!DecisionServed(d) \/ Audit!PageWritten(d) \/ Audit!StatusWritten(d)
                  \/ Audit!DecisionFails(d)
    PROVE  AuditInv'
  <1>0. LineHolds /\ TablesHold /\ CardsHold /\ DecisionsHold
    BY DEF AuditInv
  <1> DEFINE Row(d, stage) == [decisions[d] EXCEPT !.at = stage]
  <1>1. ASSUME NEW d, NEW stage \in {"checked", "refused", "written", "accepted", "over"}, d \in DOMAIN decisions,
               Audit!Moves(d, stage)
        PROVE  /\ decisions' \in Seq(DecisionRows) /\ DOMAIN decisions' = DOMAIN decisions
               /\ decisions'[d] \in DecisionRows /\ decisions'[d].id = decisions[d].id /\ decisions'[d].at = stage
               /\ \A e \in DOMAIN decisions' : e # d => decisions'[e] = decisions[e]
    <2>1. decisions \in Seq(DecisionRows) /\ decisions[d] \in DecisionRows
      BY <1>0, <1>1 DEF DecisionsHold
    <2>2. PICK row : row = [decisions[d] EXCEPT !.at = stage]
      OBVIOUS
    <2>3. row \in DecisionRows /\ row.id = decisions[d].id /\ row.at = stage
      BY <1>1, <2>1, <2>2 DEF DecisionRows
    <2>4. decisions' = [decisions EXCEPT ![d] = row]
      BY <1>1, <2>2 DEF Audit!Moves
    <2>5. decisions' \in Seq(DecisionRows)
      BY <1>1, <2>1, <2>3, <2>4, ExceptSeq
    <2> QED BY <1>1, <2>1, <2>3, <2>4, <2>5
  <1>2. ASSUME NEW k, NEW kind \in {"accept", "dismiss"}, Audit!Decide(k, kind) PROVE AuditInv'
    <2>1. UNCHANGED <<audits, suggestions, cards, latest, wire>>
      BY <1>2 DEF Audit!Decide, Audit!Server, Audit!Connection
    <2>2. TablesHold' /\ CardsHold' /\ LatestHolds' /\ WireHolds'
      BY <2>1, TableStands, LeftAlone
    <2>3. PICK row : row = [id |-> cards[k].id, kind |-> kind, at |-> "asked"]
      OBVIOUS
    <2>4. row \in DecisionRows /\ DecisionFits(row)
      <3>1. k \in DOMAIN cards /\ cards[k] \in CardRows /\ CardFits(cards[k])
        BY <1>0, <1>2 DEF Audit!Decide, CardsHold
      <3> QED BY <1>2, <2>3, <3>1 DEF DecisionRows, CardRows, CardFits, DecisionFits
    <2>5. decisions' = Append(decisions, row)
      BY <1>2, <2>3 DEF Audit!Decide
    <2>6. /\ decisions' \in Seq(DecisionRows)
          /\ \A d \in DOMAIN decisions' : decisions'[d] = row \/ (d \in DOMAIN decisions /\ decisions'[d] = decisions[d])
      BY <1>0, <2>4, <2>5, AppendProperties DEF DecisionsHold
    <2>7. DecisionsHold'
      BY <1>0, <2>1, <2>4, <2>6 DEF DecisionsHold, DecisionFits
    <2>8. LineHolds'
      BY <1>0, <1>2 DEF Audit!Decide, Audit!Connection, LineHolds, Audit!OneAuditAtATime
    <2> QED BY <2>2, <2>7, <2>8 DEF AuditInv
  <1>3. ASSUME NEW d, Audit!DecisionServed(d) \/ Audit!DecisionFails(d) PROVE AuditInv'
    <2>1. UNCHANGED <<audits, suggestions, cards, latest, wire>>
      BY <1>3 DEF Audit!DecisionServed, Audit!DecisionFails, Audit!DrawerKept, Audit!Server, Audit!Connection
    <2>2. TablesHold' /\ CardsHold' /\ LatestHolds' /\ WireHolds'
      BY <2>1, TableStands, LeftAlone
    <2>3. PICK stage \in {"checked", "refused", "over"} : d \in DOMAIN decisions /\ Audit!Moves(d, stage)
      BY <1>0, <1>3 DEF Audit!DecisionServed, Audit!DecisionFails, Audit!At, DecisionsHold
    <2>4. DecisionsHold'
      BY <1>0, <1>1, <2>1, <2>3 DEF DecisionsHold, DecisionFits
    <2>5. LineHolds'
      BY <1>0, <1>3 DEF Audit!DecisionServed, Audit!DecisionFails, Audit!DrawerKept, Audit!Connection, LineHolds,
         Audit!OneAuditAtATime
    <2> QED BY <2>2, <2>4, <2>5 DEF AuditInv
  <1>4. ASSUME NEW d, Audit!PageWritten(d) PROVE AuditInv'
    <2>0. UNCHANGED <<audits, cards, latest, wire>> /\ d \in DOMAIN decisions /\ Audit!Moves(d, "written")
      BY <1>0, <1>4 DEF Audit!PageWritten, Audit!At, Audit!DrawerKept, Audit!Connection, DecisionsHold
    <2>1. PICK i : i = decisions[d].id
      OBVIOUS
    <2>2. i \in 1..Len(suggestions) /\ suggestions[i] \in SuggestionRows
      BY <1>0, <2>0, <2>1 DEF DecisionsHold, DecisionFits, TablesHold
    <2>3. PICK row : row = [suggestions[i] EXCEPT !.writes = @ + 1]
      OBVIOUS
    <2>4. row \in SuggestionRows /\ row.status = suggestions[i].status /\ row.writes > 0
      BY <2>2, <2>3 DEF SuggestionRows
    <2>5. suggestions' = [suggestions EXCEPT ![i] = row]
      BY <1>4, <2>1, <2>3 DEF Audit!PageWritten
    <2>6. suggestions' \in Seq(SuggestionRows) /\ Len(suggestions') = Len(suggestions) /\ Len(suggestions) \in Nat
      BY <1>0, <2>2, <2>4, <2>5, ExceptSeq DEF TablesHold
    <2>7. TablesHold' /\ TableGrows /\ suggestions'[i].writes > 0
      BY <1>0, <2>0, <2>2, <2>4, <2>5, <2>6 DEF TablesHold, TableGrows
    <2>8. CardsHold' /\ LatestHolds' /\ WireHolds'
      BY <2>0, <2>7, LeftAlone
    <2>9. DecisionsHold'
      <3>1. /\ decisions' \in Seq(DecisionRows) /\ DOMAIN decisions' = DOMAIN decisions
            /\ decisions'[d].id = i /\ decisions'[d].at = "written"
            /\ \A e \in DOMAIN decisions' : e # d => decisions'[e] = decisions[e]
        BY <1>1, <2>0, <2>1
      <3>2. \A e : DecisionFits(e) => DecisionFits(e)'
        BY <1>0, <2>7, FitsStay
      <3> QED BY <1>0, <2>2, <2>6, <2>7, <3>1, <3>2 DEF DecisionsHold, DecisionFits
    <2>10. LineHolds'
      BY <1>0, <1>4 DEF Audit!PageWritten, Audit!DrawerKept, Audit!Connection, LineHolds, Audit!OneAuditAtATime
    <2> QED BY <2>7, <2>8, <2>9, <2>10 DEF AuditInv
  <1>5. ASSUME NEW d, Audit!StatusWritten(d) PROVE AuditInv'
    <2>0. /\ UNCHANGED <<audits, cards, latest, wire>> /\ d \in DOMAIN decisions /\ Audit!Moves(d, "accepted")
          /\ decisions[d].at = "written"
      BY <1>0, <1>5 DEF Audit!StatusWritten, Audit!At, Audit!DrawerKept, Audit!Connection, DecisionsHold
    <2>1. PICK i : i = decisions[d].id
      OBVIOUS
    <2>2. i \in 1..Len(suggestions) /\ suggestions[i] \in SuggestionRows /\ suggestions[i].writes > 0
      BY <1>0, <2>0, <2>1 DEF DecisionsHold, DecisionFits, TablesHold
    <2>3. PICK row : row = [suggestions[i] EXCEPT !.status = "accepted"]
      OBVIOUS
    <2>4. row \in SuggestionRows /\ row.status = "accepted" /\ row.writes = suggestions[i].writes
      BY <2>2, <2>3 DEF SuggestionRows
    <2>5. suggestions' = [suggestions EXCEPT ![i] = row]
      BY <1>5, <2>1, <2>3 DEF Audit!StatusWritten
    <2>6. suggestions' \in Seq(SuggestionRows) /\ Len(suggestions') = Len(suggestions) /\ Len(suggestions) \in Nat
      BY <1>0, <2>2, <2>4, <2>5, ExceptSeq DEF TablesHold
    <2>7. TablesHold' /\ TableGrows /\ suggestions'[i].writes > 0 /\ suggestions'[i].status = "accepted"
      BY <1>0, <2>0, <2>2, <2>4, <2>5, <2>6 DEF TablesHold, TableGrows
    <2>8. CardsHold' /\ LatestHolds' /\ WireHolds'
      BY <2>0, <2>7, LeftAlone
    <2>9. DecisionsHold'
      <3>1. /\ decisions' \in Seq(DecisionRows) /\ DOMAIN decisions' = DOMAIN decisions
            /\ decisions'[d].id = i /\ decisions'[d].at = "accepted"
            /\ \A e \in DOMAIN decisions' : e # d => decisions'[e] = decisions[e]
        BY <1>1, <2>0, <2>1
      <3>2. \A e : DecisionFits(e) => DecisionFits(e)'
        BY <1>0, <2>7, FitsStay
      <3> QED BY <1>0, <2>2, <2>6, <2>7, <3>1, <3>2 DEF DecisionsHold, DecisionFits
    <2>10. LineHolds'
      BY <1>0, <1>5 DEF Audit!StatusWritten, Audit!DrawerKept, Audit!Connection, LineHolds, Audit!OneAuditAtATime
    <2> QED BY <2>7, <2>8, <2>9, <2>10 DEF AuditInv
  <1> QED BY <1>2, <1>3, <1>4, <1>5

\* The answer of an accepted suggestion marks its card.
LEMMA DecisionComesBack == ASSUME AuditInv, NEW d, Audit!DecisionReturns(d) PROVE AuditInv'
  <1>0. LineHolds /\ TablesHold /\ CardsHold /\ DecisionsHold
    BY DEF AuditInv
  <1>1. /\ UNCHANGED <<audits, suggestions, latest, wire>> /\ d \in DOMAIN decisions
        /\ decisions[d].at = "accepted" /\ decisions[d] \in DecisionRows /\ decisions \in Seq(DecisionRows)
    BY <1>0 DEF Audit!DecisionReturns, Audit!At, Audit!DrawerKept, Audit!Server, Audit!Connection, DecisionsHold
  <1>2. TablesHold' /\ LatestHolds' /\ WireHolds'
    BY <1>1, TableStands, LeftAlone
  <1>3. Written(decisions[d].id)
    BY <1>0, <1>1 DEF DecisionsHold, DecisionFits, Written
  <1>4. CardsHold'
    <2>1. CASE cards' = cards
      BY <1>1, <1>2, <2>1, TableStands, LeftAlone
    <2>2. CASE cards' = Audit!SetLocalState(d)
      <3>1. PICK n \in Nat : n = Len(cards) /\ DOMAIN cards = 1..n
        BY <1>0 DEF CardsHold
      <3>2. cards' = [k \in 1..n |-> IF cards[k].id = decisions[d].id
                                     THEN [cards[k] EXCEPT !.state = "accepted"] ELSE cards[k]]
        BY <2>2, <3>1 DEF Audit!SetLocalState
      <3>3. ASSUME NEW k \in 1..n PROVE cards'[k] \in CardRows /\ CardFits(cards'[k])
        <4>1. cards[k] \in CardRows /\ CardFits(cards[k])
          BY <1>0, <3>1 DEF CardsHold
        <4>2. CASE cards[k].id = decisions[d].id
          <5>1. cards'[k] = [cards[k] EXCEPT !.state = "accepted"]
            BY <3>2, <4>2
          <5>2. cards'[k] \in CardRows /\ cards'[k].id = decisions[d].id
            BY <4>1, <4>2, <5>1 DEF CardRows
          <5> QED BY <1>3, <4>1, <4>2, <5>2 DEF CardFits
        <4>3. CASE cards[k].id # decisions[d].id
          BY <3>2, <4>1, <4>3
        <4> QED BY <4>2, <4>3
      <3>4. cards' \in Seq(CardRows) /\ DOMAIN cards' = 1..n
        <4>1. DOMAIN cards' = 1..n /\ cards' = [k \in 1..n |-> cards'[k]]
          BY <3>2
        <4>2. cards' \in [1..n -> CardRows]
          BY <3>3, <4>1
        <4> QED BY <3>1, <4>1, <4>2
      <3> QED BY <1>1, <3>3, <3>4 DEF CardsHold, CardFits, Written
    <2> QED BY <2>1, <2>2 DEF Audit!DecisionReturns
  <1>5. DecisionsHold'
    <2>1. PICK row : row = [decisions[d] EXCEPT !.at = "over"]
      OBVIOUS
    <2>2. row \in DecisionRows /\ row.id = decisions[d].id /\ row.at = "over"
      BY <1>1, <2>1 DEF DecisionRows
    <2>3. decisions' = [decisions EXCEPT ![d] = row]
      BY <2>1 DEF Audit!DecisionReturns, Audit!Moves
    <2>4. decisions' \in Seq(DecisionRows)
      BY <1>1, <2>2, <2>3, ExceptSeq
    <2> QED BY <1>0, <1>1, <2>2, <2>3, <2>4 DEF DecisionsHold, DecisionFits
  <1>6. LineHolds'
    BY <1>0 DEF Audit!DecisionReturns, Audit!DrawerKept, Audit!Connection, LineHolds, Audit!OneAuditAtATime
  <1> QED BY <1>2, <1>4, <1>5, <1>6 DEF AuditInv

LEMMA DrawerSteps == ASSUME AuditInv, [Audit!AuditNext]_(Audit!auditVars) PROVE AuditInv'
  <1>1. CASE UNCHANGED Audit!auditVars
    BY <1>1 DEF Audit!auditVars, AuditInv, TablesHold, CardsHold, CardFits, Written, LatestHolds, WireHolds, EventFits,
       DecisionsHold, DecisionFits, LineHolds, Audit!OneAuditAtATime
  <1>2. ASSUME Audit!OpenDrawer \/ Audit!CloseDrawer \/ Audit!RunAudit \/ \E t \in AuditTopics : Audit!Navigate(t)
        PROVE  AuditInv'
    BY <1>2, DrawerMoves
  <1>3. ASSUME NEW t \in AuditTopics, Audit!LatestComes(t) PROVE AuditInv'
    BY <1>3, CacheAnswers
  <1>4. ASSUME Audit!AuditStep PROVE AuditInv'
    BY <1>4, CallOfStart, LineConnects, StreamMoves, EventArrives DEF Audit!AuditStep
  <1>5. ASSUME \E k \in 1..MaxSuggestions + 2, kind \in {"accept", "dismiss"} : Audit!Decide(k, kind)
        PROVE  AuditInv'
    BY <1>5, DecisionsMove
  <1>6. ASSUME NEW d \in 1..MaxDecisions,
               \/ Audit!DecisionServed(d) \/ Audit!PageWritten(d) \/ Audit!StatusWritten(d) \/ Audit!DecisionFails(d)
        PROVE  AuditInv'
    BY <1>6, DecisionsMove
  <1>7. ASSUME NEW d \in 1..MaxDecisions, Audit!DecisionReturns(d) PROVE AuditInv'
    BY <1>7, DecisionComesBack
  <1> QED BY <1>1, <1>2, <1>3, <1>4, <1>5, <1>6, <1>7 DEF Audit!AuditNext

LEMMA AuditHolds == AuditInv => Audit!AuditSafe
  BY DEF AuditInv, CardsHold, CardFits, Written, LineHolds, Audit!AuditSafe, Audit!AppliedWasWritten
-----------------------------------------------------------------------------
(* The graph of the organisation. *)

LEMMA GraphPageOpens == ViewsInit /\ onPage = "graph" => Graph!GraphInit
  BY DEF ViewsInit

LEMMA GraphPageMoves ==
    ASSUME [ViewsNext]_pagesVars, onPage' = "graph"
    PROVE  onPage = "graph" /\ [Graph!GraphNext]_(Graph!vars)
  BY DEF ViewsNext, pagesVars, Graph!vars, scope, dir, graph, layers, selected, trail, pointer, sim, fit, focus,
     resizing, picks

\* The focus layout has a place for every kind of node that the closure of a selection reaches.
LEMMA ClosureHasPlaces ==
    ASSUME NEW n \in Graph!Nodes, NEW x \in Graph!Nodes, x \in Graph!Related[n]
    PROVE  KindOf[x] \in Graph!PlacedKinds(n)
  <1>1. KindOf[n] \in {"person", "guest", "group", "ws", "vault", "page", "source"}
    BY GraphAssumption DEF Graph!Nodes
  <1>2. \A p, q : <<p, q>> \in Member => KindOf[p] = "person" /\ KindOf[q] = "group"
    BY GraphAssumption
  <1>3. \A p, q : <<p, q>> \in Access => KindOf[p] \in {"person", "group"} /\ KindOf[q] = "ws"
    BY GraphAssumption
  <1>4. \A p, q : <<p, q>> \in GuestOf => KindOf[p] = "guest" /\ KindOf[q] = "vault"
    BY GraphAssumption
  <1>5. \A p, q : <<p, q>> \in Linked => KindOf[p] \in {"page", "source"} /\ KindOf[q] = "page"
    BY GraphAssumption
  <1>6. \A S : \A w \in Graph!GrantedTo(S) : KindOf[w] = "ws"
    BY <1>3 DEF Graph!GrantedTo
  <1>7. \A W : \A v \in Graph!VaultsIn(W) : KindOf[v] = "vault"
    BY DEF Graph!VaultsIn, Graph!OfKind
  <1>8. CASE KindOf[n] = "person"
    <2>1. x \in Graph!GroupsOf(n) \/ (\E S : x \in Graph!GrantedTo(S)) \/ \E W : x \in Graph!VaultsIn(W)
      BY <1>8, Zenon DEF Graph!Related
    <2>2. KindOf[x] \in {"group", "ws", "vault"}
      BY <1>2, <1>6, <1>7, <2>1 DEF Graph!GroupsOf
    <2> QED BY <1>8, <2>2 DEF Graph!PlacedKinds
  <1>9. CASE KindOf[n] = "guest"
    <2>1. <<n, x>> \in GuestOf
      BY <1>9 DEF Graph!Related
    <2> QED BY <1>4, <1>9, <2>1 DEF Graph!PlacedKinds
  <1>10. CASE KindOf[n] = "group"
    <2>1. <<x, n>> \in Member \/ (\E S : x \in Graph!GrantedTo(S)) \/ \E W : x \in Graph!VaultsIn(W)
      BY <1>10 DEF Graph!Related
    <2>2. KindOf[x] \in {"person", "ws", "vault"}
      BY <1>2, <1>6, <1>7, <2>1
    <2> QED BY <1>10, <2>2 DEF Graph!PlacedKinds
  <1>11. CASE KindOf[n] = "ws"
    <2>1. \/ KindOf[x] \in Graph!Content \cup {"vault"}
          \/ <<x, n>> \in Access
          \/ \E g : <<x, g>> \in Member
      BY <1>11 DEF Graph!Related, Graph!OfKind, Graph!Holders, Graph!GroupsOf
    <2>2. KindOf[x] \in {"person", "group", "vault"} \cup Graph!Content
      BY <1>2, <1>3, <2>1
    <2> QED BY <1>11, <2>2 DEF Graph!PlacedKinds
  <1>12. CASE KindOf[n] = "vault"
    <2>1. \/ x = HomeWs[n]
          \/ KindOf[x] \in Graph!Content
          \/ <<x, n>> \in GuestOf
          \/ \E w : <<x, w>> \in Access
      BY <1>12 DEF Graph!Related, Graph!OfKind, Graph!Holders
    <2>2. KindOf[HomeWs[n]] = "ws"
      BY <1>12, GraphAssumption DEF Graph!Nodes
    <2>3. KindOf[x] \in {"person", "guest", "group", "ws"} \cup Graph!Content
      BY <1>3, <1>4, <2>1, <2>2
    <2> QED BY <1>12, <2>3 DEF Graph!PlacedKinds
  <1>13. CASE KindOf[n] \in {"page", "source"}
    <2>1. x = VaultOf[n] \/ <<x, n>> \in Linked \/ <<n, x>> \in Linked
      BY <1>13 DEF Graph!Related
    <2>2. KindOf[VaultOf[n]] = "vault"
      BY <1>13, GraphAssumption DEF Graph!Nodes
    <2>3. KindOf[x] \in {"vault"} \cup Graph!Content
      BY <1>5, <2>1, <2>2 DEF Graph!Content
    <2> QED BY <1>13, <2>3 DEF Graph!PlacedKinds
  <1> QED BY <1>1, <1>8, <1>9, <1>10, <1>11, <1>12, <1>13

\* The records keep their fields; whoever is pinned is held.
GraphShapes ==
    /\ dir \in DataSets /\ graph \subseteq Graph!Nodes
    /\ trail = [past |-> trail.past, ahead |-> trail.ahead, nav |-> trail.nav, skip |-> trail.skip]
    /\ trail.skip \in BOOLEAN
    /\ sim = [seeded |-> sim.seeded, nodes |-> sim.nodes, pinned |-> sim.pinned]
    /\ pointer # None => pointer \in [node : Graph!Nodes \cup {None}, moved : BOOLEAN]

GraphInv == GraphShapes /\ Graph!GraphSafe

LEMMA NoRequestIsNode == None \notin Graph!Nodes /\ Graph!Reset \notin Graph!Nodes /\ None # Graph!Reset
  BY GraphAssumption DEF Graph!Nodes, Graph!Reset

LEMMA BuiltOfNodes == ASSUME NEW s, NEW d \in DataSets PROVE Graph!Built(s, d) \subseteq Graph!Nodes
  BY GraphAssumption DEF Graph!Built, Graph!OfKind, Graph!Nodes

LEMMA GraphStarts == Graph!GraphInit => GraphInv
  <1> SUFFICES ASSUME Graph!GraphInit PROVE GraphInv
    OBVIOUS
  <1> USE DEF Graph!GraphInit
  <1>1. GraphShapes
    BY BuiltOfNodes DEF GraphShapes, Graph!NewTrail, Graph!NewSim
  <1>2. Graph!ViewFollowsSelection
    <2>1. selected = None /\ None \notin graph /\ fit = Graph!Reset /\ focus.id = None
      BY <1>1, NoRequestIsNode DEF GraphShapes, Graph!NoFocus
    <2> QED BY <2>1, NoRequestIsNode DEF Graph!ViewFollowsSelection
  <1>3. Graph!OnlyHeldNodePinned /\ Graph!SkipLosesNothing
    BY DEF Graph!OnlyHeldNodePinned, Graph!SkipLosesNothing, Graph!NewSim, Graph!NewTrail
  <1> QED BY <1>1, <1>2, <1>3 DEF GraphInv, Graph!GraphSafe

\* The effect on the selection: the trail keeps its fields, and skips only what was skipped.
LEMMA TrailIsRecorded ==
    ASSUME NEW t, NEW n, t = [past |-> t.past, ahead |-> t.ahead, nav |-> t.nav, skip |-> t.skip], t.skip \in BOOLEAN,
           trail' = Graph!Recorded(t, n)
    PROVE  /\ trail' = [past |-> trail'.past, ahead |-> trail'.ahead, nav |-> trail'.nav, skip |-> trail'.skip]
           /\ trail'.skip \in BOOLEAN
           /\ trail'.skip => n = selected /\ t.skip
  <1>1. CASE n = selected
    BY <1>1 DEF Graph!Recorded
  <1>2. CASE n # selected /\ t.skip
    <2>1. trail' = [past |-> t.past, ahead |-> t.ahead, nav |-> t.nav, skip |-> FALSE]
      BY <1>2 DEF Graph!Recorded
    <2> QED BY <2>1
  <1>3. CASE n # selected /\ ~t.skip /\ t.nav
    <2>1. trail' = [past |-> t.past, ahead |-> t.ahead, nav |-> FALSE, skip |-> FALSE]
      BY <1>3 DEF Graph!Recorded
    <2> QED BY <2>1
  <1>4. CASE n # selected /\ ~t.skip /\ ~t.nav
    <2>1. trail' = t \/ trail' = [t EXCEPT !.past = Append(t.past, selected), !.ahead = <<>>]
      BY <1>4 DEF Graph!Recorded
    <2>2. trail' = t \/ trail' = [past |-> Append(t.past, selected), ahead |-> <<>>, nav |-> t.nav, skip |-> t.skip]
      BY <2>1
    <2> QED BY <1>4, <2>2
  <1> QED BY <1>1, <1>2, <1>3, <1>4

\* A render of one scope brings layout and camera to the selection, or leaves all as it was.
LEMMA RenderFollows ==
    ASSUME GraphInv, NEW n, NEW l, NEW t, NEW touched, UNCHANGED <<scope, dir, graph>>,
           touched \/ l = layers, Graph!Render(n, l, t, touched)
    PROVE  Graph!ViewFollowsSelection'
  <1>0. graph \subseteq Graph!Nodes /\ Graph!ViewFollowsSelection /\ selected' = n
    BY DEF GraphInv, GraphShapes, Graph!GraphSafe, Graph!Render
  <1>1. CASE n # selected \/ touched
    <2>1. focus' = Graph!Focus(scope, layers', n, graph) /\ fit' = Graph!Request(n, graph)
      BY <1>1 DEF Graph!Render
    <2>2. CASE n \in graph
      <3>1. focus' = [id |-> n, placed |-> Graph!Placed(n, graph, Graph!Visible(scope, layers', n, graph))] /\ fit' = n
        BY <2>1, <2>2 DEF Graph!Focus, Graph!Request
      <3>2. n \in Graph!Nodes /\ n # Graph!Reset
        BY <1>0, <2>2, NoRequestIsNode
      <3>3. Graph!Shown' = Graph!Visible(scope, layers', n, graph)
        BY <1>0 DEF Graph!Shown, Graph!Visible, Graph!Reaches, Graph!PagesOn, Graph!InVault, Graph!Off
      <3>4. Graph!Closure(n, graph) \cap Graph!Shown' \subseteq Graph!Placed(n, graph, Graph!Visible(scope, layers', n, graph))
        <4> SUFFICES ASSUME NEW x \in Graph!Closure(n, graph) \cap Graph!Shown', x # n
                     PROVE  x \in Graph!Placed(n, graph, Graph!Visible(scope, layers', n, graph))
          BY DEF Graph!Placed
        <4>1. x \in Graph!Related[n] /\ x \in Graph!Nodes
          BY <1>0 DEF Graph!Closure
        <4>2. KindOf[x] \in Graph!PlacedKinds(n)
          BY <3>2, <4>1, ClosureHasPlaces
        <4> QED BY <3>3, <4>2 DEF Graph!Placed, Graph!OfKind
      <3>5. Graph!Closure(selected, graph)' = Graph!Closure(n, graph)
        BY <1>0 DEF Graph!Closure
      <3> QED BY <1>0, <2>2, <3>1, <3>2, <3>4, <3>5 DEF Graph!ViewFollowsSelection
    <2>3. CASE n \notin graph
      BY <1>0, <2>1, <2>3, NoRequestIsNode DEF Graph!Focus, Graph!Request, Graph!NoFocus, Graph!ViewFollowsSelection
    <2> QED BY <2>2, <2>3
  <1>2. CASE ~(n # selected \/ touched)
    <2>1. l = layers /\ n = selected
      BY <1>2
    <2>2. UNCHANGED <<scope, layers, selected, graph, focus, fit>>
      BY <1>2, <2>1 DEF Graph!Render, Graph!Released
    <2> QED BY <1>0, <2>2 DEF Graph!ViewFollowsSelection, Graph!Shown, Graph!Closure, Graph!Visible, Graph!Reaches,
       Graph!PagesOn, Graph!InVault, Graph!Off
  <1> QED BY <1>1, <1>2

\* A render with a trail that skips no more than the one before.
LEMMA SelectionRenders ==
    ASSUME GraphInv, NEW n, NEW l, NEW t, NEW touched, UNCHANGED <<scope, dir, graph>>,
           touched \/ l = layers, Graph!Render(n, l, t, touched),
           t = [past |-> t.past, ahead |-> t.ahead, nav |-> t.nav, skip |-> t.skip], t.skip = trail.skip,
           \/ UNCHANGED <<pointer, sim>>
           \/ pointer' = None /\ sim' = [sim EXCEPT !.pinned = @ \ {pointer.node}]
    PROVE  GraphInv'
  <1>0. GraphShapes /\ Graph!OnlyHeldNodePinned /\ Graph!SkipLosesNothing
    BY DEF GraphInv, Graph!GraphSafe
  <1>1. Graph!ViewFollowsSelection'
    BY RenderFollows
  <1>2. /\ trail' = [past |-> trail'.past, ahead |-> trail'.ahead, nav |-> trail'.nav, skip |-> trail'.skip]
        /\ trail'.skip \in BOOLEAN
        /\ trail'.skip => n = selected /\ t.skip
    BY <1>0, TrailIsRecorded DEF Graph!Render, GraphShapes
  <1>3. Graph!SkipLosesNothing'
    BY <1>0, <1>2 DEF Graph!SkipLosesNothing, Graph!Render
  <1>4. GraphShapes' /\ Graph!OnlyHeldNodePinned'
    <2>1. CASE UNCHANGED <<pointer, sim>>
      BY <1>0, <1>2, <2>1 DEF GraphShapes, Graph!OnlyHeldNodePinned
    <2>2. CASE pointer' = None /\ sim' = [sim EXCEPT !.pinned = @ \ {pointer.node}]
      <3>1. sim' = [seeded |-> sim.seeded, nodes |-> sim.nodes, pinned |-> sim.pinned \ {pointer.node}]
        BY <1>0, <2>2 DEF GraphShapes
      <3>2. sim'.pinned = {}
        BY <1>0, <3>1 DEF Graph!OnlyHeldNodePinned
      <3>3. sim' = [seeded |-> sim'.seeded, nodes |-> sim'.nodes, pinned |-> sim'.pinned]
        BY <3>1
      <3> QED BY <1>0, <1>2, <2>2, <3>2, <3>3 DEF GraphShapes, Graph!OnlyHeldNodePinned
    <2> QED BY <2>1, <2>2
  <1> QED BY <1>1, <1>3, <1>4 DEF GraphInv, Graph!GraphSafe

\* A node is chosen, in the search, the inspector or the graph; a source with its layer.
LEMMA NodeIsChosen == ASSUME GraphInv, NEW n, Graph!Go(n) PROVE GraphInv'
  <1>1. PICK source, l :
          /\ source = (KindOf[n] = "source") /\ (source \/ l = layers)
          /\ Graph!Render(n, l, trail, source)
    BY DEF Graph!Go
  <1>2. UNCHANGED <<scope, dir, graph, pointer, sim>>
    BY DEF Graph!Go
  <1>3. trail = [past |-> trail.past, ahead |-> trail.ahead, nav |-> trail.nav, skip |-> trail.skip]
    BY DEF GraphInv, GraphShapes
  <1> QED BY <1>1, <1>2, <1>3, SelectionRenders

LEMMA SelectionMoves ==
    ASSUME GraphInv,
           \/ \E n \in Graph!Nodes : Graph!Search(n) \/ Graph!Inspect(n) \/ Graph!ClickEdge(n)
           \/ Graph!CloseInspector \/ Graph!GoBack \/ Graph!GoForward
    PROVE  GraphInv'
  <1>0. trail = [past |-> trail.past, ahead |-> trail.ahead, nav |-> trail.nav, skip |-> trail.skip]
    BY DEF GraphInv, GraphShapes
  <1>1. ASSUME NEW n, Graph!Search(n) \/ Graph!Inspect(n) \/ Graph!ClickEdge(n) PROVE GraphInv'
    BY <1>1, NodeIsChosen DEF Graph!Search, Graph!Inspect, Graph!ClickEdge
  <1>2. CASE Graph!CloseInspector
    <2>1. Graph!Render(None, layers, trail, FALSE) /\ UNCHANGED <<scope, dir, graph, pointer, sim>>
      BY <1>2 DEF Graph!CloseInspector
    <2> QED BY <1>0, <2>1, SelectionRenders
  <1>3. CASE Graph!GoBack
    <2>1. PICK n, p, a, t :
            /\ t = [trail EXCEPT !.nav = TRUE, !.past = p, !.ahead = a] /\ Graph!Render(n, layers, t, FALSE)
            /\ UNCHANGED <<scope, dir, graph, pointer, sim>>
      BY <1>3 DEF Graph!GoBack
    <2>2. PICK b, f, v, k : trail = [past |-> b, ahead |-> f, nav |-> v, skip |-> k]
      BY <1>0
    <2>3. t = [past |-> p, ahead |-> a, nav |-> TRUE, skip |-> k]
      BY <2>1, <2>2
    <2>4. t = [past |-> t.past, ahead |-> t.ahead, nav |-> t.nav, skip |-> t.skip] /\ t.skip = trail.skip
      BY <2>2, <2>3
    <2> QED BY <2>1, <2>4, SelectionRenders
  <1>4. CASE Graph!GoForward
    <2>1. PICK n, p, a, t :
            /\ t = [trail EXCEPT !.nav = TRUE, !.ahead = a, !.past = p] /\ Graph!Render(n, layers, t, FALSE)
            /\ UNCHANGED <<scope, dir, graph, pointer, sim>>
      BY <1>4 DEF Graph!GoForward
    <2>2. PICK b, f, v, k : trail = [past |-> b, ahead |-> f, nav |-> v, skip |-> k]
      BY <1>0
    <2>3. t = [past |-> p, ahead |-> a, nav |-> TRUE, skip |-> k]
      BY <2>1, <2>2
    <2>4. t = [past |-> t.past, ahead |-> t.ahead, nav |-> t.nav, skip |-> t.skip] /\ t.skip = trail.skip
      BY <2>2, <2>3
    <2> QED BY <2>1, <2>4, SelectionRenders
  <1> QED BY <1>1, <1>2, <1>3, <1>4

\* The layers that are shown change, and with them the places of what is selected.
LEMMA LayersChange ==
    ASSUME GraphInv, Graph!ToggleLayer \/ Graph!TogglePages \/ \E w \in Graph!Nodes : Graph!IsolateWs(w)
    PROVE  GraphInv'
  <1>1. PICK l : Graph!SetLayers(l)
    BY DEF Graph!ToggleLayer, Graph!TogglePages, Graph!IsolateWs
  <1>2. Graph!Render(selected, l, trail, TRUE) /\ UNCHANGED <<scope, dir, graph, pointer, sim>>
    BY <1>1 DEF Graph!SetLayers
  <1>3. trail = [past |-> trail.past, ahead |-> trail.ahead, nav |-> trail.nav, skip |-> trail.skip]
    BY DEF GraphInv, GraphShapes
  <1> QED BY <1>2, <1>3, SelectionRenders

\* Nothing is selected, and nothing of it shown: the view follows.
LEMMA NothingIsSelected ==
    ASSUME graph' \subseteq Graph!Nodes, selected' = None, focus'.id = None, fit' \in {None, Graph!Reset}
    PROVE  Graph!ViewFollowsSelection'
  BY NoRequestIsNode DEF Graph!ViewFollowsSelection

LEMMA TrailIsDropped == ASSUME GraphInv, Graph!RerunReset PROVE GraphInv'
  <1>0. GraphShapes /\ Graph!OnlyHeldNodePinned /\ Graph!ViewFollowsSelection /\ UNCHANGED <<dir, graph, pointer>>
    BY DEF GraphInv, Graph!GraphSafe, Graph!RerunReset
  <1>1. PICK t : t = [trail EXCEPT !.past = <<>>, !.ahead = <<>>, !.skip = TRUE]
    OBVIOUS
  <1>2. t = [past |-> <<>>, ahead |-> <<>>, nav |-> trail.nav, skip |-> TRUE]
    BY <1>0, <1>1 DEF GraphShapes
  <1>3. trail' = Graph!Recorded(t, None) /\ selected' = None
    BY <1>1 DEF Graph!RerunReset
  <1>4. /\ trail' = [past |-> trail'.past, ahead |-> trail'.ahead, nav |-> trail'.nav, skip |-> trail'.skip]
        /\ trail'.skip \in BOOLEAN
    BY <1>2, <1>3, TrailIsRecorded
  <1>5. sim' = [seeded |-> None, nodes |-> sim.nodes, pinned |-> sim.pinned]
    BY <1>0 DEF Graph!RerunReset, GraphShapes
  <1>6. /\ sim' = [seeded |-> sim'.seeded, nodes |-> sim'.nodes, pinned |-> sim'.pinned]
        /\ sim'.pinned = sim.pinned
    BY <1>5
  <1>7. GraphShapes'
    BY <1>0, <1>4, <1>6 DEF GraphShapes
  <1>8. Graph!ViewFollowsSelection'
    <2>1. focus'.id = None /\ fit' \in {None, Graph!Reset}
      <3>1. CASE selected # None
        BY <3>1 DEF Graph!RerunReset, Graph!NoFocus
      <3>2. CASE selected = None
        <4>1. None \notin graph
          BY <1>0, NoRequestIsNode DEF GraphShapes
        <4> QED BY <1>0, <3>2, <4>1 DEF Graph!RerunReset, Graph!ViewFollowsSelection
      <3> QED BY <3>1, <3>2
    <2> QED BY <1>3, <1>7, <2>1, NothingIsSelected DEF GraphShapes
  <1>9. Graph!OnlyHeldNodePinned' /\ Graph!SkipLosesNothing'
    BY <1>0, <1>3, <1>6 DEF Graph!OnlyHeldNodePinned, Graph!SkipLosesNothing
  <1> QED BY <1>7, <1>8, <1>9 DEF GraphInv, Graph!GraphSafe

LEMMA ScopeChanges == ASSUME GraphInv, NEW s, Graph!ChangeScope(s) PROVE GraphInv'
  <1>0. /\ GraphShapes /\ Graph!OnlyHeldNodePinned /\ Graph!SkipLosesNothing
        /\ dir' = dir /\ selected' = None /\ fit' = Graph!Reset /\ focus' = Graph!NoFocus
    BY DEF GraphInv, Graph!GraphSafe, Graph!ChangeScope
  <1>1. dir' \in DataSets /\ graph' \subseteq Graph!Nodes
    BY <1>0, BuiltOfNodes DEF GraphShapes, Graph!ChangeScope
  <1>2. Graph!ViewFollowsSelection'
    BY <1>0, <1>1, NothingIsSelected DEF Graph!NoFocus
  <1>3. Graph!SkipLosesNothing'
    BY <1>0 DEF Graph!SkipLosesNothing
  <1>4. CASE trail' = Graph!Recorded(trail, None) /\ UNCHANGED <<pointer, sim>>
    <2>1. /\ trail' = [past |-> trail'.past, ahead |-> trail'.ahead, nav |-> trail'.nav, skip |-> trail'.skip]
          /\ trail'.skip \in BOOLEAN
      BY <1>0, <1>4, TrailIsRecorded DEF GraphShapes
    <2>2. GraphShapes' /\ Graph!OnlyHeldNodePinned'
      BY <1>0, <1>1, <1>4, <2>1 DEF GraphShapes, Graph!OnlyHeldNodePinned
    <2> QED BY <1>2, <1>3, <2>2 DEF GraphInv, Graph!GraphSafe
  <1>5. CASE trail' = Graph!NewTrail /\ pointer' = None /\ sim' = Graph!NewSim
    <2>1. GraphShapes' /\ Graph!OnlyHeldNodePinned'
      BY <1>1, <1>5 DEF GraphShapes, Graph!OnlyHeldNodePinned, Graph!NewTrail, Graph!NewSim
    <2> QED BY <1>2, <1>3, <2>1 DEF GraphInv, Graph!GraphSafe
  <1> QED BY <1>4, <1>5 DEF Graph!ChangeScope

\* What keeps the selection and what is shown of it keeps the view about it, or drops a request.
LEMMA ViewStays ==
    ASSUME Graph!ViewFollowsSelection, UNCHANGED <<scope, graph, layers, selected, focus>>,
           \/ fit' = fit \/ fit' = None
           \/ fit' \in {Graph!Reset, selected} /\ (fit' = Graph!Reset => selected \notin graph)
    PROVE  Graph!ViewFollowsSelection'
  <1>1. Graph!Shown' = Graph!Shown /\ Graph!Closure(selected, graph)' = Graph!Closure(selected, graph)
    BY DEF Graph!Shown, Graph!Closure, Graph!Visible, Graph!Reaches, Graph!PagesOn, Graph!InVault, Graph!Off
  <1>2. /\ fit' \in Graph!Nodes => fit' = selected'
        /\ fit' = Graph!Reset => selected' \notin graph'
    BY NoRequestIsNode DEF Graph!ViewFollowsSelection
  <1> QED BY <1>1, <1>2 DEF Graph!ViewFollowsSelection

LEMMA PointerActs ==
    ASSUME GraphInv,
           \/ \E n \in Graph!Nodes : Graph!NodeDown(n)
           \/ Graph!BackgroundDown \/ Graph!PointerMoves
    PROVE  GraphInv'
  <1>0. /\ GraphShapes /\ Graph!GraphSafe /\ UNCHANGED <<scope, dir, graph, layers, selected, trail, focus>>
        /\ (fit' = fit \/ fit' = None)
    BY DEF GraphInv, Graph!NodeDown, Graph!BackgroundDown, Graph!PointerMoves
  <1>1. Graph!ViewFollowsSelection' /\ Graph!SkipLosesNothing'
    BY <1>0, ViewStays DEF Graph!GraphSafe, Graph!SkipLosesNothing
  <1>2. ASSUME NEW n \in Graph!Nodes \cup {None}, pointer = None, pointer' = [node |-> n, moved |-> FALSE], sim' = sim
        PROVE  GraphShapes' /\ Graph!OnlyHeldNodePinned'
    BY <1>0, <1>2 DEF GraphShapes, Graph!GraphSafe, Graph!OnlyHeldNodePinned
  <1>3. ASSUME Graph!PointerMoves PROVE GraphShapes' /\ Graph!OnlyHeldNodePinned'
    <2>0. pointer # None /\ pointer \in [node : Graph!Nodes \cup {None}, moved : BOOLEAN]
      BY <1>0, <1>3 DEF Graph!PointerMoves, GraphShapes
    <2>1. PICK far \in BOOLEAN : pointer' = [pointer EXCEPT !.moved = @ \/ far]
      BY <1>3 DEF Graph!PointerMoves
    <2>2. PICK b \in BOOLEAN : b = (pointer.moved \/ far)
      <3>1. pointer.moved \in BOOLEAN
        BY <2>0
      <3> QED BY <2>1, <3>1, Zenon
    <2>3. pointer' = [node |-> pointer.node, moved |-> b]
      BY <2>0, <2>1, <2>2
    <2>4. pointer' \in [node : Graph!Nodes \cup {None}, moved : BOOLEAN] /\ pointer'.node = pointer.node
      BY <2>0, <2>2, <2>3
    <2>5. pointer' # None
      BY <2>4, GraphAssumption DEF Graph!Nodes
    <2>6. PICK P \in SUBSET {pointer.node} : sim' = sim \/ sim' = [sim EXCEPT !.pinned = @ \cup P]
      BY <1>3 DEF Graph!PointerMoves
    <2>7. \/ sim' = sim
          \/ sim' = [seeded |-> sim.seeded, nodes |-> sim.nodes, pinned |-> sim.pinned \cup P]
      BY <1>0, <2>6 DEF GraphShapes
    <2>8. /\ sim' = [seeded |-> sim'.seeded, nodes |-> sim'.nodes, pinned |-> sim'.pinned]
          /\ sim'.pinned \subseteq sim.pinned \cup {pointer.node}
      BY <1>0, <2>6, <2>7 DEF GraphShapes
    <2>9. Graph!OnlyHeldNodePinned'
      BY <1>0, <2>4, <2>5, <2>8 DEF Graph!GraphSafe, Graph!OnlyHeldNodePinned
    <2> QED BY <1>0, <2>4, <2>8, <2>9 DEF GraphShapes
  <1>4. GraphShapes' /\ Graph!OnlyHeldNodePinned'
    BY <1>2, <1>3 DEF Graph!NodeDown, Graph!BackgroundDown
  <1> QED BY <1>1, <1>4 DEF GraphInv, Graph!GraphSafe

\* The pointer is lifted: a drag ends, or the node was clicked.
LEMMA PointerLeaves == ASSUME GraphInv, Graph!PointerUp PROVE GraphInv'
  <1>0. /\ GraphShapes /\ Graph!GraphSafe /\ UNCHANGED <<scope, dir, graph>> /\ pointer' = None
        /\ sim' = [sim EXCEPT !.pinned = @ \ {pointer.node}]
    BY DEF GraphInv, Graph!PointerUp
  <1>1. CASE UNCHANGED <<selected, trail, layers, fit, focus>>
    <2>1. sim' = [seeded |-> sim.seeded, nodes |-> sim.nodes, pinned |-> sim.pinned \ {pointer.node}]
      BY <1>0 DEF GraphShapes
    <2>2. sim' = [seeded |-> sim'.seeded, nodes |-> sim'.nodes, pinned |-> sim'.pinned] /\ sim'.pinned = {}
      BY <1>0, <2>1 DEF Graph!GraphSafe, Graph!OnlyHeldNodePinned
    <2>3. Graph!ViewFollowsSelection'
      BY <1>0, <1>1, ViewStays DEF Graph!GraphSafe
    <2>4. GraphShapes' /\ Graph!OnlyHeldNodePinned' /\ Graph!SkipLosesNothing'
      BY <1>0, <1>1, <2>2 DEF GraphShapes, Graph!GraphSafe, Graph!OnlyHeldNodePinned, Graph!SkipLosesNothing
    <2> QED BY <2>3, <2>4 DEF GraphInv, Graph!GraphSafe
  <1>2. CASE Graph!Render(IF pointer.node = selected THEN None ELSE pointer.node, layers, trail, FALSE)
    <2>1. PICK n : Graph!Render(n, layers, trail, FALSE)
      BY <1>2
    <2>2. trail = [past |-> trail.past, ahead |-> trail.ahead, nav |-> trail.nav, skip |-> trail.skip]
      BY <1>0 DEF GraphShapes
    <2> QED BY <1>0, <2>1, <2>2, SelectionRenders
  <1> QED BY <1>1, <1>2 DEF Graph!PointerUp

LEMMA ViewPaints ==
    ASSUME GraphInv, Graph!DataComes \/ Graph!Frame \/ Graph!Zoom \/ Graph!Resize \/ Graph!ResizeSettles
    PROVE  GraphInv'
  <1>0. /\ GraphShapes /\ Graph!GraphSafe /\ UNCHANGED <<scope, graph, layers, selected, trail, pointer, focus>>
        /\ dir' \in DataSets
    BY DEF GraphInv, GraphShapes, Graph!DataComes, Graph!Frame, Graph!Zoom, Graph!Resize, Graph!ResizeSettles
  <1>1. Graph!ViewFollowsSelection'
    <2>1. CASE fit' = fit \/ fit' = None
      BY <1>0, <2>1, ViewStays DEF Graph!GraphSafe
    <2>2. CASE fit' = IF selected = None THEN Graph!Reset ELSE selected
      <3>1. fit' \in {Graph!Reset, selected} /\ (fit' = Graph!Reset => selected \notin graph)
        BY <1>0, <2>2, NoRequestIsNode DEF GraphShapes
      <3> QED BY <1>0, <3>1, ViewStays DEF Graph!GraphSafe
    <2> QED BY <2>1, <2>2 DEF Graph!DataComes, Graph!Frame, Graph!Zoom, Graph!Resize, Graph!ResizeSettles
  <1>2. /\ sim' = [seeded |-> sim'.seeded, nodes |-> sim'.nodes, pinned |-> sim'.pinned]
        /\ sim'.pinned \subseteq sim.pinned
    <2>1. CASE sim' = sim
      BY <1>0, <2>1 DEF GraphShapes
    <2>2. CASE sim' = [seeded |-> scope, nodes |-> graph, pinned |-> {}]
      BY <2>2
    <2>3. CASE sim' = [sim EXCEPT !.seeded = None]
      <3>1. sim' = [seeded |-> None, nodes |-> sim.nodes, pinned |-> sim.pinned]
        BY <1>0, <2>3 DEF GraphShapes
      <3> QED BY <3>1
    <2> QED BY <2>1, <2>2, <2>3 DEF Graph!DataComes, Graph!Frame, Graph!Zoom, Graph!Resize, Graph!ResizeSettles
  <1>3. GraphShapes' /\ Graph!OnlyHeldNodePinned' /\ Graph!SkipLosesNothing'
    BY <1>0, <1>2 DEF GraphShapes, Graph!GraphSafe, Graph!OnlyHeldNodePinned, Graph!SkipLosesNothing
  <1> QED BY <1>1, <1>3 DEF GraphInv, Graph!GraphSafe

LEMMA GraphStep == ASSUME GraphInv, [Graph!GraphNext]_(Graph!vars) PROVE GraphInv'
  <1>1. CASE UNCHANGED Graph!vars
    <2>1. GraphShapes' /\ Graph!OnlyHeldNodePinned' /\ Graph!SkipLosesNothing'
      BY <1>1 DEF Graph!vars, GraphInv, GraphShapes, Graph!GraphSafe, Graph!OnlyHeldNodePinned, Graph!SkipLosesNothing
    <2>2. Graph!ViewFollowsSelection'
      BY <1>1, ViewStays DEF Graph!vars, GraphInv, Graph!GraphSafe
    <2> QED BY <2>1, <2>2 DEF GraphInv, Graph!GraphSafe
  <1>2. ASSUME \/ \E n \in Graph!Nodes : Graph!Search(n) \/ Graph!Inspect(n) \/ Graph!ClickEdge(n)
               \/ Graph!CloseInspector \/ Graph!GoBack \/ Graph!GoForward
        PROVE  GraphInv'
    BY <1>2, SelectionMoves
  <1>3. ASSUME Graph!RerunReset PROVE GraphInv'
    BY <1>3, TrailIsDropped
  <1>4. ASSUME Graph!ToggleLayer \/ Graph!TogglePages \/ \E w \in Graph!Nodes : Graph!IsolateWs(w) PROVE GraphInv'
    BY <1>4, LayersChange
  <1>5. ASSUME NEW s, Graph!ChangeScope(s) PROVE GraphInv'
    BY <1>5, ScopeChanges
  <1>6. ASSUME \/ \E n \in Graph!Nodes : Graph!NodeDown(n)
               \/ Graph!BackgroundDown \/ Graph!PointerMoves
        PROVE  GraphInv'
    BY <1>6, PointerActs
  <1>7. ASSUME Graph!PointerUp PROVE GraphInv'
    BY <1>7, PointerLeaves
  <1>8. ASSUME Graph!DataComes \/ Graph!Frame \/ Graph!Zoom \/ Graph!Resize \/ Graph!ResizeSettles PROVE GraphInv'
    BY <1>8, ViewPaints
  <1> QED BY <1>1, <1>2, <1>3, <1>4, <1>5, <1>6, <1>7, <1>8 DEF Graph!GraphNext

LEMMA GraphHolds == GraphInv => Graph!GraphSafe
  BY DEF GraphInv
-----------------------------------------------------------------------------
(* The timeline. *)

\* A product grows with its factor.
LEMMA ProductGrows ==
    ASSUME NEW p \in Int, NEW q \in Int, NEW d \in Nat \ {0}, p + 1 <= q
    PROVE  p * d + d <= q * d
  <1>1. PICK e \in Nat : q = p + 1 + e
    <2>1. q - p - 1 \in Nat /\ q = p + 1 + (q - p - 1)
      OBVIOUS
    <2> QED BY <2>1
  <1>2. q * d = p * d + d + e * d
    BY <1>1
  <1>3. e * d >= 0
    OBVIOUS
  <1>4. p * d \in Int /\ q * d \in Int /\ e * d \in Int
    OBVIOUS
  <1> QED BY <1>2, <1>3, <1>4

\* Whole and rest of a division.
LEMMA Division ==
    ASSUME NEW x \in Int, NEW d \in Nat \ {0}
    PROVE  /\ x \div d \in Int /\ x % d \in 0..(d - 1)
           /\ x = (x \div d) * d + (x % d)
  OBVIOUS

LEMMA WholeAndRest ==
    ASSUME NEW q \in Int, NEW d \in Nat \ {0}, NEW r \in 0..(d - 1)
    PROVE  (q * d + r) \div d = q /\ (q * d + r) % d = r
  <1>1. PICK x \in Int : x = q * d + r
    OBVIOUS
  <1>2. PICK p \in Int : p = x \div d
    BY Division
  <1>3. PICK m \in 0..(d - 1) : m = x % d
    BY Division
  <1>4. q * d + r = p * d + m
    BY <1>1, <1>2, <1>3, Division
  <1>5. q * d \in Int /\ p * d \in Int
    OBVIOUS
  <1>6. ~(p + 1 <= q)
    BY <1>4, <1>5, ProductGrows
  <1>7. ~(q + 1 <= p)
    BY <1>4, <1>5, ProductGrows
  <1>8. p = q
    BY <1>6, <1>7
  <1> QED BY <1>1, <1>2, <1>3, <1>4, <1>5, <1>8

LEMMA DivisionKeepsOrder ==
    ASSUME NEW a \in Int, NEW b \in Int, NEW d \in Nat \ {0}, a <= b
    PROVE  a \div d <= b \div d
  <1>1. PICK p \in Int : p = a \div d
    BY Division
  <1>2. PICK q \in Int : q = b \div d
    BY Division
  <1>3. PICK m \in 0..(d - 1) : a = p * d + m
    BY <1>1, Division
  <1>4. PICK n \in 0..(d - 1) : b = q * d + n
    BY <1>2, Division
  <1>5. q * d \in Int /\ p * d \in Int
    OBVIOUS
  <1>6. ~(q + 1 <= p)
    BY <1>3, <1>4, <1>5, ProductGrows
  <1> QED BY <1>1, <1>2, <1>6

LEMMA TimelinePageOpens == ViewsInit /\ onPage = "timeline" => Timeline!TimelineInit
  BY DEF ViewsInit

LEMMA TimelinePageMoves ==
    ASSUME [ViewsNext]_pagesVars, onPage' = "timeline"
    PROVE  onPage = "timeline" /\ [Timeline!TimelineNext]_(Timeline!vars)
  BY DEF ViewsNext, pagesVars, Timeline!vars, width, lens, scroll, lensDrag, calendar, aim, narrowed, timelineTurns

\* The strip has a lens from its first width on, and only then something to aim at.
StripHolds ==
    /\ width \in Nat /\ scroll \in Int /\ narrowed \in BOOLEAN
    /\ width = 0 => lens = None /\ aim = None
    /\ width # 0 => lens # None /\ lens \in Int \X Int

\* The lens is within the window, as long as that was not made narrower.
LensHolds == (lens # None /\ ~narrowed) => 0 <= lens[1] /\ lens[1] + MinLens <= lens[2] /\ lens[2] <= width

DragHolds == lensDrag # None => width # 0 /\ lensDrag \in [mode : {"pan", "start", "end"}, base : Int]

CalendarRows ==
    [mode : {"days", "months", "years"}, year : Int, mon : 0..(YearLength - 1), base : Int, at : Int]
CalendarHolds ==
    calendar # None => width # 0 /\ calendar \in CalendarRows /\ Timeline!CalendarKeepsCount

TimelineInv == StripHolds /\ LensHolds /\ DragHolds /\ CalendarHolds /\ Timeline!AimedDayInView

LEMMA TimelineSizes ==
    /\ Days \in Nat \ {0} /\ DayWidth \in Nat \ {0} /\ DayPad \in Nat /\ 2 * DayPad <= DayWidth
    /\ Today \in 0..(Days - 1) /\ NowX \in Int /\ MinLens \in Nat /\ LeastLens \in Nat /\ MostLens \in Nat
    /\ MinLens <= LeastLens /\ LeastLens <= MostLens
    /\ YearLength \in Nat \ {0} /\ MonthLength \in Nat \ {0} /\ WindowStart \in Int
  BY TimelineAssumption

LEMMA TimelineStarts == Timeline!TimelineInit => TimelineInv
  <1> SUFFICES ASSUME Timeline!TimelineInit PROVE TimelineInv
    OBVIOUS
  <1> USE DEF Timeline!TimelineInit
  <1>1. scroll \in Int
    BY TimelineSizes DEF Timeline!Most
  <1>3. StripHolds
    BY <1>1 DEF StripHolds
  <1>2. LensHolds /\ DragHolds /\ CalendarHolds /\ Timeline!AimedDayInView
    BY DEF LensHolds, DragHolds, CalendarHolds, Timeline!AimedDayInView
  <1> QED BY <1>2, <1>3 DEF TimelineInv

\* Where the strip is told to bring a place under the lens, the day of that place is in view, or
\* the strip is at its end.
LEMMA PlaceComesUnderLens ==
    ASSUME StripHolds, width # 0, width' = width, lens' = lens,
           NEW x \in Int, NEW day \in 0..(Days - 1), NEW all \in BOOLEAN, x \div DayWidth = day,
           all => x = day * DayWidth + DayWidth \div 2,
           scroll' = Timeline!InStrip(x - Timeline!CentreLens), aim' = [day |-> day, whole |-> all]
    PROVE  scroll' \in Int /\ Timeline!AimedDayInView'
  <1>1. PICK a \in Int, b \in Int : lens = <<a, b>>
    BY DEF StripHolds
  <1>2. lens # None /\ lens' # None /\ lens'[1] = a /\ lens'[2] = b
    BY <1>1 DEF StripHolds
  <1>3. PICK c \in Int : c = (a + b) \div 2
    BY Division
  <1>4. Timeline!CentreLens = c
    BY <1>1, <1>2, <1>3 DEF Timeline!CentreLens
  <1>5. PICK most \in Int : most = Timeline!Total - width
    <2>1. Days * DayWidth \in Int /\ width \in Int
      BY TimelineSizes DEF StripHolds
    <2> QED BY <2>1 DEF Timeline!Total
  <1>6. PICK s \in Int : s = scroll' /\ s = Timeline!Clamp(x - c, most)
    BY <1>4, <1>5 DEF Timeline!InStrip, Timeline!Clamp, Timeline!Most, Timeline!Least
  <1>7. Timeline!Lo' = s + a /\ Timeline!Hi' = s + b
    BY <1>2, <1>6 DEF Timeline!Lo, Timeline!Hi
  <1>8. (Timeline!Lo' + Timeline!Hi') \div 2 = s + c
    BY <1>3, <1>7
  <1>9. PICK f : f = Timeline!Focus' /\ f = Timeline!DayAt(s + c)
    BY <1>8 DEF Timeline!Focus, Timeline!DayAt
  <1>10. PICK q \in Int : q = (s + c) \div DayWidth
    <2>1. s + c \in Int /\ DayWidth \in Nat \ {0}
      BY TimelineSizes
    <2> QED BY <2>1, Division
  <1>11. f = Timeline!Clamp(q, Days - 1)
    BY <1>9, <1>10 DEF Timeline!DayAt
  <1>12. (x <= s + c => day <= f) /\ (s + c <= x => f <= day)
    <2>1. x <= s + c => day <= q
      BY <1>10, TimelineSizes, DivisionKeepsOrder
    <2>2. s + c <= x => q <= day
      BY <1>10, TimelineSizes, DivisionKeepsOrder
    <2> QED BY <1>11, <2>1, <2>2, TimelineSizes DEF Timeline!Clamp, Timeline!Most, Timeline!Least
  <1>13. \/ s = 0 /\ x <= s + c
         \/ s = Timeline!Most(0, most) /\ s + c <= x
         \/ s + c = x
    BY <1>6 DEF Timeline!Clamp, Timeline!Most, Timeline!Least
  <1>14. ASSUME s + c = x, all, DayWidth - 2 * DayPad <= Timeline!Hi' - Timeline!Lo'
         PROVE  {m \in Marks : m.day = day} \subseteq Timeline!Visible'
    <2> SUFFICES ASSUME NEW m \in Marks, m.day = day PROVE m \in Timeline!Visible'
      OBVIOUS
    <2>1. PICK y \in Int : y = Timeline!Clamp(m.x, DayWidth - 2 * DayPad) /\ 0 <= y /\ y <= DayWidth - 2 * DayPad
      BY TimelineSizes, TimelineAssumption DEF Timeline!Clamp, Timeline!Most, Timeline!Least
    <2>2. PICK k \in Int : k = day * DayWidth
      BY TimelineSizes
    <2>3. Timeline!XOf(m) = k + DayPad + y
      BY <2>1, <2>2 DEF Timeline!XOf
    <2>4. s + c = k + DayWidth \div 2
      BY <1>14, <2>2
    <2>5. s + a <= k + DayPad + y /\ k + DayPad + y <= s + b
      BY <1>3, <1>7, <1>14, <2>1, <2>4, TimelineSizes
    <2> QED BY <1>7, <2>3, <2>5 DEF Timeline!Visible, Timeline!XOf
  <1>15. aim'.day = day /\ aim'.whole = all /\ Timeline!Most(0, Timeline!Total - width)' = Timeline!Most(0, most)
    BY <1>5 DEF Timeline!Total, Timeline!Most
  <1>16. ASSUME s = 0 /\ x <= s + c PROVE Timeline!AimedDayInView'
    BY <1>6, <1>9, <1>12, <1>15, <1>16 DEF Timeline!AimedDayInView
  <1>17. ASSUME s = Timeline!Most(0, most) /\ s + c <= x PROVE Timeline!AimedDayInView'
    BY <1>6, <1>9, <1>12, <1>15, <1>17 DEF Timeline!AimedDayInView
  <1>18. ASSUME s + c = x PROVE Timeline!AimedDayInView'
    <2>1. day = Timeline!Focus'
      BY <1>9, <1>11, <1>12, <1>18, TimelineSizes DEF Timeline!Clamp, Timeline!Most, Timeline!Least
    <2> QED BY <1>14, <1>15, <1>18, <2>1 DEF Timeline!AimedDayInView
  <1>19. Timeline!AimedDayInView'
    BY <1>13, <1>16, <1>17, <1>18
  <1> QED BY <1>6, <1>19

LEMMA StripIsANumber == ASSUME StripHolds, NEW x \in Int PROVE Timeline!InStrip(x) \in Int
  <1>1. PICK most \in Int : most = Timeline!Total - width
    <2>1. Days * DayWidth \in Int /\ width \in Int
      BY TimelineSizes DEF StripHolds
    <2> QED BY <2>1 DEF Timeline!Total
  <1> QED BY <1>1 DEF Timeline!InStrip, Timeline!Clamp, Timeline!Most, Timeline!Least

LEMMA AimStays ==
    ASSUME Timeline!AimedDayInView, UNCHANGED <<width, lens, scroll, aim>>
    PROVE  Timeline!AimedDayInView'
  BY DEF Timeline!AimedDayInView, Timeline!Focus, Timeline!Lo, Timeline!Hi, Timeline!Visible, Timeline!XOf,
     Timeline!DayAt, Timeline!Total

\* The first width places the lens, within the window.
LEMMA LensIsPlaced == ASSUME TimelineInv, NEW w \in StripWidths, Timeline!Measure(w) PROVE TimelineInv'
  <1>0. StripHolds /\ width = 0 /\ lens = None /\ aim' = None /\ lensDrag = None /\ calendar = None
    BY DEF TimelineInv, StripHolds, DragHolds, CalendarHolds, Timeline!Measure
  <1>1. w \in Nat \ {0} /\ LeastLens <= w
    BY TimelineAssumption
  <1>2. PICK size \in Int : /\ size = Timeline!Least(MostLens, Timeline!Most(LeastLens, (w * 2) \div 5))
                            /\ MinLens <= size /\ size <= w
    BY <1>1, TimelineSizes DEF Timeline!Least, Timeline!Most
  <1>3. PICK left \in Int : left = (w - size) \div 2 /\ 0 <= left /\ left + size <= w
    BY <1>1, <1>2
  <1>4. lens' = <<left, left + size>> /\ width' = w
    BY <1>2, <1>3 DEF Timeline!Measure
  <1>5. scroll' \in Int
    <2>1. scroll' = Timeline!Clamp(NowX - (left + size \div 2), Timeline!Total - w)
      BY <1>2, <1>3 DEF Timeline!Measure
    <2>2. PICK most \in Int : most = Timeline!Total - w
      <3>1. Days * DayWidth \in Int
        BY TimelineSizes
      <3> QED BY <1>1, <3>1 DEF Timeline!Total
    <2>3. NowX - (left + size \div 2) \in Int
      BY TimelineSizes
    <2> QED BY <2>1, <2>2, <2>3 DEF Timeline!Clamp, Timeline!Most, Timeline!Least
  <1>6. StripHolds'
    <2>1. lens' \in Int \X Int /\ lens' # None
      BY <1>4, TimelineAssumption
    <2> QED BY <1>0, <1>1, <1>4, <1>5, <2>1 DEF StripHolds, Timeline!Measure
  <1>7. LensHolds'
    BY <1>2, <1>3, <1>4, TimelineSizes DEF LensHolds
  <1>8. DragHolds' /\ CalendarHolds' /\ Timeline!AimedDayInView'
    BY <1>0 DEF DragHolds, CalendarHolds, Timeline!AimedDayInView, Timeline!Measure
  <1> QED BY <1>6, <1>7, <1>8 DEF TimelineInv

LEMMA WindowChanges ==
    ASSUME TimelineInv, Timeline!Reopen \/ \E w \in StripWidths : Timeline!Resize(w)
    PROVE  TimelineInv'
  <1>0. StripHolds /\ LensHolds /\ DragHolds /\ CalendarHolds
    BY DEF TimelineInv
  <1>1. CASE Timeline!Reopen
    <2>1. scroll' \in Int
      BY <1>1, TimelineSizes DEF Timeline!Reopen, Timeline!Most
    <2>2. StripHolds'
      BY <1>1, <2>1 DEF Timeline!Reopen, StripHolds
    <2>3. LensHolds' /\ DragHolds' /\ CalendarHolds' /\ Timeline!AimedDayInView'
      BY <1>1 DEF Timeline!Reopen, LensHolds, DragHolds, CalendarHolds, Timeline!AimedDayInView
    <2> QED BY <2>2, <2>3 DEF TimelineInv
  <1>2. ASSUME NEW w \in StripWidths, Timeline!Resize(w) PROVE TimelineInv'
    <2>1. w \in Nat \ {0}
      BY TimelineAssumption
    <2>2. narrowed' = (narrowed \/ w < width) /\ narrowed \in BOOLEAN
      BY <1>0, <1>2 DEF StripHolds, Timeline!Resize
    <2>3. narrowed' \in BOOLEAN /\ (~narrowed' => ~narrowed /\ ~(w < width))
      <3>1. CASE w < width
        BY <2>2, <3>1, Zenon
      <3>2. CASE ~(w < width)
        BY <2>2, <3>2, Zenon
      <3> QED BY <3>1, <3>2
    <2>4. narrowed' \in BOOLEAN /\ (~narrowed' => ~narrowed /\ width <= w)
      BY <1>0, <2>1, <2>3 DEF StripHolds
    <2>5. StripHolds'
      BY <1>0, <1>2, <2>1, <2>4 DEF StripHolds, Timeline!Resize
    <2>6. LensHolds'
      <3>1. SUFFICES ASSUME lens # None, ~narrowed' PROVE LensHolds'
        BY <1>2 DEF LensHolds, Timeline!Resize
      <3>2. lens' = lens /\ lens \in Int \X Int /\ width' = w /\ width <= w /\ width \in Nat
        BY <1>0, <1>2, <2>4, <3>1 DEF StripHolds, Timeline!Resize
      <3>3. 0 <= lens[1] /\ lens[1] + MinLens <= lens[2] /\ lens[2] <= width
        BY <1>0, <2>4, <3>1 DEF LensHolds
      <3>4. lens[2] <= w
        BY <2>1, <3>2, <3>3
      <3> QED BY <3>2, <3>3, <3>4 DEF LensHolds
    <2>7. DragHolds' /\ CalendarHolds' /\ Timeline!AimedDayInView'
      BY <1>0, <1>2, <2>1 DEF Timeline!Resize, DragHolds, CalendarHolds, Timeline!CalendarKeepsCount,
         Timeline!AimedDayInView
    <2> QED BY <2>5, <2>6, <2>7 DEF TimelineInv
  <1> QED BY <1>1, <1>2

\* Dragged by the strip, or by one of its handles, which stops short of the other.
LEMMA LensIsDragged ==
    ASSUME TimelineInv,
           \/ Timeline!GrabStrip \/ Timeline!Release
           \/ \E side \in {"start", "end"} : Timeline!GrabHandle(side)
           \/ \E dx \in Distances : Timeline!Move(dx)
    PROVE  TimelineInv'
  <1>0. StripHolds /\ LensHolds /\ DragHolds /\ CalendarHolds /\ Timeline!AimedDayInView
    BY DEF TimelineInv
  <1>1. ASSUME \/ Timeline!GrabStrip \/ Timeline!Release
               \/ \E side \in {"start", "end"} : Timeline!GrabHandle(side)
        PROVE  TimelineInv'
    <2>1. UNCHANGED <<width, lens, scroll, calendar, aim, narrowed>>
      BY <1>1 DEF Timeline!GrabStrip, Timeline!Release, Timeline!GrabHandle
    <2>2. StripHolds' /\ LensHolds' /\ CalendarHolds' /\ Timeline!AimedDayInView'
      BY <1>0, <2>1, AimStays DEF StripHolds, LensHolds, CalendarHolds, Timeline!CalendarKeepsCount
    <2>3. DragHolds'
      <3>1. CASE Timeline!GrabStrip
        BY <1>0, <3>1 DEF Timeline!GrabStrip, DragHolds, StripHolds
      <3>2. CASE Timeline!Release
        BY <3>2 DEF Timeline!Release, DragHolds
      <3>3. ASSUME NEW side \in {"start", "end"}, Timeline!GrabHandle(side) PROVE DragHolds'
        <4>1. width # 0 /\ lens[1] \in Int /\ lens[2] \in Int
          BY <1>0, <3>3 DEF StripHolds, Timeline!GrabHandle
        <4> QED BY <2>1, <3>3, <4>1 DEF Timeline!GrabHandle, DragHolds
      <3> QED BY <1>1, <3>1, <3>2, <3>3
    <2> QED BY <2>2, <2>3 DEF TimelineInv
  <1>2. ASSUME NEW dx \in Distances, Timeline!Move(dx) PROVE TimelineInv'
    <2>0. UNCHANGED <<width, lensDrag, calendar, narrowed>> /\ aim' = None
      BY <1>2 DEF Timeline!Move
    <2>1. /\ width # 0 /\ lens # None /\ dx \in Int /\ lensDrag.base \in Int
          /\ lensDrag.mode \in {"pan", "start", "end"}
      BY <1>0, <1>2, TimelineAssumption DEF Timeline!Move, DragHolds, StripHolds
    <2>2. PICK a \in Int, b \in Int : lens = <<a, b>>
      BY <1>0, <2>1 DEF StripHolds
    <2>3. DragHolds' /\ CalendarHolds' /\ Timeline!AimedDayInView'
      BY <1>0, <2>0 DEF DragHolds, CalendarHolds, Timeline!CalendarKeepsCount, Timeline!AimedDayInView
    <2>4. CASE lensDrag.mode = "pan"
      <3>1. scroll' \in Int /\ lens' = lens
        BY <1>0, <1>2, <2>1, <2>4, StripIsANumber DEF Timeline!Move
      <3>2. StripHolds' /\ LensHolds'
        BY <1>0, <2>0, <2>1, <3>1 DEF StripHolds, LensHolds
      <3> QED BY <2>3, <3>2 DEF TimelineInv
    <2>5. CASE lensDrag.mode # "pan"
      <3>1. PICK x \in Int : x = lensDrag.base + dx
        BY <2>1
      <3>2. scroll' = scroll /\ lens' = Timeline!Dragged(lensDrag.mode, x)
        BY <1>2, <2>5, <3>1 DEF Timeline!Move
      <3>3. PICK c \in Int, d \in Int :
              /\ lens' = <<c, d>>
              /\ \/ c = Timeline!Most(0, Timeline!Least(x, b - MinLens)) /\ d = b
                 \/ c = a /\ d = Timeline!Least(width, Timeline!Most(x, a + MinLens))
        <4>1. CASE lensDrag.mode = "start"
          <5>1. Timeline!Most(0, Timeline!Least(x, b - MinLens)) \in Int
            BY TimelineSizes DEF Timeline!Most, Timeline!Least
          <5> QED BY <2>2, <3>2, <4>1, <5>1 DEF Timeline!Dragged
        <4>2. CASE lensDrag.mode = "end"
          <5>1. Timeline!Least(width, Timeline!Most(x, a + MinLens)) \in Int
            BY <1>0, TimelineSizes DEF Timeline!Most, Timeline!Least, StripHolds
          <5> QED BY <2>2, <3>2, <4>2, <5>1 DEF Timeline!Dragged
        <4> QED BY <2>1, <2>5, <4>1, <4>2
      <3>4. lens' # None /\ lens' \in Int \X Int /\ lens'[1] = c /\ lens'[2] = d
        BY <3>3, TimelineAssumption
      <3>5. StripHolds'
        BY <1>0, <2>0, <2>1, <3>2, <3>4 DEF StripHolds
      <3>6. ASSUME ~narrowed PROVE 0 <= c /\ c + MinLens <= d /\ d <= width
        <4>1. 0 <= a /\ a + MinLens <= b /\ b <= width /\ width \in Int
          BY <1>0, <2>1, <2>2, <3>6 DEF LensHolds, StripHolds
        <4> QED BY <3>3, <4>1, TimelineSizes DEF Timeline!Most, Timeline!Least
      <3>7. LensHolds'
        BY <2>0, <3>4, <3>6 DEF LensHolds
      <3> QED BY <2>3, <3>5, <3>7 DEF TimelineInv
    <2> QED BY <2>4, <2>5
  <1> QED BY <1>1, <1>2

LEMMA StripIsScrolled ==
    ASSUME TimelineInv,
           \/ \E dx \in Distances : Timeline!Wheel(dx)
           \/ \E way \in {-1, 1} : Timeline!NudgeDay(way)
           \/ Timeline!JumpToNow
    PROVE  TimelineInv'
  <1>0. /\ StripHolds /\ LensHolds /\ DragHolds /\ CalendarHolds
        /\ UNCHANGED <<width, lens, lensDrag, calendar, narrowed>> /\ width # 0
    BY DEF TimelineInv, Timeline!Wheel, Timeline!NudgeDay, Timeline!JumpToNow
  <1>1. LensHolds' /\ DragHolds' /\ CalendarHolds'
    BY <1>0 DEF LensHolds, DragHolds, CalendarHolds, Timeline!CalendarKeepsCount
  <1>2. scroll' \in Int /\ Timeline!AimedDayInView'
    <2>1. ASSUME NEW dx \in Distances, Timeline!Wheel(dx) PROVE scroll' \in Int /\ Timeline!AimedDayInView'
      <3>1. scroll + dx \in Int
        BY <1>0, TimelineAssumption DEF StripHolds
      <3>2. scroll' \in Int
        BY <1>0, <2>1, <3>1, StripIsANumber DEF Timeline!Wheel
      <3> QED BY <2>1, <3>2 DEF Timeline!Wheel, Timeline!AimedDayInView
    <2>2. ASSUME NEW way \in {-1, 1}, Timeline!NudgeDay(way) PROVE scroll' \in Int /\ Timeline!AimedDayInView'
      <3>1. scroll + way * DayWidth \in Int
        BY <1>0, TimelineSizes DEF StripHolds
      <3>2. scroll' \in Int
        BY <1>0, <2>2, <3>1, StripIsANumber DEF Timeline!NudgeDay
      <3> QED BY <2>2, <3>2 DEF Timeline!NudgeDay, Timeline!AimedDayInView
    <2>3. ASSUME Timeline!JumpToNow PROVE scroll' \in Int /\ Timeline!AimedDayInView'
      <3>1. /\ scroll' = Timeline!InStrip(NowX - Timeline!CentreLens)
            /\ aim' = [day |-> Today, whole |-> FALSE]
        BY <2>3 DEF Timeline!JumpToNow
      <3>2. NowX \in Int /\ Today \in 0..(Days - 1) /\ NowX \div DayWidth = Today
        BY TimelineAssumption
      <3> QED BY <1>0, <3>1, <3>2, PlaceComesUnderLens
    <2> QED BY <2>1, <2>2, <2>3
  <1>3. StripHolds'
    BY <1>0, <1>2 DEF StripHolds
  <1> QED BY <1>1, <1>2, <1>3 DEF TimelineInv

\* The calendar counts the month its user has come to.
LEMMA CalendarTurns ==
    ASSUME TimelineInv,
           \/ Timeline!OpenCalendar \/ Timeline!CloseCalendar \/ Timeline!OnHeaderClick
           \/ \E way \in {-1, 1} : Timeline!Nav(way)
           \/ \E i \in 0..(YearLength - 1) : Timeline!PickMonth(i)
           \/ \E i \in 0..(YearsShown - 1) : Timeline!PickYear(i)
    PROVE  TimelineInv'
  <1>0. /\ StripHolds /\ LensHolds /\ DragHolds /\ CalendarHolds /\ Timeline!AimedDayInView
        /\ UNCHANGED <<width, lens, scroll, lensDrag, aim, narrowed>>
    BY DEF TimelineInv, Timeline!OpenCalendar, Timeline!CloseCalendar, Timeline!OnHeaderClick, Timeline!Nav,
       Timeline!PickMonth, Timeline!PickYear
  <1>1. StripHolds' /\ LensHolds' /\ DragHolds' /\ Timeline!AimedDayInView'
    BY <1>0, AimStays DEF StripHolds, LensHolds, DragHolds
  <1>2. CalendarHolds'
    <2>1. CASE Timeline!OpenCalendar
      <3>1. PICK m \in Int : m = Timeline!TodayMonth
        <4>1. WindowStart + Today \in Int /\ MonthLength \in Nat \ {0}
          BY TimelineSizes
        <4> QED BY <4>1, Division DEF Timeline!TodayMonth
      <3>2. PICK y \in Int, r \in 0..(YearLength - 1) : y = m \div YearLength /\ r = m % YearLength /\ m = y * YearLength + r
        BY TimelineSizes, Division
      <3>3. PICK b \in Int : b = y - YearsShown \div 3
        BY TimelineAssumption, Division
      <3>4. calendar' = [mode |-> "days", year |-> y, mon |-> r, base |-> b, at |-> m]
        BY <2>1, <3>1, <3>2, <3>3 DEF Timeline!OpenCalendar
      <3>5. calendar' \in CalendarRows
        BY <3>4 DEF CalendarRows
      <3>6. calendar'.at = m /\ calendar'.year = y /\ calendar'.mon = r
        BY <3>4
      <3> QED BY <1>0, <2>1, <3>2, <3>5, <3>6 DEF CalendarHolds, Timeline!CalendarKeepsCount, Timeline!OpenCalendar
    <2>2. CASE Timeline!CloseCalendar
      BY <2>2 DEF Timeline!CloseCalendar, CalendarHolds
    <2>3. ASSUME calendar # None,
                 \/ Timeline!OnHeaderClick \/ \E way \in {-1, 1} : Timeline!Nav(way)
                 \/ \E i \in 0..(YearLength - 1) : Timeline!PickMonth(i)
                 \/ \E i \in 0..(YearsShown - 1) : Timeline!PickYear(i)
          PROVE  CalendarHolds'
      <3>1. calendar \in CalendarRows /\ width # 0 /\ calendar.at = calendar.year * YearLength + calendar.mon
        BY <1>0, <2>3 DEF CalendarHolds, Timeline!CalendarKeepsCount
      <3>2. PICK y \in Int, r \in 0..(YearLength - 1), b \in Int, m \in Int :
              y = calendar.year /\ r = calendar.mon /\ b = calendar.base /\ m = calendar.at
        BY <3>1 DEF CalendarRows
      <3>3. m = y * YearLength + r
        BY <3>1, <3>2
      <3>4. SUFFICES /\ calendar' \in CalendarRows
                     /\ calendar'.at = calendar'.year * YearLength + calendar'.mon
        BY <1>0, <3>1 DEF CalendarHolds, Timeline!CalendarKeepsCount
      <3>5. CASE Timeline!OnHeaderClick
        <4>1. PICK mode \in {"days", "months", "years"} : calendar' = [calendar EXCEPT !.mode = mode]
          BY <3>5 DEF Timeline!OnHeaderClick
        <4>2. calendar' \in CalendarRows /\ calendar'.at = m /\ calendar'.year = y /\ calendar'.mon = r
          BY <3>1, <3>2, <4>1 DEF CalendarRows
        <4> QED BY <3>3, <4>2
      <3>6. ASSUME NEW way \in {-1, 1}, Timeline!Nav(way)
            PROVE  /\ calendar' \in CalendarRows
                   /\ calendar'.at = calendar'.year * YearLength + calendar'.mon
        <4>1. CASE calendar.mode = "days"
          <5>1. calendar' = [Timeline!StepMonth(calendar, way) EXCEPT !.at = @ + way]
            BY <3>6, <4>1 DEF Timeline!Nav
          <5>2. PICK row : row = Timeline!StepMonth(calendar, way)
            OBVIOUS
          <5>3. /\ row \in CalendarRows /\ row.at = m
                /\ \/ r + way < 0 /\ row.mon = YearLength - 1 /\ row.year = y - 1
                   \/ r + way >= YearLength /\ row.mon = 0 /\ row.year = y + 1
                   \/ row.mon = r + way /\ row.year = y
            <6>1. CASE r + way < 0
              <7>1. row = [calendar EXCEPT !.mon = YearLength - 1, !.year = y - 1]
                BY <3>2, <5>2, <6>1 DEF Timeline!StepMonth
              <7>2. YearLength - 1 \in 0..(YearLength - 1) /\ y - 1 \in Int
                BY TimelineSizes
              <7> QED BY <3>1, <3>2, <6>1, <7>1, <7>2 DEF CalendarRows
            <6>2. CASE r + way >= YearLength
              <7>1. row = [calendar EXCEPT !.mon = 0, !.year = y + 1]
                BY <3>2, <5>2, <6>2, TimelineSizes DEF Timeline!StepMonth
              <7>2. 0 \in 0..(YearLength - 1) /\ y + 1 \in Int
                BY TimelineSizes
              <7> QED BY <3>1, <3>2, <6>2, <7>1, <7>2 DEF CalendarRows
            <6>3. CASE 0 <= r + way /\ r + way < YearLength
              <7>1. row = [calendar EXCEPT !.mon = r + way]
                BY <3>2, <5>2, <6>3, TimelineSizes DEF Timeline!StepMonth
              <7>2. r + way \in 0..(YearLength - 1)
                BY <6>3, TimelineSizes
              <7> QED BY <3>1, <3>2, <6>3, <7>1, <7>2 DEF CalendarRows
            <6> QED BY <6>1, <6>2, <6>3, TimelineSizes
          <5>4. PICK yy \in Int, rr \in 0..(YearLength - 1) : yy = row.year /\ rr = row.mon
            BY <5>3 DEF CalendarRows
          <5>5. calendar' \in CalendarRows /\ calendar'.at = m + way /\ calendar'.year = yy /\ calendar'.mon = rr
            BY <5>1, <5>2, <5>3, <5>4 DEF CalendarRows
          <5>6. m + way = yy * YearLength + rr
            <6>1. /\ y * YearLength \in Int /\ (y - 1) * YearLength = y * YearLength - YearLength
                  /\ (y + 1) * YearLength = y * YearLength + YearLength
              BY TimelineSizes
            <6>2. PICK k \in Int : k = y * YearLength
              BY <6>1
            <6>3. CASE yy = y /\ rr = r + way
              BY <3>3, <6>2, <6>3
            <6>4. CASE r + way < 0 /\ rr = YearLength - 1 /\ yy = y - 1
              BY <3>3, <6>1, <6>2, <6>4, TimelineSizes
            <6>5. CASE r + way >= YearLength /\ rr = 0 /\ yy = y + 1
              BY <3>3, <6>1, <6>2, <6>5, TimelineSizes
            <6> QED BY <5>3, <5>4, <6>3, <6>4, <6>5
          <5> QED BY <5>5, <5>6
        <4>2. CASE calendar.mode = "months"
          <5>1. PICK k \in Int, n \in Int : k = y + way /\ n = m + way * YearLength
            BY TimelineSizes
          <5>2. calendar' = [calendar EXCEPT !.year = k, !.at = n]
            BY <3>2, <3>6, <4>2, <5>1 DEF Timeline!Nav
          <5>3. calendar' \in CalendarRows /\ calendar'.at = n /\ calendar'.year = k /\ calendar'.mon = r
            BY <3>1, <3>2, <5>2 DEF CalendarRows
          <5>4. n = k * YearLength + r
            <6>1. (y + way) * YearLength = y * YearLength + way * YearLength /\ y * YearLength \in Int
              BY TimelineSizes
            <6> QED BY <3>3, <5>1, <6>1, TimelineSizes
          <5> QED BY <5>3, <5>4
        <4>3. CASE calendar.mode = "years"
          <5>1. PICK k \in Int : k = b + way * YearsShown
            BY TimelineAssumption
          <5>2. calendar' = [calendar EXCEPT !.base = k]
            BY <3>2, <3>6, <4>3, <5>1 DEF Timeline!Nav
          <5>3. calendar' \in CalendarRows /\ calendar'.at = m /\ calendar'.year = y /\ calendar'.mon = r
            BY <3>1, <3>2, <5>2 DEF CalendarRows
          <5> QED BY <3>3, <5>3
        <4> QED BY <3>1, <4>1, <4>2, <4>3 DEF CalendarRows
      <3>7. ASSUME NEW i \in 0..(YearLength - 1), Timeline!PickMonth(i)
            PROVE  /\ calendar' \in CalendarRows
                   /\ calendar'.at = calendar'.year * YearLength + calendar'.mon
        <4>1. m \div YearLength = y
          BY <3>3, TimelineSizes, WholeAndRest
        <4>2. PICK n \in Int : n = y * YearLength + i
          BY TimelineSizes
        <4>3. calendar' = [calendar EXCEPT !.mon = i, !.mode = "days", !.at = n]
          BY <3>2, <3>7, <4>1, <4>2 DEF Timeline!PickMonth
        <4>4. calendar' \in CalendarRows /\ calendar'.at = n /\ calendar'.year = y /\ calendar'.mon = i
          BY <3>1, <3>2, <4>3 DEF CalendarRows
        <4> QED BY <4>2, <4>4
      <3>8. ASSUME NEW i \in 0..(YearsShown - 1), Timeline!PickYear(i)
            PROVE  /\ calendar' \in CalendarRows
                   /\ calendar'.at = calendar'.year * YearLength + calendar'.mon
        <4>1. m % YearLength = r
          BY <3>3, TimelineSizes, WholeAndRest
        <4>2. PICK k \in Int : k = b + i
          OBVIOUS
        <4>3. PICK n \in Int : n = k * YearLength + r
          BY TimelineSizes
        <4>4. calendar' = [calendar EXCEPT !.year = k, !.mode = "months", !.at = n]
          BY <3>2, <3>8, <4>1, <4>2, <4>3 DEF Timeline!PickYear
        <4>5. calendar' \in CalendarRows /\ calendar'.at = n /\ calendar'.year = k /\ calendar'.mon = r
          BY <3>1, <3>2, <4>4 DEF CalendarRows
        <4> QED BY <4>3, <4>5
      <3> QED BY <2>3, <3>5, <3>6, <3>7, <3>8
    <2>4. Timeline!OpenCalendar \/ Timeline!CloseCalendar \/ calendar # None
      BY DEF Timeline!OnHeaderClick, Timeline!Nav, Timeline!PickMonth, Timeline!PickYear
    <2> QED BY <2>1, <2>2, <2>3, <2>4
  <1> QED BY <1>1, <1>2 DEF TimelineInv

\* The day that is picked is the one the user has come to.
LEMMA DayIsPicked == ASSUME TimelineInv, NEW d \in 0..(MonthLength - 1), Timeline!PickDay(d) PROVE TimelineInv'
  <1>0. /\ StripHolds /\ LensHolds /\ DragHolds /\ CalendarHolds
        /\ UNCHANGED <<width, lens, lensDrag, narrowed>> /\ calendar # None /\ calendar' = None /\ width # 0
    BY DEF TimelineInv, Timeline!PickDay, CalendarHolds
  <1>1. LensHolds' /\ DragHolds' /\ CalendarHolds'
    BY <1>0 DEF LensHolds, DragHolds, CalendarHolds
  <1>2. calendar \in CalendarRows /\ calendar.at = calendar.year * YearLength + calendar.mon
    BY <1>0 DEF CalendarHolds, Timeline!CalendarKeepsCount
  <1>3. PICK m : m = calendar.at
    OBVIOUS
  <1>4. PICK day \in 0..(Days - 1) : day = Timeline!DayIndexFor(d) /\ day = m * MonthLength + d - WindowStart
    BY <1>2, <1>3 DEF Timeline!DayIndexFor, Timeline!PickDay
  <1>5. PICK k \in Int, half \in 0..(DayWidth - 1) : k = day * DayWidth /\ half = DayWidth \div 2
    BY TimelineSizes
  <1>6. (k + half) \div DayWidth = day /\ k + half \in Int
    BY <1>5, TimelineSizes, WholeAndRest
  <1>7. PICK x : x = Timeline!DayIndexFor(d) * DayWidth + DayWidth \div 2
    OBVIOUS
  <1>8. aim' = [day |-> day, whole |-> TRUE]
    BY <1>3, <1>4 DEF Timeline!PickDay
  <1>9. x = k + half
    BY <1>4, <1>5, <1>7
  <1>12. x \in Int /\ x \div DayWidth = day /\ x = day * DayWidth + DayWidth \div 2
    BY <1>5, <1>6, <1>9
  <1>13. scroll' = Timeline!InStrip(x - Timeline!CentreLens)
    <2>1. PICK c \in Int : c = Timeline!CentreLens
      BY <1>0 DEF StripHolds, Timeline!CentreLens
    <2>2. scroll' = Timeline!InStrip(k + (half - c))
      BY <1>4, <1>5, <2>1 DEF Timeline!PickDay
    <2>3. k + (half - c) = x - c
      BY <1>9, <2>1
    <2> QED BY <2>1, <2>2, <2>3
  <1>10. scroll' \in Int /\ Timeline!AimedDayInView'
    BY <1>0, <1>8, <1>12, <1>13, PlaceComesUnderLens
  <1>11. StripHolds'
    BY <1>0, <1>10 DEF StripHolds
  <1> QED BY <1>1, <1>10, <1>11 DEF TimelineInv

LEMMA TimelineStep == ASSUME TimelineInv, [Timeline!TimelineNext]_(Timeline!vars) PROVE TimelineInv'
  <1>1. CASE UNCHANGED Timeline!vars
    BY <1>1, AimStays DEF Timeline!vars, TimelineInv, StripHolds, LensHolds, DragHolds, CalendarHolds,
       Timeline!CalendarKeepsCount
  <1>2. ASSUME NEW w \in StripWidths, Timeline!Measure(w) PROVE TimelineInv'
    BY <1>2, LensIsPlaced
  <1>3. ASSUME NEW w \in StripWidths, Timeline!Resize(w) PROVE TimelineInv'
    BY <1>3, WindowChanges
  <1>4. ASSUME Timeline!Reopen PROVE TimelineInv'
    BY <1>4, WindowChanges
  <1>5. ASSUME \/ Timeline!GrabStrip \/ Timeline!Release
               \/ \E side \in {"start", "end"} : Timeline!GrabHandle(side)
               \/ \E dx \in Distances : Timeline!Move(dx)
        PROVE  TimelineInv'
    BY <1>5, LensIsDragged
  <1>6. ASSUME \/ \E dx \in Distances : Timeline!Wheel(dx)
               \/ \E way \in {-1, 1} : Timeline!NudgeDay(way)
               \/ Timeline!JumpToNow
        PROVE  TimelineInv'
    BY <1>6, StripIsScrolled
  <1>7. ASSUME \/ Timeline!OpenCalendar \/ Timeline!CloseCalendar \/ Timeline!OnHeaderClick
               \/ \E way \in {-1, 1} : Timeline!Nav(way)
               \/ \E i \in 0..(YearLength - 1) : Timeline!PickMonth(i)
               \/ \E i \in 0..(YearsShown - 1) : Timeline!PickYear(i)
        PROVE  TimelineInv'
    BY <1>7, CalendarTurns
  <1>8. ASSUME NEW d \in 0..(MonthLength - 1), Timeline!PickDay(d) PROVE TimelineInv'
    BY <1>8, DayIsPicked
  <1> QED BY <1>1, <1>2, <1>3, <1>4, <1>5, <1>6, <1>7, <1>8 DEF Timeline!TimelineNext

LEMMA TimelineHolds == TimelineInv => Timeline!TimelineSafe
  <1> SUFFICES ASSUME TimelineInv PROVE Timeline!TimelineSafe
    OBVIOUS
  <1>1. Timeline!CalendarKeepsCount
    BY DEF TimelineInv, CalendarHolds, Timeline!CalendarKeepsCount
  <1>2. Timeline!LensKeepsWidth
    <2> SUFFICES ASSUME lens # None, ~narrowed PROVE lens[2] - lens[1] >= MinLens
      BY DEF Timeline!LensKeepsWidth
    <2>1. PICK a \in Int, b \in Int : lens[1] = a /\ lens[2] = b
      BY DEF TimelineInv, StripHolds
    <2> QED BY <2>1, TimelineSizes DEF TimelineInv, LensHolds
  <1> QED BY <1>1, <1>2 DEF TimelineInv, Timeline!TimelineSafe
-----------------------------------------------------------------------------
(* The console. *)

ViewPages == {"ingest", "audit", "graph", "newws", "timeline", "settings", "shell"}

LEMMA ConsoleOpens == ConsoleInit => (PagesInit /\ onPage \notin ViewPages) \/ (ViewsInit /\ onPage \in ViewPages)
  BY DEF ConsoleInit, PagesInit, ViewsInit, ViewPages

\* A behaviour is of one page, of one of the two specifications.
LEMMA ConsoleMoves ==
    ASSUME [ConsoleNext]_pagesVars
    PROVE  /\ onPage' = onPage
           /\ onPage \in ViewPages => [ViewsNext]_pagesVars
           /\ onPage \notin ViewPages => [PagesNext]_pagesVars
  <1>1. CASE UNCHANGED pagesVars
    BY <1>1 DEF pagesVars
  <1>2. CASE PagesNext
    BY <1>2 DEF PagesNext, ViewPages
  <1>3. CASE ViewsNext
    BY <1>3 DEF ViewsNext, ViewPages
  <1> QED BY <1>1, <1>2, <1>3 DEF ConsoleNext

\* Dialogs and their calls, for every number of files, rows, calls, people and sections: the ingest
\* modal closes without an error only over rows that are ingested with what was chosen for them; a
\* link into the settings is kept, forms speak of their own calls, and no click changes the password
\* twice; a new workspace has the description and the members of its dialog. The invariants say
\* which calls are under way for what, and what of a dialog they were given.
THEOREM FormsAreSafe == ConsoleSpec => []FormsSafe
  <1> DEFINE Inv == /\ onPage = "ingest" => IngestInv
                    /\ onPage = "settings" => SettingsInv
                    /\ onPage = "newws" => NewWsInv
  <1>1. ConsoleInit => Inv
    BY ConsoleOpens, IngestPageOpens, IngestStarts, SettingsPageOpens, SettingsStarts, NewWsPageOpens, NewWsStarts
       DEF ViewPages
  <1>2. Inv /\ [ConsoleNext]_pagesVars => Inv'
    <2> SUFFICES ASSUME Inv, [ConsoleNext]_pagesVars PROVE Inv'
      OBVIOUS
    <2>0. onPage' = onPage /\ (onPage \in ViewPages => [ViewsNext]_pagesVars)
      BY ConsoleMoves
    <2>1. ASSUME onPage' = "ingest" PROVE IngestInv'
      BY <2>0, <2>1, IngestPageMoves, IngestStep DEF ViewPages
    <2>2. ASSUME onPage' = "settings" PROVE SettingsInv'
      BY <2>0, <2>2, SettingsPageMoves, SettingsStep DEF ViewPages
    <2>3. ASSUME onPage' = "newws" PROVE NewWsInv'
      BY <2>0, <2>3, NewWsPageMoves, NewWsStep DEF ViewPages
    <2> QED BY <2>1, <2>2, <2>3
  <1>3. Inv => FormsSafe
    BY IngestHolds, SettingsHold, NewWsHolds DEF FormsSafe
  <1> QED BY <1>1, <1>2, <1>3, PTL DEF ConsoleSpec

\* What the console shows, for every set of topics, nodes, days and tabs: a card says Applied only of
\* what was written, and the drawer has one audit at a time; the graph's view is about the node that
\* is selected; the day that was asked for comes under the lens, with all its runs where it is wide
\* enough; layers, popovers and tabs of the shell. The invariants say how far each decision on a
\* suggestion has come in the table, which kinds of node a selection reaches, and that the calendar
\* counts the months its user goes through.
THEOREM ViewsAreSafe == ConsoleSpec => []ViewsSafe
  <1> DEFINE Inv == /\ onPage = "audit" => AuditInv
                    /\ onPage = "graph" => GraphInv
                    /\ onPage = "timeline" => TimelineInv
                    /\ onPage = "shell" => ShellInv
  <1>1. ConsoleInit => Inv
    BY ConsoleOpens, AuditPageOpens, AuditStarts, GraphPageOpens, GraphStarts, TimelinePageOpens, TimelineStarts,
       ShellPageOpens, ShellStarts DEF ViewPages
  <1>2. Inv /\ [ConsoleNext]_pagesVars => Inv'
    <2> SUFFICES ASSUME Inv, [ConsoleNext]_pagesVars PROVE Inv'
      OBVIOUS
    <2>0. onPage' = onPage /\ (onPage \in ViewPages => [ViewsNext]_pagesVars)
      BY ConsoleMoves
    <2>1. ASSUME onPage' = "audit" PROVE AuditInv'
      BY <2>0, <2>1, AuditPageMoves, DrawerSteps DEF ViewPages
    <2>2. ASSUME onPage' = "graph" PROVE GraphInv'
      BY <2>0, <2>2, GraphPageMoves, GraphStep DEF ViewPages
    <2>3. ASSUME onPage' = "timeline" PROVE TimelineInv'
      BY <2>0, <2>3, TimelinePageMoves, TimelineStep DEF ViewPages
    <2>4. ASSUME onPage' = "shell" PROVE ShellInv'
      BY <2>0, <2>4, ShellPageMoves, ShellStep DEF ViewPages
    <2> QED BY <2>1, <2>2, <2>3, <2>4
  <1>3. Inv => ViewsSafe
    BY AuditHolds, GraphHolds, TimelineHolds, ShellHolds DEF ViewsSafe
  <1> QED BY <1>1, <1>2, <1>3, PTL DEF ConsoleSpec

==============================================================================
