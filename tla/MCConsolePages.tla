--------------------------- MODULE MCConsolePages ---------------------------
(***************************************************************************)
(* The console's pages for TLC, of which some start from the states that   *)
(* matter.  Sets are made of a few values, which stand for something else  *)
(* on every page; their bounds are in the configuration.                   *)
(***************************************************************************)
EXTENDS ConsoleViews, TLC

CONSTANTS x1, x2, y1, y2, z1, z2

\* Two users: one with two workspaces, or with the second alone, one with a workspace of his own.
SelLists == (x1 :> {<<"lab", "ops">>, <<"ops">>}) @@ (x2 :> {<<"home">>})
SelVaults == [lab |-> <<"l1", "l2">>, ops |-> <<>>, home |-> <<"h1">>]

-----------------------------------------------------------------------------
(* An organisation for the graph: two workspaces, of which the first has a *)
(* vault with a page and the source it was made of, a person with a role   *)
(* in the second, and a group he is in, with a role in the first.          *)
GraphKind == [lab |-> "ws", ops |-> "ws", notes |-> "vault", page |-> "page", src |-> "source",
              ann |-> "person", team |-> "group"]
GraphWs == [lab |-> "lab", ops |-> "ops", notes |-> "lab", page |-> "lab", src |-> "lab"]
GraphVault == [notes |-> "notes", page |-> "notes", src |-> "notes"]
GraphAccess == {<<"team", "lab">>, <<"ann", "ops">>}
GraphMember == {<<"ann", "team">>}
GraphLinked == {<<"src", "page">>}
GraphData == {DOMAIN GraphKind, DOMAIN GraphKind \ {"ann"}}

\* What may be typed: part of the second person's address, or an address of nobody known.
TypedTexts == {[matches |-> {x2}, exact |-> x2, address |-> None],
               [matches |-> {}, exact |-> None, address |-> x2]}

\* A run at each end of the working hours of each day. Five days of six units, of which the two
\* at the edges are padding; a year of two months of three days.
TimelineMarks == [day : 0..4, x : {0, 4}]
TimelineDistances == {-4, 4, 8}

ShellItems == <<"home", "wiki", "agents", "settings">>

-----------------------------------------------------------------------------
\* Of starts that differ in little but names, one is taken: in the kind of the reports there are,
\* the model there is, a source's tag, the topic of the audit drawer and the theme.  At least one of the sources has text; the
\* Reports page opens with an agent; the Wiki starts with a vault chosen and every page but one
\* written, at no topic or at that of the page; the people's page starts with all three of its
\* subjects or with none, the guest in every vault, the others in one; the ingest modal has a
\* vault on the page that keeps it mounted, and none yet on the other; the graph starts at the
\* organisation, with everything there is; the settings open at the owner's section for a member
\* and at any other address for the owner.
MCInit ==
    /\ ConsoleInit
    /\ onPage = "source" => content[x2] # <<>>
    /\ onPage = "report" => hasAgent /\ reports \in {<<>>, <<x1, x1>>}
    /\ onPage = "tags" => tagged[x1] = {y1}
    /\ onPage = "registry" => registry[y1].version > 0
    /\ onPage = "audit" => drawerTopic = x1
    /\ onPage = "wiki" =>
        /\ projectId # None /\ route \in {None, y1}
        /\ \A s \in WikiTab!Slots : pages[s].n = IF s = <<x1, y1>> THEN 0 ELSE 1
    /\ onPage = "org" => \A k \in Staff!Kinds :
        /\ known[k] = known["person"]
        /\ known[k] => \A s \in {x1, x2} : (held[k][s] # "none") <=> (k = "guest" \/ s = x1)
    /\ onPage = "ingest" => (host = "home") = (vaultList = <<>>)
    /\ onPage = "graph" => scope = Org /\ dir = DOMAIN KindOf
    /\ onPage = "settings" => theme.chosen = x1 /\ (role = "owner") = (hash # "people")

MCSpec == MCInit /\ [][ConsoleNext]_pagesVars

=============================================================================
