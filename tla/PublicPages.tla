----------------------------- MODULE PublicPages -----------------------------
(***************************************************************************)
(* The public face of the package explorer (PublicBrowsePage.vue with      *)
(* components/browse), and the dependency graph the assistant draws in an  *)
(* answer, with the dialog behind its nodes (MermaidRenderer.vue,          *)
(* PackageNodeDetail.vue).                                                 *)
(***************************************************************************)
EXTENDS PackagePages

\* The packages tab is the explorer without its row actions (ui.tab is 2 when
\* its filter is open); the repositories tab mounts the showcase and the
\* status panel, which fetch the same repositories separately.
PackageEmptyStateOffers ==
    IF Shown(1) # {} \/ "loading" \in ui.spin THEN {}
    ELSE On(IF ui.asked[1] = None THEN {"retry"} ELSE {"clearFilters"})

PublicBrowseTabsOffers == On(IF InFront("repositories") THEN {"packages"} ELSE {"repositories"})

PublicBrowseOffers ==
    PublicBrowseTabsOffers
    \cup (IF InFront("repositories") THEN {}
          ELSE On({"view"}) \cup PackageSearchBarOffers \cup PackagePaginationOffers
               \cup PackageFilterPanelOffers \cup PackageEmptyStateOffers
               \cup (IF ui.timers = {} THEN {} ELSE On({"debounce"})))

PublicBrowseMounted == <<search(FirstPage, "search")>>

loadShowcase(u) == List("showcase", 2, u, {"showcase"})
loadStatusPanel == Act("statusPanel", None, {"statusPanel"})

\* Leaving the tab ends its components, with whatever they wait for; the
\* filter panel, if it was open, is mounted anew and fetches again.
AtOp(cs, op) == {n \in DOMAIN cs : cs[n].op = op}
Without(cs, op) ==
    IF AtOp(cs, op) = {} THEN cs ELSE RemoveAt(cs, CHOOSE n \in AtOp(cs, op) : TRUE)
leaveRepositories ==
    /\ ui' = [Closed EXCEPT !.spin = @ \ {"showcase", "statusPanel"},
                            !.rows[2] = NoRows, !.asked[2] = None]
    /\ calls' = Sending(Without(Without(calls, "showcase"), "statusPanel"),
           IF ui.tab = 2 THEN <<Act("loadRepositories", None, {})>> ELSE <<>>)

\* The search bar goes with its tab; an event of an unmounted component,
\* such as its timer's, reaches nobody.
PublicBrowseDo(e, i) ==
    \/ PackageSearchBarDo(e)
    \/ handleKeydown(e)
    \/ e = "next" /\ Do(setPage(2), <<search(setPage(2), "search")>>)
    \/ e = "prev" /\ Do(setPage(1), <<search(setPage(1), "search")>>)
    \/ e = "size" /\ Do(resized, <<search(resized, "search"), search(resized, "search")>>)
    \/ e = "openFilter" /\ Do([ui EXCEPT !.tab = 2], <<Act("loadRepositories", None, {})>>)
    \/ e = "closeFilter" /\ Do([ui EXCEPT !.tab = 1], <<>>)
    \/ e = "applyFilter" /\ \E t \in {0, 3} : Do(setText(t), <<search(setText(t), "search")>>)
    \/ e = "clearFilters" /\ Do(setText(0), <<search(setText(0), "search")>>)
    \/ e = "retry" /\ Do(ui, <<search(ui, "search")>>)
    \/ e = "view" /\ Do([ui EXCEPT !.mode = IF @ = "grid" THEN "table" ELSE "grid"], <<>>)
    \/ e = "repositories"
       /\ Do(Silent(Opened("repositories", None, 0)), <<loadShowcase(Blank), loadStatusPanel>>)
    \/ e = "packages" /\ leaveRepositories

PublicBrowseBack(n) ==
    \/ Op(n, {"search"}) /\ Then(n, SearchEnded(n), <<>>)
    \/ Op(n, {"showcase"})
       /\ Then(n, IF Ok(n) THEN Listed(n)
                  ELSE [ui EXCEPT !.rows[2] = NoRows, !.asked[2] = None], <<>>)
    \/ Op(n, {"statusPanel", "loadRepositories"}) /\ Then(n, ui, <<>>)

------------------------------------------------------------------------------
\* The dependency graph.  The watch on its source runs before the element is
\* mounted and gives up, so that only a failed import, with its retry button,
\* leads to a drawing.
DependencyGraphMounted == <<Act("mounted", None, {})>>

\* The drawing's nodes are items; a click selects one and opens the dialog.
\* ui.sel is the selected node, once there is one.
DependencyGraphOffers ==
    CASE InFront("node") -> {}
      [] ui.mode = "error" -> On({"retry"})
      [] ui.mode = "drawn" -> For({"node"}, Items)
      [] OTHER -> {}

\* The dialog offers the dependencies of the package it shows (the versions
\* came with them) and, behind a stack of nodes, the way back.
hasInfo(v) == v % 2 = 1
hasVersions(v) == v >= 2
PackageNodeOffers ==
    IF ~InFront("node") THEN {}
    ELSE On({"close", "optimize"})
         \cup (IF "loading" \in ui.spin THEN {}
               ELSE On(IF ui.box.data = <<>> THEN {} ELSE {"goBack"})
                    \cup (IF \E i \in Items : hasVersions(ui.form[i]) THEN For({"dep"}, Items) ELSE {}))

GraphOffers == DependencyGraphOffers \cup PackageNodeOffers

\* fetchPackageDetail empties the dialog and searches for the package.
fetchNode(u, i) == Get("searchNode", 2, i, {"loading"})
Emptied(u) == [u EXCEPT !.form = NoRows]
Visit(i, stack) == [Emptied(ui) EXCEPT !.box = [kind |-> "node", item |-> i, data |-> stack]]

\* The first dialog is created open, and its watchers see no change; later
\* the one on visible fires, and the one on the name if it is another node.
Select(i) ==
    LET u == [Visit(i, <<>>) EXCEPT !.sel = {i}]
    IN Do(IF ui.sel = {} THEN [u EXCEPT !.form = ui.form] ELSE u,
          IF ui.sel = {} THEN <<>>
          ELSE IF ui.sel = {i} THEN <<fetchNode(u, i)>>
          ELSE <<fetchNode(u, i), fetchNode(u, i)>>)

DependencyGraphDo(e, i) ==
    \/ e = "retry" /\ Do(ui, <<Act("retry", None, {})>>)
    \/ e = "node" /\ Select(i)
    \/ e = "dep" /\ Do(Visit(i, Append(ui.box.data, ui.box.item)), <<fetchNode(ui, i)>>)
    \/ e = "goBack"
       /\ LET s == ui.box.data IN Do(Visit(Last(s), Front(s)), <<fetchNode(ui, Last(s))>>)
    \/ e \in {"close", "optimize"} /\ Do([ui EXCEPT !.box.kind = "none"], <<>>)

\* What arrives is shown beside whatever else has.
WithInfo(i) == [j \in Items |-> LET v == ui.form[j]
                                IN (IF j = i THEN 1 ELSE 0) + (IF hasVersions(v) THEN 2 ELSE 0)]
WithVersions(i) == [j \in Items |-> LET v == ui.form[j]
                                    IN (IF hasInfo(v) THEN 1 ELSE 0) + (IF j = i THEN 2 ELSE 0)]

\* A search may find only packages that look like it: the first is shown.
Found(n) ==
    IF calls[n].reply # 0 THEN {calls[n].item} ELSE {i \in Items : db[2][i] # 0} \cup {None}

PackageNodeBack(n) ==
    \/ Op(n, {"searchNode"})
       /\ IF ~Ok(n) THEN Then(n, ui, <<>>)
          ELSE \E i \in Found(n) :
                 IF i = None THEN Then(n, ui, <<>>)
                 ELSE Then(n, [ui EXCEPT !.box.item = i, !.form = WithInfo(i)],
                           <<Get("getVersions", 2, i, {"loading"})>>)
    \/ Op(n, {"getVersions"})
       /\ IF ~Ok(n) THEN Then(n, ui, <<>>)
          ELSE Then(n, [ui EXCEPT !.form = WithVersions(calls[n].item)],
                    <<Act("getScanResult", calls[n].item, {"loading"})>>)
    \/ Op(n, {"getScanResult"}) /\ Then(n, ui, <<>>)

\* The import of mermaid; render goes on to draw once it is there.
DependencyGraphBack(n) ==
    \/ Op(n, {"mounted"}) /\ Then(n, [ui EXCEPT !.mode = IF Ok(n) THEN @ ELSE "error"], <<>>)
    \/ Op(n, {"retry"})
       /\ IF Ok(n) THEN Then(n, ui, <<Act("render", None, {"drawing"})>>)
          ELSE Then(n, [ui EXCEPT !.mode = "error"], <<>>)
    \/ Op(n, {"render"}) /\ Then(n, [ui EXCEPT !.mode = IF Ok(n) THEN "drawn" ELSE "error"], <<>>)
    \/ PackageNodeBack(n)
==============================================================================
