---------------------------- MODULE PackagePages -----------------------------
(***************************************************************************)
(* Finding packages and what is in them: the package explorer              *)
(* (components/package-explorer, composables/usePackageSearch.ts) with its *)
(* version drawer and upload dialog (components/package),                  *)
(* PackageDetail.vue with VersionTable.vue, and FileBrowser.vue.           *)
(***************************************************************************)
EXTENDS PageKit

\* The explorer's query: a text (0 none, 3 a name), a page, from 1, and
\* the page size, which changes in no other way than by choice.
Query(t, p, q) == t + 4 * p + (IF large(q) THEN 16 ELSE 0)
FirstPage == [Blank EXCEPT !.q = Query(0, 1, @)]

\* usePackageSearch.  A patch without a page goes back to the first one.
setText(t) == [ui EXCEPT !.q = Query(t, 1, @)]
setPage(p) == [ui EXCEPT !.q = Query(textOf(@), p, @), !.sel = {}]
resized == [setPage(1) EXCEPT !.q = IF large(@) THEN @ - 16 ELSE @ + 16]
search(u, op) == List(op, 1, u, {"loading"})

\* The search bar is never masked.  Typing waits for 500 ms of silence
\* before it searches; Enter, a choice or Escape does not wait.
PackageSearchBarOffers == On({"input", "enter", "clear", "type", "escape"})

Silent(u) == [u EXCEPT !.timers = {}]
PackageSearchBarDo(e) ==
    \/ e = "input" /\ \E t \in {0, 3} : Do([setText(t) EXCEPT !.timers = {"debounce"}], <<>>)
    \/ e = "debounce" /\ Do(Silent(ui), <<search(ui, "search")>>)
    \/ e = "enter" /\ Do(Silent(setText(textOf(ui.q))), <<search(setText(textOf(ui.q)), "search")>>)
    \/ e = "clear" /\ Do(Silent(setText(0)), <<search(setText(0), "search")>>)
    \/ e = "type" /\ \E t \in {0, 3} : Do(setText(t), <<search(setText(t), "search")>>)

handleKeydown(e) ==
    e = "escape" /\ IF textOf(ui.q) = 0 THEN Do(ui, <<>>)
                    ELSE Do(setText(0), <<search(setText(0), "search")>>)

\* The table is masked during a load, the grid is not.
PackageTableOffers ==
    IF ui.mode = "grid" \/ "loading" \in ui.spin THEN {}
    ELSE For({"tick", "versions", "delete"}, Shown(1))
PackageGridOffers == IF ui.mode # "grid" THEN {} ELSE For({"versions", "delete"}, Shown(1))

\* Changing the page size goes back to the first page, in two updates.
PackagePaginationOffers ==
    IF Shown(1) = {} THEN {}
    ELSE On({"size"} \cup (IF ui.more /\ pageOf(ui.q) = 1 THEN {"next"} ELSE {})
                     \cup (IF pageOf(ui.q) = 2 THEN {"prev"} ELSE {}))

\* Repositories for the filter are fetched once, when it is first shown.
PackageFilterPanelOffers ==
    On(IF ui.tab = 1 THEN {"openFilter"} ELSE {"closeFilter", "applyFilter"})

VersionDrawerOffers == On({"cancel"})
UploadPackageOffers ==
    On({"cancel"} \cup (IF "uploading" \in ui.spin \/ ui.box.item = None THEN {}
                        ELSE {"doUpload"}))
    \cup For({"file"}, Items)

PackageExplorerOffers ==
    (IF ui.timers = {} THEN {} ELSE On({"debounce"}))
    \cup (CASE InFront("none") ->
                 On({"view", "upload"} \cup (IF ui.sel = {} THEN {} ELSE {"batchDelete"}))
                 \cup PackageSearchBarOffers \cup PackageTableOffers \cup PackageGridOffers
                 \cup PackagePaginationOffers \cup PackageFilterPanelOffers
            [] InFront("versions") -> VersionDrawerOffers
            [] InFront("upload") -> UploadPackageOffers)

LargePage == [FirstPage EXCEPT !.q = @ + 16]
PackageExplorerMounted == <<search(LargePage, "search")>>

\* A batch deletes its packages one after the other, whatever fails.
BatchDelete(S, clears) ==
    LET i == CHOOSE x \in S : TRUE
    IN DeleteNext("onBatchDelete", 1, i, S \ {i}, clears)

\* Closing the dialog resets the form and calls no upload off.
closeUpload == [Closed EXCEPT !.form = NoRows, !.spin = @ \ {"uploading"}]

\* A Maven file is read for its coordinates (parseMavenCoordinates).
UploadPackageDo(e, i) ==
    \/ e = "file"
       /\ Do([ui EXCEPT !.box.item = i],
             IF i = Protected THEN <<Act("parseMavenCoordinates", i, {})>> ELSE <<>>)
    \/ e = "doUpload" /\ Do(ui, <<Create("handleUpload", 1, {"uploading"})>>)
    \/ e = "cancel" /\ InFront("upload") /\ Do(closeUpload, <<>>)

\* ui.form marks, in the drawer, whose versions are shown and, in the upload
\* dialog, whose Maven coordinates have been read.
PackageExplorerDo(e, i) ==
    \/ PackageSearchBarDo(e)
    \/ handleKeydown(e)
    \/ e = "next" /\ Do(setPage(2), <<search(setPage(2), "search")>>)
    \/ e = "prev" /\ Do(setPage(1), <<search(setPage(1), "search")>>)
    \/ e = "size" /\ Do(resized, <<search(resized, "search"), search(resized, "search")>>)
    \/ e = "openFilter"
       /\ Do([ui EXCEPT !.tab = 2], <<Act("loadRepositories", None, {})>>)
    \/ e = "closeFilter" /\ Do([ui EXCEPT !.tab = 1], <<>>)
    \/ e = "applyFilter" /\ \E t \in {0, 3} : Do(setText(t), <<search(setText(t), "search")>>)
    \/ e = "view" /\ Do([ui EXCEPT !.mode = IF @ = "grid" THEN "table" ELSE "grid"], <<>>)
    \/ e = "tick" /\ Do([ui EXCEPT !.sel = @ \cup {i}], <<>>)
    \/ e = "delete" /\ Do(ui, <<Delete("onDeletePackage", 1, i, {})>>)
    \/ e = "batchDelete"
       /\ LET S == ui.sel \cap Shown(1)
          IN IF S = {} THEN Do([ui EXCEPT !.sel = {}], <<search(ui, "refresh")>>)
             ELSE Do(ui, <<BatchDelete(S, {})>>)
    \/ e = "versions"
       /\ Do(Opened("versions", i, 0), <<Get("loadVersions", 1, i, {"versionsLoading"})>>)
    \/ e = "upload" /\ Do(Opened("upload", None, 0), <<>>)
    \/ e = "cancel" /\ InFront("versions") /\ Do(Closed, <<>>)
    \/ UploadPackageDo(e, i)

\* refresh searches, and goes back page by page while there is nothing.
SearchEnded(n) ==
    IF Ok(n) THEN [Listed(n) EXCEPT !.sel = IF ui.mode = "grid" THEN @ ELSE {}]
    ELSE [ui EXCEPT !.rows[1] = NoRows, !.more = FALSE, !.asked[1] = None]
refresh(n) ==
    LET u == SearchEnded(n)
        back == [u EXCEPT !.q = Query(textOf(@), 1, @)]
    IN IF u.rows[1] = NoRows /\ pageOf(u.q) > 1
       THEN Then(n, back, <<search(back, "refresh")>>)
       ELSE Then(n, u, <<>>)

\* The coordinates go into the form whichever file is chosen by then; an
\* upload that succeeds closes the dialog, and resets it, whatever it holds.
UploadPackageBack(n) ==
    \/ Op(n, {"parseMavenCoordinates"})
       /\ Then(n, IF InFront("upload") /\ Ok(n)
                  THEN [ui EXCEPT !.form[calls[n].item] = 2] ELSE ui, <<>>)
    \/ Op(n, {"handleUpload"})
       /\ IF ~Ok(n) THEN Then(n, ui, <<>>)
          ELSE LET u == IF InFront("upload") THEN closeUpload ELSE ui
               IN Then(n, u, <<search(u, "refresh")>>)

\* The drawer shows the versions that came last, whatever its title says.
VersionDrawerBack(n) ==
    Op(n, {"loadVersions"}) /\ Ok(n)
    /\ Then(n, IF InFront("versions")
               THEN [ui EXCEPT !.form = [NoRows EXCEPT ![calls[n].item] = 1]] ELSE ui, <<>>)

PackageExplorerBack(n) ==
    \/ Op(n, {"search"}) /\ Then(n, SearchEnded(n), <<>>)
    \/ Op(n, {"refresh"}) /\ refresh(n)
    \/ Op(n, {"onDeletePackage"}) /\ Ok(n) /\ Then(n, ui, <<search(ui, "refresh")>>)
    \/ Op(n, {"onBatchDelete"})
       /\ IF calls[n].arg # {} THEN Then(n, ui, <<BatchDelete(calls[n].arg, {})>>)
          ELSE Then(n, [ui EXCEPT !.sel = {}], <<search(ui, "refresh")>>)
    \/ VersionDrawerBack(n)
    \/ Op(n, {"loadRepositories"}) /\ Ok(n) /\ Then(n, ui, <<>>)
    \/ UploadPackageBack(n)
    \/ Op(n, {"loadVersions", "onDeletePackage", "loadRepositories"}) /\ Failed(n)

------------------------------------------------------------------------------
\* The detail page of a package (an item), whose one version is in state 1
\* published, 2 yanked, or gone.  Following a link to another package keeps
\* the component: box.item is the package of the route, ui.sel the package
\* shown, rows[1] its version, rows[2] the component's cache: 3 for a package
\* without versions.
Detailed(v) == IF v = 0 THEN 3 ELSE v
routed == ui.box.item
Show(u, i, v) == [u EXCEPT !.sel = {i}, !.rows[1] = [NoRows EXCEPT ![i] = v],
                           !.rows[2][i] = v]

\* VersionTable offers what the status of a version allows.
VersionTableOffers ==
    For({"yank"}, {i \in ui.sel : ui.rows[1][i] = 1})
    \cup For({"delete"}, {i \in ui.sel : ui.rows[1][i] = 2})

PackageDetailOffers == For({"follow"}, Items \ {routed}) \cup VersionTableOffers

fetchPackageDetail(i) == Get("fetchPackageDetail", 1, i, {"loading"})
refreshInBackground(i) == Get("refreshInBackground", 1, i, {"isRefreshing"})
PackageDetailMounted == <<fetchPackageDetail(Protected)>>

\* What is in the cache is shown at once, and refreshed if it is older than
\* five minutes and no refresh is under way.
loadFromCacheOrFetch(i) ==
    LET v == ui.rows[2][i]
        u == [ui EXCEPT !.box = [kind |-> "route", item |-> i, data |-> 0]]
    IN IF v = 0 THEN Do(u, <<fetchPackageDetail(i)>>)
       ELSE \E expired \in BOOLEAN :
              Do(Show(u, i, v),
                 IF expired /\ "isRefreshing" \notin ui.spin /\ v # 3
                 THEN <<refreshInBackground(i)>> ELSE <<>>)

PackageDetailDo(e, i) ==
    \/ e = "follow" /\ loadFromCacheOrFetch(i)
    \/ e = "yank" /\ Do(ui, <<Update("handleYank", 1, i, 2, {})>>)
    \/ e = "delete" /\ Do(ui, <<Delete("handleDelete", 1, i, {})>>)

\* What was done to a version is noted in the list shown and in the cache of
\* the route's package: a list shown from the cache is the cached one.
Noted(v) ==
    [ui EXCEPT !.rows[1] = [i \in Items |-> IF i \in ui.sel THEN v ELSE 0],
               !.rows[2] = [i \in Items |-> IF i \in ui.sel \/ (i = routed /\ @[i] # 0)
                                            THEN v ELSE @[i]]]

refreshed(n) ==
    LET i == calls[n].item
        v == Detailed(calls[n].reply)
    IN IF i = routed THEN Show(ui, i, v) ELSE [ui EXCEPT !.rows[2][i] = v]

PackageDetailBack(n) ==
    \/ Op(n, {"fetchPackageDetail"}) /\ Ok(n)
       /\ Then(n, Show(ui, calls[n].item, Detailed(calls[n].reply)), <<>>)
    \/ Op(n, {"refreshInBackground"}) /\ Ok(n) /\ Then(n, refreshed(n), <<>>)
    \/ Op(n, {"handleYank"}) /\ Ok(n) /\ Then(n, Noted(2), <<>>)
    \/ Op(n, {"handleDelete"}) /\ Ok(n) /\ Then(n, Noted(3), <<>>)
    \/ Failed(n)

------------------------------------------------------------------------------
\* The files of a storage backend: ui.tab is the backend (1 or 2), ui.mode the
\* path, "root" or "dir"; query 1 or 2 asks for a backend's root, 3 for a
\* directory.
FileBrowserOffers ==
    On({"backend", "refresh"}
       \cup (IF "loading" \in ui.spin THEN {} ELSE {"root", "enter"}))
    \cup For({"download"}, IF "loading" \in ui.spin THEN {} ELSE Shown(1))

loadDirectory(u, path) ==
    List("loadDirectory", 1, [u EXCEPT !.q = IF path = "root" THEN u.tab ELSE 3], {"loading"})
FileBrowserMounted == <<Act("loadBackends", None, {})>>

FileBrowserDo(e, i) ==
    \/ e = "backend"
       /\ LET u == [ui EXCEPT !.tab = 3 - @, !.mode = "root"] IN Do(u, <<loadDirectory(u, "root")>>)
    \/ e = "refresh" /\ Do(ui, <<loadDirectory(ui, ui.mode)>>)
    \/ e = "root" /\ Do(ui, <<loadDirectory(ui, "root")>>)
    \/ e = "enter" /\ Do(ui, <<loadDirectory(ui, "dir")>>)
    \/ e = "download" /\ Do(ui, <<Act("downloadFile", i, {})>>)

\* The path follows the answer, the backend the choice.
FileBrowserBack(n) ==
    \/ Op(n, {"loadBackends"})
       /\ \E default \in {1, 2} :
            LET u == IF Ok(n) THEN [ui EXCEPT !.tab = default] ELSE ui
            IN Then(n, u, <<loadDirectory(u, "root")>>)
    \/ Op(n, {"loadDirectory"}) /\ Ok(n)
       /\ Then(n, [Listed(n) EXCEPT !.mode = IF calls[n].arg = 3 THEN "dir" ELSE "root"], <<>>)
    \/ Op(n, {"downloadFile"}) /\ Ok(n) /\ Then(n, ui, <<>>)
    \/ Op(n, {"loadDirectory", "downloadFile"}) /\ Failed(n)
==============================================================================
