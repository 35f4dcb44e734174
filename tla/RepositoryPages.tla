--------------------------- MODULE RepositoryPages ---------------------------
(***************************************************************************)
(* The pages about repositories: RepositoryList.vue, RepositoryDetail.vue  *)
(* and RepoConfigPage.vue (src/web/src/views), with the form dialog the    *)
(* first two share (components/repository/RepositoryFormDialog.vue).       *)
(***************************************************************************)
EXTENDS PageKit

\* The form's buttons; its fields stay open while it submits.
RepositoryFormOffers ==
    On({"cancel"} \cup (IF "submitting" \in ui.spin THEN {} ELSE {"submit"}))

\* A virtual repository's members are rows of a list of their own, which goes
\* back into the form as a text: empty (0) or not (2).
VirtualMembersOffers == On(IF ui.box.data = 2 THEN {"removeMember"} ELSE {"addMember"})
VirtualMembersDo(e) ==
    \/ e = "addMember" /\ Do([ui EXCEPT !.box.data = 2], <<>>)
    \/ e = "removeMember" /\ Do([ui EXCEPT !.box.data = 0], <<>>)

\* Repositories: 2 is a virtual one with members, 1 one without.  The row
\* Protected is not virtual.  The table gives way to a skeleton while loading.
RepositoryListOffers ==
    IF InFront("none")
    THEN On({"create", "search"})
         \cup For({"edit", "enable", "public", "delete"},
                  IF "loading" \in ui.spin THEN {} ELSE Shown(1))
    ELSE RepositoryFormOffers \cup VirtualMembersOffers

loadRepos(u) == List("loadRepos", 1, u, {"loading"})
RepositoryListMounted == <<loadRepos(Blank)>>

\* The form follows editData: name and settings are replaced, the text of the
\* members (box.data) only if the repository has some.
formFor(u, i, v) ==
    [u EXCEPT !.box = [kind |-> "edit", item |-> i,
                       data |-> IF v = 2 THEN 2 ELSE u.box.data]]

\* Closing the dialog resets the form, members and all.
RepositoryFormDo(e) ==
    \/ VirtualMembersDo(e)
    \/ e = "cancel" /\ Do(Closed, <<>>)
    \/ e = "submit" /\ InFront("create")
       /\ Do(ui, <<Create("handleSubmit", 1, {"submitting"})>>)
    \/ e = "submit" /\ InFront("edit")
       /\ Do(ui, <<Update("handleSubmit", 1, ui.box.item,
                          IF ui.box.data = 2 THEN 2 ELSE 1, {"submitting"})>>)

RepositoryListDo(e, i) ==
    \/ e = "search" /\ \E q \in Queries :
           Do([ui EXCEPT !.q = q], <<loadRepos([ui EXCEPT !.q = q])>>)
    \/ e = "create" /\ Do(Opened("create", None, 0), <<>>)
    \/ e = "edit" /\ i = Protected /\ Do(formFor(ui, i, 1), <<>>)
    \/ e = "edit" /\ i # Protected /\ Do(ui, <<Get("openEditDialog", 1, i, {})>>)
    \/ RepositoryFormDo(e)
    \/ e \in {"enable", "public"} /\ Do(ui, <<Act("toggle", i, {})>>)
    \/ e = "delete" /\ Do(ui, <<Delete("deleteRepo", 1, i, {})>>)

\* The detail of a virtual repository opens the dialog when it arrives,
\* whatever is open by then; a submit that succeeds closes whatever is open.
RepositoryListBack(n) ==
    \/ Op(n, {"loadRepos"}) /\ Loaded(n)
    \/ Op(n, {"openEditDialog"}) /\ Ok(n)
       /\ Then(n, formFor(ui, calls[n].item, calls[n].reply), <<>>)
    \/ Op(n, {"handleSubmit"}) /\ Ok(n) /\ Then(n, Closed, <<loadRepos(ui)>>)
    \/ Op(n, {"toggle", "deleteRepo"}) /\ Ok(n) /\ Then(n, ui, <<loadRepos(ui)>>)
    \/ ~Op(n, {"loadRepos"}) /\ Failed(n)

------------------------------------------------------------------------------
\* One repository, the row Protected of collection 1 (1 virtual, 2 proxy), and
\* its members (collection 2).
isVirtual == ui.rows[1][Protected] = 1
isProxy == ui.rows[1][Protected] = 2

RepositoryMembersOffers ==
    CASE InFront("none") ->
           IF isVirtual THEN On({"member"}) \cup For({"removeMember"}, Shown(2)) ELSE {}
      [] InFront("member") ->
           On({"cancel"}) \cup For({"addMember"}, {i \in Items : ui.box.data = 2})
      [] InFront("migrate") ->
           On({"cancel"} \cup (IF "migrating" \in ui.spin THEN {} ELSE {"doMigrate"}))
      [] OTHER -> {}

RepositoryDetailOffers ==
    RepositoryMembersOffers
    \cup CASE InFront("none") -> On({"edit"} \cup (IF isProxy THEN {"migrate"} ELSE {}))
           [] InFront("edit") ->
                On({"cancel"} \cup (IF "submitting" \in ui.spin THEN {} ELSE {"submit"}))
           [] OTHER -> {}

loadRepo == List("loadRepo", 1, Blank, {"loading"})
loadMembers(flags) == List("loadMembers", 2, Blank, flags)
loadAvailableRepos == Get("loadAvailableRepos", 2, None, {})

RepositoryDetailMounted == <<loadRepo, loadAvailableRepos>>

\* box.data is 2 once the repositories to choose from have come (tab keeps
\* that they have); addMember waits for a choice only.
RepositoryDetailDo(e, i) ==
    \/ e \in {"edit", "migrate"} /\ Do(Opened(e, None, 0), <<>>)
    \/ e = "member" /\ Do(Opened(e, None, ui.tab), <<loadAvailableRepos>>)
    \/ e = "cancel" /\ Do(Closed, <<>>)
    \/ e = "submit" /\ Do(ui, <<Act("handleSubmit", Protected, {"submitting"})>>)
    \/ e = "addMember" /\ Do(ui, <<Create("addMember", 2, {})>>)
    \/ e = "removeMember" /\ Do(ui, <<Delete("removeMember", 2, i, {})>>)
    \/ e = "doMigrate" /\ Do(ui, <<Act("doMigrateCache", Protected, {"migrating"})>>)

\* The members of a virtual repository are loaded before its load ends.
RepositoryDetailBack(n) ==
    \/ Op(n, {"loadRepo"}) /\ Ok(n)
       /\ Then(n, Listed(n),
               IF calls[n].reply[Protected] = 1 THEN <<loadMembers(calls[n].clears)>>
               ELSE <<>>)
    \/ Op(n, {"loadMembers"}) /\ Loaded(n)
    \/ Op(n, {"loadAvailableRepos"}) /\ Ok(n)
       /\ Then(n, [ui EXCEPT !.tab = 2, !.box.data = IF InFront("member") THEN 2 ELSE @],
               <<>>)
    \/ Op(n, {"handleSubmit"}) /\ Ok(n)
       /\ Then(n, IF InFront("edit") THEN Closed ELSE ui, <<loadRepo>>)
    \/ Op(n, {"addMember"}) /\ Ok(n)
       /\ Then(n, IF InFront("member") THEN Closed ELSE ui, <<loadMembers({})>>)
    \/ Op(n, {"removeMember"}) /\ Ok(n) /\ Then(n, ui, <<loadMembers({})>>)
    \/ Op(n, {"doMigrateCache"}) /\ Ok(n)
       /\ Then(n, IF InFront("migrate") THEN Closed ELSE ui, <<loadRepo>>)
    \/ ~Op(n, {"loadMembers"}) /\ Failed(n)

------------------------------------------------------------------------------
\* How to use one repository: read once; an error takes the page's place.
RepoConfigPageMounted == <<Get("loadRepoConfig", 1, Protected, {"loading"})>>
RepoConfigPageOffers == On(IF ui.tab = 3 THEN {"back"} ELSE {})
RepoConfigPageDo(e, i) == e = "back" /\ Do(ui, <<>>)
RepoConfigPageBack(n) ==
    \/ Ok(n) /\ Then(n, [ui EXCEPT !.form[Protected] = calls[n].reply], <<>>)
    \/ ~Ok(n) /\ Then(n, [ui EXCEPT !.tab = 3], <<>>)
==============================================================================
