----------------------------- MODULE AccessPages -----------------------------
(***************************************************************************)
(* The pages about accounts: src/web/src/views/UserManagement.vue,         *)
(* RoleManagement.vue and ProfileSettings.vue.  For each page: what its    *)
(* template offers, its handlers up to the request they send, and what     *)
(* they do with the answer.  Row state 2 is "disabled" for a user, "with   *)
(* other permissions" for a role.                                          *)
(***************************************************************************)
EXTENDS PageKit

UserDialogOffers == On({"cancel", "submit"})

\* Users: the administrator's row has no delete button.
UserManagementOffers ==
    IF InFront("none")
    THEN On({"search", "page", "create"})
         \cup For({"roles", "password", "toggle"}, Shown(1))
         \cup For({"delete"}, Shown(1) \ {Protected})
    ELSE UserDialogOffers

loadUsers(u) == List("loadUsers", 1, u, {"loading"})
loadRoleOptions(u) == List("loadRoleOptions", 2, u, {})

UserManagementMounted == <<loadUsers(Blank), loadRoleOptions(Blank)>>

\* Neither a search nor a click on the pager waits for the load before; the
\* three dialogs can be submitted again while a request is under way.
UserManagementDo(e, i) ==
    \/ e = "search" /\ \E q \in Queries :
           Do([ui EXCEPT !.q = q], <<loadUsers([ui EXCEPT !.q = q])>>)
    \/ e = "page" /\ LET u == [ui EXCEPT !.q = 1 - ui.q] IN Do(u, <<loadUsers(u)>>)
    \/ e = "create" /\ Do(Opened("create", None, 0), <<>>)
    \/ e \in {"roles", "password"} /\ Do(Opened(e, i, ui.rows[1][i]), <<>>)
    \/ e = "cancel" /\ Do(Closed, <<>>)
    \/ e = "submit" /\ InFront("create") /\ Do(ui, <<Create("createUser", 1, {})>>)
    \/ e = "submit" /\ InFront("roles")
       /\ Do(ui, <<Act("assignRoles", ui.box.item, {})>>)
    \/ e = "submit" /\ InFront("password")
       /\ Do(ui, <<Act("resetPassword", ui.box.item, {})>>)
    \/ e = "toggle"
       /\ Do(ui, <<Update("toggleActive", 1, i, flip(ui.rows[1][i]), {})>>)
    \/ e = "delete" /\ Do(ui, <<Delete("handleDelete", 1, i, {})>>)

\* createUser and assignRoles close whatever dialog is theirs and reload.
UserManagementBack(n) ==
    \/ Op(n, {"loadUsers", "loadRoleOptions"}) /\ Loaded(n)
    \/ Op(n, {"createUser"}) /\ Ok(n)
       /\ LET u == IF InFront("create") THEN Closed ELSE ui IN Then(n, u, <<loadUsers(u)>>)
    \/ Op(n, {"assignRoles"}) /\ Ok(n)
       /\ LET u == IF InFront("roles") THEN Closed ELSE ui IN Then(n, u, <<loadUsers(u)>>)
    \/ Op(n, {"resetPassword"}) /\ Ok(n)
       /\ Then(n, IF InFront("password") THEN Closed ELSE ui, <<>>)
    \/ Op(n, {"toggleActive", "handleDelete"}) /\ Ok(n) /\ Then(n, ui, <<loadUsers(ui)>>)
    \/ ~Op(n, {"loadUsers", "loadRoleOptions"}) /\ Failed(n)

------------------------------------------------------------------------------
\* Roles: a system role cannot be deleted.
RoleManagementOffers ==
    IF InFront("none")
    THEN On({"create"}) \cup For({"permissions", "clone"}, Shown(1))
         \cup For({"delete"}, Shown(1) \ {Protected})
    ELSE On({"cancel", "submit"})

loadRoles == List("loadRoles", 1, ui, {"loading"})
loadPermissions == List("loadPermissions", 2, ui, {})

RoleManagementMounted == <<List("loadRoles", 1, Blank, {"loading"}),
                           List("loadPermissions", 2, Blank, {})>>

\* The permissions dialog shows the role as it was listed.
RoleManagementDo(e, i) ==
    \/ e \in {"create", "clone"} /\ Do(Opened(e, i, 0), <<>>)
    \/ e = "permissions" /\ Do(Opened(e, i, flip(ui.rows[1][i])), <<>>)
    \/ e = "cancel" /\ Do(Closed, <<>>)
    \/ e = "submit" /\ InFront("create") /\ Do(ui, <<Create("createRole", 1, {})>>)
    \/ e = "submit" /\ InFront("clone") /\ Do(ui, <<Create("cloneRole", 1, {})>>)
    \/ e = "submit" /\ InFront("permissions")
       /\ Do(ui, <<Update("updatePermissions", 1, ui.box.item, ui.box.data, {})>>)
    \/ e = "delete" /\ Do(ui, <<Delete("deleteRole", 1, i, {})>>)

RoleManagementBack(n) ==
    \/ Op(n, {"loadRoles", "loadPermissions"}) /\ Loaded(n)
    \/ /\ Ok(n)
       /\ \E own \in {<<"createRole", "create">>, <<"cloneRole", "clone">>,
                      <<"updatePermissions", "permissions">>} :
              /\ Op(n, {own[1]})
              /\ Then(n, IF InFront(own[2]) THEN Closed ELSE ui, <<loadRoles>>)
    \/ Op(n, {"deleteRole"}) /\ Ok(n) /\ Then(n, ui, <<loadRoles>>)
    \/ ~Op(n, {"loadRoles", "loadPermissions"}) /\ Failed(n)

------------------------------------------------------------------------------
ProfileDialogOffers ==
    IF InFront("token") THEN On({"saved"})
    ELSE On({"cancel"} \cup (IF "creating" \in ui.spin THEN {} ELSE {"submit"}))

\* The own profile (collection 2, the row Protected) and access tokens
\* (collection 1).  The form is masked while the profile is loading.
ProfileSettingsOffers ==
    IF InFront("none")
    THEN On({"newToken", "changePassword"}) \cup For({"revoke"}, Shown(1))
         \cup (IF "loading" \in ui.spin THEN {} ELSE On({"edit", "saveProfile"}))
    ELSE ProfileDialogOffers

loadTokens == List("loadTokens", 1, ui, {"tokensLoading"})

ProfileSettingsMounted ==
    <<List("loadProfile", 2, Blank, {"loading"}),
      List("loadTokens", 1, Blank, {"tokensLoading"})>>

ProfileSettingsDo(e, i) ==
    \/ e = "edit" /\ Do([ui EXCEPT !.form[Protected] = flip(@)], <<>>)
    \/ e = "saveProfile"
       /\ Do(ui, <<Update("saveProfile", 2, Protected, filled(ui.form[Protected]), {})>>)
    \/ e = "changePassword" /\ Do(ui, <<Act("changePassword", None, {})>>)
    \/ e = "newToken" /\ Do(Opened("create", None, 0), <<>>)
    \/ e \in {"cancel", "saved"} /\ Do(Closed, <<>>)
    \/ e = "submit" /\ Do(ui, <<Create("createToken", 1, {"creating"})>>)
    \/ e = "revoke" /\ Do(ui, <<Delete("deleteToken", 1, i, {})>>)

\* The answer of a load also fills the form; that of a save does not.  A new
\* token is shown in a dialog of its own, whatever is in front by then.
ProfileSettingsBack(n) ==
    \/ Op(n, {"loadTokens"}) /\ Loaded(n)
    \/ Op(n, {"loadProfile"}) /\ Ok(n)
       /\ Then(n, [Listed(n) EXCEPT !.form = calls[n].reply], <<>>)
    \/ Op(n, {"saveProfile"}) /\ Ok(n)
       /\ Then(n, [ui EXCEPT !.rows[2][Protected] = calls[n].reply], <<>>)
    \/ Op(n, {"changePassword"}) /\ Ok(n) /\ Then(n, ui, <<>>)
    \/ Op(n, {"createToken"}) /\ Ok(n) /\ Then(n, Opened("token", None, 1), <<loadTokens>>)
    \/ Op(n, {"deleteToken"}) /\ Ok(n) /\ Then(n, ui, <<loadTokens>>)
    \/ ~Op(n, {"loadTokens"}) /\ Failed(n)
==============================================================================
