--------------------------- MODULE OperationsPages ---------------------------
(***************************************************************************)
(* The pages an operator works with: WebhookManagement.vue,                *)
(* BackupManagement.vue, StorageManagement.vue, ScheduledTasks.vue,        *)
(* RuntimeStatus.vue with its panels, and Dashboard.vue                    *)
(* (src/web/src/views).  A submit that fails its form's rules changes      *)
(* nothing and is left out; a confirmed click is one event.                *)
(***************************************************************************)
EXTENDS PageKit

\* Webhooks.  A button whose spinner runs takes no clicks; "testing" is a
\* field of the listed row and goes when the list is replaced.
WebhookManagementOffers ==
    CASE InFront("none") ->
           On({"create"}) \cup For({"edit", "deliveries", "delete"}, Shown(1))
           \cup For({"test"}, {i \in Shown(1) : i \notin ui.spin})
      [] ui.box.kind \in {"create", "edit"} ->
           On({"cancel"} \cup (IF "submitting" \in ui.spin THEN {} ELSE {"submit"}))
      [] InFront("deliveries") -> On({"cancel"})

loadWebhooks(u, more) == List("loadWebhooks", 1, u, {"loading"} \cup more)
WebhookManagementMounted == <<loadWebhooks(Blank, {})>>

\* The delivery dialog opens over whatever it showed last.
WebhookManagementDo(e, i) ==
    \/ e \in {"create", "edit"} /\ Do(Opened(e, i, 0), <<>>)
    \/ e = "cancel" /\ Do(Closed, <<>>)
    \/ e = "submit" /\ InFront("create")
       /\ Do(ui, <<Create("submitWebhook", 1, {"submitting"})>>)
    \/ e = "submit" /\ InFront("edit")
       /\ Do(ui, <<Update("submitWebhook", 1, ui.box.item, 2, {"submitting"})>>)
    \/ e = "test" /\ Do(ui, <<Act("testWebhook", i, {i})>>)
    \/ e = "deliveries"
       /\ Do(Opened(e, i, 0), <<Get("showDeliveryDialog", 1, i, {"deliveryLoading"})>>)
    \/ e = "delete" /\ Do(ui, <<Delete("handleDelete", 1, i, {})>>)

\* "submitting" stays on until the reload has ended too; a new list takes the
\* old rows' "testing" with it.
WebhookManagementBack(n) ==
    \/ Op(n, {"loadWebhooks"}) /\ ~Ok(n) /\ Then(n, ui, <<>>)
    \/ Op(n, {"loadWebhooks"}) /\ Ok(n)
       /\ Then(n, [Listed(n) EXCEPT !.spin = @ \ Items], <<>>)
    \/ Op(n, {"submitWebhook"}) /\ Ok(n)
       /\ LET u == IF ui.box.kind \in {"create", "edit"} THEN Closed ELSE ui
          IN Then(n, u, <<loadWebhooks(u, {"submitting"})>>)
    \/ Op(n, {"handleDelete"}) /\ Ok(n) /\ Then(n, ui, <<loadWebhooks(ui, {})>>)
    \/ Op(n, {"showDeliveryDialog"}) /\ Ok(n)
       /\ Then(n, [ui EXCEPT !.box.data = calls[n].reply], <<>>)
    \/ Op(n, {"testWebhook"}) /\ Ok(n) /\ Then(n, ui, <<>>)
    \/ ~Op(n, {"loadWebhooks"}) /\ Failed(n)

------------------------------------------------------------------------------
\* Backups (collection 1; 2 is "completed") and their schedule (collection 2,
\* the row Protected).  Only a completed backup can be restored.
BackupManagementOffers ==
    IF InFront("none")
    THEN On({"create", "toggleSchedule"})
         \cup (IF "savingConfig" \in ui.spin THEN {} ELSE On({"saveSchedule"}))
         \cup For({"restore"}, {i \in Shown(1) : ui.rows[1][i] = 2})
         \cup For({"delete"}, Shown(1))
    ELSE On({"cancel"} \cup (IF "creating" \in ui.spin THEN {} ELSE {"submit"}))

loadBackups(more) == List("loadBackups", 1, ui, {"loading"} \cup more)
loadScheduleConfig(more) == List("loadScheduleConfig", 2, ui, more)

BackupManagementMounted == <<List("loadBackups", 1, Blank, {"loading"}),
                             List("loadScheduleConfig", 2, Blank, {})>>

BackupManagementDo(e, i) ==
    \/ e = "create" /\ Do(Opened("create", None, 0), <<>>)
    \/ e = "cancel" /\ Do(Closed, <<>>)
    \/ e = "submit" /\ Do(ui, <<Create("createBackup", 1, {"creating"})>>)
    \/ e = "toggleSchedule"
       /\ Do([ui EXCEPT !.form[Protected] = flip(@)], <<>>)
    \/ e = "saveSchedule"
       /\ Do(ui, <<Update("saveScheduleConfig", 2, Protected, filled(ui.form[Protected]),
                          {"savingConfig"})>>)
    \/ e = "restore" /\ Do(ui, <<Act("handleRestore", i, {})>>)
    \/ e = "delete" /\ Do(ui, <<Delete("handleDelete", 1, i, {})>>)

\* The schedule is read again after a save: the answer overwrites the form.
BackupManagementBack(n) ==
    \/ Op(n, {"loadBackups"}) /\ Loaded(n)
    \/ Op(n, {"loadScheduleConfig"}) /\ Ok(n)
       /\ Then(n, [Listed(n) EXCEPT !.form = calls[n].reply], <<>>)
    \/ Op(n, {"saveScheduleConfig"}) /\ Ok(n)
       /\ Then(n, ui, <<loadScheduleConfig({"savingConfig"})>>)
    \/ Op(n, {"createBackup"}) /\ Ok(n)
       /\ Then(n, Closed, <<loadBackups({"creating"})>>)
    \/ Op(n, {"handleRestore", "handleDelete"}) /\ Ok(n) /\ Then(n, ui, <<loadBackups({})>>)
    \/ ~Op(n, {"loadBackups"}) /\ Failed(n)

------------------------------------------------------------------------------
\* Storage backends; Protected is the default one, 2 is "changed".
StorageManagementOffers ==
    IF InFront("none")
    THEN On({"create"}) \cup For({"edit", "test"}, Shown(1))
         \cup For({"setDefault", "delete"}, Shown(1) \ {Protected})
    ELSE On({"type", "cancel"} \cup (IF "saving" \in ui.spin THEN {} ELSE {"submit"}))

loadStorages(more) == List("loadStorages", 1, ui, {"loading"} \cup more)
StorageManagementMounted == <<List("loadStorages", 1, Blank, {"loading"})>>

\* handleEdit puts the row's own config object into the form, so what is
\* typed ("type") shows in the list behind the dialog at once, and stays
\* there when the dialog is cancelled.
StorageManagementDo(e, i) ==
    \/ e \in {"create", "edit"} /\ Do(Opened(e, i, 0), <<>>)
    \/ e = "type" /\ InFront("edit")
       /\ Do([ui EXCEPT !.rows[1][ui.box.item] = IF @ = 0 THEN 0 ELSE 2], <<>>)
    \/ e = "type" /\ InFront("create") /\ Do([ui EXCEPT !.box.data = 2], <<>>)
    \/ e = "cancel" /\ Do(Closed, <<>>)
    \/ e = "submit" /\ InFront("create")
       /\ Do(ui, <<Create("handleSubmit", 1, {"saving"})>>)
    \/ e = "submit" /\ InFront("edit")
       /\ Do(ui, <<Update("handleSubmit", 1, ui.box.item, 2, {"saving"})>>)
    \/ e = "setDefault" /\ Do(ui, <<Act("handleSetDefault", i, {})>>)
    \/ e = "test" /\ Do(ui, <<Act("handleTest", i, {})>>)
    \/ e = "delete" /\ Do(ui, <<Delete("handleDelete", 1, i, {})>>)

StorageManagementBack(n) ==
    \/ Op(n, {"loadStorages"}) /\ Loaded(n)
    \/ Op(n, {"handleSubmit"}) /\ Ok(n) /\ Then(n, Closed, <<loadStorages({"saving"})>>)
    \/ Op(n, {"handleDelete", "handleSetDefault"}) /\ Ok(n)
       /\ Then(n, ui, <<loadStorages({})>>)
    \/ Op(n, {"handleTest"}) /\ Ok(n) /\ Then(n, ui, <<>>)
    \/ ~Op(n, {"loadStorages"}) /\ Failed(n)

------------------------------------------------------------------------------
\* Scheduled tasks (collection 1; 2 is "schedule changed") and the global
\* interval.  "running" is a field of the listed row.
ScheduledTasksOffers ==
    CASE InFront("none") ->
           On({"interval"} \cup (IF "loading" \in ui.spin THEN {} ELSE {"refresh"}))
           \cup For({"edit"}, Shown(1))
           \cup For({"run"}, {i \in Shown(1) : i \notin ui.spin})
      [] OTHER -> On({"cancel"} \cup (IF "saving" \in ui.spin THEN {} ELSE {"submit"}))

loadTasks(more) == List("load", 1, ui, {"loading"} \cup more)
ScheduledTasksMounted == <<List("load", 1, Blank, {"loading"})>>

\* Both dialogs save under the one flag "saving".
ScheduledTasksDo(e, i) ==
    \/ e = "refresh" /\ Do(ui, <<loadTasks({})>>)
    \/ e \in {"edit", "interval"} /\ Do(Opened(e, i, 0), <<>>)
    \/ e = "cancel" /\ Do(Closed, <<>>)
    \/ e = "submit" /\ InFront("edit")
       /\ Do(ui, <<Update("save", 1, ui.box.item, 2, {"saving"})>>)
    \/ e = "submit" /\ InFront("interval")
       /\ Do(ui, <<Act("saveInterval", None, {"saving"})>>)
    \/ e = "run" /\ Do(ui, <<Act("runNow", i, {i})>>)

ScheduledTasksBack(n) ==
    \/ Op(n, {"load"}) /\ ~Ok(n) /\ Then(n, ui, <<>>)
    \/ Op(n, {"load"}) /\ Ok(n)
       /\ Then(n, [Listed(n) EXCEPT !.spin = @ \ Items], <<>>)
    \/ /\ Ok(n)
       /\ \E own \in {<<"save", "edit">>, <<"saveInterval", "interval">>} :
              /\ Op(n, {own[1]})
              /\ Then(n, IF InFront(own[2]) THEN Closed ELSE ui, <<loadTasks({"saving"})>>)
    \/ Op(n, {"runNow"}) /\ Ok(n) /\ Then(n, ui, <<>>)
    \/ ~Op(n, {"load"}) /\ Failed(n)

------------------------------------------------------------------------------
\* The run-time page: system information (collection 1) and, in a second tab
\* that stays mounted once opened, the connections (collection 2) with an
\* optional refresh every three seconds.
SystemInfoOffers == On(IF "loading" \in ui.spin THEN {} ELSE {"refresh"})
ConnectionsOffers ==
    On({"autoRefresh"} \cup (IF "loading2" \in ui.spin THEN {} ELSE {"refresh2"}))

RuntimeStatusOffers ==
    On({"otherTab"} \cup (IF ui.timers = {} THEN {} ELSE {"tick"}))
    \cup (IF ui.tab = 1 THEN SystemInfoOffers ELSE ConnectionsOffers)

loadSystemInfo == List("loadSystemInfo", 1, Blank, {"loading"})
loadConnections == List("loadConnections", 2, Blank, {"loading2"})
RuntimeStatusMounted == <<loadSystemInfo>>

ConnectionsDo(e) ==
    \/ e \in {"refresh2", "tick"} /\ Do(ui, <<loadConnections>>)
    \/ e = "autoRefresh" /\ ui.timers = {}
       /\ Do([ui EXCEPT !.timers = {"connections"}], <<loadConnections>>)
    \/ e = "autoRefresh" /\ ui.timers # {} /\ Do([ui EXCEPT !.timers = {}], <<>>)

\* Opening the second tab for the first time mounts the panel, which loads.
RuntimeStatusDo(e, i) ==
    \/ e = "otherTab"
       /\ Do([ui EXCEPT !.tab = 3 - @, !.sel = Items],
             IF ui.tab = 1 /\ ui.sel = {} THEN <<loadConnections>> ELSE <<>>)
    \/ e = "refresh" /\ Do(ui, <<loadSystemInfo>>)
    \/ ConnectionsDo(e)

RuntimeStatusBack(n) == Loaded(n)

------------------------------------------------------------------------------
\* The dashboard: its numbers are replaced as a whole.
DashboardOffers == On(IF "loading" \in ui.spin THEN {} ELSE {"refresh"})
DashboardMounted == <<List("loadStats", 1, Blank, {"loading"})>>
DashboardDo(e, i) == e = "refresh" /\ Do(ui, <<List("loadStats", 1, ui, {"loading"})>>)
DashboardBack(n) == Loaded(n)
==============================================================================
