---------------------------- MODULE SettingsPages ----------------------------
(***************************************************************************)
(* The pages that change how the server runs: SystemConfig.vue with        *)
(* CasSettingsPanel.vue, and CacheManagement.vue (src/web/src).            *)
(***************************************************************************)
EXTENDS PageKit

\* Settings.  A row is a key; form holds configValues, rows originalValues.
\* The fields stay open for typing while a save is under way.
dirtyKeys == {i \in Items : ui.form[i] # ui.rows[1][i]}

SystemConfigOffers ==
    For({"edit"}, {i \in Items : ui.form[i] # 0})
    \cup (IF dirtyKeys = {} THEN {} ELSE On({"reset"}))
    \cup (IF dirtyKeys = {} \/ "saving" \in ui.spin THEN {} ELSE On({"save"}))

SystemConfigMounted == <<List("loadConfigs", 1, Blank, {"loading"})>>

changedValues == [i \in Items |-> IF i \in dirtyKeys THEN ui.form[i] ELSE 0]

SystemConfigDo(e, i) ==
    \/ e = "edit" /\ Do([ui EXCEPT !.form[i] = flip(@)], <<>>)
    \/ e = "reset" /\ Do([ui EXCEPT !.form = ui.rows[1]], <<>>)
    \/ e = "save" /\ Do(ui, <<Save("saveConfigs", 1, changedValues, {"saving"})>>)

\* After a save each key of the payload takes as its original value what its
\* field holds by then, which need not be what was sent.
originalsAfterSave(sent) ==
    [i \in Items |-> IF sent[i] = 0 THEN ui.rows[1][i] ELSE ui.form[i]]

SystemConfigBack(n) ==
    \/ Op(n, {"loadConfigs"}) /\ Ok(n)
       /\ Then(n, [Listed(n) EXCEPT !.form = calls[n].reply], <<>>)
    \/ Op(n, {"saveConfigs"}) /\ Ok(n)
       /\ Then(n, [ui EXCEPT !.rows[1] = originalsAfterSave(calls[n].arg)], <<>>)
    \/ Failed(n)

\* The page is left without a question only when no key is dirty; otherwise
\* the user has confirmed that the changes may go.
SystemConfigLeavesSilently == dirtyKeys = {}

------------------------------------------------------------------------------
\* The CAS panel: one record, read once, saved as a whole.
CasSettingsPanelOffers ==
    On((IF "loading" \in ui.spin THEN {} ELSE {"edit"})
       \cup (IF "saving" \in ui.spin THEN {} ELSE {"save"})
       \cup (IF "testing" \in ui.spin THEN {} ELSE {"test"}))

CasSettingsPanelMounted == <<List("loadConfig", 1, Blank, {"loading"})>>

\* testConnection clears its last result before it asks (form is the record,
\* box.data the result: 1 good, 2 bad).
CasSettingsPanelDo(e, i) ==
    \/ e = "edit" /\ Do([ui EXCEPT !.form[Protected] = flip(@)], <<>>)
    \/ e = "save"
       /\ Do(ui, <<Update("saveConfig", 1, Protected, filled(ui.form[Protected]), {"saving"})>>)
    \/ e = "test"
       /\ Do([ui EXCEPT !.box.data = 0], <<Act("testConnection", None, {"testing"})>>)

CasSettingsPanelBack(n) ==
    \/ Op(n, {"loadConfig"}) /\ Ok(n)
       /\ Then(n, [ui EXCEPT !.form = calls[n].reply], <<>>)
    \/ Op(n, {"testConnection"})
       /\ Then(n, [ui EXCEPT !.box.data = IF Ok(n) THEN 1 ELSE 2], <<>>)
    \/ Op(n, {"saveConfig"}) /\ Ok(n) /\ Then(n, ui, <<>>)
    \/ ~Op(n, {"testConnection"}) /\ Failed(n)

------------------------------------------------------------------------------
\* Caches.  An entry in state 1 is of the first cache, in state 2 of another;
\* q is the selected cache: 0 none yet, 2 the first, 1 the other.
AnyCache == 0
FirstCache == 2
OtherCache == 1

busyUnless(flag, E) == IF flag \in ui.spin THEN {} ELSE E

CacheItemOffers ==
    On({"page"} \cup busyUnless("loading", {"search"}))
    \cup For({"delete"}, {i \in Shown(1) : i \notin ui.spin})

CacheManagementOffers ==
    On((IF ui.sel = {} THEN {} ELSE {"first", "other"})
       \cup busyUnless("clearing", {"clear"})
       \cup (IF ui.q = AnyCache THEN {} ELSE busyUnless("cleaningExpired", {"cleanup"})))
    \cup CacheItemOffers
    \cup For(busyUnless("invalidating", {"invalidate"}), Items)

loadItems(u, more) == List("loadItems", 1, u, {"loading"} \cup more)
\* Every handler that changes entries awaits the statistics (whose numbers
\* are not modelled) before the entries.
loadStats(flags) == Get("loadStats", 2, None, flags)

CacheManagementMounted == <<Get("loadCacheList", 2, None, {}), loadItems(Blank, {})>>

\* There is one deletingKey: a second delete takes over the spinner of the
\* first, and the first to end turns off the other's.
deletingFlags == Items
noneDeleting(u) == [u EXCEPT !.spin = @ \ deletingFlags]
deleteEnds(n, u) == IF calls[n].clears \cap deletingFlags = {} THEN u ELSE noneDeleting(u)

CacheManagementDo(e, i) ==
    \/ e \in {"search", "page"} /\ Do(ui, <<loadItems(ui, {})>>)
    \/ \E q \in {FirstCache, OtherCache} :
           /\ e = IF q = FirstCache THEN "first" ELSE "other"
           /\ Do([ui EXCEPT !.q = q], <<loadItems([ui EXCEPT !.q = q], {})>>)
    \/ e = "clear" /\ Do(ui, <<Clear("handleClearCache", 1, AnyCache, {"clearing"})>>)
    \/ e = "delete"
       /\ Do(noneDeleting(ui), <<Evict("handleDeleteItem", 1, i, ui.q, {i})>>)
    \/ e = "cleanup"
       /\ Do(ui, <<Clear("handleCleanupExpired", 1, ui.q, {"cleaningExpired"})>>)
    \/ e = "invalidate"
       /\ Do(ui, <<Evict("handleInvalidate", 1, i, ui.q, {"invalidating"})>>)

\* The list of caches selects the first one if none is, and loads nothing:
\* the entries shown are still those of every cache.
CacheManagementBack(n) ==
    \/ Op(n, {"loadItems"})
       /\ Then(n, deleteEnds(n, IF Ok(n) THEN Listed(n) ELSE ui), <<>>)
    \/ Op(n, {"loadCacheList"}) /\ Ok(n)
       /\ Then(n, [ui EXCEPT !.sel = Items, !.q = IF @ = AnyCache THEN FirstCache ELSE @],
               <<>>)
    \/ Op(n, {"loadStats"}) /\ Then(n, ui, <<loadItems(ui, calls[n].clears)>>)
    \/ /\ Op(n, {"handleClearCache", "handleDeleteItem", "handleCleanupExpired",
                 "handleInvalidate"})
       /\ Ok(n)
       /\ Then(n, ui, <<loadStats(calls[n].clears)>>)
    \/ /\ ~Op(n, {"loadItems", "loadStats"}) /\ ~Ok(n)
       /\ Then(n, deleteEnds(n, ui), <<>>)
==============================================================================
