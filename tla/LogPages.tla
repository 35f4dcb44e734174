------------------------------ MODULE LogPages -------------------------------
(***************************************************************************)
(* The pages that read logs: DownloadLogs.vue and AuditLogs.vue            *)
(* (src/web/src/views).  A row is an entry: in state 2 an old one, past    *)
(* the retention period, in state 1 a recent one.                          *)
(***************************************************************************)
EXTENDS PageKit

DownloadLogTableOffers == On(IF "loading" \in ui.spin THEN {} ELSE {"filter", "page"})

\* Download logs: collection 2 holds the clean-up settings (row Protected).
\* The mask of a load covers filters, table and pager, not the refresh button.
DownloadLogsOffers ==
    On({"refresh", "edit"}
       \cup (IF "savingCleanupConfig" \in ui.spin THEN {} ELSE {"saveCleanup"})
       \cup (IF "cleaningNow" \in ui.spin THEN {} ELSE {"cleanupNow"}))
    \cup DownloadLogTableOffers

loadDownloadLogs(u) == List("loadLogs", 1, u, {"loading"})
loadCleanupConfig(flags) == List("loadCleanupConfig", 2, Blank, flags)
DownloadLogsMounted ==
    <<Act("loadRepositories", None, {}), loadDownloadLogs(Blank), loadCleanupConfig({})>>

DownloadLogsDo(e, i) ==
    \/ e = "refresh" /\ Do(ui, <<loadDownloadLogs(ui)>>)
    \/ e \in {"filter", "page"}
       /\ LET u == [ui EXCEPT !.q = 1 - @] IN Do(u, <<loadDownloadLogs(u)>>)
    \/ e = "edit" /\ Do([ui EXCEPT !.form[Protected] = flip(@)], <<>>)
    \/ e = "saveCleanup"
       /\ Do(ui, <<Update("saveCleanupConfig", 2, Protected, filled(ui.form[Protected]),
                          {"savingCleanupConfig"})>>)
    \/ e = "cleanupNow" /\ Do(ui, <<Clear("cleanupNow", 1, 1, {"cleaningNow"})>>)

\* The statistics follow every load, unawaited.  A save reads the settings
\* back, and a clean-up the list, before their buttons are free again.
DownloadLogsBack(n) ==
    \/ Op(n, {"loadLogs"}) /\ Ok(n) /\ Then(n, Listed(n), <<Act("loadStats", None, {})>>)
    \/ Op(n, {"loadStats", "loadRepositories"}) /\ Ok(n) /\ Then(n, ui, <<>>)
    \/ Op(n, {"loadCleanupConfig"}) /\ Ok(n)
       /\ Then(n, [Listed(n) EXCEPT !.form = calls[n].reply], <<>>)
    \/ Op(n, {"saveCleanupConfig"}) /\ Ok(n)
       /\ Then(n, ui, <<loadCleanupConfig({"savingCleanupConfig"})>>)
    \/ Op(n, {"cleanupNow"}) /\ Ok(n)
       /\ Then(n, ui, <<List("loadLogs", 1, ui, {"loading", "cleaningNow"})>>)
    \/ Failed(n)

------------------------------------------------------------------------------
\* Audit logs: only table and pager are masked.
AuditLogsOffers ==
    On({"refresh", "filter"}
       \cup (IF "loading" \in ui.spin \/ Shown(1) = {} THEN {} ELSE {"page", "size"}))

loadAuditLogs(u) == List("loadLogs", 1, u, {"loading"})
AuditLogsMounted == <<loadAuditLogs(Blank)>>

\* Another page size starts again from the first page.
AuditLogsDo(e, i) ==
    \/ e = "refresh" /\ Do(ui, <<loadAuditLogs(ui)>>)
    \/ e \in {"filter", "page"}
       /\ LET u == [ui EXCEPT !.q = 1 - @] IN Do(u, <<loadAuditLogs(u)>>)
    \/ e = "size" /\ LET u == [ui EXCEPT !.q = 0] IN Do(u, <<loadAuditLogs(u)>>)

AuditLogsBack(n) == Loaded(n)
==============================================================================
