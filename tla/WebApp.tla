------------------------------- MODULE WebApp --------------------------------
(***************************************************************************)
(* The console: whichever page is mounted, the user clicks what it offers, *)
(* the server answers, and the page goes on.                               *)
(***************************************************************************)
EXTENDS AccessPages, OperationsPages, SettingsPages, RepositoryPages,
    LogPages, SecurityPages, PublicPages

CONSTANT Pages   \* the pages a behaviour may visit

AllPages == {"UserManagement", "RoleManagement", "ProfileSettings",
    "WebhookManagement", "BackupManagement", "StorageManagement",
    "ScheduledTasks", "RuntimeStatus", "Dashboard", "SystemConfig",
    "CasSettingsPanel", "CacheManagement",
    "RepositoryList", "RepositoryDetail", "RepoConfigPage", "DownloadLogs", "AuditLogs",
    "SecurityCenter", "VulnRuleManagement", "BlockRuleList", "RiskAssessment",
    "PackageExplorer", "PackageDetail", "FileBrowser",
    "PublicBrowse", "DependencyGraph"}

\* The pages a run visits are the console's, and none of them is called None.
ASSUME ConsoleAssumption == Pages \subseteq AllPages /\ None \notin AllPages

\* What a visit to a page may have of clicks and of failures is a number.
ASSUME BoundsAssumption == \A p \in Pages : MaxEvents[p] \in Nat /\ MaxFaults[p] \in Nat

vars == kitVars

\* v: what kind of repository, user or rule the protected row is; w: the other.
Stored(c, v, w) ==
    [i \in Items |->
        IF c = 1 THEN IF i = Protected THEN v ELSE w
        ELSE IF i = Protected THEN 1 ELSE 0]

Mounted(p) ==
    CASE p = "UserManagement" -> UserManagementMounted
      [] p = "RoleManagement" -> RoleManagementMounted
      [] p = "ProfileSettings" -> ProfileSettingsMounted
      [] p = "WebhookManagement" -> WebhookManagementMounted
      [] p = "BackupManagement" -> BackupManagementMounted
      [] p = "StorageManagement" -> StorageManagementMounted
      [] p = "ScheduledTasks" -> ScheduledTasksMounted
      [] p = "RuntimeStatus" -> RuntimeStatusMounted
      [] p = "Dashboard" -> DashboardMounted
      [] p = "SystemConfig" -> SystemConfigMounted
      [] p = "CasSettingsPanel" -> CasSettingsPanelMounted
      [] p = "CacheManagement" -> CacheManagementMounted
      [] p = "RepositoryList" -> RepositoryListMounted
      [] p = "RepositoryDetail" -> RepositoryDetailMounted
      [] p = "RepoConfigPage" -> RepoConfigPageMounted
      [] p = "DownloadLogs" -> DownloadLogsMounted
      [] p = "AuditLogs" -> AuditLogsMounted
      [] p = "SecurityCenter" -> SecurityCenterMounted
      [] p = "VulnRuleManagement" -> VulnRuleManagementMounted
      [] p = "BlockRuleList" -> BlockRuleListMounted
      [] p = "RiskAssessment" -> RiskAssessmentMounted
      [] p = "PackageExplorer" -> PackageExplorerMounted
      [] p = "PackageDetail" -> PackageDetailMounted
      [] p = "FileBrowser" -> FileBrowserMounted
      [] p = "PublicBrowse" -> PublicBrowseMounted
      [] p = "DependencyGraph" -> DependencyGraphMounted

\* The refs a page starts with.  The block rules may also start with a dialog
\* open that a long use of the page begins with.
Created(p) ==
    CASE p = "PackageExplorer" -> {[LargePage EXCEPT !.mode = "table"]}
      [] p = "PublicBrowse" -> {[FirstPage EXCEPT !.mode = "table"]}
      [] p = "PackageDetail" ->
           {[Blank EXCEPT !.box = [kind |-> "route", item |-> Protected, data |-> 0]]}
      [] p = "FileBrowser" -> {[Blank EXCEPT !.mode = "root"]}
      [] p = "BlockRuleList" ->
           {[Blank EXCEPT !.box.kind = k] : k \in {"none", "generator"}}
      [] OTHER -> {Blank}

Init ==
    /\ page \in Pages
    /\ \E u \in Created(page) : ui = [u EXCEPT !.spin = Flags(Mounted(page))]
    /\ \E k \in {<<1, 2>>, <<2, 2>>, <<1, 0>>} :
         db = [c \in Collections |-> Stored(c, k[1], k[2])]
    /\ calls = Sending(<<>>, Mounted(page))
    /\ events = 0
    /\ faults = 0
    /\ excused = [c \in Collections |-> FALSE]

ClickOn(p, Offers, DoIt(_, _)) ==
    /\ page = p
    /\ \E k \in Offers : DoIt(k[1], k[2])

Click ==
    /\ page # None /\ events < MaxEvents[page]
    /\ \/ ClickOn("UserManagement", UserManagementOffers, UserManagementDo)
       \/ ClickOn("RoleManagement", RoleManagementOffers, RoleManagementDo)
       \/ ClickOn("ProfileSettings", ProfileSettingsOffers, ProfileSettingsDo)
       \/ ClickOn("WebhookManagement", WebhookManagementOffers, WebhookManagementDo)
       \/ ClickOn("BackupManagement", BackupManagementOffers, BackupManagementDo)
       \/ ClickOn("StorageManagement", StorageManagementOffers, StorageManagementDo)
       \/ ClickOn("ScheduledTasks", ScheduledTasksOffers, ScheduledTasksDo)
       \/ ClickOn("RuntimeStatus", RuntimeStatusOffers, RuntimeStatusDo)
       \/ ClickOn("Dashboard", DashboardOffers, DashboardDo)
       \/ ClickOn("SystemConfig", SystemConfigOffers, SystemConfigDo)
       \/ ClickOn("CasSettingsPanel", CasSettingsPanelOffers, CasSettingsPanelDo)
       \/ ClickOn("CacheManagement", CacheManagementOffers, CacheManagementDo)
       \/ ClickOn("RepositoryList", RepositoryListOffers, RepositoryListDo)
       \/ ClickOn("RepositoryDetail", RepositoryDetailOffers, RepositoryDetailDo)
       \/ ClickOn("RepoConfigPage", RepoConfigPageOffers, RepoConfigPageDo)
       \/ ClickOn("DownloadLogs", DownloadLogsOffers, DownloadLogsDo)
       \/ ClickOn("AuditLogs", AuditLogsOffers, AuditLogsDo)
       \/ ClickOn("SecurityCenter", SecurityCenterOffers, SecurityCenterDo)
       \/ ClickOn("VulnRuleManagement", VulnRuleManagementOffers, VulnRuleManagementDo)
       \/ ClickOn("BlockRuleList", BlockRuleListOffers, BlockRuleListDo)
       \/ ClickOn("RiskAssessment", RiskAssessmentOffers, RiskAssessmentDo)
       \/ ClickOn("PackageExplorer", PackageExplorerOffers, PackageExplorerDo)
       \/ ClickOn("PackageDetail", PackageDetailOffers, PackageDetailDo)
       \/ ClickOn("FileBrowser", FileBrowserOffers, FileBrowserDo)
       \/ ClickOn("PublicBrowse", PublicBrowseOffers, PublicBrowseDo)
       \/ ClickOn("DependencyGraph", GraphOffers, DependencyGraphDo)
    /\ Len(calls') <= MaxCalls[page]
    /\ events' = events + 1
    /\ UNCHANGED <<page, db, faults, excused>>

Return(n) ==
    /\ calls[n].st # "sent"
    /\ \/ page = "UserManagement" /\ UserManagementBack(n)
       \/ page = "RoleManagement" /\ RoleManagementBack(n)
       \/ page = "ProfileSettings" /\ ProfileSettingsBack(n)
       \/ page = "WebhookManagement" /\ WebhookManagementBack(n)
       \/ page = "BackupManagement" /\ BackupManagementBack(n)
       \/ page = "StorageManagement" /\ StorageManagementBack(n)
       \/ page = "ScheduledTasks" /\ ScheduledTasksBack(n)
       \/ page = "RuntimeStatus" /\ RuntimeStatusBack(n)
       \/ page = "Dashboard" /\ DashboardBack(n)
       \/ page = "SystemConfig" /\ SystemConfigBack(n)
       \/ page = "CasSettingsPanel" /\ CasSettingsPanelBack(n)
       \/ page = "CacheManagement" /\ CacheManagementBack(n)
       \/ page = "RepositoryList" /\ RepositoryListBack(n)
       \/ page = "RepositoryDetail" /\ RepositoryDetailBack(n)
       \/ page = "RepoConfigPage" /\ RepoConfigPageBack(n)
       \/ page = "DownloadLogs" /\ DownloadLogsBack(n)
       \/ page = "AuditLogs" /\ AuditLogsBack(n)
       \/ page = "SecurityCenter" /\ SecurityCenterBack(n)
       \/ page = "VulnRuleManagement" /\ VulnRuleManagementBack(n)
       \/ page = "BlockRuleList" /\ BlockRuleListBack(n)
       \/ page = "RiskAssessment" /\ RiskAssessmentBack(n)
       \/ page = "PackageExplorer" /\ PackageExplorerBack(n)
       \/ page = "PackageDetail" /\ PackageDetailBack(n)
       \/ page = "FileBrowser" /\ FileBrowserBack(n)
       \/ page = "PublicBrowse" /\ PublicBrowseBack(n)
       \/ page = "DependencyGraph" /\ DependencyGraphBack(n)
    /\ UNCHANGED <<page, db, events, faults>>

Next == Click \/ Network \/ (\E n \in DOMAIN calls : Return(n)) \/ Leave

Spec == Init /\ [][Next]_vars

------------------------------------------------------------------------------
\* Every variable has its type.
TypeOK ==
    /\ page \in Pages \cup {None}
    /\ db \in [Collections -> [Items -> RowStates]]
    /\ ui.rows \in [Collections -> [Items -> RowStates]]
    /\ ui.sel \subseteq Items /\ ui.box.item \in Items \cup {None}
    /\ page # None => events \in 0..MaxEvents[page] /\ faults \in 0..MaxFaults[page]
    /\ excused \in [Collections -> BOOLEAN]
    /\ \A n \in DOMAIN calls :
         calls[n].kind \in Kinds /\ calls[n].st \in {"sent", "ok", "err"}

\* When a page has come to rest, its lists show what the server has for the
\* query in the page's filters when they were loaded: every create, update,
\* delete or bulk operation of every page is followed by the right list.  The
\* exceptions are excused by the kit: since the list was last loaded a request
\* failed or its answer was lost, answers overtook one another, or a row was
\* replaced under the handler that was about to update it.  (StorageManagement
\* toggles a row in place before it asks, SystemConfig edits the rows themselves.)
QuietListIsCurrent ==
    calls = <<>> /\ page \notin {None, "StorageManagement", "SystemConfig"} =>
        \A c \in Collections :
            ui.asked[c] # None /\ ~excused[c] => ui.rows[c] = View(c, ui.asked[c])
==============================================================================
