---------------------------- MODULE WebApp_proofs ----------------------------
(***************************************************************************)
(* Two invariants of the console's pages, for any number of rows, clicks,  *)
(* requests in flight and failures.                                        *)
(*                                                                         *)
(* Lists: a page that has come to rest shows what the server has.  What    *)
(* that says of a page that is not at rest is Settled: unless the rows are *)
(* excused, either a request in flight will bring a list or an excuse when *)
(* it is over, or the last list on its way, or else the rows shown, are    *)
(* the server's but for the rows whose change has been confirmed and not   *)
(* been handled.  That is kept by a click, by an answer of the server and  *)
(* by a handler that goes on, whatever they do to the rest of the page,    *)
(* when a handler that wrote asks for a list; each page follows from there.*)
(*                                                                         *)
(* Types: while a page is mounted its refs and its requests are typed, and *)
(* the handler that sent a request tells what kind of answer it gets, so   *)
(* that a handler that puts an answer into a ref puts rows there, a row or *)
(* a number.  Two pages have dialogs that only some clicks open, and the   *)
(* dialog in front is one that the page's own handlers opened.             *)
(***************************************************************************)
EXTENDS WebApp, TLAPS

\* The elements of a concatenation.
LEMMA Concatenated ==
    ASSUME NEW T, NEW A \in Seq(T), NEW B \in Seq(T)
    PROVE  /\ A \o B \in Seq(T) /\ Len(A \o B) = Len(A) + Len(B)
           /\ \A k \in 1..(Len(A) + Len(B)) :
                 (A \o B)[k] = IF k <= Len(A) THEN A[k] ELSE B[k - Len(A)]
OBVIOUS

\* The refs of a page, and what a request in flight says.
Refs == {"q", "rows", "more", "asked", "spin", "box", "form", "sel", "tab", "mode", "timers"}
Fields == {"kind", "op", "col", "item", "arg", "clears", "st", "reply", "more", "clean",
           "stale", "held"}
\* The kinds of request that change rows.
Writes == {"create", "update", "save", "delete", "evict", "clear", "purge"}

\* An update whose handler changes its row in the list itself; a request that
\* stands between a write and the list its handler goes on to.
Patch(r) == r.kind = "update" /\ r.op \in {"toggleEnabled", "saveProfile"}
Chained(r) == r.kind = "get" /\ r.op = "loadStats"

\* Request r is answered from the rows of c, asks for them, changes one where it
\* stands (Patch), or has a list of c asked for when it is over.
About(r, c) == r.col = c /\ r.kind # "act"
ListOf(r, c) == r.kind = "list" /\ r.col = c
PatchOf(r, c) == Patch(r) /\ r.col = c
Rewrites(r, c) == \/ r.kind \in Writes /\ ~Patch(r) /\ r.col = c
                  \/ Chained(r) /\ c = 1
\* The end of r brings a list or an excuse.
Unsettled(r, c) ==
    \/ About(r, c) /\ (r.st = "err" \/ ~r.held)
    \/ ListOf(r, c) /\ r.st # "ok"
    \/ Rewrites(r, c)
\* One of requests cs brings a list of c or an excuse, or the list that an earlier
\* one brings may miss what a patch has changed.
Unsettling(cs, c) ==
    \E m \in DOMAIN cs :
        \/ Unsettled(cs[m], c)
        \/ PatchOf(cs[m], c) /\ \E k \in DOMAIN cs : k < m /\ ListOf(cs[k], c)

\* What a collection whose rows are d shows for a query: View of those rows.
MatchingIn(d, t) ==
    {i \in Items : /\ d[i] # 0
                   /\ \/ t = 0
                      \/ t \in {1, 2} /\ d[i] = 3 - t
                      \/ t = 3 /\ i = Protected}
OverflowsIn(d, q) == pageOf(q) > 0 /\ ~large(q) /\ MatchingIn(d, textOf(q)) = Items
SelectedIn(d, q) ==
    IF OverflowsIn(d, q) THEN IF pageOf(q) = 1 THEN Items \ {overflowing} ELSE {overflowing}
    ELSE IF pageOf(q) > 1 THEN {} ELSE MatchingIn(d, textOf(q))
ViewOf(d, q) == [i \in Items |-> IF i \in SelectedIn(d, q) THEN d[i] ELSE 0]

\* Patch r has succeeded and its handler is still to change row i; the last patch
\* of its row, and the last list, among requests cs.
PatchedBy(r, c, i) == PatchOf(r, c) /\ r.st = "ok" /\ r.item = i
LastPatch(cs, m, c) ==
    /\ PatchedBy(cs[m], c, cs[m].item)
    /\ \A k \in DOMAIN cs : k > m => ~PatchedBy(cs[k], c, cs[m].item)
LastList(cs, m, c) ==
    /\ ListOf(cs[m], c)
    /\ \A k \in DOMAIN cs : k > m => ~ListOf(cs[k], c)

\* The rows are the view, but for the patches that are still to be made.
Matches(cs, rows, v, d, c) ==
    /\ rows = [i \in Items |-> rows[i]]
    /\ \A i \in Items : rows[i] = 0 <=> v[i] = 0
    /\ \A i \in Items : (\A m \in DOMAIN cs : ~PatchedBy(cs[m], c, i)) => rows[i] = v[i]
    /\ \A m \in DOMAIN cs : LastPatch(cs, m, c) => cs[m].arg = d[cs[m].item]
    /\ \A m \in DOMAIN cs : PatchedBy(cs[m], c, cs[m].item) => d[cs[m].item] # 0
\* The last list to come is the view, and so are the rows if none is to come.
UpToDate(cs, rows, asked, d, c) ==
    /\ \A m \in DOMAIN cs : LastList(cs, m, c) => cs[m].reply = ViewOf(d, cs[m].arg)
    /\ (\A m \in DOMAIN cs : ~ListOf(cs[m], c)) /\ asked # None =>
            Matches(cs, rows, ViewOf(d, asked), d, c)

\* There is no excuse (x) for the rows of c, or a list that does away with it is
\* under way; no answer about c is stale; the answers about c come in order.
Trusted(cs, x, c) ==
    ~x \/ \E m \in DOMAIN cs : ListOf(cs[m], c) /\ cs[m].clean /\ ~cs[m].stale
NoneStale(cs, c) == \A m \in DOMAIN cs : About(cs[m], c) => ~cs[m].stale
InOrder(cs, c) ==
    \A m, k \in DOMAIN cs :
        k < m /\ About(cs[k], c) /\ About(cs[m], c) /\ cs[m].st = "ok" => cs[k].st # "sent"

\* What the rows of collection c owe to those there are, d, with requests cs in
\* flight.
Settled(cs, x, rows, asked, d, c) ==
    Trusted(cs, x, c) =>
        /\ NoneStale(cs, c) /\ InOrder(cs, c)
        /\ Unsettling(cs, c) \/ UpToDate(cs, rows, asked, d, c)
\* The same, but for a list that is still to be asked for.
Orderly(cs, x, c) == Trusted(cs, x, c) => NoneStale(cs, c) /\ InOrder(cs, c)

\* Request r lists one of the two collections of its page (l1, l2), writes to one
\* of them (w1, w2) or does neither (rest).
SortOf(r, l1, w1, l2, w2, rest) ==
    \/ r.op \in l1 /\ r.kind = "list" /\ r.col = 1
    \/ r.op \in l2 /\ r.kind = "list" /\ r.col = 2
    \/ r.op \in w1 /\ r.kind \in Writes /\ r.col = 1
    \/ r.op \in w2 /\ r.kind \in Writes /\ r.col = 2
    \/ r.op \in rest /\ r.kind \in {"get", "act"}

\* What r is, by its op, if it is a request of the page named.
UserManagementKnows(r) ==
    SortOf(r, {"loadUsers"}, {"createUser", "toggleActive", "handleDelete"},
         {"loadRoleOptions"}, {}, {"assignRoles", "resetPassword"})
RoleManagementKnows(r) ==
    SortOf(r, {"loadRoles"}, {"createRole", "cloneRole", "updatePermissions", "deleteRole"},
         {"loadPermissions"}, {}, {})
ProfileSettingsKnows(r) ==
    /\ SortOf(r, {"loadTokens"}, {"createToken", "deleteToken"}, {"loadProfile"}, {"saveProfile"},
            {"changePassword"})
    /\ r.op = "saveProfile" => r.kind = "update"
WebhookManagementKnows(r) ==
    SortOf(r, {"loadWebhooks"}, {"submitWebhook", "handleDelete"}, {}, {},
         {"testWebhook", "showDeliveryDialog"})
BackupManagementKnows(r) ==
    SortOf(r, {"loadBackups"}, {"createBackup", "handleDelete"}, {"loadScheduleConfig"},
         {"saveScheduleConfig"}, {"handleRestore"})
ScheduledTasksKnows(r) == SortOf(r, {"load"}, {"save"}, {}, {}, {"saveInterval", "runNow"})
RuntimeStatusKnows(r) == SortOf(r, {"loadSystemInfo"}, {}, {"loadConnections"}, {}, {})
DashboardKnows(r) == SortOf(r, {"loadStats"}, {}, {}, {}, {})
CacheManagementKnows(r) ==
    \/ SortOf(r, {"loadItems"}, {"handleClearCache", "handleDeleteItem", "handleCleanupExpired",
         "handleInvalidate"}, {}, {}, {"loadCacheList"})
    \/ Chained(r) /\ r.col = 2
RepositoryListKnows(r) ==
    SortOf(r, {"loadRepos"}, {"handleSubmit", "deleteRepo"}, {}, {}, {"toggle", "openEditDialog"})
RepositoryDetailKnows(r) ==
    SortOf(r, {"loadRepo"}, {}, {"loadMembers"}, {"addMember", "removeMember"},
         {"loadAvailableRepos", "handleSubmit", "doMigrateCache"})
DownloadLogsKnows(r) ==
    \/ SortOf(r, {"loadLogs"}, {"cleanupNow"}, {"loadCleanupConfig"}, {"saveCleanupConfig"}, {})
    \/ r.op \in {"loadStats", "loadRepositories"} /\ r.kind = "act"
AuditLogsKnows(r) == SortOf(r, {"loadLogs"}, {}, {}, {}, {})
SecurityCenterKnows(r) ==
    \/ SortOf(r, {"loadVulnerabilities"}, {}, {"loadScanResults"}, {}, {})
    \/ r.op \in {"loadStats", "triggerFullScan", "blockCVE"} /\ r.kind = "act"
VulnRuleManagementKnows(r) ==
    SortOf(r, {"loadRules"}, {"saveRule", "importRules", "deleteRule"}, {"loadDataSources"},
         {"saveDataSource", "deleteDataSource", "syncDataSource", "syncAll"}, {"testDataSource"})
BlockRuleListKnows(r) ==
    /\ SortOf(r, {"loadRules"}, {"batch", "toggleEnabled", "deleteRule", "handleSubmit",
            "handleBatchImport", "handleCreateSelected"}, {"loadLogs"}, {},
            {"handleDownloadTemplate", "handleGenerate", "handleAnalyze"})
    /\ r.op = "toggleEnabled" => r.kind = "update"
    /\ r.op = "handleCreateSelected" => r.kind = "create" /\ r.item.done \in Nat
RiskAssessmentKnows(r) ==
    SortOf(r, {"loadHistory"}, {"runAssessment", "analyze", "dispose", "removeHistory"}, {}, {},
         {"aiParseFile", "openAIReport", "viewDetail", "act"})
PackageExplorerKnows(r) ==
    SortOf(r, {"search", "refresh"}, {"onDeletePackage", "onBatchDelete", "handleUpload"}, {}, {},
         {"parseMavenCoordinates", "loadVersions", "loadRepositories"})
FileBrowserKnows(r) ==
    \/ SortOf(r, {"loadDirectory"}, {}, {}, {}, {})
    \/ r.op \in {"loadBackends", "downloadFile"} /\ r.kind = "act"
PublicBrowseKnows(r) ==
    \/ SortOf(r, {"search"}, {}, {"showcase"}, {}, {})
    \/ r.op \in {"statusPanel", "loadRepositories"} /\ r.kind = "act"

\* Two pages change rows where they stand: their lists have no pages.
Asks(p, c, q) == /\ p = "BlockRuleList" /\ c = 1 => q \in {0, 3}
                 /\ p = "ProfileSettings" /\ c = 2 => q = 0

\* Request r is one that page p may have made.
Known(p, r) ==
    /\ r.kind = "list" => Asks(p, r.col, r.arg)
    /\ p = "UserManagement" => UserManagementKnows(r)
    /\ p = "RoleManagement" => RoleManagementKnows(r)
    /\ p = "ProfileSettings" => ProfileSettingsKnows(r)
    /\ p = "WebhookManagement" => WebhookManagementKnows(r)
    /\ p = "BackupManagement" => BackupManagementKnows(r)
    /\ p = "ScheduledTasks" => ScheduledTasksKnows(r)
    /\ p = "RuntimeStatus" => RuntimeStatusKnows(r)
    /\ p = "Dashboard" => DashboardKnows(r)
    /\ p = "CacheManagement" => CacheManagementKnows(r)
    /\ p = "RepositoryList" => RepositoryListKnows(r)
    /\ p = "RepositoryDetail" => RepositoryDetailKnows(r)
    /\ p = "DownloadLogs" => DownloadLogsKnows(r)
    /\ p = "AuditLogs" => AuditLogsKnows(r)
    /\ p = "SecurityCenter" => SecurityCenterKnows(r)
    /\ p = "VulnRuleManagement" => VulnRuleManagementKnows(r)
    /\ p = "BlockRuleList" => BlockRuleListKnows(r)
    /\ p = "RiskAssessment" => RiskAssessmentKnows(r)
    /\ p = "PackageExplorer" => PackageExplorerKnows(r)
    /\ p = "FileBrowser" => FileBrowserKnows(r)
    /\ p = "PublicBrowse" => PublicBrowseKnows(r)

\* Request r is well formed.
Sound(r) ==
    /\ Fields \subseteq DOMAIN r
    /\ r.kind \in Kinds /\ r.col \in Collections /\ r.st \in {"sent", "ok", "err"}
    /\ r.clean \in BOOLEAN /\ r.stale \in BOOLEAN /\ r.held \in BOOLEAN
    /\ Patch(r) => r.item \in Items /\ r.arg # 0
    /\ Patch(r) /\ r.st = "ok" => r.reply = r.arg
    /\ Patch(r) => \/ r.op = "toggleEnabled" /\ r.col = 1
                   \/ r.op = "saveProfile" /\ r.col = 2 /\ r.item = Protected

\* cs is a sequence of requests of page p.
IsSeq(S) == \E T : S \in Seq(T)
AllSound(p, cs) == IsSeq(cs) /\ \A m \in DOMAIN cs : Sound(cs[m]) /\ Known(p, cs[m])

\* Refs u are those of page p.
RefsOK(p, u) ==
    /\ DOMAIN u = Refs /\ DOMAIN u.rows = Collections /\ DOMAIN u.asked = Collections
    /\ \A c \in Collections : u.asked[c] # None => Asks(p, c, u.asked[c])
    /\ p = "BlockRuleList" => u.q \in {0, 3}

\* The pages that show lists, and those QuietListIsCurrent is about that show
\* none.  StorageManagement and SystemConfig are not in its scope.
Listing == AllPages \ {"StorageManagement", "SystemConfig", "CasSettingsPanel", "PackageDetail",
                        "RepoConfigPage", "DependencyGraph"}
Listless == {"CasSettingsPanel", "PackageDetail", "RepoConfigPage", "DependencyGraph"}

\* Page p, mounted, is settled.
CoreFor(p) ==
    /\ AllSound(p, calls) /\ RefsOK(p, ui)
    /\ DOMAIN db = Collections /\ \A c \in Collections : DOMAIN db[c] = Items
    /\ excused \in [Collections -> BOOLEAN]
    /\ \A c \in Collections :
         Settled(calls, excused[c], ui.rows[c], ui.asked[c], db[c], c)

\* View is a function of the rows of its collection.
LEMMA ViewIs == \A c, q : View(c, q) = ViewOf(db[c], q)
BY DEF View, Selected, Overflows, Matching, ViewOf, SelectedIn, OverflowsIn, MatchingIn

\* A view holds a row as it is or not at all.
LEMMA ViewHolds ==
    \A d, q : /\ ViewOf(d, q) = [i \in Items |-> ViewOf(d, q)[i]]
              /\ \A i \in Items : ViewOf(d, q)[i] # 0 => ViewOf(d, q)[i] = d[i]
BY DEF ViewOf

\* Without a page, a view holds the rows there are, or the protected one.
LEMMA PlainView ==
    ASSUME NEW d, NEW q \in {0, 3}, NEW i \in Items
    PROVE  ViewOf(d, q)[i] = IF d[i] # 0 /\ (q = 0 \/ i = Protected) THEN d[i] ELSE 0
<1>1. pageOf(q) = 0 /\ textOf(q) = q
    BY DEF pageOf, textOf
<1> DEFINE M == MatchingIn(d, q)
<1>2. i \in M <=> d[i] # 0 /\ (q = 0 \/ i = Protected)
    BY DEF MatchingIn
<1>3. SelectedIn(d, q) = M
    BY <1>1 DEF SelectedIn, OverflowsIn
<1> QED BY <1>2, <1>3 DEF ViewOf

\* Whatever the query, changing a row that stays leaves the other rows of a
\* view without pages, and which rows it has.
LEMMA PatchedView ==
    ASSUME NEW d, NEW e, NEW q \in {0, 3}, NEW i \in Items, d[i] # 0, e[i] # 0,
           \A j \in Items : j # i => e[j] = d[j]
    PROVE  \A j \in Items : /\ ViewOf(e, q)[j] = 0 <=> ViewOf(d, q)[j] = 0
                            /\ j # i => ViewOf(e, q)[j] = ViewOf(d, q)[j]
<1> TAKE j \in Items
<1>1. /\ ViewOf(d, q)[j] = IF d[j] # 0 /\ (q = 0 \/ j = Protected) THEN d[j] ELSE 0
      /\ ViewOf(e, q)[j] = IF e[j] # 0 /\ (q = 0 \/ j = Protected) THEN e[j] ELSE 0
    BY PlainView
<1> QED BY <1>1

\* Requests r and s differ in what has become of them at most.
SameButMarks(r, s) ==
    /\ r.kind = s.kind /\ r.op = s.op /\ r.col = s.col /\ r.item = s.item /\ r.arg = s.arg
    /\ r.st = s.st /\ r.reply = s.reply /\ r.clean = s.clean

Unsent(r) == r.st = "sent" /\ ~r.stale /\ r.held
Fetches(r, c) == ListOf(r, c) \/ Rewrites(r, c)

\* ds has new requests behind those of cs.
Extends(cs, ds) ==
    /\ DOMAIN cs \subseteq DOMAIN ds /\ DOMAIN ds \subseteq Int
    /\ \A m \in DOMAIN cs : ds[m] = cs[m]
    /\ \A m \in DOMAIN ds \ DOMAIN cs :
         /\ \A k \in DOMAIN cs : k < m
         /\ Unsent(ds[m])
         /\ ds[m].clean = ~Pending(cs, ds[m].col)

\* New requests leave a collection settled, and settle what was owed.
LEMMA Appending ==
    ASSUME NEW cs, NEW ds, NEW x \in BOOLEAN, NEW rows, NEW asked, NEW d, NEW c,
           Extends(cs, ds), Orderly(cs, x, c),
           \/ Settled(cs, x, rows, asked, d, c)
           \/ \E m \in DOMAIN ds \ DOMAIN cs : Fetches(ds[m], c)
    PROVE  Settled(ds, x, rows, asked, d, c)
<1> SUFFICES ASSUME Trusted(ds, x, c)
             PROVE  /\ NoneStale(ds, c) /\ InOrder(ds, c)
                    /\ Unsettling(ds, c) \/ UpToDate(ds, rows, asked, d, c)
    BY DEF Settled
<1> DEFINE New == DOMAIN ds \ DOMAIN cs
<1>1. \A m \in New : ListOf(ds[m], c) \/ Rewrites(ds[m], c) => Unsettling(ds, c)
    BY DEF Extends, Unsent, Unsettling, Unsettled
<1>2. CASE Trusted(cs, x, c)
    <2>1. NoneStale(cs, c) /\ InOrder(cs, c)
        BY <1>2 DEF Orderly
    <2>2. NoneStale(ds, c)
        BY <2>1 DEF NoneStale, Extends, Unsent
    <2>3. InOrder(ds, c)
        <3> SUFFICES ASSUME NEW m \in DOMAIN ds, NEW k \in DOMAIN ds, k < m,
                            About(ds[k], c), About(ds[m], c), ds[m].st = "ok"
                     PROVE  ds[k].st # "sent"
            BY DEF InOrder
        <3>1. m \in DOMAIN cs
            BY DEF Extends, Unsent
        <3>2. k \in DOMAIN cs
            BY <3>1 DEF Extends
        <3> QED BY <2>1, <3>1, <3>2 DEF InOrder, Extends
    <2>4. CASE \E m \in New : Fetches(ds[m], c)
        BY <1>1, <2>2, <2>3, <2>4 DEF Fetches
    <2>5. CASE Unsettling(cs, c)
        <3>1. Unsettling(ds, c)
            BY <2>5 DEF Unsettling, Extends
        <3> QED BY <2>2, <2>3, <3>1
    <2>6. CASE UpToDate(cs, rows, asked, d, c) /\ \E m \in New : ListOf(ds[m], c)
        BY <1>1, <2>2, <2>3, <2>6
    <2>7. CASE UpToDate(cs, rows, asked, d, c) /\ \A m \in New : ~ListOf(ds[m], c)
        <3>1. \A m \in DOMAIN ds : LastList(ds, m, c) => m \in DOMAIN cs /\ LastList(cs, m, c)
            BY <2>7 DEF LastList, Extends
        <3>2. (\A m \in DOMAIN ds : ~ListOf(ds[m], c)) => \A m \in DOMAIN cs : ~ListOf(cs[m], c)
            BY DEF Extends
        <3>3. \A m \in New : \A i : ~PatchedBy(ds[m], c, i)
            BY DEF PatchedBy, Extends, Unsent
        <3>4. \A m \in DOMAIN ds : LastPatch(ds, m, c) => m \in DOMAIN cs /\ LastPatch(cs, m, c)
            BY <3>3 DEF LastPatch, Extends
        <3>5. \A v : Matches(cs, rows, v, d, c) => Matches(ds, rows, v, d, c)
            BY <3>3, <3>4 DEF Matches, Extends
        <3>6. UpToDate(ds, rows, asked, d, c)
            BY <2>7, <3>1, <3>2, <3>5 DEF UpToDate, Extends
        <3> QED BY <2>2, <2>3, <3>6
    <2> QED BY <1>2, <2>4, <2>5, <2>6, <2>7 DEF Settled
<1>3. CASE ~Trusted(cs, x, c)
    <2>1. PICK m \in New : ListOf(ds[m], c) /\ ds[m].clean
        BY <1>3 DEF Trusted, Extends
    <2>2. \A k \in DOMAIN cs : ~About(cs[k], c)
        BY <2>1 DEF Extends, Pending, ListOf, About
    <2>3. NoneStale(ds, c)
        BY <2>2 DEF NoneStale, Extends, Unsent
    <2>4. InOrder(ds, c)
        BY <2>2 DEF InOrder, Extends, Unsent
    <2> QED BY <1>1, <2>1, <2>3, <2>4
<1> QED BY <1>2, <1>3

----------------------------------------
(* Taking a request out of those in flight *)

\* rs has the requests of cs but one, in their order: f says which is which.
Embeds(f, cs, rs, n) ==
    /\ DOMAIN cs \subseteq Int /\ DOMAIN rs \subseteq Int
    /\ \A k \in DOMAIN rs : f[k] \in DOMAIN cs /\ f[k] # n
    /\ \A m \in DOMAIN cs : m # n => \E k \in DOMAIN rs : f[k] = m
    /\ \A k, l \in DOMAIN rs : k < l <=> f[k] < f[l]

\* The requests that stay behind are as they were, marks apart.
Remaining(f, cs, rs, n, c) ==
    /\ Embeds(f, cs, rs, n)
    /\ \A k \in DOMAIN rs : SameButMarks(rs[k], cs[f[k]])
    /\ \A k \in DOMAIN rs : ~cs[f[k]].held => ~rs[k].held
    /\ \A k \in DOMAIN rs : rs[k].col = c => rs[k].stale = cs[f[k]].stale

\* What stays behind has the order it had, and what was going to be reloaded
\* still is, unless the request that went was the one to see to it.
LEMMA Removing ==
    ASSUME NEW f, NEW cs, NEW rs, NEW n \in DOMAIN cs, NEW c, Remaining(f, cs, rs, n, c)
    PROVE  /\ NoneStale(cs, c) => NoneStale(rs, c)
           /\ InOrder(cs, c) => InOrder(rs, c)
           /\ \A x : Trusted(rs, x, c) => Trusted(cs, x, c)
           /\ Unsettling(cs, c) => \/ Unsettling(rs, c) \/ Unsettled(cs[n], c)
                                   \/ PatchOf(cs[n], c) /\ \E k \in DOMAIN cs : k < n /\ ListOf(cs[k], c)
                                   \/ ListOf(cs[n], c) /\ \E m \in DOMAIN cs : n < m /\ PatchOf(cs[m], c)
<1> USE DEF Remaining, Embeds
<1>1. NoneStale(cs, c) => NoneStale(rs, c)
    BY DEF NoneStale, About, SameButMarks
<1>2. InOrder(cs, c) => InOrder(rs, c)
    <2> SUFFICES ASSUME InOrder(cs, c), NEW m \in DOMAIN rs, NEW k \in DOMAIN rs, k < m,
                        About(rs[k], c), About(rs[m], c), rs[m].st = "ok"
                 PROVE  rs[k].st # "sent"
        BY DEF InOrder
    <2>1. /\ f[m] \in DOMAIN cs /\ f[k] \in DOMAIN cs /\ f[k] < f[m]
          /\ About(cs[f[k]], c) /\ About(cs[f[m]], c) /\ cs[f[m]].st = "ok"
        BY DEF About, SameButMarks
    <2> QED BY <2>1 DEF InOrder, SameButMarks
<1>3. ASSUME NEW x, Trusted(rs, x, c) PROVE Trusted(cs, x, c)
    <2>1. ASSUME NEW k \in DOMAIN rs, ListOf(rs[k], c), rs[k].clean, ~rs[k].stale
          PROVE  f[k] \in DOMAIN cs /\ ListOf(cs[f[k]], c) /\ cs[f[k]].clean /\ ~cs[f[k]].stale
        BY <2>1 DEF ListOf, SameButMarks
    <2> QED BY <1>3, <2>1 DEF Trusted
<1>4. ASSUME Unsettling(cs, c)
      PROVE  \/ Unsettling(rs, c) \/ Unsettled(cs[n], c)
             \/ PatchOf(cs[n], c) /\ \E k \in DOMAIN cs : k < n /\ ListOf(cs[k], c)
             \/ ListOf(cs[n], c) /\ \E m \in DOMAIN cs : n < m /\ PatchOf(cs[m], c)
    <2>1. PICK m \in DOMAIN cs :
            \/ Unsettled(cs[m], c)
            \/ PatchOf(cs[m], c) /\ \E k \in DOMAIN cs : k < m /\ ListOf(cs[k], c)
        BY <1>4 DEF Unsettling
    <2>2. CASE m = n
        BY <2>1, <2>2
    <2>3. CASE m # n
        <3>1. PICK l \in DOMAIN rs : f[l] = m
            BY <2>3
        <3>2. CASE Unsettled(cs[m], c)
            <4>1. Unsettled(rs[l], c)
                BY <3>1, <3>2 DEF Unsettled, About, ListOf, Rewrites, Chained, Patch, SameButMarks
            <4> QED BY <4>1 DEF Unsettling
        <3>3. CASE PatchOf(cs[m], c) /\ \E k \in DOMAIN cs : k < m /\ ListOf(cs[k], c)
            <4>1. PICK k \in DOMAIN cs : k < m /\ ListOf(cs[k], c)
                BY <3>3
            <4>2. CASE k = n
                BY <3>3, <4>1, <4>2
            <4>3. CASE k # n
                <5>1. PICK j \in DOMAIN rs : f[j] = k
                    BY <4>3
                <5>2. j < l /\ ListOf(rs[j], c) /\ PatchOf(rs[l], c)
                    BY <3>1, <3>3, <4>1, <5>1 DEF ListOf, PatchOf, Patch, SameButMarks
                <5> QED BY <5>2 DEF Unsettling
            <4> QED BY <4>2, <4>3
        <3> QED BY <2>1, <3>2, <3>3
    <2> QED BY <2>2, <2>3
<1> QED BY <1>1, <1>2, <1>3, <1>4

\* The last list and the last patch of a row are the last ones still, but for
\* the one that went.
LEMMA LastOnes ==
    ASSUME NEW f, NEW cs, NEW rs, NEW n \in DOMAIN cs, NEW c, Remaining(f, cs, rs, n, c)
    PROVE  /\ \A k \in DOMAIN rs : LastList(rs, k, c) =>
                LastList(cs, f[k], c) \/ (ListOf(cs[n], c) /\ f[k] < n)
           /\ \A k \in DOMAIN rs : LastPatch(rs, k, c) =>
                LastPatch(cs, f[k], c) \/ (PatchOf(cs[n], c) /\ f[k] < n)
           /\ ~ListOf(cs[n], c) /\ (\A k \in DOMAIN rs : ~ListOf(rs[k], c)) =>
                \A m \in DOMAIN cs : ~ListOf(cs[m], c)
           /\ \A i : ~PatchedBy(cs[n], c, i) /\ (\A k \in DOMAIN rs : ~PatchedBy(rs[k], c, i)) =>
                \A m \in DOMAIN cs : ~PatchedBy(cs[m], c, i)
<1> USE DEF Remaining, Embeds
<1>1. \A k \in DOMAIN rs : ListOf(rs[k], c) <=> ListOf(cs[f[k]], c)
    BY DEF ListOf, SameButMarks
<1>2. \A k \in DOMAIN rs : \A i : PatchedBy(rs[k], c, i) <=> PatchedBy(cs[f[k]], c, i)
    BY DEF PatchedBy, PatchOf, Patch, SameButMarks
<1>3. \A k \in DOMAIN rs : rs[k].item = cs[f[k]].item
    BY DEF SameButMarks
<1>4. ASSUME NEW k \in DOMAIN rs, LastList(rs, k, c), ~(ListOf(cs[n], c) /\ f[k] < n)
      PROVE  LastList(cs, f[k], c)
    <2>1. ASSUME NEW m \in DOMAIN cs, m > f[k], ListOf(cs[m], c) PROVE FALSE
        <3>1. m # n
            BY <1>4, <2>1
        <3>2. PICK l \in DOMAIN rs : f[l] = m
            BY <3>1
        <3>3. k < l /\ ListOf(rs[l], c)
            BY <1>1, <2>1, <3>2
        <3> QED BY <1>4, <3>3 DEF LastList
    <2> QED BY <1>1, <1>4, <2>1 DEF LastList
<1>5. ASSUME NEW k \in DOMAIN rs, LastPatch(rs, k, c), ~(PatchOf(cs[n], c) /\ f[k] < n)
      PROVE  LastPatch(cs, f[k], c)
    <2>1. ASSUME NEW m \in DOMAIN cs, m > f[k], PatchedBy(cs[m], c, cs[f[k]].item) PROVE FALSE
        <3>1. m # n
            BY <1>5, <2>1 DEF PatchedBy
        <3>2. PICK l \in DOMAIN rs : f[l] = m
            BY <3>1
        <3>3. k < l /\ PatchedBy(rs[l], c, rs[k].item)
            BY <1>2, <1>3, <2>1, <3>2
        <3> QED BY <1>5, <3>3 DEF LastPatch
    <2> QED BY <1>2, <1>3, <1>5, <2>1 DEF LastPatch
<1>6. ~ListOf(cs[n], c) /\ (\A k \in DOMAIN rs : ~ListOf(rs[k], c)) =>
        \A m \in DOMAIN cs : ~ListOf(cs[m], c)
    BY <1>1
<1>7. \A i : ~PatchedBy(cs[n], c, i) /\ (\A k \in DOMAIN rs : ~PatchedBy(rs[k], c, i)) =>
        \A m \in DOMAIN cs : ~PatchedBy(cs[m], c, i)
    BY <1>2
<1> QED BY <1>4, <1>5, <1>6, <1>7

\* Without a list or a patch that goes, what was up to date still is.
LEMMA UpToDateWithout ==
    ASSUME NEW f, NEW cs, NEW rs, NEW n \in DOMAIN cs, NEW c, Remaining(f, cs, rs, n, c),
           ~ListOf(cs[n], c), ~PatchOf(cs[n], c), NEW rows, NEW asked, NEW d,
           UpToDate(cs, rows, asked, d, c)
    PROVE  UpToDate(rs, rows, asked, d, c)
<1>1. \A k \in DOMAIN rs : /\ LastList(rs, k, c) => LastList(cs, f[k], c)
                           /\ LastPatch(rs, k, c) => LastPatch(cs, f[k], c)
    BY LastOnes
<1>2. \A k \in DOMAIN rs : /\ f[k] \in DOMAIN cs /\ rs[k].reply = cs[f[k]].reply
                           /\ rs[k].arg = cs[f[k]].arg /\ rs[k].item = cs[f[k]].item
    BY DEF Remaining, Embeds, SameButMarks
<1>3. \A i : ~PatchedBy(cs[n], c, i)
    BY DEF PatchedBy
<1>4. \A i : (\A k \in DOMAIN rs : ~PatchedBy(rs[k], c, i)) =>
                \A m \in DOMAIN cs : ~PatchedBy(cs[m], c, i)
    BY <1>3, LastOnes
<1>5. \A k \in DOMAIN rs : PatchedBy(rs[k], c, rs[k].item) => PatchedBy(cs[f[k]], c, cs[f[k]].item)
    BY DEF PatchedBy, PatchOf, Patch, Remaining, SameButMarks
<1>6. \A v : Matches(cs, rows, v, d, c) => Matches(rs, rows, v, d, c)
    BY <1>1, <1>2, <1>4, <1>5 DEF Matches
<1>7. (\A k \in DOMAIN rs : ~ListOf(rs[k], c)) => \A m \in DOMAIN cs : ~ListOf(cs[m], c)
    BY LastOnes
<1> QED BY <1>1, <1>2, <1>6, <1>7 DEF UpToDate

\* A request about another collection leaves this one as it was, but for the
\* list of it that it may have to send.
LEMMA RemovedElsewhere ==
    ASSUME NEW f, NEW cs, NEW rs, NEW n \in DOMAIN cs, NEW c, Remaining(f, cs, rs, n, c),
           ~About(cs[n], c), NEW x \in BOOLEAN, NEW rows, NEW asked, NEW d,
           Settled(cs, x, rows, asked, d, c)
    PROVE  /\ Orderly(rs, x, c)
           /\ ~(Chained(cs[n]) /\ c = 1) => Settled(rs, x, rows, asked, d, c)
<1> SUFFICES ASSUME Trusted(rs, x, c)
             PROVE  /\ NoneStale(rs, c) /\ InOrder(rs, c)
                    /\ (Chained(cs[n]) /\ c = 1) \/ Unsettling(rs, c) \/ UpToDate(rs, rows, asked, d, c)
    BY DEF Settled, Orderly
<1>1. NoneStale(cs, c) /\ InOrder(cs, c) /\ (Unsettling(cs, c) \/ UpToDate(cs, rows, asked, d, c))
    BY Removing DEF Settled
<1>2. ~ListOf(cs[n], c) /\ ~PatchOf(cs[n], c) /\ (Unsettled(cs[n], c) => Chained(cs[n]) /\ c = 1)
    BY DEF About, ListOf, PatchOf, Patch, Unsettled, Rewrites, Writes
<1>3. CASE Unsettling(cs, c)
    BY <1>1, <1>2, <1>3, Removing
<1>4. CASE UpToDate(cs, rows, asked, d, c)
    BY <1>1, <1>2, <1>4, Removing, UpToDateWithout
<1> QED BY <1>1, <1>3, <1>4

----------------------------------------
(* A request that is answered in its turn *)

\* A request that is answered in its turn, with no earlier one under way.
InTurn(cs, n, c) ==
    /\ About(cs[n], c) /\ cs[n].st = "ok" /\ cs[n].held
    /\ \A k \in DOMAIN cs : k < n => ~About(cs[k], c)

\* Whether the excuse is off once it has been dealt with.
Excused(x, r) == x /\ ~(r.kind = "list" /\ r.clean /\ ~r.stale)

\* What then holds of the rest, whatever the request was.
LEMMA RemovedInTurn ==
    ASSUME NEW f, NEW cs, NEW rs, NEW n \in DOMAIN cs, NEW c, Remaining(f, cs, rs, n, c),
           InTurn(cs, n, c), NEW x \in BOOLEAN, NEW rows, NEW asked, NEW d,
           Settled(cs, x, rows, asked, d, c), Trusted(rs, Excused(x, cs[n]), c)
    PROVE  /\ NoneStale(rs, c) /\ InOrder(rs, c)
           /\ Unsettling(cs, c) \/ UpToDate(cs, rows, asked, d, c)
           /\ Unsettling(cs, c) => \/ Unsettling(rs, c) \/ Rewrites(cs[n], c)
                                   \/ ListOf(cs[n], c) /\ \E m \in DOMAIN cs : n < m /\ PatchOf(cs[m], c)
<1>1. Trusted(cs, x, c)
    <2>1. CASE Excused(x, cs[n]) = x
        BY <2>1, Removing
    <2>2. CASE Excused(x, cs[n]) # x
        <3>1. cs[n].kind = "list" /\ cs[n].clean /\ ~cs[n].stale
            BY <2>2 DEF Excused
        <3> QED BY <3>1 DEF Trusted, InTurn, About, ListOf
    <2> QED BY <2>1, <2>2
<1>2. NoneStale(cs, c) /\ InOrder(cs, c) /\ (Unsettling(cs, c) \/ UpToDate(cs, rows, asked, d, c))
    BY <1>1 DEF Settled
<1>3. Unsettled(cs[n], c) => Rewrites(cs[n], c)
    BY DEF Unsettled, InTurn, ListOf
<1>4. ~\E k \in DOMAIN cs : k < n /\ ListOf(cs[k], c)
    BY DEF InTurn, About, ListOf
<1> QED BY <1>2, <1>3, <1>4, Removing

\* A list that comes in its turn is shown, and is current unless another
\* list is coming.
LEMMA ListInTurn ==
    ASSUME NEW f, NEW cs, NEW rs, NEW n \in DOMAIN cs, NEW c, Remaining(f, cs, rs, n, c),
           InTurn(cs, n, c), NEW x \in BOOLEAN, NEW rows, NEW asked, NEW d,
           Settled(cs, x, rows, asked, d, c),
           ListOf(cs[n], c), \A k \in DOMAIN rs : PatchOf(rs[k], c) => ~rs[k].held
    PROVE  Settled(rs, Excused(x, cs[n]), cs[n].reply, cs[n].arg, d, c)
<1> SUFFICES ASSUME Trusted(rs, Excused(x, cs[n]), c)
             PROVE  /\ NoneStale(rs, c) /\ InOrder(rs, c)
                    /\ Unsettling(rs, c) \/ UpToDate(rs, cs[n].reply, cs[n].arg, d, c)
    BY DEF Settled, Orderly
<1>1. /\ NoneStale(rs, c) /\ InOrder(rs, c)
      /\ Unsettling(cs, c) \/ UpToDate(cs, rows, asked, d, c)
      /\ Unsettling(cs, c) => \/ Unsettling(rs, c) \/ Rewrites(cs[n], c)
                              \/ ListOf(cs[n], c) /\ \E m \in DOMAIN cs : n < m /\ PatchOf(cs[m], c)
    BY RemovedInTurn
<1>2. ~Rewrites(cs[n], c)
    BY DEF Rewrites, Chained, Writes, ListOf
<1>3. CASE \E k \in DOMAIN rs : PatchOf(rs[k], c)
    <2>1. Unsettling(rs, c)
        BY <1>3 DEF Unsettling, Unsettled, PatchOf, Patch, About
    <2> QED BY <1>1, <2>1
<1>4. CASE (\A k \in DOMAIN rs : ~PatchOf(rs[k], c)) /\ Unsettling(cs, c)
    <2>1. ~\E m \in DOMAIN cs : n < m /\ PatchOf(cs[m], c)
        <3> SUFFICES ASSUME NEW m \in DOMAIN cs, n < m, PatchOf(cs[m], c) PROVE FALSE
            OBVIOUS
        <3>1. PICK k \in DOMAIN rs : f[k] = m
            BY DEF Remaining, Embeds
        <3> QED BY <1>4, <3>1 DEF Remaining, SameButMarks, PatchOf, Patch
    <2> QED BY <1>1, <1>2, <1>4, <2>1
<1>5. CASE (\A k \in DOMAIN rs : ~PatchOf(rs[k], c)) /\ UpToDate(cs, rows, asked, d, c)
    <2>1. \A k \in DOMAIN rs : f[k] > n \/ ~About(cs[f[k]], c)
        BY DEF Remaining, Embeds, InTurn
    <2>2. \A k \in DOMAIN rs : LastList(rs, k, c) => LastList(cs, f[k], c)
        <3> SUFFICES ASSUME NEW k \in DOMAIN rs, LastList(rs, k, c) PROVE LastList(cs, f[k], c)
            OBVIOUS
        <3>1. About(cs[f[k]], c)
            BY DEF LastList, ListOf, Remaining, SameButMarks, About
        <3>2. f[k] \in Int /\ n \in Int /\ f[k] > n
            BY <2>1, <3>1 DEF Remaining, Embeds
        <3>3. ~(f[k] < n)
            BY <3>2
        <3> QED BY <3>3, LastOnes
    <2>3. \A k \in DOMAIN rs : LastList(rs, k, c) => rs[k].reply = ViewOf(d, rs[k].arg)
        BY <1>5, <2>2 DEF UpToDate, Remaining, Embeds, SameButMarks
    <2>4. ASSUME \A k \in DOMAIN rs : ~ListOf(rs[k], c)
          PROVE  Matches(rs, cs[n].reply, ViewOf(d, cs[n].arg), d, c)
        <3>1. LastList(cs, n, c)
            <4> SUFFICES ASSUME NEW m \in DOMAIN cs, m > n, ListOf(cs[m], c) PROVE FALSE
                BY DEF LastList
            <4>1. m # n
                BY DEF Remaining, Embeds
            <4>2. PICK k \in DOMAIN rs : f[k] = m
                BY <4>1 DEF Remaining, Embeds
            <4> QED BY <2>4, <4>2 DEF Remaining, SameButMarks, ListOf
        <3>2. cs[n].reply = ViewOf(d, cs[n].arg)
            BY <1>5, <3>1 DEF UpToDate
        <3>3. \A k \in DOMAIN rs : \A i : ~PatchedBy(rs[k], c, i)
            BY <1>5 DEF PatchedBy
        <3>4. \A k \in DOMAIN rs : ~LastPatch(rs, k, c)
            BY <3>3 DEF LastPatch
        <3> QED BY <3>2, <3>3, <3>4, ViewHolds DEF Matches
    <2>5. UpToDate(rs, cs[n].reply, cs[n].arg, d, c)
        BY <2>3, <2>4 DEF UpToDate
    <2> QED BY <1>1, <2>5
<1> QED BY <1>1, <1>3, <1>4, <1>5

\* A write that its handler follows with a list owes that list.
LEMMA WriteInTurn ==
    ASSUME NEW f, NEW cs, NEW rs, NEW n \in DOMAIN cs, NEW c, Remaining(f, cs, rs, n, c),
           InTurn(cs, n, c), NEW x \in BOOLEAN, NEW rows, NEW asked, NEW d,
           Settled(cs, x, rows, asked, d, c)
    PROVE  Orderly(rs, Excused(x, cs[n]), c)
BY RemovedInTurn DEF Orderly

\* An answer that changes nothing.
LEMMA GetInTurn ==
    ASSUME NEW f, NEW cs, NEW rs, NEW n \in DOMAIN cs, NEW c, Remaining(f, cs, rs, n, c),
           InTurn(cs, n, c), NEW x \in BOOLEAN, NEW rows, NEW asked, NEW d,
           Settled(cs, x, rows, asked, d, c), cs[n].kind = "get"
    PROVE  /\ Orderly(rs, Excused(x, cs[n]), c)
           /\ ~(Chained(cs[n]) /\ c = 1) =>
                Settled(rs, Excused(x, cs[n]), rows, asked, d, c)
<1> SUFFICES ASSUME Trusted(rs, Excused(x, cs[n]), c)
             PROVE  /\ NoneStale(rs, c) /\ InOrder(rs, c)
                    /\ (Chained(cs[n]) /\ c = 1) \/ Unsettling(rs, c) \/ UpToDate(rs, rows, asked, d, c)
    BY DEF Settled, Orderly
<1>1. /\ NoneStale(rs, c) /\ InOrder(rs, c)
      /\ Unsettling(cs, c) \/ UpToDate(cs, rows, asked, d, c)
      /\ Unsettling(cs, c) => \/ Unsettling(rs, c) \/ Rewrites(cs[n], c)
                              \/ ListOf(cs[n], c) /\ \E m \in DOMAIN cs : n < m /\ PatchOf(cs[m], c)
    BY RemovedInTurn
<1>2. ~ListOf(cs[n], c) /\ ~PatchOf(cs[n], c) /\ (Rewrites(cs[n], c) => Chained(cs[n]) /\ c = 1)
    BY DEF ListOf, PatchOf, Patch, Rewrites, Writes
<1>3. UpToDate(cs, rows, asked, d, c) => UpToDate(rs, rows, asked, d, c)
    BY <1>2, UpToDateWithout
<1> QED BY <1>1, <1>2, <1>3

\* What the handler of patch r makes of the rows: the row that is shown gets
\* the new value.
Made(r, rows, asked, new) ==
    \/ new = rows /\ rows[r.item] = 0
    \/ new = [rows EXCEPT ![r.item] = r.arg] /\ (rows[r.item] # 0 \/ asked \in {0, None})

\* A patch that comes in its turn is made; in the rows that have no other
\* coming, it is what the server has.
LEMMA PatchInTurn ==
    ASSUME NEW f, NEW cs, NEW rs, NEW n \in DOMAIN cs, NEW c, Remaining(f, cs, rs, n, c),
           InTurn(cs, n, c), NEW x \in BOOLEAN, NEW rows, NEW asked, NEW d, NEW new,
           Settled(cs, x, rows, asked, d, c),
           PatchOf(cs[n], c), cs[n].item \in Items, cs[n].arg # 0,
           Made(cs[n], rows, asked, new)
    PROVE  Settled(rs, Excused(x, cs[n]), new, asked, d, c)
<1> SUFFICES ASSUME Trusted(rs, Excused(x, cs[n]), c)
             PROVE  /\ NoneStale(rs, c) /\ InOrder(rs, c)
                    /\ Unsettling(rs, c) \/ UpToDate(rs, new, asked, d, c)
    BY DEF Settled, Orderly
<1>1. /\ NoneStale(rs, c) /\ InOrder(rs, c)
      /\ Unsettling(cs, c) \/ UpToDate(cs, rows, asked, d, c)
      /\ Unsettling(cs, c) => \/ Unsettling(rs, c) \/ Rewrites(cs[n], c)
                              \/ ListOf(cs[n], c) /\ \E m \in DOMAIN cs : n < m /\ PatchOf(cs[m], c)
    BY RemovedInTurn
<1>2. ~ListOf(cs[n], c) /\ ~Rewrites(cs[n], c)
    BY DEF ListOf, PatchOf, Patch, Rewrites, Chained
<1>3. CASE Unsettling(cs, c)
    BY <1>1, <1>2, <1>3
<1>4. CASE UpToDate(cs, rows, asked, d, c)
    <2> DEFINE i == cs[n].item
               v == ViewOf(d, asked)
    <2>1. \A k \in DOMAIN rs : LastList(rs, k, c) => rs[k].reply = ViewOf(d, rs[k].arg)
        <3>1. \A k \in DOMAIN rs : LastList(rs, k, c) => LastList(cs, f[k], c)
            BY <1>2, LastOnes
        <3> QED BY <1>4, <3>1 DEF UpToDate, Remaining, Embeds, SameButMarks
    <2>2. ASSUME \A k \in DOMAIN rs : ~ListOf(rs[k], c), asked # None
          PROVE  Matches(rs, new, v, d, c)
        <3>1. \A m \in DOMAIN cs : ~ListOf(cs[m], c)
            BY <1>2, <2>2, LastOnes
        <3>2. Matches(cs, rows, v, d, c)
            BY <1>4, <2>2, <3>1 DEF UpToDate
        <3> HIDE DEF v
        <3>3. \A k \in DOMAIN rs : LastPatch(rs, k, c) => rs[k].arg = d[rs[k].item]
            <4> SUFFICES ASSUME NEW k \in DOMAIN rs, LastPatch(rs, k, c)
                         PROVE  rs[k].arg = d[rs[k].item]
                OBVIOUS
            <4>1. About(cs[f[k]], c)
                BY DEF LastPatch, PatchedBy, PatchOf, Patch, Remaining, SameButMarks, About
            <4>2. f[k] \in Int /\ n \in Int /\ ~(f[k] < n)
                BY <4>1 DEF Remaining, Embeds, InTurn
            <4>3. LastPatch(cs, f[k], c)
                BY <4>2, LastOnes
            <4> QED BY <3>2, <4>3 DEF Matches, Remaining, Embeds, SameButMarks
        <3>10. \A k \in DOMAIN rs : PatchedBy(rs[k], c, rs[k].item) => d[rs[k].item] # 0
            <4>1. \A k \in DOMAIN rs : PatchedBy(rs[k], c, rs[k].item) =>
                    /\ f[k] \in DOMAIN cs /\ PatchedBy(cs[f[k]], c, cs[f[k]].item)
                    /\ rs[k].item = cs[f[k]].item
                BY DEF PatchedBy, PatchOf, Patch, Remaining, Embeds, SameButMarks
            <4> QED BY <3>2, <4>1 DEF Matches
        <3>4. ASSUME NEW j \in Items, j # i, \A k \in DOMAIN rs : ~PatchedBy(rs[k], c, j)
              PROVE  rows[j] = v[j]
            <4>1. ~PatchedBy(cs[n], c, j)
                BY <3>4 DEF PatchedBy
            <4>2. \A m \in DOMAIN cs : ~PatchedBy(cs[m], c, j)
                <5> HIDE DEF i
                <5> QED BY <3>4, <4>1, LastOnes
            <4> QED BY <3>2, <4>2 DEF Matches
        <3>5. (\A k \in DOMAIN rs : ~PatchedBy(rs[k], c, i)) => cs[n].arg = d[i]
            <4> SUFFICES ASSUME \A k \in DOMAIN rs : ~PatchedBy(rs[k], c, i) PROVE cs[n].arg = d[i]
                OBVIOUS
            <4>1. LastPatch(cs, n, c)
                <5>1. PatchedBy(cs[n], c, i)
                    BY DEF PatchedBy, InTurn
                <5>2. ASSUME NEW m \in DOMAIN cs, m > n, PatchedBy(cs[m], c, i) PROVE FALSE
                    <6>1. m # n
                        BY <5>2 DEF Remaining, Embeds
                    <6>2. PICK k \in DOMAIN rs : f[k] = m
                        BY <6>1 DEF Remaining, Embeds
                    <6>3. PatchedBy(rs[k], c, i)
                        BY <5>2, <6>2 DEF Remaining, SameButMarks, PatchedBy, PatchOf, Patch
                    <6> QED BY <6>3
                <5> QED BY <5>1, <5>2 DEF LastPatch
            <4> QED BY <3>2, <4>1 DEF Matches
        <3>6. v[i] # 0 => v[i] = d[i]
            BY ViewHolds DEF v
        <3>7. CASE rows[i] # 0 /\ new = [rows EXCEPT ![i] = cs[n].arg]
            <4>1. /\ new = [j \in Items |-> new[j]]
                  /\ \A j \in Items : new[j] = IF j = i THEN cs[n].arg ELSE rows[j]
                BY <3>2, <3>7 DEF Matches
            <4>2. \A j \in Items : new[j] = 0 <=> v[j] = 0
                BY <3>2, <3>7, <4>1 DEF Matches
            <4>3. ASSUME NEW j \in Items, \A k \in DOMAIN rs : ~PatchedBy(rs[k], c, j)
                  PROVE  new[j] = v[j]
                BY <3>2, <3>4, <3>5, <3>6, <3>7, <4>1, <4>3 DEF Matches
            <4> QED BY <3>3, <3>10, <4>1, <4>2, <4>3 DEF Matches
        <3>8. CASE rows[i] = 0 /\ new = rows
            <4>1. v[i] = 0
                BY <3>2, <3>8 DEF Matches
            <4>2. ASSUME NEW j \in Items, \A k \in DOMAIN rs : ~PatchedBy(rs[k], c, j)
                  PROVE  new[j] = v[j]
                BY <3>4, <3>8, <4>1, <4>2
            <4> QED BY <3>2, <3>3, <3>8, <3>10, <4>2 DEF Matches
        <3>9. CASE rows[i] = 0 /\ asked = 0
            <4>1. PatchedBy(cs[n], c, i) /\ d[i] # 0
                BY <3>2 DEF PatchedBy, InTurn, Matches
            <4>2. v[i] = d[i]
                BY <3>9, <4>1, PlainView DEF v
            <4> QED BY <3>2, <3>9, <4>1, <4>2 DEF Matches
        <3> QED BY <2>2, <3>7, <3>8, <3>9 DEF Made
    <2>3. UpToDate(rs, new, asked, d, c)
        BY <2>1, <2>2 DEF UpToDate
    <2> QED BY <1>1, <2>3
<1> QED BY <1>1, <1>3, <1>4

\* A function on 1..n is a sequence.
LEMMA FunctionIsSeq ==
    \A n \in Nat : \A ds : ds = [m \in 1..n |-> ds[m]] => IsSeq(ds) /\ DOMAIN ds = 1..n
<1> TAKE n \in Nat
<1> TAKE ds
<1> HAVE ds = [m \in 1..n |-> ds[m]]
<1> DEFINE U == {ds[m] : m \in 1..n}
<1>1. ds \in [1..n -> U]
    OBVIOUS
<1>2. ds \in Seq(U)
    BY <1>1
<1> QED BY <1>1, <1>2 DEF IsSeq

\* A page knows a request by its kind, operation and place, its argument and,
\* of the drafts that are created one by one, what is left to do.
LEMMA KnownBySort ==
    ASSUME NEW p, NEW r, NEW s, Known(p, r), s.kind = r.kind, s.op = r.op, s.col = r.col,
           s.item = r.item, s.arg = r.arg
    PROVE  Known(p, s)
<1>1. \A l1, w1, l2, w2, rest : SortOf(r, l1, w1, l2, w2, rest) <=> SortOf(s, l1, w1, l2, w2, rest)
    BY DEF SortOf
<1>2. Chained(r) <=> Chained(s)
    BY DEF Chained
<1> QED
    BY <1>1, <1>2 DEF Known, UserManagementKnows, RoleManagementKnows, ProfileSettingsKnows,
           WebhookManagementKnows, BackupManagementKnows, ScheduledTasksKnows,
           RuntimeStatusKnows, DashboardKnows, CacheManagementKnows, RepositoryListKnows,
           RepositoryDetailKnows, DownloadLogsKnows, AuditLogsKnows, SecurityCenterKnows,
           VulnRuleManagementKnows, BlockRuleListKnows, RiskAssessmentKnows,
           PackageExplorerKnows, FileBrowserKnows, PublicBrowseKnows

\* A list that has come takes the row objects of the updates under way.
LEMMA ReleasedMarks ==
    ASSUME NEW cs, NEW c, IsSeq(cs), \A m \in DOMAIN cs : Sound(cs[m])
    PROVE  LET ds == Released(cs, c)
           IN  /\ IsSeq(ds) /\ DOMAIN ds = DOMAIN cs
               /\ \A m \in DOMAIN cs : /\ Sound(ds[m]) /\ SameButMarks(ds[m], cs[m])
                                       /\ ds[m].stale = cs[m].stale
                                       /\ ~cs[m].held => ~ds[m].held
                                       /\ ds[m].kind = "update" /\ ds[m].col = c => ~ds[m].held
<1> DEFINE ds == Released(cs, c)
<1>1. PICK T : cs \in Seq(T)
    BY DEF IsSeq
<1>2. ds = [m \in 1..Len(cs) |-> IF cs[m].kind = "update" /\ cs[m].col = c
                                 THEN [cs[m] EXCEPT !.held = FALSE] ELSE cs[m]]
    BY <1>1 DEF Released
<1>3. IsSeq(ds) /\ DOMAIN ds = DOMAIN cs
    <2> HIDE DEF ds
    <2>1. ds = [m \in 1..Len(cs) |-> ds[m]]
        BY <1>2
    <2>2. Len(cs) \in Nat /\ DOMAIN cs = 1..Len(cs)
        BY <1>1
    <2> QED BY <2>1, <2>2, FunctionIsSeq
<1>4. ASSUME NEW m \in DOMAIN cs
      PROVE  /\ Sound(ds[m]) /\ SameButMarks(ds[m], cs[m]) /\ ds[m].stale = cs[m].stale
             /\ ~cs[m].held => ~ds[m].held
             /\ ds[m].kind = "update" /\ ds[m].col = c => ~ds[m].held
    <2> DEFINE r == cs[m]
               s == [r EXCEPT !.held = FALSE]
    <2>1. Sound(r)
        OBVIOUS
    <2>2. /\ s.kind = r.kind /\ s.op = r.op /\ s.col = r.col /\ s.item = r.item /\ s.arg = r.arg
          /\ s.st = r.st /\ s.reply = r.reply /\ s.clean = r.clean /\ s.stale = r.stale /\ ~s.held
          /\ s.held \in BOOLEAN /\ DOMAIN s = DOMAIN r
        BY <2>1 DEF Sound, Fields
    <2>3. ds[m] = IF r.kind = "update" /\ r.col = c THEN s ELSE r
        BY <1>1, <1>2
    <2> HIDE DEF r, s, ds
    <2>4. Sound(s) /\ SameButMarks(s, r) /\ SameButMarks(r, r)
        BY <2>1, <2>2 DEF Sound, Patch, SameButMarks
    <2> QED BY <2>1, <2>2, <2>3, <2>4 DEF r
<1> QED BY <1>3, <1>4

\* Distrust marks the requests of a collection, and nothing else.
LEMMA DistrustMarks ==
    ASSUME NEW cs, NEW c, IsSeq(cs), \A m \in DOMAIN cs : Sound(cs[m])
    PROVE  LET ds == Distrust(cs, c)
           IN  /\ IsSeq(ds) /\ DOMAIN ds = DOMAIN cs
               /\ \A m \in DOMAIN cs : /\ Sound(ds[m]) /\ SameButMarks(ds[m], cs[m])
                                       /\ ds[m].held = cs[m].held
                                       /\ cs[m].col # c => ds[m].stale = cs[m].stale
                                       /\ cs[m].col = c => ds[m].stale
<1> DEFINE ds == Distrust(cs, c)
<1>1. PICK T : cs \in Seq(T)
    BY DEF IsSeq
<1>2. ds = [m \in 1..Len(cs) |-> IF cs[m].col = c THEN [cs[m] EXCEPT !.stale = TRUE] ELSE cs[m]]
    BY <1>1 DEF Distrust
<1>3. IsSeq(ds) /\ DOMAIN ds = DOMAIN cs
    <2> HIDE DEF ds
    <2>1. ds = [m \in 1..Len(cs) |-> ds[m]]
        BY <1>2
    <2>2. Len(cs) \in Nat /\ DOMAIN cs = 1..Len(cs)
        BY <1>1
    <2> QED BY <2>1, <2>2, FunctionIsSeq
<1>4. ASSUME NEW m \in DOMAIN cs
      PROVE  /\ Sound(ds[m]) /\ SameButMarks(ds[m], cs[m]) /\ ds[m].held = cs[m].held
             /\ cs[m].col # c => ds[m].stale = cs[m].stale
             /\ cs[m].col = c => ds[m].stale
    <2> DEFINE r == cs[m]
               s == [r EXCEPT !.stale = TRUE]
    <2>1. Sound(r)
        OBVIOUS
    <2>2. /\ s.kind = r.kind /\ s.op = r.op /\ s.col = r.col /\ s.item = r.item /\ s.arg = r.arg
          /\ s.st = r.st /\ s.reply = r.reply /\ s.clean = r.clean /\ s.stale /\ s.held = r.held
          /\ s.stale \in BOOLEAN /\ DOMAIN s = DOMAIN r
        BY <2>1 DEF Sound, Fields
    <2>3. ds[m] = IF r.col = c THEN s ELSE r
        BY <1>1, <1>2
    <2> HIDE DEF r, s, ds
    <2>4. Sound(s) /\ SameButMarks(s, r) /\ SameButMarks(r, r)
        BY <2>1, <2>2 DEF Sound, Patch, SameButMarks
    <2> QED BY <2>1, <2>2, <2>3, <2>4 DEF r
<1> QED BY <1>3, <1>4

----------------------------------------
(* Sequences of requests: sending, taking out, marking *)

\* A sequence is one from 1 on.
LEMMA SeqDomain == \A S : IsSeq(S) => DOMAIN S = 1..Len(S) /\ Len(S) \in Nat
BY DEF IsSeq

\* Where the elements of a sequence are once one has been taken out.
LEMMA RemovedAt ==
    ASSUME NEW cs, IsSeq(cs), NEW n \in DOMAIN cs
    PROVE  /\ IsSeq(RemoveAt(cs, n)) /\ DOMAIN RemoveAt(cs, n) = 1..(Len(cs) - 1)
           /\ \A k \in 1..(Len(cs) - 1) :
                RemoveAt(cs, n)[k] = IF k < n THEN cs[k] ELSE cs[k + 1]
<1>1. PICK T : cs \in Seq(T)
    BY DEF IsSeq
<1> DEFINE R == RemoveAt(cs, n)
<1>2. DOMAIN cs = 1..Len(cs) /\ Len(cs) \in Nat /\ n \in 1..Len(cs)
    BY <1>1
<1> DEFINE A == SubSeq(cs, 1, n - 1)
           B == SubSeq(cs, n + 1, Len(cs))
<1>3. /\ A \in Seq(T) /\ Len(A) = n - 1 /\ \A k \in 1..(n - 1) : A[k] = cs[k]
      /\ B \in Seq(T) /\ Len(B) = Len(cs) - n /\ \A k \in 1..(Len(cs) - n) : B[k] = cs[n + k]
    BY <1>1, <1>2
<1>4. R = A \o B
    BY DEF RemoveAt
<1> HIDE DEF A, B, R
<1>5. /\ R \in Seq(T) /\ Len(R) = Len(A) + Len(B)
      /\ \A k \in 1..(Len(A) + Len(B)) : R[k] = IF k <= Len(A) THEN A[k] ELSE B[k - Len(A)]
    BY <1>3, <1>4, Concatenated
<1>6. ASSUME NEW k \in 1..(Len(cs) - 1) PROVE R[k] = IF k < n THEN cs[k] ELSE cs[k + 1]
    <2>1. CASE k < n
        BY <1>2, <1>3, <1>5, <2>1
    <2>2. CASE ~(k < n)
        <3>1. k - (n - 1) \in 1..(Len(cs) - n) /\ n + (k - (n - 1)) = k + 1
            BY <1>2, <2>2
        <3>2. R[k] = B[k - (n - 1)]
            BY <1>2, <1>3, <1>5, <2>2
        <3> QED BY <1>3, <2>2, <3>1, <3>2
    <2> QED BY <2>1, <2>2
<1>7. IsSeq(R) /\ DOMAIN R = 1..(Len(cs) - 1)
    BY <1>2, <1>3, <1>5 DEF IsSeq
<1> QED BY <1>6, <1>7 DEF R

\* What a page sends: requests of its own that nothing has befallen.
Fresh(p, S) ==
    IsSeq(S) /\ \A k \in DOMAIN S : Sound(S[k]) /\ Known(p, S[k]) /\ Unsent(S[k])

\* Request r asks what s does.
Asked(r, s) == r.kind = s.kind /\ r.op = s.op /\ r.col = s.col /\ r.arg = s.arg
\* ds is cs with the requests S behind.
Joins(cs, S, ds) ==
    /\ DOMAIN ds = 1..(Len(cs) + Len(S))
    /\ \A k \in 1..Len(S) : Asked(ds[Len(cs) + k], S[k])

\* Marking a request as sent first or not leaves it what it is.
LEMMA MarkedClean ==
    ASSUME NEW p, NEW r, Sound(r), Known(p, r), Unsent(r), NEW b \in BOOLEAN
    PROVE  LET s == [r EXCEPT !.clean = b]
           IN  /\ Sound(s) /\ Known(p, s) /\ Unsent(s) /\ s.clean = b /\ s.col = r.col
               /\ Asked(s, r) /\ \A c : (Fetches(s, c) <=> Fetches(r, c))
<1> DEFINE s == [r EXCEPT !.clean = b]
<1>1. /\ s.kind = r.kind /\ s.op = r.op /\ s.col = r.col /\ s.item = r.item /\ s.arg = r.arg
      /\ s.st = r.st /\ s.reply = r.reply /\ s.clean = b /\ s.stale = r.stale /\ s.held = r.held
      /\ DOMAIN s = DOMAIN r
    BY DEF Sound, Fields
<1> HIDE DEF s
<1>2. Sound(s) /\ Unsent(s)
    BY <1>1 DEF Sound, Unsent, Patch
<1>3. Known(p, s)
    BY <1>1, KnownBySort
<1>4. Asked(s, r) /\ \A c : (Fetches(s, c) <=> Fetches(r, c))
    BY <1>1 DEF Asked, Fetches, ListOf, Rewrites, Chained, Patch
<1> QED BY <1>1, <1>2, <1>3, <1>4 DEF s

\* The requests that are in flight when those of S have joined.
LEMMA Sent ==
    ASSUME NEW p, NEW cs, NEW S, AllSound(p, cs), Fresh(p, S)
    PROVE  /\ AllSound(p, Sending(cs, S)) /\ Extends(cs, Sending(cs, S))
           /\ \A k \in DOMAIN S : \E m \in DOMAIN Sending(cs, S) \ DOMAIN cs :
                \A c : Fetches(S[k], c) => Fetches(Sending(cs, S)[m], c)
           /\ Joins(cs, S, Sending(cs, S))
<1> DEFINE Clean == [k \in DOMAIN S |-> [S[k] EXCEPT !.clean = ~Pending(cs, S[k].col)]]
           ds == Sending(cs, S)
<1>1. PICK T : cs \in Seq(T)
    BY DEF AllSound, IsSeq
<1>2. PICK U : S \in Seq(U)
    BY DEF Fresh, IsSeq
<1>3. Clean \in Seq({Clean[k] : k \in DOMAIN S}) /\ Len(Clean) = Len(S)
    BY <1>2
<1>4. \A k \in DOMAIN S :
        /\ Sound(Clean[k]) /\ Known(p, Clean[k]) /\ Unsent(Clean[k])
        /\ Clean[k].clean = ~Pending(cs, Clean[k].col)
        /\ Asked(Clean[k], S[k]) /\ \A c : (Fetches(Clean[k], c) <=> Fetches(S[k], c))
    <2>1. TAKE k \in DOMAIN S
    <2>2. Sound(S[k]) /\ Known(p, S[k]) /\ Unsent(S[k])
        BY DEF Fresh
    <2> DEFINE b == ~Pending(cs, S[k].col)
    <2>3. b \in BOOLEAN /\ Clean[k] = [S[k] EXCEPT !.clean = b]
        OBVIOUS
    <2> HIDE DEF b, Clean
    <2>4. /\ Sound(Clean[k]) /\ Known(p, Clean[k]) /\ Unsent(Clean[k]) /\ Clean[k].clean = b
          /\ Clean[k].col = S[k].col /\ Asked(Clean[k], S[k])
          /\ \A c : (Fetches(Clean[k], c) <=> Fetches(S[k], c))
        BY <2>2, <2>3, MarkedClean
    <2> QED BY <2>4 DEF b
<1> DEFINE V == T \cup {Clean[k] : k \in DOMAIN S}
<1>5. cs \in Seq(V) /\ Clean \in Seq(V)
    BY <1>1, <1>3
<1>6. ds = cs \o Clean
    BY DEF Sending
<1> HIDE DEF Clean, V, ds
<1>7. ds \in Seq(V) /\ Len(ds) = Len(cs) + Len(Clean)
      /\ \A m \in 1..(Len(cs) + Len(Clean)) :
            ds[m] = IF m <= Len(cs) THEN cs[m] ELSE Clean[m - Len(cs)]
    BY <1>5, <1>6, Concatenated
<1>8. /\ DOMAIN cs = 1..Len(cs) /\ DOMAIN S = 1..Len(S) /\ Len(cs) \in Nat /\ Len(S) \in Nat
      /\ DOMAIN ds = 1..(Len(cs) + Len(S))
    BY <1>1, <1>2, <1>3, <1>7
<1>9. /\ \A m \in DOMAIN cs : m \in DOMAIN ds /\ ds[m] = cs[m]
      /\ \A m \in DOMAIN ds \ DOMAIN cs : m - Len(cs) \in DOMAIN S /\ ds[m] = Clean[m - Len(cs)]
                                          /\ \A k \in DOMAIN cs : k < m
      /\ \A k \in DOMAIN S : Len(cs) + k \in DOMAIN ds \ DOMAIN cs /\ ds[Len(cs) + k] = Clean[k]
    <2>1. \A m \in DOMAIN cs : m \in DOMAIN ds /\ ds[m] = cs[m]
        BY <1>3, <1>7, <1>8
    <2>2. \A m \in DOMAIN ds \ DOMAIN cs : m - Len(cs) \in DOMAIN S /\ ds[m] = Clean[m - Len(cs)]
        BY <1>3, <1>7, <1>8
    <2>3. \A m \in DOMAIN ds \ DOMAIN cs : \A k \in DOMAIN cs : k < m
        BY <1>8
    <2>4. ASSUME NEW k \in DOMAIN S
          PROVE  Len(cs) + k \in DOMAIN ds \ DOMAIN cs /\ ds[Len(cs) + k] = Clean[k]
        <3>1. k \in 1..Len(S) /\ Len(cs) + k \in 1..(Len(cs) + Len(S)) /\ ~(Len(cs) + k <= Len(cs))
              /\ (Len(cs) + k) - Len(cs) = k
            BY <1>8
        <3> QED BY <1>3, <1>7, <1>8, <3>1
    <2> QED BY <2>1, <2>2, <2>3, <2>4
<1>11. AllSound(p, ds)
    BY <1>4, <1>7, <1>9 DEF AllSound, IsSeq
<1>12. Extends(cs, ds)
    BY <1>4, <1>8, <1>9 DEF Extends
<1>13. Joins(cs, S, ds)
    BY <1>4, <1>8, <1>9 DEF Joins
<1> QED BY <1>4, <1>9, <1>11, <1>12, <1>13 DEF ds

\* late of Then: the answer of calls[n] is no success, or comes out of turn.
Late(n) ==
    LET c == calls[n]
    IN c.kind # "act" /\ \/ c.st = "err" \/ ~c.held
                         \/ \E m \in 1..(n - 1) : calls[m].col = c.col

\* What one request leaves behind, each where it was among the others.
LEMMA TakenOut ==
    ASSUME NEW p, NEW cs, AllSound(p, cs), NEW n \in DOMAIN cs
    PROVE  \E f : /\ Embeds(f, cs, RemoveAt(cs, n), n) /\ AllSound(p, RemoveAt(cs, n))
                  /\ \A k \in DOMAIN RemoveAt(cs, n) : RemoveAt(cs, n)[k] = cs[f[k]]
<1> DEFINE others == RemoveAt(cs, n)
           f == [k \in 1..(Len(cs) - 1) |-> IF k < n THEN k ELSE k + 1]
<1>1. IsSeq(cs) /\ DOMAIN cs = 1..Len(cs) /\ Len(cs) \in Nat /\ n \in 1..Len(cs)
    BY SeqDomain DEF AllSound
<1>2. /\ IsSeq(others) /\ DOMAIN others = 1..(Len(cs) - 1)
      /\ \A k \in 1..(Len(cs) - 1) : others[k] = cs[f[k]]
    BY <1>1, RemovedAt
<1>3. Embeds(f, cs, others, n)
    <2>1. \A m \in DOMAIN cs : m # n => \E k \in DOMAIN others : f[k] = m
        <3> SUFFICES ASSUME NEW m \in DOMAIN cs, m # n PROVE \E k \in DOMAIN others : f[k] = m
            OBVIOUS
        <3>1. CASE m < n
            BY <1>1, <1>2, <3>1
        <3>2. CASE m > n
            <4>1. m - 1 \in DOMAIN others /\ f[m - 1] = m
                BY <1>1, <1>2, <3>2
            <4> QED BY <4>1
        <3> QED BY <1>1, <3>1, <3>2
    <2>2. \A k \in DOMAIN others : f[k] \in DOMAIN cs /\ f[k] # n
        BY <1>1, <1>2
    <2>3. \A k, l \in DOMAIN others : k < l <=> f[k] < f[l]
        BY <1>1, <1>2
    <2> QED BY <1>1, <1>2, <2>1, <2>2, <2>3 DEF Embeds
<1> HIDE DEF others, f
<1>4. \A k \in DOMAIN others : Sound(others[k]) /\ Known(p, others[k])
    BY <1>2, <1>3 DEF AllSound, Embeds
<1>5. AllSound(p, others)
    BY <1>2, <1>4 DEF AllSound
<1>6. Embeds(f, cs, others, n) /\ \A k \in DOMAIN others : others[k] = cs[f[k]]
    BY <1>2, <1>3
<1> QED BY <1>5, <1>6 DEF others

\* What Then leaves in flight before it sends.
LEMMA LeftBehind ==
    ASSUME NEW p, AllSound(p, calls), NEW n \in DOMAIN calls, NEW u, NEW S, Then(n, u, S)
    PROVE  \E rs, f :
             /\ AllSound(p, rs) /\ calls' = Sending(rs, S)
             /\ \A c : c # calls[n].col \/ ~Late(n) => Remaining(f, calls, rs, n, c)
             /\ Embeds(f, calls, rs, n) /\ \A k \in DOMAIN rs : SameButMarks(rs[k], calls[f[k]])
             /\ Late(n) => \A k \in DOMAIN rs : rs[k].col = calls[n].col => rs[k].stale
             /\ (calls[n].kind = "list" /\ Ok(n)) =>
                  \A k \in DOMAIN rs : PatchOf(rs[k], calls[n].col) => ~rs[k].held
<1> DEFINE others == RemoveAt(calls, n)
           col == calls[n].col
           rest == IF calls[n].kind = "list" /\ calls[n].st = "ok" THEN Released(others, col)
                   ELSE others
           rs == IF Late(n) THEN Distrust(rest, col) ELSE rest
<1>1. calls' = Sending(rs, S)
    BY DEF Then, Late
<1>2. PICK f : /\ Embeds(f, calls, others, n) /\ AllSound(p, others)
               /\ \A k \in DOMAIN others : others[k] = calls[f[k]]
    BY TakenOut
<1>3. IsSeq(others) /\ \A k \in DOMAIN others : Sound(others[k]) /\ Known(p, others[k])
    BY <1>2 DEF AllSound
<1> HIDE DEF others
<1>6. /\ IsSeq(rest) /\ DOMAIN rest = DOMAIN others
      /\ \A k \in DOMAIN others : /\ Sound(rest[k]) /\ SameButMarks(rest[k], others[k])
                                  /\ rest[k].stale = others[k].stale
                                  /\ ~others[k].held => ~rest[k].held
      /\ calls[n].kind = "list" /\ Ok(n) =>
            \A k \in DOMAIN rest : rest[k].kind = "update" /\ rest[k].col = col => ~rest[k].held
    <2>1. CASE rest = others /\ ~(calls[n].kind = "list" /\ Ok(n))
        BY <1>3, <2>1 DEF SameButMarks
    <2>2. CASE rest = Released(others, col)
        BY <1>3, <2>2, ReleasedMarks
    <2> QED BY <2>1, <2>2 DEF Ok
<1> HIDE DEF rest
<1>7. /\ IsSeq(rs) /\ DOMAIN rs = DOMAIN others
      /\ \A k \in DOMAIN others : /\ Sound(rs[k]) /\ SameButMarks(rs[k], rest[k])
                                  /\ rs[k].held = rest[k].held
                                  /\ (~Late(n) \/ rest[k].col # col) => rs[k].stale = rest[k].stale
                                  /\ (Late(n) /\ rest[k].col = col) => rs[k].stale
    <2>1. CASE ~Late(n)
        BY <1>6, <2>1 DEF SameButMarks
    <2>2. CASE Late(n)
        BY <1>6, <2>2, DistrustMarks
    <2> QED BY <2>1, <2>2
<1> HIDE DEF rs
<1>8. \A k \in DOMAIN rs : /\ SameButMarks(rs[k], calls[f[k]])
                           /\ ~calls[f[k]].held => ~rs[k].held
                           /\ (~Late(n) \/ rs[k].col # col) => rs[k].stale = calls[f[k]].stale
                           /\ (Late(n) /\ rs[k].col = col) => rs[k].stale
    BY <1>2, <1>6, <1>7 DEF SameButMarks
<1>9. AllSound(p, rs)
    <2>1. \A k \in DOMAIN rs : SameButMarks(rs[k], others[k])
        BY <1>6, <1>7 DEF SameButMarks
    <2>2. \A k \in DOMAIN rs : Known(p, rs[k])
        BY <1>3, <1>7, <2>1, KnownBySort DEF SameButMarks
    <2> QED BY <1>7, <2>2 DEF AllSound
<1>10. Embeds(f, calls, rs, n)
    BY <1>2, <1>7 DEF Embeds
<1>11. ASSUME NEW c, c # col \/ ~Late(n) PROVE Remaining(f, calls, rs, n, c)
    <2>1. \A k \in DOMAIN rs : rs[k].col = c => rs[k].stale = calls[f[k]].stale
        BY <1>8, <1>11
    <2> QED BY <1>8, <1>10, <2>1 DEF Remaining
<1>12. (calls[n].kind = "list" /\ Ok(n)) =>
          \A k \in DOMAIN rs : PatchOf(rs[k], col) => ~rs[k].held
    BY <1>6, <1>7 DEF PatchOf, Patch, SameButMarks
<1>13. Late(n) => \A k \in DOMAIN rs : rs[k].col = col => rs[k].stale
    BY <1>8
<1> WITNESS rs, f
<1> QED BY <1>1, <1>8, <1>9, <1>10, <1>11, <1>12, <1>13

----------------------------------------
(* Do and Then, for any page *)

\* Refs u differ from those there are in neither lists nor queries.
Keeps(p, u) ==
    /\ DOMAIN u = Refs /\ u.rows = ui.rows /\ u.asked = ui.asked
    /\ p = "BlockRuleList" => u.q \in {0, 3}

\* A flag is no list.
LEMMA FlagsApart ==
    ASSUME NEW p, NEW u, RefsOK(p, u), NEW F
    PROVE  LET v == [u EXCEPT !.spin = F]
           IN RefsOK(p, v) /\ v.rows = u.rows /\ v.asked = u.asked /\ v.tab = u.tab /\ v.box = u.box
<1> DEFINE v == [u EXCEPT !.spin = F]
<1>1. DOMAIN v = Refs /\ v.rows = u.rows /\ v.asked = u.asked /\ v.q = u.q
      /\ v.tab = u.tab /\ v.box = u.box
    BY DEF RefsOK, Refs
<1> HIDE DEF v
<1>2. RefsOK(p, v)
    BY <1>1 DEF RefsOK
<1> QED BY <1>1, <1>2 DEF v

\* A handler that sends requests and keeps the lists.
LEMMA DoSettles ==
    ASSUME NEW p, CoreFor(p), NEW u, NEW S, Keeps(p, u), Fresh(p, S), Do(u, S),
           UNCHANGED <<db, excused>>
    PROVE  CoreFor(p)'
<1>1. RefsOK(p, u)
    BY DEF RefsOK, Keeps, CoreFor
<1>2. RefsOK(p, ui') /\ ui'.rows = ui.rows /\ ui'.asked = ui.asked
    BY <1>1, FlagsApart DEF Do, Keeps
<1>3. AllSound(p, calls') /\ Extends(calls, calls')
    BY Sent DEF Do, CoreFor
<1>4. ASSUME NEW c \in Collections
      PROVE  Settled(calls', excused[c], ui.rows[c], ui.asked[c], db[c], c)
    <2>1. Settled(calls, excused[c], ui.rows[c], ui.asked[c], db[c], c) /\ excused[c] \in BOOLEAN
        BY DEF CoreFor
    <2> QED BY <1>3, <2>1, Appending DEF Orderly, Settled
<1> QED BY <1>2, <1>3, <1>4 DEF CoreFor, RefsOK

\* What the handler of calls[n] owes its collection, if it succeeded: the rows
\* of a list, the row of a patch, a list after any other write.
Handled(n, u, S) ==
    LET r == calls[n]
        c == r.col
    IN  /\ \A b \in Collections \ {c} : u.rows[b] = ui.rows[b] /\ u.asked[b] = ui.asked[b]
        /\ r.kind = "act" => u.rows[c] = ui.rows[c] /\ u.asked[c] = ui.asked[c]
        /\ Chained(r) => \E k \in DOMAIN S : Fetches(S[k], 1)
        /\ (Ok(n) /\ r.kind # "act") =>
             /\ r.kind = "list" => u.rows[c] = r.reply /\ u.asked[c] = r.arg
             /\ r.kind # "list" => u.asked[c] = ui.asked[c]
             /\ (Patch(r) /\ r.held) => Made(r, ui.rows[c], ui.asked[c], u.rows[c])
             /\ (r.kind # "list" /\ ~Patch(r)) => u.rows[c] = ui.rows[c]
             /\ (r.kind \in Writes /\ ~Patch(r)) => \E k \in DOMAIN S : Fetches(S[k], c)

\* A collection is excused when the answer came late, until a list comes in turn.
LEMMA ExcusedAfter ==
    ASSUME NEW p, CoreFor(p), NEW n \in DOMAIN calls, NEW u, NEW S, Then(n, u, S)
    PROVE  /\ excused' \in [Collections -> BOOLEAN]
           /\ \A c \in Collections :
                 /\ c # calls[n].col => excused'[c] = excused[c]
                 /\ c = calls[n].col /\ Late(n) => excused'[c] = TRUE
                 /\ c = calls[n].col /\ ~Late(n) => excused'[c] = Excused(excused[c], calls[n])
<1> DEFINE r == calls[n]
           col == calls[n].col
<1>0. Sound(r)
    BY DEF CoreFor, AllSound
<1>1. Late(n) \in BOOLEAN /\ \A x : Excused(x, r) \in BOOLEAN
    BY DEF Late, Excused
<1>2. excused' = [excused EXCEPT ![col] = Late(n) \/ Excused(@, r)]
    BY DEF Then, Late, Excused
<1>3. excused \in [Collections -> BOOLEAN] /\ col \in Collections
    BY <1>0 DEF CoreFor, Sound
<1> DEFINE b == Late(n) \/ Excused(excused[col], r)
<1>4. b \in BOOLEAN /\ excused' = [excused EXCEPT ![col] = b]
    BY <1>1, <1>2, <1>3
<1>6. (Late(n) => b = TRUE) /\ (~Late(n) => b = Excused(excused[col], r))
    BY <1>1
<1> HIDE DEF b
<1>5. /\ excused' \in [Collections -> BOOLEAN]
      /\ \A c \in Collections : excused'[c] = IF c # col THEN excused[c] ELSE b
    BY <1>3, <1>4
<1> QED BY <1>5, <1>6

\* A handler that does what it owes leaves both collections settled.
LEMMA ThenSettles ==
    ASSUME NEW p, CoreFor(p), NEW n \in DOMAIN calls, calls[n].st # "sent", NEW u, NEW S,
           RefsOK(p, u), Fresh(p, S), Handled(n, u, S), Then(n, u, S), UNCHANGED db
    PROVE  CoreFor(p)'
<1> DEFINE r == calls[n]
           col == calls[n].col
<1>1. Sound(r)
    BY DEF CoreFor, AllSound
<1>2. RefsOK(p, ui') /\ ui'.rows = u.rows /\ ui'.asked = u.asked
    BY FlagsApart DEF Then
<1>3. PICK rs, f :
        /\ AllSound(p, rs) /\ calls' = Sending(rs, S)
        /\ \A c : c # col \/ ~Late(n) => Remaining(f, calls, rs, n, c)
        /\ Embeds(f, calls, rs, n) /\ \A k \in DOMAIN rs : SameButMarks(rs[k], calls[f[k]])
        /\ Late(n) => \A k \in DOMAIN rs : rs[k].col = col => rs[k].stale
        /\ (calls[n].kind = "list" /\ Ok(n)) =>
             \A k \in DOMAIN rs : PatchOf(rs[k], col) => ~rs[k].held
    <2>1. AllSound(p, calls)
        BY DEF CoreFor
    <2> QED BY <2>1, LeftBehind
<1>4. /\ AllSound(p, calls') /\ Extends(rs, calls')
      /\ \A k \in DOMAIN S : \E m \in DOMAIN calls' \ DOMAIN rs :
            \A c : Fetches(S[k], c) => Fetches(calls'[m], c)
    BY <1>3, Sent
<1>5. /\ excused' \in [Collections -> BOOLEAN]
      /\ \A c \in Collections :
            /\ c # col => excused'[c] = excused[c]
            /\ c = col /\ Late(n) => excused'[c] = TRUE
            /\ c = col /\ ~Late(n) => excused'[c] = Excused(excused[c], r)
    BY ExcusedAfter
<1>6. ASSUME NEW c \in Collections
      PROVE  Settled(calls', excused'[c], u.rows[c], u.asked[c], db[c], c)
    <2> DEFINE x == excused[c]
    <2>1. x \in BOOLEAN /\ excused'[c] \in BOOLEAN
          /\ Settled(calls, x, ui.rows[c], ui.asked[c], db[c], c)
        BY <1>5 DEF CoreFor
    <2>2. CASE ~About(r, c)
        <3>1. Remaining(f, calls, rs, n, c)
            BY <1>3, <2>2 DEF About, Late
        <3>2. u.rows[c] = ui.rows[c] /\ u.asked[c] = ui.asked[c]
            BY <2>2 DEF Handled, About
        <3>3. excused'[c] = x
            BY <1>5, <2>1, <2>2 DEF About, Late, Excused
        <3>4. /\ Orderly(rs, x, c)
              /\ ~(Chained(r) /\ c = 1) => Settled(rs, x, ui.rows[c], ui.asked[c], db[c], c)
            BY <2>1, <2>2, <3>1, RemovedElsewhere
        <3>5. (Chained(r) /\ c = 1) => \E m \in DOMAIN calls' \ DOMAIN rs : Fetches(calls'[m], c)
            BY <1>4 DEF Handled
        <3> QED BY <1>4, <2>1, <3>2, <3>3, <3>4, <3>5, Appending DEF Orderly, Settled
    <2>3. CASE About(r, c) /\ Late(n)
        <3>1. c = col /\ excused'[c] = TRUE
            BY <1>5, <2>3 DEF About
        <3>2. ~Trusted(rs, TRUE, c)
            BY <1>3, <2>3, <3>1 DEF Trusted, ListOf
        <3>3. Settled(rs, TRUE, u.rows[c], u.asked[c], db[c], c)
            BY <3>2 DEF Settled
        <3> QED BY Zenon, <1>4, <3>1, <3>3, Appending DEF Orderly, Settled
    <2>4. CASE About(r, c) /\ ~Late(n)
        <3>1. c = col /\ r.kind # "act" /\ Remaining(f, calls, rs, n, c)
            BY <1>3, <2>4 DEF About
        <3>2. InTurn(calls, n, c) /\ Ok(n) /\ r.held
            <4>1. DOMAIN calls = 1..Len(calls) /\ Len(calls) \in Nat
                BY SeqDomain DEF CoreFor, AllSound
            <4>2. r.st = "ok" /\ r.held
                BY <1>1, <2>4 DEF Late, About, Sound
            <4>3. \A k \in DOMAIN calls : k < n => calls[k].col # col
                BY <2>4, <4>1 DEF Late, About
            <4> QED BY <2>4, <4>2, <4>3 DEF InTurn, About, Ok
        <3>3. excused'[c] = Excused(x, r)
            BY <1>5, <2>4, <3>1
        <3>4. CASE r.kind = "list"
            <4>1. u.rows[c] = r.reply /\ u.asked[c] = r.arg
                BY <3>1, <3>2, <3>4 DEF Handled
            <4>2. ListOf(r, c) /\ \A k \in DOMAIN rs : PatchOf(rs[k], c) => ~rs[k].held
                BY <1>3, <3>1, <3>2, <3>4 DEF ListOf
            <4>3. Settled(rs, Excused(x, r), r.reply, r.arg, db[c], c)
                BY <2>1, <3>1, <3>2, <4>2, ListInTurn
            <4> QED BY <1>4, <2>1, <3>3, <4>1, <4>3, Appending DEF Orderly, Settled
        <3>5. CASE Patch(r)
            <4>1. r.kind # "list" /\ PatchOf(r, c) /\ r.item \in Items /\ r.arg # 0
                BY <1>1, <3>1, <3>5 DEF Sound, PatchOf, Patch
            <4>2. u.asked[c] = ui.asked[c] /\ Made(r, ui.rows[c], ui.asked[c], u.rows[c])
                BY <3>1, <3>2, <3>5, <4>1 DEF Handled
            <4>3. Settled(rs, Excused(x, r), u.rows[c], ui.asked[c], db[c], c)
                BY <2>1, <3>1, <3>2, <4>1, <4>2, PatchInTurn
            <4> QED BY <1>4, <2>1, <3>3, <4>2, <4>3, Appending DEF Orderly, Settled
        <3>6. CASE r.kind \in Writes /\ ~Patch(r)
            <4>1. /\ u.rows[c] = ui.rows[c] /\ u.asked[c] = ui.asked[c]
                  /\ \E k \in DOMAIN S : Fetches(S[k], c)
                BY <3>1, <3>2, <3>6 DEF Handled, Writes
            <4>2. Orderly(rs, Excused(x, r), c)
                BY <2>1, <3>1, <3>2, WriteInTurn
            <4> QED BY <1>4, <2>1, <3>3, <4>1, <4>2, Appending DEF Orderly, Settled
        <3>7. CASE r.kind = "get"
            <4>1. u.rows[c] = ui.rows[c] /\ u.asked[c] = ui.asked[c]
                BY <3>1, <3>2, <3>7 DEF Handled, Patch
            <4>2. /\ Orderly(rs, Excused(x, r), c)
                  /\ ~(Chained(r) /\ c = 1) =>
                       Settled(rs, Excused(x, r), ui.rows[c], ui.asked[c], db[c], c)
                BY <2>1, <3>1, <3>2, <3>7, GetInTurn
            <4>3. (Chained(r) /\ c = 1) => \E m \in DOMAIN calls' \ DOMAIN rs : Fetches(calls'[m], c)
                BY <1>4 DEF Handled
            <4> QED BY <1>4, <2>1, <3>3, <4>1, <4>2, <4>3, Appending DEF Orderly, Settled
        <3> QED BY <1>1, <3>1, <3>4, <3>5, <3>6, <3>7 DEF Sound, Kinds, Writes
    <2> QED BY <2>2, <2>3, <2>4
<1> QED BY <1>2, <1>4, <1>5, <1>6 DEF CoreFor

----------------------------------------
(* What the server answers *)

\* What a request says, apart from how it went.
SameRequest(r, s) ==
    /\ r.kind = s.kind /\ r.op = s.op /\ r.col = s.col /\ r.item = s.item /\ r.arg = s.arg
    /\ r.clean = s.clean /\ r.held = s.held

\* The server, or the network, has answered request n of cs.
Answers(cs, ds, n) ==
    /\ DOMAIN ds = DOMAIN cs /\ DOMAIN cs \subseteq Int /\ n \in DOMAIN cs
    /\ \A m \in DOMAIN cs : m # n => ds[m] = cs[m]
    /\ SameRequest(ds[n], cs[n]) /\ ds[n].stale = cs[n].stale /\ ds[n].st \in {"ok", "err"}

\* What happens to the requests of one collection leaves the other alone.
LEMMA Untouched ==
    ASSUME NEW cs, NEW ds, NEW c, DOMAIN ds = DOMAIN cs,
           \A m \in DOMAIN cs : SameRequest(ds[m], cs[m]),
           \A m \in DOMAIN cs : About(cs[m], c) =>
              ds[m].st = cs[m].st /\ ds[m].reply = cs[m].reply /\ ds[m].stale = cs[m].stale,
           NEW x \in BOOLEAN, NEW rows, NEW asked, NEW d, Settled(cs, x, rows, asked, d, c)
    PROVE  Settled(ds, x, rows, asked, d, c)
<1>1. \A m \in DOMAIN cs :
        /\ About(ds[m], c) <=> About(cs[m], c)
        /\ ListOf(ds[m], c) <=> ListOf(cs[m], c)
        /\ PatchOf(ds[m], c) <=> PatchOf(cs[m], c)
        /\ Unsettled(ds[m], c) <=> Unsettled(cs[m], c)
    BY DEF SameRequest, About, ListOf, PatchOf, Patch, Unsettled, Rewrites, Chained
<1>2. \A m \in DOMAIN cs : ListOf(cs[m], c) \/ PatchOf(cs[m], c) => About(cs[m], c)
    BY DEF About, ListOf, PatchOf, Patch
<1>3. Trusted(ds, x, c) => Trusted(cs, x, c)
    BY <1>1, <1>2 DEF Trusted, SameRequest
<1>4. (NoneStale(cs, c) => NoneStale(ds, c)) /\ (InOrder(cs, c) => InOrder(ds, c))
    BY <1>1 DEF NoneStale, InOrder
<1>5. Unsettling(cs, c) => Unsettling(ds, c)
    BY <1>1 DEF Unsettling
<1>6. ASSUME UpToDate(cs, rows, asked, d, c) PROVE UpToDate(ds, rows, asked, d, c)
    <2>1. \A m \in DOMAIN cs : LastList(ds, m, c) =>
            LastList(cs, m, c) /\ ds[m].reply = cs[m].reply /\ ds[m].arg = cs[m].arg
        BY <1>1, <1>2 DEF LastList, SameRequest
    <2>2. \A m \in DOMAIN cs : \A i : (PatchedBy(ds[m], c, i) <=> PatchedBy(cs[m], c, i))
        BY <1>1, <1>2 DEF PatchedBy, SameRequest
    <2>3. \A m \in DOMAIN cs : ds[m].item = cs[m].item /\ ds[m].arg = cs[m].arg
        BY DEF SameRequest
    <2>4. \A m \in DOMAIN cs : LastPatch(ds, m, c) => LastPatch(cs, m, c)
        BY <2>2, <2>3 DEF LastPatch
    <2>5. \A v : Matches(cs, rows, v, d, c) => Matches(ds, rows, v, d, c)
        BY <2>2, <2>3, <2>4 DEF Matches
    <2> QED BY <1>1, <1>6, <2>1, <2>5 DEF UpToDate
<1> QED BY <1>3, <1>4, <1>5, <1>6 DEF Settled

\* An answer comes to what it was trusted with.
LEMMA AnsweredOrderly ==
    ASSUME NEW cs, NEW ds, NEW n, NEW c, Answers(cs, ds, n), About(cs[n], c),
           ds[n].st = "ok" => \A k \in DOMAIN cs : k < n /\ cs[k].col = c => cs[k].st # "sent",
           NEW x \in BOOLEAN, NEW rows, NEW asked, NEW d, Settled(cs, x, rows, asked, d, c),
           Trusted(ds, x, c)
    PROVE  /\ NoneStale(ds, c) /\ InOrder(ds, c) /\ NoneStale(cs, c) /\ InOrder(cs, c)
           /\ Unsettling(cs, c) \/ UpToDate(cs, rows, asked, d, c)
<1>1. Trusted(cs, x, c)
    BY DEF Trusted, Answers, SameRequest, ListOf
<1>2. /\ NoneStale(cs, c) /\ InOrder(cs, c)
      /\ Unsettling(cs, c) \/ UpToDate(cs, rows, asked, d, c)
    BY <1>1 DEF Settled
<1>3. NoneStale(ds, c)
    BY <1>2 DEF NoneStale, Answers, SameRequest, About
<1>4. InOrder(ds, c)
    <2> SUFFICES ASSUME NEW m \in DOMAIN ds, NEW k \in DOMAIN ds, k < m,
                        About(ds[k], c), About(ds[m], c), ds[m].st = "ok"
                 PROVE  ds[k].st # "sent"
        BY DEF InOrder
    <2>1. CASE k = n
        BY <2>1 DEF Answers
    <2>2. CASE k # n /\ m = n
        BY <2>2 DEF Answers, About
    <2>3. CASE k # n /\ m # n
        BY <1>2, <2>3 DEF Answers, InOrder
    <2> QED BY <2>1, <2>2, <2>3
<1> QED BY <1>2, <1>3, <1>4

\* A failure will be dealt with by its handler.
LEMMA FailedAnswer ==
    ASSUME NEW cs, NEW ds, NEW n, NEW c, Answers(cs, ds, n), About(cs[n], c),
           ds[n].st = "err", NEW e,
           NEW x \in BOOLEAN, NEW rows, NEW asked, NEW d, Settled(cs, x, rows, asked, d, c)
    PROVE  Settled(ds, x, rows, asked, e, c)
<1>1. Unsettling(ds, c)
    BY DEF Unsettling, Unsettled, Answers, About, SameRequest
<1>2. Trusted(ds, x, c) => NoneStale(ds, c) /\ InOrder(ds, c)
    BY AnsweredOrderly
<1> QED BY <1>1, <1>2 DEF Settled

\* What a request that succeeded has made of the rows d.
Serves(r, reply, asked, d, e) ==
    /\ r.kind = "list" => e = d /\ reply = ViewOf(d, r.arg)
    /\ r.kind = "get" => e = d
    /\ Patch(r) => /\ r.item \in Items /\ r.arg # 0 /\ d[r.item] # 0 /\ DOMAIN d = Items
                   /\ e = [d EXCEPT ![r.item] = r.arg]
                   /\ asked # None => asked \in {0, 3}

\* A list that has been answered holds the view; any other list is overtaken
\* or on its way.
LEMMA ListServed ==
    ASSUME NEW cs, NEW ds, NEW n, NEW c, Answers(cs, ds, n), ListOf(cs[n], c), cs[n].st = "sent",
           InOrder(cs, c), NEW rows, NEW asked, NEW d, ds[n].reply = ViewOf(d, ds[n].arg)
    PROVE  Unsettling(ds, c) \/ UpToDate(ds, rows, asked, d, c)
<1> SUFFICES ASSUME ~Unsettling(ds, c) PROVE UpToDate(ds, rows, asked, d, c)
    OBVIOUS
<1>1. n \in DOMAIN ds /\ ListOf(ds[n], c)
    BY DEF Answers, ListOf, SameRequest
<1>2. ASSUME NEW m \in DOMAIN ds, LastList(ds, m, c) PROVE m = n
    <2>1. CASE m # n
        <3>1. n < m
            BY <1>1, <1>2, <2>1 DEF LastList, Answers
        <3>2. ds[m] = cs[m] /\ cs[m].st = "ok"
            BY <1>2, <2>1 DEF Unsettling, Unsettled, LastList, Answers
        <3> QED BY <1>2, <3>1, <3>2 DEF LastList, InOrder, About, ListOf, Answers
    <2> QED BY <2>1
<1> QED BY <1>1, <1>2 DEF UpToDate

\* A patch that has been answered awaits its handler.
LEMMA PatchServed ==
    ASSUME NEW cs, NEW ds, NEW n, NEW c, Answers(cs, ds, n), PatchOf(cs[n], c),
           cs[n].st = "sent", ds[n].st = "ok", InOrder(cs, c), NEW rows, NEW asked, NEW d,
           NEW e, Serves(cs[n], ds[n].reply, asked, d, e), UpToDate(cs, rows, asked, d, c),
           \A m \in DOMAIN cs : Patch(cs[m]) => cs[m].item \in Items
    PROVE  Unsettling(ds, c) \/ UpToDate(ds, rows, asked, e, c)
<1> DEFINE i == cs[n].item
           v == ViewOf(d, asked)
           w == ViewOf(e, asked)
<1> SUFFICES ASSUME ~Unsettling(ds, c) PROVE UpToDate(ds, rows, asked, e, c)
    OBVIOUS
<1>1. PatchOf(ds[n], c) /\ n \in DOMAIN ds
    BY DEF Answers, SameRequest, PatchOf, Patch
<1>2. ASSUME NEW m \in DOMAIN ds, ListOf(ds[m], c) PROVE FALSE
    <2>1. ~(m < n)
        BY <1>1, <1>2 DEF Unsettling
    <2>2. m # n
        BY <1>1, <1>2 DEF PatchOf, Patch, ListOf
    <2>3. n < m /\ ds[m] = cs[m]
        BY <2>1, <2>2 DEF Answers
    <2>4. ds[m].st = "ok"
        BY <1>2 DEF Unsettling, Unsettled
    <2> QED BY <1>2, <2>3, <2>4 DEF InOrder, About, ListOf, PatchOf, Patch, Answers
<1>3. ASSUME asked # None PROVE Matches(ds, rows, w, e, c)
    <2>1. \A m \in DOMAIN cs : ~ListOf(cs[m], c)
        BY <1>2 DEF Answers, SameRequest, ListOf
    <2>2. Matches(cs, rows, v, d, c)
        BY <1>3, <2>1 DEF UpToDate
    <2>3. /\ asked \in {0, 3} /\ i \in Items /\ cs[n].arg # 0 /\ d[i] # 0 /\ DOMAIN d = Items
          /\ e = [d EXCEPT ![i] = cs[n].arg]
        BY <1>3 DEF Serves, PatchOf
    <2>5. \A j \in Items : e[j] = IF j = i THEN cs[n].arg ELSE d[j]
        BY <2>3
    <2>4. \A j \in Items : (w[j] = 0 <=> v[j] = 0) /\ (j # i => w[j] = v[j])
        <3>1. /\ asked \in {0, 3} /\ i \in Items /\ d[i] # 0 /\ e[i] # 0
              /\ \A j \in Items : j # i => e[j] = d[j]
            BY <2>3, <2>5
        <3>2. \A j \in Items : /\ ViewOf(e, asked)[j] = 0 <=> ViewOf(d, asked)[j] = 0
                               /\ j # i => ViewOf(e, asked)[j] = ViewOf(d, asked)[j]
            <4> HIDE DEF i, v, w
            <4> QED BY ONLY <3>1, PatchedView
        <3> QED BY <3>2
    <2>6. PatchedBy(ds[n], c, i) /\ ds[n].item = i /\ ds[n].arg = cs[n].arg
        BY <1>1 DEF PatchedBy, Answers, SameRequest
    <2> HIDE DEF i, v, w
    <2>7. ASSUME NEW m \in DOMAIN ds, LastPatch(ds, m, c) PROVE ds[m].arg = e[ds[m].item]
        <3>1. CASE m = n
            BY <2>3, <2>5, <2>6, <3>1
        <3>2. CASE m # n /\ ds[m].item = i
            <4>1. n < m /\ ds[m] = cs[m] /\ ds[m].st = "ok" /\ About(cs[m], c)
                BY <1>1, <2>6, <2>7, <3>2 DEF LastPatch, Answers, PatchedBy, PatchOf, Patch, About
            <4> QED BY <4>1 DEF InOrder, Answers, PatchOf, Patch, About
        <3>3. CASE m # n /\ ds[m].item # i
            <4>1. ds[m] = cs[m] /\ m \in DOMAIN cs
                BY <3>3 DEF Answers
            <4>2. LastPatch(cs, m, c)
                <5> SUFFICES ASSUME NEW k \in DOMAIN cs, k > m, PatchedBy(cs[k], c, cs[m].item)
                             PROVE  FALSE
                    BY <2>7, <4>1 DEF LastPatch
                <5>1. k # n
                    BY DEF PatchedBy
                <5> QED BY <2>7, <4>1, <5>1 DEF LastPatch, Answers
            <4>3. ds[m].item \in Items
                BY <4>1, <4>2 DEF LastPatch, PatchedBy, PatchOf
            <4> QED BY <2>2, <2>5, <3>3, <4>1, <4>2, <4>3 DEF Matches
        <3> QED BY <3>1, <3>2, <3>3
    <2>8. ASSUME NEW j \in Items, \A m \in DOMAIN ds : ~PatchedBy(ds[m], c, j) PROVE rows[j] = w[j]
        <3>1. j # i
            BY <1>1, <2>6, <2>8
        <3>2. ASSUME NEW m \in DOMAIN cs PROVE ~PatchedBy(cs[m], c, j)
            <4>1. CASE m = n
                BY <4>1 DEF PatchedBy
            <4>2. CASE m # n
                BY <2>8, <4>2 DEF Answers
            <4> QED BY <4>1, <4>2
        <3> QED BY <2>2, <2>4, <3>1, <3>2 DEF Matches
    <2>9. ASSUME NEW m \in DOMAIN ds, PatchedBy(ds[m], c, ds[m].item) PROVE e[ds[m].item] # 0
        <3>1. CASE ds[m].item = i
            BY <2>3, <2>5, <3>1
        <3>2. CASE ds[m].item # i
            <4>1. ds[m] = cs[m] /\ m \in DOMAIN cs
                BY <2>6, <3>2 DEF Answers
            <4>2. ds[m].item \in Items
                BY <2>9, <4>1 DEF PatchedBy, PatchOf
            <4> QED BY <2>2, <2>5, <2>9, <3>2, <4>1, <4>2 DEF Matches
        <3> QED BY <3>1, <3>2
    <2>10. rows = [j \in Items |-> rows[j]] /\ \A j \in Items : (rows[j] = 0 <=> w[j] = 0)
        BY <2>2, <2>4 DEF Matches
    <2> QED BY <2>7, <2>8, <2>9, <2>10 DEF Matches
<1> QED BY <1>2, <1>3 DEF UpToDate, LastList

\* A request that has succeeded leaves its collection settled.
LEMMA GoodAnswer ==
    ASSUME NEW cs, NEW ds, NEW n, NEW c, Answers(cs, ds, n), About(cs[n], c),
           cs[n].st = "sent", ds[n].st = "ok", cs[n].kind \in Kinds,
           \A k \in DOMAIN cs : k < n /\ cs[k].col = c => cs[k].st # "sent",
           \A m \in DOMAIN cs : Patch(cs[m]) => cs[m].item \in Items,
           NEW x \in BOOLEAN, NEW rows, NEW asked, NEW d, Settled(cs, x, rows, asked, d, c),
           NEW e, Serves(cs[n], ds[n].reply, asked, d, e)
    PROVE  Settled(ds, x, rows, asked, e, c)
<1> SUFFICES ASSUME Trusted(ds, x, c)
             PROVE  /\ NoneStale(ds, c) /\ InOrder(ds, c)
                    /\ Unsettling(ds, c) \/ UpToDate(ds, rows, asked, e, c)
    BY DEF Settled
<1>1. /\ NoneStale(ds, c) /\ InOrder(ds, c) /\ InOrder(cs, c)
      /\ Unsettling(cs, c) \/ UpToDate(cs, rows, asked, d, c)
    BY AnsweredOrderly
<1>2. SameRequest(ds[n], cs[n]) /\ n \in DOMAIN ds /\ n \in DOMAIN cs
    BY DEF Answers
<1>3. CASE cs[n].kind = "list"
    <2>1. ListOf(cs[n], c) /\ e = d /\ ds[n].reply = ViewOf(d, ds[n].arg)
        BY <1>2, <1>3 DEF ListOf, About, Serves, SameRequest
    <2> QED BY <1>1, <2>1, ListServed
<1>4. CASE cs[n].kind # "list" /\ Rewrites(cs[n], c)
    <2>1. Rewrites(ds[n], c)
        BY <1>2, <1>4 DEF Rewrites, SameRequest, Patch, Chained
    <2> QED BY <1>1, <1>2, <2>1 DEF Unsettling, Unsettled
<1>5. CASE ~cs[n].held
    BY <1>1, <1>2, <1>5 DEF Unsettling, Unsettled, SameRequest, About
<1>6. CASE cs[n].kind # "list" /\ ~Rewrites(cs[n], c) /\ cs[n].held /\ Unsettling(cs, c)
    <2>1. \A m \in DOMAIN cs : m # n => ds[m] = cs[m]
        BY DEF Answers
    <2>2. ~Unsettled(cs[n], c)
        BY <1>6 DEF Unsettled, ListOf
    <2>3. \A m \in DOMAIN cs : /\ PatchOf(ds[m], c) <=> PatchOf(cs[m], c)
                               /\ ListOf(ds[m], c) <=> ListOf(cs[m], c)
        BY <1>2, <2>1 DEF PatchOf, Patch, ListOf, SameRequest
    <2>4. Unsettling(ds, c)
        BY <1>6, <2>1, <2>2, <2>3 DEF Unsettling, Answers
    <2> QED BY <1>1, <2>4
<1>7. CASE Patch(cs[n]) /\ UpToDate(cs, rows, asked, d, c)
    <2>1. PatchOf(cs[n], c)
        BY <1>7 DEF PatchOf, About
    <2> QED BY <1>1, <1>7, <2>1, PatchServed
<1>8. CASE cs[n].kind = "get" /\ UpToDate(cs, rows, asked, d, c)
    <2>1. \A m \in DOMAIN cs : /\ SameRequest(ds[m], cs[m])
                               /\ m # n => ds[m].st = cs[m].st /\ ds[m].reply = cs[m].reply
        BY DEF Answers, SameRequest
    <2>2. \A m \in DOMAIN cs : LastList(ds, m, c) =>
             LastList(cs, m, c) /\ ds[m].reply = cs[m].reply /\ ds[m].arg = cs[m].arg
        BY <1>8, <2>1 DEF LastList, SameRequest, ListOf, Answers
    <2>3. \A m \in DOMAIN cs : \A i : (PatchedBy(ds[m], c, i) <=> PatchedBy(cs[m], c, i))
        BY <1>8, <2>1 DEF PatchedBy, PatchOf, Patch, SameRequest
    <2>4. \A m \in DOMAIN cs : /\ LastPatch(ds, m, c) => LastPatch(cs, m, c)
                               /\ ds[m].item = cs[m].item /\ ds[m].arg = cs[m].arg
        BY <2>1, <2>3 DEF LastPatch, SameRequest, Answers
    <2>5. \A v : Matches(cs, rows, v, d, c) => Matches(ds, rows, v, d, c)
        BY <2>3, <2>4 DEF Matches, Answers
    <2>6. (\A m \in DOMAIN ds : ~ListOf(ds[m], c)) => \A m \in DOMAIN cs : ~ListOf(cs[m], c)
        BY <2>1 DEF ListOf, SameRequest, Answers
    <2>7. UpToDate(ds, rows, asked, d, c)
        BY <1>8, <2>2, <2>5, <2>6 DEF UpToDate, Answers
    <2>8. e = d
        BY <1>8 DEF Serves
    <2> QED BY <1>1, <2>7, <2>8
<1> QED BY <1>1, <1>3, <1>4, <1>5, <1>6, <1>7, <1>8 DEF Kinds, Writes, Rewrites, About, Patch

\* What a request changes: rows of its own collection, a patch one row.
LEMMA ExecutedIs ==
    ASSUME DOMAIN db = Collections, \A c \in Collections : DOMAIN db[c] = Items,
           NEW r, Sound(r), Executed(r)
    PROVE  /\ DOMAIN db' = Collections /\ \A c \in Collections : DOMAIN db'[c] = Items
           /\ \A c \in Collections : c # r.col \/ r.kind \in {"list", "get", "act"} => db'[c] = db[c]
           /\ Patch(r) => /\ db[r.col][r.item] # 0
                          /\ db'[r.col] = [db[r.col] EXCEPT ![r.item] = r.arg]
<1>0. r.col \in Collections /\ r.kind \in Kinds
    BY DEF Sound
<1>1. CASE UNCHANGED db /\ r.kind \in {"list", "get", "act"}
    BY <1>1 DEF Patch
<1>2. CASE r.kind \notin {"list", "get", "act"}
    <2>1. PICK new :
            /\ db' = [db EXCEPT ![r.col] = new] /\ DOMAIN new = Items
            /\ r.kind = "update" => /\ db[r.col][r.item] # 0
                                    /\ new = [db[r.col] EXCEPT ![r.item] = r.arg]
        <3>1. CASE r.kind = "create"
            <4>1. PICK i \in Items : db' = [db EXCEPT ![r.col][i] = r.arg]
                BY <3>1 DEF Executed
            <4> DEFINE new == [db[r.col] EXCEPT ![i] = r.arg]
            <4>2. db' = [db EXCEPT ![r.col] = new]
                BY <1>0, <4>1
            <4>3. DOMAIN new = Items
                BY <1>0
            <4> HIDE DEF new
            <4> QED BY <3>1, <4>2, <4>3
        <3>2. CASE r.kind = "update"
            BY <1>0, <3>2 DEF Executed
        <3>3. CASE r.kind = "delete"
            BY <1>0, <3>3 DEF Executed
        <3>4. CASE r.kind = "save"
            BY <1>0, <3>4 DEF Executed
        <3>5. CASE r.kind = "evict"
            BY <1>0, <3>5 DEF Executed
        <3>6. CASE r.kind = "purge"
            BY <1>0, <3>6 DEF Executed
        <3>7. CASE r.kind = "clear"
            BY <1>0, <3>7 DEF Executed
        <3> QED BY <1>0, <1>2, <3>1, <3>2, <3>3, <3>4, <3>5, <3>6, <3>7 DEF Kinds
    <2> QED BY <1>0, <1>2, <2>1 DEF Patch
<1> QED BY <1>1, <1>2 DEF Executed

\* Only two pages change a row in place, and ask for plain lists there.
LEMMA WherePatched ==
    ASSUME NEW p \in Listing, NEW r, Known(p, r), Sound(r), Patch(r)
    PROVE  (p = "BlockRuleList" /\ r.col = 1) \/ (p = "ProfileSettings" /\ r.col = 2)
<1>1. r.op = "toggleEnabled" => p = "BlockRuleList"
    BY DEF Listing, AllPages, Known, SortOf, Patch, Chained, UserManagementKnows,
           RoleManagementKnows, ProfileSettingsKnows,
           WebhookManagementKnows, BackupManagementKnows, ScheduledTasksKnows,
           RuntimeStatusKnows, DashboardKnows, CacheManagementKnows, RepositoryListKnows,
           RepositoryDetailKnows, DownloadLogsKnows, AuditLogsKnows, SecurityCenterKnows,
           VulnRuleManagementKnows, RiskAssessmentKnows,
           PackageExplorerKnows, FileBrowserKnows, PublicBrowseKnows
<1>2. r.op = "saveProfile" => p = "ProfileSettings"
    BY DEF Listing, AllPages, Known, SortOf, Patch, Chained, UserManagementKnows,
           RoleManagementKnows,
           WebhookManagementKnows, BackupManagementKnows, ScheduledTasksKnows,
           RuntimeStatusKnows, DashboardKnows, CacheManagementKnows, RepositoryListKnows,
           RepositoryDetailKnows, DownloadLogsKnows, AuditLogsKnows, SecurityCenterKnows,
           VulnRuleManagementKnows, BlockRuleListKnows, RiskAssessmentKnows,
           PackageExplorerKnows, FileBrowserKnows, PublicBrowseKnows
<1> QED BY <1>1, <1>2 DEF Patch, Sound

\* The answer of a request, recorded.
Recorded(cs, ds, n, st, reply) ==
    /\ ds = [m \in DOMAIN cs |-> ds[m]]
    /\ \A m \in DOMAIN cs : m # n => ds[m] = cs[m]
    /\ DOMAIN ds[n] = DOMAIN cs[n] /\ SameRequest(ds[n], cs[n]) /\ ds[n].stale = cs[n].stale
    /\ ds[n].st = st /\ ds[n].reply = reply

\* Recording an answer keeps the requests sound, if the answer of a patch is.
LEMMA RecordedSound ==
    ASSUME NEW p, NEW cs, AllSound(p, cs), NEW n \in DOMAIN cs, NEW ds, NEW st \in {"ok", "err"},
           NEW reply, Recorded(cs, ds, n, st, reply),
           Patch(cs[n]) /\ st = "ok" => reply = cs[n].arg
    PROVE  AllSound(p, ds) /\ Answers(cs, ds, n)
<1>1. DOMAIN cs = 1..Len(cs) /\ Len(cs) \in Nat
    BY SeqDomain DEF AllSound
<1>2. IsSeq(ds) /\ DOMAIN ds = DOMAIN cs
    BY <1>1, FunctionIsSeq DEF Recorded
<1>3. Sound(ds[n])
    BY DEF Recorded, AllSound, Sound, SameRequest, Patch
<1>4. Known(p, ds[n])
    BY KnownBySort DEF Recorded, AllSound, SameRequest
<1>5. AllSound(p, ds)
    BY <1>2, <1>3, <1>4 DEF AllSound, Recorded
<1>6. Answers(cs, ds, n)
    BY <1>1, <1>2 DEF Answers, Recorded
<1> QED BY <1>5, <1>6

\* A request that fails.
LEMMA FailureSettles ==
    ASSUME NEW p, CoreFor(p), NEW n \in DOMAIN calls, calls[n].st = "sent",
           calls' = [calls EXCEPT ![n].st = "err"], UNCHANGED <<ui, db, excused>>
    PROVE  CoreFor(p)'
<1>1. AllSound(p, calls) /\ Sound(calls[n])
    BY DEF CoreFor, AllSound
<1>2. Recorded(calls, calls', n, "err", calls[n].reply)
    <2>1. DOMAIN calls' = DOMAIN calls /\ calls' = [m \in DOMAIN calls |-> calls'[m]]
          /\ (\A m \in DOMAIN calls : m # n => calls'[m] = calls[m])
          /\ calls'[n] = [calls[n] EXCEPT !.st = "err"]
        OBVIOUS
    <2> QED BY <1>1, <2>1 DEF Recorded, SameRequest, Sound, Fields
<1>3. AllSound(p, calls') /\ Answers(calls, calls', n)
    BY <1>1, <1>2, RecordedSound
<1>4. ASSUME NEW c \in Collections
      PROVE  Settled(calls', excused[c], ui.rows[c], ui.asked[c], db[c], c)
    <2>1. Settled(calls, excused[c], ui.rows[c], ui.asked[c], db[c], c) /\ excused[c] \in BOOLEAN
        BY DEF CoreFor
    <2>2. CASE About(calls[n], c)
        <3>1. calls'[n].st = "err"
            BY <1>2 DEF Recorded
        <3> DEFINE ds == calls'  x == excused[c]  rows == ui.rows[c]  asked == ui.asked[c]
                   d == db[c]
        <3>2. /\ Answers(calls, ds, n) /\ About(calls[n], c)
              /\ ds[n].st = "err" /\ x \in BOOLEAN /\ Settled(calls, x, rows, asked, d, c)
            BY <1>3, <2>1, <2>2, <3>1
        <3> HIDE DEF ds, x, rows, asked, d
        <3>3. Settled(ds, x, rows, asked, d, c)
            BY ONLY <3>2, FailedAnswer
        <3> QED BY <3>3 DEF ds, x, rows, asked, d
    <2>3. CASE ~About(calls[n], c)
        <3>1. \A m \in DOMAIN calls : /\ SameRequest(calls'[m], calls[m])
                                      /\ About(calls[m], c) => calls'[m] = calls[m]
            BY <1>3, <2>3 DEF Answers, SameRequest
        <3>2. DOMAIN calls' = DOMAIN calls
            BY <1>3 DEF Answers
        <3> DEFINE ds == calls'  x == excused[c]  rows == ui.rows[c]  asked == ui.asked[c]
                   d == db[c]
        <3>3. /\ DOMAIN ds = DOMAIN calls
              /\ \A m \in DOMAIN calls : /\ SameRequest(ds[m], calls[m])
                                         /\ About(calls[m], c) => ds[m] = calls[m]
              /\ x \in BOOLEAN /\ Settled(calls, x, rows, asked, d, c)
            BY <2>1, <3>1, <3>2
        <3> HIDE DEF ds, x, rows, asked, d
        <3>4. Settled(ds, x, rows, asked, d, c)
            BY ONLY <3>3, Untouched
        <3> QED BY <3>4 DEF ds, x, rows, asked, d
    <2> QED BY <2>2, <2>3
<1> QED BY <1>3, <1>4 DEF CoreFor, RefsOK

\* The answers that were under way, marked or not, before request n is answered.
Overtaking(n) ==
    /\ calls[n].kind # "act"
    /\ \E m \in 1..(n - 1) : calls[m].col = calls[n].col /\ calls[m].st = "sent"

\* The requests cs that request n finds at the server: marked, if it overtakes one.
AtServer(n, cs) ==
    /\ DOMAIN cs = DOMAIN calls
    /\ \A m \in DOMAIN calls :
         /\ SameRequest(cs[m], calls[m]) /\ cs[m].st = calls[m].st /\ cs[m].reply = calls[m].reply
         /\ calls[m].col # calls[n].col => cs[m].stale = calls[m].stale
         /\ Overtaking(n) /\ calls[m].col = calls[n].col => cs[m].stale
    /\ ~Overtaking(n) => cs = calls

\* What the server answers, and what is excused by it.
LEMMA Served ==
    ASSUME NEW p \in Listing, CoreFor(p), NEW n \in DOMAIN calls, Serve(n)
    PROVE  /\ \E cs, st : /\ AtServer(n, cs) /\ st \in {"ok", "err"}
                         /\ AllSound(p, calls') /\ Answers(cs, calls', n)
                         /\ calls'[n].st = st /\ calls'[n].reply = Answer(calls[n])
           /\ excused' \in [Collections -> BOOLEAN]
           /\ \A c \in Collections :
                 /\ c # calls[n].col \/ ~Overtaking(n) => excused'[c] = excused[c]
                 /\ c = calls[n].col /\ Overtaking(n) => excused'[c] = TRUE
<1> DEFINE r == calls[n]
           col == calls[n].col
           early == Overtaking(n)
           cs == IF early THEN Distrust(calls, col) ELSE calls
<1>1. /\ Sound(r) /\ Known(p, r) /\ AllSound(p, calls) /\ RefsOK(p, ui)
      /\ DOMAIN db = Collections /\ (\A c \in Collections : DOMAIN db[c] = Items)
      /\ excused \in [Collections -> BOOLEAN] /\ UNCHANGED ui /\ r.st = "sent" /\ Executed(r)
    BY DEF CoreFor, AllSound, Serve
<1>2. /\ DOMAIN db' = Collections /\ \A c \in Collections : DOMAIN db'[c] = Items
      /\ \A c \in Collections : c # col \/ r.kind \in {"list", "get", "act"} => db'[c] = db[c]
      /\ Patch(r) => /\ db[col][r.item] # 0
                     /\ db'[col] = [db[col] EXCEPT ![r.item] = r.arg]
    <2>1. r.col = col
        OBVIOUS
    <2> HIDE DEF r, col
    <2> QED BY <1>1, <2>1, ExecutedIs
<1>3. /\ DOMAIN cs = DOMAIN calls /\ AllSound(p, cs)
      /\ \A m \in DOMAIN calls :
           /\ SameRequest(cs[m], calls[m]) /\ cs[m].st = calls[m].st
           /\ cs[m].reply = calls[m].reply
           /\ calls[m].col # col => cs[m].stale = calls[m].stale
           /\ early /\ calls[m].col = col => cs[m].stale
      /\ ~early => cs = calls
    <2>1. CASE early
        <3> DEFINE ds == Distrust(calls, col)
        <3>1. /\ IsSeq(ds) /\ DOMAIN ds = DOMAIN calls
              /\ \A m \in DOMAIN calls : /\ Sound(ds[m]) /\ SameButMarks(ds[m], calls[m])
                                         /\ ds[m].held = calls[m].held
                                         /\ calls[m].col # col => ds[m].stale = calls[m].stale
                                         /\ calls[m].col = col => ds[m].stale
            BY <1>1, DistrustMarks DEF AllSound
        <3>2. cs = ds
            BY <2>1
        <3> HIDE DEF ds, cs, early
        <3>3. \A m \in DOMAIN calls : Known(p, ds[m])
            BY <1>1, <3>1, KnownBySort DEF AllSound, SameButMarks
        <3>4. AllSound(p, ds)
            BY <3>1, <3>3 DEF AllSound
        <3> QED BY <2>1, <3>1, <3>2, <3>4 DEF SameRequest, SameButMarks
    <2>2. CASE ~early
        BY <1>1, <2>2 DEF SameRequest, AllSound, Sound
    <2> QED BY <2>1, <2>2
<1>3a. PICK st \in {"ok", "err"} :
          \E more : calls' = [cs EXCEPT ![n].st = st, ![n].reply = Answer(r), ![n].more = more]
    BY Zenon DEF Serve, Overtaking
<1>4. PICK more : calls' = [cs EXCEPT ![n].st = st, ![n].reply = Answer(r), ![n].more = more]
    BY <1>3a
<1>5. excused' = [excused EXCEPT ![col] = @ \/ early]
    BY DEF Serve, Overtaking
<1>6. Recorded(cs, calls', n, st, Answer(r))
    <2> DEFINE s == [cs[n] EXCEPT !.st = st, !.reply = Answer(r), !.more = more]
    <2>1. /\ DOMAIN calls' = DOMAIN cs /\ calls' = [m \in DOMAIN cs |-> calls'[m]]
          /\ (\A m \in DOMAIN cs : m # n => calls'[m] = cs[m]) /\ n \in DOMAIN cs
          /\ calls'[n] = s
        BY Zenon, <1>3, <1>4
    <2>2. Fields \subseteq DOMAIN cs[n]
        BY <1>3 DEF AllSound, Sound
    <2>3. /\ s.kind = cs[n].kind /\ s.op = cs[n].op /\ s.col = cs[n].col /\ s.item = cs[n].item
          /\ s.arg = cs[n].arg /\ s.clean = cs[n].clean /\ s.held = cs[n].held
          /\ s.stale = cs[n].stale /\ s.st = st /\ s.reply = Answer(r) /\ DOMAIN s = DOMAIN cs[n]
        BY <2>2 DEF Fields
    <2> HIDE DEF s, cs
    <2> QED BY <2>1, <2>3 DEF Recorded, SameRequest
<1>7. Patch(r) => Answer(r) = r.arg
    BY <1>1, <1>2, KitAssumption DEF Patch, Answer, Sound
<1> HIDE DEF cs, early
<1>9. AllSound(p, calls') /\ Answers(cs, calls', n)
    <2>1. Patch(cs[n]) /\ st = "ok" => Answer(r) = cs[n].arg
        BY <1>3, <1>7 DEF SameRequest, Patch
    <2>2. n \in DOMAIN cs
        BY <1>3
    <2> QED BY <1>3, <1>6, <2>1, <2>2, RecordedSound
<1>10. /\ excused' \in [Collections -> BOOLEAN]
       /\ \A c \in Collections : c # col \/ ~early => excused'[c] = excused[c]
       /\ early => excused'[col] = TRUE
    <2>1. early \in BOOLEAN /\ col \in Collections
        BY <1>1 DEF early, Overtaking, Sound
    <2> DEFINE b == excused[col] \/ early
    <2>2. b \in BOOLEAN /\ excused' = [excused EXCEPT ![col] = b]
        BY <1>1, <1>5, <2>1
    <2>3. (early => b = TRUE) /\ (~early => b = excused[col])
        BY <1>1, <2>1
    <2> HIDE DEF b
    <2>4. excused' \in [Collections -> BOOLEAN]
          /\ \A c \in Collections : excused'[c] = IF c # col THEN excused[c] ELSE b
        BY <1>1, <2>2
    <2> QED BY <2>1, <2>3, <2>4
<1>11. AtServer(n, cs)
    BY <1>3 DEF AtServer, early
<1>12. calls'[n].st = st /\ calls'[n].reply = Answer(calls[n])
    BY <1>6 DEF Recorded
<1> QED BY <1>1, <1>9, <1>10, <1>11, <1>12 DEF Sound, early

\* What the server makes of a request, of its collection and of its answer.
LEMMA ServeSettles ==
    ASSUME NEW p \in Listing, CoreFor(p), NEW n \in DOMAIN calls, Serve(n)
    PROVE  CoreFor(p)'
<1> DEFINE r == calls[n]
           col == calls[n].col
           early == Overtaking(n)
<1>1. /\ Sound(r) /\ Known(p, r) /\ AllSound(p, calls) /\ RefsOK(p, ui)
      /\ DOMAIN db = Collections /\ (\A c \in Collections : DOMAIN db[c] = Items)
      /\ excused \in [Collections -> BOOLEAN] /\ UNCHANGED ui /\ r.st = "sent" /\ Executed(r)
    BY DEF CoreFor, AllSound, Serve
<1>2. /\ DOMAIN db' = Collections /\ \A c \in Collections : DOMAIN db'[c] = Items
      /\ \A c \in Collections : c # col \/ r.kind \in {"list", "get", "act"} => db'[c] = db[c]
      /\ Patch(r) => /\ db[col][r.item] # 0
                     /\ db'[col] = [db[col] EXCEPT ![r.item] = r.arg]
    <2>1. r.col = col
        OBVIOUS
    <2> HIDE DEF r, col
    <2> QED BY <1>1, <2>1, ExecutedIs
<1>3. /\ excused' \in [Collections -> BOOLEAN]
      /\ \A c \in Collections :
            /\ c # col \/ ~early => excused'[c] = excused[c]
            /\ c = col /\ early => excused'[c] = TRUE
    BY Served
<1>4. PICK cs, st : /\ AtServer(n, cs) /\ st \in {"ok", "err"}
                    /\ AllSound(p, calls') /\ Answers(cs, calls', n)
                    /\ calls'[n].st = st /\ calls'[n].reply = Answer(r)
    BY Served
<1>5. /\ DOMAIN cs = DOMAIN calls
      /\ \A m \in DOMAIN calls :
           /\ SameRequest(cs[m], calls[m]) /\ cs[m].st = calls[m].st
           /\ cs[m].reply = calls[m].reply
           /\ calls[m].col # col => cs[m].stale = calls[m].stale
           /\ early /\ calls[m].col = col => cs[m].stale
      /\ ~early => cs = calls
    BY <1>4 DEF AtServer
<1>6. r.kind = "list" => Answer(r) = ViewOf(db[col], r.arg)
    BY ViewIs DEF Answer
<1> HIDE DEF early
<1>7. ASSUME NEW c \in Collections
      PROVE  Settled(calls', excused'[c], ui.rows[c], ui.asked[c], db'[c], c)
    <2> DEFINE ds == calls'  x == excused[c]  rows == ui.rows[c]  asked == ui.asked[c]
               d == db[c]  e == db'[c]
    <2>1. Settled(calls, x, rows, asked, d, c) /\ x \in BOOLEAN /\ excused'[c] \in BOOLEAN
        BY <1>1, <1>3 DEF CoreFor
    <2>2. CASE ~About(r, c)
        <3>1. e = d /\ excused'[c] = x
            BY <1>1, <1>2, <1>3, <2>2 DEF About, early, Overtaking
        <3>2. DOMAIN ds = DOMAIN calls
            BY <1>4, <1>5 DEF Answers
        <3>3. \A m \in DOMAIN calls : SameRequest(ds[m], calls[m])
            BY <1>4, <1>5 DEF Answers, SameRequest
        <3>4. ASSUME NEW m \in DOMAIN calls, About(calls[m], c)
              PROVE  ds[m].st = calls[m].st /\ ds[m].reply = calls[m].reply /\ ds[m].stale = calls[m].stale
            <4>1. m # n
                BY <2>2, <3>4
            <4>2. ds[m] = cs[m]
                BY <1>4, <1>5, <4>1 DEF Answers
            <4>3. cs[m].stale = calls[m].stale
                BY <1>5, <2>2, <3>4 DEF About, early, Overtaking
            <4> QED BY <1>5, <4>2, <4>3
        <3> HIDE DEF ds, x, rows, asked, d, e
        <3>5. Settled(ds, x, rows, asked, d, c)
            BY ONLY <2>1, <3>2, <3>3, <3>4, Untouched
        <3>6. Settled(ds, excused'[c], rows, asked, e, c)
            BY <3>1, <3>5
        <3> QED BY <3>6 DEF ds, rows, asked, e
    <2>3. CASE About(r, c) /\ early
        <3>1. \A m \in DOMAIN cs : calls'[m].kind = "list" /\ calls'[m].col = c => calls'[m].stale
            BY <1>4, <1>5, <2>3 DEF Answers, SameRequest, About
        <3>2. excused'[c] = TRUE
            BY <1>3, <2>3 DEF About
        <3>3. ~Trusted(calls', excused'[c], c)
            BY <1>4, <3>1, <3>2 DEF Trusted, ListOf, Answers
        <3> QED BY <3>3 DEF Settled
    <2>4. CASE About(r, c) /\ ~early
        <3>1. excused'[c] = x /\ cs = calls /\ c = col
            BY <1>3, <1>5, <2>4 DEF About
        <3>2. ds[n].st = st /\ ds[n].reply = Answer(r)
            BY <1>4
        <3>3. Answers(calls, ds, n)
            BY <1>4, <3>1
        <3>4. CASE st = "err"
            <4>1. ds[n].st = "err"
                BY <3>2, <3>4
            <4>2. About(calls[n], c)
                BY <2>4
            <4> HIDE DEF ds, x, rows, asked, d, e
            <4>3. Settled(ds, x, rows, asked, e, c)
                BY ONLY <2>1, <3>3, <4>1, <4>2, FailedAnswer
            <4> QED BY <3>1, <4>3 DEF ds, x, rows, asked, e
        <3>5. CASE st = "ok"
            <4>1. ds[n].st = "ok" /\ calls[n].st = "sent" /\ calls[n].kind \in Kinds
                  /\ About(calls[n], c)
                BY <1>1, <2>4, <3>2, <3>5 DEF Sound
            <4>2. \A k \in DOMAIN calls : k < n /\ calls[k].col = c => calls[k].st # "sent"
                <5>1. DOMAIN calls = 1..Len(calls) /\ Len(calls) \in Nat
                    BY <1>1, SeqDomain DEF AllSound
                <5> QED BY <2>4, <3>1, <5>1 DEF early, Overtaking, About
            <4>3. \A m \in DOMAIN calls : Patch(calls[m]) => calls[m].item \in Items
                BY <1>1 DEF AllSound, Sound
            <4>4. Patch(r) /\ asked # None => asked \in {0, 3}
                BY <1>1, <3>1, WherePatched DEF RefsOK, Asks
            <4>5. Serves(calls[n], ds[n].reply, asked, d, e)
                BY <1>1, <1>2, <1>6, <3>1, <3>2, <4>4 DEF Serves, Sound
            <4> HIDE DEF ds, x, rows, asked, d, e
            <4>6. Settled(ds, x, rows, asked, e, c)
                BY ONLY <2>1, <3>3, <4>1, <4>2, <4>3, <4>5, GoodAnswer
            <4> QED BY <3>1, <4>6 DEF ds, x, rows, asked, e
        <3> QED BY <1>4, <3>4, <3>5
    <2> QED BY <2>2, <2>3, <2>4
<1> QED BY <1>1, <1>2, <1>3, <1>4, <1>7 DEF CoreFor, RefsOK

\* The server and the network keep to what the page expects.
LEMMA NetworkSettles ==
    ASSUME NEW p \in Listing, CoreFor(p), NEW n \in DOMAIN calls,
           Serve(n) \/ Refuse(n) \/ NotFound(n)
    PROVE  CoreFor(p)'
BY ServeSettles, FailureSettles DEF Refuse, NotFound

----------------------------------------
(* Clicks and answers of a page, in general *)

\* A request that page p may send, as it is sent.
Good(p, r) == Sound(r) /\ Known(p, r) /\ Unsent(r)
\* Requests S settle collection c, sooner or later.
Brings(S, c) == \E k \in DOMAIN S : Fetches(S[k], c)

\* What pages send: none, one, two or three requests.
LEMMA FreshNone == \A p : Fresh(p, <<>>)
BY DEF Fresh, IsSeq

\* One request.
LEMMA FreshOne ==
    \A p, r : /\ Good(p, r) => Fresh(p, <<r>>)
              /\ \A c : Fetches(r, c) => Brings(<<r>>, c)
<1> TAKE p, r
<1>1. <<r>> \in Seq({r}) /\ DOMAIN <<r>> = {1} /\ <<r>>[1] = r
    OBVIOUS
<1> QED BY <1>1 DEF Fresh, IsSeq, Good, Brings

\* Two requests.
LEMMA FreshTwo == \A p, r, s : Good(p, r) /\ Good(p, s) => Fresh(p, <<r, s>>)
<1> TAKE p, r, s
<1>1. <<r, s>> \in Seq({r, s}) /\ DOMAIN <<r, s>> = {1, 2} /\ <<r, s>>[1] = r /\ <<r, s>>[2] = s
    OBVIOUS
<1> QED BY <1>1 DEF Fresh, IsSeq, Good

\* Three requests.
LEMMA FreshThree ==
    \A p, r, s, t : Good(p, r) /\ Good(p, s) /\ Good(p, t) => Fresh(p, <<r, s, t>>)
<1> TAKE p, r, s, t
<1>1. <<r, s, t>> \in Seq({r, s, t}) /\ DOMAIN <<r, s, t>> = {1, 2, 3}
      /\ <<r, s, t>>[1] = r /\ <<r, s, t>>[2] = s /\ <<r, s, t>>[3] = t
    OBVIOUS
<1> QED BY <1>1 DEF Fresh, IsSeq, Good

\* Changing other refs than rows, queries and flags.
LEMMA KeptEdits ==
    \A p : RefsOK(p, ui) =>
        /\ Keeps(p, ui) /\ Keeps(p, Closed) /\ \A k, i, v : Keeps(p, Opened(k, i, v))
        /\ \A x : Keeps(p, [ui EXCEPT !.spin = x]) /\ Keeps(p, [ui EXCEPT !.box = x])
        /\ \A x : Keeps(p, [ui EXCEPT !.form = x]) /\ Keeps(p, [ui EXCEPT !.sel = x])
        /\ \A x : Keeps(p, [ui EXCEPT !.tab = x]) /\ Keeps(p, [ui EXCEPT !.mode = x])
        /\ \A x : Keeps(p, [ui EXCEPT !.timers = x])
        /\ \A x : p # "BlockRuleList" \/ x \in {0, 3} => Keeps(p, [ui EXCEPT !.q = x])
        /\ \A x : Keeps(p, [ui EXCEPT !.box.data = x])
        /\ \A x, y : Keeps(p, [ui EXCEPT !.tab = x, !.sel = y])
        /\ \A x, y : Keeps(p, [ui EXCEPT !.tab = x, !.mode = y])
        /\ \A x, y : Keeps(p, [ui EXCEPT !.sel = x, !.form = y])
BY DEF RefsOK, Keeps, Closed, Opened, Refs

\* Refs u show what calls[n] has brought, as Listed does.
Lists(p, n, u) ==
    /\ DOMAIN u = Refs /\ u.rows = Listed(n).rows /\ u.asked = Listed(n).asked
    /\ p = "BlockRuleList" => u.q \in {0, 3}

\* Listed does, and so do other refs with it.
LEMMA ListedEdits ==
    \A p, n : RefsOK(p, ui) =>
        /\ Lists(p, n, Listed(n))
        /\ \A x : /\ Lists(p, n, [Listed(n) EXCEPT !.form = x])
                  /\ Lists(p, n, [Listed(n) EXCEPT !.sel = x])
                  /\ Lists(p, n, [Listed(n) EXCEPT !.spin = x])
                  /\ Lists(p, n, [Listed(n) EXCEPT !.mode = x])
BY DEF RefsOK, Lists, Listed, Refs

\* What the handler of a request that succeeded still has to do.
Owes(r, S) ==
    /\ Chained(r) => Brings(S, 1)
    /\ r.st = "ok" => \/ r.kind \in {"get", "act"}
                      \/ r.kind \in Writes /\ ~Patch(r) /\ Brings(S, r.col)

\* A click on page p.
LEMMA AnyClick ==
    ASSUME NEW p, CoreFor(p), UNCHANGED <<db, excused>>
    PROVE  /\ RefsOK(p, ui)
           /\ \A u, S : Keeps(p, u) /\ Fresh(p, S) /\ Do(u, S) => CoreFor(p)'
<1>1. RefsOK(p, ui)
    BY DEF CoreFor
<1> QED BY <1>1, DoSettles

\* An answer on page p: of a list that is shown, or of anything else.
LEMMA AnyAnswer ==
    ASSUME NEW p, CoreFor(p), NEW n \in DOMAIN calls, calls[n].st # "sent", UNCHANGED db
    PROVE  /\ RefsOK(p, ui) /\ Sound(calls[n]) /\ Known(p, calls[n])
           /\ \A u, S : /\ Keeps(p, u) /\ Owes(calls[n], S) /\ Fresh(p, S) /\ Then(n, u, S)
                        => CoreFor(p)'
           /\ \A u, S : /\ Lists(p, n, u) /\ calls[n].kind = "list"
                        /\ Fresh(p, S) /\ Then(n, u, S)
                        => CoreFor(p)'
<1> DEFINE r == calls[n]
<1>1. RefsOK(p, ui) /\ Sound(r) /\ Known(p, r)
    BY DEF CoreFor, AllSound
<1>2. ASSUME NEW u, NEW S, Keeps(p, u), Owes(r, S), Fresh(p, S), Then(n, u, S)
      PROVE  CoreFor(p)'
    <2>1. RefsOK(p, u)
        BY <1>1, <1>2 DEF RefsOK, Keeps
    <2>2. Handled(n, u, S)
        BY <1>1, <1>2 DEF Handled, Keeps, Owes, Ok, Brings, Writes, Patch
    <2> QED BY <1>2, <2>1, <2>2, ThenSettles
<1>3. ASSUME NEW u, NEW S, Lists(p, n, u), r.kind = "list", Fresh(p, S), Then(n, u, S)
      PROVE  CoreFor(p)'
    <2> DEFINE v == Listed(n)
    <2>1. /\ v.rows = [ui.rows EXCEPT ![r.col] = r.reply]
          /\ v.asked = [ui.asked EXCEPT ![r.col] = r.arg]
        BY <1>1 DEF Listed, RefsOK, Refs
    <2> HIDE DEF v
    <2>2. /\ DOMAIN u.rows = Collections /\ DOMAIN u.asked = Collections
          /\ u.rows[r.col] = r.reply /\ u.asked[r.col] = r.arg
          /\ \A b \in Collections \ {r.col} : u.rows[b] = ui.rows[b] /\ u.asked[b] = ui.asked[b]
        BY <1>1, <1>3, <2>1 DEF Lists, RefsOK, Sound, v
    <2>3. RefsOK(p, u)
        <3>1. Asks(p, r.col, r.arg)
            BY <1>1, <1>3 DEF Known
        <3> QED BY <1>1, <1>3, <2>2, <3>1 DEF RefsOK, Lists
    <2>4. Handled(n, u, S)
        BY <1>1, <1>3, <2>2 DEF Handled, Ok, Patch, Chained, Writes
    <2> QED BY <1>3, <2>3, <2>4, ThenSettles
<1> QED BY <1>1, <1>2, <1>3

\* Every way to make a request makes a sound one, and says what it asks.
Says(r, kind, op, col, item, arg) ==
    /\ r.kind = kind /\ r.op = op /\ r.col = col /\ r.item = item /\ r.arg = arg
    /\ Unsent(r)

\* And every operator that makes one.
LEMMA SoundRequests ==
    /\ \A op, col, u, clears :
         /\ Says(List(op, col, u, clears), "list", op, col, None, u.q)
         /\ col \in Collections => Sound(List(op, col, u, clears))
    /\ \A op, col, i, clears :
         /\ Says(Get(op, col, i, clears), "get", op, col, i, 0)
         /\ col \in Collections => Sound(Get(op, col, i, clears))
    /\ \A op, col, clears :
         /\ Says(Create(op, col, clears), "create", op, col, None, 1)
         /\ col \in Collections => Sound(Create(op, col, clears))
    /\ \A op, col, v, clears :
         /\ Says(CreateNext(op, col, v, clears), "create", op, col, v, 1)
         /\ col \in Collections => Sound(CreateNext(op, col, v, clears))
    /\ \A op, col, i, v, clears :
         /\ Says(Update(op, col, i, v, clears), "update", op, col, i, v)
         /\ col \in Collections /\ op \notin {"toggleEnabled", "saveProfile"}
            => Sound(Update(op, col, i, v, clears))
    /\ \A op, col, i, clears :
         /\ Says(Delete(op, col, i, clears), "delete", op, col, i, 0)
         /\ col \in Collections => Sound(Delete(op, col, i, clears))
    /\ \A op, col, i, v, clears :
         /\ Says(DeleteNext(op, col, i, v, clears), "delete", op, col, i, v)
         /\ col \in Collections => Sound(DeleteNext(op, col, i, v, clears))
    /\ \A op, col, v, clears :
         /\ Says(Save(op, col, v, clears), "save", op, col, None, v)
         /\ col \in Collections => Sound(Save(op, col, v, clears))
    /\ \A op, col, i, v, clears :
         /\ Says(Evict(op, col, i, v, clears), "evict", op, col, i, v)
         /\ col \in Collections => Sound(Evict(op, col, i, v, clears))
    /\ \A op, col, v, clears :
         /\ Says(Clear(op, col, v, clears), "clear", op, col, None, v)
         /\ col \in Collections => Sound(Clear(op, col, v, clears))
    /\ \A op, col, v, clears :
         /\ Says(Purge(op, col, v, clears), "purge", op, col, None, v)
         /\ col \in Collections => Sound(Purge(op, col, v, clears))
    /\ \A op, i, clears : Says(Act(op, i, clears), "act", op, 1, i, 0)
          /\ Sound(Act(op, i, clears))
<1>1. \A kind, op, col, item, arg, clears :
        LET r == Request(kind, op, col, item, arg, clears)
        IN  /\ Says(r, kind, op, col, item, arg)
            /\ (kind \in Kinds /\ col \in Collections
                /\ (kind # "update" \/ op \notin {"toggleEnabled", "saveProfile"})) => Sound(r)
    BY DEF Says, Request, Unsent, Sound, Fields, Patch
<1> QED
    BY <1>1
       DEF List, Get, Create, CreateNext, Update, Delete, DeleteNext, Save, Evict, Clear, Purge,
           Act, Kinds, Collections

\* A request that its page knows; where queries are restricted, a plain list.
LEMMA KnownToPage ==
    \A r :
        /\ UserManagementKnows(r) => Known("UserManagement", r)
        /\ RoleManagementKnows(r) => Known("RoleManagement", r)
        /\ ProfileSettingsKnows(r) /\ (r.kind = "list" => r.col = 1 \/ r.arg = 0)
           => Known("ProfileSettings", r)
        /\ WebhookManagementKnows(r) => Known("WebhookManagement", r)
        /\ BackupManagementKnows(r) => Known("BackupManagement", r)
        /\ ScheduledTasksKnows(r) => Known("ScheduledTasks", r)
        /\ RuntimeStatusKnows(r) => Known("RuntimeStatus", r)
        /\ DashboardKnows(r) => Known("Dashboard", r)
        /\ CacheManagementKnows(r) => Known("CacheManagement", r)
        /\ RepositoryListKnows(r) => Known("RepositoryList", r)
        /\ RepositoryDetailKnows(r) => Known("RepositoryDetail", r)
        /\ DownloadLogsKnows(r) => Known("DownloadLogs", r)
        /\ AuditLogsKnows(r) => Known("AuditLogs", r)
        /\ SecurityCenterKnows(r) => Known("SecurityCenter", r)
        /\ VulnRuleManagementKnows(r) => Known("VulnRuleManagement", r)
        /\ BlockRuleListKnows(r) /\ (r.kind = "list" => r.col = 2 \/ r.arg \in {0, 3})
           => Known("BlockRuleList", r)
        /\ RiskAssessmentKnows(r) => Known("RiskAssessment", r)
        /\ PackageExplorerKnows(r) => Known("PackageExplorer", r)
        /\ FileBrowserKnows(r) => Known("FileBrowser", r)
        /\ PublicBrowseKnows(r) => Known("PublicBrowse", r)
BY DEF Known, Asks

----------------------------------------
(* Page by page: what it sends, its clicks, its answers *)

\* What UserManagement sends.
LEMMA UserManagementSends ==
    \A clears, u, i, v : LET p == "UserManagement" IN
        /\ Good(p, loadUsers(u)) /\ Fetches(loadUsers(u), 1) /\ Good(p, loadRoleOptions(u))
        /\ Good(p, Create("createUser", 1, clears))
        /\ Good(p, Update("toggleActive", 1, i, v, clears))
        /\ Good(p, Delete("handleDelete", 1, i, clears))
        /\ Good(p, Act("assignRoles", i, clears)) /\ Good(p, Act("resetPassword", i, clears))
<1>1. \A r : Sound(r) /\ Unsent(r) /\ UserManagementKnows(r) => Good("UserManagement", r)
    BY KnownToPage DEF Good
<1> QED
    BY <1>1, SoundRequests
       DEF Says, UserManagementKnows, SortOf, Writes, Collections, Fetches, ListOf,
           Rewrites, Chained, Patch, loadUsers, loadRoleOptions

\* The clicks on UserManagement.
LEMMA UserManagementClicks ==
    ASSUME CoreFor("UserManagement"), UNCHANGED <<db, excused>>, NEW e, NEW i,
           UserManagementDo(e, i)
    PROVE  CoreFor("UserManagement")'
BY Zenon, AnyClick, KeptEdits, UserManagementSends, FreshNone, FreshOne DEF UserManagementDo

\* The handlers of UserManagement, once their answers have come.
LEMMA UserManagementGoesOn ==
    ASSUME CoreFor("UserManagement"), NEW n \in DOMAIN calls, calls[n].st # "sent", UNCHANGED db,
           UserManagementBack(n)
    PROVE  CoreFor("UserManagement")'
<1>1. Sound(calls[n]) /\ UserManagementKnows(calls[n])
    BY AnyAnswer DEF Known
<1>2. /\ calls[n].op \in {"loadUsers", "loadRoleOptions"} => calls[n].kind = "list"
      /\ \A S : /\ ~Ok(n) => Owes(calls[n], S)
                /\ calls[n].op \in {"assignRoles", "resetPassword"} => Owes(calls[n], S)
                /\ Brings(S, 1) /\ calls[n].op \in {"createUser", "toggleActive", "handleDelete"}
                   => Owes(calls[n], S)
    BY <1>1 DEF UserManagementKnows, SortOf, Writes, Owes, Ok, Chained, Patch
<1> QED
    BY Zenon, <1>2, AnyAnswer, KeptEdits, ListedEdits, UserManagementSends, FreshNone, FreshOne
       DEF UserManagementBack, Op, Loaded, Failed

\* What RoleManagement sends.
LEMMA RoleManagementSends ==
    \A clears, u, i, v : LET p == "RoleManagement" IN
        /\ Good(p, loadRoles) /\ Fetches(loadRoles, 1)
        /\ Good(p, List("loadRoles", 1, u, clears))
        /\ Good(p, List("loadPermissions", 2, u, clears))
        /\ Good(p, Create("createRole", 1, clears)) /\ Good(p, Create("cloneRole", 1, clears))
        /\ Good(p, Update("updatePermissions", 1, i, v, clears))
        /\ Good(p, Delete("deleteRole", 1, i, clears))
<1>1. \A r : Sound(r) /\ Unsent(r) /\ RoleManagementKnows(r) => Good("RoleManagement", r)
    BY KnownToPage DEF Good
<1> QED
    BY <1>1, SoundRequests
       DEF Says, RoleManagementKnows, SortOf, Writes, Collections, Fetches, ListOf,
           Rewrites, Chained, Patch, loadRoles

\* The clicks on RoleManagement.
LEMMA RoleManagementClicks ==
    ASSUME CoreFor("RoleManagement"), UNCHANGED <<db, excused>>, NEW e, NEW i,
           RoleManagementDo(e, i)
    PROVE  CoreFor("RoleManagement")'
BY Zenon, AnyClick, KeptEdits, RoleManagementSends, FreshNone, FreshOne DEF RoleManagementDo

\* The handlers of RoleManagement, once their answers have come.
LEMMA RoleManagementGoesOn ==
    ASSUME CoreFor("RoleManagement"), NEW n \in DOMAIN calls, calls[n].st # "sent", UNCHANGED db,
           RoleManagementBack(n)
    PROVE  CoreFor("RoleManagement")'
<1>1. Sound(calls[n]) /\ RoleManagementKnows(calls[n])
    BY AnyAnswer DEF Known
<1>2. /\ calls[n].op \in {"loadRoles", "loadPermissions"} => calls[n].kind = "list"
      /\ \A S : /\ ~Ok(n) => Owes(calls[n], S)
                /\ Brings(S, 1) /\ calls[n].op \in {"createRole", "cloneRole", "updatePermissions", "deleteRole"}
                   => Owes(calls[n], S)
    BY <1>1 DEF RoleManagementKnows, SortOf, Writes, Owes, Ok, Chained, Patch
<1>3. ASSUME Ok(n),
             NEW own \in {<<"createRole", "create">>, <<"cloneRole", "clone">>,
                          <<"updatePermissions", "permissions">>},
             Op(n, {own[1]}), Then(n, IF InFront(own[2]) THEN Closed ELSE ui, <<loadRoles>>)
      PROVE  CoreFor("RoleManagement")'
    <2>1. calls[n].op \in {"createRole", "cloneRole", "updatePermissions"}
        BY <1>3 DEF Op
    <2>2. Keeps("RoleManagement", IF InFront(own[2]) THEN Closed ELSE ui)
        BY Zenon, AnyAnswer, KeptEdits
    <2>3. Fresh("RoleManagement", <<loadRoles>>) /\ Owes(calls[n], <<loadRoles>>)
        BY <1>2, <2>1, RoleManagementSends, FreshOne
    <2> QED BY <1>3, <2>2, <2>3, AnyAnswer
<1> QED
    BY Zenon, <1>2, <1>3, AnyAnswer, KeptEdits, ListedEdits, RoleManagementSends, FreshNone,
       FreshOne
       DEF RoleManagementBack, Op, Loaded, Failed

\* What WebhookManagement sends.
LEMMA WebhookManagementSends ==
    \A clears, u, i, v : LET p == "WebhookManagement" IN
        /\ Good(p, loadWebhooks(u, v)) /\ Fetches(loadWebhooks(u, v), 1)
        /\ Good(p, Create("submitWebhook", 1, clears))
        /\ Good(p, Update("submitWebhook", 1, i, v, clears))
        /\ Good(p, Act("testWebhook", i, clears))
        /\ Good(p, Get("showDeliveryDialog", 1, i, clears))
        /\ Good(p, Delete("handleDelete", 1, i, clears))
<1>1. \A r : Sound(r) /\ Unsent(r) /\ WebhookManagementKnows(r) => Good("WebhookManagement", r)
    BY KnownToPage DEF Good
<1> QED
    BY <1>1, SoundRequests
       DEF Says, WebhookManagementKnows, SortOf, Writes, Collections, Fetches, ListOf,
           Rewrites, Chained, Patch, loadWebhooks

\* The clicks on WebhookManagement.
LEMMA WebhookManagementClicks ==
    ASSUME CoreFor("WebhookManagement"), UNCHANGED <<db, excused>>, NEW e, NEW i,
           WebhookManagementDo(e, i)
    PROVE  CoreFor("WebhookManagement")'
BY Zenon, AnyClick, KeptEdits, WebhookManagementSends, FreshNone, FreshOne DEF WebhookManagementDo

\* The handlers of WebhookManagement, once their answers have come.
LEMMA WebhookManagementGoesOn ==
    ASSUME CoreFor("WebhookManagement"), NEW n \in DOMAIN calls, calls[n].st # "sent",
           UNCHANGED db,
           WebhookManagementBack(n)
    PROVE  CoreFor("WebhookManagement")'
<1>1. Sound(calls[n]) /\ WebhookManagementKnows(calls[n])
    BY AnyAnswer DEF Known
<1>2. /\ calls[n].op \in {"loadWebhooks"} => calls[n].kind = "list"
      /\ \A S : /\ ~Ok(n) => Owes(calls[n], S)
                /\ calls[n].op \in {"testWebhook", "showDeliveryDialog"} => Owes(calls[n], S)
                /\ Brings(S, 1) /\ calls[n].op \in {"submitWebhook", "handleDelete"}
                   => Owes(calls[n], S)
    BY <1>1 DEF WebhookManagementKnows, SortOf, Writes, Owes, Ok, Chained, Patch
<1> QED
    BY Zenon, <1>2, AnyAnswer, KeptEdits, ListedEdits, WebhookManagementSends, FreshNone, FreshOne
       DEF WebhookManagementBack, Op, Failed

\* What BackupManagement sends.
LEMMA BackupManagementSends ==
    \A clears, u, i, v : LET p == "BackupManagement" IN
        /\ Good(p, loadBackups(v)) /\ Fetches(loadBackups(v), 1)
        /\ Good(p, loadScheduleConfig(v)) /\ Fetches(loadScheduleConfig(v), 2)
        /\ Good(p, List("loadBackups", 1, u, clears))
        /\ Good(p, List("loadScheduleConfig", 2, u, clears))
        /\ Good(p, Create("createBackup", 1, clears)) /\ Good(p, Act("handleRestore", i, clears))
        /\ Good(p, Delete("handleDelete", 1, i, clears))
        /\ Good(p, Update("saveScheduleConfig", 2, i, v, clears))
<1>1. \A r : Sound(r) /\ Unsent(r) /\ BackupManagementKnows(r) => Good("BackupManagement", r)
    BY KnownToPage DEF Good
<1> QED
    BY <1>1, SoundRequests
       DEF Says, BackupManagementKnows, SortOf, Writes, Collections, Fetches, ListOf,
           Rewrites, Chained, Patch, loadBackups, loadScheduleConfig

\* The clicks on BackupManagement.
LEMMA BackupManagementClicks ==
    ASSUME CoreFor("BackupManagement"), UNCHANGED <<db, excused>>, NEW e, NEW i,
           BackupManagementDo(e, i)
    PROVE  CoreFor("BackupManagement")'
BY Zenon, AnyClick, KeptEdits, BackupManagementSends, FreshNone, FreshOne DEF BackupManagementDo

\* The handlers of BackupManagement, once their answers have come.
LEMMA BackupManagementGoesOn ==
    ASSUME CoreFor("BackupManagement"), NEW n \in DOMAIN calls, calls[n].st # "sent",
           UNCHANGED db,
           BackupManagementBack(n)
    PROVE  CoreFor("BackupManagement")'
<1>1. Sound(calls[n]) /\ BackupManagementKnows(calls[n])
    BY AnyAnswer DEF Known
<1>2. /\ calls[n].op \in {"loadBackups", "loadScheduleConfig"} => calls[n].kind = "list"
      /\ \A S : /\ ~Ok(n) => Owes(calls[n], S)
                /\ calls[n].op \in {"handleRestore"} => Owes(calls[n], S)
                /\ Brings(S, 1) /\ calls[n].op \in {"createBackup", "handleDelete"}
                   => Owes(calls[n], S)
                /\ Brings(S, 2) /\ calls[n].op \in {"saveScheduleConfig"} => Owes(calls[n], S)
    BY <1>1 DEF BackupManagementKnows, SortOf, Writes, Owes, Ok, Chained, Patch
<1> QED
    BY Zenon, <1>2, AnyAnswer, KeptEdits, ListedEdits, BackupManagementSends, FreshNone, FreshOne
       DEF BackupManagementBack, Op, Loaded, Failed

\* What ScheduledTasks sends.
LEMMA ScheduledTasksSends ==
    \A clears, u, i, v : LET p == "ScheduledTasks" IN
        /\ Good(p, loadTasks(v)) /\ Fetches(loadTasks(v), 1)
        /\ Good(p, List("load", 1, u, clears))
        /\ Good(p, Update("save", 1, i, v, clears))
        /\ Good(p, Act("saveInterval", i, clears)) /\ Good(p, Act("runNow", i, clears))
<1>1. \A r : Sound(r) /\ Unsent(r) /\ ScheduledTasksKnows(r) => Good("ScheduledTasks", r)
    BY KnownToPage DEF Good
<1> QED
    BY <1>1, SoundRequests
       DEF Says, ScheduledTasksKnows, SortOf, Writes, Collections, Fetches, ListOf,
           Rewrites, Chained, Patch, loadTasks

\* The clicks on ScheduledTasks.
LEMMA ScheduledTasksClicks ==
    ASSUME CoreFor("ScheduledTasks"), UNCHANGED <<db, excused>>, NEW e, NEW i,
           ScheduledTasksDo(e, i)
    PROVE  CoreFor("ScheduledTasks")'
BY Zenon, AnyClick, KeptEdits, ScheduledTasksSends, FreshNone, FreshOne DEF ScheduledTasksDo

\* The handlers of ScheduledTasks, once their answers have come.
LEMMA ScheduledTasksGoesOn ==
    ASSUME CoreFor("ScheduledTasks"), NEW n \in DOMAIN calls, calls[n].st # "sent", UNCHANGED db,
           ScheduledTasksBack(n)
    PROVE  CoreFor("ScheduledTasks")'
<1>1. Sound(calls[n]) /\ ScheduledTasksKnows(calls[n])
    BY AnyAnswer DEF Known
<1>2. /\ calls[n].op \in {"load"} => calls[n].kind = "list"
      /\ \A S : /\ ~Ok(n) => Owes(calls[n], S)
                /\ calls[n].op \in {"runNow"} => Owes(calls[n], S)
                /\ Brings(S, 1) /\ calls[n].op \in {"save", "saveInterval"} => Owes(calls[n], S)
    BY <1>1 DEF ScheduledTasksKnows, SortOf, Writes, Owes, Ok, Chained, Patch
<1>3. ASSUME Ok(n), NEW own \in {<<"save", "edit">>, <<"saveInterval", "interval">>},
             Op(n, {own[1]}), Then(n, IF InFront(own[2]) THEN Closed ELSE ui, <<loadTasks({"saving"})>>)
      PROVE  CoreFor("ScheduledTasks")'
    <2>1. calls[n].op \in {"save", "saveInterval"}
        BY <1>3 DEF Op
    <2>2. Keeps("ScheduledTasks", IF InFront(own[2]) THEN Closed ELSE ui)
        BY Zenon, AnyAnswer, KeptEdits
    <2>3. Fresh("ScheduledTasks", <<loadTasks({"saving"})>>) /\ Owes(calls[n], <<loadTasks({"saving"})>>)
        BY <1>2, <2>1, ScheduledTasksSends, FreshOne
    <2> QED BY <1>3, <2>2, <2>3, AnyAnswer
<1> QED
    BY Zenon, <1>2, <1>3, AnyAnswer, KeptEdits, ListedEdits, ScheduledTasksSends, FreshNone,
       FreshOne
       DEF ScheduledTasksBack, Op, Failed

\* What RuntimeStatus sends.
LEMMA RuntimeStatusSends ==
    \A clears, u, i, v : LET p == "RuntimeStatus" IN
        /\ Good(p, loadSystemInfo) /\ Good(p, loadConnections)
<1>1. \A r : Sound(r) /\ Unsent(r) /\ RuntimeStatusKnows(r) => Good("RuntimeStatus", r)
    BY KnownToPage DEF Good
<1> QED
    BY <1>1, SoundRequests
       DEF Says, RuntimeStatusKnows, SortOf, Writes, Collections, Fetches, ListOf,
           Rewrites, Chained, Patch, loadSystemInfo, loadConnections

\* The clicks on RuntimeStatus.
LEMMA RuntimeStatusClicks ==
    ASSUME CoreFor("RuntimeStatus"), UNCHANGED <<db, excused>>, NEW e, NEW i,
           RuntimeStatusDo(e, i)
    PROVE  CoreFor("RuntimeStatus")'
BY Zenon, AnyClick, KeptEdits, RuntimeStatusSends, FreshNone, FreshOne
   DEF RuntimeStatusDo, ConnectionsDo

\* The handlers of RuntimeStatus, once their answers have come.
LEMMA RuntimeStatusGoesOn ==
    ASSUME CoreFor("RuntimeStatus"), NEW n \in DOMAIN calls, calls[n].st # "sent", UNCHANGED db,
           RuntimeStatusBack(n)
    PROVE  CoreFor("RuntimeStatus")'
<1>1. Sound(calls[n]) /\ RuntimeStatusKnows(calls[n])
    BY AnyAnswer DEF Known
<1>2. /\ calls[n].kind = "list"
      /\ \A S : /\ ~Ok(n) => Owes(calls[n], S)
    BY <1>1 DEF RuntimeStatusKnows, SortOf, Writes, Owes, Ok, Chained, Patch
<1> QED
    BY Zenon, <1>2, AnyAnswer, KeptEdits, ListedEdits, RuntimeStatusSends, FreshNone, FreshOne
       DEF RuntimeStatusBack, Op, Loaded

\* What Dashboard sends.
LEMMA DashboardSends ==
    \A clears, u, i, v : LET p == "Dashboard" IN
        /\ Good(p, List("loadStats", 1, u, clears))
<1>1. \A r : Sound(r) /\ Unsent(r) /\ DashboardKnows(r) => Good("Dashboard", r)
    BY KnownToPage DEF Good
<1> QED
    BY <1>1, SoundRequests
       DEF Says, DashboardKnows, SortOf, Writes, Collections, Fetches, ListOf, Rewrites,
           Chained, Patch

\* The clicks on Dashboard.
LEMMA DashboardClicks ==
    ASSUME CoreFor("Dashboard"), UNCHANGED <<db, excused>>, NEW e, NEW i, DashboardDo(e, i)
    PROVE  CoreFor("Dashboard")'
BY Zenon, AnyClick, KeptEdits, DashboardSends, FreshNone, FreshOne DEF DashboardDo

\* The handlers of Dashboard, once their answers have come.
LEMMA DashboardGoesOn ==
    ASSUME CoreFor("Dashboard"), NEW n \in DOMAIN calls, calls[n].st # "sent", UNCHANGED db,
           DashboardBack(n)
    PROVE  CoreFor("Dashboard")'
<1>1. Sound(calls[n]) /\ DashboardKnows(calls[n])
    BY AnyAnswer DEF Known
<1>2. /\ calls[n].kind = "list"
      /\ \A S : /\ ~Ok(n) => Owes(calls[n], S)
    BY <1>1 DEF DashboardKnows, SortOf, Writes, Owes, Ok, Chained, Patch
<1> QED
    BY Zenon, <1>2, AnyAnswer, KeptEdits, ListedEdits, DashboardSends, FreshNone, FreshOne
       DEF DashboardBack, Op, Loaded

\* What CacheManagement sends.
LEMMA CacheManagementSends ==
    \A clears, u, i, v : LET p == "CacheManagement" IN
        /\ Good(p, loadItems(u, v)) /\ Fetches(loadItems(u, v), 1)
        /\ Good(p, loadStats(clears)) /\ Fetches(loadStats(clears), 1)
        /\ Good(p, Get("loadCacheList", 2, None, clears))
        /\ Good(p, Clear("handleClearCache", 1, v, clears))
        /\ Good(p, Clear("handleCleanupExpired", 1, v, clears))
        /\ Good(p, Evict("handleDeleteItem", 1, i, v, clears))
        /\ Good(p, Evict("handleInvalidate", 1, i, v, clears))
<1>1. \A r : Sound(r) /\ Unsent(r) /\ CacheManagementKnows(r) => Good("CacheManagement", r)
    BY KnownToPage DEF Good
<1> QED
    BY <1>1, SoundRequests
       DEF Says, CacheManagementKnows, SortOf, Writes, Collections, Fetches, ListOf,
           Rewrites, Chained, Patch, loadItems, loadStats

\* The clicks on CacheManagement.
LEMMA CacheManagementClicks ==
    ASSUME CoreFor("CacheManagement"), UNCHANGED <<db, excused>>, NEW e, NEW i,
           CacheManagementDo(e, i)
    PROVE  CoreFor("CacheManagement")'
<1>1. Keeps("CacheManagement", noneDeleting(ui))
    BY Zenon, AnyClick, KeptEdits DEF noneDeleting
<1> QED
    BY Zenon, <1>1, AnyClick, KeptEdits, CacheManagementSends, FreshNone, FreshOne
       DEF CacheManagementDo

\* The handlers of CacheManagement, once their answers have come.
LEMMA CacheManagementGoesOn ==
    ASSUME CoreFor("CacheManagement"), NEW n \in DOMAIN calls, calls[n].st # "sent", UNCHANGED db,
           CacheManagementBack(n)
    PROVE  CoreFor("CacheManagement")'
<1>1. Sound(calls[n]) /\ CacheManagementKnows(calls[n])
    BY AnyAnswer DEF Known
<1>2. /\ calls[n].op \in {"loadItems"} => calls[n].kind = "list"
      /\ \A S : /\ ~Ok(n) /\ calls[n].op # "loadStats" => Owes(calls[n], S)
                /\ calls[n].op \in {"loadCacheList"} => Owes(calls[n], S)
                /\ Brings(S, 1) /\ calls[n].op \in {"loadStats", "handleClearCache",
                                                    "handleDeleteItem", "handleCleanupExpired", "handleInvalidate"}
                   => Owes(calls[n], S)
    BY <1>1 DEF CacheManagementKnows, SortOf, Writes, Owes, Ok, Chained, Patch
<1>3. /\ Keeps("CacheManagement", deleteEnds(n, ui))
      /\ Lists("CacheManagement", n, deleteEnds(n, Listed(n)))
      /\ \A x, y : Keeps("CacheManagement", [ui EXCEPT !.sel = x, !.q = y])
    BY AnyAnswer, KeptEdits, ListedEdits DEF deleteEnds, noneDeleting, Keeps, RefsOK, Refs
<1> QED
    BY Zenon, <1>2, <1>3, AnyAnswer, KeptEdits, ListedEdits, CacheManagementSends, FreshNone,
       FreshOne
       DEF CacheManagementBack, Op

\* What RepositoryList sends.
LEMMA RepositoryListSends ==
    \A clears, u, i, v : LET p == "RepositoryList" IN
        /\ Good(p, loadRepos(u)) /\ Fetches(loadRepos(u), 1)
        /\ Good(p, Create("handleSubmit", 1, clears))
        /\ Good(p, Update("handleSubmit", 1, i, v, clears))
        /\ Good(p, Get("openEditDialog", 1, i, clears)) /\ Good(p, Act("toggle", i, clears))
        /\ Good(p, Delete("deleteRepo", 1, i, clears))
<1>1. \A r : Sound(r) /\ Unsent(r) /\ RepositoryListKnows(r) => Good("RepositoryList", r)
    BY KnownToPage DEF Good
<1> QED
    BY <1>1, SoundRequests
       DEF Says, RepositoryListKnows, SortOf, Writes, Collections, Fetches, ListOf,
           Rewrites, Chained, Patch, loadRepos

\* The clicks on RepositoryList.
LEMMA RepositoryListClicks ==
    ASSUME CoreFor("RepositoryList"), UNCHANGED <<db, excused>>, NEW e, NEW i,
           RepositoryListDo(e, i)
    PROVE  CoreFor("RepositoryList")'
BY Zenon, AnyClick, KeptEdits, RepositoryListSends, FreshNone, FreshOne
   DEF RepositoryListDo, RepositoryFormDo, VirtualMembersDo, formFor

\* The handlers of RepositoryList, once their answers have come.
LEMMA RepositoryListGoesOn ==
    ASSUME CoreFor("RepositoryList"), NEW n \in DOMAIN calls, calls[n].st # "sent", UNCHANGED db,
           RepositoryListBack(n)
    PROVE  CoreFor("RepositoryList")'
<1>1. Sound(calls[n]) /\ RepositoryListKnows(calls[n])
    BY AnyAnswer DEF Known
<1>2. /\ calls[n].op \in {"loadRepos"} => calls[n].kind = "list"
      /\ \A S : /\ ~Ok(n) => Owes(calls[n], S)
                /\ calls[n].op \in {"toggle", "openEditDialog"} => Owes(calls[n], S)
                /\ Brings(S, 1) /\ calls[n].op \in {"handleSubmit", "deleteRepo"}
                   => Owes(calls[n], S)
    BY <1>1 DEF RepositoryListKnows, SortOf, Writes, Owes, Ok, Chained, Patch
<1> QED
    BY Zenon, <1>2, AnyAnswer, KeptEdits, ListedEdits, RepositoryListSends, FreshNone, FreshOne
       DEF RepositoryListBack, Op, Loaded, Failed, formFor

\* What RepositoryDetail sends.
LEMMA RepositoryDetailSends ==
    \A clears, u, i, v : LET p == "RepositoryDetail" IN
        /\ Good(p, loadRepo) /\ Fetches(loadRepo, 1)
        /\ Good(p, loadMembers(clears)) /\ Fetches(loadMembers(clears), 2)
        /\ Good(p, loadAvailableRepos)
        /\ Good(p, Act("handleSubmit", i, clears)) /\ Good(p, Act("doMigrateCache", i, clears))
        /\ Good(p, Create("addMember", 2, clears))
        /\ Good(p, Delete("removeMember", 2, i, clears))
<1>1. \A r : Sound(r) /\ Unsent(r) /\ RepositoryDetailKnows(r) => Good("RepositoryDetail", r)
    BY KnownToPage DEF Good
<1> QED
    BY <1>1, SoundRequests
       DEF Says, RepositoryDetailKnows, SortOf, Writes, Collections, Fetches, ListOf,
           Rewrites, Chained, Patch, loadRepo, loadMembers, loadAvailableRepos, Blank

\* The clicks on RepositoryDetail.
LEMMA RepositoryDetailClicks ==
    ASSUME CoreFor("RepositoryDetail"), UNCHANGED <<db, excused>>, NEW e, NEW i,
           RepositoryDetailDo(e, i)
    PROVE  CoreFor("RepositoryDetail")'
BY Zenon, AnyClick, KeptEdits, RepositoryDetailSends, FreshNone, FreshOne DEF RepositoryDetailDo

\* The handlers of RepositoryDetail, once their answers have come.
LEMMA RepositoryDetailGoesOn ==
    ASSUME CoreFor("RepositoryDetail"), NEW n \in DOMAIN calls, calls[n].st # "sent",
           UNCHANGED db,
           RepositoryDetailBack(n)
    PROVE  CoreFor("RepositoryDetail")'
<1>1. Sound(calls[n]) /\ RepositoryDetailKnows(calls[n])
    BY AnyAnswer DEF Known
<1>2. /\ calls[n].op \in {"loadRepo", "loadMembers"} => calls[n].kind = "list"
      /\ \A S : /\ ~Ok(n) => Owes(calls[n], S)
                /\ calls[n].op \in {"loadAvailableRepos", "handleSubmit", "doMigrateCache"}
                   => Owes(calls[n], S)
                /\ Brings(S, 2) /\ calls[n].op \in {"addMember", "removeMember"}
                   => Owes(calls[n], S)
    BY <1>1 DEF RepositoryDetailKnows, SortOf, Writes, Owes, Ok, Chained, Patch
<1>3. \A x, y : Keeps("RepositoryDetail", [ui EXCEPT !.tab = x, !.box.data = y])
    BY AnyAnswer DEF Keeps, RefsOK, Refs
<1> QED
    BY Zenon, <1>2, <1>3, AnyAnswer, KeptEdits, ListedEdits, RepositoryDetailSends, FreshNone,
       FreshOne
       DEF RepositoryDetailBack, Op, Loaded, Failed

\* What DownloadLogs sends.
LEMMA DownloadLogsSends ==
    \A clears, u, i, v : LET p == "DownloadLogs" IN
        /\ Good(p, loadDownloadLogs(u)) /\ Good(p, List("loadLogs", 1, u, clears))
        /\ Fetches(List("loadLogs", 1, u, clears), 1)
        /\ Good(p, loadCleanupConfig(clears)) /\ Fetches(loadCleanupConfig(clears), 2)
        /\ Good(p, Act("loadRepositories", i, clears)) /\ Good(p, Act("loadStats", i, clears))
        /\ Good(p, Update("saveCleanupConfig", 2, i, v, clears))
        /\ Good(p, Clear("cleanupNow", 1, v, clears))
<1>1. \A r : Sound(r) /\ Unsent(r) /\ DownloadLogsKnows(r) => Good("DownloadLogs", r)
    BY KnownToPage DEF Good
<1> QED
    BY <1>1, SoundRequests
       DEF Says, DownloadLogsKnows, SortOf, Writes, Collections, Fetches, ListOf,
           Rewrites, Chained, Patch, loadDownloadLogs, loadCleanupConfig

\* The clicks on DownloadLogs.
LEMMA DownloadLogsClicks ==
    ASSUME CoreFor("DownloadLogs"), UNCHANGED <<db, excused>>, NEW e, NEW i, DownloadLogsDo(e, i)
    PROVE  CoreFor("DownloadLogs")'
BY Zenon, AnyClick, KeptEdits, DownloadLogsSends, FreshNone, FreshOne DEF DownloadLogsDo

\* The handlers of DownloadLogs, once their answers have come.
LEMMA DownloadLogsGoesOn ==
    ASSUME CoreFor("DownloadLogs"), NEW n \in DOMAIN calls, calls[n].st # "sent", UNCHANGED db,
           DownloadLogsBack(n)
    PROVE  CoreFor("DownloadLogs")'
<1>1. Sound(calls[n]) /\ DownloadLogsKnows(calls[n])
    BY AnyAnswer DEF Known
<1>2. /\ calls[n].op \in {"loadLogs", "loadCleanupConfig"} => calls[n].kind = "list"
      /\ \A S : /\ ~Ok(n) => Owes(calls[n], S)
                /\ calls[n].op \in {"loadRepositories", "loadStats"} => Owes(calls[n], S)
                /\ Brings(S, 1) /\ calls[n].op \in {"cleanupNow"} => Owes(calls[n], S)
                /\ Brings(S, 2) /\ calls[n].op \in {"saveCleanupConfig"} => Owes(calls[n], S)
    BY <1>1 DEF DownloadLogsKnows, SortOf, Writes, Owes, Ok, Chained, Patch
<1> QED
    BY Zenon, <1>2, AnyAnswer, KeptEdits, ListedEdits, DownloadLogsSends, FreshNone, FreshOne
       DEF DownloadLogsBack, Op, Loaded, Failed

\* What AuditLogs sends.
LEMMA AuditLogsSends ==
    \A clears, u, i, v : LET p == "AuditLogs" IN
        /\ Good(p, loadAuditLogs(u))
<1>1. \A r : Sound(r) /\ Unsent(r) /\ AuditLogsKnows(r) => Good("AuditLogs", r)
    BY KnownToPage DEF Good
<1> QED
    BY <1>1, SoundRequests
       DEF Says, AuditLogsKnows, SortOf, Writes, Collections, Fetches, ListOf, Rewrites,
           Chained, Patch, loadAuditLogs

\* The clicks on AuditLogs.
LEMMA AuditLogsClicks ==
    ASSUME CoreFor("AuditLogs"), UNCHANGED <<db, excused>>, NEW e, NEW i, AuditLogsDo(e, i)
    PROVE  CoreFor("AuditLogs")'
BY Zenon, AnyClick, KeptEdits, AuditLogsSends, FreshNone, FreshOne DEF AuditLogsDo

\* The handlers of AuditLogs, once their answers have come.
LEMMA AuditLogsGoesOn ==
    ASSUME CoreFor("AuditLogs"), NEW n \in DOMAIN calls, calls[n].st # "sent", UNCHANGED db,
           AuditLogsBack(n)
    PROVE  CoreFor("AuditLogs")'
<1>1. Sound(calls[n]) /\ AuditLogsKnows(calls[n])
    BY AnyAnswer DEF Known
<1>2. /\ calls[n].kind = "list"
      /\ \A S : /\ ~Ok(n) => Owes(calls[n], S)
    BY <1>1 DEF AuditLogsKnows, SortOf, Writes, Owes, Ok, Chained, Patch
<1> QED
    BY Zenon, <1>2, AnyAnswer, KeptEdits, ListedEdits, AuditLogsSends, FreshNone, FreshOne
       DEF AuditLogsBack, Op, Loaded

\* What SecurityCenter sends.
LEMMA SecurityCenterSends ==
    \A clears, u, i, v : LET p == "SecurityCenter" IN
        /\ Good(p, loadVulnerabilities(u)) /\ Good(p, loadScanResults(u))
        /\ Good(p, Act("loadStats", i, clears)) /\ Good(p, Act("triggerFullScan", i, clears))
        /\ Good(p, Act("blockCVE", i, clears))
<1>1. \A r : Sound(r) /\ Unsent(r) /\ SecurityCenterKnows(r) => Good("SecurityCenter", r)
    BY KnownToPage DEF Good
<1> QED
    BY <1>1, SoundRequests
       DEF Says, SecurityCenterKnows, SortOf, Writes, Collections, Fetches, ListOf,
           Rewrites, Chained, Patch, loadVulnerabilities, loadScanResults

\* The clicks on SecurityCenter.
LEMMA SecurityCenterClicks ==
    ASSUME CoreFor("SecurityCenter"), UNCHANGED <<db, excused>>, NEW e, NEW i,
           SecurityCenterDo(e, i)
    PROVE  CoreFor("SecurityCenter")'
BY Zenon, AnyClick, KeptEdits, SecurityCenterSends, FreshNone, FreshOne DEF SecurityCenterDo

\* The handlers of SecurityCenter, once their answers have come.
LEMMA SecurityCenterGoesOn ==
    ASSUME CoreFor("SecurityCenter"), NEW n \in DOMAIN calls, calls[n].st # "sent", UNCHANGED db,
           SecurityCenterBack(n)
    PROVE  CoreFor("SecurityCenter")'
<1>1. Sound(calls[n]) /\ SecurityCenterKnows(calls[n])
    BY AnyAnswer DEF Known
<1>2. /\ calls[n].op \in {"loadVulnerabilities", "loadScanResults"} => calls[n].kind = "list"
      /\ \A S : /\ ~Ok(n) => Owes(calls[n], S)
                /\ calls[n].op \in {"loadStats", "triggerFullScan", "blockCVE"}
                   => Owes(calls[n], S)
    BY <1>1 DEF SecurityCenterKnows, SortOf, Writes, Owes, Ok, Chained, Patch
<1> QED
    BY Zenon, <1>2, AnyAnswer, KeptEdits, ListedEdits, SecurityCenterSends, FreshNone, FreshOne
       DEF SecurityCenterBack, Op, Failed

\* What VulnRuleManagement sends.
LEMMA VulnRuleManagementSends ==
    \A clears, u, i, v : LET p == "VulnRuleManagement" IN
        /\ Good(p, loadRules(u)) /\ Fetches(loadRules(u), 1)
        /\ Good(p, loadDataSources) /\ Fetches(loadDataSources, 2)
        /\ Good(p, Create("saveRule", 1, clears)) /\ Good(p, Update("saveRule", 1, i, v, clears))
        /\ Good(p, Create("importRules", 1, clears))
        /\ Good(p, Create("saveDataSource", 2, clears))
        /\ Good(p, Update("saveDataSource", 2, i, v, clears))
        /\ Good(p, Delete("deleteRule", 1, i, clears))
        /\ Good(p, Delete("deleteDataSource", 2, i, clears))
        /\ Good(p, Update("syncDataSource", 2, i, v, clears))
        /\ Good(p, Save("syncAll", 2, v, clears)) /\ Good(p, Act("testDataSource", i, clears))
<1>1. \A r : Sound(r) /\ Unsent(r) /\ VulnRuleManagementKnows(r) => Good("VulnRuleManagement", r)
    BY KnownToPage DEF Good
<1> QED
    BY <1>1, SoundRequests
       DEF Says, VulnRuleManagementKnows, SortOf, Writes, Collections, Fetches, ListOf,
           Rewrites, Chained, Patch, loadRules, loadDataSources

\* The clicks on VulnRuleManagement.
LEMMA VulnRuleManagementClicks ==
    ASSUME CoreFor("VulnRuleManagement"), UNCHANGED <<db, excused>>, NEW e, NEW i,
           VulnRuleManagementDo(e, i)
    PROVE  CoreFor("VulnRuleManagement")'
BY Zenon, AnyClick, KeptEdits, VulnRuleManagementSends, FreshNone, FreshOne
   DEF VulnRuleManagementDo, VulnRuleSubmit

\* The handlers of VulnRuleManagement, once their answers have come.
LEMMA VulnRuleManagementGoesOn ==
    ASSUME CoreFor("VulnRuleManagement"), NEW n \in DOMAIN calls, calls[n].st # "sent",
           UNCHANGED db,
           VulnRuleManagementBack(n)
    PROVE  CoreFor("VulnRuleManagement")'
<1>1. Sound(calls[n]) /\ VulnRuleManagementKnows(calls[n])
    BY AnyAnswer DEF Known
<1>2. /\ calls[n].op \in {"loadRules", "loadDataSources"} => calls[n].kind = "list"
      /\ \A S : /\ ~Ok(n) => Owes(calls[n], S)
                /\ calls[n].op \in {"testDataSource"} => Owes(calls[n], S)
                /\ Brings(S, 1) /\ calls[n].op \in {"saveRule", "importRules", "deleteRule"}
                   => Owes(calls[n], S)
                /\ Brings(S, 2) /\ calls[n].op \in {"saveDataSource", "deleteDataSource",
                                                    "syncDataSource", "syncAll"}
                   => Owes(calls[n], S)
    BY <1>1 DEF VulnRuleManagementKnows, SortOf, Writes, Owes, Ok, Chained, Patch
<1> QED
    BY Zenon, <1>2, AnyAnswer, KeptEdits, ListedEdits, VulnRuleManagementSends, FreshNone, FreshOne
       DEF VulnRuleManagementBack, Op, Failed

\* What RiskAssessment sends.
LEMMA RiskAssessmentSends ==
    \A clears, u, i, v : LET p == "RiskAssessment" IN
        /\ Good(p, loadHistory(u)) /\ Fetches(loadHistory(u), 1)
        /\ Good(p, Create("runAssessment", 1, clears)) /\ Good(p, Create("analyze", 1, clears))
        /\ Good(p, Act("aiParseFile", i, clears)) /\ Good(p, Act("act", i, clears))
        /\ Good(p, Get("openAIReport", 1, i, clears)) /\ Good(p, Get("viewDetail", 1, i, clears))
        /\ Good(p, Update("dispose", 1, i, v, clears))
        /\ Good(p, Delete("removeHistory", 1, i, clears))
<1>1. \A r : Sound(r) /\ Unsent(r) /\ RiskAssessmentKnows(r) => Good("RiskAssessment", r)
    BY KnownToPage DEF Good
<1> QED
    BY <1>1, SoundRequests
       DEF Says, RiskAssessmentKnows, SortOf, Writes, Collections, Fetches, ListOf,
           Rewrites, Chained, Patch, loadHistory

\* The clicks on RiskAssessment.
LEMMA RiskAssessmentClicks ==
    ASSUME CoreFor("RiskAssessment"), UNCHANGED <<db, excused>>, NEW e, NEW i,
           RiskAssessmentDo(e, i)
    PROVE  CoreFor("RiskAssessment")'
BY Zenon, AnyClick, KeptEdits, RiskAssessmentSends, FreshNone, FreshOne DEF RiskAssessmentDo

\* The handlers of RiskAssessment, once their answers have come.
LEMMA RiskAssessmentGoesOn ==
    ASSUME CoreFor("RiskAssessment"), NEW n \in DOMAIN calls, calls[n].st # "sent", UNCHANGED db,
           RiskAssessmentBack(n)
    PROVE  CoreFor("RiskAssessment")'
<1>1. Sound(calls[n]) /\ RiskAssessmentKnows(calls[n])
    BY AnyAnswer DEF Known
<1>2. /\ calls[n].op \in {"loadHistory"} => calls[n].kind = "list"
      /\ \A S : /\ ~Ok(n) => Owes(calls[n], S)
                /\ calls[n].op \in {"aiParseFile", "openAIReport", "viewDetail", "act"}
                   => Owes(calls[n], S)
                /\ Brings(S, 1) /\ calls[n].op \in {"runAssessment", "analyze", "dispose", "removeHistory"}
                   => Owes(calls[n], S)
    BY <1>1 DEF RiskAssessmentKnows, SortOf, Writes, Owes, Ok, Chained, Patch
<1>3. /\ \A j, v : /\ Keeps("RiskAssessment", Current(j, v))
                   /\ Keeps("RiskAssessment", [Current(j, v) EXCEPT !.tab = 1])
      /\ \A j, v : Keeps("RiskAssessment", [ui EXCEPT !.form[j] = v])
    BY AnyAnswer DEF Keeps, RefsOK, Refs, Current
<1> QED
    BY Zenon, <1>2, <1>3, AnyAnswer, KeptEdits, ListedEdits, RiskAssessmentSends, FreshNone,
       FreshOne
       DEF RiskAssessmentBack, Op, Failed

\* What FileBrowser sends.
LEMMA FileBrowserSends ==
    \A clears, u, i, v : LET p == "FileBrowser" IN
        /\ Good(p, loadDirectory(u, v)) /\ Good(p, Act("loadBackends", i, clears))
        /\ Good(p, Act("downloadFile", i, clears))
<1>1. \A r : Sound(r) /\ Unsent(r) /\ FileBrowserKnows(r) => Good("FileBrowser", r)
    BY KnownToPage DEF Good
<1> QED
    BY <1>1, SoundRequests
       DEF Says, FileBrowserKnows, SortOf, Writes, Collections, Fetches, ListOf, Rewrites,
           Chained, Patch, loadDirectory

\* The clicks on FileBrowser.
LEMMA FileBrowserClicks ==
    ASSUME CoreFor("FileBrowser"), UNCHANGED <<db, excused>>, NEW e, NEW i, FileBrowserDo(e, i)
    PROVE  CoreFor("FileBrowser")'
BY Zenon, AnyClick, KeptEdits, FileBrowserSends, FreshNone, FreshOne DEF FileBrowserDo

\* The handlers of FileBrowser, once their answers have come.
LEMMA FileBrowserGoesOn ==
    ASSUME CoreFor("FileBrowser"), NEW n \in DOMAIN calls, calls[n].st # "sent", UNCHANGED db,
           FileBrowserBack(n)
    PROVE  CoreFor("FileBrowser")'
<1>1. Sound(calls[n]) /\ FileBrowserKnows(calls[n])
    BY AnyAnswer DEF Known
<1>2. /\ calls[n].op \in {"loadDirectory"} => calls[n].kind = "list"
      /\ \A S : /\ ~Ok(n) => Owes(calls[n], S)
                /\ calls[n].op \in {"loadBackends", "downloadFile"} => Owes(calls[n], S)
    BY <1>1 DEF FileBrowserKnows, SortOf, Writes, Owes, Ok, Chained, Patch
<1> QED
    BY Zenon, <1>2, AnyAnswer, KeptEdits, ListedEdits, FileBrowserSends, FreshNone, FreshOne
       DEF FileBrowserBack, Op, Failed

\* What ProfileSettings sends.
LEMMA ProfileSettingsSends ==
    \A clears, u, i, v : LET p == "ProfileSettings" IN
        /\ Good(p, loadTokens) /\ Fetches(loadTokens, 1)
        /\ Good(p, List("loadTokens", 1, u, clears))
        /\ Good(p, List("loadProfile", 2, Blank, clears))
        /\ Good(p, Create("createToken", 1, clears))
        /\ Good(p, Delete("deleteToken", 1, i, clears))
        /\ Good(p, Act("changePassword", i, clears))
        /\ Good(p, Update("saveProfile", 2, Protected, filled(v), clears))
<1>1. \A r : Sound(r) /\ Unsent(r) /\ ProfileSettingsKnows(r)
        /\ (r.kind = "list" => r.col = 1 \/ r.arg = 0) => Good("ProfileSettings", r)
    BY KnownToPage DEF Good
<1>2. \A v, clears : LET r == Update("saveProfile", 2, Protected, filled(v), clears)
                     IN  Sound(r) /\ Says(r, "update", "saveProfile", 2, Protected, filled(v))
    BY KitAssumption
       DEF Sound, Says, Unsent, Update, Request, filled, Fields, Patch, Kinds, Collections
<1> QED
    BY <1>1, <1>2, SoundRequests
       DEF Says, ProfileSettingsKnows, SortOf, Writes, Collections, Fetches, ListOf,
           Rewrites, Chained, Patch, loadTokens, Blank

\* The clicks on ProfileSettings.
LEMMA ProfileSettingsClicks ==
    ASSUME CoreFor("ProfileSettings"), UNCHANGED <<db, excused>>, NEW e, NEW i,
           ProfileSettingsDo(e, i)
    PROVE  CoreFor("ProfileSettings")'
<1>1. \A v : Keeps("ProfileSettings", [ui EXCEPT !.form[Protected] = v])
    BY AnyClick DEF Keeps, RefsOK, Refs
<1> QED
    BY Zenon, <1>1, AnyClick, KeptEdits, ProfileSettingsSends, FreshNone, FreshOne
       DEF ProfileSettingsDo

\* The handlers of ProfileSettings, once their answers have come.
LEMMA ProfileSettingsGoesOn ==
    ASSUME CoreFor("ProfileSettings"), NEW n \in DOMAIN calls, calls[n].st # "sent", UNCHANGED db,
           ProfileSettingsBack(n)
    PROVE  CoreFor("ProfileSettings")'
<1>1. Sound(calls[n]) /\ ProfileSettingsKnows(calls[n])
    BY AnyAnswer DEF Known
<1>2. /\ calls[n].op \in {"loadTokens", "loadProfile"} => calls[n].kind = "list"
      /\ \A S : /\ ~Ok(n) => Owes(calls[n], S)
                /\ calls[n].op \in {"changePassword"} => Owes(calls[n], S)
                /\ Brings(S, 1) /\ calls[n].op \in {"createToken", "deleteToken"}
                   => Owes(calls[n], S)
    BY <1>1 DEF ProfileSettingsKnows, SortOf, Writes, Owes, Ok, Chained, Patch
<1>3. ASSUME Op(n, {"saveProfile"}), Ok(n),
             Then(n, [ui EXCEPT !.rows[2][Protected] = calls[n].reply], <<>>)
      PROVE  CoreFor("ProfileSettings")'
    <2> DEFINE u == [ui EXCEPT !.rows[2][Protected] = calls[n].reply]
               r == calls[n]
    <2>1. /\ r.kind = "update" /\ r.op = "saveProfile" /\ r.col = 2
          /\ r.item = Protected /\ r.reply = r.arg
        BY <1>1, <1>3 DEF ProfileSettingsKnows, SortOf, Writes, Op, Ok, Sound, Patch
    <2>2. /\ DOMAIN u = Refs /\ u.asked = ui.asked /\ u.rows[1] = ui.rows[1]
          /\ DOMAIN u.rows = Collections
          /\ u.rows[2] = [ui.rows[2] EXCEPT ![Protected] = r.reply]
        BY AnyAnswer DEF RefsOK, Refs, Collections
    <2> HIDE DEF u
    <2>3. RefsOK("ProfileSettings", u)
        BY <2>2, AnyAnswer DEF RefsOK
    <2>4. ui.asked[2] \in {0, None}
        BY AnyAnswer DEF RefsOK, Asks, Collections
    <2>5. Handled(n, u, <<>>)
        BY <2>1, <2>2, <2>4 DEF Handled, Made, Patch, Chained, Collections, Writes
    <2> QED BY <1>3, <2>3, <2>5, FreshNone, ThenSettles DEF u
<1> QED
    BY Zenon, <1>2, <1>3, AnyAnswer, KeptEdits, ListedEdits, ProfileSettingsSends, FreshNone,
       FreshOne
       DEF ProfileSettingsBack, Op, Loaded, Failed

\* What BlockRuleList sends.
LEMMA BlockRuleListSends ==
    \A clears, u, i, v : LET p == "BlockRuleList" IN
        /\ (u.q \in {0, 3} => Good(p, loadBlockRules(u))) /\ Fetches(loadBlockRules(u), 1)
        /\ Good(p, loadBlockLogs(u)) /\ Good(p, Act("handleDownloadTemplate", i, clears))
        /\ Good(p, Act("handleGenerate", i, clears)) /\ Good(p, Act("handleAnalyze", i, clears))
        /\ Good(p, Create("handleBatchImport", 1, clears))
        /\ Good(p, Create("handleSubmit", 1, clears))
        /\ Good(p, Update("handleSubmit", 1, i, v, clears))
        /\ Good(p, Delete("deleteRule", 1, i, clears))
        /\ Good(p, Save("batch", 1, v, clears)) /\ Good(p, Purge("batch", 1, v, clears))
        /\ (v.done \in Nat => Good(p, Draft(v, clears))) /\ Fetches(Draft(v, clears), 1)
        /\ (i \in Items /\ v # 0) => Good(p, Update("toggleEnabled", 1, i, v, clears))
<1>1. \A r : Sound(r) /\ Unsent(r) /\ BlockRuleListKnows(r)
        /\ (r.kind = "list" => r.col = 2 \/ r.arg \in {0, 3}) => Good("BlockRuleList", r)
    BY KnownToPage DEF Good
<1>2. \A i, v, clears : i \in Items /\ v # 0 =>
            LET r == Update("toggleEnabled", 1, i, v, clears)
            IN  Sound(r) /\ Says(r, "update", "toggleEnabled", 1, i, v)
    BY DEF Sound, Says, Unsent, Update, Request, Fields, Patch, Kinds, Collections
<1> QED
    BY <1>1, <1>2, SoundRequests
       DEF Says, BlockRuleListKnows, SortOf, Writes, Collections, Fetches, ListOf,
           Rewrites, Chained, Patch, loadBlockRules, loadBlockLogs, Draft

\* The clicks on BlockRuleList.
LEMMA BlockRuleListClicks ==
    ASSUME CoreFor("BlockRuleList"), UNCHANGED <<db, excused>>, NEW e, NEW i,
           e = "toggle" => i \in Items,
           BlockRuleListDo(e, i)
    PROVE  CoreFor("BlockRuleList")'
<1>1. /\ \A x \in {0, 3} : Keeps("BlockRuleList", Searched(ui, x)) /\ Searched(ui, x).q = x
      /\ ui.q \in {0, 3} /\ 3 - ui.q \in {0, 3}
      /\ \A x \in {0, 3} : [ui EXCEPT !.q = x].q = x
    BY AnyClick DEF Keeps, RefsOK, Refs, Searched
<1>2. /\ Keeps("BlockRuleList", handleClose)
      /\ \A x, y, z : Keeps("BlockRuleList", [Opened(x, None, 0) EXCEPT !.mode = y, !.form = z])
      /\ \A x, y : Keeps("BlockRuleList", [ui EXCEPT !.box.data = x, !.form = y])
    BY AnyClick DEF Keeps, RefsOK, Refs, handleClose, Opened, Closed
<1>3. /\ \A v : flip(v) # 0
      /\ \A S : [left |-> S, done |-> 0, failed |-> 0].done \in Nat
    BY DEF flip
<1>4. CASE BlockRuleFormDo(e) \/ BlockRuleImportDo(e)
    BY Zenon, <1>4, AnyClick, KeptEdits, BlockRuleListSends, FreshNone, FreshOne
       DEF BlockRuleFormDo, BlockRuleImportDo
<1>5. CASE BlockRuleAIDo(e)
    BY Zenon, <1>2, <1>3, <1>5, AnyClick, KeptEdits, BlockRuleListSends, FreshNone, FreshOne
       DEF BlockRuleAIDo
<1>6. CASE \/ e = "search" /\ \E q \in {0, 3} :
                 LET u == Searched(ui, q) IN Do(u, <<loadBlockRules(u)>>)
           \/ e = "page" /\ LET u == [ui EXCEPT !.q = 3 - @] IN Do(u, <<loadBlockRules(u)>>)
           \/ e = "toggle"
              /\ Do(ui, <<Update("toggleEnabled", 1, i, flip(ui.rows[1][i]), {})>>)
    BY Zenon, <1>1, <1>3, <1>6, AnyClick, KeptEdits, BlockRuleListSends, FreshOne
<1>7. CASE ~(BlockRuleFormDo(e) \/ BlockRuleImportDo(e) \/ BlockRuleAIDo(e))
           /\ e \notin {"search", "page", "toggle"}
    BY Zenon, <1>7, AnyClick, KeptEdits, BlockRuleListSends, FreshNone, FreshOne DEF BlockRuleListDo
<1> QED BY <1>4, <1>5, <1>6, <1>7 DEF BlockRuleListDo

\* The handlers of BlockRuleList, once their answers have come.
LEMMA BlockRuleListGoesOn ==
    ASSUME CoreFor("BlockRuleList"), NEW n \in DOMAIN calls, calls[n].st # "sent", UNCHANGED db,
           BlockRuleListBack(n)
    PROVE  CoreFor("BlockRuleList")'
<1>1. Sound(calls[n]) /\ BlockRuleListKnows(calls[n])
    BY AnyAnswer DEF Known
<1>2. /\ calls[n].op \in {"loadRules", "loadLogs"} => calls[n].kind = "list"
      /\ \A S : /\ ~Ok(n) => Owes(calls[n], S)
                /\ calls[n].op \in {"handleDownloadTemplate", "handleGenerate", "handleAnalyze"}
                   => Owes(calls[n], S)
                /\ Brings(S, 1) /\ calls[n].op \in {"batch", "deleteRule", "handleSubmit",
                                                    "handleBatchImport", "handleCreateSelected"}
                   => Owes(calls[n], S)
    BY <1>1 DEF BlockRuleListKnows, SortOf, Writes, Owes, Ok, Chained, Patch
<1>3. ASSUME Op(n, {"toggleEnabled"}), Ok(n), NEW u, Then(n, u, <<>>),
             u = IF calls[n].held /\ ui.rows[1][calls[n].item] # 0
                 THEN [ui EXCEPT !.rows[1][calls[n].item] = calls[n].arg] ELSE ui
      PROVE  CoreFor("BlockRuleList")'
    <2> DEFINE r == calls[n]
    <2>1. r.kind = "update" /\ r.op = "toggleEnabled" /\ r.col = 1
        BY <1>1, <1>3 DEF BlockRuleListKnows, SortOf, Op
    <2>2. CASE r.held /\ ui.rows[1][r.item] # 0
        <3>1. /\ DOMAIN u = Refs /\ u.asked = ui.asked /\ u.rows[2] = ui.rows[2]
              /\ DOMAIN u.rows = Collections /\ u.q = ui.q
              /\ u.rows[1] = [ui.rows[1] EXCEPT ![r.item] = r.arg]
            BY <1>3, <2>2, AnyAnswer DEF RefsOK, Refs, Collections
        <3>2. RefsOK("BlockRuleList", u)
            BY <3>1, AnyAnswer DEF RefsOK
        <3>3. Handled(n, u, <<>>)
            BY <2>1, <2>2, <3>1 DEF Handled, Made, Patch, Chained, Collections, Writes
        <3> QED BY <1>3, <3>2, <3>3, FreshNone, ThenSettles
    <2>3. CASE ~(r.held /\ ui.rows[1][r.item] # 0)
        <3>1. u = ui
            BY <1>3, <2>3
        <3>2. Handled(n, u, <<>>)
            BY <2>1, <2>3, <3>1 DEF Handled, Made, Patch, Chained, Writes
        <3> QED BY <1>3, <3>1, <3>2, AnyAnswer, FreshNone, ThenSettles
    <2> QED BY <2>2, <2>3
<1>4. ASSUME Op(n, {"handleCreateSelected"}), CreatedOne(n)
      PROVE  CoreFor("BlockRuleList")'
    <2> DEFINE d == calls[n].item
               j == CHOOSE x \in d.left : TRUE
               left == d.left \ {j}
               done == IF Ok(n) THEN d.done + 1 ELSE d.done
               failed == IF Ok(n) THEN d.failed ELSE d.failed + 1
               u == IF Ok(n) /\ ui.form[j] = 2 THEN [ui EXCEPT !.form[j] = 1] ELSE ui
               rest == [left |-> left, done |-> done, failed |-> failed]
    <2>1. calls[n].op = "handleCreateSelected" /\ d.done \in Nat
        BY <1>1, <1>4 DEF BlockRuleListKnows, Op
    <2>2. done \in Nat /\ rest.done = done /\ (Ok(n) => done > 0)
        BY <2>1
    <2>3. /\ Keeps("BlockRuleList", u) /\ u.q \in {0, 3}
          /\ Keeps("BlockRuleList", [u EXCEPT !.box = NoDialog, !.form = NoRows])
        BY AnyAnswer DEF Keeps, RefsOK, Refs
    <2>4. \/ Then(n, u, <<Draft(rest, calls[n].clears)>>)
          \/ \E w \in {u, [u EXCEPT !.box = NoDialog, !.form = NoRows]} :
                Then(n, w, IF done > 0 THEN <<loadBlockRules(u)>> ELSE <<>>)
        BY <1>4 DEF CreatedOne
    <2> HIDE DEF d, done, rest, u
    <2>5. /\ Fresh("BlockRuleList", <<Draft(rest, calls[n].clears)>>)
          /\ Owes(calls[n], <<Draft(rest, calls[n].clears)>>)
        BY <1>2, <2>1, <2>2, BlockRuleListSends, FreshOne
    <2>6. CASE done > 0
        <3>1. Fresh("BlockRuleList", <<loadBlockRules(u)>>) /\ Owes(calls[n], <<loadBlockRules(u)>>)
            BY <1>2, <2>1, <2>3, BlockRuleListSends, FreshOne
        <3> QED BY <2>3, <2>4, <2>5, <2>6, <3>1, AnyAnswer
    <2>7. CASE ~(done > 0)
        <3>1. Owes(calls[n], <<>>)
            BY <1>2, <2>2, <2>7
        <3> QED BY <2>3, <2>4, <2>5, <2>7, <3>1, FreshNone, AnyAnswer
    <2> QED BY <2>6, <2>7
<1>5. /\ ui.q \in {0, 3} /\ [ui EXCEPT !.sel = {}].q \in {0, 3}
    BY AnyAnswer DEF RefsOK, Refs
<1> QED
    BY Zenon, <1>2, <1>3, <1>4, <1>5, AnyAnswer, KeptEdits, ListedEdits, BlockRuleListSends,
       FreshNone, FreshOne
       DEF BlockRuleListBack, Op, Failed, BlockRuleImportBack, BlockRuleAIBack, extractDrafts

\* What changes in the explorer's refs when the query does.
LEMMA QueryEdits ==
    ASSUME NEW p, p # "BlockRuleList", RefsOK(p, ui)
    PROVE  /\ \A t : /\ Keeps(p, setText(t)) /\ Keeps(p, Silent(setText(t)))
                     /\ Keeps(p, [setText(t) EXCEPT !.timers = {"debounce"}])
           /\ \A t : Keeps(p, setPage(t))
           /\ Keeps(p, resized) /\ Keeps(p, Silent(ui))
           /\ \A k : Keeps(p, Silent(Opened(k, None, 0)))
BY DEF RefsOK, Keeps, Refs, setText, setPage, resized, Silent, Opened

\* The search bar and the pager, of the explorer and of its public face.
LEMMA SearchBarClicks ==
    ASSUME NEW p, p # "BlockRuleList", CoreFor(p), UNCHANGED <<db, excused>>,
           \A u : Good(p, search(u, "search")), NEW e,
           \/ PackageSearchBarDo(e) \/ handleKeydown(e)
           \/ Do(setPage(2), <<search(setPage(2), "search")>>)
           \/ Do(setPage(1), <<search(setPage(1), "search")>>)
           \/ Do(resized, <<search(resized, "search"), search(resized, "search")>>)
           \/ \E t \in {0, 3} : Do(setText(t), <<search(setText(t), "search")>>)
    PROVE  CoreFor(p)'
BY Zenon, AnyClick, KeptEdits, QueryEdits, FreshNone, FreshOne, FreshTwo
   DEF PackageSearchBarDo, handleKeydown

\* A list that could not be loaded, and is emptied.
LEMMA ListCleared ==
    ASSUME NEW p, CoreFor(p), NEW n \in DOMAIN calls, calls[n].st # "sent", UNCHANGED db,
           calls[n].kind = "list", ~Ok(n), NEW u, NEW S, Fresh(p, S), Then(n, u, S),
           DOMAIN u = Refs, p = "BlockRuleList" => u.q \in {0, 3},
           u.rows = [ui.rows EXCEPT ![calls[n].col] = NoRows],
           u.asked = [ui.asked EXCEPT ![calls[n].col] = None]
    PROVE  CoreFor(p)'
<1>1. RefsOK(p, ui) /\ Sound(calls[n])
    BY DEF CoreFor, AllSound
<1> DEFINE col == calls[n].col
<1>2. /\ DOMAIN u.rows = Collections /\ DOMAIN u.asked = Collections /\ u.asked[col] = None
      /\ \A b \in Collections \ {col} : u.rows[b] = ui.rows[b] /\ u.asked[b] = ui.asked[b]
    BY <1>1 DEF RefsOK, Sound
<1>3. RefsOK(p, u)
    BY <1>1, <1>2 DEF RefsOK
<1>4. Handled(n, u, S)
    BY <1>2 DEF Handled, Chained
<1> QED BY <1>3, <1>4, ThenSettles

\* The end of a search: the packages are shown, or none.
LEMMA SearchEndedSettles ==
    ASSUME NEW p, p # "BlockRuleList", CoreFor(p), NEW n \in DOMAIN calls, calls[n].st # "sent",
           UNCHANGED db, calls[n].kind = "list", calls[n].col = 1,
           NEW u, NEW S, Fresh(p, S), Then(n, u, S), DOMAIN u = Refs,
           u.rows = SearchEnded(n).rows, u.asked = SearchEnded(n).asked
    PROVE  CoreFor(p)'
<1>1. RefsOK(p, ui)
    BY DEF CoreFor
<1>2. CASE Ok(n)
    <2>1. u.rows = Listed(n).rows /\ u.asked = Listed(n).asked
        BY <1>1, <1>2 DEF SearchEnded, Listed, RefsOK, Refs
    <2> QED BY <2>1, AnyAnswer DEF Lists
<1>3. CASE ~Ok(n)
    <2>1. u.rows = [ui.rows EXCEPT ![1] = NoRows] /\ u.asked = [ui.asked EXCEPT ![1] = None]
        BY <1>1, <1>3 DEF SearchEnded, RefsOK, Refs
    <2> QED BY <1>3, <2>1, ListCleared
<1> QED BY <1>2, <1>3

\* What PackageExplorer sends.
LEMMA PackageExplorerSends ==
    \A clears, u, i, v : LET p == "PackageExplorer" IN
        /\ Good(p, search(u, "search")) /\ Good(p, search(u, "refresh"))
        /\ Fetches(search(u, "refresh"), 1)
        /\ Good(p, Delete("onDeletePackage", 1, i, clears))
        /\ Good(p, Create("handleUpload", 1, clears))
        /\ Good(p, BatchDelete(v, clears)) /\ Fetches(BatchDelete(v, clears), 1)
        /\ Good(p, Act("parseMavenCoordinates", i, clears))
        /\ Good(p, Act("loadRepositories", i, clears))
        /\ Good(p, Get("loadVersions", 1, i, clears))
<1>1. \A r : Sound(r) /\ Unsent(r) /\ PackageExplorerKnows(r) => Good("PackageExplorer", r)
    BY KnownToPage DEF Good
<1> QED
    BY <1>1, SoundRequests
       DEF Says, PackageExplorerKnows, SortOf, Writes, Collections, Fetches, ListOf,
           Rewrites, Chained, Patch, search, BatchDelete

\* The clicks on PackageExplorer.
LEMMA PackageExplorerClicks ==
    ASSUME CoreFor("PackageExplorer"), UNCHANGED <<db, excused>>, NEW e, NEW i,
           PackageExplorerDo(e, i)
    PROVE  CoreFor("PackageExplorer")'
<1>1. /\ Keeps("PackageExplorer", closeUpload)
      /\ \A j : Keeps("PackageExplorer", [ui EXCEPT !.box.item = j])
    BY AnyClick DEF Keeps, RefsOK, Refs, closeUpload, Closed
<1>2. CASE UploadPackageDo(e, i)
    BY Zenon, <1>1, <1>2, AnyClick, KeptEdits, PackageExplorerSends, FreshNone, FreshOne
       DEF UploadPackageDo
<1>3. CASE \/ PackageSearchBarDo(e) \/ handleKeydown(e)
           \/ Do(setPage(2), <<search(setPage(2), "search")>>)
           \/ Do(setPage(1), <<search(setPage(1), "search")>>)
           \/ Do(resized, <<search(resized, "search"), search(resized, "search")>>)
           \/ \E t \in {0, 3} : Do(setText(t), <<search(setText(t), "search")>>)
    BY <1>3, PackageExplorerSends, SearchBarClicks
<1>4. CASE e = "batchDelete" /\ PackageExplorerDo(e, i)
    BY Zenon, <1>4, <1>2, <1>3, AnyClick, KeptEdits, PackageExplorerSends, FreshOne DEF PackageExplorerDo
<1> QED
    BY Zenon, <1>2, <1>3, <1>4, AnyClick, KeptEdits, PackageExplorerSends, FreshNone, FreshOne
       DEF PackageExplorerDo

\* The handlers of PackageExplorer, once their answers have come.
LEMMA PackageExplorerGoesOn ==
    ASSUME CoreFor("PackageExplorer"), NEW n \in DOMAIN calls, calls[n].st # "sent", UNCHANGED db,
           PackageExplorerBack(n)
    PROVE  CoreFor("PackageExplorer")'
<1>1. Sound(calls[n]) /\ PackageExplorerKnows(calls[n])
    BY AnyAnswer DEF Known
<1>2. /\ calls[n].op \in {"search", "refresh"} => calls[n].kind = "list"
      /\ \A S : /\ ~Ok(n) => Owes(calls[n], S)
                /\ calls[n].op \in {"parseMavenCoordinates", "loadVersions", "loadRepositories"}
                   => Owes(calls[n], S)
                /\ Brings(S, 1) /\ calls[n].op \in {"onDeletePackage", "onBatchDelete", "handleUpload"}
                   => Owes(calls[n], S)
    BY <1>1 DEF PackageExplorerKnows, SortOf, Writes, Owes, Ok, Chained, Patch
<1>3. /\ Keeps("PackageExplorer", closeUpload)
      /\ \A j, v : Keeps("PackageExplorer", [ui EXCEPT !.form[j] = v])
    BY AnyAnswer DEF Keeps, RefsOK, Refs, closeUpload, Closed
<1>4. ASSUME \/ Op(n, {"search"}) /\ Then(n, SearchEnded(n), <<>>)
             \/ Op(n, {"refresh"}) /\ refresh(n)
      PROVE  CoreFor("PackageExplorer")'
    <2> DEFINE u == SearchEnded(n)
               back == [u EXCEPT !.q = Query(textOf(@), 1, @)]
    <2>1. calls[n].kind = "list" /\ calls[n].col = 1
        BY <1>1, <1>4 DEF PackageExplorerKnows, SortOf, Op, Writes
    <2>2. DOMAIN u = Refs
        BY AnyAnswer DEF RefsOK, Refs, SearchEnded, Listed
    <2>3. DOMAIN back = Refs /\ back.rows = u.rows /\ back.asked = u.asked
        BY <2>2 DEF Refs
    <2>4. \/ Then(n, u, <<>>) \/ Then(n, back, <<search(back, "refresh")>>)
        BY <1>4 DEF refresh
    <2> HIDE DEF u, back
    <2>5. Fresh("PackageExplorer", <<search(back, "refresh")>>)
        BY PackageExplorerSends, FreshOne
    <2> QED BY <2>1, <2>2, <2>3, <2>4, <2>5, FreshNone, SearchEndedSettles DEF u
<1>5. CASE UploadPackageBack(n)
    BY Zenon, <1>2, <1>3, <1>5, AnyAnswer, KeptEdits, PackageExplorerSends, FreshNone, FreshOne
       DEF UploadPackageBack, Op
<1>6. CASE VersionDrawerBack(n)
    BY Zenon, <1>2, <1>6, AnyAnswer, KeptEdits, FreshNone DEF VersionDrawerBack, Op
<1>7. CASE Op(n, {"onBatchDelete"}) /\ PackageExplorerBack(n)
    <2>1. calls[n].op = "onBatchDelete"
        BY <1>7 DEF Op
    <2>2. \/ Then(n, ui, <<BatchDelete(calls[n].arg, {})>>)
          \/ Then(n, [ui EXCEPT !.sel = {}], <<search(ui, "refresh")>>)
        BY <1>7, <2>1 DEF PackageExplorerBack, Op, UploadPackageBack, VersionDrawerBack
    <2> QED BY Zenon, <1>2, <2>1, <2>2, AnyAnswer, KeptEdits, PackageExplorerSends, FreshOne
<1>8. CASE \/ Op(n, {"onDeletePackage"}) /\ Ok(n) /\ Then(n, ui, <<search(ui, "refresh")>>)
           \/ Op(n, {"loadRepositories"}) /\ Ok(n) /\ Then(n, ui, <<>>)
           \/ Failed(n)
    BY Zenon, <1>2, <1>8, AnyAnswer, KeptEdits, PackageExplorerSends, FreshNone, FreshOne
       DEF Op, Failed
<1> QED BY <1>4, <1>5, <1>6, <1>7, <1>8 DEF PackageExplorerBack

\* Without takes out one request of the kind, if there is one.
LEMMA WithoutTakes ==
    ASSUME NEW p, NEW cs, AllSound(p, cs), NEW op
    PROVE  /\ AllSound(p, Without(cs, op))
           /\ \/ Without(cs, op) = cs /\ \A m \in DOMAIN cs : cs[m].op # op
              \/ \E n \in DOMAIN cs : \E f :
                    /\ cs[n].op = op /\ \A c : Remaining(f, cs, Without(cs, op), n, c)
                    /\ \A k \in DOMAIN Without(cs, op) : Without(cs, op)[k] = cs[f[k]]
<1>1. CASE AtOp(cs, op) = {}
    BY <1>1 DEF Without, AtOp
<1>2. CASE AtOp(cs, op) # {}
    <2> DEFINE n == CHOOSE m \in AtOp(cs, op) : TRUE
    <2>1. n \in DOMAIN cs /\ cs[n].op = op
        BY <1>2 DEF AtOp
    <2>2. Without(cs, op) = RemoveAt(cs, n)
        BY <1>2 DEF Without
    <2> HIDE DEF n
    <2>3. PICK f : /\ Embeds(f, cs, RemoveAt(cs, n), n) /\ AllSound(p, RemoveAt(cs, n))
                   /\ \A k \in DOMAIN RemoveAt(cs, n) : RemoveAt(cs, n)[k] = cs[f[k]]
        BY <2>1, TakenOut
    <2>4. \A c : Remaining(f, cs, RemoveAt(cs, n), n, c)
        BY <2>3 DEF Remaining, SameButMarks
    <2> QED BY <2>1, <2>2, <2>3, <2>4
<1> QED BY <1>1, <1>2

\* Taking out a request that is not about a collection leaves it settled.
LEMMA WithoutSettles ==
    ASSUME NEW p, NEW cs, AllSound(p, cs), NEW op, NEW c, NEW x \in BOOLEAN, NEW rows, NEW asked,
           NEW d,
           \A m \in DOMAIN cs : cs[m].op = op => ~About(cs[m], c) /\ ~Chained(cs[m]),
           Settled(cs, x, rows, asked, d, c)
    PROVE  Settled(Without(cs, op), x, rows, asked, d, c)
<1> DEFINE rs == Without(cs, op)
<1>1. CASE rs = cs
    BY <1>1
<1>2. ASSUME NEW n \in DOMAIN cs, NEW f, cs[n].op = op, Remaining(f, cs, rs, n, c)
      PROVE  Settled(rs, x, rows, asked, d, c)
    <2> HIDE DEF rs
    <2>1. ~About(cs[n], c) /\ ~Chained(cs[n])
        BY <1>2
    <2> QED BY <1>2, <2>1, RemovedElsewhere
<1> QED BY <1>1, <1>2, WithoutTakes

\* What PublicBrowse sends.
LEMMA PublicBrowseSends ==
    \A clears, u, i, v : LET p == "PublicBrowse" IN
        /\ Good(p, search(u, "search")) /\ Good(p, loadShowcase(u)) /\ Good(p, loadStatusPanel)
        /\ Good(p, Act("loadRepositories", i, clears))
<1>1. \A r : Sound(r) /\ Unsent(r) /\ PublicBrowseKnows(r) => Good("PublicBrowse", r)
    BY KnownToPage DEF Good
<1> QED
    BY <1>1, SoundRequests
       DEF Says, PublicBrowseKnows, SortOf, Writes, Collections, Fetches, ListOf,
           Rewrites, Chained, Patch, search, loadShowcase, loadStatusPanel

\* No request for the showcase among S.
NoShowcase(S) == \A k \in DOMAIN S : S[k].op # "showcase"
\* The showcase is asked for in its tab only, and once.
OnlyShowcase ==
    \A m \in DOMAIN calls : calls[m].op = "showcase" =>
        InFront("repositories") /\ \A k \in DOMAIN calls : calls[k].op = "showcase" => k = m

\* Leaving the repositories leaves no request for the showcase.
LEMMA ShowcaseGone ==
    ASSUME NEW p, AllSound(p, calls), OnlyShowcase
    PROVE  NoShowcase(Without(Without(calls, "showcase"), "statusPanel"))
<1> DEFINE cs == Without(calls, "showcase")
           ds == Without(cs, "statusPanel")
<1>1. AllSound(p, calls) /\ \A m, k \in DOMAIN calls :
          calls[m].op = "showcase" /\ calls[k].op = "showcase" => m = k
    BY DEF OnlyShowcase
<1>2. AllSound(p, cs)
    BY WithoutTakes
<1>4. \A m \in DOMAIN cs : cs[m].op # "showcase"
    <2>1. CASE cs = calls /\ \A m \in DOMAIN calls : calls[m].op # "showcase"
        BY <2>1
    <2>2. ASSUME NEW n \in DOMAIN calls, NEW f, calls[n].op = "showcase",
                 \A c : Remaining(f, calls, cs, n, c), \A k \in DOMAIN cs : cs[k] = calls[f[k]]
          PROVE  \A m \in DOMAIN cs : cs[m].op # "showcase"
        BY <1>1, <2>2 DEF Remaining, Embeds
    <2> QED BY <1>1, <2>1, <2>2, WithoutTakes
<1>5. \A m \in DOMAIN ds : ds[m].op # "showcase"
    <2>1. CASE ds = cs
        BY <1>4, <2>1
    <2>2. ASSUME NEW n \in DOMAIN cs, NEW f, \A c : Remaining(f, cs, ds, n, c),
                 \A k \in DOMAIN ds : ds[k] = cs[f[k]]
          PROVE  \A m \in DOMAIN ds : ds[m].op # "showcase"
        BY <1>4, <2>2 DEF Remaining, Embeds
    <2> QED BY <1>2, <2>1, <2>2, WithoutTakes
<1> QED BY <1>5 DEF NoShowcase

\* Leaving the repositories: the showcase goes with the request for it.
LEMMA LeavingSettles ==
    ASSUME CoreFor("PublicBrowse"), UNCHANGED <<db, excused>>, leaveRepositories,
           OnlyShowcase
    PROVE  CoreFor("PublicBrowse")'
<1> DEFINE p == "PublicBrowse"
           cs == Without(calls, "showcase")
           ds == Without(cs, "statusPanel")
           S == IF ui.tab = 2 THEN <<Act("loadRepositories", None, {})>> ELSE <<>>
<1>1. /\ RefsOK(p, ui) /\ AllSound(p, calls) /\ excused \in [Collections -> BOOLEAN]
      /\ \A c \in Collections : Settled(calls, excused[c], ui.rows[c], ui.asked[c], db[c], c)
    BY DEF CoreFor
<1>2. AllSound(p, cs) /\ AllSound(p, ds)
    BY <1>1, WithoutTakes
<1>3. \A r : Known(p, r) /\ Sound(r) =>
         /\ r.op = "showcase" => ~About(r, 1) /\ ~Chained(r)
         /\ r.op = "statusPanel" => (\A c : ~About(r, c)) /\ ~Chained(r)
         /\ About(r, 2) => r.op = "showcase"
    BY DEF Known, PublicBrowseKnows, SortOf, About, Chained, Writes
<1>5. NoShowcase(ds)
    BY <1>1, ShowcaseGone
<1>6. Settled(ds, excused[1], ui.rows[1], ui.asked[1], db[1], 1)
    <2>1. excused[1] \in BOOLEAN /\ Settled(calls, excused[1], ui.rows[1], ui.asked[1], db[1], 1)
        BY <1>1 DEF Collections
    <2>2. Settled(cs, excused[1], ui.rows[1], ui.asked[1], db[1], 1)
        BY <1>1, <1>3, <2>1, WithoutSettles DEF AllSound
    <2> HIDE DEF cs
    <2> QED BY <1>2, <1>3, <2>1, <2>2, WithoutSettles DEF AllSound
<1> HIDE DEF cs, ds
<1>7. Settled(ds, excused[2], NoRows, None, db[2], 2)
    <2>1. \A m \in DOMAIN ds : ~About(ds[m], 2)
        BY <1>2, <1>3, <1>5 DEF AllSound, NoShowcase
    <2>2. \A m \in DOMAIN ds : ~ListOf(ds[m], 2)
        BY <2>1 DEF ListOf, About
    <2> QED BY <2>1, <2>2 DEF Settled, NoneStale, InOrder, UpToDate, LastList
<1>8. calls' = Sending(ds, S) /\ Fresh(p, S)
    BY PublicBrowseSends, FreshNone, FreshOne DEF leaveRepositories, cs, ds
<1>9. AllSound(p, calls') /\ Extends(ds, calls')
    BY <1>2, <1>8, Sent
<1>10. /\ RefsOK(p, ui')
       /\ ui'.rows[1] = ui.rows[1] /\ ui'.asked[1] = ui.asked[1]
       /\ ui'.rows[2] = NoRows /\ ui'.asked[2] = None
    BY <1>1 DEF leaveRepositories, RefsOK, Refs, Closed, Collections, Asks
<1>11. \A c \in Collections : Settled(calls', excused[c], ui'.rows[c], ui'.asked[c], db[c], c)
    <2>1. \A c \in Collections : /\ excused[c] \in BOOLEAN
                                 /\ Settled(ds, excused[c], ui'.rows[c], ui'.asked[c], db[c], c)
        BY <1>1, <1>6, <1>7, <1>10 DEF Collections
    <2> QED BY <1>9, <2>1, Appending DEF Orderly, Settled
<1> QED BY <1>1, <1>9, <1>10, <1>11 DEF CoreFor

\* The clicks on PublicBrowse.
LEMMA PublicBrowseClicks ==
    ASSUME CoreFor("PublicBrowse"), UNCHANGED <<db, excused>>, NEW e, NEW i, PublicBrowseDo(e, i),
           OnlyShowcase
    PROVE  CoreFor("PublicBrowse")'
<1>1. CASE \/ PackageSearchBarDo(e) \/ handleKeydown(e)
           \/ Do(setPage(2), <<search(setPage(2), "search")>>)
           \/ Do(setPage(1), <<search(setPage(1), "search")>>)
           \/ Do(resized, <<search(resized, "search"), search(resized, "search")>>)
           \/ \E t \in {0, 3} : Do(setText(t), <<search(setText(t), "search")>>)
    BY <1>1, PublicBrowseSends, SearchBarClicks
<1>2. CASE leaveRepositories
    BY <1>2, LeavingSettles
<1>3. CASE Do(setText(0), <<search(setText(0), "search")>>)
    BY <1>3, AnyClick, QueryEdits, PublicBrowseSends, FreshOne
<1>4. CASE Do(Silent(Opened("repositories", None, 0)), <<loadShowcase(Blank), loadStatusPanel>>)
    BY <1>4, AnyClick, QueryEdits, PublicBrowseSends, FreshTwo
<1> QED
    BY Zenon, <1>1, <1>2, <1>3, <1>4, AnyClick, KeptEdits, PublicBrowseSends, FreshNone, FreshOne
       DEF PublicBrowseDo

\* The handlers of PublicBrowse, once their answers have come.
LEMMA PublicBrowseGoesOn ==
    ASSUME CoreFor("PublicBrowse"), NEW n \in DOMAIN calls, calls[n].st # "sent", UNCHANGED db,
           PublicBrowseBack(n)
    PROVE  CoreFor("PublicBrowse")'
<1>1. Sound(calls[n]) /\ PublicBrowseKnows(calls[n])
    BY AnyAnswer DEF Known
<1>2. CASE Op(n, {"search"}) /\ Then(n, SearchEnded(n), <<>>)
    <2>1. calls[n].kind = "list" /\ calls[n].col = 1
        BY <1>1, <1>2 DEF PublicBrowseKnows, SortOf, Op, Writes
    <2>2. DOMAIN SearchEnded(n) = Refs
        BY AnyAnswer DEF RefsOK, Refs, SearchEnded, Listed
    <2> QED BY <1>2, <2>1, <2>2, FreshNone, SearchEndedSettles
<1>3. ASSUME Op(n, {"showcase"}), NEW u, Then(n, u, <<>>),
             u = IF Ok(n) THEN Listed(n)
                 ELSE [ui EXCEPT !.rows[2] = NoRows, !.asked[2] = None]
      PROVE  CoreFor("PublicBrowse")'
    <2>1. calls[n].kind = "list" /\ calls[n].col = 2
        BY <1>1, <1>3 DEF PublicBrowseKnows, SortOf, Op, Writes
    <2>2. CASE Ok(n)
        BY <1>3, <2>1, <2>2, AnyAnswer, ListedEdits, FreshNone
    <2>3. CASE ~Ok(n)
        <3>1. /\ DOMAIN u = Refs /\ u.rows = [ui.rows EXCEPT ![2] = NoRows]
              /\ u.asked = [ui.asked EXCEPT ![2] = None]
            BY <1>3, <2>3, AnyAnswer DEF RefsOK, Refs
        <3> QED BY <1>3, <2>1, <2>3, <3>1, FreshNone, ListCleared
    <2> QED BY <2>2, <2>3
<1>4. CASE Op(n, {"statusPanel", "loadRepositories"}) /\ Then(n, ui, <<>>)
    <2>1. Owes(calls[n], <<>>)
        BY <1>1, <1>4 DEF PublicBrowseKnows, SortOf, Op, Owes, Chained
    <2> QED BY Zenon, <1>4, <2>1, AnyAnswer, KeptEdits, FreshNone
<1> QED BY <1>2, <1>3, <1>4 DEF PublicBrowseBack

----------------------------------------
(* The showcase of PublicBrowse *)

\* Requests that join others are not about the showcase, if neither is.
LEMMA NoShowcaseSent ==
    ASSUME NEW p, NEW cs, NEW S, AllSound(p, cs), Fresh(p, S), NoShowcase(cs), NoShowcase(S)
    PROVE  NoShowcase(Sending(cs, S))
<1> DEFINE ds == Sending(cs, S)
<1>1. Extends(cs, ds) /\ Joins(cs, S, ds)
    BY Sent
<1>2. DOMAIN cs = 1..Len(cs) /\ DOMAIN S = 1..Len(S) /\ Len(cs) \in Nat /\ Len(S) \in Nat
    BY SeqDomain DEF AllSound, Fresh
<1> HIDE DEF ds
<1>3. ASSUME NEW m \in DOMAIN ds PROVE ds[m].op # "showcase"
    <2>1. CASE m \in DOMAIN cs
        BY <1>1, <2>1 DEF Extends, NoShowcase
    <2>2. CASE m \notin DOMAIN cs
        <3> DEFINE k == m - Len(cs)
        <3>1. k \in 1..Len(S) /\ Len(cs) + k = m
            BY <1>1, <1>2, <2>2 DEF Joins
        <3>2. ds[m].op = S[k].op
            BY <1>1, <3>1 DEF Joins, Asked
        <3> QED BY <1>2, <3>1, <3>2 DEF NoShowcase
    <2> QED BY <2>1, <2>2
<1> QED BY <1>3 DEF NoShowcase, ds

\* Requests that are not about the showcase.
Plain(S) == Fresh("PublicBrowse", S) /\ NoShowcase(S)

\* None, or those of the packages tab.
LEMMA PlainRequests ==
    /\ Plain(<<>>)
    /\ \A i, clears : Plain(<<Act("loadRepositories", i, clears)>>)
    /\ \A u : Plain(<<search(u, "search")>>)
    /\ \A u, v : Plain(<<search(u, "search"), search(v, "search")>>)
<1>1. \A r : r.op # "showcase" => NoShowcase(<<r>>)
    <2> TAKE r
    <2>1. <<r>> \in Seq({r}) /\ DOMAIN <<r>> = {1} /\ <<r>>[1] = r
        OBVIOUS
    <2> QED BY <2>1 DEF NoShowcase
<1>2. \A r, s : r.op # "showcase" /\ s.op # "showcase" => NoShowcase(<<r, s>>)
    <2> TAKE r, s
    <2>1. <<r, s>> \in Seq({r, s}) /\ DOMAIN <<r, s>> = {1, 2} /\ <<r, s>>[1] = r /\ <<r, s>>[2] = s
        OBVIOUS
    <2> QED BY <2>1 DEF NoShowcase
<1>3. NoShowcase(<<>>)
    BY DEF NoShowcase
<1>4. /\ \A u : search(u, "search").op # "showcase"
      /\ \A i, clears : Act("loadRepositories", i, clears).op # "showcase"
    BY DEF search, List, Act, Request
<1> QED BY <1>1, <1>2, <1>3, <1>4, PublicBrowseSends, FreshNone, FreshOne, FreshTwo DEF Plain

\* A click in the packages tab that leads there.
LEMMA PlainClick ==
    ASSUME CoreFor("PublicBrowse"), NoShowcase(calls), NEW u, NEW S, Plain(S), Do(u, S)
    PROVE  OnlyShowcase'
<1>1. NoShowcase(Sending(calls, S))
    BY NoShowcaseSent DEF Plain, CoreFor
<1>2. calls' = Sending(calls, S)
    BY DEF Do
<1> QED BY <1>1, <1>2 DEF OnlyShowcase, NoShowcase

\* The click that opens the repositories.
LEMMA ShowcaseOpened ==
    ASSUME CoreFor("PublicBrowse"), NoShowcase(calls),
           Do(Silent(Opened("repositories", None, 0)), <<loadShowcase(Blank), loadStatusPanel>>)
    PROVE  OnlyShowcase'
<1> DEFINE r == loadShowcase(Blank)
           s == loadStatusPanel
           S == <<r, s>>
<1>1. RefsOK("PublicBrowse", ui) /\ AllSound("PublicBrowse", calls)
    BY DEF CoreFor
<1>2. InFront("repositories")'
    BY <1>1 DEF Do, InFront, RefsOK, Refs, Silent, Opened
<1>3. Good("PublicBrowse", r) /\ Good("PublicBrowse", s) /\ s.op = "statusPanel"
    BY PublicBrowseSends DEF loadStatusPanel, Act, Request
<1>4. Fresh("PublicBrowse", S)
    BY <1>3, FreshTwo
<1>5. calls' = Sending(calls, S)
    BY DEF Do
<1> HIDE DEF r, s
<1>6. Len(S) = 2 /\ S[1] = r /\ S[2] = s
    OBVIOUS
<1> HIDE DEF S
<1>7. Extends(calls, calls') /\ Joins(calls, S, calls')
    BY <1>1, <1>4, <1>5, Sent
<1>8. DOMAIN calls = 1..Len(calls) /\ Len(calls) \in Nat
    BY <1>1, SeqDomain DEF AllSound
<1>9. calls'[Len(calls) + 2].op = "statusPanel"
    BY <1>3, <1>6, <1>7 DEF Joins, Asked
<1>10. \A m \in DOMAIN calls' : calls'[m].op = "showcase" => m = Len(calls) + 1
    <2>1. TAKE m \in DOMAIN calls'
    <2>2. CASE m \in DOMAIN calls
        BY <1>7, <2>2 DEF Extends, NoShowcase
    <2>3. CASE m \notin DOMAIN calls
        BY <1>6, <1>7, <1>8, <1>9, <2>3 DEF Joins
    <2> QED BY <2>2, <2>3
<1> QED BY <1>2, <1>10 DEF OnlyShowcase

\* A click on PublicBrowse leaves one request for the showcase at most, in its tab.
LEMMA ShowcaseClicks ==
    ASSUME CoreFor("PublicBrowse"), OnlyShowcase, NEW k \in PublicBrowseOffers,
           PublicBrowseDo(k[1], k[2])
    PROVE  OnlyShowcase'
<1>1. CASE leaveRepositories
    <2> DEFINE ds == Without(Without(calls, "showcase"), "statusPanel")
               S == IF ui.tab = 2 THEN <<Act("loadRepositories", None, {})>> ELSE <<>>
    <2>1. AllSound("PublicBrowse", calls)
        BY DEF CoreFor
    <2>2. AllSound("PublicBrowse", ds) /\ NoShowcase(ds)
        BY <2>1, WithoutTakes, ShowcaseGone
    <2>3. Plain(S)
        BY PlainRequests
    <2>4. calls' = Sending(ds, S)
        BY <1>1 DEF leaveRepositories
    <2> HIDE DEF ds, S
    <2>5. NoShowcase(calls')
        BY <2>2, <2>3, <2>4, NoShowcaseSent DEF Plain
    <2> QED BY <2>5 DEF OnlyShowcase, NoShowcase
<1>2. CASE InFront("repositories")
    <2>1. k[1] = "packages"
        BY <1>2 DEF PublicBrowseOffers, PublicBrowseTabsOffers, On
    <2> QED BY <1>1, <2>1 DEF PublicBrowseDo, PackageSearchBarDo, handleKeydown
<1>3. CASE ~InFront("repositories")
    <2>1. NoShowcase(calls)
        BY <1>3 DEF OnlyShowcase, NoShowcase
    <2>2. \A u, S : Plain(S) /\ Do(u, S) => OnlyShowcase'
        BY <2>1, PlainClick
    <2>3. PackageSearchBarDo(k[1]) \/ handleKeydown(k[1]) => OnlyShowcase'
        BY <2>2, PlainRequests DEF PackageSearchBarDo, handleKeydown
    <2> QED BY <1>1, <2>1, <2>2, <2>3, PlainRequests, ShowcaseOpened DEF PublicBrowseDo
<1> QED BY <1>2, <1>3

\* A handler that sends nothing leaves the others as they are.
LEMMA NothingSent ==
    ASSUME NEW p, NEW rs, AllSound(p, rs)
    PROVE  /\ DOMAIN Sending(rs, <<>>) = DOMAIN rs
           /\ \A k \in DOMAIN rs : Sending(rs, <<>>)[k] = rs[k]
<1>1. Extends(rs, Sending(rs, <<>>)) /\ Joins(rs, <<>>, Sending(rs, <<>>))
    BY FreshNone, Sent
<1>2. DOMAIN rs = 1..Len(rs) /\ Len(rs) \in Nat
    BY SeqDomain DEF AllSound
<1> QED BY <1>1, <1>2 DEF Extends, Joins

\* So does an answer.
LEMMA ShowcaseGoesOn ==
    ASSUME CoreFor("PublicBrowse"), OnlyShowcase, NEW n \in DOMAIN calls, PublicBrowseBack(n)
    PROVE  OnlyShowcase'
<1>1. RefsOK("PublicBrowse", ui) /\ AllSound("PublicBrowse", calls)
    BY DEF CoreFor
<1>2. PICK u : Then(n, u, <<>>) /\ "box" \in DOMAIN u /\ u.box = ui.box
    <2>1. /\ "box" \in DOMAIN ui
          /\ "box" \in DOMAIN SearchEnded(n) /\ SearchEnded(n).box = ui.box
          /\ "box" \in DOMAIN Listed(n) /\ Listed(n).box = ui.box
          /\ "box" \in DOMAIN [ui EXCEPT !.rows[2] = NoRows, !.asked[2] = None]
          /\ [ui EXCEPT !.rows[2] = NoRows, !.asked[2] = None].box = ui.box
        BY <1>1 DEF RefsOK, Refs, SearchEnded, Listed
    <2> QED BY <2>1 DEF PublicBrowseBack
<1>3. PICK rs, f : /\ AllSound("PublicBrowse", rs) /\ calls' = Sending(rs, <<>>)
                   /\ Embeds(f, calls, rs, n)
                   /\ \A k \in DOMAIN rs : SameButMarks(rs[k], calls[f[k]])
    BY <1>1, <1>2, LeftBehind
<1>4. DOMAIN calls' = DOMAIN rs /\ \A k \in DOMAIN rs : calls'[k] = rs[k]
    BY <1>3, NothingSent
<1>5. ui'.box = ui.box
    BY <1>2 DEF Then
<1>6. ASSUME NEW m \in DOMAIN rs, rs[m].op = "showcase"
      PROVE  InFront("repositories") /\ \A k \in DOMAIN rs : rs[k].op = "showcase" => k = m
    <2>1. f[m] \in DOMAIN calls /\ calls[f[m]].op = "showcase"
        BY <1>3, <1>6 DEF Embeds, SameButMarks
    <2>2. ASSUME NEW k \in DOMAIN rs, rs[k].op = "showcase" PROVE k = m
        <3>1. f[k] = f[m]
            BY <1>3, <2>1, <2>2 DEF OnlyShowcase, Embeds, SameButMarks
        <3>2. k \in Int /\ m \in Int /\ f[k] \in Int
            BY <1>3 DEF Embeds
        <3>3. ~(k < m) /\ ~(m < k)
            BY <1>3, <3>1, <3>2 DEF Embeds
        <3> QED BY <3>2, <3>3
    <2> QED BY <2>1, <2>2 DEF OnlyShowcase
<1> QED BY <1>4, <1>5, <1>6 DEF OnlyShowcase, InFront

\* What request n is does not change as it is answered, nor what the page shows,
\* and what was not to be trusted is not trusted.
LEMMA NetworkAnswers ==
    ASSUME NEW p \in Listing, CoreFor(p), NEW n \in DOMAIN calls,
           Serve(n) \/ Refuse(n) \/ NotFound(n)
    PROVE  /\ UNCHANGED ui /\ DOMAIN calls' = DOMAIN calls
           /\ \A m \in DOMAIN calls : SameRequest(calls'[m], calls[m])
           /\ \A c \in Collections : Trusted(calls', excused'[c], c) => Trusted(calls, excused[c], c)
<1>1. CASE Serve(n)
    <2>1. PICK cs : AtServer(n, cs) /\ Answers(cs, calls', n)
        BY <1>1, Served
    <2>2. /\ excused \in [Collections -> BOOLEAN] /\ excused' \in [Collections -> BOOLEAN]
          /\ \A c \in Collections :
                 /\ c # calls[n].col \/ ~Overtaking(n) => excused'[c] = excused[c]
                 /\ c = calls[n].col /\ Overtaking(n) => excused'[c] = TRUE
        BY <1>1, Served DEF CoreFor
    <2>3. DOMAIN calls' = DOMAIN calls /\ \A m \in DOMAIN calls : SameRequest(calls'[m], calls[m])
        BY <2>1 DEF AtServer, Answers, SameRequest
    <2>4. ASSUME NEW c \in Collections, Trusted(calls', excused'[c], c)
          PROVE  Trusted(calls, excused[c], c)
        <3>1. CASE c = calls[n].col /\ Overtaking(n)
            <4>1. \A m \in DOMAIN calls : calls[m].col = c => calls'[m].stale
                BY <2>1, <3>1 DEF AtServer, Answers
            <4> QED BY <2>2, <2>3, <2>4, <3>1, <4>1 DEF Trusted, ListOf, SameRequest
        <3>2. CASE c # calls[n].col \/ ~Overtaking(n)
            <4>1. \A m \in DOMAIN calls : calls[m].col = c => calls'[m].stale = calls[m].stale
                BY <2>1, <3>2 DEF AtServer, Answers
            <4> QED BY <2>2, <2>3, <2>4, <3>2, <4>1 DEF Trusted, ListOf, SameRequest
        <3> QED BY <3>1, <3>2
    <2>5. UNCHANGED ui
        BY Zenon, <1>1 DEF Serve
    <2> QED BY <2>3, <2>4, <2>5
<1>2. CASE Refuse(n) \/ NotFound(n)
    <2>1. calls' = [calls EXCEPT ![n].st = "err"] /\ UNCHANGED <<ui, excused>>
        BY <1>2 DEF Refuse, NotFound
    <2>2. \A m \in DOMAIN calls : Fields \subseteq DOMAIN calls[m]
        BY DEF CoreFor, AllSound, Sound
    <2>3. /\ DOMAIN calls' = DOMAIN calls
          /\ \A m \in DOMAIN calls : SameRequest(calls'[m], calls[m])
                /\ calls'[m].stale = calls[m].stale
        BY <2>1, <2>2 DEF SameRequest, Fields
    <2> QED BY <2>1, <2>3 DEF Trusted, ListOf, SameRequest
<1> QED BY <1>1, <1>2

----------------------------------------
(* Pages without lists *)

\* No list has come, or ever will.
NoneAsked(u) == "asked" \in DOMAIN u /\ \A c \in Collections : u.asked[c] = None

\* Handlers that leave it at that.
LEMMA NeverAsked ==
    ASSUME NoneAsked(ui)
    PROVE  /\ \A u, S : NoneAsked(u) /\ Do(u, S) => NoneAsked(ui)'
           /\ \A n, u, S : NoneAsked(u) /\ Then(n, u, S) => NoneAsked(ui)'
BY DEF NoneAsked, Do, Then

\* Changing any other refs.
LEMMA OtherRefs ==
    NoneAsked(ui) =>
        /\ \A x : NoneAsked([ui EXCEPT !.form = x]) /\ NoneAsked([ui EXCEPT !.tab = x])
        /\ \A x : NoneAsked([ui EXCEPT !.mode = x]) /\ NoneAsked([ui EXCEPT !.box.data = x])
        /\ \A x : /\ NoneAsked([ui EXCEPT !.box.kind = x])
                  /\ NoneAsked([ui EXCEPT !.form[Protected] = x])
        /\ \A x, y : NoneAsked([ui EXCEPT !.box.item = x, !.form = y])
        /\ \A x, y : NoneAsked([ui EXCEPT !.rows[2][x] = y])
        /\ \A x, y :
             /\ NoneAsked(Show(ui, x, y))
             /\ NoneAsked(Show([ui EXCEPT !.box = [kind |-> "route", item |-> x, data |-> 0]],
                               x, y))
        /\ \A x : NoneAsked([ui EXCEPT !.box = x]) /\ NoneAsked(Noted(x))
        /\ \A x, y : /\ NoneAsked(Visit(x, y)) /\ NoneAsked([Visit(x, y) EXCEPT !.sel = {x}])
                     /\ NoneAsked([[Visit(x, y) EXCEPT !.sel = {x}] EXCEPT !.form = ui.form])
BY DEF NoneAsked, Show, Noted, Visit, Emptied

\* The clicks on the pages without lists.
LEMMA ListlessClicks ==
    ASSUME NoneAsked(ui), NEW e, NEW i,
           CasSettingsPanelDo(e, i) \/ PackageDetailDo(e, i) \/ RepoConfigPageDo(e, i)
           \/ DependencyGraphDo(e, i)
    PROVE  NoneAsked(ui)'
<1>1. CASE CasSettingsPanelDo(e, i)
    BY Zenon, <1>1, NeverAsked, OtherRefs DEF CasSettingsPanelDo
<1>2. CASE PackageDetailDo(e, i)
    BY Zenon, <1>2, NeverAsked, OtherRefs DEF PackageDetailDo, loadFromCacheOrFetch
<1>3. CASE RepoConfigPageDo(e, i)
    BY <1>3, NeverAsked DEF RepoConfigPageDo
<1>4. CASE DependencyGraphDo(e, i)
    <2>1. Select(i) => NoneAsked(ui)'
        BY Zenon, NeverAsked, OtherRefs DEF Select
    <2> QED BY Zenon, <1>4, <2>1, NeverAsked, OtherRefs DEF DependencyGraphDo
<1> QED BY <1>1, <1>2, <1>3, <1>4

\* Their handlers, once their answers have come.
LEMMA ListlessGoesOn ==
    ASSUME NoneAsked(ui), NEW n,
           CasSettingsPanelBack(n) \/ PackageDetailBack(n) \/ RepoConfigPageBack(n)
           \/ DependencyGraphBack(n)
    PROVE  NoneAsked(ui)'
<1>1. CASE CasSettingsPanelBack(n)
    BY Zenon, <1>1, NeverAsked, OtherRefs DEF CasSettingsPanelBack, Failed
<1>2. CASE PackageDetailBack(n)
    BY Zenon, <1>2, NeverAsked, OtherRefs DEF PackageDetailBack, refreshed, Failed
<1>3. CASE RepoConfigPageBack(n)
    BY Zenon, <1>3, NeverAsked, OtherRefs DEF RepoConfigPageBack
<1>4. CASE DependencyGraphBack(n)
    <2>1. PackageNodeBack(n) => NoneAsked(ui)'
        BY NeverAsked, OtherRefs DEF PackageNodeBack
    <2> QED BY Zenon, <1>4, <2>1, NeverAsked, OtherRefs DEF DependencyGraphBack
<1> QED BY <1>1, <1>2, <1>3, <1>4

----------------------------------------
(* The invariant *)

\* The page mounted: one that shows lists is settled, one that shows none has
\* asked for none; PublicBrowse has one showcase under way at most.
PageIsOne == page \in AllPages \cup {None}
PageIsSettled == \A p \in Listing : page = p => CoreFor(p)
PageHasNoLists == page \in Listless => NoneAsked(ui)
ShowcaseIsOne == page = "PublicBrowse" => OnlyShowcase

\* What the theorems below rest on.
ListsInv == PageIsOne /\ PageIsSettled /\ PageHasNoLists /\  ShowcaseIsOne

\* The requests a page mounts with are its own.
LEMMA MountedFresh == \A p \in Listing : Fresh(p, Mounted(p))
<1> USE FreshOne, FreshTwo, FreshThree
<1>1. Fresh("UserManagement", UserManagementMounted)
      /\ Fresh("RoleManagement", RoleManagementMounted)
    BY UserManagementSends, RoleManagementSends DEF UserManagementMounted, RoleManagementMounted
<1>2. Fresh("ProfileSettings", ProfileSettingsMounted)
    BY ProfileSettingsSends DEF ProfileSettingsMounted
<1>3. Fresh("WebhookManagement", WebhookManagementMounted)
      /\ Fresh("BackupManagement", BackupManagementMounted)
    BY WebhookManagementSends, BackupManagementSends
       DEF WebhookManagementMounted, BackupManagementMounted
<1>4. Fresh("ScheduledTasks", ScheduledTasksMounted)
      /\ Fresh("RuntimeStatus", RuntimeStatusMounted)
      /\ Fresh("Dashboard", DashboardMounted)
    BY ScheduledTasksSends, RuntimeStatusSends, DashboardSends
       DEF ScheduledTasksMounted, RuntimeStatusMounted, DashboardMounted
<1>5. Fresh("CacheManagement", CacheManagementMounted)
    BY CacheManagementSends DEF CacheManagementMounted
<1>6. Fresh("RepositoryList", RepositoryListMounted)
      /\ Fresh("RepositoryDetail", RepositoryDetailMounted)
    BY RepositoryListSends, RepositoryDetailSends DEF RepositoryListMounted, RepositoryDetailMounted
<1>7. Fresh("DownloadLogs", DownloadLogsMounted) /\ Fresh("AuditLogs", AuditLogsMounted)
    BY DownloadLogsSends, AuditLogsSends DEF DownloadLogsMounted, AuditLogsMounted
<1>8. Fresh("SecurityCenter", SecurityCenterMounted)
      /\ Fresh("VulnRuleManagement", VulnRuleManagementMounted)
    BY SecurityCenterSends, VulnRuleManagementSends
       DEF SecurityCenterMounted, VulnRuleManagementMounted
<1>9. Fresh("BlockRuleList", BlockRuleListMounted)
      /\ Fresh("RiskAssessment", RiskAssessmentMounted)
    <2>1. Blank.q \in {0, 3}
        BY DEF Blank
    <2> QED
        BY <2>1, BlockRuleListSends, RiskAssessmentSends
           DEF BlockRuleListMounted, RiskAssessmentMounted
<1>10. Fresh("PackageExplorer", PackageExplorerMounted)
      /\ Fresh("FileBrowser", FileBrowserMounted)
       /\ Fresh("PublicBrowse", PublicBrowseMounted)
    BY PackageExplorerSends, FileBrowserSends, PublicBrowseSends
       DEF PackageExplorerMounted, FileBrowserMounted, PublicBrowseMounted
<1> QED
    BY <1>1, <1>2, <1>3, <1>4, <1>5, <1>6, <1>7, <1>8, <1>9, <1>10 DEF Listing, AllPages, Mounted

\* A page starts with no list.
LEMMA CreatedRefs ==
    ASSUME NEW p, NEW u \in Created(p)
    PROVE  RefsOK(p, u) /\ NoneAsked(u)
<1>1. \A k : /\ DOMAIN Blank = Refs /\ DOMAIN [Blank EXCEPT !.box = k] = Refs
             /\ DOMAIN [Blank EXCEPT !.mode = k] = Refs
             /\ DOMAIN [LargePage EXCEPT !.mode = k] = Refs
             /\ DOMAIN [FirstPage EXCEPT !.mode = k] = Refs
             /\ DOMAIN [Blank EXCEPT !.box.kind = k] = Refs
    BY DEF Blank, Refs, LargePage, FirstPage
<1>2. DOMAIN u = Refs
    BY <1>1 DEF Created
<1>3. u.rows = Blank.rows /\ u.asked = Blank.asked
    BY DEF Created, Blank, LargePage, FirstPage
<1>4. p = "BlockRuleList" => u.q = 0
    BY DEF Created, Blank
<1>5. /\ DOMAIN Blank.rows = Collections /\ DOMAIN Blank.asked = Collections
      /\ \A c \in Collections : Blank.asked[c] = None
    BY DEF Blank
<1> QED BY <1>2, <1>3, <1>4, <1>5 DEF RefsOK, NoneAsked, Refs

\* What a visit begins with.
LEMMA ListsAtFirst == Init => ListsInv
<1> SUFFICES ASSUME Init PROVE ListsInv
    OBVIOUS
<1>1. PICK v \in Created(page) : ui = [v EXCEPT !.spin = Flags(Mounted(page))]
    BY DEF Init
<1>2. RefsOK(page, v) /\ NoneAsked(v)
    BY CreatedRefs
<1>3. /\ RefsOK(page, ui) /\ NoneAsked(ui)
      /\ ui.rows = v.rows /\ ui.asked = v.asked
    BY <1>1, <1>2, FlagsApart DEF NoneAsked, RefsOK, Refs
<1>4. calls = Sending(<<>>, Mounted(page)) /\ excused = [c \in Collections |-> FALSE]
    BY DEF Init
<1>5. DOMAIN db = Collections /\ \A c \in Collections : DOMAIN db[c] = Items
    BY DEF Init, Stored
<1>6. ASSUME NEW p \in Listing, page = p
      PROVE  CoreFor(p)
    <2>1. AllSound(p, <<>>)
        BY DEF AllSound, IsSeq
    <2>2. AllSound(p, calls) /\ Extends(<<>>, calls)
        BY <1>4, <1>6, <2>1, MountedFresh, Sent
    <2>3. ASSUME NEW c \in Collections
          PROVE  Settled(calls, FALSE, ui.rows[c], ui.asked[c], db[c], c)
        <3>1. ui.asked[c] = None
            BY <1>3 DEF NoneAsked
        <3>2. Settled(<<>>, FALSE, ui.rows[c], ui.asked[c], db[c], c)
            BY <3>1 DEF Settled, NoneStale, InOrder, UpToDate, LastList
        <3> QED BY <2>2, <3>2, Appending DEF Orderly, Settled
    <2> QED BY <1>3, <1>4, <1>5, <1>6, <2>2, <2>3 DEF CoreFor
<1>8. ASSUME page = "PublicBrowse" PROVE OnlyShowcase
    <2>1. AllSound("PublicBrowse", <<>>) /\ NoShowcase(<<>>)
        BY DEF AllSound, IsSeq, NoShowcase
    <2>2. Mounted(page) = <<search(FirstPage, "search")>>
        BY <1>8 DEF Mounted, PublicBrowseMounted
    <2>3. Plain(Mounted(page))
        BY <2>2, PlainRequests
    <2>4. NoShowcase(calls)
        BY <1>4, <2>1, <2>3, NoShowcaseSent DEF Plain
    <2> QED BY <2>4 DEF OnlyShowcase, NoShowcase
<1>9. page \in AllPages
    BY ConsoleAssumption DEF Init
<1> QED
    BY <1>3, <1>6, <1>8, <1>9
       DEF ListsInv, PageIsOne, PageIsSettled, PageHasNoLists, ShowcaseIsOne

\* A click of any kind leaves the page settled.
LEMMA ClickSettles ==
    ASSUME NEW p \in Listing, page = p, CoreFor(p), ShowcaseIsOne, Click
    PROVE  CoreFor(p)'
<1>0. UNCHANGED <<db, excused>>
    BY DEF Click
<1>1. CASE p \in {"UserManagement", "RoleManagement", "ProfileSettings"}
    BY <1>0, <1>1, UserManagementClicks, RoleManagementClicks, ProfileSettingsClicks
       DEF Click, ClickOn
<1>2. CASE p \in {"WebhookManagement", "BackupManagement", "ScheduledTasks"}
    BY <1>0, <1>2, WebhookManagementClicks, BackupManagementClicks, ScheduledTasksClicks
       DEF Click, ClickOn
<1>3. CASE p \in {"RuntimeStatus", "Dashboard", "CacheManagement"}
    BY <1>0, <1>3, RuntimeStatusClicks, DashboardClicks, CacheManagementClicks DEF Click, ClickOn
<1>4. CASE p \in {"RepositoryList", "RepositoryDetail", "DownloadLogs", "AuditLogs"}
    BY <1>0, <1>4, RepositoryListClicks, RepositoryDetailClicks, DownloadLogsClicks, AuditLogsClicks
       DEF Click, ClickOn
<1>5. CASE p \in {"SecurityCenter", "VulnRuleManagement", "RiskAssessment"}
    BY <1>0, <1>5, SecurityCenterClicks, VulnRuleManagementClicks, RiskAssessmentClicks
       DEF Click, ClickOn
<1>6. CASE p \in {"PackageExplorer", "FileBrowser"}
    BY <1>0, <1>6, PackageExplorerClicks, FileBrowserClicks DEF Click, ClickOn
<1>7. CASE p = "BlockRuleList"
    <2>1. PICK k \in BlockRuleListOffers : BlockRuleListDo(k[1], k[2])
        BY <1>7 DEF Click, ClickOn
    <2>2. k[1] = "toggle" => k[2] \in Items
        BY <2>1 DEF BlockRuleListOffers, BlockRuleImportOffers, BlockRuleAIOffers,
            BlockRuleDialogOffers, BlockRuleFormOffers, On, For, Shown
    <2> QED BY <1>0, <1>7, <2>1, <2>2, BlockRuleListClicks
<1>8. CASE p = "PublicBrowse"
    BY <1>0, <1>8, PublicBrowseClicks DEF Click, ClickOn, ShowcaseIsOne
<1> QED BY <1>1, <1>2, <1>3, <1>4, <1>5, <1>6, <1>7, <1>8 DEF Listing, AllPages

\* And so does a handler that goes on.
LEMMA ReturnSettles ==
    ASSUME NEW p \in Listing, page = p, CoreFor(p), NEW n \in DOMAIN calls, Return(n)
    PROVE  CoreFor(p)'
<1>0. UNCHANGED db /\ calls[n].st # "sent"
    BY DEF Return
<1>1. CASE p \in {"UserManagement", "RoleManagement", "ProfileSettings"}
    BY <1>0, <1>1, UserManagementGoesOn, RoleManagementGoesOn, ProfileSettingsGoesOn DEF Return
<1>2. CASE p \in {"WebhookManagement", "BackupManagement", "ScheduledTasks"}
    BY <1>0, <1>2, WebhookManagementGoesOn, BackupManagementGoesOn, ScheduledTasksGoesOn DEF Return
<1>3. CASE p \in {"RuntimeStatus", "Dashboard", "CacheManagement"}
    BY <1>0, <1>3, RuntimeStatusGoesOn, DashboardGoesOn, CacheManagementGoesOn DEF Return
<1>4. CASE p \in {"RepositoryList", "RepositoryDetail", "DownloadLogs", "AuditLogs"}
    BY <1>0, <1>4, RepositoryListGoesOn, RepositoryDetailGoesOn, DownloadLogsGoesOn, AuditLogsGoesOn
       DEF Return
<1>5. CASE p \in {"SecurityCenter", "VulnRuleManagement", "RiskAssessment"}
    BY <1>0, <1>5, SecurityCenterGoesOn, VulnRuleManagementGoesOn, RiskAssessmentGoesOn DEF Return
<1>6. CASE p \in {"PackageExplorer", "FileBrowser", "BlockRuleList", "PublicBrowse"}
    BY <1>0, <1>6, PackageExplorerGoesOn, FileBrowserGoesOn, BlockRuleListGoesOn, PublicBrowseGoesOn
       DEF Return
<1> QED BY <1>1, <1>2, <1>3, <1>4, <1>5, <1>6 DEF Listing, AllPages

\* Every step of a visit keeps the invariant.
LEMMA ListsKept ==
    ASSUME ListsInv, \/ Click
                     \/ \E n \in DOMAIN calls : Serve(n) \/ Refuse(n) \/ NotFound(n)
                     \/ \E n \in DOMAIN calls : Return(n)
    PROVE  ListsInv'
<1>1. page' = page /\ PageIsOne
    BY Zenon DEF Click, Return, Serve, Refuse, NotFound, ListsInv
<1>2. ASSUME NEW p \in Listing, page = p PROVE CoreFor(p)'
    <2>1. CoreFor(p) /\ ShowcaseIsOne
        BY <1>2 DEF ListsInv, PageIsSettled
    <2> QED BY <1>2, <2>1, ClickSettles, ReturnSettles, NetworkSettles
<1>3. ASSUME page \in Listless PROVE NoneAsked(ui)'
    <2>1. NoneAsked(ui)
        BY <1>3 DEF ListsInv, PageHasNoLists
    <2>2. CASE Click
        BY <1>3, <2>1, <2>2, ListlessClicks DEF Click, ClickOn, Listless
    <2>3. CASE \E n \in DOMAIN calls : Return(n)
        BY <1>3, <2>1, <2>3, ListlessGoesOn DEF Return, Listless
    <2>4. CASE UNCHANGED ui
        BY <2>1, <2>4 DEF NoneAsked
    <2> QED BY Zenon, <2>2, <2>3, <2>4 DEF Serve, Refuse, NotFound
<1>5. ASSUME page = "PublicBrowse" PROVE OnlyShowcase'
    <2>1. CoreFor("PublicBrowse") /\ OnlyShowcase
        BY <1>5 DEF ListsInv, PageIsSettled, ShowcaseIsOne, Listing, AllPages
    <2>2. CASE Click
        <3>1. \E k \in PublicBrowseOffers : PublicBrowseDo(k[1], k[2])
            BY <1>5, <2>2 DEF Click, ClickOn
        <3> QED BY <2>1, <3>1, ShowcaseClicks
    <2>3. ASSUME NEW n \in DOMAIN calls, Return(n) PROVE OnlyShowcase'
        <3>1. PublicBrowseBack(n)
            BY <1>5, <2>3 DEF Return
        <3> QED BY <2>1, <3>1, ShowcaseGoesOn
    <2>4. ASSUME NEW n \in DOMAIN calls, Serve(n) \/ Refuse(n) \/ NotFound(n)
          PROVE  OnlyShowcase'
        <3>1. "PublicBrowse" \in Listing
            BY DEF Listing, AllPages
        <3>2. /\ UNCHANGED ui /\ DOMAIN calls' = DOMAIN calls
              /\ \A m \in DOMAIN calls : SameRequest(calls'[m], calls[m])
            BY <2>1, <2>4, <3>1, NetworkAnswers
        <3> QED BY <2>1, <3>2 DEF OnlyShowcase, SameRequest, InFront
    <2> QED BY <2>2, <2>3, <2>4
<1> QED
    BY <1>1, <1>2, <1>3, <1>5
       DEF ListsInv, PageIsOne, PageIsSettled, PageHasNoLists, ShowcaseIsOne

\* So does leaving: there is nothing left, on whatever page.
LEMMA NothingLeft ==
    ASSUME ListsInv, Leave
    PROVE  ListsInv'
<1>1. page' = None /\ None \notin AllPages
    BY ConsoleAssumption DEF Leave
<1> QED
    BY <1>1 DEF ListsInv, PageIsOne, PageIsSettled, PageHasNoLists, ShowcaseIsOne,
           Listing,
           Listless, AllPages

\* Every step keeps the invariant.
LEMMA ListsStep == ListsInv /\ [Next]_vars => ListsInv'
<1> SUFFICES ASSUME ListsInv, [Next]_vars PROVE ListsInv'
    OBVIOUS
<1>1. CASE Next
    BY <1>1, ListsKept, NothingLeft DEF Next, Network
<1>2. CASE UNCHANGED vars
    <2>1. UNCHANGED <<page, ui, db, calls, excused>>
        BY <1>2 DEF vars, kitVars
    <2>2. \A p : CoreFor(p) => CoreFor(p)'
        BY <2>1 DEF CoreFor
    <2> QED
        BY <2>1, <2>2
           DEF ListsInv, PageIsOne, PageIsSettled, PageHasNoLists, ShowcaseIsOne,
               OnlyShowcase,
               InFront
<1> QED BY <1>1, <1>2

\* When a page has come to rest, its lists show what the server has for the
\* query they answer, whichever of the page's handlers created, changed or
\* deleted what, and in whatever order the answers came: for any number of
\* rows, clicks, requests in flight and failures.
THEOREM ListsAreCurrent == Spec => []QuietListIsCurrent
<1>1. ListsInv => QuietListIsCurrent
    <2> SUFFICES ASSUME ListsInv, calls = <<>>,
                        page \notin {None, "StorageManagement", "SystemConfig"},
                        NEW c \in Collections, ui.asked[c] # None, ~excused[c]
                 PROVE  ui.rows[c] = View(c, ui.asked[c])
        BY DEF QuietListIsCurrent
    <2> DEFINE v == ViewOf(db[c], ui.asked[c])
    <2>1. CASE page \in Listing
        <3>1. CoreFor(page)
            BY <2>1 DEF ListsInv, PageIsSettled
        <3>2. Matches(calls, ui.rows[c], v, db[c], c)
            BY <3>1 DEF CoreFor, Settled, Trusted, Unsettling, UpToDate
        <3>3. \A i \in Items : ui.rows[c][i] = v[i]
            BY <3>2 DEF Matches
        <3>4. ui.rows[c] = [i \in Items |-> ui.rows[c][i]]
            BY <3>2 DEF Matches
        <3>5. v = [i \in Items |-> v[i]]
            BY ViewHolds
        <3> HIDE DEF v
        <3>6. ui.rows[c] = v
            BY <3>3, <3>4, <3>5
        <3> QED BY <3>6, ViewIs DEF v
    <2>2. CASE page \in Listless
        BY <2>2 DEF ListsInv, PageHasNoLists, NoneAsked
    <2>3. page \in AllPages
        BY DEF ListsInv, PageIsOne
    <2> QED BY <2>1, <2>2, <2>3 DEF Listing, Listless, AllPages
<1> QED BY ListsAtFirst, ListsStep, <1>1, PTL DEF Spec

----------------------------------------
(* Types: sending, taking out, marking *)

\* What the types of the pages rest on.  The pages whose form is filled from a
\* row and saved, those with a dialog that is, and those that send nothing but
\* lists.
FormPages == {"ProfileSettings", "BackupManagement", "SystemConfig", "CasSettingsPanel",
              "DownloadLogs"}
DialogPages == {"RoleManagement", "VulnRuleManagement", "BlockRuleList"}
ListPages == {"Dashboard", "RuntimeStatus", "AuditLogs"}

\* The dialogs that are filled from a row.
Filled == {"permissions", "editRule", "editSource", "edit"}

\* Refs u of page p have their types.
TypedRefs(p, u) ==
    /\ DOMAIN u = Refs
    /\ u.rows \in [Collections -> [Items -> RowStates]]
    /\ u.sel \subseteq Items
    /\ DOMAIN u.box = {"kind", "item", "data"} /\ u.box.item \in Items \cup {None}
    /\ p \in FormPages => u.form \in [Items -> RowStates]
    /\ p \in DialogPages /\ u.box.kind \in Filled => u.box.data \in RowStates
    /\ p = "DependencyGraph" /\ u.box.kind = "node" => u.box.data \in Seq(Items \cup {None})

\* Requests by what their handlers make of the answer: a list; something about
\* the row they name; the row changed, or the new one.
ListOps == {"loadUsers", "loadRoleOptions", "loadRoles", "loadPermissions", "loadTokens",
            "loadProfile", "loadWebhooks", "loadBackups", "loadScheduleConfig", "loadStorages",
            "load", "loadSystemInfo", "loadConnections", "loadConfigs", "loadConfig", "loadItems",
            "loadRepos", "loadRepo", "loadMembers", "loadLogs", "loadCleanupConfig",
            "loadVulnerabilities", "loadScanResults", "loadRules", "loadDataSources",
            "loadHistory", "search", "refresh", "loadDirectory", "showcase"}
GetOps == {"openAIReport", "openEditDialog", "searchNode", "getVersions", "viewDetail",
           "fetchPackageDetail", "refreshInBackground"}
UpdateOps == {"saveProfile", "toggleEnabled"}
CreateOps == {"runAssessment", "analyze"}
\* Those of a row: the others may name none.
RowOps == {"viewDetail", "fetchPackageDetail", "refreshInBackground", "saveProfile"}

\* Request r of page p, and the answer it has, have their types.
TypedReq(p, r) ==
    /\ Fields \subseteq DOMAIN r
    /\ r.kind \in Kinds /\ r.col \in Collections /\ r.st \in {"sent", "ok", "err"}
    /\ r.kind # "create" => r.item \in Items \cup {None}
    /\ r.kind = "create" => r.arg = 1
    /\ r.kind = "update" => r.arg \in RowStates
    /\ r.kind = "save" => r.arg \in [Items -> RowStates]
    /\ r.st = "ok" => /\ r.kind = "list" => r.reply \in [Items -> RowStates]
                      /\ r.kind = "create" => r.reply \in Items
                      /\ r.kind \notin {"list", "create"} /\ r.item \in Items => r.reply \in RowStates
    /\ r.op \in ListOps \/ p \in ListPages => r.kind = "list"
    /\ r.op \in GetOps => r.kind = "get"
    /\ r.op \in UpdateOps => r.kind = "update"
    /\ r.op \in CreateOps => r.kind = "create"
    /\ r.op = "saveConfigs" => r.kind = "save"
    /\ r.op \in RowOps => r.item \in Items
    /\ r.op = "onBatchDelete" => r.arg \subseteq Items

\* cs is a sequence of such requests.
TypedReqs(p, cs) == IsSeq(cs) /\ \A m \in DOMAIN cs : TypedReq(p, cs[m])

\* Page p, mounted, has its types.
TypedPage(p) == TypedRefs(p, ui) /\ TypedReqs(p, calls)

\* Requests join those in flight.
LEMMA TypedSending ==
    ASSUME NEW p, NEW cs, NEW S, TypedReqs(p, cs), TypedReqs(p, S)
    PROVE  TypedReqs(p, Sending(cs, S))
<1> DEFINE Clean == [k \in DOMAIN S |-> [S[k] EXCEPT !.clean = ~Pending(cs, S[k].col)]]
<1>1. PICK T : cs \in Seq(T)
    BY DEF TypedReqs, IsSeq
<1>2. PICK U : S \in Seq(U)
    BY DEF TypedReqs, IsSeq
<1>3. Clean \in Seq({Clean[k] : k \in DOMAIN S}) /\ Len(Clean) = Len(S)
    BY <1>2
<1>4. \A k \in DOMAIN S : TypedReq(p, Clean[k])
    <2> TAKE k \in DOMAIN S
    <2> DEFINE r == S[k]
               b == ~Pending(cs, S[k].col)
    <2>1. Clean[k] = [r EXCEPT !.clean = b] /\ TypedReq(p, r)
        BY DEF TypedReqs
    <2> HIDE DEF r, b, Clean
    <2> QED BY <2>1 DEF TypedReq
<1> DEFINE V == T \cup {Clean[k] : k \in DOMAIN S}
<1>5. cs \in Seq(V) /\ Clean \in Seq(V)
    BY <1>1, <1>3
<1>6. Sending(cs, S) = cs \o Clean
    BY DEF Sending
<1> HIDE DEF V
<1>7. DOMAIN cs = 1..Len(cs) /\ Len(cs) \in Nat /\ DOMAIN S = 1..Len(S) /\ Len(S) \in Nat
    BY <1>1, <1>2
<1>8. DOMAIN Clean = 1..Len(S)
    BY <1>7
<1> HIDE DEF Clean
<1>9. /\ cs \o Clean \in Seq(V) /\ Len(cs \o Clean) = Len(cs) + Len(Clean)
      /\ \A k \in 1..(Len(cs) + Len(Clean)) :
            (cs \o Clean)[k] = IF k <= Len(cs) THEN cs[k] ELSE Clean[k - Len(cs)]
    BY <1>5, Concatenated
<1> DEFINE ds == cs \o Clean
<1> HIDE DEF ds
<1>10. ASSUME NEW m \in DOMAIN ds PROVE TypedReq(p, ds[m])
    <2>1. m \in 1..(Len(cs) + Len(Clean)) /\ Len(cs) \in Nat /\ Len(Clean) \in Nat
        BY <1>3, <1>7, <1>9 DEF ds
    <2>2. CASE m <= Len(cs)
        <3>1. ds[m] = cs[m] /\ m \in DOMAIN cs
            BY <1>7, <1>9, <2>1, <2>2 DEF ds
        <3> QED BY <3>1 DEF TypedReqs
    <2>3. CASE ~(m <= Len(cs))
        <3>1. ds[m] = Clean[m - Len(cs)] /\ m - Len(cs) \in DOMAIN S
            BY <1>3, <1>7, <1>9, <2>1, <2>3 DEF ds
        <3> QED BY <1>4, <3>1
    <2> QED BY <2>2, <2>3
<1>11. IsSeq(ds)
    BY <1>9 DEF ds, IsSeq
<1> QED BY <1>6, <1>10, <1>11 DEF ds, TypedReqs

\* One leaves.
LEMMA TypedRest ==
    ASSUME NEW p, NEW cs, TypedReqs(p, cs), NEW n \in DOMAIN cs
    PROVE  TypedReqs(p, RemoveAt(cs, n))
<1>1. IsSeq(cs)
    BY DEF TypedReqs
<1>2. /\ IsSeq(RemoveAt(cs, n)) /\ DOMAIN RemoveAt(cs, n) = 1..(Len(cs) - 1)
      /\ \A k \in 1..(Len(cs) - 1) : RemoveAt(cs, n)[k] = IF k < n THEN cs[k] ELSE cs[k + 1]
    BY <1>1, RemovedAt
<1>3. DOMAIN cs = 1..Len(cs) /\ Len(cs) \in Nat
    BY <1>1, SeqDomain
<1>4. \A k \in 1..(Len(cs) - 1) : k \in DOMAIN cs /\ k + 1 \in DOMAIN cs
    BY <1>3
<1> QED BY <1>2, <1>4 DEF TypedReqs

\* Marks change no type.
LEMMA TypedMarks ==
    ASSUME NEW p, NEW cs, TypedReqs(p, cs), NEW c
    PROVE  TypedReqs(p, Released(cs, c)) /\ TypedReqs(p, Distrust(cs, c))
<1>1. IsSeq(cs) /\ \A m \in DOMAIN cs : TypedReq(p, cs[m])
    BY DEF TypedReqs
<1>2. DOMAIN cs = 1..Len(cs) /\ Len(cs) \in Nat
    BY <1>1, SeqDomain
<1>3. \A r : TypedReq(p, r) => /\ TypedReq(p, [r EXCEPT !.held = FALSE])
                               /\ TypedReq(p, [r EXCEPT !.stale = TRUE])
    BY DEF TypedReq
<1>4. ASSUME NEW ds, ds = [m \in DOMAIN cs |-> ds[m]],
             \A m \in DOMAIN cs : \/ ds[m] = cs[m] \/ ds[m] = [cs[m] EXCEPT !.held = FALSE]
                                  \/ ds[m] = [cs[m] EXCEPT !.stale = TRUE]
      PROVE  TypedReqs(p, ds)
    <2>1. IsSeq(ds) /\ DOMAIN ds = DOMAIN cs
        BY <1>2, <1>4, FunctionIsSeq
    <2>2. \A m \in DOMAIN cs : TypedReq(p, ds[m])
        BY <1>1, <1>3, <1>4
    <2> QED BY <2>1, <2>2 DEF TypedReqs
<1> DEFINE a == Released(cs, c)
           b == Distrust(cs, c)
<1>5. /\ a = [m \in DOMAIN cs |-> a[m]]
      /\ \A m \in DOMAIN cs : a[m] = cs[m] \/ a[m] = [cs[m] EXCEPT !.held = FALSE]
    BY DEF Released
<1>6. /\ b = [m \in DOMAIN cs |-> b[m]]
      /\ \A m \in DOMAIN cs : b[m] = cs[m] \/ b[m] = [cs[m] EXCEPT !.stale = TRUE]
    BY DEF Distrust
<1> SUFFICES TypedReqs(p, a) /\ TypedReqs(p, b)
    OBVIOUS
<1> HIDE DEF a, b
<1> QED BY <1>4, <1>5, <1>6

\* Do and Then keep the types if the refs and the requests they are given have them.
LEMMA TypedDo ==
    ASSUME NEW p, TypedPage(p), NEW u, NEW S, TypedRefs(p, u), TypedReqs(p, S), Do(u, S)
    PROVE  TypedPage(p)'
<1> DEFINE x == u.spin \cup Flags(S)
<1>1. ui' = [u EXCEPT !.spin = x] /\ calls' = Sending(calls, S)
    BY DEF Do
<1> HIDE DEF x
<1>2. TypedRefs(p, ui')
    BY <1>1 DEF TypedRefs, Refs
<1>3. TypedReqs(p, calls')
    BY <1>1, TypedSending DEF TypedPage
<1> QED BY <1>2, <1>3 DEF TypedPage

\* The second half.
LEMMA TypedThen ==
    ASSUME NEW p, TypedPage(p), NEW n \in DOMAIN calls, NEW u, NEW S, TypedRefs(p, u),
           TypedReqs(p, S), Then(n, u, S)
    PROVE  TypedPage(p)'
<1> DEFINE x == (u.spin \ calls[n].clears) \cup Flags(S)
           others == RemoveAt(calls, n)
           c == calls[n].col
<1>1. ui' = [u EXCEPT !.spin = x]
    BY DEF Then
<1>2. PICK rest, last : /\ rest \in {others, Released(others, c)}
                        /\ last \in {rest, Distrust(rest, c)}
                        /\ calls' = Sending(last, S)
    BY DEF Then
<1>3. TypedReqs(p, others)
    BY TypedRest DEF TypedPage
<1> HIDE DEF x, others, c
<1>4. TypedRefs(p, ui')
    BY <1>1 DEF TypedRefs, Refs
<1>5. TypedReqs(p, rest)
    BY <1>2, <1>3, TypedMarks
<1>6. TypedReqs(p, last)
    BY <1>2, <1>5, TypedMarks
<1>7. TypedReqs(p, calls')
    BY <1>2, <1>6, TypedSending
<1> QED BY <1>4, <1>7 DEF TypedPage

\* Ops that TypedReq says something of.
NamedOps == ListOps \cup GetOps \cup UpdateOps \cup CreateOps \cup RowOps
            \cup {"saveConfigs", "onBatchDelete"}

\* A request as it is sent has its types, if the row and the values it is given
\* have theirs and its handler is of the sort it is sent for.
LEMMA TypedRequests ==
    ASSUME NEW p
    PROVE  /\ \A op, col, u, clears : col \in Collections /\ (op \in ListOps \/ op \notin NamedOps)
                => TypedReq(p, List(op, col, u, clears))
           /\ p \notin ListPages =>
                /\ \A op, col, i, clears :
                     /\ col \in Collections /\ i \in Items \cup {None}
                     /\ op \notin NamedOps \/ (op \in GetOps /\ (op \in RowOps => i \in Items))
                     => TypedReq(p, Get(op, col, i, clears))
                /\ \A op, col, i, v, clears :
                     /\ col \in Collections /\ i \in Items \cup {None} /\ v \in RowStates
                     /\ op \notin NamedOps \/ (op \in UpdateOps /\ (op \in RowOps => i \in Items))
                     => TypedReq(p, Update(op, col, i, v, clears))
                /\ \A op, col, clears : col \in Collections
                      /\ (op \in CreateOps \/ op \notin NamedOps)
                     => TypedReq(p, Create(op, col, clears))
                /\ \A op, col, v, clears : col \in Collections /\ op \notin NamedOps
                     => TypedReq(p, CreateNext(op, col, v, clears))
                /\ \A op, col, v, clears :
                     /\ col \in Collections /\ v \in [Items -> RowStates]
                     /\ op = "saveConfigs" \/ op \notin NamedOps
                     => TypedReq(p, Save(op, col, v, clears))
                /\ \A op, col, i, v, clears :
                     /\ col \in Collections /\ i \in Items \cup {None} /\ v \subseteq Items
                     /\ op = "onBatchDelete" \/ op \notin NamedOps
                     => TypedReq(p, DeleteNext(op, col, i, v, clears))
                /\ \A op, col, i, clears : col \in Collections /\ i \in Items \cup {None}
                      /\ op \notin NamedOps
                     => TypedReq(p, Delete(op, col, i, clears))
                /\ \A op, col, i, v, clears : col \in Collections /\ i \in Items \cup {None}
                      /\ op \notin NamedOps
                     => TypedReq(p, Evict(op, col, i, v, clears))
                /\ \A op, col, v, clears : col \in Collections /\ op \notin NamedOps
                     => TypedReq(p, Clear(op, col, v, clears)) /\ TypedReq(p, Purge(op, col, v, clears))
                /\ \A op, i, clears : i \in Items \cup {None} /\ op \notin NamedOps
                     => TypedReq(p, Act(op, i, clears))
<1>1. ASSUME NEW kind \in Kinds, NEW op, NEW item, NEW arg, NEW c \in Collections, NEW clears,
             kind # "create" => item \in Items \cup {None},
             kind = "create" => arg = 1,
             kind = "update" => arg \in RowStates,
             kind = "save" => arg \in [Items -> RowStates],
             op \in ListOps \/ p \in ListPages => kind = "list",
             op \in GetOps => kind = "get",
             op \in UpdateOps => kind = "update",
             op \in CreateOps => kind = "create",
             op = "saveConfigs" => kind = "save",
             op \in RowOps => item \in Items,
             op = "onBatchDelete" => arg \subseteq Items
      PROVE  TypedReq(p, Request(kind, op, c, item, arg, clears))
    BY <1>1 DEF TypedReq, Request, Fields
<1>2. \A op :
        /\ op \in GetOps => op \notin ListOps \cup UpdateOps \cup CreateOps \cup {"saveConfigs", "onBatchDelete"}
        /\ op \in ListOps => op \notin RowOps \cup UpdateOps \cup CreateOps \cup GetOps \cup {"saveConfigs", "onBatchDelete"}
        /\ op \in UpdateOps => op \notin CreateOps \cup GetOps \cup ListOps \cup {"saveConfigs", "onBatchDelete"}
        /\ op \in CreateOps \/ op \in {"saveConfigs", "onBatchDelete"} => op \notin RowOps
        /\ op \in CreateOps => op \notin ListOps \cup UpdateOps \cup GetOps \cup {"saveConfigs", "onBatchDelete"}
        /\ op \in {"saveConfigs", "onBatchDelete"} => op \notin ListOps \cup UpdateOps \cup GetOps \cup CreateOps
    BY DEF ListOps, GetOps, UpdateOps, CreateOps, RowOps
<1>3. \A op : op \notin NamedOps <=> op \notin ListOps \cup GetOps \cup UpdateOps \cup CreateOps \cup RowOps
                                     \cup {"saveConfigs", "onBatchDelete"}
    BY DEF NamedOps
<1>4. 1 \in Collections
    BY DEF Collections
<1>5. {"list", "get", "create", "update", "save", "delete", "evict", "clear", "purge", "act"} = Kinds
    BY DEF Kinds
<1>6. ASSUME NEW op, NEW col \in Collections, NEW u, NEW clears, op \in ListOps \/ op \notin NamedOps
      PROVE  TypedReq(p, List(op, col, u, clears))
    BY <1>1, <1>2, <1>3, <1>5, <1>6 DEF List
<1>7. ASSUME p \notin ListPages, NEW op, NEW col \in Collections, NEW i \in Items \cup {None}, NEW clears,
             op \notin NamedOps \/ (op \in GetOps /\ (op \in RowOps => i \in Items))
      PROVE  TypedReq(p, Get(op, col, i, clears))
    BY <1>1, <1>2, <1>3, <1>5, <1>7 DEF Get
<1>8. ASSUME p \notin ListPages, NEW op, NEW col \in Collections, NEW i \in Items \cup {None},
             NEW v \in RowStates, NEW clears,
             op \notin NamedOps \/ (op \in UpdateOps /\ (op \in RowOps => i \in Items))
      PROVE  TypedReq(p, Update(op, col, i, v, clears))
    BY <1>1, <1>2, <1>3, <1>5, <1>8 DEF Update
<1>9. ASSUME p \notin ListPages, NEW op, NEW col \in Collections, NEW clears,
             op \in CreateOps \/ op \notin NamedOps
      PROVE  TypedReq(p, Create(op, col, clears))
    BY <1>1, <1>2, <1>3, <1>5, <1>9 DEF Create
<1>10. ASSUME p \notin ListPages, NEW op, NEW col \in Collections, NEW v, NEW clears, op \notin NamedOps
       PROVE  TypedReq(p, CreateNext(op, col, v, clears))
    BY <1>1, <1>3, <1>5, <1>10 DEF CreateNext
<1>11. ASSUME p \notin ListPages, NEW op, NEW col \in Collections, NEW v \in [Items -> RowStates], NEW clears,
              op = "saveConfigs" \/ op \notin NamedOps
       PROVE  TypedReq(p, Save(op, col, v, clears))
    BY <1>1, <1>2, <1>3, <1>5, <1>11 DEF Save
<1>12. ASSUME p \notin ListPages, NEW op, NEW col \in Collections, NEW i \in Items \cup {None},
              NEW v, v \subseteq Items, NEW clears, op = "onBatchDelete" \/ op \notin NamedOps
       PROVE  TypedReq(p, DeleteNext(op, col, i, v, clears))
    BY <1>1, <1>2, <1>3, <1>5, <1>12 DEF DeleteNext
<1>13. ASSUME p \notin ListPages, NEW op, NEW col \in Collections, NEW i \in Items \cup {None},
              NEW v, NEW clears, op \notin NamedOps
       PROVE  /\ TypedReq(p, Delete(op, col, i, clears)) /\ TypedReq(p, Evict(op, col, i, v, clears))
              /\ TypedReq(p, Clear(op, col, v, clears)) /\ TypedReq(p, Purge(op, col, v, clears))
              /\ TypedReq(p, Act(op, i, clears))
    BY <1>1, <1>3, <1>4, <1>5, <1>13 DEF Delete, Evict, Clear, Purge, Act
<1> QED BY <1>4, <1>6, <1>7, <1>8, <1>9, <1>10, <1>11, <1>12, <1>13

\* Requests one, two and three at a time.
LEMMA TypedFew ==
    \A p : /\ TypedReqs(p, <<>>)
           /\ \A r : TypedReq(p, r) => TypedReqs(p, <<r>>)
           /\ \A r, s : TypedReq(p, r) /\ TypedReq(p, s) => TypedReqs(p, <<r, s>>)
           /\ \A r, s, t : TypedReq(p, r) /\ TypedReq(p, s) /\ TypedReq(p, t) => TypedReqs(p, <<r, s, t>>)
<1> TAKE p
<1>0. TypedReqs(p, <<>>)
    BY DEF TypedReqs, IsSeq
<1>1. ASSUME NEW r, TypedReq(p, r) PROVE TypedReqs(p, <<r>>)
    <2>1. <<r>> \in Seq({r}) /\ DOMAIN <<r>> = {1} /\ <<r>>[1] = r
        OBVIOUS
    <2> QED BY <1>1, <2>1 DEF TypedReqs, IsSeq
<1>2. ASSUME NEW r, NEW s, TypedReq(p, r), TypedReq(p, s) PROVE TypedReqs(p, <<r, s>>)
    <2>1. <<r, s>> \in Seq({r, s}) /\ DOMAIN <<r, s>> = {1, 2} /\ <<r, s>>[1] = r /\ <<r, s>>[2] = s
        OBVIOUS
    <2> QED BY <1>2, <2>1 DEF TypedReqs, IsSeq
<1>3. ASSUME NEW r, NEW s, NEW t, TypedReq(p, r), TypedReq(p, s), TypedReq(p, t)
      PROVE  TypedReqs(p, <<r, s, t>>)
    <2>1. <<r, s, t>> \in Seq({r, s, t}) /\ DOMAIN <<r, s, t>> = {1, 2, 3}
          /\ <<r, s, t>>[1] = r /\ <<r, s, t>>[2] = s /\ <<r, s, t>>[3] = t
        OBVIOUS
    <2> QED BY <1>3, <2>1 DEF TypedReqs, IsSeq
<1> QED BY <1>0, <1>1, <1>2, <1>3

----------------------------------------
(* Edits that keep the types of the refs *)

\* Edits that keep the types of the refs: of refs whose type is not asked for,
LEMMA TypedPlainEdits ==
    \A p, u, x, y : TypedRefs(p, u) =>
        /\ TypedRefs(p, [u EXCEPT !.q = x]) /\ TypedRefs(p, [u EXCEPT !.spin = x])
        /\ TypedRefs(p, [u EXCEPT !.tab = x]) /\ TypedRefs(p, [u EXCEPT !.mode = x])
        /\ TypedRefs(p, [u EXCEPT !.timers = x]) /\ TypedRefs(p, [u EXCEPT !.tab = x, !.mode = y])
BY DEF TypedRefs, Refs

\* of ticked rows and of a form,
LEMMA TypedFormEdits ==
    \A p, u : TypedRefs(p, u) =>
        /\ \A x : x \subseteq Items => TypedRefs(p, [u EXCEPT !.sel = x])
        /\ \A x, y : x \subseteq Items => /\ TypedRefs(p, [u EXCEPT !.tab = y, !.sel = x])
                                          /\ TypedRefs(p, [u EXCEPT !.q = y, !.sel = x])
                                          /\ TypedRefs(p, [u EXCEPT !.sel = x, !.q = y])
        /\ \A z : p \notin FormPages \/ z \in [Items -> RowStates] => TypedRefs(p, [u EXCEPT !.form = z])
        /\ \A x, z : x \subseteq Items /\ p \notin FormPages => TypedRefs(p, [u EXCEPT !.sel = x, !.form = z])
BY DEF TypedRefs, Refs

\* What may be in the dialog of page p.
Boxed(p, b) ==
    /\ DOMAIN b = {"kind", "item", "data"} /\ b.item \in Items \cup {None}
    /\ p \in DialogPages /\ b.kind \in Filled => b.data \in RowStates
    /\ p = "DependencyGraph" /\ b.kind = "node" => b.data \in Seq(Items \cup {None})

\* of the dialog,
LEMMA TypedBoxEdits ==
    \A p, u, b, x, y : TypedRefs(p, u) =>
        /\ Boxed(p, u.box)
        /\ Boxed(p, b) =>
             /\ TypedRefs(p, [u EXCEPT !.box = b])
             /\ p \notin FormPages => /\ TypedRefs(p, [u EXCEPT !.box = b, !.form = x])
                                      /\ TypedRefs(p, [u EXCEPT !.box = b, !.mode = y, !.form = x])
        /\ Boxed(p, [u.box EXCEPT !.data = x]) => TypedRefs(p, [u EXCEPT !.box.data = x])
        /\ Boxed(p, [u.box EXCEPT !.item = x]) => TypedRefs(p, [u EXCEPT !.box.item = x])
        /\ Boxed(p, [u.box EXCEPT !.kind = x]) => TypedRefs(p, [u EXCEPT !.box.kind = x])
BY DEF TypedRefs, Boxed, Refs

\* What a click or an answer puts into a dialog.
LEMMA TypedBoxes ==
    \A p, k, x, d, b :
        /\ (p \in DialogPages => k \notin Filled \/ d \in RowStates) /\ p # "DependencyGraph"
           => /\ x \in Items \cup {None} => Boxed(p, [kind |-> k, item |-> x, data |-> d])
              /\ Boxed(p, b) /\ k = b.kind => Boxed(p, [b EXCEPT !.data = d])
        /\ Boxed(p, b) /\ x \in Items \cup {None} => Boxed(p, [b EXCEPT !.item = x])
        /\ Boxed(p, NoDialog)
BY DEF Boxed, NoDialog, Filled

\* and of the rows.
LEMMA TypedRowEdits ==
    \A p, u, c, x, y, z : TypedRefs(p, u) /\ x \in [Items -> RowStates] =>
        /\ TypedRefs(p, [u EXCEPT !.rows[c] = x])
        /\ TypedRefs(p, [u EXCEPT !.rows[c] = x, !.asked[c] = y])
        /\ TypedRefs(p, [u EXCEPT !.rows[c] = x, !.more = z, !.asked[c] = y])
<1> TAKE p, u, c, x, y, z
<1> HAVE TypedRefs(p, u) /\ x \in [Items -> RowStates]
<1> DEFINE rows == [u.rows EXCEPT ![c] = x]
           asked == [u.asked EXCEPT ![c] = y]
<1>1. rows \in [Collections -> [Items -> RowStates]]
    BY DEF TypedRefs
<1>2. /\ [u EXCEPT !.rows[c] = x] = [u EXCEPT !.rows = rows]
      /\ [u EXCEPT !.rows[c] = x, !.asked[c] = y] = [u EXCEPT !.rows = rows, !.asked = asked]
      /\ [u EXCEPT !.rows[c] = x, !.more = z, !.asked[c] = y]
            = [u EXCEPT !.rows = rows, !.more = z, !.asked = asked]
    BY DEF TypedRefs, Refs
<1> HIDE DEF rows, asked
<1>3. /\ TypedRefs(p, [u EXCEPT !.rows = rows])
      /\ TypedRefs(p, [u EXCEPT !.rows = rows, !.asked = asked])
      /\ TypedRefs(p, [u EXCEPT !.rows = rows, !.more = z, !.asked = asked])
    BY <1>1 DEF TypedRefs, Refs
<1> QED BY <1>2, <1>3

\* A row of a list of them.
LEMMA TypedRow ==
    \A rows, c, i, v : rows \in [Collections -> [Items -> RowStates]] /\ v \in RowStates =>
        [rows EXCEPT ![c][i] = v] \in [Collections -> [Items -> RowStates]]
OBVIOUS

\* States of a row.
LEMMA Flipped == \A v : flip(v) \in RowStates /\ (v \in RowStates => filled(v) \in RowStates)
BY DEF flip, filled, RowStates

\* A click on page p.
LEMMA TypedClicks ==
    ASSUME NEW p, TypedPage(p)
    PROVE  /\ TypedRefs(p, ui)
           /\ \A u, S : TypedRefs(p, u) /\ TypedReqs(p, S) /\ Do(u, S) => TypedPage(p)'
BY TypedDo DEF TypedPage

\* An answer on page p, and the list it may have brought.
LEMMA TypedAnswers ==
    ASSUME NEW p, TypedPage(p), NEW n \in DOMAIN calls
    PROVE  /\ TypedRefs(p, ui) /\ TypedReq(p, calls[n])
           /\ \A u, S : TypedRefs(p, u) /\ TypedReqs(p, S) /\ Then(n, u, S) => TypedPage(p)'
           /\ calls[n].kind = "list" /\ Ok(n) => /\ calls[n].reply \in [Items -> RowStates]
                                                 /\ TypedRefs(p, Listed(n))
<1>1. TypedRefs(p, ui) /\ TypedReq(p, calls[n])
    BY DEF TypedPage, TypedReqs
<1>2. \A u, S : TypedRefs(p, u) /\ TypedReqs(p, S) /\ Then(n, u, S) => TypedPage(p)'
    BY TypedThen
<1>3. ASSUME calls[n].kind = "list", Ok(n)
      PROVE  calls[n].reply \in [Items -> RowStates] /\ TypedRefs(p, Listed(n))
    <2>1. calls[n].reply \in [Items -> RowStates]
        BY <1>1, <1>3 DEF TypedReq, Ok
    <2> QED BY <1>1, <2>1 DEF Listed, TypedRefs, Refs
<1> QED BY <1>1, <1>2, <1>3

----------------------------------------
(* Page by page: the types of what it sends, clicks and answers *)

\* The types of UserManagement: what it sends, its clicks and its answers.
LEMMA UserManagementSendsTyped ==
    \A u, i, v, clears : LET p == "UserManagement" IN
        /\ TypedReq(p, loadUsers(u)) /\ TypedReq(p, loadRoleOptions(u))
        /\ TypedReq(p, Create("createUser", 1, clears))
        /\ i \in Items \cup {None} =>
             /\ TypedReq(p, Act("assignRoles", i, clears))
             /\ TypedReq(p, Act("resetPassword", i, clears))
             /\ v \in RowStates => TypedReq(p, Update("toggleActive", 1, i, v, clears))
             /\ TypedReq(p, Delete("handleDelete", 1, i, clears))
BY TypedRequests
   DEF NamedOps, ListOps, GetOps, UpdateOps, CreateOps, RowOps, ListPages, Collections,
       loadUsers, loadRoleOptions

\* The clicks on UserManagement.
LEMMA UserManagementClicksTyped ==
    ASSUME TypedPage("UserManagement"), NEW e, NEW i \in Items \cup {None}, UserManagementDo(e, i)
    PROVE  TypedPage("UserManagement")'
<1>1. ui.box.item \in Items \cup {None}
    BY DEF TypedPage, TypedRefs
<1> QED
    BY Zenon, <1>1, TypedClicks, TypedPlainEdits, TypedBoxEdits, TypedBoxes, Flipped,
       UserManagementSendsTyped, TypedFew
       DEF UserManagementDo, Opened, Closed, DialogPages, FormPages

\* Its answers.
LEMMA UserManagementAnswersTyped ==
    ASSUME TypedPage("UserManagement"), NEW n \in DOMAIN calls, UserManagementBack(n)
    PROVE  TypedPage("UserManagement")'
<1>1. calls[n].op \in {"loadUsers", "loadRoleOptions"} => calls[n].kind = "list"
    BY TypedAnswers DEF TypedReq, ListOps
<1> QED
    BY Zenon, <1>1, TypedAnswers, TypedBoxEdits, TypedBoxes, UserManagementSendsTyped, TypedFew
       DEF UserManagementBack, Op, Loaded, Failed, Closed

\* What RoleManagement sends.
LEMMA RoleManagementSendsTyped ==
    \A u, i, v, clears : LET p == "RoleManagement" IN
        /\ TypedReq(p, loadRoles)
        /\ TypedReq(p, List("loadRoles", 1, u, clears))
        /\ TypedReq(p, List("loadPermissions", 2, u, clears))
        /\ TypedReq(p, Create("createRole", 1, clears))
        /\ TypedReq(p, Create("cloneRole", 1, clears))
        /\ i \in Items \cup {None} =>
             /\ v \in RowStates => TypedReq(p, Update("updatePermissions", 1, i, v, clears))
             /\ TypedReq(p, Delete("deleteRole", 1, i, clears))
BY TypedRequests
   DEF NamedOps, ListOps, GetOps, UpdateOps, CreateOps, RowOps, ListPages, Collections, loadRoles

\* The clicks on RoleManagement.
LEMMA RoleManagementClicksTyped ==
    ASSUME TypedPage("RoleManagement"), NEW e, NEW i \in Items \cup {None}, RoleManagementDo(e, i)
    PROVE  TypedPage("RoleManagement")'
<1>1. ui.box.item \in Items \cup {None} /\ (InFront("permissions") => ui.box.data \in RowStates)
    BY DEF TypedPage, TypedRefs, InFront, Filled, DialogPages
<1>2. \A k \in {"create", "clone"} : k \notin Filled
    BY DEF Filled
<1> QED
    BY Zenon, <1>1, <1>2, TypedClicks, TypedPlainEdits, TypedBoxEdits, TypedBoxes, Flipped,
       RoleManagementSendsTyped, TypedFew
       DEF RoleManagementDo, Opened, Closed, FormPages

\* Its answers.
LEMMA RoleManagementAnswersTyped ==
    ASSUME TypedPage("RoleManagement"), NEW n \in DOMAIN calls, RoleManagementBack(n)
    PROVE  TypedPage("RoleManagement")'
<1>1. calls[n].op \in {"loadRoles", "loadPermissions"} => calls[n].kind = "list"
    BY TypedAnswers DEF TypedReq, ListOps
<1>2. \A k : TypedRefs("RoleManagement", IF InFront(k) THEN Closed ELSE ui)
    BY Zenon, TypedAnswers, TypedBoxEdits, TypedBoxes DEF Closed
<1> QED
    BY <1>1, <1>2, TypedAnswers, RoleManagementSendsTyped, TypedFew
       DEF RoleManagementBack, Op, Loaded, Failed

\* What ProfileSettings sends.
LEMMA ProfileSettingsSendsTyped ==
    \A u, i, v, clears : LET p == "ProfileSettings" IN
        /\ TypedReq(p, loadTokens)
        /\ TypedReq(p, List("loadProfile", 2, u, clears))
        /\ TypedReq(p, List("loadTokens", 1, u, clears))
        /\ TypedReq(p, Create("createToken", 1, clears))
        /\ TypedReq(p, Act("changePassword", None, clears))
        /\ v \in RowStates => TypedReq(p, Update("saveProfile", 2, Protected, v, clears))
        /\ i \in Items \cup {None} => TypedReq(p, Delete("deleteToken", 1, i, clears))
BY TypedRequests, KitAssumption
   DEF NamedOps, ListOps, GetOps, UpdateOps, CreateOps, RowOps, ListPages, Collections, loadTokens

\* The form of a page that has one, and what is typed into it.
LEMMA TypedForms ==
    ASSUME NEW p \in FormPages, TypedRefs(p, ui)
    PROVE  /\ ui.form \in [Items -> RowStates]
           /\ \A i : TypedRefs(p, [ui EXCEPT !.form[i] = flip(@)])
           /\ ui.form[Protected] \in RowStates /\ filled(ui.form[Protected]) \in RowStates
<1>1. ui.form \in [Items -> RowStates]
    BY DEF TypedRefs
<1>2. ASSUME NEW i PROVE TypedRefs(p, [ui EXCEPT !.form[i] = flip(@)])
    <2> DEFINE form == [ui.form EXCEPT ![i] = flip(@)]
    <2>1. form \in [Items -> RowStates]
        BY <1>1, Flipped
    <2>2. [ui EXCEPT !.form[i] = flip(@)] = [ui EXCEPT !.form = form]
        BY DEF TypedRefs, Refs
    <2> HIDE DEF form
    <2> QED BY Zenon, <2>1, <2>2, TypedFormEdits
<1>3. ui.form[Protected] \in RowStates
    BY <1>1, KitAssumption
<1> QED BY <1>1, <1>2, <1>3, Flipped

\* The clicks on ProfileSettings.
LEMMA ProfileSettingsClicksTyped ==
    ASSUME TypedPage("ProfileSettings"), NEW e, NEW i \in Items \cup {None},
           ProfileSettingsDo(e, i)
    PROVE  TypedPage("ProfileSettings")'
<1>1. "ProfileSettings" \in FormPages
    BY DEF FormPages
<1> QED
    BY Zenon, <1>1, TypedForms, TypedClicks, TypedBoxEdits, TypedBoxes, ProfileSettingsSendsTyped,
       TypedFew
       DEF ProfileSettingsDo, Opened, Closed, DialogPages

\* Its answers.
LEMMA ProfileSettingsAnswersTyped ==
    ASSUME TypedPage("ProfileSettings"), NEW n \in DOMAIN calls, ProfileSettingsBack(n)
    PROVE  TypedPage("ProfileSettings")'
<1>1. /\ calls[n].op \in {"loadTokens", "loadProfile"} => calls[n].kind = "list"
      /\ calls[n].op = "saveProfile" /\ Ok(n) => calls[n].reply \in RowStates
    BY TypedAnswers DEF TypedReq, ListOps, UpdateOps, RowOps, Ok
<1>2. calls[n].op = "saveProfile" /\ Ok(n) =>
        TypedRefs("ProfileSettings", [ui EXCEPT !.rows[2][Protected] = calls[n].reply])
    BY <1>1, TypedAnswers DEF TypedRefs, Refs
<1>3. calls[n].op = "loadProfile" /\ Ok(n) =>
        TypedRefs("ProfileSettings", [Listed(n) EXCEPT !.form = calls[n].reply])
    BY Zenon, <1>1, TypedAnswers, TypedFormEdits
<1>4. TypedRefs("ProfileSettings", Opened("token", None, 1))
    BY Zenon, TypedAnswers, TypedBoxEdits, TypedBoxes DEF Opened, DialogPages
<1> QED
    BY <1>1, <1>2, <1>3, <1>4, TypedAnswers, ProfileSettingsSendsTyped, TypedFew
       DEF ProfileSettingsBack, Op, Loaded, Failed

\* What WebhookManagement sends.
LEMMA WebhookManagementSendsTyped ==
    \A u, i, more, clears : LET p == "WebhookManagement" IN
        /\ TypedReq(p, loadWebhooks(u, more)) /\ TypedReq(p, Create("submitWebhook", 1, clears))
        /\ i \in Items \cup {None} =>
             /\ TypedReq(p, Update("submitWebhook", 1, i, 2, clears))
             /\ TypedReq(p, Act("testWebhook", i, clears))
             /\ TypedReq(p, Get("showDeliveryDialog", 1, i, clears))
             /\ TypedReq(p, Delete("handleDelete", 1, i, clears))
<1>1. 2 \in RowStates
    BY DEF RowStates
<1> QED
    BY <1>1, TypedRequests
       DEF NamedOps, ListOps, GetOps, UpdateOps, CreateOps, RowOps, ListPages, Collections,
           loadWebhooks

\* The clicks on WebhookManagement.
LEMMA WebhookManagementClicksTyped ==
    ASSUME TypedPage("WebhookManagement"), NEW e, NEW i \in Items \cup {None},
           WebhookManagementDo(e, i)
    PROVE  TypedPage("WebhookManagement")'
<1>1. ui.box.item \in Items \cup {None}
    BY DEF TypedPage, TypedRefs
<1> QED
    BY Zenon, <1>1, TypedClicks, TypedBoxEdits, TypedBoxes, WebhookManagementSendsTyped, TypedFew
       DEF WebhookManagementDo, Opened, Closed, DialogPages

\* Its answers.
LEMMA WebhookManagementAnswersTyped ==
    ASSUME TypedPage("WebhookManagement"), NEW n \in DOMAIN calls, WebhookManagementBack(n)
    PROVE  TypedPage("WebhookManagement")'
<1>1. calls[n].op = "loadWebhooks" => calls[n].kind = "list"
    BY TypedAnswers DEF TypedReq, ListOps
<1>2. Ok(n) /\ calls[n].op = "loadWebhooks" =>
        \A x : TypedRefs("WebhookManagement", [Listed(n) EXCEPT !.spin = x])
    BY <1>1, TypedAnswers, TypedPlainEdits
<1>3. \A x : TypedRefs("WebhookManagement", [ui EXCEPT !.box.data = x])
    BY Zenon, TypedAnswers, TypedBoxEdits, TypedBoxes DEF DialogPages
<1> QED
    BY Zenon, <1>1, <1>2, <1>3, TypedAnswers, TypedBoxEdits, TypedBoxes, WebhookManagementSendsTyped,
       TypedFew
       DEF WebhookManagementBack, Op, Failed, Closed

\* What BackupManagement sends.
LEMMA BackupManagementSendsTyped ==
    \A u, i, v, clears : LET p == "BackupManagement" IN
        /\ TypedReq(p, loadBackups(v)) /\ TypedReq(p, loadScheduleConfig(v))
        /\ TypedReq(p, List("loadBackups", 1, u, clears))
        /\ TypedReq(p, List("loadScheduleConfig", 2, u, clears))
        /\ TypedReq(p, Create("createBackup", 1, clears))
        /\ v \in RowStates => TypedReq(p, Update("saveScheduleConfig", 2, Protected, v, clears))
        /\ i \in Items \cup {None} => /\ TypedReq(p, Act("handleRestore", i, clears))
                                      /\ TypedReq(p, Delete("handleDelete", 1, i, clears))
BY TypedRequests, KitAssumption
   DEF NamedOps, ListOps, GetOps, UpdateOps, CreateOps, RowOps, ListPages, Collections,
       loadBackups, loadScheduleConfig

\* The clicks on BackupManagement.
LEMMA BackupManagementClicksTyped ==
    ASSUME TypedPage("BackupManagement"), NEW e, NEW i \in Items \cup {None},
           BackupManagementDo(e, i)
    PROVE  TypedPage("BackupManagement")'
<1>1. "BackupManagement" \in FormPages
    BY DEF FormPages
<1> QED
    BY Zenon, <1>1, TypedForms, TypedClicks, TypedBoxEdits, TypedBoxes, BackupManagementSendsTyped,
       TypedFew
       DEF BackupManagementDo, Opened, Closed, DialogPages

\* Its answers.
LEMMA BackupManagementAnswersTyped ==
    ASSUME TypedPage("BackupManagement"), NEW n \in DOMAIN calls, BackupManagementBack(n)
    PROVE  TypedPage("BackupManagement")'
<1>1. calls[n].op \in {"loadBackups", "loadScheduleConfig"} => calls[n].kind = "list"
    BY TypedAnswers DEF TypedReq, ListOps
<1>2. calls[n].op = "loadScheduleConfig" /\ Ok(n) =>
        TypedRefs("BackupManagement", [Listed(n) EXCEPT !.form = calls[n].reply])
    BY Zenon, <1>1, TypedAnswers, TypedFormEdits
<1>3. TypedRefs("BackupManagement", Closed)
    BY Zenon, TypedAnswers, TypedBoxEdits, TypedBoxes DEF Closed
<1> QED
    BY <1>1, <1>2, <1>3, TypedAnswers, BackupManagementSendsTyped, TypedFew
       DEF BackupManagementBack, Op, Loaded, Failed

\* What StorageManagement sends.
LEMMA StorageManagementSendsTyped ==
    \A u, i, more, clears : LET p == "StorageManagement" IN
        /\ TypedReq(p, loadStorages(more)) /\ TypedReq(p, List("loadStorages", 1, u, clears))
        /\ TypedReq(p, Create("handleSubmit", 1, clears))
        /\ i \in Items \cup {None} =>
             /\ TypedReq(p, Update("handleSubmit", 1, i, 2, clears))
             /\ TypedReq(p, Act("handleSetDefault", i, clears))
             /\ TypedReq(p, Act("handleTest", i, clears))
             /\ TypedReq(p, Delete("handleDelete", 1, i, clears))
<1>1. 2 \in RowStates
    BY DEF RowStates
<1> QED
    BY <1>1, TypedRequests
       DEF NamedOps, ListOps, GetOps, UpdateOps, CreateOps, RowOps, ListPages, Collections,
           loadStorages

\* The clicks on StorageManagement.
LEMMA StorageManagementClicksTyped ==
    ASSUME TypedPage("StorageManagement"), NEW e, NEW i \in Items \cup {None},
           StorageManagementDo(e, i)
    PROVE  TypedPage("StorageManagement")'
<1>1. ui.box.item \in Items \cup {None}
    BY DEF TypedPage, TypedRefs
<1>2. \A j : TypedRefs("StorageManagement", [ui EXCEPT !.rows[1][j] = IF @ = 0 THEN 0 ELSE 2])
    <2> TAKE j
    <2> DEFINE v == IF ui.rows[1][j] = 0 THEN 0 ELSE 2
               rows == [ui.rows EXCEPT ![1][j] = v]
    <2>1. rows \in [Collections -> [Items -> RowStates]]
        <3>1. v \in RowStates /\ ui.rows \in [Collections -> [Items -> RowStates]]
            BY TypedClicks DEF TypedRefs, RowStates
        <3> HIDE DEF v
        <3> QED BY <3>1, TypedRow
    <2>2. [ui EXCEPT !.rows[1][j] = IF @ = 0 THEN 0 ELSE 2] = [ui EXCEPT !.rows = rows]
        BY TypedClicks DEF TypedRefs, Refs, Collections
    <2> HIDE DEF rows
    <2>3. TypedRefs("StorageManagement", [ui EXCEPT !.rows = rows])
        BY <2>1, TypedClicks DEF TypedRefs, Refs
    <2> QED BY <2>2, <2>3
<1>3. TypedRefs("StorageManagement", [ui EXCEPT !.box.data = 2])
    BY Zenon, TypedClicks, TypedBoxEdits, TypedBoxes DEF DialogPages
<1> QED
    BY Zenon, <1>1, <1>2, <1>3, TypedClicks, TypedBoxEdits, TypedBoxes, StorageManagementSendsTyped,
       TypedFew
       DEF StorageManagementDo, Opened, Closed, DialogPages

\* Its answers.
LEMMA StorageManagementAnswersTyped ==
    ASSUME TypedPage("StorageManagement"), NEW n \in DOMAIN calls, StorageManagementBack(n)
    PROVE  TypedPage("StorageManagement")'
<1>1. calls[n].op = "loadStorages" => calls[n].kind = "list"
    BY TypedAnswers DEF TypedReq, ListOps
<1> QED
    BY Zenon, <1>1, TypedAnswers, TypedBoxEdits, TypedBoxes, StorageManagementSendsTyped, TypedFew
       DEF StorageManagementBack, Op, Loaded, Failed, Closed

\* What ScheduledTasks sends.
LEMMA ScheduledTasksSendsTyped ==
    \A u, i, more, clears : LET p == "ScheduledTasks" IN
        /\ TypedReq(p, loadTasks(more)) /\ TypedReq(p, List("load", 1, u, clears))
        /\ TypedReq(p, Act("saveInterval", None, clears))
        /\ i \in Items \cup {None} => /\ TypedReq(p, Update("save", 1, i, 2, clears))
                                      /\ TypedReq(p, Act("runNow", i, clears))
<1>1. 2 \in RowStates
    BY DEF RowStates
<1> QED
    BY <1>1, TypedRequests
       DEF NamedOps, ListOps, GetOps, UpdateOps, CreateOps, RowOps, ListPages, Collections,
           loadTasks

\* The clicks on ScheduledTasks.
LEMMA ScheduledTasksClicksTyped ==
    ASSUME TypedPage("ScheduledTasks"), NEW e, NEW i \in Items \cup {None}, ScheduledTasksDo(e, i)
    PROVE  TypedPage("ScheduledTasks")'
<1>1. ui.box.item \in Items \cup {None}
    BY DEF TypedPage, TypedRefs
<1> QED
    BY Zenon, <1>1, TypedClicks, TypedBoxEdits, TypedBoxes, ScheduledTasksSendsTyped, TypedFew
       DEF ScheduledTasksDo, Opened, Closed, DialogPages

\* Its answers.
LEMMA ScheduledTasksAnswersTyped ==
    ASSUME TypedPage("ScheduledTasks"), NEW n \in DOMAIN calls, ScheduledTasksBack(n)
    PROVE  TypedPage("ScheduledTasks")'
<1>1. calls[n].op = "load" => calls[n].kind = "list"
    BY TypedAnswers DEF TypedReq, ListOps
<1>2. Ok(n) /\ calls[n].op = "load" =>
        \A x : TypedRefs("ScheduledTasks", [Listed(n) EXCEPT !.spin = x])
    BY <1>1, TypedAnswers, TypedPlainEdits
<1>3. \A k : TypedRefs("ScheduledTasks", IF InFront(k) THEN Closed ELSE ui)
    BY Zenon, TypedAnswers, TypedBoxEdits, TypedBoxes DEF Closed
<1> QED
    BY <1>1, <1>2, <1>3, TypedAnswers, ScheduledTasksSendsTyped, TypedFew
       DEF ScheduledTasksBack, Op, Failed

\* RuntimeStatus, Dashboard and AuditLogs send lists and nothing else.
LEMMA ListPagesSendTyped ==
    \A u, clears : /\ TypedReq("RuntimeStatus", loadSystemInfo) /\ TypedReq("RuntimeStatus", loadConnections)
                   /\ TypedReq("Dashboard", List("loadStats", 1, u, clears))
                   /\ TypedReq("AuditLogs", loadAuditLogs(u))
BY TypedRequests DEF NamedOps, ListOps, GetOps, UpdateOps, CreateOps, RowOps, Collections,
       loadSystemInfo, loadConnections, loadAuditLogs

\* Their clicks.
LEMMA ListPagesClicksTyped ==
    ASSUME NEW e, NEW i \in Items \cup {None}
    PROVE  /\ TypedPage("RuntimeStatus") /\ RuntimeStatusDo(e, i) => TypedPage("RuntimeStatus")'
           /\ TypedPage("Dashboard") /\ DashboardDo(e, i) => TypedPage("Dashboard")'
           /\ TypedPage("AuditLogs") /\ AuditLogsDo(e, i) => TypedPage("AuditLogs")'
<1>1. ASSUME TypedPage("RuntimeStatus"), RuntimeStatusDo(e, i) PROVE TypedPage("RuntimeStatus")'
    BY Zenon, <1>1, TypedClicks, TypedPlainEdits, TypedFormEdits, ListPagesSendTyped, TypedFew
       DEF RuntimeStatusDo, ConnectionsDo
<1>2. ASSUME TypedPage("Dashboard"), DashboardDo(e, i) PROVE TypedPage("Dashboard")'
    BY <1>2, TypedClicks, ListPagesSendTyped, TypedFew DEF DashboardDo
<1>3. ASSUME TypedPage("AuditLogs"), AuditLogsDo(e, i) PROVE TypedPage("AuditLogs")'
    BY <1>3, TypedClicks, TypedPlainEdits, ListPagesSendTyped, TypedFew DEF AuditLogsDo
<1> QED BY <1>1, <1>2, <1>3

\* Their answers.
LEMMA ListPagesAnswersTyped ==
    ASSUME NEW p \in ListPages, TypedPage(p), NEW n \in DOMAIN calls,
           RuntimeStatusBack(n) \/ DashboardBack(n) \/ AuditLogsBack(n)
    PROVE  TypedPage(p)'
<1>1. calls[n].kind = "list"
    BY TypedAnswers DEF TypedReq
<1> QED BY <1>1, TypedAnswers, TypedFew DEF RuntimeStatusBack, DashboardBack, AuditLogsBack, Loaded

\* What SystemConfig and CasSettingsPanel send.
LEMMA SettingsSendTyped ==
    \A u, v, clears :
        /\ TypedReq("SystemConfig", List("loadConfigs", 1, u, clears))
        /\ v \in [Items -> RowStates] => TypedReq("SystemConfig", Save("saveConfigs", 1, v, clears))
        /\ TypedReq("CasSettingsPanel", List("loadConfig", 1, u, clears))
        /\ v \in RowStates => TypedReq("CasSettingsPanel", Update("saveConfig", 1, Protected, v, clears))
        /\ TypedReq("CasSettingsPanel", Act("testConnection", None, clears))
BY TypedRequests, KitAssumption
   DEF NamedOps, ListOps, GetOps, UpdateOps, CreateOps, RowOps, ListPages, Collections

\* The clicks on SystemConfig.
LEMMA SystemConfigClicksTyped ==
    ASSUME TypedPage("SystemConfig"), NEW e, NEW i \in Items \cup {None}, SystemConfigDo(e, i)
    PROVE  TypedPage("SystemConfig")'
<1>1. "SystemConfig" \in FormPages /\ TypedRefs("SystemConfig", ui)
    BY TypedClicks DEF FormPages
<1>2. ui.rows[1] \in [Items -> RowStates]
    BY <1>1 DEF TypedRefs, Collections
<1>3. changedValues \in [Items -> RowStates]
    BY <1>1, TypedForms DEF changedValues, RowStates
<1> QED
    BY Zenon, <1>1, <1>2, <1>3, TypedForms, TypedFormEdits, TypedClicks, SettingsSendTyped, TypedFew
       DEF SystemConfigDo

\* Its answers.
LEMMA SystemConfigAnswersTyped ==
    ASSUME TypedPage("SystemConfig"), NEW n \in DOMAIN calls, SystemConfigBack(n)
    PROVE  TypedPage("SystemConfig")'
<1>1. "SystemConfig" \in FormPages /\ TypedRefs("SystemConfig", ui)
    BY TypedAnswers DEF FormPages
<1>2. calls[n].op = "loadConfigs" => calls[n].kind = "list"
    BY TypedAnswers DEF TypedReq, ListOps
<1>3. calls[n].op = "loadConfigs" /\ Ok(n) =>
        TypedRefs("SystemConfig", [Listed(n) EXCEPT !.form = calls[n].reply])
    BY Zenon, <1>2, TypedAnswers, TypedFormEdits
<1>4. originalsAfterSave(calls[n].arg) \in [Items -> RowStates]
    <2>1. \A i \in Items : ui.rows[1][i] \in RowStates /\ ui.form[i] \in RowStates
        BY <1>1, TypedForms DEF TypedRefs, Collections
    <2> QED BY <2>1 DEF originalsAfterSave
<1>5. TypedRefs("SystemConfig", [ui EXCEPT !.rows[1] = originalsAfterSave(calls[n].arg)])
    BY Zenon, <1>1, <1>4, TypedRowEdits
<1> QED BY <1>1, <1>3, <1>5, TypedAnswers, TypedFew DEF SystemConfigBack, Op, Failed

\* The clicks on CasSettingsPanel.
LEMMA CasSettingsPanelClicksTyped ==
    ASSUME TypedPage("CasSettingsPanel"), NEW e, NEW i \in Items \cup {None},
           CasSettingsPanelDo(e, i)
    PROVE  TypedPage("CasSettingsPanel")'
<1>1. "CasSettingsPanel" \in FormPages
    BY DEF FormPages
<1>2. TypedRefs("CasSettingsPanel", [ui EXCEPT !.box.data = 0])
    BY Zenon, TypedClicks, TypedBoxEdits, TypedBoxes DEF DialogPages
<1> QED BY <1>1, <1>2, TypedForms, TypedClicks, SettingsSendTyped, TypedFew DEF CasSettingsPanelDo

\* Its answers.
LEMMA CasSettingsPanelAnswersTyped ==
    ASSUME TypedPage("CasSettingsPanel"), NEW n \in DOMAIN calls, CasSettingsPanelBack(n)
    PROVE  TypedPage("CasSettingsPanel")'
<1>1. calls[n].op = "loadConfig" => calls[n].kind = "list"
    BY TypedAnswers DEF TypedReq, ListOps
<1>2. \A x : TypedRefs("CasSettingsPanel", [ui EXCEPT !.box.data = x])
    BY Zenon, TypedAnswers, TypedBoxEdits, TypedBoxes DEF DialogPages
<1> QED BY Zenon, <1>1, <1>2, TypedAnswers, TypedFormEdits, TypedFew DEF CasSettingsPanelBack, Op, Failed

\* What CacheManagement sends.
LEMMA CacheManagementSendsTyped ==
    \A u, i, v, more, clears : LET p == "CacheManagement" IN
        /\ TypedReq(p, loadItems(u, more)) /\ TypedReq(p, loadStats(clears))
        /\ TypedReq(p, Get("loadCacheList", 2, None, clears))
        /\ TypedReq(p, Clear("handleClearCache", 1, v, clears))
        /\ TypedReq(p, Clear("handleCleanupExpired", 1, v, clears))
        /\ i \in Items \cup {None} => /\ TypedReq(p, Evict("handleDeleteItem", 1, i, v, clears))
                                      /\ TypedReq(p, Evict("handleInvalidate", 1, i, v, clears))
BY TypedRequests
   DEF NamedOps, ListOps, GetOps, UpdateOps, CreateOps, RowOps, ListPages, Collections,
       loadItems, loadStats

\* The clicks on CacheManagement.
LEMMA CacheManagementClicksTyped ==
    ASSUME TypedPage("CacheManagement"), NEW e, NEW i \in Items \cup {None},
           CacheManagementDo(e, i)
    PROVE  TypedPage("CacheManagement")'
BY TypedClicks, TypedPlainEdits, CacheManagementSendsTyped, TypedFew
   DEF CacheManagementDo, noneDeleting

\* Its answers.
LEMMA CacheManagementAnswersTyped ==
    ASSUME TypedPage("CacheManagement"), NEW n \in DOMAIN calls, CacheManagementBack(n)
    PROVE  TypedPage("CacheManagement")'
<1>1. calls[n].op = "loadItems" => calls[n].kind = "list"
    BY TypedAnswers DEF TypedReq, ListOps
<1>2. \A u : TypedRefs("CacheManagement", u) => TypedRefs("CacheManagement", deleteEnds(n, u))
    BY TypedPlainEdits DEF deleteEnds, noneDeleting
<1>3. \A q : TypedRefs("CacheManagement", [ui EXCEPT !.sel = Items, !.q = q])
    BY Zenon, TypedAnswers, TypedFormEdits
<1> QED
    BY Zenon, <1>1, <1>2, <1>3, TypedAnswers, CacheManagementSendsTyped, TypedFew
       DEF CacheManagementBack, Op

\* What RepositoryList sends.
LEMMA RepositoryListSendsTyped ==
    \A u, i, v, clears : LET p == "RepositoryList" IN
        /\ TypedReq(p, loadRepos(u)) /\ TypedReq(p, Create("handleSubmit", 1, clears))
        /\ i \in Items \cup {None} =>
             /\ v \in RowStates => TypedReq(p, Update("handleSubmit", 1, i, v, clears))
             /\ TypedReq(p, Get("openEditDialog", 1, i, clears))
             /\ TypedReq(p, Act("toggle", i, clears))
             /\ TypedReq(p, Delete("deleteRepo", 1, i, clears))
BY TypedRequests
   DEF NamedOps, ListOps, GetOps, UpdateOps, CreateOps, RowOps, ListPages, Collections, loadRepos

\* The clicks on RepositoryList.
LEMMA RepositoryListClicksTyped ==
    ASSUME TypedPage("RepositoryList"), NEW e, NEW i \in Items \cup {None}, RepositoryListDo(e, i)
    PROVE  TypedPage("RepositoryList")'
<1>1. ui.box.item \in Items \cup {None} /\ 1 \in RowStates /\ 2 \in RowStates
    BY DEF TypedPage, TypedRefs, RowStates
<1>2. \A v : TypedRefs("RepositoryList", [ui EXCEPT !.box.data = v])
             /\ TypedRefs("RepositoryList", formFor(ui, i, v))
    BY Zenon, TypedClicks, TypedBoxEdits, TypedBoxes DEF DialogPages, formFor
<1>3. TypedRefs("RepositoryList", Closed) /\ TypedRefs("RepositoryList", Opened("create", None, 0))
    BY Zenon, TypedClicks, TypedBoxEdits, TypedBoxes DEF DialogPages, Closed, Opened
<1> QED
    BY Zenon, <1>1, <1>2, <1>3, TypedClicks, TypedPlainEdits, RepositoryListSendsTyped, TypedFew
       DEF RepositoryListDo, RepositoryFormDo, VirtualMembersDo

\* Its answers.
LEMMA RepositoryListAnswersTyped ==
    ASSUME TypedPage("RepositoryList"), NEW n \in DOMAIN calls, RepositoryListBack(n)
    PROVE  TypedPage("RepositoryList")'
<1>1. /\ calls[n].op = "loadRepos" => calls[n].kind = "list"
      /\ calls[n].op = "openEditDialog" => calls[n].item \in Items \cup {None}
    BY TypedAnswers DEF TypedReq, ListOps, GetOps
<1>2. /\ TypedRefs("RepositoryList", Closed)
      /\ \A i \in Items \cup {None} : \A v : TypedRefs("RepositoryList", formFor(ui, i, v))
    BY Zenon, TypedAnswers, TypedBoxEdits, TypedBoxes DEF DialogPages, formFor, Closed
<1> QED
    BY <1>1, <1>2, TypedAnswers, RepositoryListSendsTyped, TypedFew
       DEF RepositoryListBack, Op, Loaded, Failed

\* What RepositoryDetail sends.
LEMMA RepositoryDetailSendsTyped ==
    \A i, clears : LET p == "RepositoryDetail" IN
        /\ TypedReq(p, loadRepo) /\ TypedReq(p, loadMembers(clears))
        /\ TypedReq(p, loadAvailableRepos)
        /\ TypedReq(p, Act("handleSubmit", Protected, clears))
        /\ TypedReq(p, Act("doMigrateCache", Protected, clears))
        /\ TypedReq(p, Create("addMember", 2, clears))
        /\ i \in Items \cup {None} => TypedReq(p, Delete("removeMember", 2, i, clears))
BY Zenon, TypedRequests, KitAssumption
   DEF NamedOps, ListOps, GetOps, UpdateOps, CreateOps, RowOps, ListPages, Collections,
       loadRepo, loadMembers, loadAvailableRepos

\* The clicks on RepositoryDetail.
LEMMA RepositoryDetailClicksTyped ==
    ASSUME TypedPage("RepositoryDetail"), NEW e, NEW i \in Items \cup {None},
           RepositoryDetailDo(e, i)
    PROVE  TypedPage("RepositoryDetail")'
BY Zenon, TypedClicks, TypedBoxEdits, TypedBoxes, RepositoryDetailSendsTyped, TypedFew
   DEF RepositoryDetailDo, Opened, Closed, DialogPages

\* Its answers.
LEMMA RepositoryDetailAnswersTyped ==
    ASSUME TypedPage("RepositoryDetail"), NEW n \in DOMAIN calls, RepositoryDetailBack(n)
    PROVE  TypedPage("RepositoryDetail")'
<1>1. calls[n].op \in {"loadRepo", "loadMembers"} => calls[n].kind = "list"
    BY TypedAnswers DEF TypedReq, ListOps
<1>2. \A x : TypedRefs("RepositoryDetail", [ui EXCEPT !.tab = 2, !.box.data = x])
    <2> TAKE x
    <2> DEFINE u == [ui EXCEPT !.tab = 2]
    <2>1. TypedRefs("RepositoryDetail", u)
        BY TypedAnswers, TypedPlainEdits
    <2>2. [ui EXCEPT !.tab = 2, !.box.data = x] = [u EXCEPT !.box.data = x]
        BY TypedAnswers DEF TypedRefs, Refs
    <2> HIDE DEF u
    <2> QED BY Zenon, <2>1, <2>2, TypedBoxEdits, TypedBoxes DEF DialogPages
<1>3. \A k : TypedRefs("RepositoryDetail", IF InFront(k) THEN Closed ELSE ui)
    BY Zenon, TypedAnswers, TypedBoxEdits, TypedBoxes DEF Closed
<1> QED
    BY <1>1, <1>2, <1>3, TypedAnswers, RepositoryDetailSendsTyped, TypedFew
       DEF RepositoryDetailBack, Op, Loaded, Failed

\* RepoConfigPage.
LEMMA RepoConfigPageTyped ==
    ASSUME TypedPage("RepoConfigPage")
    PROVE  /\ TypedReq("RepoConfigPage", Get("loadRepoConfig", 1, Protected, {"loading"}))
           /\ \A e, i : RepoConfigPageDo(e, i) => TypedPage("RepoConfigPage")'
           /\ \A n \in DOMAIN calls : RepoConfigPageBack(n) => TypedPage("RepoConfigPage")'
<1>1. TypedReq("RepoConfigPage", Get("loadRepoConfig", 1, Protected, {"loading"}))
    BY TypedRequests, KitAssumption
       DEF NamedOps, ListOps, GetOps, UpdateOps, CreateOps, RowOps, ListPages, Collections
<1>2. ASSUME NEW e, NEW i, RepoConfigPageDo(e, i) PROVE TypedPage("RepoConfigPage")'
    BY <1>2, TypedClicks, TypedFew DEF RepoConfigPageDo
<1>3. ASSUME NEW n \in DOMAIN calls, RepoConfigPageBack(n) PROVE TypedPage("RepoConfigPage")'
    <2>1. \A x : TypedRefs("RepoConfigPage", [ui EXCEPT !.form[Protected] = x])
        <3> TAKE x
        <3> DEFINE form == [ui.form EXCEPT ![Protected] = x]
        <3>1. [ui EXCEPT !.form[Protected] = x] = [ui EXCEPT !.form = form]
            BY TypedAnswers DEF TypedRefs, Refs
        <3> HIDE DEF form
        <3> QED BY Zenon, <3>1, TypedAnswers, TypedFormEdits DEF FormPages
    <2> QED BY <1>3, <2>1, TypedAnswers, TypedPlainEdits, TypedFew DEF RepoConfigPageBack
<1> QED BY <1>1, <1>2, <1>3

\* What DownloadLogs sends.
LEMMA DownloadLogsSendsTyped ==
    \A u, v, clears : LET p == "DownloadLogs" IN
        /\ TypedReq(p, loadDownloadLogs(u)) /\ TypedReq(p, loadCleanupConfig(clears))
        /\ TypedReq(p, List("loadLogs", 1, u, clears))
        /\ TypedReq(p, Act("loadStats", None, clears))
        /\ TypedReq(p, Act("loadRepositories", None, clears))
        /\ TypedReq(p, Clear("cleanupNow", 1, 1, clears))
        /\ v \in RowStates => TypedReq(p, Update("saveCleanupConfig", 2, Protected, v, clears))
BY TypedRequests, KitAssumption
   DEF NamedOps, ListOps, GetOps, UpdateOps, CreateOps, RowOps, ListPages, Collections,
       loadDownloadLogs, loadCleanupConfig

\* The clicks on DownloadLogs.
LEMMA DownloadLogsClicksTyped ==
    ASSUME TypedPage("DownloadLogs"), NEW e, NEW i \in Items \cup {None}, DownloadLogsDo(e, i)
    PROVE  TypedPage("DownloadLogs")'
<1>1. "DownloadLogs" \in FormPages
    BY DEF FormPages
<1> QED
    BY Zenon, <1>1, TypedForms, TypedClicks, TypedPlainEdits, DownloadLogsSendsTyped, TypedFew
       DEF DownloadLogsDo

\* Its answers.
LEMMA DownloadLogsAnswersTyped ==
    ASSUME TypedPage("DownloadLogs"), NEW n \in DOMAIN calls, DownloadLogsBack(n)
    PROVE  TypedPage("DownloadLogs")'
<1>1. calls[n].op \in {"loadLogs", "loadCleanupConfig"} => calls[n].kind = "list"
    BY TypedAnswers DEF TypedReq, ListOps
<1>2. calls[n].op = "loadCleanupConfig" /\ Ok(n) =>
        TypedRefs("DownloadLogs", [Listed(n) EXCEPT !.form = calls[n].reply])
    BY Zenon, <1>1, TypedAnswers, TypedFormEdits
<1> QED
    BY <1>1, <1>2, TypedAnswers, DownloadLogsSendsTyped, TypedFew DEF DownloadLogsBack, Op, Failed

\* What SecurityCenter sends.
LEMMA SecurityCenterSendsTyped ==
    \A u, i, clears : LET p == "SecurityCenter" IN
        /\ TypedReq(p, loadVulnerabilities(u)) /\ TypedReq(p, loadScanResults(u))
        /\ TypedReq(p, Act("loadStats", None, clears))
        /\ TypedReq(p, Act("triggerFullScan", None, clears))
        /\ i \in Items \cup {None} => TypedReq(p, Act("blockCVE", i, clears))
BY TypedRequests
   DEF NamedOps, ListOps, GetOps, UpdateOps, CreateOps, RowOps, ListPages, Collections,
       loadVulnerabilities, loadScanResults

\* The clicks on SecurityCenter.
LEMMA SecurityCenterClicksTyped ==
    ASSUME TypedPage("SecurityCenter"), NEW e, NEW i \in Items \cup {None}, SecurityCenterDo(e, i)
    PROVE  TypedPage("SecurityCenter")'
BY TypedClicks, TypedPlainEdits, SecurityCenterSendsTyped, TypedFew DEF SecurityCenterDo

\* Its answers.
LEMMA SecurityCenterAnswersTyped ==
    ASSUME TypedPage("SecurityCenter"), NEW n \in DOMAIN calls, SecurityCenterBack(n)
    PROVE  TypedPage("SecurityCenter")'
<1>1. calls[n].op \in {"loadVulnerabilities", "loadScanResults"} => calls[n].kind = "list"
    BY TypedAnswers DEF TypedReq, ListOps
<1> QED BY <1>1, TypedAnswers, SecurityCenterSendsTyped, TypedFew DEF SecurityCenterBack, Op, Failed

\* What VulnRuleManagement sends.
LEMMA VulnRuleManagementSendsTyped ==
    \A u, i, v, w, clears : LET p == "VulnRuleManagement" IN
        /\ TypedReq(p, loadRules(u)) /\ TypedReq(p, loadDataSources)
        /\ TypedReq(p, Create("saveRule", 1, clears))
        /\ TypedReq(p, Create("importRules", 1, clears))
        /\ TypedReq(p, Create("saveDataSource", 2, clears))
        /\ w \in [Items -> RowStates] => TypedReq(p, Save("syncAll", 2, w, clears))
        /\ i \in Items \cup {None} =>
             /\ v \in RowStates => /\ TypedReq(p, Update("saveRule", 1, i, v, clears))
                                   /\ TypedReq(p, Update("saveDataSource", 2, i, v, clears))
                                   /\ TypedReq(p, Update("syncDataSource", 2, i, v, clears))
             /\ TypedReq(p, Delete("deleteRule", 1, i, clears))
             /\ TypedReq(p, Delete("deleteDataSource", 2, i, clears))
             /\ TypedReq(p, Act("testDataSource", i, clears))
<1>1. \A op \in {"saveRule", "importRules", "saveDataSource", "syncAll", "syncDataSource", "deleteRule",
                "deleteDataSource", "testDataSource"} : op \notin NamedOps
    BY DEF NamedOps, ListOps, GetOps, UpdateOps, CreateOps, RowOps
<1>2. /\ "loadRules" \in ListOps /\ "loadDataSources" \in ListOps
      /\ "VulnRuleManagement" \notin ListPages /\ 1 \in Collections /\ 2 \in Collections
    BY DEF ListOps, ListPages, Collections
<1> QED BY <1>1, <1>2, TypedRequests DEF loadRules, loadDataSources

\* The clicks on VulnRuleManagement.
LEMMA VulnRuleManagementClicksTyped ==
    ASSUME TypedPage("VulnRuleManagement"), NEW e, NEW i \in Items \cup {None},
           VulnRuleManagementDo(e, i)
    PROVE  TypedPage("VulnRuleManagement")'
<1>1. /\ ui.box.item \in Items \cup {None} /\ ui.rows[2] \in [Items -> RowStates] /\ 1 \in RowStates
      /\ ui.box.kind \in {"editRule", "editSource"} => ui.box.data \in RowStates
    BY DEF TypedPage, TypedRefs, Filled, DialogPages, Collections, RowStates
<1>2. \A k \in {"addRule", "import", "addSource"} : TypedRefs("VulnRuleManagement", Opened(k, None, 0))
    BY Zenon, TypedClicks, TypedBoxEdits, TypedBoxes DEF Filled, Opened
<1>3. /\ TypedRefs("VulnRuleManagement", Closed)
      /\ \A k, v : TypedRefs("VulnRuleManagement", Opened(k, i, flip(v)))
    BY Zenon, TypedClicks, TypedBoxEdits, TypedBoxes, Flipped DEF Closed, Opened
<1>4. ASSUME VulnRuleSubmit(ui.box) PROVE TypedPage("VulnRuleManagement")'
    BY <1>1, <1>4, TypedClicks, VulnRuleManagementSendsTyped, TypedFew DEF VulnRuleSubmit
<1> QED
    BY Zenon, <1>1, <1>2, <1>3, <1>4, TypedClicks, TypedPlainEdits, VulnRuleManagementSendsTyped,
       TypedFew
       DEF VulnRuleManagementDo

\* Its answers.
LEMMA VulnRuleManagementAnswersTyped ==
    ASSUME TypedPage("VulnRuleManagement"), NEW n \in DOMAIN calls, VulnRuleManagementBack(n)
    PROVE  TypedPage("VulnRuleManagement")'
<1>1. calls[n].op \in {"loadRules", "loadDataSources"} => calls[n].kind = "list"
    BY TypedAnswers DEF TypedReq, ListOps
<1>2. \A S : TypedRefs("VulnRuleManagement", IF ui.box.kind \in S THEN Closed ELSE ui)
    BY Zenon, TypedAnswers, TypedBoxEdits, TypedBoxes DEF Closed
<1> QED
    BY <1>1, <1>2, TypedAnswers, VulnRuleManagementSendsTyped, TypedFew
       DEF VulnRuleManagementBack, Op, Failed

\* What FileBrowser sends.
LEMMA FileBrowserSendsTyped ==
    \A u, i, path : LET p == "FileBrowser" IN
        /\ TypedReq(p, loadDirectory(u, path)) /\ TypedReq(p, Act("loadBackends", None, {}))
        /\ i \in Items \cup {None} => TypedReq(p, Act("downloadFile", i, {}))
BY TypedRequests
   DEF NamedOps, ListOps, GetOps, UpdateOps, CreateOps, RowOps, ListPages, Collections,
       loadDirectory

\* The clicks on FileBrowser.
LEMMA FileBrowserClicksTyped ==
    ASSUME TypedPage("FileBrowser"), NEW e, NEW i \in Items \cup {None}, FileBrowserDo(e, i)
    PROVE  TypedPage("FileBrowser")'
<1>1. \A x, y : TypedRefs("FileBrowser", [ui EXCEPT !.tab = x, !.mode = y])
    BY TypedClicks, TypedPlainEdits
<1>2. \A path, u : TypedReqs("FileBrowser", <<loadDirectory(u, path)>>)
    BY FileBrowserSendsTyped, TypedFew
<1> QED BY <1>1, <1>2, TypedClicks, FileBrowserSendsTyped, TypedFew DEF FileBrowserDo

\* Its answers.
LEMMA FileBrowserAnswersTyped ==
    ASSUME TypedPage("FileBrowser"), NEW n \in DOMAIN calls, FileBrowserBack(n)
    PROVE  TypedPage("FileBrowser")'
<1>1. calls[n].op = "loadDirectory" => calls[n].kind = "list"
    BY TypedAnswers DEF TypedReq, ListOps
<1>2. calls[n].op = "loadDirectory" /\ Ok(n) =>
        \A x : TypedRefs("FileBrowser", [Listed(n) EXCEPT !.mode = x])
    BY <1>1, TypedAnswers, TypedPlainEdits
<1>3. \A x : TypedRefs("FileBrowser", IF Ok(n) THEN [ui EXCEPT !.tab = x] ELSE ui)
    BY TypedAnswers, TypedPlainEdits
<1> QED
    BY <1>1, <1>2, <1>3, TypedAnswers, FileBrowserSendsTyped, TypedFew
       DEF FileBrowserBack, Op, Failed

\* What RiskAssessment sends.
LEMMA RiskAssessmentSendsTyped ==
    \A u, i, v, clears : LET p == "RiskAssessment" IN
        /\ TypedReq(p, loadHistory(u)) /\ TypedReq(p, Create("runAssessment", 1, clears))
        /\ TypedReq(p, Create("analyze", 1, clears))
        /\ TypedReq(p, Act("aiParseFile", None, clears))
        /\ i \in Items => TypedReq(p, Get("viewDetail", 1, i, clears))
        /\ i \in Items \cup {None} =>
             /\ TypedReq(p, Get("openAIReport", 1, i, clears))
             /\ TypedReq(p, Act("act", i, clears))
             /\ v \in RowStates => TypedReq(p, Update("dispose", 1, i, v, clears))
             /\ TypedReq(p, Delete("removeHistory", 1, i, clears))
BY TypedRequests
   DEF NamedOps, ListOps, GetOps, UpdateOps, CreateOps, RowOps, ListPages, Collections, loadHistory

\* The clicks on RiskAssessment.
LEMMA RiskAssessmentClicksTyped ==
    ASSUME TypedPage("RiskAssessment"), NEW e, NEW i \in Items \cup {None},
           e = "view" => i \in Items,
           RiskAssessmentDo(e, i)
    PROVE  TypedPage("RiskAssessment")'
<1>1. TypedRefs("RiskAssessment", Closed) /\ TypedRefs("RiskAssessment", Opened("report", None, 0))
    BY Zenon, TypedClicks, TypedBoxEdits, TypedBoxes DEF DialogPages, Closed, Opened
<1> QED
    BY Zenon, <1>1, TypedClicks, TypedPlainEdits, Flipped, RiskAssessmentSendsTyped, TypedFew
       DEF RiskAssessmentDo

\* Its answers.
LEMMA RiskAssessmentAnswersTyped ==
    ASSUME TypedPage("RiskAssessment"), NEW n \in DOMAIN calls, RiskAssessmentBack(n)
    PROVE  TypedPage("RiskAssessment")'
<1> DEFINE i == calls[n].item
           p == "RiskAssessment"
<1>1. /\ calls[n].op = "loadHistory" => calls[n].kind = "list"
      /\ calls[n].op \in {"runAssessment", "analyze"} /\ Ok(n) => calls[n].reply \in Items
      /\ calls[n].op = "openAIReport" => i \in Items \cup {None}
      /\ calls[n].op = "viewDetail" => i \in Items
    BY TypedAnswers DEF TypedReq, ListOps, CreateOps, GetOps, RowOps, Ok
<1>2. /\ p \notin FormPages /\ p \notin DialogPages /\ p # "DependencyGraph"
      /\ TypedRefs(p, ui)
    BY TypedAnswers DEF FormPages, DialogPages
<1>3. ASSUME NEW j \in Items, NEW v PROVE TypedRefs(p, Current(j, v))
    <2> DEFINE form == [NoRows EXCEPT ![j] = v]
               sel == {j}
    <2>1. Current(j, v) = [ui EXCEPT !.sel = sel, !.form = form] /\ sel \subseteq Items
        BY DEF Current
    <2> HIDE DEF form, sel, p
    <2>2. TypedRefs(p, [ui EXCEPT !.sel = sel, !.form = form])
        BY Zenon, <1>2, <2>1, TypedFormEdits
    <2> QED BY <2>1, <2>2
<1>4. ASSUME NEW v PROVE TypedRefs(p, [ui EXCEPT !.form[i] = v])
    <2> DEFINE form == [ui.form EXCEPT ![i] = v]
    <2>1. [ui EXCEPT !.form[i] = v] = [ui EXCEPT !.form = form]
        BY <1>2 DEF TypedRefs, Refs
    <2> HIDE DEF form
    <2> QED BY Zenon, <1>2, <2>1, TypedFormEdits
<1>5. TypedRefs(p, [ui EXCEPT !.sel = {}, !.form = NoRows])
    BY Zenon, <1>2, TypedFormEdits
<1>6. i \in Items \cup {None} => TypedRefs(p, Opened("report", i, 1))
    BY Zenon, <1>2, TypedBoxEdits, TypedBoxes DEF Opened
<1>7. \A S : TypedReqs(p, S) => \A u : TypedRefs(p, u) /\ Then(n, u, S) => TypedPage(p)'
    BY TypedAnswers
<1>8. \A u : TypedReqs(p, <<loadHistory(u)>>)
    BY RiskAssessmentSendsTyped, TypedFew
<1>9. TypedReqs(p, <<>>) /\ TypedReqs(p, <<Create("analyze", 1, calls[n].clears)>>)
    BY RiskAssessmentSendsTyped, TypedFew
<1>10. calls[n].op = "viewDetail" => \A v, x : TypedRefs(p, [Current(i, v) EXCEPT !.tab = x])
    BY <1>1, <1>3, TypedPlainEdits
<1>11. calls[n].kind = "list" /\ Ok(n) => TypedRefs(p, Listed(n))
    BY TypedAnswers
<1> HIDE DEF p, i
<1>12. CASE Op(n, {"loadHistory", "runAssessment", "analyze", "aiParseFile"})
    BY <1>1, <1>2, <1>3, <1>7, <1>8, <1>9, <1>11, <1>12 DEF RiskAssessmentBack, Op, Failed, i, p
<1>13. CASE Op(n, {"openAIReport", "viewDetail"})
    BY <1>1, <1>2, <1>6, <1>7, <1>9, <1>10, <1>13 DEF RiskAssessmentBack, Op, Failed, i, p
<1>14. CASE ~Op(n, {"loadHistory", "runAssessment", "analyze", "aiParseFile", "openAIReport", "viewDetail"})
    BY <1>2, <1>4, <1>5, <1>7, <1>8, <1>9, <1>14 DEF RiskAssessmentBack, Op, Failed, i, p
<1> QED BY <1>12, <1>13, <1>14 DEF Op

\* What BlockRuleList sends.
LEMMA BlockRuleListSendsTyped ==
    \A u, i, v, w, clears : LET p == "BlockRuleList" IN
        /\ TypedReq(p, loadBlockRules(u)) /\ TypedReq(p, loadBlockLogs(u))
        /\ TypedReq(p, Act("handleDownloadTemplate", None, clears))
        /\ TypedReq(p, Act("handleGenerate", None, clears))
        /\ TypedReq(p, Act("handleAnalyze", None, clears))
        /\ TypedReq(p, Create("handleBatchImport", 1, clears))
        /\ TypedReq(p, Create("handleSubmit", 1, clears))
        /\ TypedReq(p, Draft(v, clears)) /\ TypedReq(p, Purge("batch", 1, v, clears))
        /\ w \in [Items -> RowStates] => TypedReq(p, Save("batch", 1, w, clears))
        /\ i \in Items \cup {None} =>
             /\ v \in RowStates => /\ TypedReq(p, Update("toggleEnabled", 1, i, v, clears))
                                   /\ TypedReq(p, Update("handleSubmit", 1, i, v, clears))
             /\ TypedReq(p, Delete("deleteRule", 1, i, clears))
<1>1. \A op \in {"handleDownloadTemplate", "handleGenerate", "handleAnalyze", "handleBatchImport",
                "handleSubmit", "handleCreateSelected", "batch", "deleteRule"} : op \notin NamedOps
    BY DEF NamedOps, ListOps, GetOps, UpdateOps, CreateOps, RowOps
<1>2. /\ "loadRules" \in ListOps /\ "loadLogs" \in ListOps /\ "toggleEnabled" \in UpdateOps
      /\ "toggleEnabled" \notin RowOps
      /\ "BlockRuleList" \notin ListPages /\ 1 \in Collections /\ 2 \in Collections
    BY DEF ListOps, UpdateOps, RowOps, ListPages, Collections
<1> QED BY <1>1, <1>2, TypedRequests DEF loadBlockRules, loadBlockLogs, Draft

\* Edits of BlockRuleList.
LEMMA BlockRuleListEditsTyped ==
    ASSUME TypedRefs("BlockRuleList", ui)
    PROVE  LET p == "BlockRuleList" IN
           /\ TypedRefs(p, Closed) /\ TypedRefs(p, handleClose)
           /\ \A k, i, v : i \in Items \cup {None} /\ (k \in Filled => v \in RowStates)
                => TypedRefs(p, Opened(k, i, v))
           /\ \A v : v \in RowStates => TypedRefs(p, [ui EXCEPT !.box.data = v])
           /\ ui.box.kind \in Filled => ui.box.data \in RowStates
           /\ ui.box.item \in Items \cup {None} /\ ui.sel \subseteq Items
           /\ \A x : TypedRefs(p, [ui EXCEPT !.form = x])
<1>1. /\ "BlockRuleList" \in DialogPages /\ "BlockRuleList" \notin FormPages
      /\ "BlockRuleList" # "DependencyGraph"
    BY DEF DialogPages, FormPages
<1>2. TypedRefs("BlockRuleList", Closed) /\ TypedRefs("BlockRuleList", handleClose)
    <2> DEFINE b == NoDialog
               form == NoRows
    <2>1. Boxed("BlockRuleList", b) /\ handleClose = [ui EXCEPT !.box = b, !.form = form]
          /\ Closed = [ui EXCEPT !.box = b]
        BY TypedBoxes DEF handleClose, Closed
    <2> HIDE DEF b, form
    <2> QED BY Zenon, <1>1, <2>1, TypedBoxEdits
<1>3. ASSUME NEW k, NEW i \in Items \cup {None}, NEW v, k \in Filled => v \in RowStates
      PROVE  TypedRefs("BlockRuleList", Opened(k, i, v))
    BY Zenon, <1>1, <1>3, TypedBoxEdits, TypedBoxes DEF Opened
<1>4. ASSUME NEW v \in RowStates PROVE TypedRefs("BlockRuleList", [ui EXCEPT !.box.data = v])
    BY Zenon, <1>1, TypedBoxEdits, TypedBoxes
<1>5. /\ ui.box.kind \in Filled => ui.box.data \in RowStates
      /\ ui.box.item \in Items \cup {None} /\ ui.sel \subseteq Items
    BY <1>1 DEF TypedRefs
<1>6. \A x : TypedRefs("BlockRuleList", [ui EXCEPT !.form = x])
    BY Zenon, <1>1, TypedFormEdits
<1> QED BY <1>2, <1>3, <1>4, <1>5, <1>6

\* The clicks on the drafts of the AI dialog.
LEMMA BlockRuleAIClicksTyped ==
    ASSUME TypedPage("BlockRuleList"), NEW e, BlockRuleAIDo(e),
           e = "selectAll" => ui.box.kind \in {"generator", "optimizer"}
    PROVE  TypedPage("BlockRuleList")'
<1>1. TypedRefs("BlockRuleList", ui)
    BY TypedClicks
<1>2. ASSUME NEW x, NEW y, NEW k \in {"generator", "optimizer"}
      PROVE  TypedRefs("BlockRuleList", [Opened(k, None, 0) EXCEPT !.mode = x, !.form = y])
    <2> DEFINE u == Opened(k, None, 0)
               w == [u EXCEPT !.mode = x]
    <2>1. TypedRefs("BlockRuleList", u)
        BY <1>1, BlockRuleListEditsTyped DEF Filled
    <2>2. TypedRefs("BlockRuleList", w)
        BY <2>1, TypedPlainEdits
    <2>3. [u EXCEPT !.mode = x, !.form = y] = [w EXCEPT !.form = y]
        OBVIOUS
    <2> HIDE DEF u, w
    <2> QED BY Zenon, <2>2, <2>3, TypedFormEdits DEF FormPages, u
<1>3. ASSUME ui.box.kind \in {"generator", "optimizer"}, NEW v, NEW x
      PROVE  TypedRefs("BlockRuleList", [ui EXCEPT !.box.data = v, !.form = x])
    <2> DEFINE u == [ui EXCEPT !.box.data = v]
    <2>1. TypedRefs("BlockRuleList", u)
        BY <1>1, <1>3 DEF TypedRefs, Refs, Filled, DialogPages, FormPages
    <2>2. [ui EXCEPT !.box.data = v, !.form = x] = [u EXCEPT !.form = x]
        BY <1>1 DEF TypedRefs, Refs
    <2> HIDE DEF u
    <2> QED BY Zenon, <2>1, <2>2, TypedFormEdits DEF FormPages
<1>4. \A v, clears : /\ TypedReqs("BlockRuleList", <<Draft(v, clears)>>) /\ TypedReqs("BlockRuleList", <<>>)
                     /\ TypedReqs("BlockRuleList", <<Act("handleGenerate", None, clears)>>)
                     /\ TypedReqs("BlockRuleList", <<Act("handleAnalyze", None, clears)>>)
    BY BlockRuleListSendsTyped, TypedFew
<1>5. TypedRefs("BlockRuleList", handleClose) /\ \A x : TypedRefs("BlockRuleList", [ui EXCEPT !.form = x])
    BY <1>1, BlockRuleListEditsTyped
<1> QED BY Zenon, <1>1, <1>2, <1>3, <1>4, <1>5, TypedClicks DEF BlockRuleAIDo

\* The clicks on BlockRuleList.
LEMMA BlockRuleListClicksTyped ==
    ASSUME TypedPage("BlockRuleList"), NEW e, NEW i \in Items \cup {None}, BlockRuleListDo(e, i),
           e = "selectAll" => ui.box.kind \in {"generator", "optimizer"}, e = "tick" => i \in Items
    PROVE  TypedPage("BlockRuleList")'
<1> DEFINE p == "BlockRuleList"
<1>1. /\ TypedRefs(p, ui)
      /\ \A S : TypedReqs(p, S) => \A u : TypedRefs(p, u) /\ Do(u, S) => TypedPage(p)'
    BY TypedClicks
<1>2. /\ TypedRefs(p, Closed) /\ ui.box.item \in Items \cup {None} /\ ui.sel \subseteq Items
      /\ ui.box.kind \in Filled => ui.box.data \in RowStates
      /\ \A k \in {"create", "import"} : TypedRefs(p, Opened(k, None, 0))
      /\ \A v : TypedRefs(p, Opened("edit", i, flip(v)))
            /\ TypedRefs(p, [ui EXCEPT !.box.data = flip(v)])
      /\ TypedRefs(p, [ui EXCEPT !.box.data = 1])
    BY <1>1, BlockRuleListEditsTyped, Flipped DEF Filled, RowStates
<1>3. \A u : TypedReqs(p, <<loadBlockRules(u)>>) /\ TypedReqs(p, <<loadBlockLogs(u)>>) /\ TypedReqs(p, <<>>)
    BY BlockRuleListSendsTyped, TypedFew
<1>4. /\ \A S : TypedReqs(p, <<Purge("batch", 1, S, {})>>)
      /\ \A w \in [Items -> RowStates] : TypedReqs(p, <<Save("batch", 1, w, {})>>)
      /\ \A v \in RowStates : TypedReqs(p, <<Update("toggleEnabled", 1, i, v, {})>>)
      /\ TypedReqs(p, <<Delete("deleteRule", 1, i, {})>>)
      /\ \A clears : TypedReqs(p, <<Create("handleSubmit", 1, clears)>>)
      /\ \A v \in RowStates : TypedReqs(p, <<Update("handleSubmit", 1, ui.box.item, v, {"submitting"})>>)
      /\ \A clears : TypedReqs(p, <<Act("handleDownloadTemplate", None, clears)>>)
      /\ \A clears : TypedReqs(p, <<Create("handleBatchImport", 1, clears)>>)
    BY <1>2, BlockRuleListSendsTyped, TypedFew
<1>5. ASSUME BlockRuleAIDo(e) PROVE TypedPage(p)'
    BY <1>5, BlockRuleAIClicksTyped
<1>6. ASSUME BlockRuleImportDo(e) \/ BlockRuleFormDo(e) PROVE TypedPage(p)'
    BY <1>1, <1>2, <1>3, <1>4, <1>6 DEF BlockRuleImportDo, BlockRuleFormDo
<1>7. \A x, q : /\ TypedRefs(p, [ui EXCEPT !.tab = x]) /\ TypedRefs(p, [ui EXCEPT !.q = q])
                /\ TypedRefs(p, Searched(ui, q))
                /\ x \subseteq Items => TypedRefs(p, [ui EXCEPT !.sel = x])
    BY Zenon, <1>1, TypedPlainEdits, TypedFormEdits DEF Searched
<1>8. e = "tick" => TypedRefs(p, [ui EXCEPT !.sel = IF i \in @ THEN @ \ {i} ELSE @ \cup {i}])
    <2> DEFINE sel == IF i \in ui.sel THEN ui.sel \ {i} ELSE ui.sel \cup {i}
    <2>1. e = "tick" => sel \subseteq Items
        BY <1>2
    <2> HIDE DEF sel, p
    <2>2. e = "tick" => TypedRefs(p, [ui EXCEPT !.sel = sel])
        BY <1>7, <2>1
    <2> QED BY <2>2 DEF sel
<1>9. [j \in Items |-> IF j \in ui.sel THEN 1 ELSE 0] \in [Items -> RowStates]
    BY DEF RowStates
<1>10. \A v : flip(v) \in RowStates
    BY Flipped
<1>11. "edit" \in Filled /\ TypedRefs(p, [ui EXCEPT !.sel = {}])
    BY <1>7 DEF Filled
<1> HIDE DEF p
<1>12. CASE e \in {"search", "page", "logPage", "tab"}
    BY <1>1, <1>3, <1>5, <1>6, <1>7, <1>12 DEF BlockRuleListDo, p
<1>13. CASE e \in {"tick", "clearSelection", "batchEnable", "batchDelete"}
    BY <1>1, <1>3, <1>4, <1>5, <1>6, <1>8, <1>9, <1>11, <1>13 DEF BlockRuleListDo, p
<1>14. CASE e \in {"toggle", "delete", "create", "import", "edit"}
    BY <1>1, <1>2, <1>3, <1>4, <1>5, <1>6, <1>10, <1>14 DEF BlockRuleListDo, p
<1>15. CASE e \notin {"search", "page", "logPage", "tab", "tick", "clearSelection", "batchEnable",
                     "batchDelete", "toggle", "delete", "create", "import", "edit"}
    BY <1>1, <1>2, <1>3, <1>4, <1>5, <1>6, <1>11, <1>15 DEF BlockRuleListDo, InFront, p
<1> QED BY <1>12, <1>13, <1>14, <1>15

\* The answers on BlockRuleList: those about drafts,
LEMMA BlockRuleAIAnswersTyped ==
    ASSUME TypedPage("BlockRuleList"), NEW n \in DOMAIN calls, BlockRuleAIBack(n)
    PROVE  TypedPage("BlockRuleList")'
<1> DEFINE p == "BlockRuleList"
<1>1. /\ TypedRefs(p, ui)
      /\ \A S : TypedReqs(p, S) => \A u : TypedRefs(p, u) /\ Then(n, u, S) => TypedPage(p)'
    BY TypedAnswers
<1>2. \A x : TypedRefs(p, [ui EXCEPT !.form = x])
    BY <1>1, BlockRuleListEditsTyped
<1>3. \A v, clears, u : /\ TypedReqs(p, <<Draft(v, clears)>>) /\ TypedReqs(p, <<loadBlockRules(u)>>)
                        /\ TypedReqs(p, <<>>)
    BY BlockRuleListSendsTyped, TypedFew
<1>4. \A j : TypedRefs(p, [ui EXCEPT !.form[j] = 1])
    <2> TAKE j
    <2> DEFINE form == [ui.form EXCEPT ![j] = 1]
    <2>1. [ui EXCEPT !.form[j] = 1] = [ui EXCEPT !.form = form]
        BY <1>1 DEF TypedRefs, Refs
    <2> HIDE DEF form
    <2> QED BY <1>2, <2>1
<1>5. \A u : TypedRefs(p, u) => TypedRefs(p, [u EXCEPT !.box = NoDialog, !.form = NoRows])
    BY Zenon, TypedBoxEdits, TypedBoxes DEF FormPages
<1> HIDE DEF p
<1>6. ASSUME Op(n, {"handleCreateSelected"}), CreatedOne(n) PROVE TypedPage(p)'
    <2> DEFINE j == CHOOSE x \in calls[n].item.left : TRUE
               left == calls[n].item.left \ {j}
               done == IF Ok(n) THEN calls[n].item.done + 1 ELSE calls[n].item.done
               failed == IF Ok(n) THEN calls[n].item.failed ELSE calls[n].item.failed + 1
               u == IF Ok(n) /\ ui.form[j] = 2 THEN [ui EXCEPT !.form[j] = 1] ELSE ui
               inFront == ui.box.kind \in {"generator", "optimizer"}
               closed == IF failed = 0 /\ inFront THEN [u EXCEPT !.box = NoDialog, !.form = NoRows] ELSE u
    <2>1. TypedRefs(p, u)
        BY <1>1, <1>4
    <2>2. TypedRefs(p, closed)
        BY <1>5, <2>1
    <2>3. \/ \E v : Then(n, u, <<Draft(v, calls[n].clears)>>)
          \/ Then(n, closed, <<loadBlockRules(u)>>) \/ Then(n, closed, <<>>)
        <3> HIDE DEF j, done, failed, u, closed
        <3>1. CASE left # {}
            BY <1>6, <3>1 DEF CreatedOne, j, done, failed, u
        <3>2. CASE left = {}
            BY <1>6, <3>2 DEF CreatedOne, j, done, failed, u, closed
        <3> QED BY <3>1, <3>2
    <2> HIDE DEF u, closed
    <2> QED BY <1>1, <1>3, <2>1, <2>2, <2>3
<1>7. ASSUME extractDrafts(n) PROVE TypedPage(p)'
    BY <1>1, <1>2, <1>3, <1>7 DEF extractDrafts
<1> QED BY <1>1, <1>3, <1>6, <1>7 DEF BlockRuleAIBack, p

\* and the rest.
LEMMA BlockRuleListAnswersTyped ==
    ASSUME TypedPage("BlockRuleList"), NEW n \in DOMAIN calls, BlockRuleListBack(n)
    PROVE  TypedPage("BlockRuleList")'
<1> DEFINE p == "BlockRuleList"
<1>1. /\ TypedRefs(p, ui) /\ TypedReq(p, calls[n])
      /\ \A S : TypedReqs(p, S) => \A u : TypedRefs(p, u) /\ Then(n, u, S) => TypedPage(p)'
    BY TypedAnswers
<1>2. /\ calls[n].op \in {"loadRules", "loadLogs"} => calls[n].kind = "list"
      /\ calls[n].op = "toggleEnabled" => calls[n].arg \in RowStates
    BY <1>1 DEF TypedReq, ListOps, UpdateOps
<1>3. calls[n].op \in {"loadRules", "loadLogs"} /\ Ok(n) =>
        /\ TypedRefs(p, Listed(n)) /\ TypedRefs(p, [Listed(n) EXCEPT !.sel = {}])
    BY Zenon, <1>2, TypedAnswers, TypedFormEdits
<1>4. /\ TypedRefs(p, Closed) /\ TypedRefs(p, [ui EXCEPT !.sel = {}])
      /\ \A k : TypedRefs(p, IF InFront(k) THEN Closed ELSE ui)
      /\ \A S : TypedRefs(p, IF ui.box.kind \in S THEN Closed ELSE ui)
    BY Zenon, <1>1, BlockRuleListEditsTyped, TypedFormEdits
<1>5. \A u : TypedReqs(p, <<loadBlockRules(u)>>) /\ TypedReqs(p, <<>>)
    BY BlockRuleListSendsTyped, TypedFew
<1>6. calls[n].op = "toggleEnabled" =>
        TypedRefs(p, [ui EXCEPT !.rows[1][calls[n].item] = calls[n].arg])
    <2> DEFINE rows == [ui.rows EXCEPT ![1][calls[n].item] = calls[n].arg]
    <2>1. calls[n].op = "toggleEnabled" => rows \in [Collections -> [Items -> RowStates]]
        BY <1>1, <1>2, TypedRow DEF TypedRefs
    <2>2. [ui EXCEPT !.rows[1][calls[n].item] = calls[n].arg] = [ui EXCEPT !.rows = rows]
        BY <1>1 DEF TypedRefs, Refs, Collections
    <2> HIDE DEF rows
    <2>3. rows \in [Collections -> [Items -> RowStates]] => TypedRefs(p, [ui EXCEPT !.rows = rows])
        BY <1>1 DEF TypedRefs, Refs
    <2> QED BY <2>1, <2>2, <2>3
<1>7. ASSUME BlockRuleAIBack(n) PROVE TypedPage(p)'
    BY <1>7, BlockRuleAIAnswersTyped
<1> HIDE DEF p
<1>8. ASSUME BlockRuleImportBack(n) PROVE TypedPage(p)'
    BY <1>1, <1>4, <1>5, <1>8 DEF BlockRuleImportBack
<1>9. CASE calls[n].op \in {"loadRules", "loadLogs", "batch", "toggleEnabled"}
    BY <1>1, <1>3, <1>4, <1>5, <1>6, <1>7, <1>8, <1>9 DEF BlockRuleListBack, Op, Failed, p
<1>10. CASE calls[n].op \notin {"loadRules", "loadLogs", "batch", "toggleEnabled"}
    BY <1>1, <1>4, <1>5, <1>7, <1>8, <1>10 DEF BlockRuleListBack, Op, Failed, p
<1> QED BY <1>9, <1>10

\* Edits of the explorer's query, and the search that follows.
LEMMA QueryEditsTyped ==
    ASSUME NEW p, TypedRefs(p, ui)
    PROVE  /\ \A t : TypedRefs(p, setText(t)) /\ TypedRefs(p, Silent(setText(t)))
                     /\ TypedRefs(p, [setText(t) EXCEPT !.timers = {"debounce"}])
           /\ \A k : TypedRefs(p, setPage(k))
           /\ TypedRefs(p, resized) /\ TypedRefs(p, Silent(ui))
           /\ \A u : TypedReq(p, search(u, "search")) /\ TypedReq(p, search(u, "refresh"))
<1>1. \A t : TypedRefs(p, setText(t))
    BY TypedPlainEdits DEF setText
<1>2. \A t : TypedRefs(p, Silent(setText(t))) /\ TypedRefs(p, [setText(t) EXCEPT !.timers = {"debounce"}])
    BY <1>1, TypedPlainEdits DEF Silent
<1>3. \A k : TypedRefs(p, setPage(k))
    <2> TAKE k
    <2> DEFINE q == Query(textOf(ui.q), k, ui.q)
               sel == {}
    <2>1. setPage(k) = [ui EXCEPT !.q = q, !.sel = sel] /\ sel \subseteq Items
        BY DEF setPage
    <2> HIDE DEF q, sel
    <2> QED BY <2>1 DEF TypedRefs, Refs
<1>4. TypedRefs(p, resized)
    <2> DEFINE u == setPage(1)
               q == IF large(u.q) THEN u.q - 16 ELSE u.q + 16
    <2>1. TypedRefs(p, u) /\ resized = [u EXCEPT !.q = q]
        BY <1>3 DEF resized
    <2> HIDE DEF u, q
    <2> QED BY <2>1, TypedPlainEdits
<1>5. TypedRefs(p, Silent(ui))
    BY TypedPlainEdits DEF Silent
<1>6. "search" \in ListOps /\ "refresh" \in ListOps /\ 1 \in Collections
    BY DEF ListOps, Collections
<1>7. \A u : TypedReq(p, search(u, "search")) /\ TypedReq(p, search(u, "refresh"))
    BY <1>6, TypedRequests DEF search
<1> QED BY <1>1, <1>2, <1>3, <1>4, <1>5, <1>7

\* Typing and paging, on either page that has the search bar.
LEMMA SearchBarClicksTyped ==
    ASSUME NEW p, TypedPage(p), NEW e,
           \/ PackageSearchBarDo(e) \/ handleKeydown(e)
           \/ e = "next" /\ Do(setPage(2), <<search(setPage(2), "search")>>)
           \/ e = "prev" /\ Do(setPage(1), <<search(setPage(1), "search")>>)
           \/ e = "size" /\ Do(resized, <<search(resized, "search"), search(resized, "search")>>)
           \/ e = "applyFilter" /\ \E t \in {0, 3} : Do(setText(t), <<search(setText(t), "search")>>)
           \/ e = "clearFilters" /\ Do(setText(0), <<search(setText(0), "search")>>)
    PROVE  TypedPage(p)'
<1>1. /\ TypedRefs(p, ui)
      /\ \A S : TypedReqs(p, S) => \A u : TypedRefs(p, u) /\ Do(u, S) => TypedPage(p)'
    BY TypedClicks
<1>2. \A u : /\ TypedReqs(p, <<search(u, "search")>>)
             /\ TypedReqs(p, <<search(u, "search"), search(u, "search")>>) /\ TypedReqs(p, <<>>)
    BY <1>1, QueryEditsTyped, TypedFew
<1>3. /\ \A t : TypedRefs(p, setText(t)) /\ TypedRefs(p, Silent(setText(t)))
                /\ TypedRefs(p, [setText(t) EXCEPT !.timers = {"debounce"}])
      /\ \A k : TypedRefs(p, setPage(k))
      /\ TypedRefs(p, resized) /\ TypedRefs(p, Silent(ui))
    BY <1>1, QueryEditsTyped
<1> QED BY <1>1, <1>2, <1>3 DEF PackageSearchBarDo, handleKeydown

\* A search that has ended, whatever came of it.
LEMMA SearchEndedTyped ==
    ASSUME NEW p, TypedPage(p), NEW n \in DOMAIN calls, calls[n].kind = "list"
    PROVE  TypedRefs(p, SearchEnded(n))
<1>1. TypedRefs(p, ui) /\ (Ok(n) => TypedRefs(p, Listed(n)))
    BY TypedAnswers
<1>2. CASE Ok(n)
    <2> DEFINE u == Listed(n)
               sel == IF ui.mode = "grid" THEN u.sel ELSE {}
    <2>1. SearchEnded(n) = [u EXCEPT !.sel = sel] /\ TypedRefs(p, u) /\ sel \subseteq Items
        BY <1>1, <1>2 DEF SearchEnded, TypedRefs
    <2> HIDE DEF u, sel
    <2> QED BY <2>1 DEF TypedRefs, Refs
<1>3. CASE ~Ok(n)
    <2>1. NoRows \in [Items -> RowStates]
        BY DEF NoRows, RowStates
    <2> DEFINE v == NoRows
               w == None
               x == FALSE
               u == [ui EXCEPT !.rows[1] = v, !.asked[1] = w]
    <2>2. TypedRefs(p, u)
        <3>1. v \in [Items -> RowStates]
            BY <2>1
        <3> HIDE DEF v, w
        <3> QED BY Zenon, <1>1, <3>1, TypedRowEdits
    <2>3. SearchEnded(n) = [u EXCEPT !.more = x]
        BY <1>1, <1>3 DEF SearchEnded, TypedRefs, Refs
    <2> HIDE DEF u, x
    <2> QED BY <2>2, <2>3 DEF TypedRefs, Refs
<1> QED BY <1>2, <1>3

\* What PackageExplorer sends besides its searches.
LEMMA PackageExplorerSendsTyped ==
    \A i, S, clears : LET p == "PackageExplorer" IN
        /\ TypedReq(p, Act("loadRepositories", None, clears))
        /\ TypedReq(p, Create("handleUpload", 1, clears))
        /\ S \subseteq Items /\ S # {} => TypedReq(p, BatchDelete(S, clears))
        /\ i \in Items \cup {None} =>
             /\ TypedReq(p, Act("parseMavenCoordinates", i, clears))
             /\ TypedReq(p, Get("loadVersions", 1, i, clears))
             /\ TypedReq(p, Delete("onDeletePackage", 1, i, clears))
<1>1. \A op \in {"loadRepositories", "handleUpload", "parseMavenCoordinates", "loadVersions", "onDeletePackage"} :
         op \notin NamedOps
    BY DEF NamedOps, ListOps, GetOps, UpdateOps, CreateOps, RowOps
<1>2. "PackageExplorer" \notin ListPages /\ 1 \in Collections
    BY DEF ListPages, Collections
<1>3. ASSUME NEW S, S \subseteq Items, S # {}, NEW clears
      PROVE  TypedReq("PackageExplorer", BatchDelete(S, clears))
    <2> DEFINE i == CHOOSE x \in S : TRUE
    <2>1. i \in Items \cup {None} /\ S \ {i} \subseteq Items
        BY <1>3
    <2>2. BatchDelete(S, clears) = DeleteNext("onBatchDelete", 1, i, S \ {i}, clears)
        BY DEF BatchDelete
    <2> HIDE DEF i
    <2> QED BY <1>2, <2>1, <2>2, TypedRequests
<1> QED BY <1>1, <1>2, <1>3, TypedRequests

\* Its edits.
LEMMA PackageExplorerEditsTyped ==
    ASSUME NEW p \in {"PackageExplorer", "PublicBrowse"}, TypedRefs(p, ui)
    PROVE  /\ \A x : TypedRefs(p, [ui EXCEPT !.tab = x]) /\ TypedRefs(p, [ui EXCEPT !.mode = x])
           /\ \A i \in Items : TypedRefs(p, [ui EXCEPT !.sel = @ \cup {i}])
           /\ TypedRefs(p, [ui EXCEPT !.sel = {}])
           /\ \A i \in Items \cup {None} : \A k, v : TypedRefs(p, Opened(k, i, v))
           /\ \A i \in Items \cup {None} : TypedRefs(p, [ui EXCEPT !.box.item = i])
           /\ \A x : TypedRefs(p, [ui EXCEPT !.form = x])
           /\ \A i, x : TypedRefs(p, [ui EXCEPT !.form[i] = x])
           /\ TypedRefs(p, Closed) /\ TypedRefs(p, closeUpload)
<1>1. p \notin FormPages /\ p \notin DialogPages /\ p # "DependencyGraph"
    BY DEF FormPages, DialogPages
<1>2. \A x : TypedRefs(p, [ui EXCEPT !.tab = x]) /\ TypedRefs(p, [ui EXCEPT !.mode = x])
    BY Zenon, TypedPlainEdits
<1>3. ASSUME NEW x, x \subseteq Items PROVE TypedRefs(p, [ui EXCEPT !.sel = x])
    BY <1>3 DEF TypedRefs, Refs
<1>4. ASSUME NEW i \in Items PROVE TypedRefs(p, [ui EXCEPT !.sel = @ \cup {i}])
    <2> DEFINE x == ui.sel \cup {i}
    <2>1. x \subseteq Items
        BY DEF TypedRefs
    <2> HIDE DEF x
    <2>2. TypedRefs(p, [ui EXCEPT !.sel = x])
        BY <1>3, <2>1
    <2> QED BY <2>2 DEF x
<1>5. /\ \A i \in Items \cup {None} : \A k, v : TypedRefs(p, Opened(k, i, v))
      /\ \A i \in Items \cup {None} : TypedRefs(p, [ui EXCEPT !.box.item = i])
      /\ TypedRefs(p, Closed)
    BY Zenon, <1>1, TypedBoxEdits, TypedBoxes DEF Opened, Closed
<1>6. \A x : TypedRefs(p, [ui EXCEPT !.form = x])
    BY Zenon, <1>1, TypedFormEdits
<1>7. ASSUME NEW i, NEW x PROVE TypedRefs(p, [ui EXCEPT !.form[i] = x])
    <2> DEFINE form == [ui.form EXCEPT ![i] = x]
    <2>1. [ui EXCEPT !.form[i] = x] = [ui EXCEPT !.form = form]
        BY DEF TypedRefs, Refs
    <2> HIDE DEF form
    <2> QED BY <1>6, <2>1
<1>8. TypedRefs(p, closeUpload)
    <2> DEFINE u == Closed
               w == [u EXCEPT !.form = NoRows]
               spin == u.spin \ {"uploading"}
    <2>1. TypedRefs(p, w)
        BY Zenon, <1>1, <1>5, TypedFormEdits
    <2>2. closeUpload = [w EXCEPT !.spin = spin]
        BY DEF closeUpload, Closed
    <2> HIDE DEF w, spin
    <2> QED BY Zenon, <2>1, <2>2, TypedPlainEdits
<1>9. TypedRefs(p, [ui EXCEPT !.sel = {}])
    BY <1>3
<1> QED BY <1>2, <1>4, <1>5, <1>6, <1>7, <1>8, <1>9

\* The clicks on PackageExplorer.
LEMMA PackageExplorerClicksTyped ==
    ASSUME TypedPage("PackageExplorer"), NEW e, NEW i \in Items \cup {None},
           PackageExplorerDo(e, i),
           e = "tick" => i \in Items
    PROVE  TypedPage("PackageExplorer")'
<1> DEFINE p == "PackageExplorer"
<1>1. /\ TypedRefs(p, ui)
      /\ \A S : TypedReqs(p, S) => \A u : TypedRefs(p, u) /\ Do(u, S) => TypedPage(p)'
    BY TypedClicks
<1>2. /\ \A x : TypedRefs(p, [ui EXCEPT !.tab = x]) /\ TypedRefs(p, [ui EXCEPT !.mode = x])
      /\ i \in Items => TypedRefs(p, [ui EXCEPT !.sel = @ \cup {i}])
      /\ TypedRefs(p, [ui EXCEPT !.sel = {}]) /\ TypedRefs(p, [ui EXCEPT !.box.item = i])
      /\ TypedRefs(p, Opened("versions", i, 0)) /\ TypedRefs(p, Opened("upload", None, 0))
      /\ TypedRefs(p, Closed) /\ TypedRefs(p, closeUpload)
    BY <1>1, PackageExplorerEditsTyped
<1>3. /\ \A u : TypedReqs(p, <<search(u, "refresh")>>)
      /\ TypedReqs(p, <<>>) /\ TypedReqs(p, <<Act("loadRepositories", None, {})>>)
      /\ TypedReqs(p, <<Act("parseMavenCoordinates", i, {})>>)
      /\ TypedReqs(p, <<Create("handleUpload", 1, {"uploading"})>>)
      /\ TypedReqs(p, <<Delete("onDeletePackage", 1, i, {})>>)
      /\ TypedReqs(p, <<Get("loadVersions", 1, i, {"versionsLoading"})>>)
    BY <1>1, QueryEditsTyped, PackageExplorerSendsTyped, TypedFew
<1>4. \A S : S \subseteq Items /\ S # {} => TypedReqs(p, <<BatchDelete(S, {})>>)
    BY PackageExplorerSendsTyped, TypedFew
<1>5. ui.sel \cap Shown(1) \subseteq Items
    BY <1>1 DEF TypedRefs
<1>6. ASSUME \/ PackageSearchBarDo(e) \/ handleKeydown(e)
             \/ e = "next" /\ Do(setPage(2), <<search(setPage(2), "search")>>)
             \/ e = "prev" /\ Do(setPage(1), <<search(setPage(1), "search")>>)
             \/ e = "size" /\ Do(resized, <<search(resized, "search"), search(resized, "search")>>)
             \/ e = "applyFilter" /\ \E t \in {0, 3} : Do(setText(t), <<search(setText(t), "search")>>)
      PROVE  TypedPage(p)'
    BY <1>6, SearchBarClicksTyped
<1>7. ASSUME UploadPackageDo(e, i) PROVE TypedPage(p)'
    BY <1>1, <1>2, <1>3, <1>7 DEF UploadPackageDo
<1> HIDE DEF p
<1>8. CASE e \in {"openFilter", "closeFilter", "view", "tick", "delete"}
    BY <1>1, <1>2, <1>3, <1>6, <1>7, <1>8 DEF PackageExplorerDo, p
<1>9. CASE e = "batchDelete"
    <2> DEFINE S == ui.sel \cap Shown(1)
    <2>1. CASE S = {}
        BY <1>1, <1>2, <1>3, <1>6, <1>7, <1>9, <2>1 DEF PackageExplorerDo, p
    <2>2. CASE S # {}
        <3>1. TypedReqs(p, <<BatchDelete(S, {})>>)
            BY <1>4, <1>5, <2>2
        <3> HIDE DEF S
        <3> QED BY <1>1, <1>6, <1>7, <1>9, <2>2, <3>1 DEF PackageExplorerDo, p, S
    <2> QED BY <2>1, <2>2
<1>10. CASE e \notin {"openFilter", "closeFilter", "view", "tick", "delete", "batchDelete"}
    BY <1>1, <1>2, <1>3, <1>6, <1>7, <1>10 DEF PackageExplorerDo, p
<1> QED BY <1>8, <1>9, <1>10

\* Its answers.
LEMMA PackageExplorerAnswersTyped ==
    ASSUME TypedPage("PackageExplorer"), NEW n \in DOMAIN calls, PackageExplorerBack(n)
    PROVE  TypedPage("PackageExplorer")'
<1> DEFINE p == "PackageExplorer"
<1>1. /\ TypedRefs(p, ui) /\ TypedReq(p, calls[n])
      /\ \A S : TypedReqs(p, S) => \A u : TypedRefs(p, u) /\ Then(n, u, S) => TypedPage(p)'
    BY TypedAnswers
<1>2. /\ calls[n].op \in {"search", "refresh"} => TypedRefs(p, SearchEnded(n))
      /\ calls[n].op = "onBatchDelete" => calls[n].arg \subseteq Items
    BY <1>1, SearchEndedTyped DEF TypedReq, ListOps
<1>3. /\ \A u : TypedReqs(p, <<search(u, "refresh")>>) /\ TypedReqs(p, <<>>)
      /\ \A S : S \subseteq Items /\ S # {} => TypedReqs(p, <<BatchDelete(S, {})>>)
    BY <1>1, QueryEditsTyped, PackageExplorerSendsTyped, TypedFew
<1>4. /\ TypedRefs(p, [ui EXCEPT !.sel = {}]) /\ TypedRefs(p, closeUpload)
      /\ \A x : TypedRefs(p, [ui EXCEPT !.form = x])
      /\ \A i, x : TypedRefs(p, [ui EXCEPT !.form[i] = x])
    BY <1>1, PackageExplorerEditsTyped
<1>5. ASSUME Op(n, {"refresh"}), refresh(n) PROVE TypedPage(p)'
    <2> DEFINE u == SearchEnded(n)
               q == Query(textOf(u.q), 1, u.q)
               back == [u EXCEPT !.q = q]
    <2>1. TypedRefs(p, u)
        BY <1>2, <1>5 DEF Op
    <2>2. TypedRefs(p, back)
        BY <2>1, TypedPlainEdits
    <2>3. Then(n, back, <<search(back, "refresh")>>) \/ Then(n, u, <<>>)
        BY <1>5 DEF refresh
    <2> HIDE DEF u, back, p
    <2> QED BY <1>1, <1>3, <2>1, <2>2, <2>3
<1>6. ASSUME VersionDrawerBack(n) \/ UploadPackageBack(n) PROVE TypedPage(p)'
    BY <1>1, <1>3, <1>4, <1>6 DEF VersionDrawerBack, UploadPackageBack
<1> HIDE DEF p
<1>7. CASE Op(n, {"search", "refresh", "onBatchDelete"})
    BY <1>1, <1>2, <1>3, <1>4, <1>5, <1>6, <1>7 DEF PackageExplorerBack, Op, p
<1>8. CASE ~Op(n, {"search", "refresh", "onBatchDelete"})
    BY <1>1, <1>3, <1>4, <1>6, <1>8 DEF PackageExplorerBack, Op, Failed, p
<1> QED BY <1>7, <1>8

\* The requests of a handler whose component is gone leave with it.
LEMMA TypedWithout ==
    \A p, cs, op : TypedReqs(p, cs) => TypedReqs(p, Without(cs, op))
<1> TAKE p, cs, op
<1> HAVE TypedReqs(p, cs)
<1>1. CASE AtOp(cs, op) = {}
    BY <1>1 DEF Without
<1>2. CASE AtOp(cs, op) # {}
    <2> DEFINE n == CHOOSE m \in AtOp(cs, op) : TRUE
    <2>1. n \in DOMAIN cs /\ Without(cs, op) = RemoveAt(cs, n)
        BY <1>2 DEF Without, AtOp
    <2> HIDE DEF n
    <2> QED BY <2>1, TypedRest
<1> QED BY <1>1, <1>2

\* The clicks on PublicBrowse.
LEMMA PublicBrowseClicksTyped ==
    ASSUME TypedPage("PublicBrowse"), NEW e, NEW i \in Items \cup {None}, PublicBrowseDo(e, i)
    PROVE  TypedPage("PublicBrowse")'
<1> DEFINE p == "PublicBrowse"
<1>1. /\ TypedRefs(p, ui)
      /\ \A S : TypedReqs(p, S) => \A u : TypedRefs(p, u) /\ Do(u, S) => TypedPage(p)'
    BY TypedClicks
<1>2. /\ \A x : TypedRefs(p, [ui EXCEPT !.tab = x]) /\ TypedRefs(p, [ui EXCEPT !.mode = x])
      /\ TypedRefs(p, Opened("repositories", None, 0)) /\ TypedRefs(p, Closed)
    BY <1>1, PackageExplorerEditsTyped
<1>3. TypedRefs(p, Silent(Opened("repositories", None, 0)))
    BY <1>2, TypedPlainEdits DEF Silent
<1>4. "loadRepositories" \notin NamedOps /\ "statusPanel" \notin NamedOps
    BY DEF NamedOps, ListOps, GetOps, UpdateOps, CreateOps, RowOps
<1>5. "showcase" \in ListOps /\ p \notin ListPages /\ 2 \in Collections
    BY DEF ListOps, ListPages, Collections
<1>6. TypedReq(p, Act("loadRepositories", None, {})) /\ TypedReq(p, loadStatusPanel)
      /\ TypedReq(p, loadShowcase(Blank))
    BY <1>4, <1>5, TypedRequests DEF loadStatusPanel, loadShowcase
<1>7. /\ TypedReqs(p, <<Act("loadRepositories", None, {})>>) /\ TypedReqs(p, <<>>)
      /\ TypedReqs(p, <<loadShowcase(Blank), loadStatusPanel>>)
      /\ \A u : TypedReqs(p, <<search(u, "search")>>)
    BY <1>1, <1>6, QueryEditsTyped, TypedFew
<1>8. ASSUME \/ PackageSearchBarDo(e) \/ handleKeydown(e)
             \/ e = "next" /\ Do(setPage(2), <<search(setPage(2), "search")>>)
             \/ e = "prev" /\ Do(setPage(1), <<search(setPage(1), "search")>>)
             \/ e = "size" /\ Do(resized, <<search(resized, "search"), search(resized, "search")>>)
             \/ e = "applyFilter" /\ \E t \in {0, 3} : Do(setText(t), <<search(setText(t), "search")>>)
             \/ e = "clearFilters" /\ Do(setText(0), <<search(setText(0), "search")>>)
      PROVE  TypedPage(p)'
    BY <1>8, SearchBarClicksTyped
<1>9. ASSUME leaveRepositories PROVE TypedPage(p)'
    <2> DEFINE v == NoRows
               w == None
               u == [Closed EXCEPT !.rows[2] = v, !.asked[2] = w]
               spin == Closed.spin \ {"showcase", "statusPanel"}
               S == IF ui.tab = 2 THEN <<Act("loadRepositories", None, {})>> ELSE <<>>
               cs == Without(Without(calls, "showcase"), "statusPanel")
    <2>1. v \in [Items -> RowStates]
        BY DEF NoRows, RowStates
    <2>2. TypedReqs(p, S)
        BY <1>7
    <2>3. TypedReqs(p, cs)
        BY TypedWithout DEF TypedPage
    <2>4. ui' = [u EXCEPT !.spin = spin] /\ calls' = Sending(cs, S)
        BY <1>1, <1>9 DEF leaveRepositories, TypedRefs, Refs, Closed
    <2>5. TypedRefs(p, u)
        <3> HIDE DEF v, w
        <3> QED BY Zenon, <1>2, <2>1, TypedRowEdits
    <2> HIDE DEF u, spin, S, cs
    <2>6. TypedRefs(p, ui')
        BY <2>4, <2>5, TypedPlainEdits
    <2>7. TypedReqs(p, calls')
        BY <2>2, <2>3, <2>4, TypedSending
    <2> QED BY <2>6, <2>7 DEF TypedPage
<1> HIDE DEF p
<1> QED BY <1>1, <1>2, <1>3, <1>7, <1>8, <1>9 DEF PublicBrowseDo, p

\* Its answers.
LEMMA PublicBrowseAnswersTyped ==
    ASSUME TypedPage("PublicBrowse"), NEW n \in DOMAIN calls, PublicBrowseBack(n)
    PROVE  TypedPage("PublicBrowse")'
<1> DEFINE p == "PublicBrowse"
<1>1. /\ TypedRefs(p, ui) /\ TypedReq(p, calls[n])
      /\ \A S : TypedReqs(p, S) => \A u : TypedRefs(p, u) /\ Then(n, u, S) => TypedPage(p)'
      /\ calls[n].kind = "list" /\ Ok(n) => TypedRefs(p, Listed(n))
    BY TypedAnswers
<1>2. calls[n].op \in {"search", "showcase"} => calls[n].kind = "list"
    BY <1>1 DEF TypedReq, ListOps
<1>3. calls[n].op = "search" => TypedRefs(p, SearchEnded(n))
    BY <1>2, SearchEndedTyped
<1>4. TypedReqs(p, <<>>)
    BY TypedFew
<1>5. TypedRefs(p, [ui EXCEPT !.rows[2] = NoRows, !.asked[2] = None])
    <2> DEFINE v == NoRows
               w == None
    <2>1. v \in [Items -> RowStates]
        BY DEF NoRows, RowStates
    <2> HIDE DEF v, w
    <2>2. TypedRefs(p, [ui EXCEPT !.rows[2] = v, !.asked[2] = w])
        BY Zenon, <1>1, <2>1, TypedRowEdits
    <2> QED BY <2>2 DEF v, w
<1> HIDE DEF p
<1> QED BY <1>1, <1>2, <1>3, <1>4, <1>5 DEF PublicBrowseBack, Op, p

\* What PackageDetail shows, and caches, of package i.
LEMMA ShownTyped ==
    \A p, u, i, v : TypedRefs(p, u) /\ i \in Items /\ v \in RowStates =>
        TypedRefs(p, Show(u, i, v)) /\ TypedRefs(p, [u EXCEPT !.rows[2][i] = v])
<1> TAKE p, u, i, v
<1> HAVE TypedRefs(p, u) /\ i \in Items /\ v \in RowStates
<1> DEFINE shown == [NoRows EXCEPT ![i] = v]
           cached == [u.rows[2] EXCEPT ![i] = v]
           sel == {i}
<1>1. shown \in [Items -> RowStates] /\ cached \in [Items -> RowStates] /\ sel \subseteq Items
    BY DEF NoRows, TypedRefs, RowStates, Collections
<1> DEFINE w == [u EXCEPT !.sel = sel, !.rows[1] = shown]
<1>2. Show(u, i, v) = [w EXCEPT !.rows[2][i] = v]
    BY DEF Show
<1>3. [u EXCEPT !.rows[2][i] = v] = [u EXCEPT !.rows[2] = cached]
    OBVIOUS
<1>4. w.rows[2] = u.rows[2] /\ DOMAIN w = Refs /\ DOMAIN u = Refs
    <2> HIDE DEF shown, sel
    <2> QED BY DEF TypedRefs, Refs, Collections
<1>5. Show(u, i, v) = [w EXCEPT !.rows[2] = cached]
    <2> HIDE DEF w
    <2> QED BY <1>2, <1>4
<1> HIDE DEF shown, cached, sel
<1>6. TypedRefs(p, w)
    <2>1. TypedRefs(p, [u EXCEPT !.sel = sel])
        BY Zenon, <1>1, TypedFormEdits
    <2>2. w = [[u EXCEPT !.sel = sel] EXCEPT !.rows[1] = shown]
        BY <1>4
    <2> HIDE DEF w
    <2> QED BY Zenon, <1>1, <2>1, <2>2, TypedRowEdits
<1> HIDE DEF w
<1>7. TypedRefs(p, [w EXCEPT !.rows[2] = cached])
    BY Zenon, <1>1, <1>6, TypedRowEdits
<1>8. TypedRefs(p, [u EXCEPT !.rows[2] = cached])
    BY Zenon, <1>1, TypedRowEdits
<1> QED BY <1>7, <1>8, <1>3, <1>5

\* The clicks on PackageDetail.
LEMMA PackageDetailClicksTyped ==
    ASSUME TypedPage("PackageDetail"), NEW e, NEW i \in Items, PackageDetailDo(e, i)
    PROVE  TypedPage("PackageDetail")'
<1> DEFINE p == "PackageDetail"
<1>1. /\ TypedRefs(p, ui)
      /\ \A S : TypedReqs(p, S) => \A u : TypedRefs(p, u) /\ Do(u, S) => TypedPage(p)'
    BY TypedClicks
<1>2. /\ p \notin ListPages /\ 1 \in Collections /\ 2 \in RowStates
      /\ p \notin DialogPages /\ p # "DependencyGraph"
    BY DEF ListPages, Collections, RowStates, DialogPages
<1>3. \A op \in {"handleYank", "handleDelete"} : op \notin NamedOps
    BY DEF NamedOps, ListOps, GetOps, UpdateOps, CreateOps, RowOps
<1>4. "fetchPackageDetail" \in GetOps /\ "refreshInBackground" \in GetOps
    BY DEF GetOps
<1>5. /\ TypedReq(p, fetchPackageDetail(i)) /\ TypedReq(p, refreshInBackground(i))
      /\ TypedReq(p, Update("handleYank", 1, i, 2, {}))
      /\ TypedReq(p, Delete("handleDelete", 1, i, {}))
    BY <1>2, <1>3, <1>4, TypedRequests DEF fetchPackageDetail, refreshInBackground
<1>6. /\ TypedReqs(p, <<>>) /\ TypedReqs(p, <<fetchPackageDetail(i)>>)
      /\ TypedReqs(p, <<refreshInBackground(i)>>)
      /\ TypedReqs(p, <<Update("handleYank", 1, i, 2, {})>>)
      /\ TypedReqs(p, <<Delete("handleDelete", 1, i, {})>>)
    BY <1>5, TypedFew
<1>7. ASSUME loadFromCacheOrFetch(i) PROVE TypedPage(p)'
    <2> DEFINE v == ui.rows[2][i]
               b == [kind |-> "route", item |-> i, data |-> 0]
               u == [ui EXCEPT !.box = b]
    <2>1. Boxed(p, b)
        BY <1>2, TypedBoxes
    <2>2. TypedRefs(p, u)
        <3> HIDE DEF b
        <3> QED BY Zenon, <1>1, <2>1, TypedBoxEdits
    <2>3. v \in RowStates
        BY <1>1 DEF TypedRefs, Collections
    <2>4. \/ Do(u, <<fetchPackageDetail(i)>>) \/ Do(Show(u, i, v), <<refreshInBackground(i)>>)
          \/ Do(Show(u, i, v), <<>>)
        BY <1>7 DEF loadFromCacheOrFetch
    <2> HIDE DEF u, v, p
    <2>5. TypedRefs(p, Show(u, i, v))
        BY <2>2, <2>3, ShownTyped
    <2> QED BY <1>1, <1>6, <2>2, <2>4, <2>5
<1> HIDE DEF p
<1> QED BY <1>1, <1>6, <1>7 DEF PackageDetailDo, p

\* Its answers.
LEMMA PackageDetailAnswersTyped ==
    ASSUME TypedPage("PackageDetail"), NEW n \in DOMAIN calls, PackageDetailBack(n)
    PROVE  TypedPage("PackageDetail")'
<1> DEFINE p == "PackageDetail"
           i == calls[n].item
           v == Detailed(calls[n].reply)
<1>1. /\ TypedRefs(p, ui) /\ TypedReq(p, calls[n])
      /\ \A S : TypedReqs(p, S) => \A u : TypedRefs(p, u) /\ Then(n, u, S) => TypedPage(p)'
    BY TypedAnswers
<1>2. TypedReqs(p, <<>>)
    BY TypedFew
<1>3. ASSUME calls[n].op \in {"fetchPackageDetail", "refreshInBackground"}, Ok(n)
      PROVE  i \in Items /\ v \in RowStates
    <2>1. i \in Items /\ calls[n].kind = "get" /\ calls[n].st = "ok"
        BY <1>1, <1>3 DEF TypedReq, GetOps, RowOps, Ok
    <2>2. calls[n].reply \in RowStates
        BY <1>1, <2>1 DEF TypedReq
    <2> QED BY <2>1, <2>2 DEF Detailed, RowStates
<1>4. \A w \in RowStates : TypedRefs(p, Noted(w))
    <2> TAKE w \in RowStates
    <2> DEFINE list == [j \in Items |-> IF j \in ui.sel THEN w ELSE 0]
               cached == [j \in Items |-> IF j \in ui.sel \/ (j = routed /\ ui.rows[2][j] # 0)
                                          THEN w ELSE ui.rows[2][j]]
               both == [[ui.rows EXCEPT ![1] = list] EXCEPT ![2] = cached]
    <2>1. list \in [Items -> RowStates] /\ cached \in [Items -> RowStates]
        BY <1>1 DEF TypedRefs, RowStates, Collections
    <2>2. Noted(w) = [ui EXCEPT !.rows = both]
        BY <1>1 DEF Noted, TypedRefs, Refs, Collections
    <2> HIDE DEF list, cached
    <2>3. both \in [Collections -> [Items -> RowStates]]
        BY <1>1, <2>1 DEF TypedRefs
    <2> HIDE DEF both
    <2> QED BY <1>1, <2>2, <2>3 DEF TypedRefs, Refs
<1>5. TypedRefs(p, Noted(2)) /\ TypedRefs(p, Noted(3))
    BY <1>4 DEF RowStates
<1> HIDE DEF p, i, v
<1>6. CASE Op(n, {"fetchPackageDetail"}) /\ Ok(n) /\ Then(n, Show(ui, i, v), <<>>)
    BY <1>1, <1>2, <1>3, <1>6, ShownTyped DEF Op, p
<1>7. CASE Op(n, {"refreshInBackground"}) /\ Ok(n) /\ Then(n, refreshed(n), <<>>)
    <2>1. refreshed(n) \in {Show(ui, i, v), [ui EXCEPT !.rows[2][i] = v]}
        BY DEF refreshed, i, v
    <2>2. i \in Items /\ v \in RowStates
        BY <1>3, <1>7 DEF Op
    <2>3. TypedRefs(p, Show(ui, i, v)) /\ TypedRefs(p, [ui EXCEPT !.rows[2][i] = v])
        BY <1>1, <2>2, ShownTyped
    <2> QED BY <1>1, <1>2, <1>7, <2>1, <2>3 DEF p
<1> QED BY <1>1, <1>2, <1>5, <1>6, <1>7 DEF PackageDetailBack, Failed, p, i, v

\* Edits of DependencyGraph's refs.
LEMMA GraphEditsTyped ==
    ASSUME NEW u, TypedRefs("DependencyGraph", u)
    PROVE  LET p == "DependencyGraph" IN
           /\ \A x : TypedRefs(p, [u EXCEPT !.form = x]) /\ TypedRefs(p, [u EXCEPT !.mode = x])
           /\ \A i \in Items : TypedRefs(p, [u EXCEPT !.sel = {i}])
           /\ \A i \in Items \cup {None} : \A x : TypedRefs(p, [u EXCEPT !.box.item = i, !.form = x])
           /\ TypedRefs(p, [u EXCEPT !.box.kind = "none"])
           /\ \A i \in Items \cup {None}, s \in Seq(Items \cup {None}) :
                TypedRefs(p, [u EXCEPT !.form = NoRows, !.box = [kind |-> "node", item |-> i, data |-> s]])
<1> DEFINE p == "DependencyGraph"
<1>1. p \notin FormPages /\ p \notin DialogPages
    BY DEF FormPages, DialogPages
<1>2. \A x : TypedRefs(p, [u EXCEPT !.form = x]) /\ TypedRefs(p, [u EXCEPT !.mode = x])
    BY Zenon, <1>1, TypedFormEdits, TypedPlainEdits
<1>3. \A i \in Items : TypedRefs(p, [u EXCEPT !.sel = {i}])
    <2> TAKE i \in Items
    <2> DEFINE sel == {i}
    <2>1. sel \subseteq Items
        OBVIOUS
    <2> HIDE DEF sel
    <2>2. TypedRefs(p, [u EXCEPT !.sel = sel])
        BY Zenon, <2>1, TypedFormEdits
    <2> QED BY <2>2 DEF sel
<1>4. ASSUME NEW i \in Items \cup {None}, NEW x PROVE TypedRefs(p, [u EXCEPT !.box.item = i, !.form = x])
    <2> DEFINE b == [u.box EXCEPT !.item = i]
    <2>1. [u EXCEPT !.box.item = i, !.form = x] = [u EXCEPT !.box = b, !.form = x]
        OBVIOUS
    <2>2. Boxed(p, u.box)
        BY Zenon, TypedBoxEdits
    <2>3. Boxed(p, b)
        BY <2>2, TypedBoxes
    <2> HIDE DEF b
    <2> QED BY Zenon, <1>1, <2>1, <2>3, TypedBoxEdits
<1>5. TypedRefs(p, [u EXCEPT !.box.kind = "none"])
    <2> DEFINE b == [u.box EXCEPT !.kind = "none"]
    <2>1. Boxed(p, b)
        BY <1>1 DEF Boxed, TypedRefs
    <2> QED BY Zenon, <2>1, TypedBoxEdits
<1>6. ASSUME NEW i \in Items \cup {None}, NEW s \in Seq(Items \cup {None})
      PROVE  TypedRefs(p, [u EXCEPT !.form = NoRows, !.box = [kind |-> "node", item |-> i, data |-> s]])
    <2> DEFINE b == [kind |-> "node", item |-> i, data |-> s]
               x == NoRows
    <2>1. Boxed(p, b)
        BY <1>1 DEF Boxed
    <2>2. [u EXCEPT !.form = x, !.box = b] = [u EXCEPT !.box = b, !.form = x]
        BY DEF TypedRefs, Refs
    <2> HIDE DEF b, x
    <2>3. TypedRefs(p, [u EXCEPT !.form = x, !.box = b])
        BY Zenon, <1>1, <2>1, <2>2, TypedBoxEdits
    <2> QED BY <2>3 DEF b, x
<1> QED BY <1>2, <1>3, <1>4, <1>5, <1>6

\* The stack of the nodes behind the one in the dialog.
LEMMA StackTyped ==
    ASSUME NEW T, NEW s \in Seq(T)
    PROVE  /\ \A i \in T : Append(s, i) \in Seq(T)
           /\ s # <<>> => Last(s) \in T /\ Front(s) \in Seq(T)
<1>1. \A i \in T : Append(s, i) \in Seq(T)
    OBVIOUS
<1>2. ASSUME s # <<>> PROVE Last(s) \in T /\ Front(s) \in Seq(T)
    <2>1. Len(s) \in Nat /\ Len(s) > 0
        BY <1>2
    <2> QED BY <2>1 DEF Last, Front
<1> QED BY <1>1, <1>2

\* A node is visited.
LEMMA VisitTyped ==
    ASSUME TypedRefs("DependencyGraph", ui), NEW i \in Items \cup {None},
           NEW s \in Seq(Items \cup {None})
    PROVE  TypedRefs("DependencyGraph", Visit(i, s))
<1>1. Visit(i, s) = [ui EXCEPT !.form = NoRows, !.box = [kind |-> "node", item |-> i, data |-> s]]
    BY DEF Visit, Emptied
<1>2. TypedRefs("DependencyGraph", [ui EXCEPT !.form = NoRows,
                                               !.box = [kind |-> "node", item |-> i, data |-> s]])
    BY GraphEditsTyped
<1> QED BY <1>1, <1>2

\* The clicks on DependencyGraph.
LEMMA DependencyGraphClicksTyped ==
    ASSUME TypedPage("DependencyGraph"), NEW e, NEW i \in Items \cup {None},
           DependencyGraphDo(e, i),
           e = "node" => i \in Items,
           e \in {"dep", "goBack"} => InFront("node"), e = "goBack" => ui.box.data # <<>>
    PROVE  TypedPage("DependencyGraph")'
<1> DEFINE p == "DependencyGraph"
<1>1. /\ TypedRefs(p, ui)
      /\ \A S : TypedReqs(p, S) => \A u : TypedRefs(p, u) /\ Do(u, S) => TypedPage(p)'
    BY TypedClicks
<1>2. p \notin ListPages /\ 2 \in Collections
    BY DEF ListPages, Collections
<1>3. "retry" \notin NamedOps
    BY DEF NamedOps, ListOps, GetOps, UpdateOps, CreateOps, RowOps
<1>4. "searchNode" \in GetOps /\ "searchNode" \notin RowOps
    BY DEF GetOps, RowOps
<1>5. TypedReq(p, Act("retry", None, {}))
    BY <1>2, <1>3, TypedRequests
<1>6. \A u : \A j \in Items \cup {None} : TypedReq(p, fetchNode(u, j))
    BY <1>2, <1>4, TypedRequests DEF fetchNode
<1>7. /\ TypedReqs(p, <<>>) /\ TypedReqs(p, <<Act("retry", None, {})>>)
      /\ \A u : \A j \in Items \cup {None} :
            TypedReqs(p, <<fetchNode(u, j)>>) /\ TypedReqs(p, <<fetchNode(u, j), fetchNode(u, j)>>)
    BY <1>5, <1>6, TypedFew
<1>8. CASE e = "retry"
    BY <1>1, <1>7, <1>8 DEF DependencyGraphDo
<1>9. CASE e \in {"close", "optimize"}
    <2>1. Do([ui EXCEPT !.box.kind = "none"], <<>>)
        BY <1>9 DEF DependencyGraphDo
    <2>2. TypedRefs(p, [ui EXCEPT !.box.kind = "none"])
        BY <1>1, GraphEditsTyped
    <2> HIDE DEF p
    <2> QED BY <1>1, <1>7, <2>1, <2>2 DEF p
<1>10. CASE e = "node"
    <2> DEFINE v == Visit(i, <<>>)
               u == [v EXCEPT !.sel = {i}]
               x == ui.form
               w == [u EXCEPT !.form = x]
    <2>1. Select(i)
        BY <1>10 DEF DependencyGraphDo
    <2>2. TypedRefs(p, v)
        <3>1. i \in Items \cup {None} /\ <<>> \in Seq(Items \cup {None})
            OBVIOUS
        <3> QED BY <1>1, <3>1, VisitTyped
    <2>3. TypedRefs(p, u)
        <3> HIDE DEF v
        <3> QED BY <1>10, <2>2, GraphEditsTyped
    <2>4. TypedRefs(p, w)
        <3> HIDE DEF u, x
        <3> QED BY <2>3, GraphEditsTyped
    <2>5. \/ Do(w, <<>>) \/ Do(u, <<fetchNode(u, i)>>) \/ Do(u, <<fetchNode(u, i), fetchNode(u, i)>>)
        BY <2>1 DEF Select
    <2> HIDE DEF w, u, p
    <2> QED BY <1>1, <1>7, <2>3, <2>4, <2>5 DEF p
<1>11. CASE e = "dep"
    <2> DEFINE s == Append(ui.box.data, ui.box.item)
               u == Visit(i, s)
    <2>1. Do(u, <<fetchNode(ui, i)>>)
        BY <1>11 DEF DependencyGraphDo
    <2>2. ui.box.data \in Seq(Items \cup {None}) /\ ui.box.item \in Items \cup {None}
        BY <1>1, <1>11 DEF TypedRefs, InFront
    <2>3. s \in Seq(Items \cup {None})
        BY <2>2
    <2> HIDE DEF s
    <2>4. TypedRefs(p, u)
        BY <1>1, <2>3, VisitTyped
    <2> HIDE DEF u, p
    <2> QED BY <1>1, <1>7, <2>1, <2>4 DEF p
<1>12. CASE e = "goBack"
    <2> DEFINE s == ui.box.data
               j == Last(s)
               rest == Front(s)
               u == Visit(j, rest)
    <2>1. Do(u, <<fetchNode(ui, j)>>)
        BY <1>12 DEF DependencyGraphDo
    <2>2. s \in Seq(Items \cup {None}) /\ s # <<>>
        BY <1>1, <1>12 DEF TypedRefs, InFront
    <2> HIDE DEF s
    <2>3. j \in Items \cup {None} /\ rest \in Seq(Items \cup {None})
        BY <2>2, StackTyped
    <2> HIDE DEF j, rest
    <2>4. TypedRefs(p, u)
        BY <1>1, <2>3, VisitTyped
    <2> HIDE DEF u, p
    <2> QED BY <1>1, <1>7, <2>1, <2>3, <2>4 DEF p
<1> QED BY <1>8, <1>9, <1>10, <1>11, <1>12 DEF DependencyGraphDo

\* Its answers.
LEMMA DependencyGraphAnswersTyped ==
    ASSUME TypedPage("DependencyGraph"), NEW n \in DOMAIN calls, DependencyGraphBack(n)
    PROVE  TypedPage("DependencyGraph")'
<1> DEFINE p == "DependencyGraph"
<1>1. /\ TypedRefs(p, ui) /\ TypedReq(p, calls[n])
      /\ \A S : TypedReqs(p, S) => \A u : TypedRefs(p, u) /\ Then(n, u, S) => TypedPage(p)'
    BY TypedAnswers
<1>2. p \notin ListPages /\ 2 \in Collections
    BY DEF ListPages, Collections
<1>3. \A op \in {"render", "getScanResult"} : op \notin NamedOps
    BY DEF NamedOps, ListOps, GetOps, UpdateOps, CreateOps, RowOps
<1>4. "getVersions" \in GetOps /\ "getVersions" \notin RowOps
    BY DEF GetOps, RowOps
<1>5. /\ TypedReqs(p, <<>>) /\ TypedReqs(p, <<Act("render", None, {"drawing"})>>)
      /\ \A i \in Items \cup {None} : /\ TypedReqs(p, <<Get("getVersions", 2, i, {"loading"})>>)
                                      /\ TypedReqs(p, <<Act("getScanResult", i, {"loading"})>>)
    BY <1>2, <1>3, <1>4, TypedRequests, TypedFew
<1>6. /\ \A x : TypedRefs(p, [ui EXCEPT !.form = x]) /\ TypedRefs(p, [ui EXCEPT !.mode = x])
      /\ \A i \in Items \cup {None} : \A x : TypedRefs(p, [ui EXCEPT !.box.item = i, !.form = x])
    BY <1>1, GraphEditsTyped
<1>7. calls[n].op = "getVersions" => calls[n].item \in Items \cup {None}
    BY <1>1 DEF TypedReq, GetOps, Kinds
<1>8. calls[n].op = "searchNode" => Found(n) \subseteq Items \cup {None}
    <2>1. calls[n].op = "searchNode" => calls[n].item \in Items \cup {None}
        BY <1>1 DEF TypedReq, GetOps, Kinds
    <2> QED BY <2>1 DEF Found
<1>9. ASSUME PackageNodeBack(n) PROVE TypedPage(p)'
    <2> HIDE DEF p
    <2>1. CASE Op(n, {"searchNode"}) /\ ~Then(n, ui, <<>>)
        <3>1. PICK i \in Found(n) : Then(n, [ui EXCEPT !.box.item = i, !.form = WithInfo(i)],
                                         <<Get("getVersions", 2, i, {"loading"})>>)
            BY <1>9, <2>1 DEF PackageNodeBack, Op
        <3>2. i \in Items \cup {None}
            BY <1>8, <2>1 DEF Op
        <3> QED BY <1>1, <1>5, <1>6, <3>1, <3>2
    <2>2. CASE Op(n, {"getVersions"}) /\ ~Then(n, ui, <<>>)
        <3>1. Then(n, [ui EXCEPT !.form = WithVersions(calls[n].item)],
                   <<Act("getScanResult", calls[n].item, {"loading"})>>)
            BY <1>9, <2>2 DEF PackageNodeBack, Op
        <3>2. calls[n].item \in Items \cup {None}
            BY <1>7, <2>2 DEF Op
        <3> QED BY <1>1, <1>5, <1>6, <3>1, <3>2
    <2>3. CASE Then(n, ui, <<>>)
        BY <1>1, <1>5, <2>3
    <2> QED BY <1>9, <2>1, <2>2, <2>3 DEF PackageNodeBack
<1> HIDE DEF p
<1> QED BY <1>1, <1>5, <1>6, <1>9 DEF DependencyGraphBack, p

----------------------------------------
(* What the pages offer *)

\* What a template offers names a row, or none.
Rows(O) == \A k \in O : k[2] \in Items \cup {None}

\* Offers by their parts.
LEMMA RowsOf ==
    /\ Rows({}) /\ \A E : Rows(On(E))
    /\ \A E, S : S \subseteq Items => Rows(For(E, S))
    /\ \A A, B : Rows(A) /\ Rows(B) => Rows(A \cup B)
    /\ \A c : Shown(c) \subseteq Items
BY DEF Rows, On, For, Shown

\* The dialogs that templates of two pages take for the only ones.
DialogsOf == [p \in {"WebhookManagement", "PackageExplorer"} |->
    IF p = "WebhookManagement" THEN {"none", "create", "edit", "deliveries"}
    ELSE {"none", "versions", "upload"}]
DialogIsKnown == page \in DOMAIN DialogsOf => ui.box.kind \in DialogsOf[page]

\* Whatever the mounted page offers, it offers of a row or of none.
LEMMA OffersOfRows ==
    ASSUME DialogIsKnown, ui.sel \subseteq Items
    PROVE  /\ Rows(UserManagementOffers) /\ Rows(RoleManagementOffers) /\ Rows(ProfileSettingsOffers)
           /\ page = "WebhookManagement" => Rows(WebhookManagementOffers)
           /\ Rows(BackupManagementOffers) /\ Rows(StorageManagementOffers)
           /\ Rows(ScheduledTasksOffers) /\ Rows(RuntimeStatusOffers) /\ Rows(DashboardOffers)
           /\ Rows(SystemConfigOffers) /\ Rows(CasSettingsPanelOffers)
           /\ Rows(CacheManagementOffers)
           /\ Rows(RepositoryListOffers) /\ Rows(RepositoryDetailOffers)
           /\ Rows(RepoConfigPageOffers)
           /\ Rows(DownloadLogsOffers) /\ Rows(AuditLogsOffers) /\ Rows(SecurityCenterOffers)
           /\ Rows(VulnRuleManagementOffers) /\ Rows(BlockRuleListOffers)
           /\ Rows(RiskAssessmentOffers)
           /\ page = "PackageExplorer" => Rows(PackageExplorerOffers)
           /\ Rows(FileBrowserOffers) /\ Rows(PublicBrowseOffers) /\ Rows(GraphOffers)
<1>1. \A c : /\ Shown(c) \subseteq Items /\ Shown(c) \ {Protected} \subseteq Items
             /\ {i \in Shown(c) : i \notin ui.spin} \subseteq Items
    BY RowsOf
<1>2. Rows(UserManagementOffers)
    BY <1>1, RowsOf DEF UserManagementOffers, UserDialogOffers
<1>3. Rows(RoleManagementOffers)
    BY <1>1, RowsOf DEF RoleManagementOffers
<1>4. Rows(ProfileSettingsOffers)
    BY <1>1, RowsOf DEF ProfileSettingsOffers, ProfileDialogOffers
<1>5. Rows(BackupManagementOffers)
    BY <1>1, RowsOf DEF BackupManagementOffers
<1>6. Rows(StorageManagementOffers)
    BY <1>1, RowsOf DEF StorageManagementOffers
<1>7. Rows(ScheduledTasksOffers)
    BY <1>1, RowsOf DEF ScheduledTasksOffers
<1>8. Rows(RuntimeStatusOffers)
    BY <1>1, RowsOf DEF RuntimeStatusOffers, SystemInfoOffers, ConnectionsOffers
<1>9. Rows(DashboardOffers)
    BY <1>1, RowsOf DEF DashboardOffers
<1>10. Rows(SystemConfigOffers)
    BY <1>1, RowsOf DEF SystemConfigOffers
<1>11. Rows(CasSettingsPanelOffers)
    BY <1>1, RowsOf DEF CasSettingsPanelOffers
<1>12. Rows(CacheManagementOffers)
    BY <1>1, RowsOf DEF CacheManagementOffers, CacheItemOffers
<1>13. Rows(RepositoryListOffers)
    BY <1>1, RowsOf DEF RepositoryListOffers, RepositoryFormOffers, VirtualMembersOffers
<1>14. Rows(RepositoryDetailOffers)
    BY <1>1, RowsOf DEF RepositoryDetailOffers, RepositoryMembersOffers
<1>15. Rows(RepoConfigPageOffers)
    BY <1>1, RowsOf DEF RepoConfigPageOffers
<1>16. Rows(DownloadLogsOffers)
    BY <1>1, RowsOf DEF DownloadLogsOffers, DownloadLogTableOffers
<1>17. Rows(AuditLogsOffers)
    BY <1>1, RowsOf DEF AuditLogsOffers
<1>18. Rows(SecurityCenterOffers)
    BY <1>1, RowsOf DEF SecurityCenterOffers
<1>19. Rows(VulnRuleManagementOffers)
    BY <1>1, RowsOf DEF VulnRuleManagementOffers, VulnRuleDialogOffers
<1>20. Rows(BlockRuleListOffers)
    BY <1>1, RowsOf
       DEF BlockRuleListOffers, BlockRuleImportOffers, BlockRuleAIOffers, BlockRuleDialogOffers,
           BlockRuleFormOffers
<1>21. Rows(RiskAssessmentOffers)
    BY <1>1, RowsOf DEF RiskAssessmentOffers, RiskHistoryOffers
<1>22. Rows(FileBrowserOffers)
    BY <1>1, RowsOf DEF FileBrowserOffers
<1>23. Rows(PublicBrowseOffers)
    BY Zenon, <1>1, RowsOf DEF PublicBrowseOffers, PublicBrowseTabsOffers, PackageSearchBarOffers,
           PackagePaginationOffers, PackageFilterPanelOffers, PackageEmptyStateOffers
<1>24. Rows(GraphOffers)
    BY <1>1, RowsOf DEF GraphOffers, DependencyGraphOffers, PackageNodeOffers
<1>25. page = "WebhookManagement" => Rows(WebhookManagementOffers)
    BY <1>1, RowsOf DEF WebhookManagementOffers, DialogIsKnown, DialogsOf, InFront
<1>26. page = "PackageExplorer" => Rows(PackageExplorerOffers)
    <2>1. /\ Rows(PackageSearchBarOffers) /\ Rows(PackageTableOffers) /\ Rows(PackageGridOffers)
          /\ Rows(PackagePaginationOffers) /\ Rows(PackageFilterPanelOffers)
          /\ Rows(VersionDrawerOffers) /\ Rows(UploadPackageOffers)
        BY <1>1, RowsOf DEF PackageSearchBarOffers, PackageTableOffers, PackageGridOffers,
            PackagePaginationOffers, PackageFilterPanelOffers, VersionDrawerOffers, UploadPackageOffers
    <2>2. page = "PackageExplorer" => InFront("none") \/ InFront("versions") \/ InFront("upload")
        BY DEF DialogIsKnown, DialogsOf, InFront
    <2> QED BY <2>1, <2>2, RowsOf DEF PackageExplorerOffers, InFront
<1> QED BY <1>2, <1>3, <1>4, <1>5, <1>6, <1>7, <1>8, <1>9, <1>10, <1>11, <1>12, <1>13, <1>14, <1>15,
       <1>16, <1>17, <1>18, <1>19, <1>20, <1>21, <1>22, <1>23, <1>24, <1>25, <1>26

\* The dialog after a click, and after a handler that went on, is that of the refs they gave.
LEMMA DialogAfter ==
    \A u, n, S : DOMAIN u = Refs /\ (Do(u, S) \/ Then(n, u, S)) => ui'.box = u.box
BY DEF Do, Then, Refs

\* Dialogs that open, close, change or stay.
LEMMA DialogEdits ==
    ASSUME NEW p, TypedRefs(p, ui), NEW n
    PROVE  /\ \A k, j, v : DOMAIN Opened(k, j, v) = Refs /\ Opened(k, j, v).box.kind = k
           /\ DOMAIN Closed = Refs /\ Closed.box.kind = "none"
           /\ DOMAIN Listed(n) = Refs /\ Listed(n).box = ui.box
           /\ \A x : /\ DOMAIN [ui EXCEPT !.box.data = x] = Refs
                     /\ [ui EXCEPT !.box.data = x].box.kind = ui.box.kind
                     /\ DOMAIN [ui EXCEPT !.box.item = x] = Refs
                     /\ [ui EXCEPT !.box.item = x].box.kind = ui.box.kind
           /\ DOMAIN ui = Refs
BY DEF TypedRefs, Opened, Closed, NoDialog, Listed, Refs

\* The dialogs of WebhookManagement are those its template knows.
LEMMA WebhookDialogs ==
    ASSUME TypedRefs("WebhookManagement", ui), ui.box.kind \in DialogsOf["WebhookManagement"],
           NEW e, NEW i, NEW n, WebhookManagementDo(e, i) \/ WebhookManagementBack(n)
    PROVE  ui'.box.kind \in DialogsOf["WebhookManagement"]
<1>1. DialogsOf["WebhookManagement"] = {"none", "create", "edit", "deliveries"}
    BY DEF DialogsOf
<1>2. /\ \A k, j, v : DOMAIN Opened(k, j, v) = Refs /\ Opened(k, j, v).box.kind = k
      /\ DOMAIN Closed = Refs /\ Closed.box.kind = "none" /\ DOMAIN ui = Refs
      /\ \A x : /\ DOMAIN [ui EXCEPT !.box.data = x] = Refs
                /\ [ui EXCEPT !.box.data = x].box.kind = ui.box.kind
    BY DialogEdits
<1> DEFINE Seen(u) == DOMAIN u = Refs /\ u.box.kind \in {ui.box.kind, "none", "create", "edit", "deliveries"}
<1>3. \A x : Seen([Listed(n) EXCEPT !.spin = x])
    BY DialogEdits DEF Refs
<1>4. /\ Seen(ui) /\ Seen(Closed) /\ \A x : Seen([ui EXCEPT !.box.data = x])
      /\ \A k \in {"create", "edit", "deliveries"} : \A j, v : Seen(Opened(k, j, v))
    BY <1>2
<1>5. \A u, S : Seen(u) /\ (Do(u, S) \/ Then(n, u, S)) => ui'.box.kind \in DialogsOf["WebhookManagement"]
    BY <1>1, DialogAfter
<1> HIDE DEF Seen
<1>6. CASE WebhookManagementDo(e, i)
    BY <1>4, <1>5, <1>6 DEF WebhookManagementDo
<1>7. CASE WebhookManagementBack(n)
    BY <1>3, <1>4, <1>5, <1>7 DEF WebhookManagementBack, Failed
<1> QED BY <1>6, <1>7

\* So are those of PackageExplorer.
LEMMA ExplorerDialogs ==
    ASSUME TypedRefs("PackageExplorer", ui), ui.box.kind \in DialogsOf["PackageExplorer"],
           NEW e, NEW i, NEW n, PackageExplorerDo(e, i) \/ PackageExplorerBack(n)
    PROVE  ui'.box.kind \in DialogsOf["PackageExplorer"]
<1>1. DialogsOf["PackageExplorer"] = {"none", "versions", "upload"}
    BY DEF DialogsOf
<1>2. /\ \A k, j, v : DOMAIN Opened(k, j, v) = Refs /\ Opened(k, j, v).box.kind = k
      /\ DOMAIN Closed = Refs /\ Closed.box.kind = "none" /\ DOMAIN ui = Refs
      /\ \A x : /\ DOMAIN [ui EXCEPT !.box.item = x] = Refs
                /\ [ui EXCEPT !.box.item = x].box.kind = ui.box.kind
    BY DialogEdits
<1> DEFINE Seen(u) == DOMAIN u = Refs /\ u.box.kind \in {ui.box.kind, "none", "versions", "upload"}
<1>3. \A u : Seen(u) => \A x, y : /\ Seen([u EXCEPT !.q = x]) /\ Seen([u EXCEPT !.tab = x])
                                  /\ Seen([u EXCEPT !.mode = x]) /\ Seen([u EXCEPT !.sel = x])
                                  /\ Seen([u EXCEPT !.timers = x]) /\ Seen([u EXCEPT !.spin = x])
                                  /\ Seen([u EXCEPT !.form = x]) /\ Seen([u EXCEPT !.form[x] = y])
                                  /\ Seen([u EXCEPT !.q = x, !.sel = y])
                                  /\ Seen([u EXCEPT !.form = x, !.spin = y])
    BY DEF Refs
<1>4. Seen(ui) /\ Seen(Closed) /\ (\A k \in {"versions", "upload"} : \A j, v : Seen(Opened(k, j, v)))
      /\ \A x : Seen([ui EXCEPT !.box.item = x])
    BY <1>2
<1>5. Seen(SearchEnded(n))
    BY <1>2 DEF SearchEnded, Listed, Refs
<1> HIDE DEF Seen
<1>6. /\ \A t : Seen(setText(t)) /\ Seen(Silent(setText(t))) /\ Seen([setText(t) EXCEPT !.timers = {"debounce"}])
      /\ Seen(setPage(1)) /\ Seen(setPage(2)) /\ Seen(resized) /\ Seen(Silent(ui))
    BY Zenon, <1>3, <1>4 DEF setText, setPage, resized, Silent
<1>7. Seen(closeUpload)
    BY Zenon, <1>3, <1>4 DEF closeUpload, Closed
<1>8. \A u, S : Seen(u) /\ (Do(u, S) \/ Then(n, u, S)) => ui'.box.kind \in DialogsOf["PackageExplorer"]
    BY <1>1, DialogAfter DEF Seen
<1>9. CASE PackageExplorerDo(e, i)
    BY Zenon, <1>3, <1>4, <1>6, <1>7, <1>8, <1>9
       DEF PackageExplorerDo, PackageSearchBarDo, handleKeydown, UploadPackageDo
<1>10. CASE PackageExplorerBack(n)
    <2>1. ASSUME refresh(n) PROVE ui'.box.kind \in DialogsOf["PackageExplorer"]
        <3> DEFINE u == SearchEnded(n)
                   q == Query(textOf(u.q), 1, u.q)
                   back == [u EXCEPT !.q = q]
        <3>1. Then(n, back, <<search(back, "refresh")>>) \/ Then(n, u, <<>>)
            BY <2>1 DEF refresh
        <3>2. Seen(back) /\ Seen(u)
            BY Zenon, <1>3, <1>5
        <3> HIDE DEF u, back
        <3> QED BY <1>8, <3>1, <3>2
    <2> QED
        BY Zenon, <1>3, <1>4, <1>5, <1>7, <1>8, <1>10, <2>1
           DEF PackageExplorerBack, UploadPackageBack, VersionDrawerBack, Failed
<1> QED BY <1>9, <1>10

\* Some clicks are offered of rows only, or in a dialog only.
LEMMA OffersOfSome ==
    /\ \A k \in BlockRuleListOffers :
         /\ k[1] = "selectAll" => ui.box.kind \in {"generator", "optimizer"}
         /\ k[1] = "tick" => k[2] \in Items
    /\ \A k \in RiskAssessmentOffers : k[1] = "view" => k[2] \in Items
    /\ DialogIsKnown /\ page = "PackageExplorer" =>
         \A k \in PackageExplorerOffers : k[1] = "tick" => k[2] \in Items
    /\ ui.sel \subseteq Items => \A k \in PackageDetailOffers : k[2] \in Items
    /\ \A k \in GraphOffers : /\ k[1] = "node" => k[2] \in Items
                              /\ k[1] \in {"dep", "goBack"} => InFront("node")
                              /\ k[1] = "goBack" => ui.box.data # <<>>
<1>1. \A c : Shown(c) \subseteq Items
    BY RowsOf
<1>2. \A k \in BlockRuleListOffers : k[1] = "selectAll" => ui.box.kind \in {"generator", "optimizer"}
    BY DEF BlockRuleListOffers, BlockRuleImportOffers, BlockRuleAIOffers, BlockRuleDialogOffers,
           BlockRuleFormOffers, On, For
<1>3. \A k \in BlockRuleListOffers : k[1] = "tick" => k[2] \in Items
    BY <1>1
       DEF BlockRuleListOffers, BlockRuleImportOffers, BlockRuleAIOffers, BlockRuleDialogOffers,
           BlockRuleFormOffers, On, For
<1>4. \A k \in RiskAssessmentOffers : k[1] = "view" => k[2] \in Items
    BY <1>1 DEF RiskAssessmentOffers, RiskHistoryOffers, On, For
<1>5. DialogIsKnown /\ page = "PackageExplorer" =>
         \A k \in PackageExplorerOffers : k[1] = "tick" => k[2] \in Items
    <2>1. \A k \in PackageSearchBarOffers \cup PackageGridOffers \cup PackagePaginationOffers
                   \cup PackageFilterPanelOffers \cup VersionDrawerOffers \cup UploadPackageOffers : k[1] # "tick"
        BY DEF PackageSearchBarOffers, PackageGridOffers, PackagePaginationOffers,
            PackageFilterPanelOffers, VersionDrawerOffers, UploadPackageOffers, On, For
    <2>2. \A k \in PackageTableOffers : k[2] \in Items
        BY <1>1 DEF PackageTableOffers, For
    <2>3. page = "PackageExplorer" /\ DialogIsKnown => InFront("none") \/ InFront("versions") \/ InFront("upload")
        BY DEF DialogIsKnown, DialogsOf, InFront
    <2>4. \A k \in On({"debounce"}) \cup On({"view", "upload"}) \cup On({"view", "upload", "batchDelete"}) :
             k[1] # "tick"
        BY DEF On
    <2>5. \A A, B : On(A \cup B) = On(A) \cup On(B) /\ On({}) = {}
        BY DEF On
    <2> QED BY <2>1, <2>2, <2>3, <2>4, <2>5 DEF PackageExplorerOffers, InFront
<1>6. ui.sel \subseteq Items => \A k \in PackageDetailOffers : k[2] \in Items
    BY DEF PackageDetailOffers, VersionTableOffers, For
<1>7. \A k \in GraphOffers : /\ k[1] = "node" => k[2] \in Items
                             /\ k[1] \in {"dep", "goBack"} => InFront("node")
                             /\ k[1] = "goBack" => ui.box.data # <<>>
    BY DEF GraphOffers, DependencyGraphOffers, PackageNodeOffers, On, For
<1> QED BY <1>2, <1>3, <1>4, <1>5, <1>6, <1>7

\* A click of any kind leaves the page typed.
LEMMA ClickTyped ==
    ASSUME NEW p \in AllPages, page = p, TypedPage(p), DialogIsKnown, Click
    PROVE  TypedPage(p)'
<1>1. ui.sel \subseteq Items
    BY DEF TypedPage, TypedRefs
<1>2. \A O : Rows(O) => \A k \in O : k[2] \in Items \cup {None}
    BY DEF Rows
<1>3. CASE p \in {"UserManagement", "RoleManagement", "ProfileSettings"}
    BY <1>1, <1>2, <1>3, OffersOfRows, UserManagementClicksTyped, RoleManagementClicksTyped,
       ProfileSettingsClicksTyped DEF Click, ClickOn
<1>4. CASE p \in {"WebhookManagement", "BackupManagement", "StorageManagement", "ScheduledTasks"}
    BY <1>1, <1>2, <1>4, OffersOfRows, WebhookManagementClicksTyped, BackupManagementClicksTyped,
       StorageManagementClicksTyped, ScheduledTasksClicksTyped DEF Click, ClickOn
<1>5. CASE p \in {"RuntimeStatus", "Dashboard", "AuditLogs"}
    BY <1>1, <1>2, <1>5, OffersOfRows, ListPagesClicksTyped DEF Click, ClickOn
<1>6. CASE p \in {"SystemConfig", "CasSettingsPanel", "CacheManagement"}
    BY <1>1, <1>2, <1>6, OffersOfRows, SystemConfigClicksTyped, CasSettingsPanelClicksTyped,
       CacheManagementClicksTyped DEF Click, ClickOn
<1>7. CASE p \in {"RepositoryList", "RepositoryDetail", "RepoConfigPage"}
    BY <1>1, <1>2, <1>7, OffersOfRows, RepositoryListClicksTyped, RepositoryDetailClicksTyped,
       RepoConfigPageTyped DEF Click, ClickOn
<1>8. CASE p \in {"DownloadLogs", "SecurityCenter", "VulnRuleManagement", "FileBrowser"}
    BY <1>1, <1>2, <1>8, OffersOfRows, DownloadLogsClicksTyped, SecurityCenterClicksTyped,
       VulnRuleManagementClicksTyped, FileBrowserClicksTyped DEF Click, ClickOn
<1>9. CASE p \in {"BlockRuleList", "RiskAssessment"}
    BY <1>1, <1>2, <1>9, OffersOfRows, OffersOfSome, BlockRuleListClicksTyped,
       RiskAssessmentClicksTyped
       DEF Click, ClickOn
<1>10. CASE p \in {"PackageExplorer", "PackageDetail", "PublicBrowse"}
    BY <1>1, <1>2, <1>10, OffersOfRows, OffersOfSome, PackageExplorerClicksTyped,
       PackageDetailClicksTyped,
       PublicBrowseClicksTyped DEF Click, ClickOn
<1>11. CASE p = "DependencyGraph"
    BY <1>1, <1>2, <1>11, OffersOfRows, OffersOfSome, DependencyGraphClicksTyped DEF Click, ClickOn
<1> QED BY <1>3, <1>4, <1>5, <1>6, <1>7, <1>8, <1>9, <1>10, <1>11 DEF AllPages

\* And so does a handler that goes on.
LEMMA ReturnTyped ==
    ASSUME NEW p \in AllPages, page = p, TypedPage(p), NEW n \in DOMAIN calls, Return(n)
    PROVE  TypedPage(p)'
<1>1. CASE p \in {"UserManagement", "RoleManagement", "ProfileSettings", "WebhookManagement"}
    BY <1>1, UserManagementAnswersTyped, RoleManagementAnswersTyped, ProfileSettingsAnswersTyped,
       WebhookManagementAnswersTyped DEF Return
<1>2. CASE p \in {"BackupManagement", "StorageManagement", "ScheduledTasks", "CacheManagement"}
    BY <1>2, BackupManagementAnswersTyped, StorageManagementAnswersTyped,
       ScheduledTasksAnswersTyped,
       CacheManagementAnswersTyped DEF Return
<1>3. CASE p \in {"RuntimeStatus", "Dashboard", "AuditLogs"}
    BY <1>3, ListPagesAnswersTyped DEF Return, ListPages
<1>4. CASE p \in {"SystemConfig", "CasSettingsPanel", "RepositoryList", "RepositoryDetail"}
    BY <1>4, SystemConfigAnswersTyped, CasSettingsPanelAnswersTyped, RepositoryListAnswersTyped,
       RepositoryDetailAnswersTyped DEF Return
<1>5. CASE p \in {"RepoConfigPage", "DownloadLogs", "SecurityCenter", "VulnRuleManagement"}
    BY <1>5, RepoConfigPageTyped, DownloadLogsAnswersTyped, SecurityCenterAnswersTyped,
       VulnRuleManagementAnswersTyped DEF Return
<1>6. CASE p \in {"FileBrowser", "BlockRuleList", "RiskAssessment", "PackageExplorer"}
    BY <1>6, FileBrowserAnswersTyped, BlockRuleListAnswersTyped, RiskAssessmentAnswersTyped,
       PackageExplorerAnswersTyped DEF Return
<1>7. CASE p \in {"PackageDetail", "PublicBrowse", "DependencyGraph"}
    BY <1>7, PackageDetailAnswersTyped, PublicBrowseAnswersTyped, DependencyGraphAnswersTyped
       DEF Return
<1> QED BY <1>1, <1>2, <1>3, <1>4, <1>5, <1>6, <1>7 DEF AllPages

----------------------------------------
(* Pages as they are mounted, and the network *)

\* A mounted page's first requests are typed.
LEMMA MountedTyped ==
    \A p \in AllPages : TypedReqs(p, Mounted(p))
<1> TAKE p \in AllPages
<1>1. CASE p \in {"UserManagement", "RoleManagement", "ProfileSettings", "WebhookManagement"}
    BY <1>1, UserManagementSendsTyped, RoleManagementSendsTyped, ProfileSettingsSendsTyped,
       WebhookManagementSendsTyped, TypedFew
       DEF Mounted, UserManagementMounted, RoleManagementMounted, ProfileSettingsMounted,
           WebhookManagementMounted
<1>2. CASE p \in {"BackupManagement", "StorageManagement", "ScheduledTasks", "CacheManagement"}
    BY <1>2, BackupManagementSendsTyped, StorageManagementSendsTyped, ScheduledTasksSendsTyped,
       CacheManagementSendsTyped, TypedFew
       DEF Mounted, BackupManagementMounted, StorageManagementMounted, ScheduledTasksMounted,
           CacheManagementMounted
<1>3. CASE p \in {"RuntimeStatus", "Dashboard", "AuditLogs", "SystemConfig", "CasSettingsPanel"}
    BY <1>3, ListPagesSendTyped, SettingsSendTyped, TypedFew
       DEF Mounted, RuntimeStatusMounted, DashboardMounted, AuditLogsMounted, SystemConfigMounted,
           CasSettingsPanelMounted
<1>4. CASE p \in {"RepositoryList", "RepositoryDetail", "DownloadLogs", "SecurityCenter"}
    BY <1>4, RepositoryListSendsTyped, RepositoryDetailSendsTyped, DownloadLogsSendsTyped,
       SecurityCenterSendsTyped, TypedFew
       DEF Mounted, RepositoryListMounted, RepositoryDetailMounted, DownloadLogsMounted,
           SecurityCenterMounted
<1>5. CASE p \in {"VulnRuleManagement", "BlockRuleList", "RiskAssessment", "FileBrowser"}
    BY <1>5, VulnRuleManagementSendsTyped, BlockRuleListSendsTyped, RiskAssessmentSendsTyped,
       FileBrowserSendsTyped, TypedFew
       DEF Mounted, VulnRuleManagementMounted, BlockRuleListMounted, RiskAssessmentMounted,
           FileBrowserMounted
<1>6. CASE p \in {"PackageExplorer", "PublicBrowse"}
    <2>1. "search" \in ListOps /\ 1 \in Collections
        BY DEF ListOps, Collections
    <2>2. \A u : TypedReqs(p, <<search(u, "search")>>)
        BY <2>1, TypedRequests, TypedFew DEF search
    <2> QED BY <1>6, <2>2 DEF Mounted, PackageExplorerMounted, PublicBrowseMounted
<1>7. CASE p \in {"RepoConfigPage", "PackageDetail", "DependencyGraph"}
    <2>1. /\ "loadRepoConfig" \notin NamedOps /\ "mounted" \notin NamedOps /\ "fetchPackageDetail" \in GetOps
          /\ p \notin ListPages /\ 1 \in Collections /\ Protected \in Items
        BY <1>7, KitAssumption
           DEF NamedOps, ListOps, GetOps, UpdateOps, CreateOps, RowOps, ListPages, Collections
    <2>2. /\ \A clears : TypedReq(p, Get("loadRepoConfig", 1, Protected, clears))
          /\ TypedReq(p, Act("mounted", None, {})) /\ TypedReq(p, fetchPackageDetail(Protected))
        BY <2>1, TypedRequests DEF fetchPackageDetail
    <2> QED
        BY <1>7, <2>2, TypedFew
           DEF Mounted, RepoConfigPageMounted, PackageDetailMounted, DependencyGraphMounted
<1> QED BY <1>1, <1>2, <1>3, <1>4, <1>5, <1>6, <1>7 DEF AllPages

\* Its first refs are.
LEMMA CreatedTyped ==
    \A p \in AllPages : \A u \in Created(p) :
        /\ TypedRefs(p, u)
        /\ p \in DOMAIN DialogsOf => u.box.kind \in DialogsOf[p]
<1> TAKE p \in AllPages
<1>1. NoRows \in [Items -> RowStates]
    BY DEF NoRows, RowStates
<1>2. TypedRefs(p, Blank) /\ Blank.box.kind = "none"
    BY <1>1 DEF TypedRefs, Blank, Refs, NoDialog, Filled, Collections
<1>3. \A u : DOMAIN u = Refs => \A x : [u EXCEPT !.q = x].box = u.box /\ [u EXCEPT !.mode = x].box = u.box
    BY DEF Refs
<1>4. DOMAIN Blank = Refs
    BY <1>2 DEF TypedRefs
<1>5. "none" \in DialogsOf["WebhookManagement"] /\ "none" \in DialogsOf["PackageExplorer"]
      /\ DOMAIN DialogsOf = {"WebhookManagement", "PackageExplorer"}
    BY DEF DialogsOf
<1> HIDE DEF Blank
<1>6. CASE p \in {"PackageExplorer", "PublicBrowse"}
    <2> DEFINE q == Query(0, 1, Blank.q)
               u == [Blank EXCEPT !.q = q]
               r == u.q + 16
               w == [u EXCEPT !.q = r]
    <2>1. FirstPage = u /\ LargePage = w
        BY DEF FirstPage, LargePage
    <2> HIDE DEF q, r
    <2>2. TypedRefs(p, u) /\ u.box.kind = "none" /\ DOMAIN u = Refs
        BY <1>2, <1>3, <1>4, TypedPlainEdits
    <2> HIDE DEF u
    <2>3. TypedRefs(p, w) /\ w.box.kind = "none" /\ DOMAIN w = Refs
        BY <1>3, <2>2, TypedPlainEdits
    <2> HIDE DEF w
    <2>4. /\ TypedRefs(p, [u EXCEPT !.mode = "table"]) /\ TypedRefs(p, [w EXCEPT !.mode = "table"])
          /\ [w EXCEPT !.mode = "table"].box.kind = "none"
        BY <1>3, <2>2, <2>3, TypedPlainEdits
    <2> QED BY <1>5, <1>6, <2>1, <2>4 DEF Created
<1>7. CASE p = "PackageDetail"
    <2> DEFINE b == [kind |-> "route", item |-> Protected, data |-> 0]
    <2>1. Boxed(p, b)
        BY <1>7, KitAssumption, TypedBoxes DEF DialogPages
    <2> HIDE DEF b
    <2>2. TypedRefs(p, [Blank EXCEPT !.box = b])
        BY Zenon, <1>2, <2>1, TypedBoxEdits
    <2> QED BY <1>5, <1>7, <2>2 DEF Created, b
<1>8. CASE p = "FileBrowser"
    <2>1. TypedRefs(p, [Blank EXCEPT !.mode = "root"])
        BY <1>2, TypedPlainEdits
    <2> QED BY <1>5, <1>8, <2>1 DEF Created
<1>9. CASE p = "BlockRuleList"
    <2>1. \A k \in {"none", "generator"} : Boxed(p, [Blank.box EXCEPT !.kind = k])
        BY <1>2, <1>9 DEF TypedRefs, Boxed, Filled
    <2>2. \A k \in {"none", "generator"} : TypedRefs(p, [Blank EXCEPT !.box.kind = k])
        BY Zenon, <1>2, <2>1, TypedBoxEdits
    <2> QED BY <1>5, <1>9, <2>2 DEF Created
<1>10. CASE p \notin {"PackageExplorer", "PublicBrowse", "PackageDetail", "FileBrowser", "BlockRuleList"}
    BY <1>2, <1>5, <1>10 DEF Created
<1> QED BY <1>6, <1>7, <1>8, <1>9, <1>10

\* The collections and the marks have their types.
DbTyped == db \in [Collections -> [Items -> RowStates]]
ExcusedTyped == excused \in [Collections -> BOOLEAN]

\* What a request asks for, done, leaves the collections typed.
LEMMA ExecutedTyped ==
    ASSUME NEW p, NEW c, TypedReq(p, c), DbTyped, Executed(c)
    PROVE  DbTyped'
<1>1. /\ c.col \in Collections /\ 0 \in RowStates /\ 1 \in RowStates
      /\ c.kind = "create" => c.arg \in RowStates
      /\ c.kind = "update" => c.arg \in RowStates
      /\ c.kind = "save" => c.arg \in [Items -> RowStates]
    BY DEF TypedReq, RowStates
<1>2. ASSUME NEW f \in [Items -> RowStates], db' = [db EXCEPT ![c.col] = f] PROVE DbTyped'
    BY <1>2 DEF DbTyped
<1>3. ASSUME NEW i, NEW v \in RowStates, db' = [db EXCEPT ![c.col][i] = v] PROVE DbTyped'
    BY <1>3 DEF DbTyped
<1>4. db[c.col] \in [Items -> RowStates]
    BY <1>1 DEF DbTyped
<1>5. CASE UNCHANGED db
    BY <1>5 DEF DbTyped
<1>6. CASE c.kind = "create" \/ c.kind = "update" \/ c.kind = "delete"
    BY <1>1, <1>3, <1>5, <1>6 DEF Executed
<1>7. CASE c.kind = "save"
    <2> DEFINE f == [i \in Items |-> IF c.arg[i] = 0 THEN db[c.col][i] ELSE c.arg[i]]
    <2>1. db' = [db EXCEPT ![c.col] = f]
        BY <1>7 DEF Executed
    <2>2. f \in [Items -> RowStates]
        BY <1>1, <1>4, <1>7
    <2> HIDE DEF f
    <2> QED BY <1>2, <2>1, <2>2
<1>8. CASE c.kind = "evict"
    <2> DEFINE v == IF View(c.col, c.arg)[c.item] = 0 THEN db[c.col][c.item] ELSE 0
    <2>1. db' = [db EXCEPT ![c.col][c.item] = v]
        BY <1>8 DEF Executed
    <2>2. CASE c.item \in Items
        <3>1. v \in RowStates
            BY <1>1, <1>4, <2>2
        <3> HIDE DEF v
        <3> QED BY <1>3, <2>1, <3>1
    <2>3. CASE c.item \notin Items
        <3> DEFINE f == [db[c.col] EXCEPT ![c.item] = v]
        <3>1. db' = [db EXCEPT ![c.col] = f]
            BY <2>1
        <3>2. f \in [Items -> RowStates]
            <4> HIDE DEF v
            <4> QED BY <1>4, <2>3
        <3> HIDE DEF f
        <3> QED BY <1>2, <3>1, <3>2
    <2> QED BY <2>2, <2>3
<1>9. CASE c.kind = "purge"
    <2> DEFINE f == [i \in Items |-> IF i \in c.arg THEN 0 ELSE db[c.col][i]]
    <2>1. db' = [db EXCEPT ![c.col] = f]
        BY <1>9 DEF Executed
    <2>2. f \in [Items -> RowStates]
        BY <1>1, <1>4
    <2> HIDE DEF f
    <2> QED BY <1>2, <2>1, <2>2
<1>10. CASE c.kind = "clear"
    <2> DEFINE f == [i \in Items |-> IF View(c.col, c.arg)[i] = 0 THEN db[c.col][i] ELSE 0]
    <2>1. db' = [db EXCEPT ![c.col] = f]
        BY <1>10 DEF Executed
    <2>2. f \in [Items -> RowStates]
        BY <1>1, <1>4
    <2> HIDE DEF f
    <2> QED BY <1>2, <2>1, <2>2
<1> QED BY <1>5, <1>6, <1>7, <1>8, <1>9, <1>10 DEF Executed

\* So is its answer.
LEMMA AnswerTyped ==
    ASSUME NEW p, NEW c, TypedReq(p, c), DbTyped, Executed(c)
    PROVE  /\ c.kind = "list" => Answer(c) \in [Items -> RowStates]
           /\ c.kind = "create" => Answer(c) \in Items
           /\ c.kind \notin {"list", "create"} /\ c.item \in Items => Answer(c) \in RowStates
<1>1. DbTyped' /\ c.col \in Collections
    BY ExecutedTyped DEF TypedReq
<1>2. CASE c.kind = "list"
    BY <1>1, <1>2 DEF Answer, View, Selected, DbTyped, RowStates
<1>3. CASE c.kind = "create"
    <2>1. c.arg = 1
        BY <1>3 DEF TypedReq
    <2>2. PICK i \in Items : db[c.col][i] = 0 /\ db' = [db EXCEPT ![c.col][i] = c.arg]
        BY <1>3 DEF Executed
    <2>3. db'[c.col][i] # 0
        BY <1>1, <2>1, <2>2 DEF DbTyped
    <2> QED BY <1>3, <2>2, <2>3 DEF Answer
<1>4. CASE c.kind \notin {"list", "create"}
    BY <1>1, <1>4, KitAssumption DEF Answer, DbTyped
<1> QED BY <1>2, <1>3, <1>4

\* A request among others has become another.
LEMMA TypedChange ==
    \A p, cs, n, r : TypedReqs(p, cs) /\ n \in DOMAIN cs /\ TypedReq(p, r)
        => TypedReqs(p, [cs EXCEPT ![n] = r])
<1> TAKE p, cs, n, r
<1> HAVE TypedReqs(p, cs) /\ n \in DOMAIN cs /\ TypedReq(p, r)
<1> DEFINE ds == [cs EXCEPT ![n] = r]
<1>1. IsSeq(cs)
    BY DEF TypedReqs
<1>2. DOMAIN cs = 1..Len(cs) /\ Len(cs) \in Nat /\ ds = [m \in DOMAIN cs |-> ds[m]] /\ DOMAIN ds = DOMAIN cs
    BY <1>1, SeqDomain
<1>3. IsSeq(ds)
    <2> HIDE DEF ds
    <2> QED BY <1>2, FunctionIsSeq
<1> QED BY <1>2, <1>3 DEF TypedReqs

\* What the network does leaves every type as it is.
LEMMA NetworkTyped ==
    ASSUME NEW p, TypedPage(p), DbTyped, ExcusedTyped, NEW n \in DOMAIN calls,
           Serve(n) \/ Refuse(n) \/ NotFound(n)
    PROVE  TypedPage(p)' /\ DbTyped' /\ ExcusedTyped'
<1>1. TypedRefs(p, ui) /\ TypedReqs(p, calls) /\ TypedReq(p, calls[n]) /\ UNCHANGED ui
    BY Zenon DEF TypedPage, TypedReqs, Serve, Refuse, NotFound
<1>2. CASE Refuse(n) \/ NotFound(n)
    <2> DEFINE r == [calls[n] EXCEPT !.st = "err"]
    <2>1. calls' = [calls EXCEPT ![n] = r] /\ UNCHANGED <<db, excused>>
        BY <1>2 DEF Refuse, NotFound
    <2>2. TypedReq(p, r)
        BY <1>1 DEF TypedReq, Fields
    <2> HIDE DEF r
    <2>3. TypedReqs(p, calls')
        BY <1>1, <2>1, <2>2, TypedChange
    <2> QED BY <1>1, <2>1, <2>3 DEF TypedPage, DbTyped, ExcusedTyped
<1>3. CASE Serve(n)
    <2> DEFINE c == calls[n]
               early == c.kind # "act" /\ \E m \in 1..(n - 1) : calls[m].col = c.col /\ calls[m].st = "sent"
               cs == IF early THEN Distrust(calls, c.col) ELSE calls
               reply == Answer(c)
               more == c.kind = "list" /\ Overflows(c.col, c.arg)
    <2>1. PICK st \in {"ok", "err"} : calls' = [cs EXCEPT ![n].st = st, ![n].reply = reply, ![n].more = more]
        BY Zenon, <1>3 DEF Serve
    <2>2. Executed(c) /\ excused' = [excused EXCEPT ![c.col] = @ \/ early]
        BY Zenon, <1>3 DEF Serve
    <2>3. ExcusedTyped'
        BY <2>2 DEF ExcusedTyped
    <2>4. DbTyped'
        BY <1>1, <2>2, ExecutedTyped
    <2>5. TypedReqs(p, cs)
        BY <1>1, TypedMarks
    <2>6. /\ DOMAIN cs = DOMAIN calls
          /\ cs[n].kind = c.kind /\ cs[n].item = c.item /\ cs[n].col = c.col
        BY <1>1 DEF Distrust, TypedReq, Fields
    <2>7. /\ c.kind = "list" => reply \in [Items -> RowStates]
          /\ c.kind = "create" => reply \in Items
          /\ c.kind \notin {"list", "create"} /\ c.item \in Items => reply \in RowStates
        BY <1>1, <2>2, AnswerTyped
    <2> DEFINE r == [[[cs[n] EXCEPT !.st = st] EXCEPT !.reply = reply] EXCEPT !.more = more]
    <2> HIDE DEF cs, reply, more
    <2>8. calls' = [cs EXCEPT ![n] = r]
        BY <2>1, <2>6
    <2>9. TypedReq(p, r)
        BY <2>5, <2>6, <2>7 DEF TypedReq, TypedReqs, Fields
    <2> HIDE DEF r
    <2>10. TypedReqs(p, calls')
        BY <2>5, <2>6, <2>8, <2>9, TypedChange
    <2> QED BY <1>1, <2>3, <2>4, <2>10 DEF TypedPage
<1> QED BY <1>2, <1>3

----------------------------------------
(* The types of every visit *)

\* The marks of a handler that goes on.
LEMMA ReturnExcused ==
    ASSUME NEW p \in AllPages, page = p, TypedPage(p), ExcusedTyped, NEW n \in DOMAIN calls,
           Return(n)
    PROVE  ExcusedTyped'
<1>1. \A u, S : Then(n, u, S) => ExcusedTyped'
    <2> TAKE u, S
    <2> HAVE Then(n, u, S)
    <2> DEFINE c == calls[n]
               late == c.kind # "act" /\ \/ c.st = "err" \/ ~c.held
                                         \/ \E m \in 1..(n - 1) : calls[m].col = c.col
    <2>1. excused' = [excused EXCEPT ![c.col] = late \/ (@ /\ ~(c.kind = "list" /\ c.clean /\ ~c.stale))]
        BY DEF Then
    <2> QED BY <2>1 DEF ExcusedTyped
<1>2. Failed(n) \/ Loaded(n) \/ refresh(n) \/ extractDrafts(n) \/ CreatedOne(n) => ExcusedTyped'
    BY <1>1 DEF Failed, Loaded, refresh, extractDrafts, CreatedOne
<1> USE DEF Return
<1>3. CASE p \in {"UserManagement", "RoleManagement", "ProfileSettings", "WebhookManagement"}
    BY <1>1, <1>2, <1>3
       DEF UserManagementBack, RoleManagementBack, ProfileSettingsBack, WebhookManagementBack
<1>4. CASE p \in {"BackupManagement", "StorageManagement", "ScheduledTasks", "CacheManagement"}
    BY <1>1, <1>2, <1>4
       DEF BackupManagementBack, StorageManagementBack, ScheduledTasksBack, CacheManagementBack
<1>5. CASE p \in {"RuntimeStatus", "Dashboard", "AuditLogs"}
    BY <1>1, <1>2, <1>5 DEF RuntimeStatusBack, DashboardBack, AuditLogsBack
<1>6. CASE p \in {"SystemConfig", "CasSettingsPanel", "RepositoryList", "RepositoryDetail"}
    BY <1>1, <1>2, <1>6
       DEF SystemConfigBack, CasSettingsPanelBack, RepositoryListBack, RepositoryDetailBack
<1>7. CASE p \in {"RepoConfigPage", "DownloadLogs", "SecurityCenter", "VulnRuleManagement"}
    BY <1>1, <1>2, <1>7
       DEF RepoConfigPageBack, DownloadLogsBack, SecurityCenterBack, VulnRuleManagementBack
<1>8. CASE p \in {"FileBrowser", "BlockRuleList", "RiskAssessment", "PackageExplorer"}
    BY <1>1, <1>2, <1>8
       DEF FileBrowserBack, BlockRuleListBack, BlockRuleImportBack, BlockRuleAIBack,
       RiskAssessmentBack, PackageExplorerBack, UploadPackageBack, VersionDrawerBack
<1>9. CASE p \in {"PackageDetail", "PublicBrowse", "DependencyGraph"}
    BY <1>1, <1>2, <1>9
       DEF PackageDetailBack, PublicBrowseBack, DependencyGraphBack, PackageNodeBack
<1> QED BY <1>3, <1>4, <1>5, <1>6, <1>7, <1>8, <1>9 DEF AllPages

\* The inductive invariant: a page that is mounted has its refs and its
\* requests typed, and one that was left has none.
TypesInv ==
    /\ page \in Pages \cup {None} /\ DbTyped /\ ExcusedTyped
    /\ DialogIsKnown
    /\ page # None => /\ TypedPage(page)
                      /\ events \in 0..MaxEvents[page] /\ faults \in 0..MaxFaults[page]
    /\ page = None => calls = <<>> /\ ui = Blank

\* It holds when a page is mounted.
LEMMA TypesAtFirst == Init => TypesInv
<1> SUFFICES ASSUME Init PROVE TypesInv
    OBVIOUS
<1>1. page \in Pages /\ page \in AllPages /\ page # None
    BY ConsoleAssumption DEF Init
<1>2. PICK u \in Created(page) : ui = [u EXCEPT !.spin = Flags(Mounted(page))]
    BY DEF Init
<1>3. TypedRefs(page, u) /\ (page \in DOMAIN DialogsOf => u.box.kind \in DialogsOf[page])
    BY <1>1, CreatedTyped
<1> DEFINE x == Flags(Mounted(page))
<1>4. ui = [u EXCEPT !.spin = x]
    BY <1>2
<1> HIDE DEF x
<1>5. TypedRefs(page, ui) /\ ui.box = u.box
    BY <1>3, <1>4, TypedPlainEdits DEF TypedRefs, Refs
<1>6. TypedReqs(page, calls)
    BY <1>1, MountedTyped, TypedSending, TypedFew DEF Init
<1>7. DbTyped
    <2>1. PICK k \in {<<1, 2>>, <<2, 2>>, <<1, 0>>} : db = [c \in Collections |-> Stored(c, k[1], k[2])]
        BY DEF Init
    <2>2. k[1] \in RowStates /\ k[2] \in RowStates /\ 0 \in RowStates /\ 1 \in RowStates
        BY DEF RowStates
    <2>3. \A c : Stored(c, k[1], k[2]) \in [Items -> RowStates]
        BY <2>2 DEF Stored
    <2> QED BY <2>1, <2>3 DEF DbTyped
<1>8. ExcusedTyped
    BY DEF Init, ExcusedTyped
<1>9. events \in 0..MaxEvents[page] /\ faults \in 0..MaxFaults[page]
    BY <1>1, BoundsAssumption DEF Init
<1> QED BY <1>1, <1>3, <1>5, <1>6, <1>7, <1>8, <1>9 DEF TypesInv, TypedPage, DialogIsKnown

\* The dialogs of the two pages stay known.
LEMMA DialogStaysKnown ==
    ASSUME TypesInv, page # None, Click \/ \E n \in DOMAIN calls : Return(n)
    PROVE  DialogIsKnown'
<1>1. TypedRefs(page, ui) /\ DialogIsKnown /\ page' = page
    BY DEF TypesInv, TypedPage, Click, Return
<1>2. CASE page = "WebhookManagement"
    <2>1. \E e, i, n : WebhookManagementDo(e, i) \/ WebhookManagementBack(n)
        BY <1>2 DEF Click, ClickOn, Return
    <2>2. ui'.box.kind \in DialogsOf["WebhookManagement"]
        BY <1>1, <1>2, <2>1, WebhookDialogs DEF DialogIsKnown, DialogsOf
    <2> QED BY <1>1, <1>2, <2>2 DEF DialogIsKnown
<1>3. CASE page = "PackageExplorer"
    <2>1. \E e, i, n : PackageExplorerDo(e, i) \/ PackageExplorerBack(n)
        BY <1>3 DEF Click, ClickOn, Return
    <2>2. ui'.box.kind \in DialogsOf["PackageExplorer"]
        BY <1>1, <1>3, <2>1, ExplorerDialogs DEF DialogIsKnown, DialogsOf
    <2> QED BY <1>1, <1>3, <2>2 DEF DialogIsKnown
<1>4. CASE page \notin {"WebhookManagement", "PackageExplorer"}
    BY <1>1, <1>4 DEF DialogIsKnown, DialogsOf
<1> QED BY <1>2, <1>3, <1>4

\* Every step keeps the invariant.
LEMMA TypesKept == TypesInv /\ [Next]_vars => TypesInv'
<1> SUFFICES ASSUME TypesInv, [Next]_vars PROVE TypesInv'
    OBVIOUS
<1>1. CASE page = None
    <2>1. calls = <<>> /\ ui = Blank /\ DOMAIN calls = {}
        BY <1>1 DEF TypesInv
    <2>2. UNCHANGED vars
        BY <1>1, <2>1 DEF Next, Click, Network, Leave
    <2> QED BY <1>1, <2>2 DEF TypesInv, vars, kitVars, DbTyped, ExcusedTyped, DialogIsKnown
<1>2. CASE page # None /\ UNCHANGED vars
    BY <1>2 DEF TypesInv, vars, kitVars, DbTyped, ExcusedTyped, DialogIsKnown, TypedPage
<1>3. CASE page # None /\ Leave
    <2>1. None \notin DOMAIN DialogsOf
        BY ConsoleAssumption DEF DialogsOf, AllPages
    <2> QED BY <1>3, <2>1 DEF Leave, TypesInv, DbTyped, ExcusedTyped, DialogIsKnown
<1>4. page # None => /\ page \in Pages /\ page \in AllPages /\ TypedPage(page) /\ DialogIsKnown
                     /\ DbTyped /\ ExcusedTyped
                     /\ events \in 0..MaxEvents[page] /\ faults \in 0..MaxFaults[page]
                     /\ MaxEvents[page] \in Nat /\ MaxFaults[page] \in Nat
    BY ConsoleAssumption, BoundsAssumption DEF TypesInv
<1>5. CASE page # None /\ Click
    <2>1. TypedPage(page)' /\ UNCHANGED <<page, db, faults, excused>>
        BY <1>4, <1>5, ClickTyped DEF Click
    <2>2. events' \in 0..MaxEvents[page]
        BY <1>4, <1>5 DEF Click
    <2>3. DialogIsKnown'
        BY <1>5, DialogStaysKnown
    <2> QED BY <1>4, <1>5, <2>1, <2>2, <2>3 DEF TypesInv, DbTyped, ExcusedTyped
<1>6. ASSUME page # None, NEW n \in DOMAIN calls, Return(n) PROVE TypesInv'
    <2>1. TypedPage(page)' /\ UNCHANGED <<page, db, faults, events>>
        BY <1>4, <1>6, ReturnTyped DEF Return
    <2>2. ExcusedTyped'
        BY <1>4, <1>6, ReturnExcused
    <2>3. DialogIsKnown'
        BY <1>6, DialogStaysKnown
    <2> QED BY <1>4, <1>6, <2>1, <2>2, <2>3 DEF TypesInv, DbTyped
<1>7. ASSUME page # None, NEW n \in DOMAIN calls, Serve(n) \/ Refuse(n) \/ NotFound(n) PROVE TypesInv'
    <2>1. UNCHANGED <<page, ui, events>>
        BY Zenon, <1>7 DEF Serve, Refuse, NotFound
    <2>2. TypedPage(page)' /\ DbTyped' /\ ExcusedTyped'
        BY <1>4, <1>7, <2>1, NetworkTyped
    <2>3. faults' = faults \/ (faults < MaxFaults[page] /\ faults' = faults + 1)
        BY Zenon, <1>7 DEF Serve, Refuse, NotFound
    <2>4. faults' \in 0..MaxFaults[page]
        BY <1>4, <1>7, <2>3
    <2> QED BY <1>4, <1>7, <2>1, <2>2, <2>4 DEF TypesInv, DialogIsKnown
<1> QED BY <1>1, <1>2, <1>3, <1>5, <1>6, <1>7 DEF Next, Network

\* Every variable has its type, on every page and through every visit: in
\* particular a list is never replaced by something else that came back, and
\* what an update sends is a content a row can have.
THEOREM ConsoleTypeCorrect == Spec => []TypeOK
<1>1. TypesInv => TypeOK
    <2> SUFFICES ASSUME TypesInv PROVE TypeOK
        OBVIOUS
    <2>1. CASE page = None
        <3>1. Blank.rows \in [Collections -> [Items -> RowStates]] /\ Blank.sel = {} /\ Blank.box.item = None
            BY DEF Blank, NoRows, NoDialog, RowStates
        <3> QED BY <2>1, <3>1 DEF TypesInv, TypeOK, DbTyped, ExcusedTyped
    <2>2. CASE page # None
        BY <2>2
           DEF TypesInv, TypeOK, DbTyped, ExcusedTyped, TypedPage, TypedRefs, TypedReqs, TypedReq
    <2> QED BY <2>1, <2>2
<1> QED BY <1>1, TypesAtFirst, TypesKept, PTL DEF Spec

============================================================================
