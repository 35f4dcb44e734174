---------------------------- MODULE SecurityPages ----------------------------
(***************************************************************************)
(* The pages about vulnerabilities and blocking: SecurityCenter.vue,       *)
(* VulnRuleManagement.vue, BlockRuleList.vue with its dialogs              *)
(* (components/block-rule) and RiskAssessment.vue.                         *)
(***************************************************************************)
EXTENDS PageKit

\* The security centre: collection 1 the vulnerabilities, 2 the scan results,
\* each on a tab.  The mask of either load covers both tabs.
SecurityCenterOffers ==
    On({"fullScan"})
    \cup (IF "loading" \in ui.spin THEN {}
          ELSE On({"tab"} \cup (IF ui.tab = 1 THEN {"filter"} ELSE {"scanPage"}))
               \cup For({"block"}, IF ui.tab = 1 THEN Shown(1) ELSE {}))

loadVulnerabilities(u) == List("loadVulnerabilities", 1, u, {"loading"})
loadScanResults(u) == List("loadScanResults", 2, u, {"loading"})
SecurityCenterMounted == <<Act("loadStats", None, {}), loadVulnerabilities(Blank)>>

\* The scan results are loaded when their tab is opened and holds none.
SecurityCenterDo(e, i) ==
    \/ e = "tab" /\ LET u == [ui EXCEPT !.tab = 3 - @]
                    IN Do(u, IF u.tab = 2 /\ Shown(2) = {} THEN <<loadScanResults(Blank)>>
                             ELSE <<>>)
    \/ e = "filter"
       /\ LET u == [ui EXCEPT !.q = 1 - @] IN Do(u, <<loadVulnerabilities(u)>>)
    \/ e = "scanPage" /\ \E q \in Queries :
           Do(ui, <<loadScanResults([Blank EXCEPT !.q = q])>>)
    \/ e = "fullScan" /\ Do(ui, <<Act("triggerFullScan", None, {})>>)
    \/ e = "block" /\ Do(ui, <<Act("blockCVE", i, {})>>)

\* A scan that was started reloads the statistics, not the results.
SecurityCenterBack(n) ==
    \/ Op(n, {"loadVulnerabilities", "loadScanResults"}) /\ Ok(n) /\ Then(n, Listed(n), <<>>)
    \/ Op(n, {"loadStats", "blockCVE"}) /\ Ok(n) /\ Then(n, ui, <<>>)
    \/ Op(n, {"triggerFullScan"}) /\ Ok(n) /\ Then(n, ui, <<Act("loadStats", None, {})>>)
    \/ Failed(n)

------------------------------------------------------------------------------
\* None of the three dialogs waits for its own request.
VulnRuleDialogOffers == On({"cancel", "submit"})

\* Vulnerability rules (collection 1, Protected is builtin) and their data
\* sources (collection 2), on two tabs that share one loading flag.
VulnRuleManagementOffers ==
    IF InFront("none")
    THEN On({"tab"} \cup (IF ui.tab = 1 THEN {"search", "addRule", "import"}
                          ELSE {"addSource", "syncAll"}))
         \cup (IF "loading" \in ui.spin THEN {}
               ELSE IF ui.tab = 1 THEN For({"editRule", "deleteRule"}, Shown(1) \ {Protected})
               ELSE For({"sync", "test", "editSource", "deleteSource"}, Shown(2)))
    ELSE VulnRuleDialogOffers

loadRules(u) == List("loadRules", 1, u, {"loading"})
loadDataSources == List("loadDataSources", 2, Blank, {"loading"})
VulnRuleManagementMounted == <<loadRules(Blank), loadDataSources>>

\* saveRule, importRules and saveDataSource; text that is no JSON sends nothing.
VulnRuleSubmit(d) ==
    \/ d.kind = "addRule" /\ Do(ui, <<Create("saveRule", 1, {})>>)
    \/ d.kind = "editRule" /\ Do(ui, <<Update("saveRule", 1, d.item, d.data, {})>>)
    \/ d.kind = "import" /\ Do(ui, <<Create("importRules", 1, {})>>)
    \/ d.kind = "addSource" /\ Do(ui, <<Create("saveDataSource", 2, {})>>)
    \/ d.kind = "editSource" /\ Do(ui, <<Update("saveDataSource", 2, d.item, d.data, {})>>)

VulnRuleManagementDo(e, i) ==
    \/ e = "tab" /\ Do([ui EXCEPT !.tab = 3 - @], <<>>)
    \/ e = "search" /\ LET u == [ui EXCEPT !.q = 1 - @] IN Do(u, <<loadRules(u)>>)
    \/ e \in {"addRule", "import", "addSource"} /\ Do(Opened(e, None, 0), <<>>)
    \/ e = "editRule" /\ Do(Opened(e, i, flip(ui.rows[1][i])), <<>>)
    \/ e = "editSource" /\ Do(Opened(e, i, flip(ui.rows[2][i])), <<>>)
    \/ e = "cancel" /\ Do(Closed, <<>>)
    \/ e = "submit" /\ VulnRuleSubmit(ui.box)
    \/ e = "deleteRule" /\ Do(ui, <<Delete("deleteRule", 1, i, {})>>)
    \/ e = "deleteSource" /\ Do(ui, <<Delete("deleteDataSource", 2, i, {})>>)
    \/ e = "sync" /\ Do(ui, <<Update("syncDataSource", 2, i, 1, {})>>)
    \/ e = "syncAll" /\ Do(ui, <<Save("syncAll", 2, ui.rows[2], {})>>)
    \/ e = "test" /\ Do(ui, <<Act("testDataSource", i, {})>>)

\* A save closes its dialog, whichever row the dialog is about by then.
VulnRuleManagementBack(n) ==
    LET Close(S) == IF ui.box.kind \in S THEN Closed ELSE ui
    IN \/ Op(n, {"loadRules", "loadDataSources"}) /\ Ok(n) /\ Then(n, Listed(n), <<>>)
       \/ Op(n, {"saveRule"}) /\ Ok(n)
          /\ LET u == Close({"addRule", "editRule"}) IN Then(n, u, <<loadRules(u)>>)
       \/ Op(n, {"importRules"}) /\ Ok(n)
          /\ LET u == Close({"import"}) IN Then(n, u, <<loadRules(u)>>)
       \/ Op(n, {"saveDataSource"}) /\ Ok(n)
          /\ Then(n, Close({"addSource", "editSource"}), <<loadDataSources>>)
       \/ Op(n, {"deleteRule"}) /\ Ok(n) /\ Then(n, ui, <<loadRules(ui)>>)
       \/ Op(n, {"deleteDataSource", "syncDataSource", "syncAll"}) /\ Ok(n)
          /\ Then(n, ui, <<loadDataSources>>)
       \/ Op(n, {"testDataSource"}) /\ Ok(n) /\ Then(n, ui, <<>>)
       \/ Failed(n)

------------------------------------------------------------------------------
BlockRuleDialogOffers ==
    On({"cancel"} \cup (IF "submitting" \in ui.spin THEN {} ELSE {"submit"}))

\* The form keeps a copy of the rule, and the two copies follow each other;
\* changing the condition's type empties its other fields.
BlockRuleFormOffers == On({"fill"})
BlockRuleFormDo(e) == e = "fill" /\ Do([ui EXCEPT !.box.data = flip(@)], <<>>)

\* box.data is 1 once something has been pasted, typed or read from a file.
BlockRuleImportOffers ==
    On({"cancel", "paste", "template"}
       \cup (IF "importing" \in ui.spin THEN {} ELSE {"doImport"}))

\* The row checkboxes are wired to nothing: only "select all" selects.  It
\* keeps its own state (box.data), whatever drafts come later.
BlockRuleAIOffers ==
    On({"cancel"}
       \cup (IF "aiLoading" \in ui.spin THEN {}
             ELSE IF InFront("generator") THEN {"generate"} ELSE {"analyze"})
       \cup (IF ui.form = NoRows THEN {} ELSE {"selectAll"})
       \cup (IF "creating" \in ui.spin \/ ~\E i \in Items : ui.form[i] = 2 THEN {}
             ELSE {"createSelected"}))

\* Block rules (collection 1; 1 enabled, 2 disabled) and the log of what they
\* blocked (collection 2, a component with its own loading flag).  ui.sel is
\* selectedIds, ui.form the drafts of the AI dialog: 1 offered, 2 selected,
\* 3 a duplicate of an existing rule.
BlockRuleListOffers ==
    IF InFront("none")
    THEN On({"optimizer", "generator", "import", "create"})
         \cup (IF "loading" \in ui.spin THEN {} ELSE
               On({"tab"} \cup (IF ui.tab = 1 THEN {"search", "page"} ELSE {"logPage"})
                  \cup (IF ui.sel = {} THEN {}
                        ELSE {"batchEnable", "batchDelete", "clearSelection"}))
               \cup For({"tick", "edit", "toggle", "delete"},
                        IF ui.tab = 1 THEN Shown(1) ELSE {}))
    ELSE IF InFront("import") THEN BlockRuleImportOffers
    ELSE IF ui.box.kind \in {"generator", "optimizer"} THEN BlockRuleAIOffers
    ELSE BlockRuleDialogOffers \cup BlockRuleFormOffers

loadBlockRules(u) == List("loadRules", 1, u, {"loading"})
loadBlockLogs(u) == List("loadLogs", 2, u, {"logsLoading"})
BlockRuleListMounted == <<loadBlockLogs(Blank), loadBlockRules(Blank)>>

Searched(u, q) == [u EXCEPT !.q = q, !.sel = {}]

BlockRuleImportDo(e) ==
    \/ e = "paste" /\ Do([ui EXCEPT !.box.data = 1], <<>>)
    \/ e = "template" /\ Do(ui, <<Act("handleDownloadTemplate", None, {})>>)
    \/ e = "doImport" /\ ui.box.data = 0 /\ Do(ui, <<>>)
    \/ e = "doImport" /\ ui.box.data = 1
       /\ Do(ui, <<Create("handleBatchImport", 1, {"importing"})>>)

\* Closing, or opening it in the other mode, forgets the drafts, not the
\* request for new ones.
handleClose == [Closed EXCEPT !.form = NoRows]
Draft(S, clears) == CreateNext("handleCreateSelected", 1, S, clears)
BlockRuleAIDo(e) ==
    \/ /\ e \in {"generator", "optimizer"}
       /\ Do([Opened(e, None, 0) EXCEPT !.mode = e,
                                        !.form = IF ui.mode = e THEN @ ELSE NoRows], <<>>)
    \/ e = "cancel" /\ ui.box.kind \in {"generator", "optimizer"} /\ Do(handleClose, <<>>)
    \/ e = "generate"
       /\ \E prompt \in BOOLEAN :      \* an empty prompt is turned down
              Do([ui EXCEPT !.form = NoRows],
                 IF prompt THEN <<Act("handleGenerate", None, {"aiLoading"})>> ELSE <<>>)
    \/ e = "analyze" /\ Do(ui, <<Act("handleAnalyze", None, {"aiLoading"})>>)
    \/ e = "selectAll"
       /\ LET v == 1 - ui.box.data
          IN Do([ui EXCEPT !.box.data = v,
                     !.form = [j \in Items |-> IF @[j] \in {0, 3} THEN @[j] ELSE 1 + v]], <<>>)
    \/ e = "createSelected"
       /\ Do(ui, <<Draft([left |-> {j \in Items : ui.form[j] = 2}, done |-> 0, failed |-> 0],
                         {"creating"})>>)

BlockRuleListDo(e, i) ==
    \/ e = "search" /\ \E q \in {0, 3} :
           LET u == Searched(ui, q) IN Do(u, <<loadBlockRules(u)>>)
    \/ e = "page" /\ LET u == [ui EXCEPT !.q = 3 - @] IN Do(u, <<loadBlockRules(u)>>)
    \/ e = "logPage" /\ \E q \in Queries :
           Do(ui, <<loadBlockLogs([Blank EXCEPT !.q = q])>>)
    \/ e = "tab" /\ Do([ui EXCEPT !.tab = 3 - @], <<>>)
    \/ e = "tick"
       /\ Do([ui EXCEPT !.sel = IF i \in @ THEN @ \ {i} ELSE @ \cup {i}], <<>>)
    \/ e = "clearSelection" /\ Do([ui EXCEPT !.sel = {}], <<>>)
    \/ e = "batchEnable"
       /\ Do(ui, <<Save("batch", 1, [j \in Items |-> IF j \in ui.sel THEN 1 ELSE 0], {})>>)
    \/ e = "batchDelete" /\ Do(ui, <<Purge("batch", 1, ui.sel, {})>>)
    \/ e = "toggle"
       /\ Do(ui, <<Update("toggleEnabled", 1, i, flip(ui.rows[1][i]), {})>>)
    \/ e = "delete" /\ Do(ui, <<Delete("deleteRule", 1, i, {})>>)
    \/ e \in {"create", "import"} /\ Do(Opened(e, None, 0), <<>>)
    \/ e = "edit" /\ Do(Opened(e, i, flip(ui.rows[1][i])), <<>>)
    \/ e = "submit" /\ InFront("create")
       /\ Do(ui, <<Create("handleSubmit", 1, {"submitting"})>>)
    \/ e = "submit" /\ InFront("edit")
       /\ Do(ui, <<Update("handleSubmit", 1, ui.box.item, ui.box.data, {"submitting"})>>)
    \/ e = "cancel" /\ ui.box.kind \in {"create", "edit", "import"} /\ Do(Closed, <<>>)
    \/ BlockRuleFormDo(e)
    \/ BlockRuleImportDo(e)
    \/ BlockRuleAIDo(e)

BlockRuleImportBack(n) ==
    \/ Op(n, {"handleBatchImport"}) /\ Ok(n)
       /\ Then(n, IF InFront("import") THEN Closed ELSE ui, <<loadBlockRules(ui)>>)
    \/ Op(n, {"handleDownloadTemplate"}) /\ Ok(n) /\ Then(n, ui, <<>>)

\* An answer about drafts may hold none, or duplicates; it is taken in
\* whatever the dialog has come to be about.  The selected drafts are created
\* one after the other; only if none failed does the dialog close.
extractDrafts(n) ==
    \/ Then(n, ui, <<>>)
    \/ \E drafted \in SUBSET Items \ {{}} : \E dup \in SUBSET drafted :
           Then(n, [ui EXCEPT !.form = [j \in Items |-> IF j \notin drafted THEN 0
                                        ELSE IF j \in dup THEN 3 ELSE 1]], <<>>)

CreatedOne(n) ==
    LET p == calls[n].item
        j == CHOOSE x \in p.left : TRUE
        left == p.left \ {j}
        done == IF Ok(n) THEN p.done + 1 ELSE p.done
        failed == IF Ok(n) THEN p.failed ELSE p.failed + 1
        u == IF Ok(n) /\ ui.form[j] = 2 THEN [ui EXCEPT !.form[j] = 1] ELSE ui
        inFront == ui.box.kind \in {"generator", "optimizer"}
    IN IF left # {}
       THEN Then(n, u, <<Draft([left |-> left, done |-> done, failed |-> failed],
                               calls[n].clears)>>)
       ELSE Then(n, IF failed = 0 /\ inFront
                    THEN [u EXCEPT !.box = NoDialog, !.form = NoRows] ELSE u,
                 IF done > 0 THEN <<loadBlockRules(u)>> ELSE <<>>)

BlockRuleAIBack(n) ==
    \/ Op(n, {"handleGenerate"}) /\ Ok(n) /\ extractDrafts(n)
    \/ Op(n, {"handleAnalyze"}) /\ Ok(n) /\ Then(n, ui, <<>>)
    \/ Op(n, {"handleCreateSelected"}) /\ CreatedOne(n)

BlockRuleListBack(n) ==
    \/ Op(n, {"loadRules"}) /\ Ok(n)
       /\ Then(n, [Listed(n) EXCEPT !.sel = {}], <<>>)      \* the table unticks
    \/ Op(n, {"loadLogs"}) /\ Ok(n) /\ Then(n, Listed(n), <<>>)
    \/ Op(n, {"batch"}) /\ Ok(n)
       /\ LET u == [ui EXCEPT !.sel = {}] IN Then(n, u, <<loadBlockRules(u)>>)
    \/ Op(n, {"toggleEnabled"}) /\ Ok(n)
       /\ Then(n, IF calls[n].held /\ ui.rows[1][calls[n].item] # 0
                  THEN [ui EXCEPT !.rows[1][calls[n].item] = calls[n].arg] ELSE ui, <<>>)
    \/ Op(n, {"deleteRule"}) /\ Ok(n) /\ Then(n, ui, <<loadBlockRules(ui)>>)
    \/ Op(n, {"handleSubmit"}) /\ Ok(n)
       /\ Then(n, IF ui.box.kind \in {"create", "edit"} THEN Closed ELSE ui,
               <<loadBlockRules(ui)>>)
    \/ BlockRuleImportBack(n)
    \/ BlockRuleAIBack(n)
    \/ ~Op(n, {"handleCreateSelected"}) /\ Failed(n)

------------------------------------------------------------------------------
RiskHistoryOffers ==
    IF "historyLoading" \in ui.spin THEN {}
    ELSE On({"page"}) \cup For({"view", "remove"}, Shown(1))

\* Risk assessments: collection 1 the history; an assessment stands for its
\* one hit, 1 pending and 2 disposed of.  ui.sel is currentResult, ui.form its
\* items, tab 2 a file chosen.
RiskAssessmentOffers ==
    IF InFront("report") THEN On({"cancel"})
    ELSE On({"choose"}
            \cup (IF ui.tab = 1 THEN {}
                  ELSE (IF "analyzing" \in ui.spin THEN {} ELSE {"run"})
                       \cup (IF "aiParsing" \in ui.spin THEN {} ELSE {"aiParse"})))
         \cup For({"dispose", "block", "report", "export"}, ui.sel)
         \cup RiskHistoryOffers

loadHistory(u) == List("loadHistory", 1, u, {"historyLoading"})
RiskAssessmentMounted == <<loadHistory(Blank)>>

RiskAssessmentDo(e, i) ==
    \/ e = "choose" /\ Do([ui EXCEPT !.tab = 3 - @], <<>>)
    \/ e = "run" /\ Do(ui, <<Create("runAssessment", 1, {"analyzing"})>>)
    \/ e = "aiParse" /\ Do(ui, <<Act("aiParseFile", None, {"aiParsing"})>>)
    \/ e = "page" /\ LET u == [ui EXCEPT !.q = 1 - @] IN Do(u, <<loadHistory(u)>>)
    \/ e = "report"
       /\ Do(Opened("report", None, 0), <<Get("openAIReport", 1, i, {"aiReportLoading"})>>)
    \/ e = "cancel" /\ Do(Closed, <<>>)
    \/ e \in {"block", "export"} /\ Do(ui, <<Act("act", i, {})>>)
    \/ e = "dispose" /\ Do(ui, <<Update("dispose", 1, i, flip(ui.form[i]), {})>>)
    \/ e = "view" /\ Do(ui, <<Get("viewDetail", 1, i, {})>>)
    \/ e = "remove" /\ Do(ui, <<Delete("removeHistory", 1, i, {})>>)

Current(i, v) == [ui EXCEPT !.sel = {i}, !.form = [NoRows EXCEPT ![i] = v]]

\* The result of an assessment, a detail or a report replaces what is shown
\* when it comes; a disposition goes to its item if that is still shown.
RiskAssessmentBack(n) ==
    LET i == calls[n].item IN
    \/ Op(n, {"loadHistory"}) /\ Ok(n) /\ Then(n, Listed(n), <<>>)
    \/ Op(n, {"runAssessment", "analyze"}) /\ Ok(n)
       /\ LET u == Current(calls[n].reply, 1) IN Then(n, u, <<loadHistory(u)>>)
    \/ Op(n, {"aiParseFile"}) /\ Ok(n)
       /\ \/ Then(n, ui, <<>>)                                    \* not confirmed
          \/ Then(n, ui, <<Create("analyze", 1, calls[n].clears)>>)
    \/ Op(n, {"openAIReport"}) /\ Ok(n)
       /\ Then(n, IF InFront("report") THEN Opened("report", i, 1) ELSE ui, <<>>)
    \/ Op(n, {"viewDetail"}) /\ Ok(n)
       /\ Then(n, [Current(i, calls[n].reply) EXCEPT !.tab = 1], <<>>)
    \/ Op(n, {"dispose"}) /\ Ok(n)
       /\ Then(n, IF i \in ui.sel THEN [ui EXCEPT !.form[i] = calls[n].arg] ELSE ui,
               <<loadHistory(ui)>>)
    \/ Op(n, {"removeHistory"}) /\ Ok(n)
       /\ Then(n, IF i \in ui.sel THEN [ui EXCEPT !.sel = {}, !.form = NoRows] ELSE ui,
               <<loadHistory(ui)>>)
    \/ Op(n, {"act"}) /\ Ok(n) /\ Then(n, ui, <<>>)
    \/ Failed(n)
==============================================================================
