------------------------------ MODULE MCWebApp -------------------------------
(* Two rows of every collection, and every page for a few clicks, with two *)
(* or three requests in flight.                                            *)
EXTENDS WebApp

CONSTANTS a, b

MCItems == {a, b}

\* The pages that offer the most.
Crowded == {"PackageExplorer", "UserManagement", "BackupManagement", "BlockRuleList",
    "CacheManagement", "DownloadLogs", "ProfileSettings", "PublicBrowse",
    "DependencyGraph"}

MCMaxEvents ==
    [p \in Pages |-> CASE p = "CacheManagement" -> 2 [] p = "DependencyGraph" -> 6 [] OTHER -> 3]
MCMaxFaults == [p \in Pages |-> IF p = "DependencyGraph" THEN 2 ELSE 1]
MCMaxCalls == [p \in Pages |-> IF p \in Crowded THEN 2 ELSE 3]
==============================================================================
