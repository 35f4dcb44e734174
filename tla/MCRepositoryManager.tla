------------------------ MODULE MCRepositoryManager -------------------------
(* RepositoryManager with two or three callers.                            *)
EXTENDS RepositoryManager, TLC

CONSTANTS c1, c2, c3

MCTwoCallers == {c1, c2}
MCThreeCallers == {c1, c2, c3}
=============================================================================
