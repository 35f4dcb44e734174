--------------------------- MODULE MCProxyRuntime ---------------------------
(* One artifact, two contents, and one or two callers.                     *)
EXTENDS ProxyRuntime, TLC

CONSTANTS r1, r2

MCOneRequest == {r1}
MCRequests == {r1, r2}
=============================================================================
