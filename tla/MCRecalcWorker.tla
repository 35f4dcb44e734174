--------------------------- MODULE MCRecalcWorker ---------------------------
(* One package; the versions all belong to it. *)
EXTENDS RecalcWorker

CONSTANT Package

MCPackages == {Package}
MCPackageOf == [v \in Versions |-> Package]
=============================================================================
