SPECIFICATION Spec
CONSTANTS
    Package = p
    Packages <- MCPackages
    Versions = {v1, v2}
    PackageOf <- MCPackageOf
    Writers = {w1}
    Worker = worker
    QueueCap = 1
    NoKey = NoKey
INVARIANTS TypeOK NothingForgotten
PROPERTY StopReturns
