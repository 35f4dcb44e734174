SPECIFICATION SpecWithTimer
CONSTANTS
    Package = p
    Packages <- MCPackages
    Versions = {v1}
    PackageOf <- MCPackageOf
    Writers = {w1}
    Worker = worker
    QueueCap = 1
    NoKey = NoKey
PROPERTY MergedIsExecuted
