SPECIFICATION Spec
CONSTANTS
    None = None
    f1 = f1
    f2 = f2
    d1 = d1
    c1 = c1
    c2 = c2
    p1 = p1
    p2 = p2
    Package <- MCPackage
    Version <- MCVersion
    Requirement <- MCRequirement
    PkgOf <- MCPkgOf
    Allows <- MCAllows
    CommandLines <- MCCommandLines
    Blacklist <- MCBlacklist
    Link <- MCLink
    Remote <- MCRemote
    Cached <- MCCached
    Requires <- MCRequires
    Worker <- MCWorker
    ServiceOf <- MCServiceOf
    Quiet = FALSE
SYMMETRY MCSymmetry
INVARIANTS
    TypeOK
    OnePlace
    NothingLost
    Accounting
    QuietOnLoad
    RepeatedServed
    OnlyRepeatsCrash
    CleanInstall
    ClosureOnInstall
PROPERTY LifecycleSpec
