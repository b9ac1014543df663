SPECIFICATION Spec
CONSTANTS
    None = None
    f1 = f1
    f2 = f2
    d1 = d1
    c1 = c1
    c2 = c2
    p1 = p1
    p2 = p2
    Package <- MCPackage
    Version <- MCVersion
    Requirement <- MCRequirement
    PkgOf <- MCPkgOf
    Allows <- MCAllows
    CommandLines <- MCNames
    Blacklist <- MCBlacklist
    Link <- MCLink
    Remote <- MCRemote
    Cached <- MCCached
    Requires <- MCRequires
    Worker <- MCSingleWorker
    ServiceOf <- MCSingle
    Quiet = FALSE
INVARIANT NothingForgotten
