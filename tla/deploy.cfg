SPECIFICATION FairSpec
CONSTANTS
    MaxLeftover = 1
    Nothing = Nothing
    i1 = i1
    i2 = i2
    u1 = u1
    u2 = u2
    Package <- MCPackage
    Server <- MCServer
    NotFound <- MCNotFound
    Upload = TRUE
    Worker <- MCWorker
    ServiceOf <- MCServiceOf
INVARIANTS
    TypeOK
    InstallSettled
    TrueSuccess
    InstalledBeforeUploaded
PROPERTY EndsUnlessShort
