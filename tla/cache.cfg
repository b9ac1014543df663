SPECIFICATION FairSpec
CONSTANTS
    None = None
    c1 = c1
    c2 = c2
    f1 = f1
    f2 = f2
    f3 = f3
    Package <- MCPackage
    Version <- MCVersion
    Requirement <- MCRequirement
    PkgOf <- MCPkgOf
    Allows <- MCAllows
    Archive <- MCArchive
    Describes <- MCDescribes
    Page <- MCPage
    Links <- MCLinks
    Location <- MCLocation
    REDIRECT_LIMIT = 2
    Curds <- MCCurds
    Indexes <- MCIndexes
    Spellings <- MCSpellings
    Client <- MCClient
    Thread <- MCThread
    ClientOf <- MCClientOf
    Admits <- MCAdmits
    Flaky = {"curds", "pypi"}
    MaxFaults = 1
    Runs <- MCRuns
    Stock <- MCStock
    Upload <- MCClient
    Wheel <- MCWheel
    WheelOf <- MCWheelOf
    UserDB <- MCUserDB
    Login <- MCLogin
    crypt <- MCcrypt
CHECK_DEADLOCK FALSE
INVARIANTS
    TypeOK
    FindsTheBest
    ServersFirst
    WarmsUp
PROPERTY
    AnswerStays
    ClientEnds
