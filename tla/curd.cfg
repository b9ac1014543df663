SPECIFICATION FairSpec
CONSTANTS
    None = None
    Dist <- MCDist
    NameOf <- MCNameOf
    Code <- MCCode
    Installed <- MCInstalled
    Metadata <- MCMetadata
    Record <- MCRecord
    MaxFaults = 1
    Spelling <- MCSpelling
    Safe <- MCSafe
    PACKAGE_BLACKLIST = {"setuptools"}
    Tarball = {"my_b", "c"}
    File <- MCFile
    Lines <- MCLines
    Blank = "#"
    RecursionLimit = 3
    Directory = {".", "other", "copy"}
    Imports <- MCImports
    Cwd = "."
    Builtin = {"sys"}
    Command <- MCCommand
    MaxCommands = 2
CHECK_DEADLOCK FALSE
INVARIANTS
    TypeOK
    ReadsAll
    WholeOrGone
    StaysBroken
    TrueExit
    Removed
    CrashExplained
    FreezeTells
PROPERTY
    CommandEnds
