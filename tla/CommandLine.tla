----------------------------- MODULE CommandLine -----------------------------
(***************************************************************************)
(* `curd' (src/curdling/tool/__init__.py): a user runs one command after   *)
(* the other on the same environment.  Each reads its arguments and        *)
(* requirements files, does its work and exits with a status; Ctrl-C may   *)
(* come at any time, and what raises comes out as status 1.                *)
(***************************************************************************)
EXTENDS SitePackages

CONSTANTS
    Spelling,       \* names of packages, as anybody may spell them
    Safe,           \* [Spelling -> Spelling]: util.safe_name
    PACKAGE_BLACKLIST,
    Tarball,        \* names in the metadata of the tarballs on the command line
    File,           \* requirements files; Lines[f] is what is on their lines:
    Lines,          \* [File -> Seq(Lexeme)], or None
    Blank,          \* an empty line or a comment
    RecursionLimit, \* of includes
    Directory,      \* Imports[dir][file] is its import statements, each with the
    Imports,        \* names it imports: none for `from . import'
    Cwd,            \* where the user is
    Builtin,        \* sys.builtin_module_names
    Command,        \* what may be typed: a set of records
    MaxCommands,    \* bound on the commands of a session
    None

\* What ends a command with an exception
Failure == {"include", "file", "progress", "record", "unlink", "open", "interrupt"}

Lexeme == Spelling \cup File \cup {Blank}

ASSUME CommandLineAssumption ==
    /\ NameOf \in [Dist -> Spelling]
    /\ Safe \in [Spelling -> Spelling] /\ \A n \in Spelling : Safe[Safe[n]] = Safe[n]
    /\ PACKAGE_BLACKLIST \subseteq Spelling /\ Tarball \subseteq Spelling
    /\ \A f \in File : Lines[f] = None \/ Lines[f] \in Seq(Lexeme)
    /\ File \cap Spelling = {} /\ Blank \notin Spelling \cup File
    /\ RecursionLimit \in Nat \ {0} /\ MaxCommands \in Nat
    /\ Cwd \in Directory
    /\ \A dir \in Directory :
        /\ IsFiniteSet(DOMAIN Imports[dir])
        /\ \A f \in DOMAIN Imports[dir] :
            /\ Imports[dir][f] \in Seq(Range(Imports[dir][f]))
            /\ \A names \in Range(Imports[dir][f]) : names \in Seq(Range(names))
    /\ None \notin Command /\ None \notin 0 .. 2 /\ None \notin Failure
    \* add_parser_install, add_parser_uninstall, add_parser_freeze
    /\ Command \subseteq
        [command : {"install"}, tarballs : SUBSET Tarball, args : Seq(Spelling),
         requirements : Seq(File), quiet : BOOLEAN]
        \cup [command : {"uninstall"}, args : Seq(Spelling), requirements : Seq(File)]
        \cup [command : {"freeze"}, root_path : Directory]
    /\ \A c \in Command : c.command = "uninstall" => Len(c.requirements) <= 1

VARIABLES
    cmd,        \* the last command
    pc,         \* where it is
    stack,      \* the lines left in each of the files being read
    packages,   \* what it was asked for
    rest,       \* what uninstall or freeze has still to look at
    exit,       \* its exit status
    crash,      \* what raised, or None
    printed,    \* by freeze
    commands,   \* so far
    stopped,    \* history: whether it was interrupted
    start       \* history: the state of the site when it started

Broken(d) == ~(Range(Code[d]) \subseteq files)

Site == [listed |-> {d \in Dist : Listed(d)}, broken |-> {d \in Dist : Listed(d) /\ Broken(d)},
         hurt |-> hurt, faults |-> faults]

program == <<cmd, pc, stack, packages, rest, exit, crash, printed>>
vars == <<siteVars, program, commands, stopped, start>>

Init ==
    /\ SiteInit
    /\ cmd = None /\ pc = "prompt"
    /\ stack = <<>> /\ packages = <<>> /\ rest = <<>>
    /\ exit = None /\ crash = None /\ printed = {}
    /\ commands = 0 /\ stopped = FALSE
    /\ start = Site

At(k) == pc = k
Goto(k) == pc' = k
Is(kind) == cmd # None /\ cmd.command = kind

Exit(status) == Goto("prompt") /\ exit' = status
Raise(what) == Exit(1) /\ crash' = what

-----------------------------------------------------------------------------
(* Arguments *)

Missing(c) == c.command # "freeze" /\ \E i \in DOMAIN c.requirements : Lines[c.requirements[i]] = None

\* argparse opens the requirements files: status 2 without them
Run(c) ==
    /\ At("prompt") /\ commands < MaxCommands
    /\ commands' = commands + 1
    /\ cmd' = c
    /\ crash' = None /\ stopped' = FALSE /\ printed' = {}
    /\ start' = Site
    /\ IF Missing(c)
       THEN Exit(2) /\ UNCHANGED <<stack, packages, rest>>
       ELSE /\ exit' = None
            /\ IF c.command = "freeze"
               THEN /\ Goto("freeze")
                    /\ stack' = <<>> /\ packages' = <<>>
                    /\ rest' \in SetToSeqs(DOMAIN Imports[c.root_path])
               ELSE /\ Goto("read")
                    /\ packages' = [i \in DOMAIN c.args |-> Safe[c.args[i]]]
                    /\ stack' = <<c.requirements>>
                    /\ rest' = <<>>
    /\ UNCHANGED siteVars

\* For uninstall args.requirements is one open file: its lines have no read()
UninstallFile ==
    Is("uninstall") /\ cmd.requirements # <<>> /\ Lines[cmd.requirements[1]] # <<>>

Line == Head(Head(stack))
PopLine == <<Tail(Head(stack))>> \o Tail(stack)

EndOfFile ==
    /\ Head(stack) = <<>>
    /\ stack' = Tail(stack)
    /\ UNCHANGED <<pc, packages, exit, crash>>

SkipLine ==
    /\ Head(stack) # <<>> /\ Line = Blank
    /\ stack' = PopLine
    /\ UNCHANGED <<pc, packages, exit, crash>>

Package ==
    /\ Head(stack) # <<>> /\ Line \in Spelling
    /\ packages' = Append(packages, Safe[Line])
    /\ stack' = PopLine
    /\ UNCHANGED <<pc, exit, crash>>

\* Mutant: the file is expanded after the others
IncludeLast ==
    /\ Head(stack) # <<>> /\ Line \in File
    /\ IF Lines[Line] = None \/ Len(stack) > RecursionLimit
       THEN Raise("include") /\ UNCHANGED <<stack, packages>>
       ELSE stack' = PopLine \o <<Lines[Line]>> /\ UNCHANGED <<pc, packages, exit, crash>>

\* `-r': the file is expanded in the place of the line
Include ==
    /\ Head(stack) # <<>> /\ Line \in File
    /\ IF Lines[Line] = None \/ Len(stack) > RecursionLimit
       THEN Raise("include") /\ UNCHANGED <<stack, packages>>
       ELSE stack' = <<Lines[Line]>> \o PopLine /\ UNCHANGED <<pc, packages, exit, crash>>

expand_requirements == EndOfFile \/ SkipLine \/ Package \/ Include

get_packages_from_args ==
    /\ At("read") /\ stack # <<>>
    /\ \/ UninstallFile /\ Raise("file") /\ UNCHANGED <<stack, packages>>
       \/ ~UninstallFile /\ expand_requirements
    /\ UNCHANGED <<siteVars, cmd, rest, printed, commands, stopped, start>>

Ready(kind) == At("read") /\ stack = <<>> /\ Is(kind)

-----------------------------------------------------------------------------
(* install *)

Requested == (Range(packages) \cup {Safe[n] : n \in cmd.tarballs}) \ PACKAGE_BLACKLIST

\* The bar of a run that shows one divides by the number of requirements
ZeroDivision ==
    /\ Ready("install")
    /\ ~cmd.quiet /\ packages # <<>> /\ Requested = {}
    /\ Raise("progress")
    /\ UNCHANGED <<siteVars, cmd, stack, packages, rest, printed, commands, stopped, start>>

\* A tarball is queued under the name in its metadata, and found again under
\* the safe one: unless they are the same there is no wheel for it
Lost == \E n \in cmd.tarballs : Safe[n] # n /\ Safe[n] \in Requested

\* retrieve_and_build, once its loop ended: it found a distribution for each
\* package, or gives up
Retrieve ==
    /\ Ready("install")
    /\ cmd.quiet \/ packages = <<>> \/ Requested # {}
    /\ \/ /\ ~Lost
          /\ \E ds \in SUBSET Dist :
              /\ {Safe[NameOf[d]] : d \in ds} = Requested
              /\ Cardinality(ds) = Cardinality(Requested)
              /\ Begin(ds)
              /\ hurt' = hurt \ ds
          /\ Goto("install")
          /\ UNCHANGED <<files, dirs, faults, exit>>
       \/ /\ Requested # {}
          /\ Exit(1)
          /\ UNCHANGED siteVars
    /\ UNCHANGED <<cmd, stack, packages, rest, crash, printed, commands, stopped, start>>

\* The threads of the installer
Installer ==
    /\ At("install")
    /\ \E d \in Dist : Write(d) \/ WriteEnds(d)
    /\ UNCHANGED <<program, commands, stopped, start>>

\* mapping.errors has it: status 1 in the end
InstallerFails ==
    /\ At("install")
    /\ \E d \in Dist : WriteFails(d)
    /\ exit' = 1
    /\ UNCHANGED <<cmd, pc, stack, packages, rest, crash, printed, commands, stopped, start>>

\* Mutant: status 0 whatever failed
AlwaysZero ==
    /\ At("install") /\ busy = {}
    /\ Exit(0)
    /\ UNCHANGED <<siteVars, cmd, stack, packages, rest, crash, printed, commands, stopped, start>>

\* Once the loop of load_installer ended: no thread is at work any more then,
\* which is not enough for its counters to agree
handle_install_exit ==
    /\ At("install") /\ busy = {}
    /\ Exit(IF exit = None THEN 0 ELSE exit)
    /\ UNCHANGED <<siteVars, cmd, stack, packages, rest, crash, printed, commands, stopped, start>>

-----------------------------------------------------------------------------
(* uninstall *)

request_uninstall ==
    /\ Ready("uninstall")
    /\ rest' = packages
    /\ Goto("uninstall")
    /\ UNCHANGED <<siteVars, cmd, stack, packages, exit, crash, printed, commands, stopped, start>>

\* Mutant: the distributions are looked up beforehand
FoundBefore(p) == {d \in start.listed : NameOf[d] = p}

\* distlib has a distribution by the name in its METADATA, any of its versions
Found(p) == {d \in Dist : Listed(d) /\ NameOf[d] = p}

\* Mutant: the first package that is not installed is the last one
NothingMore ==
    /\ At("uninstall") /\ busy = {} /\ rest # <<>> /\ Found(Head(rest)) = {}
    /\ rest' = <<>>
    /\ UNCHANGED <<siteVars, cmd, pc, stack, packages, exit, crash, printed, commands, stopped, start>>

\* Mutant: the package is looked for again
AgainAndAgain ==
    /\ At("uninstall") /\ busy = {} /\ rest # <<>> /\ Found(Head(rest)) = {}
    /\ rest' = Tail(rest) \o <<Head(rest)>>
    /\ UNCHANGED <<siteVars, cmd, pc, stack, packages, exit, crash, printed, commands, stopped, start>>

\* PackageNotInstalled is logged, and the next package is looked for
NotInstalled ==
    /\ At("uninstall") /\ busy = {} /\ rest # <<>> /\ Found(Head(rest)) = {}
    /\ rest' = Tail(rest)
    /\ UNCHANGED <<siteVars, cmd, pc, stack, packages, exit, crash, printed, commands, stopped, start>>

uninstall ==
    /\ At("uninstall") /\ busy = {} /\ rest # <<>>
    /\ \E d \in Found(Head(rest)) :
        IF Record[d] \in files
        THEN Begin({d}) /\ rest' = Tail(rest) /\ UNCHANGED <<pc, exit, crash>>
        ELSE Raise("record") /\ UNCHANGED <<busy, left, fresh, rest>>
    /\ UNCHANGED <<files, dirs, faults, hurt, cmd, stack, packages, printed, commands, stopped, start>>

RemoveFiles ==
    /\ At("uninstall")
    /\ \E d \in Dist : Unlink(d) \/ RemoveDirectory(d)
    /\ UNCHANGED <<program, commands, stopped, start>>

\* An OSError ends the program, whatever is left
UnlinkFails ==
    /\ At("uninstall")
    /\ \E d \in Dist : UnlinkRaises(d)
    /\ Cut
    /\ Raise("unlink")
    /\ UNCHANGED <<cmd, stack, packages, rest, printed, commands, stopped, start>>

\* Mutant: no exit status
EndsSilently ==
    /\ At("uninstall") /\ busy = {} /\ rest = <<>>
    /\ Goto("prompt") /\ UNCHANGED exit
    /\ UNCHANGED <<siteVars, cmd, stack, packages, rest, crash, printed, commands, stopped, start>>

UninstallEnds ==
    /\ At("uninstall") /\ busy = {} /\ rest = <<>>
    /\ Exit(0)
    /\ UNCHANGED <<siteVars, cmd, stack, packages, rest, crash, printed, commands, stopped, start>>

-----------------------------------------------------------------------------
(* freeze *)

\* ImportVisitor: the first name of a statement, and none of a relative one
find_imported_modules(statements) ==
    {statements[i][1] : i \in {j \in DOMAIN statements : statements[j] # <<>>}}

\* Mutant: a file that can not be opened is passed over
HarvestSome ==
    /\ At("freeze") /\ rest # <<>>
    /\ packages' = IF Head(rest) \in DOMAIN Imports[Cwd]
                   THEN packages \o SetToSeq(find_imported_modules(Imports[Cwd][Head(rest)]))
                   ELSE packages
    /\ rest' = Tail(rest)
    /\ UNCHANGED <<siteVars, cmd, pc, stack, exit, crash, printed, commands, stopped, start>>

\* A file found under root_path is opened under that name in the working directory
Harvest ==
    /\ At("freeze") /\ rest # <<>>
    /\ IF Head(rest) \in DOMAIN Imports[Cwd]
       THEN /\ packages' = packages \o SetToSeq(find_imported_modules(Imports[Cwd][Head(rest)]))
            /\ rest' = Tail(rest)
            /\ UNCHANGED <<pc, exit, crash>>
       ELSE Raise("open") /\ UNCHANGED <<packages, rest>>
    /\ UNCHANGED <<siteVars, cmd, stack, printed, commands, stopped, start>>

FreezeEnds ==
    /\ At("freeze") /\ rest = <<>>
    /\ printed' = Range(packages) \ Builtin
    /\ Exit(0)
    /\ UNCHANGED <<siteVars, cmd, stack, packages, rest, crash, commands, stopped, start>>

-----------------------------------------------------------------------------
(* Ctrl-C: main catches it once the command runs, and exits with 0 *)
KeyboardInterrupt ==
    /\ ~At("prompt")
    /\ stopped' = TRUE
    /\ IF At("read") THEN Raise("interrupt") ELSE Exit(0) /\ UNCHANGED crash
    /\ Cut
    /\ UNCHANGED <<faults, cmd, stack, packages, rest, printed, commands, start>>

\* The steps that wait for nothing
Progress ==
    \/ get_packages_from_args
    \/ ZeroDivision \/ Installer \/ InstallerFails
    \/ request_uninstall \/ NotInstalled \/ uninstall \/ RemoveFiles \/ UnlinkFails \/ UninstallEnds
    \/ Harvest \/ FreezeEnds

Step == Progress \/ Retrieve \/ handle_install_exit

Next ==
    \/ \E c \in Command : Run(c)
    \/ Step
    \/ KeyboardInterrupt

Spec == Init /\ [][Next]_vars

\* A program that runs goes on running; but nobody has to type a command or
\* Ctrl-C, and the two loops of install need not end (RetrieveAndBuild, Deploy)
FairSpec == Spec /\ WF_vars(Progress)
-----------------------------------------------------------------------------
TypeOK ==
    /\ SiteTypeOK
    /\ cmd \in Command \cup {None}
    /\ pc \in {"prompt", "read", "install", "uninstall", "freeze"}
    /\ \A i \in DOMAIN stack : stack[i] \in Seq(Lexeme)
    /\ exit \in {None} \cup 0 .. 2
    /\ pc = "prompt" => exit # None \/ cmd = None
    /\ exit # None => pc = "prompt" \/ (pc = "install" /\ exit = 1)
    /\ crash \in Failure \cup {None} /\ (exit = 0 => crash = None)
    /\ busy # {} => pc \in {"install", "uninstall"}
    /\ commands \in 0 .. MaxCommands

\* What comes of reading: the names, unless it raises
Nothing == [ok |-> TRUE, names |-> <<>>]
Raises == [ok |-> FALSE, names |-> <<>>]
Join(a, b) == [ok |-> a.ok /\ b.ok, names |-> a.names \o b.names]

\* A line, where inside[f] is what comes of including f
Reads(line, inside) ==
    CASE line = Blank -> Nothing
      [] line \in File -> inside[line]
      [] OTHER -> [ok |-> TRUE, names |-> <<Safe[line]>>]

\* Lines, one after the other
Through(inside) ==
    LET through[q \in Seq(Lexeme)] ==
            IF q = <<>> THEN Nothing ELSE Join(Reads(Head(q), inside), through[Tail(q)])
    IN  through

\* A file, whose includes may be n deep
Included[n \in Nat] ==
    [f \in File |-> IF n = 0 \/ Lines[f] = None THEN Raises ELSE Through(Included[n - 1])[Lines[f]]]

\* What a command has to work on
Arguments == [ok |-> TRUE, names |-> [i \in DOMAIN cmd.args |-> Safe[cmd.args[i]]]]
Reading == Join(Arguments, Through(Included[RecursionLimit])[cmd.requirements])

Completed(kind) == At("prompt") /\ Is(kind) /\ exit = 0 /\ ~stopped

(***************************************************************************)
(* "This option can be repeated as many times as needed"                   *)
(* (docs/usage.rst:60-62) and "It should be possible to include other      *)
(* files inside" (tests/unit/test_util.py:22): a command works on the      *)
(* packages of its arguments and then of its files, includes in place.     *)
(* It raises of an include that is not there, or that goes deeper than the *)
(* limit of recursion, as that of a file in itself.  And uninstall, whose  *)
(* files are promised in the same words (docs/usage.rst:174-176), works on *)
(* none: it raises whenever its file is not empty.                         *)
(***************************************************************************)
ReadsAll ==
    \/ At("read") \/ cmd = None \/ Is("freeze") \/ exit = 2 \/ crash = "interrupt"
    \/ UninstallFile /\ crash = "file"
    \/ /\ ~UninstallFile
       /\ \/ crash = "include" /\ ~Reading.ok
          \/ crash \notin {"file", "include"} /\ Reading.ok /\ packages = Reading.names

(***************************************************************************)
(* Between commands every distribution is there with all its files or gone *)
(* with all of them, however the threads of the installer interleave;      *)
(* except for those a command was cut off at, and those that share a file  *)
(* with a distribution that was removed or cut off (two versions of one    *)
(* package do: installing one does not uninstall the other).               *)
(***************************************************************************)
WholeOrGone == At("prompt") => \A d \in Dist \ hurt : Whole(d) \/ Gone(d)

(***************************************************************************)
(* A distribution that lost a file stays, and stays listed, whatever is    *)
(* uninstalled: unlink of the missing file comes before that of METADATA.  *)
(* It takes an installation to get rid of it.                              *)
(***************************************************************************)
StaysBroken == \A d \in start.broken : Listed(d) \/ Is("install")

(***************************************************************************)
(* Status 0 of install is true unless it was interrupted: each package it  *)
(* was asked for is there, unless it is on the blacklist.                  *)
(***************************************************************************)
TrueExit ==
    Completed("install") =>
        \A p \in Requested : \E d \in Dist : Safe[NameOf[d]] = p /\ Whole(d)

(***************************************************************************)
(* "Uninstall packages from your environment" (docs/usage.rst:169):        *)
(* uninstall that exits with 0 has removed each package, unless it was     *)
(* interrupted, or there were two versions, or its METADATA spells the     *)
(* name in another way than safe_name.                                     *)
(***************************************************************************)
Removed ==
    Completed("uninstall") =>
        \A d \in Dist : Safe[NameOf[d]] \in Range(packages) =>
            \/ ~Listed(d)
            \/ NameOf[d] # Safe[NameOf[d]]
            \/ \E e \in start.listed \ {d} : NameOf[e] = NameOf[d]

(***************************************************************************)
(* uninstall dies halfway only of a file that can not be removed, or of    *)
(* one that an earlier command or the package before took away; not of a   *)
(* package that is named twice.                                            *)
(***************************************************************************)
CrashExplained ==
    crash \in {"unlink", "record"} =>
        \/ faults > start.faults
        \/ \E d \in start.listed :
            /\ NameOf[d] \in Range(packages)
            /\ d \in start.hurt \/ \E e \in Sharing(d) : NameOf[e] \in Range(packages)

(***************************************************************************)
(* "Find all the dependencies needed to run a Python software"             *)
(* (src/curdling/tool/__init__.py:80), whose root path is an argument      *)
(* (:83): freeze that exits with 0 printed every module that the code      *)
(* imports, unless it is built in, or is named after another one in the    *)
(* same statement; or the user is in another directory, where a different  *)
(* file of the same name was read instead.  A file that has no such        *)
(* namesake is never passed over in silence.                               *)
(***************************************************************************)
FreezeTells ==
    Completed("freeze") =>
        \A f \in DOMAIN Imports[cmd.root_path] :
            LET code == Imports[cmd.root_path][f]
            IN  /\ f \in DOMAIN Imports[Cwd]
                /\ \/ code # Imports[Cwd][f]
                   \/ \A i \in DOMAIN code : \A n \in DOMAIN code[i] :
                          n > 1 \/ code[i][n] \in printed \cup Builtin

(***************************************************************************)
(* uninstall and freeze end, also with packages that are not installed and *)
(* files that include each other; install ends or comes as far as one of   *)
(* its loops, the second one with its threads done.  Whether those loops   *)
(* end is the question of Termination (RetrieveAndBuild) and of            *)
(* EndsUnlessShort (Deploy).                                               *)
(***************************************************************************)
CommandEnds ==
    ~At("prompt") ~> At("prompt") \/ Ready("install") \/ (At("install") /\ busy = {})
=============================================================================
