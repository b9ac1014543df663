-------------------------------- MODULE Deploy --------------------------------
(***************************************************************************)
(* What follows retrieve_and_build in Install.run                          *)
(* (src/curdling/install.py:264-313): the main thread starts the installer *)
(* on the packages load_installer queued and counts until all are done,    *)
(* then does the same with the uploader for the packages that a curdling   *)
(* server was found not to have.  Both loops end by comparing a number     *)
(* that is known beforehand with counters that the workers keep.           *)
(***************************************************************************)
EXTENDS Naturals, FiniteSets, Sequences

CONSTANTS
    Package,    \* packages that may be installed
    Server,     \* curdling servers, by their URL
    NotFound,   \* sequences of <<server, package>> the finder may have missed
    Upload,     \* --upload
    Worker,     \* threads of both services
    ServiceOf,  \* [Worker -> Service]
    MaxLeftover,\* bound on the failures that load_installer lets through
    Nothing     \* no task

Service == {"installer", "uploader"}
Task == [pkg : Package, server : Server \cup {Nothing}]

ASSUME DeployAssumption ==
    /\ IsFiniteSet(Package)
    /\ NotFound \subseteq Seq(Server \X Package)
    /\ Upload \in BOOLEAN
    /\ IsFiniteSet(Worker)
    /\ ServiceOf \in [Worker -> Service]
    /\ MaxLeftover \in Nat
    /\ Nothing \notin Task \cup Server

VARIABLES
    packages,   \* what load_installer found installable
    missing,    \* requirements_not_found of the curdling locators
    leftover,   \* failures of retrieve_and_build in mapping.errors
    queue,      \* service -> its _queue
    started,    \* services that have threads
    errors,     \* the packages that mapping.errors has got since
    stats,      \* mapping.stats: service -> its counter
    installed,  \* packages in site-packages
    uploaded,   \* <<server, package>> that a server answered for
    pc,         \* worker -> where it is
    job,        \* worker -> its task
    reg,        \* worker -> the counter as the worker read it
    main,       \* where the main thread is
    count,      \* local `installed' of Install.install
    todo        \* what load_uploader has still to queue

request == <<packages, missing, leftover>>
site == <<installed, uploaded>>
pool == <<pc, job, reg>>
vars == <<request, queue, started, errors, stats, site, pool, main, count, todo>>

Exits == {"exit 0", "exit 1"}
MainPC == {"start", "installed", "failed", "signal", "gate", "load", "uploaded"} \cup Exits

TypeOK ==
    /\ packages \in SUBSET Package
    /\ missing \in Seq(Server \X Package)
    /\ leftover \in Nat
    /\ queue \in [Service -> Seq(Task)]
    /\ started \in SUBSET Service
    /\ errors \in SUBSET Package
    /\ stats \in [Service -> Nat]
    /\ installed \in SUBSET Package
    /\ uploaded \in SUBSET (Server \X Package)
    /\ pc \in [Worker -> {"idle", "run", "count", "store"}]
    /\ job \in [Worker -> Task \cup {Nothing}]
    /\ \A w \in Worker : pc[w] = "idle" <=> job[w] = Nothing
    /\ reg \in [Worker -> Nat]
    /\ main \in MainPC
    /\ count \in Nat
    /\ todo \in Seq(Server \X Package)

\* CleanInstall of RetrieveAndBuild tells when there are failures so far.
\* Without a requirement the finder missed none.
Init ==
    /\ packages \in SUBSET Package
    /\ missing \in NotFound \cup {<<>>}
    /\ leftover \in 0 .. MaxLeftover
    /\ packages = {} => missing = <<>> /\ leftover = 0
    /\ \E order \in [1 .. Cardinality(packages) -> packages] :
        /\ \A p \in packages : \E i \in DOMAIN order : order[i] = p
        /\ queue = [s \in Service |->
                      IF s = "installer"
                      THEN [i \in DOMAIN order |-> [pkg |-> order[i], server |-> Nothing]]
                      ELSE <<>>]
    /\ started = {}
    /\ errors = {}
    /\ stats = [s \in Service |-> 0]
    /\ installed = {}
    /\ uploaded = {}
    /\ pc = [w \in Worker |-> "idle"]
    /\ job = [w \in Worker |-> Nothing]
    /\ reg = [w \in Worker |-> 0]
    /\ main = IF packages # {} THEN "start" ELSE "gate"
    /\ count = 0
    /\ todo = <<>>

-----------------------------------------------------------------------------
(* The main thread: Install.install *)

Goto(from, to) == main = from /\ main' = to

StartInstaller ==
    /\ Goto("start", "installed")
    /\ started' = started \cup {"installer"}
    /\ UNCHANGED <<request, queue, errors, stats, site, pool, count, todo>>

ReadInstalled ==
    /\ Goto("installed", "failed")
    /\ count' = stats["installer"]
    /\ UNCHANGED <<request, queue, started, errors, stats, site, pool, todo>>

\* Mutant: the last package is not waited for
AlmostDone(done, failed) == Cardinality(packages) <= done + failed + 1

\* Mutant: a package is done when a thread has taken it
AllTaken(done, failed) == queue["installer"] = <<>>

AllDone(done, failed) == Cardinality(packages) = done + failed

\* sum(len(x) for x in self.mapping.errors.values())
Failures == leftover + Cardinality(errors)

\* Both numbers are known: leave the loop, or sleep and count again
CompareInstalled ==
    /\ Goto("failed",
            IF AllDone(count, Failures) THEN "signal" ELSE "installed")
    /\ count' = 0
    /\ UNCHANGED <<request, queue, started, errors, stats, site, pool, todo>>

\* Failures end the program (handle_install_exit); otherwise run goes on
Signal ==
    /\ Goto("signal", IF Failures # 0 THEN "exit 1" ELSE "gate")
    /\ UNCHANGED <<request, queue, started, errors, stats, site, pool, count, todo>>

-----------------------------------------------------------------------------
(* The main thread: Install.upload *)

\* run asks for the upload; without a server that misses something, total is 0
Gate ==
    /\ LET uploads == Failures = 0 /\ Upload /\ missing # <<>> IN
        /\ Goto("gate", IF uploads THEN "load" ELSE "exit 0")
        /\ started' = IF uploads THEN started \cup {"uploader"} ELSE started
        /\ todo' = IF uploads THEN missing ELSE <<>>
    /\ UNCHANGED <<request, queue, errors, stats, site, pool, count>>

\* load_uploader: one package.  best_version answered for those that are
\* installed; it raises VersionConflict for a package that was only ever set aside
LoadUploader ==
    /\ main = "load" /\ todo # <<>>
    /\ LET server == Head(todo)[1]
           pkg == Head(todo)[2]
       IN  queue' = IF pkg \notin packages THEN queue
                    ELSE [queue EXCEPT !["uploader"] =
                            Append(@, [pkg |-> pkg, server |-> server])]
    /\ todo' = Tail(todo)
    /\ UNCHANGED <<request, started, errors, stats, site, pool, main, count>>

Loaded ==
    /\ todo = <<>>
    /\ Goto("load", "uploaded")
    /\ UNCHANGED <<request, queue, started, errors, stats, site, pool, count, todo>>

\* Mutant: one upload too many is waited for
MoreUploadsCounted == stats["uploader"] = Len(missing) + 1

\* Mutant: the counter of the wrong service
InstallsCounted == stats["installer"] >= Len(missing)

UploadsCounted == stats["uploader"] = Len(missing)

\* Failures are not counted here: the loop waits for every upload to succeed
CompareUploaded ==
    /\ Goto("uploaded", IF UploadsCounted THEN "exit 0" ELSE "uploaded")
    /\ UNCHANGED <<request, queue, started, errors, stats, site, pool, count, todo>>

Main ==
    \/ StartInstaller \/ ReadInstalled \/ CompareInstalled \/ Signal
    \/ Gate \/ LoadUploader \/ Loaded \/ CompareUploaded

-----------------------------------------------------------------------------
(* The workers: daemon threads, that end with the main thread *)

At(w, where) ==
    /\ main \notin Exits
    /\ ServiceOf[w] \in started
    /\ pc[w] = where

\* Mutant: the thread holds on to its task
Pause(w) ==
    /\ pc' = [pc EXCEPT ![w] = "idle"]
    /\ UNCHANGED job

Rest(w) ==
    /\ pc' = [pc EXCEPT ![w] = "idle"]
    /\ job' = [job EXCEPT ![w] = Nothing]

Take(w) ==
    LET s == ServiceOf[w] IN
    /\ At(w, "idle")
    /\ queue[s] # <<>>
    /\ queue' = [queue EXCEPT ![s] = Tail(@)]
    /\ job' = [job EXCEPT ![w] = Head(queue[s])]
    /\ pc' = [pc EXCEPT ![w] = "run"]
    /\ UNCHANGED <<request, started, errors, stats, site, reg, main, count, todo>>

Remember(p) == errors' = errors \cup {p}

\* The handler raises: update_error_list
Fail(w) ==
    /\ At(w, "run")
    /\ Remember(job[w].pkg)
    /\ Rest(w)
    /\ UNCHANGED <<request, queue, started, stats, site, reg, main, count, todo>>

\* Installer.handle
InstallWheel(w) ==
    /\ At(w, "run") /\ ServiceOf[w] = "installer"
    /\ installed' = installed \cup {job[w].pkg}
    /\ pc' = [pc EXCEPT ![w] = "count"]
    /\ UNCHANGED <<request, queue, started, errors, stats, uploaded, job, reg, main, count, todo>>

\* Uploader.handle; whatever the server answers, it is not looked at
UploadWheel(w) ==
    /\ At(w, "run") /\ ServiceOf[w] = "uploader"
    /\ uploaded' = uploaded \cup {<<job[w].server, job[w].pkg>>}
    /\ pc' = [pc EXCEPT ![w] = "count"]
    /\ UNCHANGED <<request, queue, started, errors, stats, installed, job, reg, main, count, todo>>

\* update_count: stats[name] += 1 is a read ...
CountRead(w) ==
    /\ At(w, "count")
    /\ reg' = [reg EXCEPT ![w] = stats[ServiceOf[w]]]
    /\ pc' = [pc EXCEPT ![w] = "store"]
    /\ UNCHANGED <<request, queue, started, errors, stats, site, job, main, count, todo>>

\* ... and a write
CountStore(w) ==
    /\ At(w, "store")
    /\ stats' = [stats EXCEPT ![ServiceOf[w]] = reg[w] + 1]
    /\ reg' = [reg EXCEPT ![w] = 0]
    /\ Rest(w)
    /\ UNCHANGED <<request, queue, started, errors, site, main, count, todo>>

Work(w) ==
    \/ Take(w) \/ Fail(w) \/ InstallWheel(w) \/ UploadWheel(w)
    \/ CountRead(w) \/ CountStore(w)

-----------------------------------------------------------------------------
\* The process has ended
Over == main \in Exits /\ UNCHANGED vars

Next == Main \/ (\E w \in Worker : Work(w)) \/ Over

Spec == Init /\ [][Next]_vars

\* The operating system runs every thread
FairSpec == Spec /\ WF_vars(Main) /\ \A w \in Worker : WF_vars(Work(w))

-----------------------------------------------------------------------------
Busy(s) == {w \in Worker : ServiceOf[w] = s /\ pc[w] # "idle"}

(***************************************************************************)
(* When the first loop ends (install.py:272), each package is installed or *)
(* has failed, and no installer thread is at work, although the two        *)
(* numbers were read one after the other and updates get lost: a wheel     *)
(* half copied is never reported as installed.  Only a failure of          *)
(* retrieve_and_build, which install takes for one of its own, can end the *)
(* loop before its time.                                                   *)
(***************************************************************************)
InstallSettled ==
    leftover = 0 /\ main \in {"signal", "gate", "load", "uploaded"} \cup Exits =>
        /\ packages \subseteq installed \cup errors
        /\ queue["installer"] = <<>>
        /\ Busy("installer") = {}

(***************************************************************************)
(* Exit status 0 means what the user takes it to mean: every package is    *)
(* installed, and with --upload every wheel that a server missed was sent. *)
(***************************************************************************)
TrueSuccess ==
    main = "exit 0" =>
        /\ packages \subseteq installed
        /\ Upload => \A i \in DOMAIN missing : missing[i] \in uploaded

(***************************************************************************)
(* No wheel goes to a server before all the packages are installed:        *)
(* install and upload share mapping.errors, and run looks at it only once. *)
(***************************************************************************)
InstalledBeforeUploaded == uploaded # {} => packages \subseteq installed

(***************************************************************************)
(* What can keep the program from ending: a counter that lost an update    *)
(* (install.py:129), a failure too many that made the sum skip the total,  *)
(* an upload that failed, which the loop of upload does not count, or a    *)
(* conflict, which load_uploader skips.                                    *)
(***************************************************************************)
Lost(s) ==
    LET done == IF s = "installer" THEN Cardinality(installed) ELSE Cardinality(uploaded)
    IN  stats[s] + Cardinality({w \in Busy(s) : pc[w] # "run"}) < done

Short ==
    \/ \E s \in Service : Lost(s)
    \/ stats["installer"] + Failures > Cardinality(packages)
    \/ main \in {"load", "uploaded"} /\ errors # {}
    \/ main = "uploaded" /\ \E i \in DOMAIN missing : missing[i][2] \notin packages

(***************************************************************************)
(* `curd install' comes to an end, or one of the four came in the way.     *)
(***************************************************************************)
EndsUnlessShort == <>(main \in Exits \/ Short)

(***************************************************************************)
(* "This is the last thing called in the software" (tool/__init__.py:196): *)
(* the callback that ends the process with the right code is reached.      *)
(***************************************************************************)
ReachesExit == <>(main \in Exits)
=============================================================================
