--------------------------- MODULE RetrieveAndBuild ---------------------------
(***************************************************************************)
(* Install.retrieve_and_build (src/curdling/install.py:229-262) and the    *)
(* four services it feeds: the main thread files the requirements found in *)
(* its inbox and hands each to a service, whose workers move it along      *)
(*                                                                         *)
(*     finder -> downloader -> curdler -> dependencer                      *)
(*                                                                         *)
(* until it has a wheel or has failed.  The dependencer puts what a wheel  *)
(* depends on back in the inbox.  Every step of this module is one access  *)
(* to state that two threads share; what the threads may interleave is     *)
(* what the steps may interleave.                                          *)
(***************************************************************************)
EXTENDS Mapping

CONSTANTS
    CommandLines,   \* sequences of requirements a user may ask for
    Blacklist,      \* PACKAGE_BLACKLIST
    Link,           \* requirement -> the file it links to, None if not a URL
    Remote,         \* files that the locators know of
    Cached,         \* files already in the index directory (Index.scan)
    Requires,       \* [Requirement -> [Version -> sequence of requirements]]
    Worker,         \* threads of all the services
    ServiceOf,      \* [Worker -> Service]
    Quiet           \* --quiet: no progress bar

Service == {"finder", "downloader", "curdler", "dependencer"}

ASSUME PipelineAssumption ==
    /\ CommandLines \subseteq Seq(Requirement)
    /\ Link \in [Requirement -> File \cup {None}]
    /\ Remote \subseteq File
    /\ Cached \subseteq File
    /\ Requires \in [Requirement -> [Version -> Seq(Requirement)]]
    /\ IsFiniteSet(Worker)
    /\ ServiceOf \in [Worker -> Service]
    /\ Quiet \in BOOLEAN

VARIABLES
    inbox,                  \* Install._queue
    queue,                  \* service -> its _queue
    processing_packages,    \* files the downloader was ever given
    storage,                \* Index.storage
    pc,                     \* worker -> where it is
    job,                    \* worker -> the data it handles
    deps,                   \* worker -> dependencies it has not told yet
    reg,                    \* worker -> the counter as the worker read it
    main,                   \* where the main thread is
    item,                   \* the requirement the main thread handles
    mark,                   \* size of `requirements' when an iteration over it began
    total, nbuilt,          \* locals of retrieve_and_build
    plan                    \* package -> requirement queued for installation

pool == <<pc, job, deps, reg>>
loop == <<total, nbuilt>>
vars == <<mapping, inbox, queue, processing_packages, storage, pool,
          main, item, mark, loop, plan>>

Told == [req : Requirement, parent : Requirement \cup {None}]

\* What a service is given to work on
FileFor(s) ==
    IF s = "finder" THEN {None}
    ELSE {f \in File : /\ s = "curdler" => f.fmt # "whl"
                      /\ s = "dependencer" => f.fmt = "whl"}

JobOf(s) == [req : Requirement, file : FileFor(s)]
Job == [req : Requirement, file : File]

\* Where a thread of a service can be, besides waiting and handling
Stage ==
    {<<"finder", "unique">>, <<"finder", "enqueue">>,
     <<"downloader", "emit">>, <<"curdler", "emit">>,
     <<"dependencer", "tell">>, <<"dependencer", "count">>, <<"dependencer", "store">>}

Ended == {"install", "report", "crashed"}
MainPC == {"drain", "scan", "wheel", "tarball", "total", "built", "failed", "load"} \cup Ended

WorkerTypeOK(w) ==
    \/ pc[w] = "idle" /\ job[w] = None
    \/ pc[w] = "run" /\ job[w] \in JobOf(ServiceOf[w])
    \/ /\ <<ServiceOf[w], pc[w]>> \in Stage /\ job[w] \in Job
       /\ ServiceOf[w] = "dependencer" => job[w].file.fmt = "whl"

TypeOK ==
    /\ MappingTypeOK
    /\ \A r \in Built : wheels[r].fmt = "whl"
    /\ inbox \in Seq(Told)
    /\ DOMAIN queue = Service
    /\ \A s \in Service : queue[s] \in Seq(JobOf(s))
    /\ processing_packages \in SUBSET File
    /\ storage \in SUBSET File
    /\ DOMAIN pc = Worker /\ DOMAIN job = Worker
    /\ \A w \in Worker : WorkerTypeOK(w)
    /\ deps \in [Worker -> Seq(Requirement)]
    /\ reg \in [Worker -> Nat]
    /\ main \in MainPC
    /\ item \in Told \cup {None}
    /\ main \in {"scan", "wheel", "tarball"} => item \in Told
    /\ mark \in Nat
    /\ total \in Nat
    /\ nbuilt \in Nat

Init ==
    /\ MappingInit
    /\ \E argv \in CommandLines :
        inbox = [i \in DOMAIN argv |-> [req |-> argv[i], parent |-> None]]
    /\ queue = [s \in Service |-> <<>>]
    /\ processing_packages = {}
    /\ storage = Cached
    /\ pc = [w \in Worker |-> "idle"]
    /\ job = [w \in Worker |-> None]
    /\ deps = [w \in Worker |-> <<>>]
    /\ reg = [w \in Worker |-> 0]
    /\ main = "drain"
    /\ item = None
    /\ mark = 0
    /\ total = 0
    /\ nbuilt = 0
    /\ plan = <<>>

-----------------------------------------------------------------------------
(* The main thread: Install.handle, for each requirement in the inbox *)

\* Mutant: the filter for duplicates looks for a wheel
KnownBuilt(r) == r \in Built

Known(r) == r \in requirements

Ignored(r) == PkgOf[r] \in Blacklist \/ Known(r)

\* The requirement is blacklisted or already filed: handle returns
Drop ==
    /\ main = "drain" /\ inbox # <<>>
    /\ Ignored(Head(inbox).req)
    /\ inbox' = Tail(inbox)
    /\ UNCHANGED <<mapping, queue, processing_packages, storage, pool,
                   main, item, mark, loop, plan>>

\* It is new: was_directly_required starts to iterate over `requirements'
Look ==
    /\ main = "drain" /\ inbox # <<>>
    /\ ~Ignored(Head(inbox).req)
    /\ inbox' = Tail(inbox)
    /\ main' = "scan"
    /\ item' = Head(inbox)
    /\ mark' = Cardinality(requirements)
    /\ UNCHANGED <<mapping, queue, processing_packages, storage, pool, loop, plan>>

\* A worker took an element out of the set meanwhile: RuntimeError
Crash ==
    /\ main = "scan"
    /\ Cardinality(requirements) # mark
    /\ main' = "crashed"
    /\ UNCHANGED <<mapping, inbox, queue, processing_packages, storage, pool,
                   item, mark, loop, plan>>

\* The command line asks for the same package: its requirement prevails
Prevail ==
    /\ main = "scan"
    /\ Cardinality(requirements) = mark
    /\ was_directly_required(PkgOf[item.req])
    /\ main' = "drain"
    /\ item' = None
    /\ UNCHANGED <<mapping, inbox, queue, processing_packages, storage, pool, mark, loop, plan>>

Filed(r, parent) ==
    /\ requirements' = requirements \cup {r}
    /\ dependencies' = [dependencies EXCEPT ![r] = @ \cup {parent}]

Accept ==
    /\ main = "scan"
    /\ Cardinality(requirements) = mark
    /\ ~was_directly_required(PkgOf[item.req])
    /\ Filed(item.req, item.parent)
    /\ main' = "wheel"
    /\ UNCHANGED <<errors, wheels, repeated, built, inbox, queue, processing_packages,
                   storage, pool, item, mark, loop, plan>>

\* Files of the newest version in the index that satisfies r, in any format
IndexGet(r) ==
    LET compatible == {f \in storage : f.pkg = PkgOf[r] /\ f.ver \in Allows[r]}
    IN  {f \in compatible : \A g \in compatible : g.ver <= f.ver}

WheelsFor(r) == {f \in IndexGet(r) : f.fmt = "whl"}
SourcesFor(r) == {f \in IndexGet(r) : f.fmt # "whl"}

Put(s, r, f) == queue' = [queue EXCEPT ![s] = Append(@, [req |-> r, file |-> f])]

\* set_wheel: a wheel of ours goes straight to the dependencer
SetWheel ==
    /\ main = "wheel"
    /\ IF WheelsFor(item.req) # {}
       THEN /\ \E f \in WheelsFor(item.req) : Put("dependencer", item.req, f)
            /\ main' = "drain"
            /\ item' = None
       ELSE /\ main' = "tarball"
            /\ UNCHANGED <<queue, item>>
    /\ UNCHANGED <<mapping, inbox, processing_packages, storage, pool, mark, loop, plan>>

\* set_tarball, set_url or neither; the downloader notes every file it is given
SetTarball ==
    /\ main = "tarball"
    /\ SourcesFor(item.req) # {}
    /\ \E f \in SourcesFor(item.req) : Put("curdler", item.req, f)
    /\ main' = "drain"
    /\ item' = None
    /\ UNCHANGED <<mapping, inbox, processing_packages, storage, pool, mark, loop, plan>>

\* Mutant: set_url takes any requirement for a URL
AnyIsURL(r) == TRUE

is_url(r) == Link[r] # None

SetURL ==
    /\ main = "tarball"
    /\ SourcesFor(item.req) = {}
    /\ is_url(item.req)
    /\ processing_packages' = processing_packages \cup {Link[item.req]}
    /\ Put("downloader", item.req, Link[item.req])
    /\ main' = "drain"
    /\ item' = None
    /\ UNCHANGED <<mapping, inbox, storage, pool, mark, loop, plan>>

AskFinder ==
    /\ main = "tarball"
    /\ SourcesFor(item.req) = {}
    /\ ~is_url(item.req)
    /\ Put("finder", item.req, None)
    /\ main' = "drain"
    /\ item' = None
    /\ UNCHANGED <<mapping, inbox, processing_packages, storage, pool, mark, loop, plan>>

Handle == Drop \/ Look \/ Crash \/ Prevail \/ Accept
            \/ SetWheel \/ SetTarball \/ SetURL \/ AskFinder

-----------------------------------------------------------------------------
(* The main thread: is everything that was filed either built or failed? *)

\* queue.Empty leaves the inner loop
Empty ==
    /\ main = "drain" /\ inbox = <<>>
    /\ main' = "total"
    /\ UNCHANGED <<mapping, inbox, queue, processing_packages, storage, pool,
                   item, mark, loop, plan>>

ReadTotal ==
    /\ main = "total"
    /\ total' = Cardinality(requirements)
    /\ main' = "built"
    /\ UNCHANGED <<mapping, inbox, queue, processing_packages, storage, pool,
                   item, mark, nbuilt, plan>>

\* Mutant: requirements set aside count as built
BuiltOrRepeated == built + Cardinality(repeated)

Count == built

ReadBuilt ==
    /\ main = "built"
    /\ nbuilt' = Count
    /\ main' = "failed"
    /\ UNCHANGED <<mapping, inbox, queue, processing_packages, storage, pool,
                   item, mark, total, plan>>

\* Mutant: the progress is a share of what was built
ShareOfBuilt ==
    IF nbuilt = 0 /\ ~Quiet THEN "crashed"
    ELSE IF total = nbuilt + Cardinality(errors) THEN "load"
    ELSE "drain"

\* `failed' is read, the progress shown (it divides by the total), and the
\* three numbers compared
Verdict ==
    IF total = 0 /\ ~Quiet THEN "crashed"
    ELSE IF total = nbuilt + Cardinality(errors) THEN "load"
    ELSE "drain"

Decide ==
    /\ main = "failed"
    /\ main' = Verdict
    /\ total' = 0
    /\ nbuilt' = 0
    /\ UNCHANGED <<mapping, inbox, queue, processing_packages, storage, pool, item, mark, plan>>

\* load_installer reports an error: a conflict, or a package that is missing
Reported ==
    \/ \E p \in installable_packages : best_version(p) = {}
    \/ installable_packages # initially_required_packages /\ errors # {}

LoadInstaller ==
    /\ main = "load"
    /\ IF Reported
       THEN main' = "report" /\ UNCHANGED plan
       ELSE /\ main' = "install"
            /\ \E choice \in [installable_packages -> Built] :
                /\ \A p \in installable_packages : choice[p] \in best_version(p)
                /\ plan' = choice
    /\ UNCHANGED <<mapping, inbox, queue, processing_packages, storage, pool, item, mark, loop>>

Main == Handle \/ Empty \/ ReadTotal \/ ReadBuilt \/ Decide \/ LoadInstaller

-----------------------------------------------------------------------------
(* The workers: Service._worker around the handler of each service *)

At(w, s, where) == main # "crashed" /\ ServiceOf[w] = s /\ pc[w] = where

Rest(w) ==
    /\ pc' = [pc EXCEPT ![w] = "idle"]
    /\ job' = [job EXCEPT ![w] = None]

Take(w) ==
    LET s == ServiceOf[w] IN
    /\ At(w, s, "idle")
    /\ queue[s] # <<>>
    /\ queue' = [queue EXCEPT ![s] = Tail(@)]
    /\ job' = [job EXCEPT ![w] = Head(queue[s])]
    /\ pc' = [pc EXCEPT ![w] = "run"]
    /\ UNCHANGED <<mapping, inbox, processing_packages, storage, deps, reg,
                   main, item, mark, loop, plan>>

\* Mutant: one error per package
ErrorOfPackage(r) == errors' = {q \in errors : PkgOf[q] # PkgOf[r]} \cup {r}

Error(r) == errors' = errors \cup {r}

WheelOf(f) == [f EXCEPT !.fmt = "whl"]

\* What a handler that raises may have left in the index: the wheel of a build
\* whose clean-up failed
Leftover(w) ==
    IF ServiceOf[w] = "curdler" THEN {WheelOf(job[w].file)} ELSE {}

\* Any handler may raise, the dependencer's also half-way through its
\* dependencies; update_error_list remembers the requirement
Fail(w) ==
    /\ At(w, ServiceOf[w], "run") \/ At(w, "dependencer", "tell")
    /\ Error(job[w].req)
    /\ \E left \in SUBSET Leftover(w) : storage' = storage \cup left
    /\ deps' = [deps EXCEPT ![w] = <<>>]
    /\ Rest(w)
    /\ UNCHANGED <<requirements, dependencies, wheels, repeated, built, inbox, queue,
                   processing_packages, reg, main, item, mark, loop, plan>>

\* Finder.handle: the newest version the locators have
Found(r) ==
    LET matching == {f \in Remote : f.pkg = PkgOf[r] /\ f.ver \in Allows[r]}
    IN  {f \in matching : \A g \in matching : g.ver <= f.ver}

Find(w) ==
    /\ At(w, "finder", "run")
    /\ \E f \in Found(job[w].req) : job' = [job EXCEPT ![w].file = f]
    /\ pc' = [pc EXCEPT ![w] = "unique"]
    /\ UNCHANGED <<mapping, inbox, queue, processing_packages, storage, deps, reg,
                   main, item, mark, loop, plan>>

\* Mutant: the requirement stays filed
SetAsideOnly(r) ==
    /\ repeated' = repeated \cup {r}
    /\ UNCHANGED requirements

SetAside(r) ==
    /\ repeated' = repeated \cup {r}
    /\ requirements' = requirements \ {r}

\* Mutant: duplicates are told by their package
AwareOfPackage(f) == f.pkg \in initially_required_packages

\* Mutant: duplicates are not told at all
NeverAware(f) == FALSE

\* unique: is the downloader aware of a file of this name?
Aware(f) == f \in processing_packages

Unique(w) ==
    /\ At(w, "finder", "unique")
    /\ ~Aware(job[w].file)
    /\ pc' = [pc EXCEPT ![w] = "enqueue"]
    /\ UNCHANGED <<mapping, inbox, queue, processing_packages, storage, job, deps, reg,
                   main, item, mark, loop, plan>>

Repeat(w) ==
    /\ At(w, "finder", "unique")
    /\ Aware(job[w].file)
    /\ SetAside(job[w].req)
    /\ Rest(w)
    /\ UNCHANGED <<dependencies, errors, wheels, built, inbox, queue, processing_packages,
                   storage, deps, reg, main, item, mark, loop, plan>>

\* Downloader.queue
Enqueue(w) ==
    /\ At(w, "finder", "enqueue")
    /\ processing_packages' = processing_packages \cup {job[w].file}
    /\ Put("downloader", job[w].req, job[w].file)
    /\ Rest(w)
    /\ UNCHANGED <<mapping, inbox, storage, deps, reg, main, item, mark, loop, plan>>

\* Downloader.handle: a file goes to the index, a checkout to a directory
Download(w) ==
    /\ At(w, "downloader", "run")
    /\ storage' = IF job[w].file.fmt = "dir" THEN storage ELSE storage \cup {job[w].file}
    /\ pc' = [pc EXCEPT ![w] = "emit"]
    /\ UNCHANGED <<mapping, inbox, queue, processing_packages, job, deps, reg,
                   main, item, mark, loop, plan>>

\* Curdler.handle: build a wheel and file it in the index
Curdle(w) ==
    /\ At(w, "curdler", "run")
    /\ job' = [job EXCEPT ![w].file = WheelOf(@)]
    /\ storage' = storage \cup {WheelOf(job[w].file)}
    /\ pc' = [pc EXCEPT ![w] = "emit"]
    /\ UNCHANGED <<mapping, inbox, queue, processing_packages, deps, reg,
                   main, item, mark, loop, plan>>

NextService(f) == IF f.fmt = "whl" THEN "dependencer" ELSE "curdler"

\* The signal `finished' of the downloader and of the curdler
Emit(w) ==
    /\ At(w, ServiceOf[w], "emit")
    /\ Put(NextService(job[w].file), job[w].req, job[w].file)
    /\ Rest(w)
    /\ UNCHANGED <<mapping, inbox, processing_packages, storage, deps, reg,
                   main, item, mark, loop, plan>>

\* Dependencer.handle reads the wheel's metadata ...
Inspect(w) ==
    /\ At(w, "dependencer", "run")
    /\ deps' = [deps EXCEPT ![w] = Requires[job[w].req][job[w].file.ver]]
    /\ pc' = [pc EXCEPT ![w] = "tell"]
    /\ UNCHANGED <<mapping, inbox, queue, processing_packages, storage, job, reg,
                   main, item, mark, loop, plan>>

\* ... and tells the main thread of each dependency
Tell(w) ==
    /\ At(w, "dependencer", "tell")
    /\ deps[w] # <<>>
    /\ inbox' = Append(inbox, [req |-> Head(deps[w]), parent |-> job[w].req])
    /\ deps' = [deps EXCEPT ![w] = Tail(@)]
    /\ UNCHANGED <<mapping, queue, processing_packages, storage, pc, job, reg,
                   main, item, mark, loop, plan>>

\* queue_install, the first callback of the dependencer's `finished'
QueueInstall(w) ==
    /\ At(w, "dependencer", "tell")
    /\ deps[w] = <<>>
    /\ wheels' = [wheels EXCEPT ![job[w].req] = job[w].file]
    /\ pc' = [pc EXCEPT ![w] = "count"]
    /\ UNCHANGED <<requirements, dependencies, errors, repeated, built, inbox, queue,
                   processing_packages, storage, job, deps, reg, main, item, mark, loop, plan>>

\* update_count, the second: stats[name] += 1 is a read and a write
CountRead(w) ==
    /\ At(w, "dependencer", "count")
    /\ reg' = [reg EXCEPT ![w] = built]
    /\ pc' = [pc EXCEPT ![w] = "store"]
    /\ UNCHANGED <<mapping, inbox, queue, processing_packages, storage, job, deps,
                   main, item, mark, loop, plan>>

CountStore(w) ==
    /\ At(w, "dependencer", "store")
    /\ built' = reg[w] + 1
    /\ reg' = [reg EXCEPT ![w] = 0]
    /\ Rest(w)
    /\ UNCHANGED <<requirements, dependencies, errors, wheels, repeated, inbox, queue,
                   processing_packages, storage, deps, main, item, mark, loop, plan>>

Work(w) ==
    \/ Take(w) \/ Fail(w)
    \/ Find(w) \/ Unique(w) \/ Repeat(w) \/ Enqueue(w)
    \/ Download(w) \/ Curdle(w) \/ Emit(w)
    \/ Inspect(w) \/ Tell(w) \/ QueueInstall(w) \/ CountRead(w) \/ CountStore(w)

-----------------------------------------------------------------------------
\* Nothing is left to do: the main thread has moved on, or died
Terminated == main \in Ended /\ UNCHANGED vars

Next == Main \/ (\E w \in Worker : Work(w)) \/ Terminated

Spec == Init /\ [][Next]_vars

(***************************************************************************)
(* The operating system runs every thread: none stays able to take a step  *)
(* for ever without taking one.                                            *)
(***************************************************************************)
FairSpec == Spec /\ WF_vars(Main) /\ \A w \in Worker : WF_vars(Work(w))

-----------------------------------------------------------------------------
(* Where a requirement can be *)

Holders == {w \in Worker : pc[w] \in {"run", "unique", "enqueue", "emit", "tell"}}

Counting == {w \in Worker : pc[w] \in {"count", "store"}}

Settled == Built \cup errors

Pending == requirements \ Settled

AtMain == main \in {"wheel", "tarball"}

InFlight ==
    (UNION {{queue[s][i].req : i \in DOMAIN queue[s]} : s \in Service})
        \cup {job[w].req : w \in Holders}
        \cup (IF AtMain THEN {item.req} ELSE {})

(***************************************************************************)
(* A requirement the pipeline works on is filed, has no result yet, and is *)
(* worked on in one place only: the filter for duplicates (install.py:172) *)
(* holds although the dependencer asks for the same requirement many times *)
(* and the finder takes requirements out of the set.  Nothing is built     *)
(* twice, and nothing both fails and succeeds.                             *)
(***************************************************************************)
OnePlace ==
    /\ Settled \subseteq requirements
    /\ Built \cap errors = {}
    /\ \A s \in Service : \A i \in DOMAIN queue[s] : queue[s][i].req \in Pending
    /\ \A w \in Holders : job[w].req \in Pending
    /\ AtMain => item.req \in Pending
    /\ \A s, t \in Service : \A i \in DOMAIN queue[s], j \in DOMAIN queue[t] :
            queue[s][i].req = queue[t][j].req => s = t /\ i = j
    /\ \A v, w \in Holders : job[v].req = job[w].req => v = w
    /\ \A w \in Holders, s \in Service : \A i \in DOMAIN queue[s] :
            job[w].req # queue[s][i].req
    /\ AtMain =>
        /\ \A s \in Service : \A i \in DOMAIN queue[s] : item.req # queue[s][i].req
        /\ \A w \in Holders : item.req # job[w].req

(***************************************************************************)
(* No filed requirement gets lost between two services: it has a result or *)
(* something still works on it.                                            *)
(***************************************************************************)
NothingLost == Pending \subseteq InFlight

(***************************************************************************)
(* The counter of wheels never runs ahead of the wheels that are recorded, *)
(* although threads add to it without a lock (install.py:129), and what    *)
(* the main thread remembers of the two while it compares them errs on the *)
(* side of waiting.                                                        *)
(***************************************************************************)
Accounting ==
    /\ built + Cardinality(Counting) <= Cardinality(Built)
    /\ \A w \in Counting :
        pc[w] = "store" => reg[w] + Cardinality(Counting) <= Cardinality(Built)
    /\ main \in {"built", "failed"} => Cardinality(requirements) <= total
    /\ main = "failed" => nbuilt + Cardinality(Counting) <= Cardinality(Built)

\* Only the main thread files requirements
Scanning == main = "scan" => item.req \notin requirements

(***************************************************************************)
(* When the loop of retrieve_and_build breaks (install.py:252), every      *)
(* filed requirement has its result and every service is idle, although    *)
(* the three numbers were read one after the other while workers ran and   *)
(* lost updates make the counter fall behind.                              *)
(***************************************************************************)
QuietOnLoad ==
    main \in {"load", "install", "report"} =>
        /\ requirements = Settled
        /\ \A s \in Service : queue[s] = <<>>
        /\ \A w \in Worker : pc[w] = "idle"

(***************************************************************************)
(* The pipeline implements the life cycle of requirements that Lifecycle   *)
(* describes: one result each, and an end only after all the results.      *)
(***************************************************************************)
L == INSTANCE Lifecycle WITH
        filed <- requirements,
        done <- Built,
        failed <- errors,
        over <- main \in {"load", "install", "report"}

LifecycleSpec == L!Spec

(***************************************************************************)
(* A requirement set aside by `unique' (install.py:65) is not forgotten:   *)
(* by the end another one brought a file of its package, or failed to.     *)
(***************************************************************************)
Serves(q, r) == q \in errors \/ (q \in Built /\ wheels[q].pkg = PkgOf[r])

RepeatedServed ==
    main \in {"load", "install"} =>
        \A r \in repeated : \E q \in requirements : Serves(q, r)

(***************************************************************************)
(* Only two things kill the main thread: a finder that sets a requirement  *)
(* aside under its iteration (mapping.py:64), and a progress bar for no    *)
(* requirement at all (tool/__init__.py:127).  With nothing set aside, a   *)
(* run that files a requirement always gets to load_installer.             *)
(***************************************************************************)
OnlyRepeatsCrash ==
    main = "crashed" => repeated # {} \/ (requirements = {} /\ ~Quiet)

(***************************************************************************)
(* load_installer (install.py:193-227) lets a failure through in one case  *)
(* only: the command line asks for a package, a finder sets that           *)
(* requirement aside, and it comes back as a dependency.  Otherwise        *)
(* nothing is installed unless everything filed could be built, not even   *)
(* when another requirement of the package that failed was built.          *)
(***************************************************************************)
CleanInstall ==
    main = "install" /\ errors # {} => \E r \in repeated : None \in dependencies[r]

(***************************************************************************)
(* "Curdling will always prefer the primary requirements" (usage.rst:121): *)
(* what is installed of a package the command line names is the version    *)
(* found for the command line's requirement, whatever other packages say.  *)
(***************************************************************************)
PrimaryWins ==
    main = "install" =>
        \A r \in requirements : None \in dependencies[r] =>
            /\ PkgOf[r] \in DOMAIN plan
            /\ wheels[plan[PkgOf[r]]].ver = wheels[r].ver

(***************************************************************************)
(* When installation starts and no message is left in the inbox, every     *)
(* dependency of every wheel was dealt with: blacklisted, filed, set       *)
(* aside, or overruled by the command line.                                *)
(***************************************************************************)
DealtWith(d) ==
    \/ PkgOf[d] \in Blacklist
    \/ d \in requirements \cup repeated
    \/ \E q \in Requirement : PkgOf[q] = PkgOf[d] /\ None \in dependencies[q]

ClosureOnInstall ==
    main = "install" /\ inbox = <<>> =>
        \A r \in Built : LET ds == Requires[r][wheels[r].ver] IN
            \A i \in DOMAIN ds : DealtWith(ds[i])

(***************************************************************************)
(* Every run of retrieve_and_build comes to an end, with something to      *)
(* install, a report or an exception.  It needs a dependencer pool of one  *)
(* (p(1) below 16 CPUs): two lose updates of the counter.                  *)
(***************************************************************************)
Termination == <>(main \in Ended)

-----------------------------------------------------------------------------
(* What the documentation says, and the code does not do *)

(***************************************************************************)
(* "All the packages and its dependencies are going to be installed"       *)
(* (usage.rst:55): installation starts with no dependency unread.          *)
(***************************************************************************)
NothingForgotten == main = "install" => inbox = <<>>

(***************************************************************************)
(* A version is chosen that suits all the requirements of its package      *)
(* (mapping.py:122), unless the command line overrules them.               *)
(***************************************************************************)
EveryRequestMet ==
    main = "install" =>
        \A r \in Requirement, p \in DOMAIN plan :
            dependencies[r] # {} /\ PkgOf[r] = p /\ ~was_directly_required(p)
                => wheels[plan[p]].ver \in Allows[r]

(***************************************************************************)
(* "The Installer service will not be started until everything is checked" *)
(* (install.py:213): what install counts as failures is its own.           *)
(***************************************************************************)
EverythingChecked == main = "install" => errors = {}

(***************************************************************************)
(* "The Downloader does not download duplicated items"                     *)
(* (design-and-implementation.rst:110).                                    *)
(***************************************************************************)
NoDuplicateDownload ==
    \A w \in Worker : pc[w] = "enqueue" => job[w].file \notin processing_packages
=============================================================================
