# A verification of curdling

`curd install` finds, downloads, builds and installs Python packages with a pipeline of thread pools that share
a handful of unlocked Python objects. This directory models that program in TLA+, checks the models with TLC on
small instances, and proves its safety properties, for any number of threads, clients and servers and any index, with TLAPS.

File and line references are to the repository (`src/curdling/...`, `docs/...`).

## 1. The system

| Part | Code | State it keeps | Operations |
|---|---|---|---|
| Retrieve and Build | `install.py` | inbox of requirements (`Install._queue`), the `Mapping` | `handle`, `retrieve_and_build`, `load_installer`; callbacks `unique`, `only`, `queue_install`, `update_count`, `update_error_list` |
| Mapping | `mapping.py` | `requirements`, `dependencies`, `stats`, `errors`, `wheels`, `repeated` | queries by package, `best_version` |
| Service threads | `services/base.py` | one queue per service, daemon threads | `queue`, `start`, `_worker`, `join` |
| Finder, Downloader, Curdler, Dependencer | `services/*.py` | `processing_packages` (Downloader) | one `handle` each |
| Locators | `services/downloader.py` | listings and links remembered (`_cache`, `_seen`), `requirements_not_found` | `locate`, `_get_project` of each locator, redirections |
| Install and upload | `install.py:264-313`, `installer.py`, `uploader.py` | the counters and errors of the mapping, site-packages, the servers | `install`, `load_uploader`, `upload`, `run` |
| Index | `index.py` | files in a directory, a table of them in memory | `scan`, `from_data`, `from_file`, `get` |
| Cache server | `web/__init__.py` | an `Index` | listing, upload, download; HTTP authentication |
| Uninstall | `uninstall.py`, `database.py` | the distributions in site-packages | `request_uninstall`, `run`, `Database.uninstall` |
| Command line | `tool/__init__.py`, `util.py`, `freeze.py` | what was asked for, the exit status | `main`, the three commands, `expand_requirements`, `Freeze.run` |
| Wheel names, exceptions, logging | `wheel.py`, `exceptions.py`, ... | none | |

**How they interact.** The main thread takes requirements out of its inbox and hands each to the service that
fits (a cached wheel to the dependencer, a cached source archive to the curdler, a URL to the downloader, the rest
to the finder). A worker takes a task from the queue of its service, runs the handler, and then calls the callbacks
connected to `finished` or `failed`: they put the result in the queue of the next service, record wheels and
errors, and count. The dependencer puts dependencies back into the inbox. The main thread never waits on anything:
it compares `len(requirements)` with `stats['dependencer'] + errors` until they agree, and `install` and `upload`
do the same with other counters. The finder's threads ask the cache servers and then the indexes, through locators that
all of them share; what a server did not have is what `upload` sends it in the end, for the next client.

**What is hard.** Nothing locks the mapping. The three numbers are read one after the other while workers change
them; `stats[name] += 1` can lose updates; `unique` removes requirements from the set the main thread filters
duplicates with (and iterates over); the check for duplicate downloads and the note of the file are two steps;
requirements are cyclic; any handler may fail, the dependencer half-way through its list. The locators' memory is shared by
searches of different packages and is never emptied; a server that did not answer looks like one that has
nothing, for the rest of the run; a redirection that does not end is not caught. Two clients upload the same wheel, a server
restarts. `Ctrl-C` ends the daemon threads in the middle of a write or of a removal, and the next run trusts what it finds on disk.
`PROJECT.json` lists these hazards at their lines with the properties that watch them.

**What makes it correct.** A filed requirement has exactly one result or is set aside, is worked on in one place, and
is not lost between services; the phase ends, and only when all is quiet; nothing is installed after a failure; the
version installed suits the requirements, the command line's first; the finder overlooks nothing newer and asks the servers
first; exit status 0 means everything is installed and sent; what the index answers is a whole file; between commands a
distribution is there with all its files or not at all.

## 2. The modules

| Module | What it is |
|---|---|
| `Mapping` | `mapping.py`: the variables and the queries, `best_version` included |
| `RetrieveAndBuild` | extends `Mapping`: the main thread, the queues and the workers of the four services |
| `Lifecycle` | the abstract specification: requirements are filed, set aside, finished or failed, and the phase ends |
| `Deploy` | `Install.install`, `upload` and `run` with the installer and uploader threads |
| `Index` | `index.py` with its files, table, threads and interruptions; also what the cache server does with it |
| `Locators` | the search of a finder thread: cache servers, index pages, home pages, redirections, and the memory threads share |
| `CacheServer` | extends `Locators`: clients from `curd install` to their exit, the servers they search and upload to, authentication, restarts |
| `SitePackages` | installed distributions file by file: what distlib writes, `Database.uninstall` removes, and a failure or `Ctrl-C` leaves |
| `CommandLine` | extends `SitePackages`: `curd install`, `uninstall` and `freeze` from the arguments to the exit status, one after the other |
| `RetrieveAndBuildProofs`, `FateProofs` | the theorems about `RetrieveAndBuild`: its counters and its refinement; then, on top of them, what becomes of each requirement and which version is chosen |
| `DeployProofs`, `IndexProofs` | the theorems about `Deploy` and `Index` |
| `RecursionProofs` | induction and primitive recursion, on numbers and along sequences, for the recursive functions of the models |
| `CommandLineProofs` | lemmas about the files of distributions, and on top of them the theorems about `CommandLine` |
| `CacheServerProofs` | the theorems about `CacheServer` and what `Locators` keeps in memory |
| `LocatorsProofs` | on top of them, that a search overlooks nothing |
| `MCRetrieveAndBuild`, `MCDeploy`, `MCIndex`, `MCCacheServer`, `MCCommandLine` | small values of the constants for TLC |

The same program is looked at in parts, and where one part ends another begins:

- `Deploy` starts where `RetrieveAndBuild` ends: `packages` is the domain of its `plan`, its queue is what `load_installer`
  queued. By `CleanInstall` an error is on record then in one case only, and `EverythingChecked` shows that the case
  exists. So `Deploy` starts with up to `MaxLeftover` of them.
- `IndexGet` in `RetrieveAndBuild` is the atomic view of `get` that `Index` takes apart, and `Find` there chooses a file in
  one step where `Locators` searches.
- `CacheServer` has the whole run of a client with the middle left out: what the services do with a requirement that was found
  is `Download`, since `RetrieveAndBuild` has it. In the same way `CommandLine` leaves the pipeline to `Retrieve`.
  `RetrieveAndBuild` and `Deploy` say when that step may succeed.

### How state and actions correspond to the code

*Retrieve and Build.*
- `requirements`, `dependencies`, `errors`, `wheels`, `repeated` are the attributes of `Mapping` (`errors` the set of
  requirements that have one; `wheels` a function that is `None` where the dictionary has no key). `built` is
  `stats['dependencer']`, the only counter of this phase that decides anything: the others are shown to the user only.
- `inbox` is `Install._queue`, `queue[s]` the queue of service `s`.
- `main` is the program counter of the main thread. `handle` is `Drop`, or `Look` followed by `Crash`, `Prevail` or `Accept`
  and then by the choice of a service: the set is iterated over between `Look` and the next step (`mapping.py:64`), and the
  look-ups in the index come after the requirement is filed. The end of an iteration is `Empty`, `ReadTotal`, `ReadBuilt`,
  `Decide`: one step for each number that is read.
- `pc[w]` and `job[w]` are a worker and its `sender_data`. Between `run` and `idle` each access to shared state is an action:
  `unique` and `enqueue` for the two halves of the finder's `finished` callback, `emit` for the downloader's and the
  curdler's, `tell`, `count` and `store` for the dependencer's handler and callbacks.
- `Fail` is the `except` branch of `_worker`, with `update_error_list`. It is enabled wherever a handler runs.

*Deploy.* `main` goes through `install`'s loop (`start`, `installed`, `failed`), the `finished` signal, the gate of `run`, `load_uploader`
and the loop of `upload`; a counter is read and written in two steps (`CountRead`, `CountStore`).

*Index.* A writer is at `write` while its file is open and at `index` until it is in the table. A reader's `look` is the iteration of
`get`, `open` the time until the file is read. `Interrupt` is the end of the process, by Ctrl-C or because
it is done, and `Scan` the next start. `failed` is a history variable: the files whose name turned out to be none after they were written.

*Locators and CacheServer.* `known` is `_cache` of distlib's locators, `seen` the `_seen` of a scraper, `answer` what became of a search. `pc` of a
thread: `ask` before a locator, `page` before a spelling of the name, `links` in the list of a page, `visit` between the test of
`_seen` and the addition to it, `learn` before `_cache` is written. A home page is expanded in place, up to an `EndOfPage`, the
recursion being one level deep. `served` is the table of each server; a request is one step, since gevent does not switch inside one.
`Authenticated` is `HtPasswd.load` and `auth`.

*SitePackages and CommandLine.* `left[d]` is what is left of the files of a distribution in the order of its RECORD. `stack`
has the lines left in the files being expanded. `Retrieve` picks a distribution for every package asked for, or fails; it and
`handle_install_exit` stand for the end of the two loops of `install`.

### What is abstracted

- Requirements, packages and files are values. A requirement stands for its normal form (`safe_name`), a version for a
  number, and a constraint for the set of versions it allows. A URL is a package of its own, as in `parse_requirement`. In
  `CommandLine`, where the difference matters, the normal form is the constant `Safe`.
- What indexes have, a link and a wheel's metadata do not change during a run (`Remote`, `Link`, `Links`, `Requires`). What servers have does.
- `Index.get` is one step in `RetrieveAndBuild` and answers any file of the newest suitable version; `Index` has the rest.
- `load_installer` is one step: `QuietOnLoad` shows that no other thread is at work by then, and it is proved.
- A read of `failed` is one step. On Python 3 the iteration in it may raise; on Python 2 `values()` is a copy.
- Workers take tasks in the order of the queue; sleeping (`time.sleep(0.5)`) is the fact that nothing forces a step.
- A page is the sequence of its links; HTML, HTTP status other than an answer or none, and checksums are left out. The threads that
  distlib starts for a scraper are left out: `PyPiLocator` overrides the method that used them.
- distlib is external: which files `Wheel.install` writes, in which order, and what `rollback` takes back are taken from
  what `installer.py` and `database.py` rely on.

## 3. Runs

`tlc -workers 2 -config <run>.cfg <module>` repeats any of them.

| Run | Expect | What it shows |
|---|---|---|
| `rb` | pass | the safety invariants of Retrieve and Build and its refinement of `Lifecycle` |
| `rb_live` | pass | `Termination`, `NoDuplicateDownload` and `PrimaryWins` with the pools of a small machine |
| `early_exit` | violation of `NothingForgotten` | a dependency may be left in the inbox, neither filed nor installed |
| `constraint` | violation of `EveryRequestMet` | a requirement set aside loses its vote on the version |
| `duplicate` | violation of `NoDuplicateDownload` | two finder threads download the same file |
| `leftover` | violation of `EverythingChecked` | the installer starts with a failure of Retrieve and Build on record |
| `deploy` | pass | meaning of exit status 0; order of installing and uploading; what alone can keep the program from ending |
| `upload_hang` | violation of `ReachesExit` | a skipped or failed upload is waited for for ever |
| `index` | pass | only whole files are served, none is forgotten, through interruptions and restarts |
| `poisoned` | violation of `StartsAgain` | a download that failed of its file's name keeps every later process from starting: `scan` raises on the file it left |
| `cache` | pass | what a finder finds and asks; what clients leave on the servers; that neither pages nor servers keep a client from ending, but for a lost upload |
| `curd` | pass | what is left of the distributions after each command, what its exit status means, and that commands end, but for the loops of `install` |

The findings in `PROJECT.json` quote, for each violation, what the documentation or a comment says.

Several of the passing properties are as strong as the code allows and no stronger; their exceptions are worth reading:

- `OnlyRepeatsCrash`: the main thread dies when a finder sets a requirement aside under its iteration, and when the progress bar divides by
  a total of 0. Nothing else kills it.
- `EndsUnlessShort`: a lost update of a counter, a failure too many, a failed upload, a conflict in `load_uploader`.
- `FindsTheBest`: an archive may be overlooked once it was looked at in the search of another package (`_seen`), when two threads fetch the
  pages of one package at once, or when a server did not answer.
- `AnswerStays`: uploads never change what clients are told of a version; a restart may, as `os.listdir` has its own order. A wheel that is
  uploaded twice is listed twice, behind the first.
- `ClientEnds`: as far as pages and servers go, a client waits for ever only for an upload that a server did not answer. `Send` counts in one step, so
  what lost updates of counters do to the same client is not in there: that is `Termination`'s and `EndsUnlessShort`'s.
- `ReadsAll`: a command raises when a file it includes is not there, or includes go deeper than Python's limit (as those of a file that includes itself);
  and `uninstall -r` always raises, unless its file is empty.
- `CommandEnds`: `uninstall` and `freeze` end, and reading ends whatever files include; an `install` ends or comes to one of its loops, `install.py:252` and
  `271`, which a lost update or an error left over may keep from ending (`Termination`, `EndsUnlessShort`).
- `FreezeTells`: not of a file that another one of its name in the working directory stands in for, and not of the second names of a statement.
- `WholeOrGone`, `Removed`, `CrashExplained`: distributions that share a file, two versions of one package, names spelled with `_`, an earlier interruption.

### Other disagreements with the documentation

The models have these as the code does them; the exceptions above say where they show.

- `curd uninstall -r FILE` dies of an `AttributeError` unless the file is empty: the `-r` of `uninstall` has no `action='append'` (`tool/__init__.py:68`), so
  `get_packages_from_args` (`:101-102`) iterates over the lines of the one file and `expand_requirements` calls `read()` on a line. `docs/usage.rst:174-177` describes the
  option as that of `install`, to be repeated as many times as needed; of a repeated one only the last file is kept. In `CommandLine` this is `UninstallFile`, and `ReadsAll` says
  that it happens whenever the file is not empty.
- `web_upload` is called idempotent and "smart enough to not save things we already have" (`web/__init__.py:134-135`); `from_data` writes the file again and
  `index` appends it once more. In `CacheServer` this is `Stored`; a client that missed a package twice, for two requirements, sends its wheel twice.
- `curd freeze ROOT_PATH` opens the files it finds under `root_path` relative to the working directory (`freeze.py:92,108`), so it dies of a file that is not there or reads
  a namesake; and of `import a, b` it sees `a` only (`freeze.py:32`). `tool/__init__.py:80-83` promises all the dependencies of the codebase at that path.
- `curd uninstall` ignores versions: `request_uninstall` keeps the name of a requirement (`uninstall.py:34-35`), `docs/usage.rst:179` has the format of `install`.

### Instances and bounds

- `rb`: two finder and two dependencer threads, one downloader and one curdler (the two pools that share state with the main
  thread beyond a queue have two threads, which is what 16 processors give); packages `a` and `b` in a cycle, two
  requirements of `b` that lead to one file and a third equal one, a blacklisted dependency, a URL for the same package,
  one cached wheel; three command lines. Threads of one pool are interchangeable, hence the symmetry. Every pair
  of steps that can interfere occurs: two finders on one file, a finder and the main thread, two dependencers on the counter.
- `rb_live`: one finder, one downloader, two curdlers, one dependencer, what `p(n)` gives for 4 to 7 processors; three
  requirements of `b` that no version meets; no symmetry, because a liveness property is checked.
- `duplicate`, `early_exit`, `constraint`, `leftover`: the same instances with the command line that shows the case.
- `deploy`: two threads per service, up to three packages, one server that misses two, `MaxLeftover` = 1 error of the phase before;
  `upload_hang`: one thread per service and no such error.
- `index`: two writers, one reader, three named files of two versions and one whose name has none, `MaxRestarts` = 1
  end of the process and new start, `MaxCopies` = 2 writes of each file under one process. Two writers are enough for every race on a file, and
  one restart for every effect of an interruption, since nothing but the disk outlives it. `poisoned` is the same instance.
- `cache`: two clients of two platforms, the first with two finder threads; two servers, one of them with a password file that lets only
  the first client in; one index whose pages refer and redirect to each other, and for ever in two cases; six runs, in which the clients
  want the same package, different ones, conflicting versions, or have some wheels already. `MaxFaults` = 1 restart or missing
  answer, of the first server or the index (`Flaky`), `REDIRECT_LIMIT` = 2 instead of 20: what matters is whether the end of the
  redirections comes before it.
- `curd`: `MaxCommands` = 2, since what one command leaves on disk is all that another sees; four distributions, among them two versions of a package
  and two pairs that share a file; requirements files that include another, each other, an absent one; `MaxFaults` = 1 file that can not be written or
  removed; `RecursionLimit` = 3 for Python's limit of nested calls, one more than the deepest sensible include;
  three directories: the user's, one with a file that the user's lacks, and a copy of the user's with one file changed.

No state constraint is used: apart from the bounds named here the instances are finite because requirements are filed once. `index`,
`cache` and `curd`, and the runs on their instances, do not check for deadlock, because their systems may come to rest: writes used up, a scan that
raised, clients done, a user who types nothing more.

### Fairness

- `RetrieveAndBuild` and `Deploy`: `FairSpec` asks weak fairness of the main thread and of every worker thread: the operating system runs each of them. Every
  worker blocks only on an empty queue, and the main thread never blocks, so nothing stronger is needed.
  `Termination` needs the dependencer's pool to be one thread, which holds below 16 processors. With more, two threads may lose an
  update of `built` and the loop never ends. For `Deploy` `EndsUnlessShort` states it for any pool.
- `CacheServer`: weak fairness of each client's main thread and of each finder thread. A server is only asked, so it needs none, and a restart is never
  forced. Fairness of a thread does not choose among its steps: a download may fail each time it may.
- `CommandLine`: weak fairness of `Progress`, the steps that wait for nothing. `Retrieve` and `handle_install_exit` are left out: each is the end of a loop that
  waits for counters, and these may never agree. Nobody has to type a command or interrupt one.

`Index` promises nothing about progress by itself.

## 4. Proofs

`tlapm <module>.tla` checks each of the eight modules. What they assume is what the models assume of their constants:

- `MappingAssumption`, `PipelineAssumption`, `DeployAssumption`, `IndexAssumption`: types, and finite sets of requirements (a run meets
  finitely many), packages, file names, versions and threads.
- `SitePackagesAssumption`, `CommandLineAssumption`: a distribution has finitely many files, those of its `.dist-info` are its own, and no two have
  the same METADATA or RECORD; `safe_name` of a safe name is itself; a line of a requirements file is blank, a name or an include, and no two of
  these; a command has the arguments its parser lets through.
- `LocatorsAssumption`, `CacheServerAssumption`: archives and versions are finitely many, an archive is not a page, `None` is none of
  the archives, pages, locators and listings, a wheel is named for what it holds, and a server lets in whom its password file lets in.

Nothing is assumed of how many there are, of what an index, a page or a requirements file contains, how pages refer and redirect or files include, or of which distributions share files.

| Module | Theorem | Says |
|---|---|---|
| `RetrieveAndBuildProofs` | `TypeCorrect` | `Spec => []TypeOK` |
| | `WorkedOnOnce` | `Spec => []OnePlace` |
| | `CounterBehind` | `Spec => []Accounting` |
| | `QuietWhenDone` | `Spec => []QuietOnLoad` |
| | `ImplementsLifecycle` | `Spec => LifecycleSpec` |
| `FateProofs` | `DiesOfRepeatsOnly` | `Spec => []OnlyRepeatsCrash` |
| | `NoneLost` | `Spec => []NothingLost` |
| | `RepeatsServed` | `Spec => []RepeatedServed` |
| | `OneFinderDownloadsOnce` | `Spec => []NoDuplicateDownload`, of one finder thread, when nobody asks for a URL |
| | `CommandLineWins` | `Spec => []PrimaryWins` |
| | `InstallsCleanly` | `Spec => []CleanInstall` |
| | `DependenciesDealtWith` | `Spec => []ClosureOnInstall` |
| `DeployProofs` | `TypeCorrect` | `Spec => []TypeOK` |
| | `SettlesInstalls` | `Spec => []InstallSettled` |
| | `SucceedsTruly` | `Spec => []TrueSuccess` |
| | `InstallsFirst` | `Spec => []InstalledBeforeUploaded` |
| `IndexProofs` | `TypeCorrect` | `Spec => []TypeOK` |
| | `ServesWholeFiles` | `Spec => []OnlyWholeServed` |
| | `ForgetsNone` | `Spec => []NoneForgotten` |
| `CommandLineProofs` | `Controlled` | `Spec => [](Control /\ SiteThere)`, the invariant of the rest |
| | `Typed` | `Spec => []TypeOK` |
| | `AllOrNothing` | `Spec => []WholeOrGone` |
| | `BrokenStays` | `Spec => []StaysBroken` |
| | `AllIsRead` | `Spec => []ReadsAll` |
| | `ExitIsTrue` | `Spec => []TrueExit` |
| | `AllRemoved` | `Spec => []Removed` |
| | `CrashesExplained` | `Spec => []CrashExplained` |
| | `FreezeIsComplete` | `Spec => []FreezeTells` |
| `CacheServerProofs` | `CacheSound` | `Spec => []CacheInv`, the invariant of the rest |
| | `Typed` | `Spec => []TypeOK` |
| | `UploadsDisturbNobody` | `Spec => AnswerStays` |
| | `MissesMadeGood` | `Spec => []WarmsUp` |
| | `ServersComeFirst` | `Spec => []ServersFirst` |
| `LocatorsProofs` | `NothingOverlooked` | `Spec => []FindsTheBest` |

**Retrieve and Build** rests on `Inv`: `TypeOK`, `OnePlace`, `Scanning`, `Accounting` and `QuietOnLoad`.
`QuietOnLoad` says that when the main thread finds `total = built + failed`, everything is finished. It is not inductive by itself: the
three numbers were read at three different moments. `Accounting` is what is needed about them. The counter never exceeds the wheels recorded, less those
that are yet to be counted, since a wheel is recorded before it is counted and a lost update only makes the counter smaller; and
`requirements` cannot have grown since `total` was read, because only the main thread adds to it. So `total = nbuilt + |errors|`, with
`|Built| + |errors| <= |requirements| <= total`, leaves no room for a requirement without a result, or for a worker
that still has to count. That argument needs wheels and errors to be disjoint and to belong to filed requirements, which is
`OnePlace`, and `OnePlace` needs `Scanning`: the requirement the main thread is about to file is not filed already,
although a finder may have removed it in the meantime.

The lemmas follow the same order: types of each action; what `Put`, `Take` and `Rest` do to the places a requirement can be in (`PutFacts`, `Enters`,
`Stays`, `Leaves`); the arithmetic (`Sizes`, `NumbersAgree`); one lemma per conjunct. `ImplementsLifecycle` maps each action to a step of
`Lifecycle` or to a stutter: `Accept` files, `Repeat` sets aside, `QueueInstall` finishes, `Fail` fails, the last `Decide` ends.

**Fate.** `NothingLost` is inductive once it is known where a requirement may be (`InFlightMeans`) and that a step moves one of them. `OnlyRepeatsCrash` needs
`Counted`: as long as nothing is set aside, what the main thread counted is still there. `RepeatedServed` needs `Serving`, about every file the downloader was given
and every requirement set aside: a filed requirement carries the file, has built it, or has failed. Two facts make it hold although requirements are
removed: what the finder hands to `unique` is of the package asked for, and the one whose file is noted is not the one that is removed.

**Choice.** `PrimaryWins` needs `OnePrimary` (a package has one filed requirement of the command line) and that a failure leaves a package without a compatible
version, because the failed requirement never votes (`FailureConflicts`, an argument about cardinalities). `CleanInstall` needs `FilingOrder`: requirements of the command line
come out of the inbox before any dependency, so that a package that has one of them filed has no other requirement filed, unless one of them was set aside (`Alone`). `ClosureOnInstall` needs
`Closing`: each dependency of a wheel whose dependencer has finished was announced, and what was announced is in the inbox, in the main thread's hand, or dealt with.

**Deploy** proves both loops with one argument. The number of tasks, `Open`, together with errors and counter never exceeds the packages (`Slack`), although the counter
may fall behind: so when the loop finds them equal, nothing is open and, as no package is forgotten (`PackagesKept`), each has its result. For `upload` the sum (`Room`) with what is still
to be queued errs to the same side, but a failed upload leaves the sum short for ever. Equality therefore means that none failed (`MissingKept`).

**Index** needs that whatever is in the table, in a writer's hand or in a reader's is on the disk (`Backed`), that a part of a file is explained (`PartsExplained`),
and that scan lists every file (`ListsAll`): an injection from `1 .. n` to `n` files misses none.

**Uninstall and the command line.** What a distribution has on disk is a matter of single files, so the invariant `SiteInv` is about them: `left[d]` is
a rest of RECORD (`IsRest`), what precedes it is on disk while `d` is installed (`Installing`) and off it while `d` is removed (`Removing`). `Kept` is
`WholeOrGone` at any moment but during a removal, with the files two distributions share accounted for (`Left`); during a removal `KeptBut` lets go of those that share a file with the
one removed. `CommandLineProofs` has a lemma for each step of a distribution, then one for each group of actions of a command. The
properties of one command rest on what holds along it:
`BrokenThere` (the file that is missing is still ahead in RECORD, before METADATA, so METADATA is never reached), `InstallThere` (each package asked for has a distribution that
is whole or under way, unless the status is 1 already), `UninstallThere` (what is still listed is yet to be looked at), `FilesThere` (a missing file was missing before, or its
distribution or one it shares it with was asked for), `FreezeThere` (a file is yet to be read, or its modules are noted).

**Locators and the cache server.** `CacheInv` says that whatever is listed, remembered, held by a thread or answered is of the package it is filed under, that the call of a thread fits
its place, and that two threads of a client never search for one requirement. This is what the shared, unlocked `_cache` depends on. `UploadsDisturbNobody` adds that a restart
sorts the same files into the table: `scan` picks by `Nth`, and the n-th elements of a finite set are all of them (`NthOfRank`, `ScanSorts`, `ListsAll`). `MissesMadeGood` needs `WarmsUpInv`: each
miss of a server is still to be sent or is listed there, and a client that has all its wheels searches no more, so nothing is missed after the uploads were gathered. `ServersComeFirst` needs
`ServersFirstInv`: what a server listed when the client started stays listed through uploads and restarts, so it is in each listing the client got from a server that answered
(`Tells`); and a thread that is past a server found nothing that suits there (`Lacks`). The memory of a server that did not answer is what makes the exception `outages` necessary.

**Recursive functions.** A function that is defined by recursion is a `CHOOSE`, and nothing is known of it until a function that satisfies its equation is
shown to exist. `NumberRecursion` and `SequenceRecursion` do that for any set of values, with the base and the step given as values rather than operators; `NumberInduction`
and `SequenceInduction` are about sets, for the same reason, and come from the well-foundedness of `<`. `http_retrieve`, `Included` and
`Through` are unfolded with them.

**What is read.** `ReadsAll` compares the loop of `expand_requirements` with the recursive definition of what a file names. The invariant, `ReadThere`, is that at any
moment the names so far, joined with what the open files, innermost first, have still to give (`Pending`), are the result: a line that is read moves from the
second to the first, and an include unfolds `Included` once. Both sides raise at the same depth, because the stack is as high as includes are nested.

**Nothing is overlooked.** `FindsTheBest` is about the end of a search; on the way, `BestInv` follows each archive that counts. Such an archive is in the hands of a thread
that searches for its package, or is ahead of that thread (on a link left on the page, or behind one that leads to a home page: `Going`), or one of the exceptions applies
to it (`Marks`). Its parts hold each other up:

- `Underway`: a thread has in hand or ahead of it every offer of the first spelling whose page has any; before that page its hands are empty
  (`Bare`), after it only marked offers are left (`Prospect`). An offer is skipped only if it was seen.
- `Sighted`: so what was seen must be marked, listed in `_cache` already, or in the hands of a thread that will list it.
- `Alone`: the thread that skips it is the one that has it in hand, and nothing is listed while it searches; unless two threads fetch the pages of
  the package at once, which marks all its offers. This is what makes sharing `_seen` harmless within one package, and why `Sighted` is not inductive alone.
- `Remembered`: a listing in `_cache` has every offer that is not marked, whichever search stored it.
- `Satisfied`: `FindsTheBest` itself; every locator that was passed had no suitable offer (in `Underway`), and of a listing the newest is taken.

A page or home page that redirects too often ends the search with an exception, so an answer was given only if none was on the way (`Open`, `Trap`). There is one lemma for each
way a call can go on (`Fetches`, `FetchesHome`, `Skips`, `Returns`, `Visits`, ...), about the records alone, and one for each action, in terms of `BestStays`.

**Duplicate downloads.** `OneFinderDownloadsOnce` gives the condition under which the documentation's promise holds; the run `duplicate` shows that it fails with a second finder thread.
16 processors or more start two, so the condition is that of a smaller machine. The other half of it, that neither the command line nor a wheel asks for a URL
(`NamesNoURL`), is what keeps the main thread from giving the downloader a file behind the finder's back (`NoURLs`).

**Only model-checked.** Liveness: `Termination`, `EndsUnlessShort`, `ClientEnds` and `CommandEnds`. It is out of this prover's reach, as is `ENABLED`. Every invariant and the
action property that a passing run checks are proved, `NoDuplicateDownload` under the condition above.

## 5. What is left to do

1. The iteration over `errors.values()` and `versions.keys()` under Python 3 as steps of `RetrieveAndBuild`.
2. `join` of `services/base.py` with its sentinels, should a command begin to use it.

## 6. Not modelled

- Parsing: HTML of index pages, requirement strings, names of files and wheels; formatting of messages, the report and the progress bar (except for its division by the total), logging.
- The commands of version control systems, unpacking and `setup.py`: each is a success or a failure, at any point its callers can see.
- `Service.join` with its sentinels and the restart of a pool: no command calls them. A `finished` callback that raises ends its thread; those of the program do not raise.
- Versions given to `uninstall`, which `request_uninstall` drops: its arguments are names.
- The HTML pages and `package_releases` of the cache server: they read the table that `Index` describes.
- `freeze.py`'s `get_requirements` and its helpers, which nothing calls; `wheel.py`, which no command uses; `setup.py` and `docs/conf.py`, which are not part of the program.
