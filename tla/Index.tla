-------------------------------- MODULE Index --------------------------------
(***************************************************************************)
(* The index of package files (src/curdling/index.py), `~/.curds' of `curd *)
(* install' and the directory of `curd-server': files on disk, and a table *)
(* of them in memory that scan rebuilds when a process starts.  Downloader *)
(* and curdler threads (or PUT requests) write files, the main thread (or  *)
(* GET requests) looks files up and opens them.  The process may be        *)
(* interrupted anywhere; its daemon threads die with it.                   *)
(***************************************************************************)
EXTENDS Naturals, FiniteSetsExt, SequencesExt

CONSTANTS
    Package, Version,   \* names of packages, and numbers for versions
    Name,               \* base names of files
    Wheel,              \* those that end in .whl
    KeyOf,              \* [Name -> <<package, version>>], None if pkg_name fails
    Query,              \* what index.get is asked
    Writer, Reader,     \* threads
    None,
    MaxRestarts,        \* bound on the restarts of the process
    MaxCopies           \* bound on the writes of one file under one process

Key == Package \X Version

ASSUME IndexAssumption ==
    /\ IsFiniteSet(Version) /\ Version \subseteq Nat
    /\ IsFiniteSet(Name) /\ Wheel \subseteq Name
    /\ None \notin Name \cup Key
    /\ KeyOf \in [Name -> Key \cup {None}]
    /\ Query \subseteq [pkg : Package, allows : SUBSET Version, fmt : {"whl", "~whl", ""}]
    /\ Writer \cap Reader = {}
    /\ MaxRestarts \in Nat /\ MaxCopies \in Nat

VARIABLES
    disk,       \* file -> "none", "part" or "whole"
    storage,    \* the table: package and version -> list of files
    proc,       \* the process: "up", "down", or "broken" when scan raised
    pc,         \* thread -> where it is
    job,        \* thread -> file (writers), query and then file (readers)
    mark,       \* reader -> versions of the package when it began to iterate
    restarts,
    cut,        \* files whose writer was interrupted
    failed      \* history: files written whose name turned out to be none

vars == <<disk, storage, proc, pc, job, mark, restarts, cut, failed>>

Thread == Writer \cup Reader

TypeOK ==
    /\ disk \in [Name -> {"none", "part", "whole"}]
    /\ storage \in [Key -> Seq(Name)]
    /\ proc \in {"up", "down", "broken"}
    /\ pc \in [Thread -> {"idle", "write", "index", "look", "open"}]
    /\ \A w \in Writer :
        pc[w] \in {"idle", "write", "index"} /\ (pc[w] # "idle" => job[w] \in Name)
    /\ \A r \in Reader :
        /\ pc[r] = "look" => job[r] \in Query
        /\ pc[r] = "open" => job[r] \in Name
        /\ pc[r] \in {"idle", "look", "open"}
    /\ mark \in [Reader -> Nat]
    /\ restarts \in 0 .. MaxRestarts
    /\ cut \in SUBSET Name
    /\ failed \in SUBSET Name

OnDisk == {n \in Name : disk[n] # "none"}

FilesOf(k) == {n \in Name : KeyOf[n] = k}

Indexed == UNION {ToSet(storage[k]) : k \in Key}

\* Every file in the directory once, in the order of os.listdir
Scanned == {table \in [Key -> SetToAllKPermutations(Name)] :
                \A k \in Key : table[k] \in SetToSeqs(FilesOf(k) \cap OnDisk)}

\* A name without package and version makes pkg_name's answer impossible to unpack
Unnamed == {n \in OnDisk : KeyOf[n] = None}

Init ==
    /\ disk \in [Name -> {"none", "whole"}]
    /\ Unnamed = {}
    /\ storage = [k \in Key |-> <<>>]
    /\ proc = "down"
    /\ pc = [t \in Thread |-> "idle"]
    /\ job = [t \in Thread |-> None]
    /\ mark = [r \in Reader |-> 0]
    /\ restarts = 0
    /\ cut = {}
    /\ failed = {}

-----------------------------------------------------------------------------
(* The process: Index(...).scan(), before any thread runs *)

Scan ==
    /\ proc = "down"
    /\ IF Unnamed # {}
       THEN proc' = "broken" /\ UNCHANGED storage
       ELSE proc' = "up" /\ storage' \in Scanned
    /\ UNCHANGED <<disk, pc, job, mark, restarts, cut, failed>>

\* Files that a thread is writing
BeingWritten == {job[w] : w \in {v \in Writer : pc[v] = "write"}}

\* Mutant: threads outlive the main thread
Survive == UNCHANGED pc

\* Worker threads are daemons (services/base.py:48)
Die == pc' = [t \in Thread |-> "idle"]

\* The process ends: the command is done, Ctrl-C, or the server is stopped
Interrupt ==
    /\ proc = "up" /\ restarts < MaxRestarts
    /\ restarts' = restarts + 1
    /\ proc' = "down"
    /\ cut' = cut \cup BeingWritten
    /\ storage' = [k \in Key |-> <<>>]
    /\ Die
    /\ job' = [t \in Thread |-> None]
    /\ mark' = [r \in Reader |-> 0]
    /\ UNCHANGED <<disk, failed>>

-----------------------------------------------------------------------------
(* Writers: from_data and from_file *)

At(t, where) == proc = "up" /\ pc[t] = where

Copies(n) ==
    Len(SelectSeq(IF KeyOf[n] = None THEN <<>> ELSE storage[KeyOf[n]], LAMBDA m : m = n))
        + Cardinality({w \in Writer : pc[w] # "idle" /\ job[w] = n})

\* Opening the file empties it
Create(w, n) ==
    /\ At(w, "idle")
    /\ Copies(n) < MaxCopies
    /\ disk' = [disk EXCEPT ![n] = "part"]
    /\ job' = [job EXCEPT ![w] = n]
    /\ pc' = [pc EXCEPT ![w] = "write"]
    /\ UNCHANGED <<storage, proc, mark, restarts, cut, failed>>

\* The contents are there, unless another thread writes the same file
Write(w) ==
    /\ At(w, "write")
    /\ \E state \in {"part", "whole"} :
        /\ state = "part" => \E v \in Writer \ {w} : pc[v] = "write" /\ job[v] = job[w]
        /\ disk' = [disk EXCEPT ![job[w]] = state]
        /\ cut' = IF state = "whole" THEN cut \ {job[w]} ELSE cut
    /\ pc' = [pc EXCEPT ![w] = "index"]
    /\ UNCHANGED <<storage, proc, job, mark, restarts, failed>>

\* Mutant: the file is indexed before it is complete
IndexEarly(w) == At(w, "write") \/ At(w, "index")

Written(w) == At(w, "index")

\* Mutant: a version keeps its latest file only
Replaced(files, n) == <<n>>

Added(files, n) == Append(files, n)

\* index: the file joins the table; or its name raises, the download that wrote
\* it fails, and the file stays
IndexFile(w) ==
    /\ Written(w)
    /\ storage' = IF KeyOf[job[w]] = None THEN storage
                  ELSE [storage EXCEPT ![KeyOf[job[w]]] = Added(@, job[w])]
    /\ failed' = IF KeyOf[job[w]] = None THEN failed \cup {job[w]} ELSE failed
    /\ job' = [job EXCEPT ![w] = None]
    /\ pc' = [pc EXCEPT ![w] = "idle"]
    /\ UNCHANGED <<disk, proc, mark, restarts, cut>>

-----------------------------------------------------------------------------
(* Readers: get, and opening the file it names *)

VersionsOf(p) == {v \in Version : storage[<<p, v>>] # <<>>}

\* get begins to iterate over the versions of a package
Look(r, q) ==
    /\ At(r, "idle")
    /\ VersionsOf(q.pkg) # {}
    /\ mark' = [mark EXCEPT ![r] = Cardinality(VersionsOf(q.pkg))]
    /\ job' = [job EXCEPT ![r] = q]
    /\ pc' = [pc EXCEPT ![r] = "look"]
    /\ UNCHANGED <<disk, storage, proc, restarts, cut, failed>>

Compatible(q) == VersionsOf(q.pkg) \cap q.allows

\* Positions of the files in the format asked for; of any format, wheels first
Suitable(files, fmt) ==
    LET wheels == {i \in DOMAIN files : files[i] \in Wheel}
    IN  CASE fmt = "whl" -> wheels
          [] fmt = "~whl" -> DOMAIN files \ wheels
          [] OTHER -> IF wheels # {} THEN wheels ELSE DOMAIN files

\* The first suitable file of the latest compatible version, if there is one
Found(q) ==
    {n \in Name : \E v \in Compatible(q) :
        LET files == storage[<<q.pkg, v>>]
        IN  /\ \A u \in Compatible(q) : u <= v
            /\ \E i \in Suitable(files, q.fmt) :
                /\ files[i] = n
                /\ \A j \in Suitable(files, q.fmt) : i <= j}

\* A new version came up during the iteration (RuntimeError), or PackageNotFound
Raise(r) ==
    /\ At(r, "look")
    /\ mark[r] # Cardinality(VersionsOf(job[r].pkg)) \/ Found(job[r]) = {}
    /\ job' = [job EXCEPT ![r] = None]
    /\ pc' = [pc EXCEPT ![r] = "idle"]
    /\ mark' = [mark EXCEPT ![r] = 0]
    /\ UNCHANGED <<disk, storage, proc, restarts, cut, failed>>

Answer(r) ==
    /\ At(r, "look")
    /\ mark[r] = Cardinality(VersionsOf(job[r].pkg))
    /\ \E n \in Found(job[r]) : job' = [job EXCEPT ![r] = n]
    /\ pc' = [pc EXCEPT ![r] = "open"]
    /\ mark' = [mark EXCEPT ![r] = 0]
    /\ UNCHANGED <<disk, storage, proc, restarts, cut, failed>>

\* The file is read, some time after it was looked up
Open(r) ==
    /\ At(r, "open")
    /\ job' = [job EXCEPT ![r] = None]
    /\ pc' = [pc EXCEPT ![r] = "idle"]
    /\ UNCHANGED <<disk, storage, proc, mark, restarts, cut, failed>>

Next ==
    \/ Scan \/ Interrupt
    \/ \E w \in Writer : (\E n \in Name : Create(w, n)) \/ Write(w) \/ IndexFile(w)
    \/ \E r \in Reader : (\E q \in Query : Look(r, q)) \/ Raise(r) \/ Answer(r) \/ Open(r)

Spec == Init /\ [][Next]_vars

-----------------------------------------------------------------------------
Opening == {job[r] : r \in {s \in Reader : pc[s] = "open"}}

(***************************************************************************)
(* What get answers can be opened, and is a whole file unless a thread is  *)
(* writing it again right now or its writer was interrupted: files are     *)
(* only indexed once written, though nothing locks the two together.       *)
(***************************************************************************)
OnlyWholeServed ==
    \A n \in Opening \cup Indexed :
        \/ disk[n] = "whole"
        \/ disk[n] = "part" /\ n \in BeingWritten \cup cut

(***************************************************************************)
(* No whole file is forgotten, neither by a restart nor by another file of *)
(* its version: it is in the table, or the thread that wrote it is about   *)
(* to put it there.                                                        *)
(***************************************************************************)
NoneForgotten ==
    proc = "up" =>
        \A n \in Name : disk[n] = "whole" /\ KeyOf[n] # None =>
            \/ n \in Indexed
            \/ \E w \in Writer : pc[w] \in {"write", "index"} /\ job[w] = n

(***************************************************************************)
(* "It should be possible to scan for already existing folders"            *)
(* (tests/functional/test_index.py:49), and "the package will be cached    *)
(* and we'll just use the cached version the next time"                    *)
(* (docs/index.rst:72-75): what is left of a download whose file had no    *)
(* usable name, which failed at index, keeps no later process from         *)
(* starting.  Files left by a writer cut short before index are set aside. *)
(***************************************************************************)
StartsAgain == Unnamed \subseteq failed => proc # "broken"
=============================================================================
