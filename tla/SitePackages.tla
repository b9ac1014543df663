----------------------------- MODULE SitePackages -----------------------------
(***************************************************************************)
(* The installed distributions, as `curd install' leaves them (one thread  *)
(* of the installer per wheel, distlib doing the copying) and as           *)
(* Database.uninstall finds and removes them (src/curdling/database.py):   *)
(* file by file, in the order of RECORD, the directory last.               *)
(***************************************************************************)
EXTENDS Naturals, FiniteSets, Sequences, SequencesExt

CONSTANTS
    Dist,       \* distributions: a package in one version
    NameOf,     \* [Dist -> name in its METADATA, in lower case]
    Code,       \* [Dist -> Seq(file)]: what it installs; two may share a file
    Metadata,   \* [Dist -> file]
    Record,     \* [Dist -> file]
    Installed,  \* what may be installed at first: sets of distributions
    MaxFaults   \* bound on files that can not be written or removed

\* Mutant: METADATA comes first
MetadataFirst(d) == <<Metadata[d]>> \o Code[d] \o <<Record[d]>>

\* RECORD lists the files in the order of the wheel, and itself at the end
Paths(d) == Code[d] \o <<Metadata[d], Record[d]>>

Path == UNION {Range(Paths(d)) : d \in Dist}
Sharing(d) == {e \in Dist \ {d} : Range(Code[d]) \cap Range(Code[e]) # {}}

ASSUME SitePackagesAssumption ==
    /\ IsFiniteSet(Dist) /\ Installed \subseteq SUBSET Dist
    /\ \A d, e \in Dist :
        /\ Code[d] \in Seq(Range(Code[d]))
        /\ IsInjective(Paths(d))
        /\ d # e => Range(Paths(d)) \cap {Metadata[e], Record[e]} = {}
    /\ MaxFaults \in Nat

VARIABLES
    files,      \* files in site-packages
    dirs,       \* distributions that have a .dist-info directory
    busy,       \* distributions being installed or removed
    left,       \* what is left of that: the files to be written or removed
    fresh,      \* those whose directory was made by this installation
    faults,
    hurt        \* history: distributions that were cut, or shared a file with one

siteVars == <<files, dirs, busy, left, fresh, faults, hurt>>

SiteInit ==
    /\ dirs \in Installed
    /\ files = UNION {Range(Paths(d)) : d \in dirs}
    /\ busy = {} /\ left = [d \in Dist |-> <<>>] /\ fresh = {}
    /\ faults = 0 /\ hurt = {}

\* distlib goes by METADATA to list the distributions, and reads RECORD after that
Listed(d) == d \in dirs /\ Metadata[d] \in files

Whole(d) == d \in dirs /\ Range(Paths(d)) \subseteq files

Gone(d) ==
    /\ d \notin dirs /\ {Metadata[d], Record[d]} \cap files = {}
    /\ \A f \in Range(Code[d]) \cap files : \E e \in Sharing(d) : f \in Range(Code[e]) /\ e \in dirs \cup hurt

\* Work on ds begins
Begin(ds) ==
    /\ busy' = ds
    /\ left' = [d \in Dist |-> IF d \in ds THEN Paths(d) ELSE <<>>]
    /\ fresh' = {}

Fault == faults < MaxFaults /\ faults' = faults + 1

-----------------------------------------------------------------------------
(* Wheel.install of distlib *)

Write(d) ==
    /\ d \in busy /\ left[d] # <<>>
    /\ files' = files \cup {Head(left[d])}
    /\ left' = [left EXCEPT ![d] = Tail(@)]
    /\ IF Head(left[d]) = Metadata[d] /\ d \notin dirs
       THEN dirs' = dirs \cup {d} /\ fresh' = fresh \cup {d}
       ELSE UNCHANGED <<dirs, fresh>>
    /\ UNCHANGED <<busy, faults, hurt>>

Written(d) == {f \in Range(Paths(d)) : ~Contains(left[d], f)}

\* A file can not be written: rollback takes back what was written, over a
\* file that had been there before as well
WriteFails(d) ==
    /\ d \in busy /\ left[d] # <<>>
    /\ Fault
    /\ files' = files \ Written(d)
    /\ dirs' = dirs \ (fresh \cap {d})
    /\ busy' = busy \ {d}
    /\ left' = [left EXCEPT ![d] = <<>>]
    /\ fresh' = fresh \ {d}
    /\ hurt' = hurt \cup {d} \cup Sharing(d)

WriteEnds(d) ==
    /\ d \in busy /\ left[d] = <<>>
    /\ busy' = busy \ {d}
    /\ fresh' = fresh \ {d}
    /\ UNCHANGED <<files, dirs, left, faults, hurt>>

-----------------------------------------------------------------------------
(* Database.uninstall *)

Unlink(d) ==
    /\ d \in busy /\ left[d] # <<>> /\ Head(left[d]) \in files
    /\ files' = files \ {Head(left[d])}
    /\ left' = [left EXCEPT ![d] = Tail(@)]
    /\ UNCHANGED <<dirs, busy, fresh, faults, hurt>>

\* Mutant: the directory is not removed
LeaveDirectory(d) ==
    /\ d \in busy /\ left[d] = <<>>
    /\ busy' = busy \ {d}
    /\ hurt' = hurt \cup Sharing(d)
    /\ UNCHANGED <<files, dirs, left, fresh, faults>>

\* os.rmdir of the empty directory
RemoveDirectory(d) ==
    /\ d \in busy /\ left[d] = <<>>
    /\ dirs' = dirs \ {d}
    /\ busy' = busy \ {d}
    /\ hurt' = hurt \cup Sharing(d)
    /\ UNCHANGED <<files, left, fresh, faults>>

\* os.unlink raises: the file is not there, or may not be removed
UnlinkRaises(d) ==
    /\ d \in busy /\ left[d] # <<>>
    /\ \/ Head(left[d]) \notin files /\ UNCHANGED faults
       \/ Head(left[d]) \in files /\ Fault

\* Whatever was going on stays as it is
Cut ==
    /\ busy' = {} /\ left' = [d \in Dist |-> <<>>] /\ fresh' = {}
    /\ hurt' = hurt \cup busy \cup UNION {Sharing(d) : d \in busy}
    /\ UNCHANGED <<files, dirs>>

-----------------------------------------------------------------------------
SiteTypeOK ==
    /\ files \subseteq Path
    /\ dirs \subseteq Dist /\ hurt \subseteq Dist
    /\ busy \subseteq Dist /\ fresh \subseteq dirs \cap busy
    /\ \A d \in Dist : IsSuffix(left[d], Paths(d)) /\ (left[d] # <<>> => d \in busy)
    /\ faults \in 0 .. MaxFaults
=============================================================================
