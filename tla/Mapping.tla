------------------------------- MODULE Mapping -------------------------------
(***************************************************************************)
(* The mapping of curdling (src/curdling/mapping.py): what one run of      *)
(* `curd install` remembers about the requirements it met, and how it      *)
(* picks one version per package in the end.                               *)
(*                                                                         *)
(* A requirement such as `sure (>= 1.2)' is a member of Requirement, in    *)
(* the normal form of util.safe_name.  PkgOf gives the package it names (a *)
(* URL names itself, util.py:84) and Allows the versions its constraints   *)
(* accept, which distlib decides.  Versions are numbers: only their order  *)
(* matters here.                                                           *)
(***************************************************************************)
EXTENDS Naturals, FiniteSets, Sequences, FiniteSetsExt

CONSTANTS
    Package,        \* names of packages
    Version,        \* a set of numbers
    Requirement,    \* requirements and URLs
    PkgOf,          \* [Requirement -> Package]
    Allows,         \* [Requirement -> SUBSET Version]
    None            \* Python's None

\* Package files: a wheel, a source archive, or a checkout of a repository
Format == {"whl", "tar", "dir"}
File == [pkg : Package, ver : Version, fmt : Format]

ASSUME MappingAssumption ==
    /\ Version \subseteq Nat
    /\ IsFiniteSet(Requirement)
    /\ PkgOf \in [Requirement -> Package]
    /\ Allows \in [Requirement -> SUBSET Version]
    /\ None \notin Requirement
    /\ None \notin File

VARIABLES
    requirements,   \* set of filed requirements
    dependencies,   \* requirement -> who asked for it; None is the command line
    errors,         \* requirements that failed
    wheels,         \* requirement -> the wheel found for it
    repeated,       \* requirements set aside by `unique'
    built           \* stats['dependencer']

mapping == <<requirements, dependencies, errors, wheels, repeated, built>>

MappingTypeOK ==
    /\ requirements \in SUBSET Requirement
    /\ dependencies \in [Requirement -> SUBSET (Requirement \cup {None})]
    /\ errors \in SUBSET Requirement
    /\ wheels \in [Requirement -> File \cup {None}]
    /\ repeated \in SUBSET Requirement
    /\ built \in Nat

MappingInit ==
    /\ requirements = {}
    /\ dependencies = [r \in Requirement |-> {}]
    /\ errors = {}
    /\ wheels = [r \in Requirement |-> None]
    /\ repeated = {}
    /\ built = 0

-----------------------------------------------------------------------------
Built == {r \in Requirement : wheels[r] # None}

get_requirements_by_package_name(p) == {r \in requirements : PkgOf[r] = p}

initially_required_packages == {PkgOf[r] : r \in requirements}

installable_packages == {PkgOf[r] : r \in Built}

\* Mutant: the requester on the command line is not remembered
NoPrimary(r) == FALSE

is_primary_requirement(r) == None \in dependencies[r]

\* Mutant: any requirement of the package counts, primary or not
WasRequired(p) == get_requirements_by_package_name(p) # {}

was_directly_required(p) ==
    \E r \in get_requirements_by_package_name(p) : is_primary_requirement(r)

available_versions(p) ==
    {wheels[r].ver : r \in get_requirements_by_package_name(p) \cap Built}

primary_versions(p) ==
    {wheels[r].ver : r \in {q \in get_requirements_by_package_name(p) \cap Built :
                              is_primary_requirement(q)}}

\* Mutant: only the requirements that were built have to agree
CompatibleWithBuilt(p) ==
    {v \in available_versions(p) :
        \A r \in get_requirements_by_package_name(p) \cap Built : v \in Allows[r]}

\* Versions that match as many filed requirements as there are, where only a
\* requirement that has a wheel votes
compatible_versions(p) ==
    {v \in available_versions(p) :
        Cardinality({r \in get_requirements_by_package_name(p) \cap Built : v \in Allows[r]})
            = Cardinality(get_requirements_by_package_name(p))}

\* The versions the newest of which wins
Candidates(p) ==
    IF primary_versions(p) # {} THEN primary_versions(p) ELSE compatible_versions(p)

(***************************************************************************)
(* The requirements best_version may answer for package p: the last one,   *)
(* in the order of a Python set, whose wheel has the version chosen.  The  *)
(* empty set stands for VersionConflict.                                   *)
(***************************************************************************)
best_version(p) ==
    IF Candidates(p) = {} THEN {}
    ELSE {r \in get_requirements_by_package_name(p) \cap Built :
            wheels[r].ver = Max(Candidates(p))}
=============================================================================
