-------------------------- MODULE CacheServerProofs --------------------------
(***************************************************************************)
(* Clients and cache servers, for every set of packages, files, pages,     *)
(* servers, clients and threads: whatever is searched and uploaded at the  *)
(* same time, what each table, listing and answer holds is of the package  *)
(* it is filed under, and servers change what they answer only at a        *)
(* restart.                                                                *)
(***************************************************************************)
EXTENDS CacheServer, FiniteSetTheorems, SequenceTheorems, WellFoundedInduction, TLAPS

\* The elements of S up to n
UpTo(S, n) == {m \in S : m <= n}

\* How many of them
Rank(S, n) == Cardinality(UpTo(S, n))

Table == [Package -> [Version -> Seq(Archive)]]

\* The files of each version are of that version
Sorted(table) ==
    \A p \in Package, v \in Version : \A a \in Range(table[p][v]) : Describes[a] = <<p, v>>

\* So are those of a listing
ListingsOf(p) == {l \in Listing : \A v \in Version : l[v] # None => Describes[l[v]] = <<p, v>>}

Of(p) == {a \in Archive : Describes[a] \in {p} \X Version}

-----------------------------------------------------------------------------
(* What is true between two steps *)

\* Of the servers
Filed == served \in [Curd -> Table] /\ \A s \in Curd : Sorted(served[s])

\* Of what the threads of a client share
Shared ==
    /\ known \in [Client -> [Range(Locators) -> [Package -> Listing \cup {None}]]]
    /\ \A c \in Client, l \in Range(Locators), p \in Package :
           known[c][l][p] # None => known[c][l][p] \in ListingsOf(p)
    /\ seen \in [Client -> [PyPi -> SUBSET Archive]]
    /\ requirements_not_found \in [Client -> [Curd -> Seq(Package)]]

\* Of an answer to a search for r
Proper(r, reply) ==
    /\ reply.state = "found" <=> reply.url # None
    /\ reply.state \in {"found", "error"} <=> reply.locator # None
    /\ reply.url # None => reply.url \in Of(PkgOf[r])

Replies == [state : {"unasked", "queued", "searching"} \cup Ended,
            url : Archive \cup {None}, locator : Range(Locators) \cup {None}]

Answered ==
    /\ answer \in [Client -> [Requirement -> Replies]]
    /\ \A c \in Client, r \in Requirement : Proper(r, answer[c][r])

IsJob(j) == j = [req |-> j.req, at |-> j.at, pages |-> j.pages, links |-> j.links,
                 top |-> j.top, below |-> j.below]

\* Of a thread at k with the call j
Doing(k, j) ==
    /\ k \in {"idle", "ask", "page", "links", "visit", "learn"}
    /\ IsJob(j)
    /\ k # "idle" =>
        /\ j.req \in Requirement /\ j.at \in DOMAIN Locators
        /\ j.top \in ListingsOf(PkgOf[j.req]) /\ j.below \in ListingsOf(PkgOf[j.req])
    /\ k \in {"page", "links", "visit"} => Locators[j.at] \in PyPi
    /\ k = "visit" => Head(j.links).link \in Archive

\* Two threads of a client never look for the same requirement
Threads ==
    /\ pc = [t \in Thread |-> pc[t]] /\ job = [t \in Thread |-> job[t]]
    /\ \A t \in Thread : Doing(pc[t], job[t])
    /\ \A t \in Thread : pc[t] # "idle" => answer[ClientOf[t]][job[t].req].state = "searching"
    /\ \A t, u \in Thread :
        /\ t # u /\ ClientOf[t] = ClientOf[u]
        /\ pc[t] # "idle" /\ pc[u] # "idle"
        => job[t].req # job[u].req

\* Of the clients
Clients ==
    /\ run \in Runs
    /\ state \in [Client -> {"off", "finding", "uploading", "done", "failed", "stuck"}]
    /\ wheels \in [Client -> [Requirement -> Wheel \cup {None}]]
    /\ \A c \in Client, r \in Requirement : wheels[c][r] # None => wheels[c][r] \in Of(PkgOf[r])
    /\ \A c \in Client : uploads[c] \subseteq get_servers_to_update(c)
    /\ uploads = [c \in Client |-> uploads[c]]
    /\ faults \in Nat
    /\ \A c \in Client : state[c] = "off" =>
        /\ \A r \in Requirement : answer[c][r].state = "unasked"
        /\ known[c] = NothingKnown
    /\ \A c \in Client : 
        state[c] \in {"uploading", "done"} => \A r \in Wants(c) : Has(c, r)

CacheInv == Filed /\ Shared /\ Answered /\ Threads /\ Clients

\* What s listed of p when c started is in the listing that c got of it
Tells(c, s, p, listing) ==
    c \in Admits[s] /\ <<c, s, p>> \notin outages =>
        \A v \in Version : before[c][s][p][v] # <<>> => listing[v] # None

\* s, unless it did not answer, had nothing for r
Lacks(c, s, r) ==
    c \in Admits[s] /\ <<c, s, PkgOf[r]>> \notin outages =>
        \A v \in Allows[r] : before[c][s][PkgOf[r]][v] = <<>>

\* What was listed stays listed, and is in what the threads of a client learn
ServersFirstInv ==
    /\ before \in [Client -> [Curd -> Table]]
    /\ \A c \in Client, s \in Curd, p \in Package, v \in Version :
        before[c][s][p][v] # <<>> => served[s][p][v] # <<>>
    /\ \A c \in Client, s \in Curd, p \in Package :
        known[c][s][p] # None => Tells(c, s, p, known[c][s][p])
    /\ \A t \in Thread :
        pc[t] = "learn" /\ Here(t) \in Curd => Tells(ClientOf[t], Here(t), Wanted(t), job[t].top)
    /\ \A t \in Thread : pc[t] # "idle" =>
        \A k \in 1 .. job[t].at - 1 :
            Locators[k] \in Curd => Lacks(ClientOf[t], Locators[k], job[t].req)
    /\ ServersFirst

\* The n-th miss of s is to be sent, or s lists it
Covered(c, s, n) ==
    \/ <<s, n>> \in uploads[c]
    \/ \E w \in best_version(c, requirements_not_found[c][s][n]) :
           served[s][requirements_not_found[c][s][n]][VersionOf(w)] # <<>>

\* What has its wheel is not searched; so a client that uploads misses nothing more
WarmsUpInv ==
    /\ \A c \in Client, r \in Requirement :
        /\ Has(c, r) => answer[c][r].state \in {"unasked", "found"}
        /\ r \notin Wants(c) => answer[c][r].state = "unasked"
    /\ \A c \in Upload, s \in Curd :
        state[c] \in {"uploading", "done"} /\ c \in Admits[s] =>
            \A n \in DOMAIN requirements_not_found[c][s] : Covered(c, s, n)
    /\ \A c \in Client : state[c] = "done" => uploads[c] = {}

-----------------------------------------------------------------------------
(* Sets of numbers, and the sequences they pick from *)

\* A finite set of numbers has a greatest one.
LEMMA Greatest ==
    ASSUME NEW S, S \subseteq Nat, IsFiniteSet(S), S # {}
    PROVE  \E x \in S : \A y \in S : y <= x
<1> DEFINE Above(x) == {y \in S : y > x}
           T == {Cardinality(Above(x)) : x \in S}
<1>1. \A x \in S : IsFiniteSet(Above(x)) /\ Cardinality(Above(x)) \in Nat
  BY FS_Subset, FS_CardinalityType
<1>2. PICK n \in T : \A m \in T : ~ (<<m, n>> \in OpToRel(<, Nat))
  <2>1. T \subseteq Nat /\ T # {}
    BY <1>1
  <2>2. QED
    BY <2>1, NatLessThanWellFounded, WFMin
<1>3. \A m \in T : ~(m < n)
  BY <1>1, <1>2 DEF OpToRel
<1>4. PICK x \in S : n = Cardinality(Above(x))
  BY <1>2
<1>5. ASSUME NEW y \in S, y > x
      PROVE  FALSE
  <2>1. Above(y) \subseteq Above(x) /\ y \in Above(x) /\ y \notin Above(y)
    <3>1. x \in Nat /\ y \in Nat /\ \A z \in S : z \in Nat
      OBVIOUS
    <3>2. \A z \in S : z > y => z > x
      BY <1>5, <3>1
    <3>3. Above(y) \subseteq Above(x)
      BY <3>2
    <3>4. ~(y > y)
      BY <3>1
    <3>5. QED
      BY <1>5, <3>3, <3>4
  <2>2. Cardinality(Above(y)) <= Cardinality(Above(x)) /\ Cardinality(Above(y)) # Cardinality(Above(x))
    <3> HIDE DEF Above
    <3>1. QED
      BY <1>1, <2>1, FS_Subset
  <2>3. Cardinality(Above(y)) < n
    <3> HIDE DEF Above
    <3>1. QED
      BY <1>1, <1>4, <2>2
  <2>4. QED
    BY <1>3, <2>3
<1>6. QED
  BY <1>5

\* max() of a finite set.
LEMMA MaxIsGreatest ==
    ASSUME NEW S, S \subseteq Nat, IsFiniteSet(S), S # {}
    PROVE  Max(S) \in S /\ \A y \in S : y <= Max(S)
<1>1. \E x \in S : \A y \in S : x >= y
  BY Greatest
<1>2. Max(S) \in S /\ \A y \in S : Max(S) >= y
  BY <1>1 DEF Max
<1>3. QED
  BY <1>2

\* An element is in between none and all.
LEMMA RankWithin ==
    ASSUME NEW S, S \subseteq Nat, IsFiniteSet(S), NEW n \in S
    PROVE  Rank(S, n) \in 1 .. Cardinality(S)
<1>1. UpTo(S, n) \subseteq S /\ n \in UpTo(S, n)
  BY DEF UpTo
<1>2. IsFiniteSet(UpTo(S, n)) /\ Rank(S, n) <= Cardinality(S)
  BY <1>1, FS_Subset DEF Rank
<1>3. Rank(S, n) \in Nat /\ Rank(S, n) # 0 /\ Cardinality(S) \in Nat
  BY <1>1, <1>2, FS_CardinalityType, FS_EmptySet DEF Rank
<1>4. QED
  BY <1>2, <1>3

\* Two elements are not in the same place.
LEMMA RankTells ==
    ASSUME NEW S, S \subseteq Nat, IsFiniteSet(S), NEW m \in S, NEW n \in S, Rank(S, m) = Rank(S, n)
    PROVE  m = n
<1>1. ASSUME NEW a \in S, NEW b \in S, a < b, Rank(S, a) = Rank(S, b)
      PROVE  FALSE
  <2>1. UpTo(S, a) \subseteq UpTo(S, b) /\ b \in UpTo(S, b) /\ b \notin UpTo(S, a)
    <3>1. a \in Nat /\ b \in Nat /\ \A z \in S : z \in Nat
      OBVIOUS
    <3>2. \A z \in S : z <= a => z <= b
      BY <1>1, <3>1
    <3>3. UpTo(S, a) \subseteq UpTo(S, b)
      BY <3>2 DEF UpTo
    <3>4. b <= b /\ ~(b <= a)
      BY <1>1, <3>1
    <3>5. QED
      BY <3>3, <3>4 DEF UpTo
  <2>2. IsFiniteSet(UpTo(S, b))
    BY FS_Subset DEF UpTo
  <2>3. UpTo(S, a) = UpTo(S, b)
    BY <1>1, <2>1, <2>2, FS_Subset DEF Rank
  <2>4. QED
    BY <2>1, <2>3
<1>2. ~(m < n) /\ ~(n < m)
  BY <1>1
<1>3. m \in Nat /\ n \in Nat
  OBVIOUS
<1>4. QED
  BY <1>2, <1>3

\* Nth finds every element, in its place.
LEMMA NthOfRank ==
    ASSUME NEW S, S \subseteq Nat, IsFiniteSet(S), NEW n \in S
    PROVE  Nth(S, Rank(S, n)) = n
<1>1. \E m \in S : Rank(S, m) = Rank(S, n)
  OBVIOUS
<1>2. Nth(S, Rank(S, n)) = CHOOSE m \in S : Rank(S, m) = Rank(S, n)
  BY DEF Nth, Rank, UpTo
<1>3. Nth(S, Rank(S, n)) \in S /\ Rank(S, Nth(S, Rank(S, n))) = Rank(S, n)
  BY <1>1, <1>2
<1>4. QED
  BY <1>3, RankTells

\* Nth finds nothing but elements.
LEMMA NthIsIn ==
    ASSUME NEW S, S \subseteq Nat, IsFiniteSet(S), NEW i \in 1 .. Cardinality(S)
    PROVE  Nth(S, i) \in S
<1> DEFINE k == Cardinality(S)
           f == [n \in S |-> Rank(S, n)]
<1>1. k \in Nat /\ IsFiniteSet(1 .. k) /\ Cardinality(1 .. k) = k
  BY FS_CardinalityType, FS_Interval
<1>2. f \in Injection(S, 1 .. k)
  BY RankWithin, RankTells DEF Injection, IsInjective
<1>3. f \in Surjection(S, 1 .. k)
  BY <1>1, <1>2, FS_Injection
<1>4. PICK n \in S : f[n] = i
  BY <1>3 DEF Surjection
<1>5. Nth(S, i) = n
  BY <1>4, NthOfRank
<1>6. QED
  BY <1>5

-----------------------------------------------------------------------------
(* The table of a server *)

\* scan files every file of a directory, once under its package and version.
LEMMA ScanSorts ==
    ASSUME NEW l \in Seq(Archive)
    PROVE  /\ scan(l) \in Table /\ Sorted(scan(l))
           /\ \A p \in Package, v \in Version :
                  Range(scan(l)[p][v]) = {f \in Range(l) : Describes[f] = <<p, v>>}
<1> DEFINE of(p, v) == {n \in DOMAIN l : Describes[l[n]] = <<p, v>>}
           row(p, v) == [i \in 1 .. Cardinality(of(p, v)) |-> l[Nth(of(p, v), i)]]
<1>1. DOMAIN l = 1 .. Len(l) /\ Len(l) \in Nat /\ \A n \in DOMAIN l : l[n] \in Archive
  OBVIOUS
<1>2. ASSUME NEW p \in Package, NEW v \in Version
      PROVE  /\ of(p, v) \subseteq DOMAIN l /\ of(p, v) \subseteq Nat /\ IsFiniteSet(of(p, v))
             /\ Cardinality(of(p, v)) \in Nat
  <2>1. of(p, v) \subseteq 1 .. Len(l)
    BY <1>1
  <2>2. IsFiniteSet(1 .. Len(l)) /\ 1 .. Len(l) \subseteq Nat
    BY <1>1, FS_Interval
  <2> HIDE DEF of
  <2>3. QED
    BY <1>1, <2>1, <2>2, FS_Subset, FS_CardinalityType
<1>3. ASSUME NEW p \in Package, NEW v \in Version, NEW i \in 1 .. Cardinality(of(p, v))
      PROVE  Nth(of(p, v), i) \in of(p, v)
  <2> HIDE DEF of
  <2>1. QED
    BY <1>2, NthIsIn
<1>4. ASSUME NEW p \in Package, NEW v \in Version, NEW n \in of(p, v)
      PROVE  \E i \in 1 .. Cardinality(of(p, v)) : Nth(of(p, v), i) = n
  <2> HIDE DEF of
  <2>1. QED
    BY <1>2, RankWithin, NthOfRank
<1>5. ASSUME NEW p \in Package, NEW v \in Version
      PROVE  row(p, v) \in Seq(Archive) /\ Range(row(p, v)) = {f \in Range(l) : Describes[f] = <<p, v>>}
  <2>1. \A i \in 1 .. Cardinality(of(p, v)) : l[Nth(of(p, v), i)] \in Archive
    BY <1>1, <1>3
  <2>2. row(p, v) \in Seq(Archive)
    <3> HIDE DEF of
    <3>1. QED
      BY <1>2, <2>1
  <2>3. DOMAIN row(p, v) = 1 .. Cardinality(of(p, v))
    OBVIOUS
  <2>4. ASSUME NEW f \in Range(row(p, v))
        PROVE  f \in Range(l) /\ Describes[f] = <<p, v>>
    <3>1. PICK i \in 1 .. Cardinality(of(p, v)) : f = l[Nth(of(p, v), i)]
      BY <2>3 DEF Range
    <3>2. Nth(of(p, v), i) \in of(p, v)
      BY <1>3
    <3>3. QED
      BY <3>1, <3>2 DEF Range
  <2>5. ASSUME NEW f \in Range(l), Describes[f] = <<p, v>>
        PROVE  f \in Range(row(p, v))
    <3>1. PICK n \in DOMAIN l : f = l[n]
      BY DEF Range
    <3>2. n \in of(p, v)
      BY <2>5, <3>1
    <3>3. PICK i \in 1 .. Cardinality(of(p, v)) : Nth(of(p, v), i) = n
      BY <1>4, <3>2
    <3>4. row(p, v)[i] = f
      BY <3>1, <3>3
    <3>5. QED
      BY <2>3, <3>4 DEF Range
  <2>6. QED
    BY <2>2, <2>4, <2>5
<1>6. scan(l) = [p \in Package |-> [v \in Version |-> row(p, v)]]
  BY DEF scan
<1>7. \A p \in Package, v \in Version : scan(l)[p][v] = row(p, v)
  BY <1>6
<1>8. scan(l) \in Table
  <2> HIDE DEF row
  <2>1. QED
    BY <1>5, <1>6 DEF Table
<1>9. \A p \in Package, v \in Version :
          Range(scan(l)[p][v]) = {f \in Range(l) : Describes[f] = <<p, v>>}
  <2> HIDE DEF row
  <2>1. QED
    BY <1>5, <1>7
<1>10. QED
  BY <1>8, <1>9 DEF Sorted

\* A sequence of all the elements of a finite set.
LEMMA ListsAll ==
    ASSUME NEW S, IsFiniteSet(S), NEW s \in SetToSeqs(S)
    PROVE  s \in Seq(S) /\ Range(s) = S
<1> DEFINE n == Cardinality(S)
<1>1. n \in Nat /\ IsFiniteSet(1 .. n) /\ Cardinality(1 .. n) = n
  BY FS_CardinalityType, FS_Interval
<1>2. s \in Injection(1 .. n, S)
  BY <1>1 DEF SetToSeqs, Injection, IsInjective
<1>3. s \in [1 .. n -> S] /\ s \in Surjection(1 .. n, S)
  BY <1>1, <1>2, FS_Injection DEF Injection
<1>4. s \in Seq(S) /\ DOMAIN s = 1 .. n
  BY <1>1, <1>3
<1>5. QED
  BY <1>3, <1>4 DEF Surjection, Range

\* What a server reads from its directory after a restart.
LEMMA RestartSorts ==
    ASSUME served \in [Curd -> Table], NEW s \in Curd, Sorted(served[s]),
           NEW listdir \in SetToSeqs(Files(s))
    PROVE  /\ scan(listdir) \in Table /\ Sorted(scan(listdir))
           /\ \A p \in Package, v \in Version :
                  Range(scan(listdir)[p][v]) = Range(served[s][p][v])
<1>1. \A p \in Package, v \in Version : Range(served[s][p][v]) \subseteq Archive
  <2>1. \A p \in Package, v \in Version : served[s][p][v] \in Seq(Archive)
    BY DEF Table
  <2>2. QED
    BY <2>1, RangeOfSeq
<1>2. Files(s) \subseteq Archive /\ IsFiniteSet(Files(s))
  <2>1. Files(s) \subseteq Archive
    BY <1>1 DEF Files
  <2>2. QED
    BY <2>1, LocatorsAssumption, FS_Subset
<1>3. listdir \in Seq(Files(s)) /\ Range(listdir) = Files(s)
  BY <1>2, ListsAll
<1>4. listdir \in Seq(Archive)
  BY <1>2, <1>3
<1>5. ASSUME NEW p \in Package, NEW v \in Version
      PROVE  {f \in Files(s) : Describes[f] = <<p, v>>} = Range(served[s][p][v])
  <2>1. \A f \in Range(served[s][p][v]) : f \in Files(s) /\ Describes[f] = <<p, v>>
    BY DEF Files, Sorted
  <2>2. ASSUME NEW f \in Files(s), Describes[f] = <<p, v>>
        PROVE  f \in Range(served[s][p][v])
    <3>1. PICK q \in Package, w \in Version : f \in Range(served[s][q][w])
      BY DEF Files
    <3>2. Describes[f] = <<q, w>>
      BY <3>1 DEF Sorted
    <3>3. q = p /\ w = v
      BY <2>2, <3>2
    <3>4. QED
      BY <3>1, <3>3
  <2>3. QED
    BY <2>1, <2>2
<1>6. /\ scan(listdir) \in Table /\ Sorted(scan(listdir))
      /\ \A p \in Package, v \in Version :
             Range(scan(listdir)[p][v]) = {f \in Range(listdir) : Describes[f] = <<p, v>>}
  BY <1>4, ScanSorts
<1>7. \A p \in Package, v \in Version :
          Range(scan(listdir)[p][v]) = Range(served[s][p][v])
  BY <1>3, <1>5, <1>6
<1>8. QED
  BY <1>6, <1>7

-----------------------------------------------------------------------------
(* The locators, and one call of locate *)

\* The locators are the servers and then the indexes.
LEMMA LocatorFacts ==
    /\ Len(Locators) \in Nat \ {0} /\ DOMAIN Locators = 1 .. Len(Locators)
    /\ Range(Locators) = Curd \cup PyPi /\ None \notin Range(Locators)
    /\ \A n \in DOMAIN Locators : Locators[n] \in Range(Locators)
    /\ \A n \in DOMAIN Locators : Locators[n] \in PyPi =>
           \A s \in Curd : \E k \in 1 .. n - 1 : Locators[k] = s
<1> DEFINE U == Curd \cup PyPi
<1>1. Curds \in Seq(U) /\ Indexes \in Seq(U)
  BY LocatorsAssumption
<1>2. Locators \in Seq(U) /\ Len(Locators) \in Nat /\ DOMAIN Locators = 1 .. Len(Locators)
  BY <1>1 DEF Locators
<1>3. Range(Locators) = U
  <2> HIDE DEF U
  <2>1. Range(Locators) = Range(Curds) \cup Range(Indexes)
    BY <1>1, RangeConcatenation DEF Locators
  <2>2. QED
    BY <2>1 DEF U, Curd, PyPi
<1>4. \A n \in DOMAIN Locators : Locators[n] \in Range(Locators)
  BY DEF Range
<1>5. Len(Locators) # 0
  <2>1. Locators # <<>>
    BY LocatorsAssumption
  <2>2. QED
    BY <1>2, <2>1
<1>6. /\ Len(Curds) \in Nat /\ DOMAIN Curds = 1 .. Len(Curds) /\ Len(Curds) <= Len(Locators)
      /\ \A k \in 1 .. Len(Curds) : Locators[k] = Curds[k]
  BY <1>1 DEF Locators
<1>7. ASSUME NEW n \in DOMAIN Locators, Locators[n] \in PyPi, NEW s \in Curd
      PROVE  \E k \in 1 .. n - 1 : Locators[k] = s
  <2>1. \A k \in 1 .. Len(Curds) : Locators[k] \in Curd
    BY <1>6 DEF Curd, Range
  <2>2. n \notin 1 .. Len(Curds)
    BY <1>7, <2>1, LocatorsAssumption
  <2>3. PICK k \in 1 .. Len(Curds) : Curds[k] = s
    BY <1>6 DEF Curd, Range
  <2>4. n \in 1 .. Len(Locators)
    BY <1>2
  <2>5. k \in 1 .. n - 1
    BY <1>2, <1>6, <2>2, <2>3, <2>4
  <2>6. QED
    BY <1>6, <2>3, <2>5
<1>8. None \notin U
  BY LocatorsAssumption
<1>9. QED
  BY <1>2, <1>3, <1>4, <1>5, <1>7, <1>8

\* An empty listing, and what the thread that takes a requirement starts from.
LEMMA NothingFacts ==
    /\ \A p : NoVersion \in ListingsOf(p)
    /\ IsJob(NoJob) /\ NoJob.top = NoVersion /\ NoJob.below = NoVersion
    /\ Doing("idle", NoJob)
    /\ \A r \in Requirement, n \in DOMAIN Locators :
           Doing("ask", [NoJob EXCEPT !.req = r, !.at = n])
<1>1. \A p : NoVersion \in ListingsOf(p)
  BY DEF NoVersion, ListingsOf, Listing
<1>2. IsJob(NoJob) /\ NoJob.top = NoVersion /\ NoJob.below = NoVersion
  BY DEF IsJob, NoJob
<1>3. ASSUME NEW r \in Requirement, NEW n \in DOMAIN Locators
      PROVE  Doing("ask", [NoJob EXCEPT !.req = r, !.at = n])
  <2> DEFINE j == [NoJob EXCEPT !.req = r, !.at = n]
  <2>1. IsJob(j) /\ j.req = r /\ j.at = n /\ j.top = NoVersion /\ j.below = NoVersion
    <3>1. PICK k : k = j
      OBVIOUS
    <3>2. IsJob(k) /\ k.req = r /\ k.at = n /\ k.top = NoVersion /\ k.below = NoVersion
      BY <1>2, <3>1 DEF IsJob
    <3> HIDE DEF j
    <3>3. QED
      BY <3>1, <3>2
  <2> HIDE DEF j
  <2>2. Doing("ask", j)
    BY <1>1, <2>1 DEF Doing
  <2>3. QED
    BY <2>2 DEF j
<1>4. QED
  BY <1>1, <1>2, <1>3 DEF Doing

\* find_packages answers with an archive of the package, in a version that suits.
LEMMA FindsAmong ==
    ASSUME NEW r \in Requirement, NEW versions \in ListingsOf(PkgOf[r]), Suitable(versions, r) # {}
    PROVE  find_packages(versions, r) \in Of(PkgOf[r])
<1> DEFINE v == Max(Suitable(versions, r))
<1>1. Suitable(versions, r) \subseteq Version
  BY LocatorsAssumption DEF Suitable
<1>2. Suitable(versions, r) \subseteq Nat /\ IsFiniteSet(Suitable(versions, r))
  BY <1>1, LocatorsAssumption, FS_Subset
<1>3. v \in Suitable(versions, r)
  BY <1>2, MaxIsGreatest
<1>4. v \in Version /\ versions[v] # None
  BY <1>1, <1>3 DEF Suitable
<1> HIDE DEF v
<1>5. versions[v] \in Archive /\ Describes[versions[v]] = <<PkgOf[r], v>>
  BY <1>4 DEF ListingsOf, Listing
<1>6. QED
  BY <1>4, <1>5 DEF Of, find_packages, v

\* A thread goes on.
LEMMA ThreadMoves ==
    ASSUME Threads, NEW t \in Thread, pc[t] # "idle", answer' = answer,
           NEW k, NEW j, Doing(k, j), k # "idle", j.req = job[t].req,
           pc' = [pc EXCEPT ![t] = k], job' = [job EXCEPT ![t] = j]
    PROVE  Threads'
<1>1. /\ pc' = [u \in Thread |-> pc'[u]] /\ job' = [u \in Thread |-> job'[u]]
      /\ pc'[t] = k /\ job'[t] = j
      /\ \A u \in Thread \ {t} : pc'[u] = pc[u] /\ job'[u] = job[u]
  BY DEF Threads
<1>2. \A u \in Thread : Doing(pc'[u], job'[u])
  BY <1>1 DEF Threads
<1>3. \A u \in Thread : job'[u].req = job[u].req /\ (pc'[u] # "idle" <=> pc[u] # "idle")
  BY <1>1
<1>4. QED
  BY <1>1, <1>2, <1>3 DEF Threads

\* locate is over for a thread.
LEMMA ThreadFinishes ==
    ASSUME Threads, Answered, NEW t \in Thread, pc[t] # "idle",
           NEW reply \in Replies, Proper(job[t].req, reply), Finish(t, reply)
    PROVE  /\ Threads' /\ Answered'
           /\ \A c \in Client \ {ClientOf[t]} : answer'[c] = answer[c]
<1> DEFINE c == ClientOf[t]
           r == job[t].req
<1>1. c \in Client /\ r \in Requirement /\ answer[c][r].state = "searching"
  BY LocatorsAssumption DEF Threads, Doing
<1>2. /\ pc' = [u \in Thread |-> pc'[u]] /\ job' = [u \in Thread |-> job'[u]]
      /\ pc'[t] = "idle" /\ job'[t] = NoJob
      /\ \A u \in Thread \ {t} : pc'[u] = pc[u] /\ job'[u] = job[u]
  BY DEF Threads, Finish, Goto
<1>3. /\ answer' \in [Client -> [Requirement -> Replies]]
      /\ answer'[c][r] = reply
      /\ \A d \in Client, q \in Requirement : d # c \/ q # r => answer'[d][q] = answer[d][q]
      /\ \A d \in Client \ {c} : answer'[d] = answer[d]
  BY <1>1 DEF Answered, Finish
<1>4. Answered'
  <2>1. \A d \in Client, q \in Requirement : Proper(q, answer'[d][q])
    BY <1>1, <1>3 DEF Answered
  <2>2. QED
    BY <1>3, <2>1 DEF Answered
<1>5. \A u \in Thread : Doing(pc'[u], job'[u])
  BY <1>2, NothingFacts DEF Threads
<1>6. ASSUME NEW u \in Thread, pc'[u] # "idle"
      PROVE  answer'[ClientOf[u]][job'[u].req].state = "searching"
  <2>1. u # t /\ pc[u] # "idle" /\ job'[u] = job[u]
    BY <1>2, <1>6
  <2>2. ClientOf[u] # c \/ job[u].req # r
    BY <2>1 DEF Threads
  <2>3. ClientOf[u] \in Client /\ job[u].req \in Requirement
    BY <2>1, LocatorsAssumption DEF Threads, Doing
  <2>4. QED
    BY <1>3, <2>1, <2>2, <2>3 DEF Threads
<1>7. ASSUME NEW u \in Thread, NEW w \in Thread, u # w, ClientOf[u] = ClientOf[w],
             pc'[u] # "idle", pc'[w] # "idle"
      PROVE  job'[u].req # job'[w].req
  BY <1>2, <1>7 DEF Threads
<1>8. QED
  BY <1>2, <1>3, <1>4, <1>5, <1>6, <1>7 DEF Threads

\* What a step of t on the way through locate leaves alone, but for the visits and the misses.
SearchFrame(t) ==
    /\ served' = served
    /\ \A c \in Client \ {ClientOf[t]} :
        answer'[c] = answer[c] /\ known'[c] = known[c]
        /\ requirements_not_found'[c] = requirements_not_found[c]
    /\ \A c \in Client, s \in Curd :
        DOMAIN requirements_not_found[c][s] \subseteq DOMAIN requirements_not_found'[c][s]

\* A locator has answered with a listing of the package.
LEMMA ThreadDecides ==
    ASSUME Threads, Answered, NEW t \in Thread, pc[t] # "idle",
           NEW versions \in ListingsOf(Wanted(t)), Decide(t, versions)
    PROVE  /\ Threads' /\ Answered'
           /\ \A c \in Client \ {ClientOf[t]} : answer'[c] = answer[c]
<1> DEFINE r == job[t].req
<1>1. r \in Requirement /\ job[t].at \in DOMAIN Locators
  BY DEF Threads, Doing
<1>2. CASE /\ Suitable(versions, r) # {}
           /\ Finish(t, Reply("found", find_packages(versions, r), Here(t)))
  <2> DEFINE url == find_packages(versions, r)
             reply == Reply("found", url, Here(t))
  <2>1. url \in Of(PkgOf[r])
    BY <1>1, <1>2, FindsAmong DEF Wanted
  <2>2. url \in Archive /\ url # None /\ Here(t) \in Range(Locators) /\ Here(t) # None
    BY <1>1, <2>1, LocatorFacts, LocatorsAssumption DEF Of, Here
  <2> HIDE DEF url
  <2>3. reply \in Replies /\ Proper(r, reply)
    BY <2>1, <2>2 DEF Replies, Proper, Reply, Ended
  <2>4. Finish(t, reply)
    BY <1>2 DEF url
  <2> HIDE DEF reply
  <2>5. QED
    BY <2>3, <2>4, ThreadFinishes
<1>3. CASE /\ job[t].at < Len(Locators)
           /\ job' = [job EXCEPT ![t] = [NoJob EXCEPT !.req = r, !.at = job[t].at + 1]]
           /\ Goto(t, "ask")
           /\ UNCHANGED answer
  <2> DEFINE j == [NoJob EXCEPT !.req = r, !.at = job[t].at + 1]
  <2>1. job[t].at + 1 \in DOMAIN Locators
    BY <1>1, <1>3, LocatorFacts
  <2>2. Doing("ask", j) /\ j.req = r
    BY <1>1, <2>1, NothingFacts DEF NoJob
  <2> HIDE DEF j
  <2>3. job' = [job EXCEPT ![t] = j] /\ pc' = [pc EXCEPT ![t] = "ask"]
    BY <1>3 DEF j, Goto
  <2>4. Threads'
    BY <1>3, <2>2, <2>3, ThreadMoves
  <2>5. QED
    BY <1>3, <2>4 DEF Answered
<1>4. CASE Finish(t, Reply("not found", None, None))
  <2> DEFINE reply == Reply("not found", None, None)
  <2>1. reply \in Replies /\ Proper(r, reply)
    BY DEF Replies, Proper, Reply, Ended
  <2> HIDE DEF reply
  <2>2. Finish(t, reply)
    BY <1>4 DEF reply
  <2>3. QED
    BY <2>1, <2>2, ThreadFinishes
<1>5. QED
  BY <1>2, <1>3, <1>4 DEF Decide

\* A requirement leaves the queue.
LEMMA TakeKeeps ==
    ASSUME Threads, Answered, Shared, NEW t \in Thread, NEW r \in Requirement, Take(t, r)
    PROVE  Threads' /\ Answered' /\ Shared' /\ SearchFrame(t)
<1> DEFINE c == ClientOf[t]
           j == [NoJob EXCEPT !.req = r, !.at = 1]
<1>1. c \in Client /\ pc[t] = "idle" /\ answer[c][r].state = "queued"
  BY LocatorsAssumption DEF Take, At
<1>2. answer[c][r] \in Replies /\ Proper(r, answer[c][r])
  BY <1>1 DEF Answered
<1>3. /\ answer' \in [Client -> [Requirement -> Replies]]
      /\ answer'[c][r] = [answer[c][r] EXCEPT !.state = "searching"]
      /\ \A d \in Client, q \in Requirement : d # c \/ q # r => answer'[d][q] = answer[d][q]
      /\ \A d \in Client \ {c} : answer'[d] = answer[d]
  BY <1>1, <1>2 DEF Answered, Take, Replies
<1>4. answer'[c][r].state = "searching" /\ Proper(r, answer'[c][r])
  BY <1>1, <1>2, <1>3 DEF Proper, Replies
<1>5. Answered'
  <2>1. \A d \in Client, q \in Requirement : Proper(q, answer'[d][q])
    BY <1>1, <1>3, <1>4 DEF Answered
  <2>2. QED
    BY <1>3, <2>1 DEF Answered
<1>6. Doing("ask", j) /\ j.req = r
  <2>1. 1 \in DOMAIN Locators
    BY LocatorFacts
  <2>2. Doing("ask", j)
    BY <2>1, NothingFacts
  <2>3. QED
    BY <2>2 DEF NoJob
<1> HIDE DEF j
<1>7. /\ pc' = [u \in Thread |-> pc'[u]] /\ job' = [u \in Thread |-> job'[u]]
      /\ pc'[t] = "ask" /\ job'[t] = j
      /\ \A u \in Thread \ {t} : pc'[u] = pc[u] /\ job'[u] = job[u]
  BY DEF Threads, Take, Goto, j
<1>8. \A u \in Thread : Doing(pc'[u], job'[u])
  BY <1>6, <1>7 DEF Threads
<1>9. ASSUME NEW u \in Thread \ {t}, pc[u] # "idle"
      PROVE  /\ answer'[ClientOf[u]][job[u].req].state = "searching"
             /\ ClientOf[u] # c \/ job[u].req # r
  <2>1. ClientOf[u] \in Client /\ job[u].req \in Requirement
        /\ answer[ClientOf[u]][job[u].req].state = "searching"
    BY <1>9, LocatorsAssumption DEF Threads, Doing
  <2>2. QED
    BY <1>1, <1>3, <2>1
<1>10. \A u \in Thread : pc'[u] # "idle" => answer'[ClientOf[u]][job'[u].req].state = "searching"
  BY <1>4, <1>6, <1>7, <1>9
<1>11. ASSUME NEW u \in Thread, NEW w \in Thread, u # w, ClientOf[u] = ClientOf[w],
              pc'[u] # "idle", pc'[w] # "idle"
       PROVE  job'[u].req # job'[w].req
  <2>1. CASE u = t
    BY <1>6, <1>7, <1>9, <1>11, <2>1
  <2>2. CASE w = t
    BY <1>6, <1>7, <1>9, <1>11, <2>2
  <2>3. CASE u # t /\ w # t
    BY <1>7, <1>11, <2>3 DEF Threads
  <2>4. QED
    BY <2>1, <2>2, <2>3
<1>12. Threads'
  BY <1>7, <1>8, <1>10, <1>11 DEF Threads
<1>13. UNCHANGED <<served, known, seen, requirements_not_found>>
  BY DEF Take, sharedVars
<1>14. Shared' /\ SearchFrame(t)
  BY <1>3, <1>13 DEF Shared, SearchFrame
<1>15. QED
  BY <1>5, <1>12, <1>14

\* A listing comes from `_cache'.
LEMMA RememberKeeps ==
    ASSUME Threads, Answered, Shared, NEW t \in Thread, Remember(t)
    PROVE  Threads' /\ Answered' /\ Shared' /\ SearchFrame(t)
<1>1. pc[t] # "idle" /\ Known(t) # None /\ Decide(t, Known(t))
      /\ UNCHANGED <<served, known, seen, requirements_not_found>>
  BY DEF Remember, At, sharedVars
<1>2. Known(t) \in ListingsOf(Wanted(t))
  <2>1. /\ ClientOf[t] \in Client /\ Wanted(t) \in Package
        /\ Here(t) \in Range(Locators)
    BY <1>1, LocatorFacts, LocatorsAssumption DEF Threads, Doing, Wanted, Here
  <2>2. QED
    BY <1>1, <2>1 DEF Shared, Known
<1>3. /\ Threads' /\ Answered'
      /\ \A c \in Client \ {ClientOf[t]} : answer'[c] = answer[c]
  BY <1>1, <1>2, ThreadDecides
<1>4. QED
  BY <1>1, <1>3 DEF Shared, SearchFrame

\* Where a thread is, which package it looks for and whose it is.
LEMMA Whereabouts ==
    ASSUME Threads, NEW t \in Thread, pc[t] # "idle"
    PROVE  /\ ClientOf[t] \in Client /\ job[t].req \in Requirement
           /\ Wanted(t) \in Package /\ Here(t) \in Range(Locators)
           /\ job[t].top \in ListingsOf(Wanted(t)) /\ job[t].below \in ListingsOf(Wanted(t))
           /\ IsJob(job[t]) /\ job[t].at \in DOMAIN Locators
BY LocatorFacts, LocatorsAssumption DEF Threads, Doing, Wanted, Here

\* What a server lists of a package is of that package.
LEMMA ListedFacts ==
    ASSUME Filed, NEW s \in Curd, NEW p \in Package
    PROVE  /\ Listed(s, p) \in ListingsOf(p)
           /\ \A v \in Version : served[s][p][v] # <<>> => Listed(s, p)[v] # None
<1>1. ASSUME NEW v \in Version, served[s][p][v] # <<>>
      PROVE  /\ Head(served[s][p][v]) \in Archive /\ Head(served[s][p][v]) # None
             /\ Describes[Head(served[s][p][v])] = <<p, v>>
  <2>1. served[s][p][v] \in Seq(Archive)
    BY DEF Filed, Table
  <2>2. Head(served[s][p][v]) \in Range(served[s][p][v]) /\ Head(served[s][p][v]) \in Archive
    <3>1. /\ 1 \in DOMAIN served[s][p][v] /\ Head(served[s][p][v]) = served[s][p][v][1]
          /\ served[s][p][v][1] \in Archive
      BY <1>1, <2>1
    <3>2. QED
      BY <3>1 DEF Range
  <2>3. QED
    BY <2>2, LocatorsAssumption DEF Filed, Sorted
<1>2. \A v \in Version : Listed(s, p)[v] =
          IF served[s][p][v] = <<>> THEN None ELSE Head(served[s][p][v])
  BY DEF Listed
<1>3. Listed(s, p) \in Listing
  BY <1>1 DEF Listed, Listing
<1>4. QED
  BY <1>1, <1>2, <1>3 DEF ListingsOf

\* A curdling server answers.
LEMMA AskCurdKeeps ==
    ASSUME Filed, Threads, Answered, Shared, NEW t \in Thread, AskCurd(t)
    PROVE  Threads' /\ Answered' /\ Shared' /\ SearchFrame(t)
<1> DEFINE c == ClientOf[t]
           s == Here(t)
           p == Wanted(t)
           listing == IF c \in Admits[s] THEN Listed(s, p) ELSE NoVersion
           j == [job[t] EXCEPT !.top = listing]
<1>1. /\ pc[t] = "ask" /\ s \in Curd
      /\ requirements_not_found' =
             IF listing # NoVersion THEN requirements_not_found
             ELSE [requirements_not_found EXCEPT ![c][s] = Append(@, p)]
      /\ Learn(t, listing)
      /\ UNCHANGED <<served, known, seen, answer>>
  BY DEF AskCurd, At
<1>2. /\ c \in Client /\ p \in Package /\ job[t].req \in Requirement
      /\ job[t].below \in ListingsOf(p) /\ IsJob(job[t]) /\ job[t].at \in DOMAIN Locators
  BY <1>1, Whereabouts
<1>3. listing \in ListingsOf(p)
  BY <1>1, <1>2, ListedFacts, NothingFacts
<1>4. Threads'
  <2> HIDE DEF c, s, p, listing
  <2>1. PICK i : i = j
    OBVIOUS
  <2>2. IsJob(i) /\ i.req = job[t].req /\ i.at = job[t].at /\ i.top = listing /\ i.below = job[t].below
    BY <1>2, <2>1 DEF IsJob
  <2>3. Doing("learn", i)
    BY <1>2, <1>3, <2>2 DEF Doing, p, Wanted
  <2>4. job' = [job EXCEPT ![t] = i] /\ pc' = [pc EXCEPT ![t] = "learn"]
    BY <1>1, <2>1 DEF Learn, Goto
  <2>5. QED
    BY <1>1, <2>2, <2>3, <2>4, ThreadMoves
<1>5. Answered'
  BY <1>1 DEF Answered
<1>6. /\ requirements_not_found' \in [Client -> [Curd -> Seq(Package)]]
      /\ \A d \in Client \ {c} : requirements_not_found'[d] = requirements_not_found[d]
      /\ \A d \in Client, z \in Curd :
             DOMAIN requirements_not_found[d][z] \subseteq DOMAIN requirements_not_found'[d][z]
  <2> HIDE DEF c, s, p, listing
  <2>1. requirements_not_found \in [Client -> [Curd -> Seq(Package)]]
    BY DEF Shared
  <2>2. CASE listing # NoVersion
    BY <1>1, <2>1, <2>2
  <2>3. CASE listing = NoVersion
    <3> DEFINE q == requirements_not_found[c][s]
    <3>1. q \in Seq(Package)
      BY <1>1, <1>2, <2>1
    <3>2. Append(q, p) \in Seq(Package) /\ DOMAIN q \subseteq DOMAIN Append(q, p)
      <4> HIDE DEF q
      <4>1. Append(q, p) \in Seq(Package) /\ Len(Append(q, p)) = Len(q) + 1 /\ Len(q) \in Nat
        BY <1>2, <3>1
      <4>2. DOMAIN q = 1 .. Len(q) /\ DOMAIN Append(q, p) = 1 .. Len(q) + 1
        BY <3>1, <4>1
      <4>3. QED
        BY <4>1, <4>2
    <3>3. requirements_not_found' = [requirements_not_found EXCEPT ![c][s] = Append(q, p)]
      BY <1>1, <2>3
    <3>4. /\ requirements_not_found'[c][s] = Append(q, p)
          /\ \A d \in Client, z \in Curd : d # c \/ z # s =>
                 requirements_not_found'[d][z] = requirements_not_found[d][z]
          /\ \A d \in Client \ {c} : requirements_not_found'[d] = requirements_not_found[d]
      <4> HIDE DEF q
      <4>1. QED
        BY <1>1, <1>2, <2>1, <3>3
    <3>5. requirements_not_found' \in [Client -> [Curd -> Seq(Package)]]
      <4> HIDE DEF q
      <4>1. QED
        BY <1>1, <1>2, <2>1, <3>2, <3>3
    <3>6. QED
      BY <2>1, <3>2, <3>4, <3>5
  <2>4. QED
    BY <2>2, <2>3
<1>7. Shared' /\ SearchFrame(t)
  BY <1>1, <1>6 DEF Shared, SearchFrame
<1>8. QED
  BY <1>4, <1>5, <1>7

\* A thread goes on, and nobody hears of it.
LEMMA GoesOn ==
    ASSUME Threads, Answered, Shared, NEW t \in Thread, pc[t] # "idle",
           NEW k, NEW i, k # "idle", Doing(k, i), i.req = job[t].req,
           pc' = [pc EXCEPT ![t] = k], job' = [job EXCEPT ![t] = i],
           UNCHANGED <<served, known, requirements_not_found, answer>>,
           seen' \in [Client -> [PyPi -> SUBSET Archive]]
    PROVE  Threads' /\ Answered' /\ Shared' /\ SearchFrame(t)
<1>1. Threads'
  BY ThreadMoves
<1>2. QED
  BY <1>1 DEF Answered, Shared, SearchFrame

\* So it is when only the pages and links change.
LEMMA GoesOnLooking ==
    ASSUME Threads, Answered, Shared, NEW t \in Thread, pc[t] # "idle", NEW pages, NEW links,
           NEW i, \/ i = [job[t] EXCEPT !.pages = pages]
                  \/ i = [job[t] EXCEPT !.links = links]
                  \/ i = [job[t] EXCEPT !.links = links, !.pages = pages],
           NEW k \in {"ask", "page", "links", "learn"}, k \in {"page", "links"} => Here(t) \in PyPi,
           pc' = [pc EXCEPT ![t] = k], job' = [job EXCEPT ![t] = i],
           UNCHANGED <<served, known, seen, requirements_not_found, answer>>
    PROVE  Threads' /\ Answered' /\ Shared' /\ SearchFrame(t)
<1>1. /\ job[t].req \in Requirement /\ job[t].at \in DOMAIN Locators /\ IsJob(job[t])
      /\ job[t].top \in ListingsOf(Wanted(t)) /\ job[t].below \in ListingsOf(Wanted(t))
  BY Whereabouts
<1>2. /\ IsJob(i) /\ i.req = job[t].req /\ i.at = job[t].at
      /\ i.top = job[t].top /\ i.below = job[t].below
  <2>1. PICK j : j = job[t]
    OBVIOUS
  <2>2. \/ i = [j EXCEPT !.pages = pages]
        \/ i = [j EXCEPT !.links = links]
        \/ i = [j EXCEPT !.links = links, !.pages = pages]
    BY <2>1
  <2>3. IsJob(j)
    BY <1>1, <2>1
  <2>4. IsJob(i) /\ i.req = j.req /\ i.at = j.at /\ i.top = j.top /\ i.below = j.below
    <3>1. CASE i = [j EXCEPT !.pages = pages]
      BY <2>3, <3>1 DEF IsJob
    <3>2. CASE i = [j EXCEPT !.links = links]
      BY <2>3, <3>2 DEF IsJob
    <3>3. CASE i = [j EXCEPT !.links = links, !.pages = pages]
      BY <2>3, <3>3 DEF IsJob
    <3>4. QED
      BY <2>2, <3>1, <3>2, <3>3
  <2>5. QED
    BY <2>1, <2>4
<1>3. Doing(k, i)
  BY <1>1, <1>2 DEF Doing, Wanted, Here
<1>4. seen' \in [Client -> [PyPi -> SUBSET Archive]]
  BY DEF Shared
<1>5. QED
  BY <1>2, <1>3, <1>4, GoesOn

\* Or when it learns a listing of the package.
LEMMA Learns ==
    ASSUME Threads, Answered, Shared, NEW t \in Thread, pc[t] # "idle",
           NEW versions \in ListingsOf(Wanted(t)), Learn(t, versions),
           UNCHANGED <<served, known, seen, requirements_not_found, answer>>
    PROVE  Threads' /\ Answered' /\ Shared' /\ SearchFrame(t)
<1>1. /\ job[t].req \in Requirement /\ job[t].at \in DOMAIN Locators /\ IsJob(job[t])
      /\ job[t].below \in ListingsOf(Wanted(t))
  BY Whereabouts
<1>2. PICK i : i = [job[t] EXCEPT !.top = versions]
  OBVIOUS
<1>3. IsJob(i) /\ i.req = job[t].req /\ i.at = job[t].at /\ i.top = versions /\ i.below = job[t].below
  BY <1>1, <1>2 DEF IsJob
<1>4. Doing("learn", i)
  BY <1>1, <1>3 DEF Doing, Wanted
<1>5. pc' = [pc EXCEPT ![t] = "learn"] /\ job' = [job EXCEPT ![t] = i]
  BY <1>2 DEF Learn, Goto
<1>6. seen' \in [Client -> [PyPi -> SUBSET Archive]]
  BY DEF Shared
<1>7. QED
  BY <1>3, <1>4, <1>5, <1>6, GoesOn

\* A server does not answer.
LEMMA NoAnswerKeeps ==
    ASSUME Threads, Answered, Shared, NEW t \in Thread, NoAnswer(t)
    PROVE  Threads' /\ Answered' /\ Shared' /\ SearchFrame(t)
<1>1. pc[t] # "idle" /\ UNCHANGED <<served, known, seen, requirements_not_found, answer>>
  BY DEF NoAnswer, At, sharedVars
<1>2. pc = [u \in Thread |-> pc[u]]
  BY DEF Threads
<1>3. CASE Learn(t, NoVersion)
  BY <1>1, <1>3, NothingFacts, Learns
<1>4. CASE /\ pc[t] = "page" /\ job' = [job EXCEPT ![t].pages = Tail(@)] /\ UNCHANGED pc
  <2> DEFINE pages == Tail(job[t].pages)
  <2>1. PICK i : i = [job[t] EXCEPT !.pages = pages]
    OBVIOUS
  <2>2. job' = [job EXCEPT ![t] = i] /\ pc' = [pc EXCEPT ![t] = "page"] /\ Here(t) \in PyPi
    BY <1>2, <1>4, <2>1 DEF Threads, Doing, Here
  <2> HIDE DEF pages
  <2>3. QED
    BY <1>1, <2>1, <2>2, GoesOnLooking
<1>5. CASE pc[t] = "links" /\ job' = [job EXCEPT ![t].links = Rest(t)] /\ UNCHANGED pc
  <2>1. PICK i : i = [job[t] EXCEPT !.links = Rest(t)]
    OBVIOUS
  <2>2. job' = [job EXCEPT ![t] = i] /\ pc' = [pc EXCEPT ![t] = "links"] /\ Here(t) \in PyPi
    BY <1>2, <1>5, <2>1 DEF Threads, Doing, Here
  <2>3. QED
    BY <1>1, <2>1, <2>2, GoesOnLooking
<1>6. QED
  BY <1>3, <1>4, <1>5 DEF NoAnswer, At, Looking

\* The search of an index starts.
LEMMA AskIndexKeeps ==
    ASSUME Threads, Answered, Shared, NEW t \in Thread, AskIndex(t)
    PROVE  Threads' /\ Answered' /\ Shared' /\ SearchFrame(t)
<1> DEFINE pages == Spellings[Here(t)][Wanted(t)]
<1>1. /\ pc[t] # "idle" /\ Here(t) \in PyPi /\ pc' = [pc EXCEPT ![t] = "page"]
      /\ job' = [job EXCEPT ![t].pages = pages]
      /\ UNCHANGED <<served, known, seen, requirements_not_found, answer>>
  BY DEF AskIndex, At, Goto, sharedVars
<1> HIDE DEF pages
<1>2. PICK i : i = [job[t] EXCEPT !.pages = pages]
  OBVIOUS
<1>3. job' = [job EXCEPT ![t] = i]
  BY <1>1, <1>2
<1>4. QED
  BY <1>1, <1>2, <1>3, GoesOnLooking

\* Too many redirections: the error goes through locate.
LEMMA TooManyRedirectsKeeps ==
    ASSUME Threads, Answered, Shared, NEW t \in Thread, pc[t] # "idle", TooManyRedirects(t)
    PROVE  Threads' /\ Answered' /\ Shared' /\ SearchFrame(t)
<1> DEFINE reply == Reply("error", None, Here(t))
<1>1. Here(t) \in Range(Locators) /\ Here(t) # None
  BY Whereabouts, LocatorFacts
<1>2. reply \in Replies /\ Proper(job[t].req, reply)
  BY <1>1 DEF Replies, Proper, Reply, Ended
<1>3. Finish(t, reply) /\ UNCHANGED <<served, known, seen, requirements_not_found>>
  BY DEF TooManyRedirects, sharedVars
<1> HIDE DEF reply
<1>4. /\ Threads' /\ Answered'
      /\ \A c \in Client \ {ClientOf[t]} : answer'[c] = answer[c]
  BY <1>2, <1>3, ThreadFinishes
<1>5. QED
  BY <1>3, <1>4 DEF Shared, SearchFrame

\* A page, or none.
LEMMA FetchKeeps ==
    ASSUME Threads, Answered, Shared, NEW t \in Thread, Fetch(t)
    PROVE  Threads' /\ Answered' /\ Shared' /\ SearchFrame(t)
<1> DEFINE page == http_retrieve(Head(job[t].pages))
           links == Queue(page, FALSE)
           pages == Tail(job[t].pages)
<1>1. pc[t] = "page" /\ pc[t] # "idle" /\ Here(t) \in PyPi
  BY DEF Threads, Doing, Fetch, At, Here
<1>2. CASE TooManyRedirects(t)
  BY <1>1, <1>2, TooManyRedirectsKeeps
<1>3. CASE /\ job' = [job EXCEPT ![t].links = links, ![t].pages = Tail(@)]
           /\ Goto(t, "links")
           /\ UNCHANGED <<served, sharedVars, answer, faults, history>>
  <2>1. /\ job' = [job EXCEPT ![t] = [job[t] EXCEPT !.links = links, !.pages = pages]]
        /\ pc' = [pc EXCEPT ![t] = "links"]
        /\ UNCHANGED <<served, known, seen, requirements_not_found, answer>>
    <3> HIDE DEF links
    <3>1. QED
      BY <1>3 DEF Goto, sharedVars
  <2> HIDE DEF links, pages
  <2>2. PICK i : i = [job[t] EXCEPT !.links = links, !.pages = pages]
    OBVIOUS
  <2>3. QED
    BY <1>1, <2>1, <2>2, GoesOnLooking
<1>4. QED
  BY <1>2, <1>3 DEF Fetch

\* No page is left.
LEMMA NoPageKeeps ==
    ASSUME Threads, Answered, Shared, NEW t \in Thread, NoPage(t)
    PROVE  Threads' /\ Answered' /\ Shared' /\ SearchFrame(t)
BY NothingFacts, Learns DEF NoPage, At, sharedVars

\* A thread between two links of a page of an index.
LEMMA AtLinks ==
    ASSUME Threads, NEW t \in Thread, Looking(t)
    PROVE  /\ pc[t] = "links" /\ pc[t] # "idle" /\ Here(t) \in PyPi
           /\ pc = [pc EXCEPT ![t] = "links"]
           /\ IsJob(job[t]) /\ job = [job EXCEPT ![t] = job[t]]
<1>1. pc[t] = "links" /\ pc = [u \in Thread |-> pc[u]] /\ job = [u \in Thread |-> job[u]]
  BY DEF Threads, Looking, At
<1>2. QED
  BY <1>1 DEF Threads, Doing, Here

\* A link is done with.
LEMMA RestKeeps ==
    ASSUME Threads, Answered, Shared, NEW t \in Thread, Looking(t), NEW links,
           job' = [job EXCEPT ![t].links = links],
           UNCHANGED <<served, sharedVars, answer, pc>>
    PROVE  Threads' /\ Answered' /\ Shared' /\ SearchFrame(t)
<1>1. PICK i : i = [job[t] EXCEPT !.links = links]
  OBVIOUS
<1>2. job' = [job EXCEPT ![t] = i] /\ pc' = [pc EXCEPT ![t] = "links"]
  BY <1>1, AtLinks
<1>3. UNCHANGED <<served, known, seen, requirements_not_found, answer>>
  BY DEF sharedVars
<1>4. QED
  BY <1>1, <1>2, <1>3, AtLinks, GoesOnLooking

\* A home page is fetched.
LEMMA HomeKeeps ==
    ASSUME Threads, Answered, Shared, NEW t \in Thread, Home(t)
    PROVE  Threads' /\ Answered' /\ Shared' /\ SearchFrame(t)
<1> DEFINE page == http_retrieve(Link(t).link)
           links == Queue(page, TRUE) \o <<EndOfPage>> \o Rest(t)
<1>1. Looking(t) /\ pc[t] # "idle"
  BY DEF Home, Looking, At
<1>2. CASE TooManyRedirects(t)
  BY <1>1, <1>2, TooManyRedirectsKeeps
<1>3. CASE /\ job' = [job EXCEPT ![t].links = links]
           /\ UNCHANGED <<served, sharedVars, answer, pc, faults, history>>
  <2> HIDE DEF links
  <2>1. QED
    BY <1>1, <1>3, RestKeeps
<1>4. QED
  BY <1>2, <1>3 DEF Home

\* A link is passed over.
LEMMA SkipKeeps ==
    ASSUME Threads, Answered, Shared, NEW t \in Thread, Skip(t)
    PROVE  Threads' /\ Answered' /\ Shared' /\ SearchFrame(t)
<1>1. /\ Looking(t) /\ job' = [job EXCEPT ![t].links = Rest(t)]
      /\ UNCHANGED <<served, sharedVars, answer, pc>>
  BY DEF Skip
<1>2. QED
  BY <1>1, RestKeeps

\* Listings of one package joined.
LEMMA UpdateFacts ==
    ASSUME NEW p, NEW top \in ListingsOf(p), NEW below \in ListingsOf(p)
    PROVE  Update(top, below) \in ListingsOf(p)
BY DEF Update, ListingsOf, Listing

\* A listing and one more archive.
LEMMA FirstWinsFacts ==
    ASSUME NEW p, NEW versions \in ListingsOf(p), NEW a \in Archive
    PROVE  FirstWins(versions, a, p) \in ListingsOf(p)
BY DEF FirstWins, ListingsOf, Listing

\* The home page is done.
LEMMA ReturnKeeps ==
    ASSUME Threads, Answered, Shared, NEW t \in Thread, Return(t)
    PROVE  Threads' /\ Answered' /\ Shared' /\ SearchFrame(t)
<1> DEFINE top == Update(job[t].top, job[t].below)
<1>1. Looking(t) /\ UNCHANGED <<served, known, seen, requirements_not_found, answer, pc>>
  BY DEF Return, sharedVars
<1>2. pc[t] = "links" /\ pc[t] # "idle" /\ Here(t) \in PyPi /\ pc' = [pc EXCEPT ![t] = "links"]
  BY <1>1, AtLinks
<1>3. /\ job[t].req \in Requirement /\ job[t].at \in DOMAIN Locators /\ IsJob(job[t])
      /\ top \in ListingsOf(Wanted(t))
  BY <1>2, Whereabouts, UpdateFacts
<1>4. PICK i : i = [job[t] EXCEPT !.links = Rest(t), !.below = NoVersion, !.top = top]
  OBVIOUS
<1>5. job' = [job EXCEPT ![t] = i]
  BY <1>4 DEF Return
<1>6. IsJob(i) /\ i.req = job[t].req /\ i.at = job[t].at /\ i.top = top /\ i.below = NoVersion
  <2> HIDE DEF top
  <2>1. PICK j : j = job[t]
    OBVIOUS
  <2>2. i = [j EXCEPT !.links = Rest(t), !.below = NoVersion, !.top = top] /\ IsJob(j)
    BY <1>3, <1>4, <2>1
  <2>3. IsJob(i) /\ i.req = j.req /\ i.at = j.at /\ i.top = top /\ i.below = NoVersion
    BY <2>2 DEF IsJob
  <2>4. QED
    BY <2>1, <2>3
<1>7. Doing("links", i)
  BY <1>2, <1>3, <1>6, NothingFacts DEF Doing, Wanted, Here
<1>8. seen' \in [Client -> [PyPi -> SUBSET Archive]]
  BY <1>1 DEF Shared
<1>9. QED
  BY <1>1, <1>2, <1>5, <1>6, <1>7, <1>8, GoesOn

\* An archive was not seen before.
LEMMA SeeKeeps ==
    ASSUME Threads, Answered, Shared, NEW t \in Thread, See(t)
    PROVE  Threads' /\ Answered' /\ Shared' /\ SearchFrame(t)
<1>1. /\ Looking(t) /\ Link(t).link \in Archive
      /\ pc' = [pc EXCEPT ![t] = "visit"] /\ job' = job
      /\ UNCHANGED <<served, known, seen, requirements_not_found, answer>>
  BY DEF See, Goto, sharedVars
<1>2. pc[t] = "links" /\ pc[t] # "idle" /\ job' = [job EXCEPT ![t] = job[t]]
  BY <1>1, AtLinks
<1>3. Doing("visit", job[t])
  BY <1>1, <1>2 DEF Threads, Doing, Link
<1>4. seen' \in [Client -> [PyPi -> SUBSET Archive]]
  BY <1>1 DEF Shared
<1>5. PICK i : i = job[t]
  OBVIOUS
<1>6. QED
  BY <1>1, <1>2, <1>3, <1>4, <1>5, GoesOn

\* An archive joins the listing.
LEMMA VisitKeeps ==
    ASSUME Threads, Answered, Shared, NEW t \in Thread, Visit(t)
    PROVE  Threads' /\ Answered' /\ Shared' /\ SearchFrame(t)
<1> DEFINE a == Link(t).link
           p == Wanted(t)
           top == IF Link(t).sub THEN job[t].top ELSE FirstWins(job[t].top, a, p)
           below == IF Link(t).sub THEN FirstWins(job[t].below, a, p) ELSE job[t].below
<1>1. /\ pc[t] = "visit" /\ pc[t] # "idle" /\ pc' = [pc EXCEPT ![t] = "links"]
      /\ seen' = [seen EXCEPT ![ClientOf[t]][Here(t)] = @ \cup {a}]
      /\ job' = [job EXCEPT ![t].links = Rest(t), ![t].top = IF Link(t).sub THEN @ ELSE FirstWins(@, a, p),
                            ![t].below = IF Link(t).sub THEN FirstWins(@, a, p) ELSE @]
      /\ UNCHANGED <<served, known, requirements_not_found, answer>>
  BY DEF Visit, At, Goto
<1>2. Here(t) \in PyPi /\ a \in Archive
  BY <1>1 DEF Threads, Doing, Here, Link
<1>3. /\ job[t].req \in Requirement /\ job[t].at \in DOMAIN Locators /\ IsJob(job[t])
      /\ ClientOf[t] \in Client /\ top \in ListingsOf(p) /\ below \in ListingsOf(p)
  BY <1>1, <1>2, Whereabouts, FirstWinsFacts
<1>4. PICK i : i = [job[t] EXCEPT !.links = Rest(t), !.top = top, !.below = below]
  OBVIOUS
<1>5. job' = [job EXCEPT ![t] = i]
  <2> HIDE DEF a, p
  <2>1. QED
    BY <1>1, <1>4
<1> HIDE DEF a, p, top, below
<1>6. IsJob(i) /\ i.req = job[t].req /\ i.at = job[t].at /\ i.top = top /\ i.below = below
  <2>1. PICK j : j = job[t]
    OBVIOUS
  <2>2. i = [j EXCEPT !.links = Rest(t), !.top = top, !.below = below] /\ IsJob(j)
    BY <1>3, <1>4, <2>1
  <2>3. IsJob(i) /\ i.req = j.req /\ i.at = j.at /\ i.top = top /\ i.below = below
    BY <2>2 DEF IsJob
  <2>4. QED
    BY <2>1, <2>3
<1>7. Doing("links", i)
  BY <1>2, <1>3, <1>6 DEF Doing, Wanted, Here, p
<1>8. seen' \in [Client -> [PyPi -> SUBSET Archive]]
  BY <1>1, <1>2, <1>3 DEF Shared
<1>9. QED
  BY <1>1, <1>5, <1>6, <1>7, <1>8, GoesOn

\* A page is done.
LEMMA FetchedKeeps ==
    ASSUME Threads, Answered, Shared, NEW t \in Thread, Fetched(t)
    PROVE  Threads' /\ Answered' /\ Shared' /\ SearchFrame(t)
<1>1. /\ pc[t] = "links" /\ pc[t] # "idle"
      /\ UNCHANGED <<served, known, seen, requirements_not_found, answer>>
  BY DEF Fetched, At, sharedVars
<1>2. CASE Learn(t, job[t].top)
  <2>1. PICK top \in ListingsOf(Wanted(t)) : top = job[t].top
    BY <1>1, Whereabouts
  <2>2. QED
    BY <1>1, <1>2, <2>1, Learns
<1>3. CASE Goto(t, "page") /\ UNCHANGED job
  <2>1. pc' = [pc EXCEPT ![t] = "page"] /\ job' = [job EXCEPT ![t] = job[t]]
    BY <1>3 DEF Goto, Threads
  <2>2. Doing("page", job[t])
    BY <1>1 DEF Threads, Doing
  <2>3. seen' \in [Client -> [PyPi -> SUBSET Archive]]
    BY <1>1 DEF Shared
  <2>4. PICK i : i = job[t]
    OBVIOUS
  <2>5. QED
    BY <1>1, <2>1, <2>2, <2>3, <2>4, GoesOn
<1>4. QED
  BY <1>2, <1>3 DEF Fetched

\* A listing is stored and decided upon.
LEMMA StoreKeeps ==
    ASSUME Threads, Answered, Shared, NEW t \in Thread, Store(t)
    PROVE  Threads' /\ Answered' /\ Shared' /\ SearchFrame(t)
<1> DEFINE top == job[t].top
<1>1. /\ pc[t] # "idle" /\ Decide(t, top)
      /\ known' = [known EXCEPT ![ClientOf[t]][Here(t)][Wanted(t)] = top]
      /\ UNCHANGED <<served, seen, requirements_not_found>>
  BY DEF Store, At
<1>2. /\ ClientOf[t] \in Client /\ Here(t) \in Range(Locators) /\ Wanted(t) \in Package
      /\ top \in ListingsOf(Wanted(t))
  BY <1>1, Whereabouts
<1> HIDE DEF top
<1>3. /\ Threads' /\ Answered'
      /\ \A c \in Client \ {ClientOf[t]} : answer'[c] = answer[c]
  BY <1>1, <1>2, ThreadDecides
<1>4. known \in [Client -> [Range(Locators) -> [Package -> Listing \cup {None}]]]
  BY DEF Shared
<1>5. top \in Listing
  BY <1>2 DEF ListingsOf
<1>6. /\ known' \in [Client -> [Range(Locators) -> [Package -> Listing \cup {None}]]]
      /\ known'[ClientOf[t]][Here(t)][Wanted(t)] = top
      /\ \A c \in Client, l \in Range(Locators), p \in Package :
             c # ClientOf[t] \/ l # Here(t) \/ p # Wanted(t) => known'[c][l][p] = known[c][l][p]
      /\ \A c \in Client \ {ClientOf[t]} : known'[c] = known[c]
  BY <1>1, <1>2, <1>4, <1>5
<1>7. \A c \in Client, l \in Range(Locators), p \in Package :
          known'[c][l][p] # None => known'[c][l][p] \in ListingsOf(p)
  BY <1>2, <1>6 DEF Shared
<1>8. Shared'
  BY <1>1, <1>6, <1>7 DEF Shared
<1>9. SearchFrame(t)
  BY <1>1, <1>3, <1>6 DEF SearchFrame
<1>10. QED
  BY <1>3, <1>8, <1>9

\* Whatever a thread does.
LEMMA SearchKeeps ==
    ASSUME Filed, Threads, Answered, Shared, NEW t \in Thread, Search(t)
    PROVE  Threads' /\ Answered' /\ Shared' /\ SearchFrame(t)
<1>1. CASE \E r \in Requirement : Take(t, r)
  BY <1>1, TakeKeeps
<1>2. CASE Remember(t)
  BY <1>2, RememberKeeps
<1>3. CASE AskCurd(t)
  BY <1>3, AskCurdKeeps
<1>4. CASE NoAnswer(t)
  BY <1>4, NoAnswerKeeps
<1>5. CASE AskIndex(t)
  BY <1>5, AskIndexKeeps
<1>6. CASE Fetch(t)
  BY <1>6, FetchKeeps
<1>7. CASE NoPage(t)
  BY <1>7, NoPageKeeps
<1>8. CASE Home(t)
  BY <1>8, HomeKeeps
<1>9. CASE Return(t)
  BY <1>9, ReturnKeeps
<1>10. CASE Skip(t)
  BY <1>10, SkipKeeps
<1>11. CASE See(t)
  BY <1>11, SeeKeeps
<1>12. CASE Visit(t)
  BY <1>12, VisitKeeps
<1>13. CASE Fetched(t)
  BY <1>13, FetchedKeeps
<1>14. CASE Store(t)
  BY <1>14, StoreKeeps
<1>15. QED
  BY <1>1, <1>2, <1>3, <1>4, <1>5, <1>6, <1>7, <1>8, <1>9, <1>10, <1>11, <1>12, <1>13, <1>14 DEF Search

\* What else a thread leaves alone: `outages' only grows, and a fault at a time is counted.
LEMMA SearchHistory ==
    ASSUME NEW t \in Thread, Search(t)
    PROVE  /\ faults' = faults \/ faults' = faults + 1
           /\ before' = before /\ outages \subseteq outages'
<1>1. CASE \E r \in Requirement : Take(t, r)
  BY <1>1 DEF Take, history
<1>2. CASE Remember(t) \/ AskCurd(t) \/ NoPage(t) \/ Return(t) \/ Skip(t) \/ See(t) \/ Store(t)
  BY <1>2 DEF Remember, AskCurd, NoPage, Return, Skip, See, Store, history
<1>3. CASE NoAnswer(t)
  BY <1>3 DEF NoAnswer, Fault
<1>4. CASE AskIndex(t) \/ Visit(t) \/ Fetched(t)
  BY <1>4 DEF AskIndex, Visit, Fetched, history
<1>5. CASE Fetch(t) \/ Home(t)
  BY <1>5 DEF Fetch, Home, TooManyRedirects, history
<1>6. QED
  BY <1>1, <1>2, <1>3, <1>4, <1>5 DEF Search

\* Threads search for a client that has started and has not all its wheels.
LEMMA SearchesForOne ==
    ASSUME Threads, NEW t \in Thread, Search(t)
    PROVE  /\ ClientOf[t] \in Client
           /\ \E r \in Requirement : answer[ClientOf[t]][r].state \in {"queued", "searching"}
<1>1. ClientOf[t] \in Client
  BY LocatorsAssumption
<1>2. CASE \E r \in Requirement : Take(t, r)
  <2>1. PICK r \in Requirement : answer[ClientOf[t]][r].state = "queued"
    BY <1>2 DEF Take
  <2>2. QED
    BY <1>1, <2>1
<1>3. CASE pc[t] # "idle"
  <2>1. job[t].req \in Requirement /\ answer[ClientOf[t]][job[t].req].state = "searching"
    BY <1>3 DEF Threads, Doing
  <2>2. QED
    BY <1>1, <2>1
<1>4. (\E r \in Requirement : Take(t, r)) \/ pc[t] # "idle"
  BY DEF Search, Remember, AskCurd, NoAnswer, AskIndex, Fetch, NoPage, Home, Return,
         Skip, See, Visit, Fetched, Store, Looking, At
<1>5. QED
  BY <1>1, <1>2, <1>3, <1>4

\* The clients, when a thread of one of them took a step.
LEMMA SearchKeepsClients ==
    ASSUME CacheInv, NEW t \in Thread, SearchStep(t)
    PROVE  CacheInv'
<1>1. Search(t) /\ UNCHANGED <<run, state, wheels, uploads>>
  BY DEF SearchStep, clientVars
<1>2. Threads' /\ Answered' /\ Shared' /\ SearchFrame(t)
  BY <1>1, SearchKeeps DEF CacheInv
<1>3. Filed'
  BY <1>2 DEF CacheInv, Filed, SearchFrame
<1>4. \A c \in Client : uploads'[c] \subseteq get_servers_to_update(c)'
  BY <1>1, <1>2 DEF CacheInv, Clients, SearchFrame, get_servers_to_update
<1>5. faults' \in Nat
  BY <1>1, SearchHistory DEF CacheInv, Clients
<1>6. ASSUME NEW c \in Client, state'[c] = "off"
      PROVE  /\ \A r \in Requirement : answer'[c][r].state = "unasked"
             /\ known'[c] = NothingKnown
  <2>1. /\ \A r \in Requirement : answer[c][r].state = "unasked"
        /\ known[c] = NothingKnown
    BY <1>1, <1>6 DEF CacheInv, Clients
  <2>2. c # ClientOf[t]
    BY <1>1, <2>1, SearchesForOne DEF CacheInv
  <2>3. answer'[c] = answer[c] /\ known'[c] = known[c]
    BY <1>2, <2>2 DEF SearchFrame
  <2>4. QED
    BY <2>1, <2>3
<1>7. Clients'
  <2>1. \A c \in Client : state'[c] \in {"uploading", "done"} => \A r \in Wants(c)' : Has(c, r)'
    BY <1>1 DEF CacheInv, Clients, Wants, Has
  <2>2. QED
    BY <1>1, <1>4, <1>5, <1>6, <2>1 DEF CacheInv, Clients
<1>8. QED
  BY <1>2, <1>3, <1>7 DEF CacheInv

-----------------------------------------------------------------------------
(* The clients *)

\* A run.
LEMMA RunFacts ==
    ASSUME Clients, NEW c \in Client
    PROVE  Wants(c) \subseteq Requirement /\ run.local[c] \subseteq Wheel
BY CacheServerAssumption DEF Clients, Wants

\* A wheel is an archive of some version of some package.
LEMMA WheelFacts ==
    ASSUME NEW w \in Wheel
    PROVE  /\ w \in Archive /\ w # None
           /\ Describes[w] \in Package \X Version
BY LocatorsAssumption, CacheServerAssumption

LEMMA OfFacts ==
    ASSUME NEW p \in Package, NEW w \in Of(p)
    PROVE  w # None /\ VersionOf(w) \in Version /\ Describes[w] = <<p, VersionOf(w)>>
BY LocatorsAssumption DEF Of, VersionOf

\* So is what a client builds.
LEMMA BuiltFacts ==
    ASSUME NEW c \in Client, NEW p \in Package, NEW v \in Version
    PROVE  WheelOf[c][<<p, v>>] \in Wheel /\ Describes[WheelOf[c][<<p, v>>]] = <<p, v>>
<1>1. WheelOf[c] \in [Package \X Version -> Wheel]
  BY CacheServerAssumption
<1>2. <<p, v>> \in Package \X Version
  OBVIOUS
<1>3. Describes[WheelOf[c][<<p, v>>]] = <<p, v>>
  BY CacheServerAssumption
<1>4. QED
  BY <1>1, <1>2, <1>3

\* A wheel of the own index is one of the package.
LEMMA NewestFits ==
    ASSUME Clients, NEW c \in Client, NEW r \in Requirement
    PROVE  Newest(c, r) = None \/ (Newest(c, r) \in Wheel /\ Newest(c, r) \in Of(PkgOf[r]))
<1> DEFINE fit == {w \in run.local[c] : Describes[w][1] = PkgOf[r] /\ VersionOf(w) \in Allows[r]}
           V == {VersionOf(w) : w \in fit}
           best == CHOOSE w \in fit : \A x \in fit : VersionOf(x) <= VersionOf(w)
<1>1. fit \subseteq Wheel
  BY RunFacts
<1>2. V \subseteq Version /\ V \subseteq Nat /\ IsFiniteSet(V)
  <2>1. V \subseteq Version
    BY LocatorsAssumption
  <2> HIDE DEF V
  <2>2. QED
    BY <2>1, LocatorsAssumption, FS_Subset
<1>3. ASSUME fit # {}
      PROVE  best \in fit
  <2>1. V # {}
    BY <1>3
  <2>2. PICK v \in V : \A u \in V : u <= v
    <3> HIDE DEF V
    <3>1. QED
      BY <1>2, <2>1, Greatest
  <2>3. PICK w \in fit : v = VersionOf(w)
    OBVIOUS
  <2>4. \A x \in fit : VersionOf(x) <= VersionOf(w)
    BY <2>2, <2>3
  <2> HIDE DEF fit
  <2>5. QED
    BY <2>4
<1>4. ASSUME NEW w \in fit
      PROVE  w \in Wheel /\ w \in Of(PkgOf[r])
  <2>1. w \in Wheel /\ w \in Archive /\ Describes[w] \in Package \X Version
    BY <1>1, WheelFacts
  <2>2. Describes[w] \in {PkgOf[r]} \X Version
    BY <2>1
  <2>3. QED
    BY <2>1, <2>2 DEF Of
<1>5. Newest(c, r) = IF fit = {} THEN None ELSE best
  BY DEF Newest
<1>6. QED
  <2> HIDE DEF fit, best
  <2>1. QED
    BY <1>3, <1>4, <1>5

\* Nobody searches for a client that has not started.
LEMMA NobodySearches ==
    ASSUME Threads, NEW c \in Client, NEW t \in Thread, ClientOf[t] = c,
           \A r \in Requirement : answer[c][r].state # "searching"
    PROVE  pc[t] = "idle"
BY DEF Threads, Doing

\* Nothing that the clients and servers know of each other changes.
LEMMA AnswersStay ==
    ASSUME Threads, Answered, Shared, UNCHANGED <<answer, pc, job, known, seen, requirements_not_found>>
    PROVE  Threads' /\ Answered' /\ Shared'
BY DEF Threads, Answered, Shared

\* A client starts.
LEMMA StartKeeps ==
    ASSUME CacheInv, NEW c \in Client, Start(c)
    PROVE  CacheInv'
<1> DEFINE had == [r \in Requirement |-> IF r \in Wants(c) THEN Newest(c, r) ELSE None]
           asked == [r \in Requirement |->
                        IF r \in Wants(c) /\ Newest(c, r) = None THEN Reply("queued", None, None)
                        ELSE answer[c][r]]
<1>1. /\ state[c] = "off" /\ state' = [state EXCEPT ![c] = "finding"]
      /\ wheels' = [wheels EXCEPT ![c] = had] /\ answer' = [answer EXCEPT ![c] = asked]
      /\ UNCHANGED <<served, known, seen, requirements_not_found, pc, job, faults, run, uploads>>
  BY DEF Start, sharedVars
<1>2. /\ state \in [Client -> {"off", "finding", "uploading", "done", "failed", "stuck"}]
      /\ wheels \in [Client -> [Requirement -> Wheel \cup {None}]]
      /\ answer \in [Client -> [Requirement -> Replies]]
      /\ \A r \in Requirement : answer[c][r].state = "unasked"
  BY <1>1 DEF CacheInv, Clients, Answered
<1>3. had \in [Requirement -> Wheel \cup {None}]
      /\ \A r \in Requirement : had[r] # None => had[r] \in Of(PkgOf[r])
  BY NewestFits DEF CacheInv
<1>4. asked \in [Requirement -> Replies] /\ \A r \in Requirement : Proper(r, asked[r])
  <2>1. Reply("queued", None, None) \in Replies
        /\ \A r \in Requirement : Proper(r, Reply("queued", None, None))
    BY DEF Replies, Reply, Proper, Ended
  <2>2. \A r \in Requirement : answer[c][r] \in Replies /\ Proper(r, answer[c][r])
    BY DEF CacheInv, Answered
  <2>3. QED
    BY <2>1, <2>2
<1> HIDE DEF had, asked
<1>5. /\ answer'[c] = asked /\ wheels'[c] = had /\ state'[c] = "finding"
      /\ \A d \in Client \ {c} :
             answer'[d] = answer[d] /\ wheels'[d] = wheels[d] /\ state'[d] = state[d]
  BY <1>1, <1>2
<1>6. Answered'
  <2>1. answer' \in [Client -> [Requirement -> Replies]]
    BY <1>1, <1>2, <1>4
  <2>2. \A d \in Client, r \in Requirement : Proper(r, answer'[d][r])
    BY <1>4, <1>5 DEF CacheInv, Answered
  <2>3. QED
    BY <2>1, <2>2 DEF Answered
<1>7. Threads'
  <2>1. \A t \in Thread : pc[t] # "idle" => ClientOf[t] \in Client /\ ClientOf[t] # c
    BY <1>2, NobodySearches, LocatorsAssumption DEF CacheInv
  <2>2. \A t \in Thread : pc[t] # "idle" => answer'[ClientOf[t]][job[t].req].state = "searching"
    BY <1>5, <2>1 DEF CacheInv, Threads
  <2>3. QED
    BY <1>1, <2>2 DEF CacheInv, Threads
<1>8. Filed' /\ Shared'
  BY <1>1 DEF CacheInv, Filed, Shared
<1>9. Clients'
  <2>1. wheels' \in [Client -> [Requirement -> Wheel \cup {None}]]
    BY <1>1, <1>2, <1>3
  <2>2. \A d \in Client, r \in Requirement : wheels'[d][r] # None => wheels'[d][r] \in Of(PkgOf[r])
    BY <1>3, <1>5 DEF CacheInv, Clients
  <2>3. \A d \in Client : uploads'[d] \subseteq get_servers_to_update(d)'
    BY <1>1 DEF CacheInv, Clients, get_servers_to_update
  <2>4. \A d \in Client : state'[d] = "off" =>
            /\ \A r \in Requirement : answer'[d][r].state = "unasked"
            /\ known'[d] = NothingKnown
    BY <1>1, <1>5 DEF CacheInv, Clients
  <2>5. \A d \in Client : state'[d] \in {"uploading", "done"} => \A r \in Wants(d)' : Has(d, r)'
    BY <1>1, <1>5 DEF CacheInv, Clients, Wants, Has
  <2>6. state' \in [Client -> {"off", "finding", "uploading", "done", "failed", "stuck"}]
    BY <1>1, <1>2
  <2>7. QED
    BY <1>1, <2>1, <2>2, <2>3, <2>4, <2>5, <2>6 DEF CacheInv, Clients
<1>10. QED
  BY <1>6, <1>7, <1>8, <1>9 DEF CacheInv

\* Only the stage of a client changes, and what it has to send.
LEMMA StageKeeps ==
    ASSUME CacheInv, NEW c \in Client, state[c] # "off", UNCHANGED <<locatorVars, run, wheels>>,
           NEW stage \in {"finding", "uploading", "done", "failed", "stuck"},
           state' = [state EXCEPT ![c] = stage],
           stage \in {"uploading", "done"} => \A r \in Wants(c) : Has(c, r),
           uploads' = [d \in Client |-> uploads'[d]],
           \A d \in Client : uploads'[d] \subseteq uploads[d] \cup get_servers_to_update(d)
    PROVE  CacheInv'
<1>1. UNCHANGED <<served, known, seen, requirements_not_found, answer, pc, job, faults>>
  BY DEF locatorVars, sharedVars
<1>2. Filed' /\ Shared' /\ Answered' /\ Threads'
  BY <1>1, AnswersStay DEF CacheInv, Filed
<1>3. /\ state' \in [Client -> {"off", "finding", "uploading", "done", "failed", "stuck"}]
      /\ state'[c] = stage /\ \A d \in Client \ {c} : state'[d] = state[d]
  BY DEF CacheInv, Clients
<1>4. \A d \in Client : uploads'[d] \subseteq get_servers_to_update(d)'
  <2>1. \A d \in Client : get_servers_to_update(d)' = get_servers_to_update(d)
    BY <1>1 DEF get_servers_to_update
  <2>2. QED
    BY <2>1 DEF CacheInv, Clients
<1>5. \A d \in Client : state'[d] \in {"uploading", "done"} => \A r \in Wants(d)' : Has(d, r)'
  BY <1>3 DEF CacheInv, Clients, Wants, Has
<1>6. \A d \in Client : state'[d] = "off" => state[d] = "off"
  BY <1>3
<1>7. Clients'
  BY <1>1, <1>3, <1>4, <1>5, <1>6 DEF CacheInv, Clients
<1>8. QED
  BY <1>2, <1>7 DEF CacheInv

\* It gives up, installs, exits.
LEMMA StagesKeep ==
    ASSUME CacheInv, NEW c \in Client, GiveUp(c) \/ InstallAll(c) \/ Exit(c)
    PROVE  CacheInv'
<1>1. uploads = [d \in Client |-> uploads[d]]
  BY DEF CacheInv, Clients
<1>2. CASE GiveUp(c)
  <2>1. /\ state[c] # "off" /\ state' = [state EXCEPT ![c] = "failed"]
        /\ UNCHANGED <<locatorVars, run, wheels, uploads>>
    BY <1>2 DEF GiveUp
  <2>2. QED
    BY <1>1, <2>1, StageKeeps
<1>3. CASE Exit(c)
  <2>1. /\ state[c] = "uploading" /\ state' = [state EXCEPT ![c] = "done"]
        /\ UNCHANGED <<locatorVars, run, wheels, uploads>>
    BY <1>3 DEF Exit
  <2>2. \A r \in Wants(c) : Has(c, r)
    BY <2>1 DEF CacheInv, Clients
  <2>3. QED
    BY <1>1, <2>1, <2>2, StageKeeps
<1>4. CASE InstallAll(c)
  <2>1. /\ state[c] = "finding" /\ \A r \in Wants(c) : Has(c, r)
        /\ UNCHANGED <<locatorVars, run, wheels>>
    BY <1>4 DEF InstallAll
  <2>2. CASE state' = [state EXCEPT ![c] = "failed"] /\ UNCHANGED uploads
    BY <1>1, <2>1, <2>2, StageKeeps
  <2>3. CASE /\ state' = [state EXCEPT ![c] = "uploading"]
             /\ uploads' = [uploads EXCEPT ![c] =
                                IF c \in Upload THEN get_servers_to_update(c) ELSE {}]
    <3>1. /\ uploads' = [d \in Client |-> uploads'[d]]
          /\ \A d \in Client : uploads'[d] \subseteq uploads[d] \cup get_servers_to_update(d)
      BY <1>1, <2>3
    <3>2. QED
      BY <2>1, <2>3, <3>1, StageKeeps
  <2>4. QED
    BY <1>4, <2>2, <2>3 DEF InstallAll
<1>5. QED
  BY <1>2, <1>3, <1>4

\* The answer to a search whose file is not here yet.
LEMMA FoundFacts ==
    ASSUME Answered, NEW c \in Client, NEW r \in Requirement, answer[c][r].state = "found"
    PROVE  /\ answer[c][r].url \in Of(PkgOf[r]) /\ answer[c][r].locator \in Range(Locators)
           /\ answer[c][r].locator # None
<1>1. answer[c][r] \in Replies /\ Proper(r, answer[c][r])
  BY DEF Answered
<1>2. answer[c][r].locator \in Range(Locators) \cup {None}
  BY <1>1 DEF Replies
<1>3. QED
  BY <1>1, <1>2 DEF Proper

\* A wheel arrives.
LEMMA DownloadKeeps ==
    ASSUME CacheInv, NEW c \in Client, NEW r \in Requirement, Download(c, r)
    PROVE  CacheInv'
<1> DEFINE url == answer[c][r].url
           wheel == IF url \in Wheel THEN url ELSE WheelOf[c][Describes[url]]
<1>1. /\ state[c] = "finding" /\ answer[c][r].state = "found"
      /\ wheels' = [wheels EXCEPT ![c][r] = wheel]
      /\ UNCHANGED <<locatorVars, run, state, uploads>>
  BY DEF Download, Downloading
<1>2. url \in Of(PkgOf[r])
  BY <1>1, FoundFacts DEF CacheInv
<1> HIDE DEF url
<1>3. wheel \in Wheel /\ wheel \in Of(PkgOf[r])
  <2>1. CASE url \in Wheel
    BY <1>2, <2>1
  <2>2. CASE url \notin Wheel
    <3>1. PICK v \in Version : Describes[url] = <<PkgOf[r], v>>
      BY <1>2 DEF Of
    <3>2. PkgOf[r] \in Package /\ wheel = WheelOf[c][<<PkgOf[r], v>>]
      BY <2>2, <3>1, LocatorsAssumption
    <3>3. wheel \in Wheel /\ Describes[wheel] = <<PkgOf[r], v>>
      BY <3>2, BuiltFacts
    <3>4. wheel \in Archive
      BY <3>3, WheelFacts
    <3>5. QED
      BY <3>3, <3>4 DEF Of
  <2>3. QED
    BY <2>1, <2>2
<1> HIDE DEF wheel
<1>4. UNCHANGED <<served, known, seen, requirements_not_found, answer, pc, job, faults>>
  BY <1>1 DEF locatorVars, sharedVars
<1>5. Filed' /\ Shared' /\ Answered' /\ Threads'
  BY <1>4, AnswersStay DEF CacheInv, Filed
<1>6. wheels \in [Client -> [Requirement -> Wheel \cup {None}]]
  BY DEF CacheInv, Clients
<1>7. /\ wheels' \in [Client -> [Requirement -> Wheel \cup {None}]]
      /\ wheels'[c][r] = wheel
      /\ \A d \in Client, q \in Requirement : d # c \/ q # r => wheels'[d][q] = wheels[d][q]
      /\ \A d \in Client \ {c} : wheels'[d] = wheels[d]
  BY <1>1, <1>3, <1>6
<1>8. \A d \in Client, q \in Requirement : wheels'[d][q] # None => wheels'[d][q] \in Of(PkgOf[q])
  BY <1>3, <1>7 DEF CacheInv, Clients
<1>9. \A d \in Client : state'[d] \in {"uploading", "done"} => \A q \in Wants(d)' : Has(d, q)'
  <2>1. \A d \in Client : state[d] \in {"uploading", "done"} => d # c
    BY <1>1
  <2>2. QED
    BY <1>1, <1>7, <2>1 DEF CacheInv, Clients, Wants, Has
<1>10. \A d \in Client : uploads'[d] \subseteq get_servers_to_update(d)'
  BY <1>1, <1>4 DEF CacheInv, Clients, get_servers_to_update
<1>11. Clients'
  BY <1>1, <1>4, <1>7, <1>8, <1>9, <1>10 DEF CacheInv, Clients
<1>12. QED
  BY <1>5, <1>11 DEF CacheInv

\* It does not.
LEMMA DownloadFailsKeeps ==
    ASSUME CacheInv, NEW c \in Client, NEW r \in Requirement, DownloadFails(c, r)
    PROVE  CacheInv'
<1> DEFINE reply == Reply("error", None, answer[c][r].locator)
<1>1. /\ state[c] = "finding" /\ answer[c][r].state = "found"
      /\ answer' = [answer EXCEPT ![c][r] = reply] /\ faults' = faults + 1
      /\ UNCHANGED <<served, known, seen, requirements_not_found, pc, job, run, state, wheels, uploads>>
  BY DEF DownloadFails, Downloading, Fault, sharedVars, clientVars
<1>2. reply \in Replies /\ Proper(r, reply)
  <2>1. answer[c][r].locator \in Range(Locators) /\ answer[c][r].locator # None
    BY <1>1, FoundFacts DEF CacheInv
  <2>2. QED
    BY <2>1 DEF Replies, Reply, Proper, Ended
<1> HIDE DEF reply
<1>3. /\ answer' \in [Client -> [Requirement -> Replies]] /\ answer'[c][r] = reply
      /\ \A d \in Client, q \in Requirement : d # c \/ q # r => answer'[d][q] = answer[d][q]
  BY <1>1, <1>2 DEF CacheInv, Answered
<1>4. Answered'
  <2>1. \A d \in Client, q \in Requirement : Proper(q, answer'[d][q])
    BY <1>2, <1>3 DEF CacheInv, Answered
  <2>2. QED
    BY <1>3, <2>1 DEF Answered
<1>5. Threads'
  <2>1. ASSUME NEW t \in Thread, pc[t] # "idle"
        PROVE  answer'[ClientOf[t]][job[t].req].state = "searching"
    <3>1. /\ ClientOf[t] \in Client /\ job[t].req \in Requirement
          /\ answer[ClientOf[t]][job[t].req].state = "searching"
      BY <2>1, LocatorsAssumption DEF CacheInv, Threads, Doing
    <3>2. ClientOf[t] # c \/ job[t].req # r
      BY <1>1, <3>1
    <3>3. QED
      BY <1>3, <3>1, <3>2
  <2>2. QED
    BY <1>1, <2>1 DEF CacheInv, Threads
<1>6. Filed' /\ Shared'
  BY <1>1 DEF CacheInv, Filed, Shared
<1>7. faults' \in Nat
  BY <1>1 DEF CacheInv, Clients
<1>8. \A d \in Client : state'[d] = "off" =>
          /\ \A q \in Requirement : answer'[d][q].state = "unasked"
          /\ known'[d] = NothingKnown
  <2>1. \A d \in Client : state'[d] = "off" => d # c
    BY <1>1
  <2>2. QED
    BY <1>1, <1>3, <2>1 DEF CacheInv, Clients
<1>9. \A d \in Client : uploads'[d] \subseteq get_servers_to_update(d)'
  BY <1>1 DEF CacheInv, Clients, get_servers_to_update
<1>10. \A d \in Client : state'[d] \in {"uploading", "done"} => \A q \in Wants(d)' : Has(d, q)'
  BY <1>1 DEF CacheInv, Clients, Wants, Has
<1>11. Clients'
  BY <1>1, <1>7, <1>8, <1>9, <1>10 DEF CacheInv, Clients
<1>12. QED
  BY <1>4, <1>5, <1>6, <1>11 DEF CacheInv

\* What is sent is a wheel of the package that was missed.
LEMMA BestFacts ==
    ASSUME CacheInv, NEW c \in Client, NEW p, NEW w \in best_version(c, p),
           \A r \in Wants(c) : Has(c, r)
    PROVE  w \in Wheel /\ w \in Of(p) /\ w \in Archive
<1>1. PICK r \in Wants(c) : w = wheels[c][r] /\ PkgOf[r] = p
  BY DEF best_version, Compatible
<1>2. r \in Requirement /\ wheels[c][r] # None
  BY <1>1, RunFacts DEF CacheInv, Has
<1>3. QED
  BY <1>1, <1>2, WheelFacts DEF CacheInv, Clients

\* A file joins a table.
LEMMA StoredFacts ==
    ASSUME Filed, NEW c, NEW s \in Curd, NEW p \in Package, NEW w \in Of(p), served' = Stored(c, s, p, w)
    PROVE  /\ Filed'
           /\ \A z \in Curd, q \in Package, v \in Version : served[z][q][v] # <<>> =>
                  served'[z][q][v] # <<>> /\ Head(served'[z][q][v]) = Head(served[z][q][v])
           /\ c \in Admits[s] => served'[s][p][VersionOf(w)] # <<>>
<1> DEFINE n == VersionOf(w)
           old == served[s][p][n]
           new == Append(old, w)
<1>1. n \in Version /\ Describes[w] = <<p, n>> /\ w \in Archive
  BY OfFacts DEF Of
<1> HIDE DEF n
<1>2. old \in Seq(Archive) /\ served \in [Curd -> [Package -> [Version -> Seq(Archive)]]]
  BY <1>1 DEF Filed, Table
<1> HIDE DEF old
<1>3. new \in Seq(Archive) /\ new # <<>> /\ (old # <<>> => Head(new) = Head(old))
  <2>1. new \in Seq(Archive) /\ Len(new) = Len(old) + 1 /\ Len(old) \in Nat
    BY <1>1, <1>2
  <2>2. new # <<>> /\ Head(new) = new[1]
    BY <2>1
  <2>3. ASSUME old # <<>>
        PROVE  Head(old) = old[1] /\ new[1] = old[1]
    BY <1>2, <2>3
  <2> HIDE DEF new
  <2>4. QED
    BY <2>1, <2>2, <2>3
<1>4. Range(new) \subseteq Range(old) \cup {w}
  <2>1. DOMAIN new = 1 .. Len(old) + 1 /\ DOMAIN old = 1 .. Len(old)
    BY <1>2
  <2>2. \A i \in 1 .. Len(old) + 1 : new[i] = IF i <= Len(old) THEN old[i] ELSE w
    BY <1>2
  <2>3. \A i \in 1 .. Len(old) + 1 : i <= Len(old) => i \in 1 .. Len(old)
    BY <1>2
  <2> HIDE DEF new
  <2>4. QED
    BY <2>1, <2>2, <2>3 DEF Range
<1> HIDE DEF new
<1>5. CASE c \in Admits[s]
  <2>1. served' = [served EXCEPT ![s][p][n] = new]
    BY <1>5 DEF Stored, n, old, new
  <2>2. /\ served' \in [Curd -> [Package -> [Version -> Seq(Archive)]]]
        /\ served'[s][p][n] = new
        /\ \A z \in Curd, q \in Package, v \in Version :
               z # s \/ q # p \/ v # n => served'[z][q][v] = served[z][q][v]
    BY <1>1, <1>2, <1>3, <2>1
  <2>3. \A z \in Curd, q \in Package, v \in Version : \A a \in Range(served'[z][q][v]) :
            Describes[a] = <<q, v>>
    <3> TAKE z \in Curd, q \in Package, v \in Version
    <3>1. \A a \in Range(served[z][q][v]) : Describes[a] = <<q, v>>
      BY DEF Filed, Sorted
    <3>2. CASE z = s /\ q = p /\ v = n
      <4>1. served'[z][q][v] = new /\ served[z][q][v] = old
        BY <2>2, <3>2 DEF old
      <4>2. QED
        BY <1>1, <1>4, <3>1, <3>2, <4>1
    <3>3. CASE z # s \/ q # p \/ v # n
      BY <2>2, <3>1, <3>3
    <3>4. QED
      BY <3>2, <3>3
  <2>4. Filed'
    BY <2>2, <2>3 DEF Filed, Table, Sorted
  <2>5. \A z \in Curd, q \in Package, v \in Version : served[z][q][v] # <<>> =>
            served'[z][q][v] # <<>> /\ Head(served'[z][q][v]) = Head(served[z][q][v])
    <3> TAKE z \in Curd, q \in Package, v \in Version
    <3>2. CASE z = s /\ q = p /\ v = n
      BY <1>3, <2>2, <3>2 DEF old
    <3>3. CASE z # s \/ q # p \/ v # n
      BY <2>2, <3>3
    <3>4. QED
      BY <3>2, <3>3
  <2>6. QED
    BY <1>3, <2>2, <2>4, <2>5 DEF n
<1>6. CASE c \notin Admits[s]
  <2>1. served' = served
    BY <1>6 DEF Stored
  <2>2. QED
    BY <1>6, <2>1 DEF Filed
<1>7. QED
  BY <1>5, <1>6

\* What a client has to send is one of its misses.
LEMMA UploadFacts ==
    ASSUME CacheInv, NEW c \in Client, NEW x \in uploads[c]
    PROVE  /\ x = <<x[1], x[2]>> /\ x[1] \in Curd
           /\ x[2] \in DOMAIN requirements_not_found[c][x[1]]
           /\ requirements_not_found[c][x[1]][x[2]] \in Package
<1>1. x \in get_servers_to_update(c)
  BY DEF CacheInv, Clients
<1>2. x = <<x[1], x[2]>> /\ x[1] \in Curd /\ x[2] \in DOMAIN requirements_not_found[c][x[1]]
  BY <1>1 DEF get_servers_to_update
<1>3. requirements_not_found[c][x[1]] \in Seq(Package)
  BY <1>2 DEF CacheInv, Shared
<1>4. QED
  BY <1>2, <1>3

\* A wheel is sent.
LEMMA SendKeeps ==
    ASSUME CacheInv, NEW c \in Client, NEW s \in Curd, NEW n,
           requirements_not_found[c][s][n] \in Package, Send(c, s, n)
    PROVE  CacheInv'
<1> DEFINE p == requirements_not_found[c][s][n]
<1>1. /\ state[c] = "uploading"
      /\ uploads' = [uploads EXCEPT ![c] = @ \ {<<s, n>>}]
      /\ UNCHANGED <<known, seen, requirements_not_found, answer, pc, job, faults, run, state, wheels>>
  BY DEF Send, sharedVars
<1>2. PICK w \in best_version(c, p) : served' = Stored(c, s, p, w)
  BY DEF Send
<1>3. w \in Of(p)
  <2>1. \A r \in Wants(c) : Has(c, r)
    BY <1>1 DEF CacheInv, Clients
  <2>2. QED
    BY <2>1, BestFacts
<1>4. Filed'
  BY <1>2, <1>3, StoredFacts DEF CacheInv
<1>5. Shared' /\ Answered' /\ Threads'
  BY <1>1, AnswersStay DEF CacheInv
<1>6. /\ uploads' = [d \in Client |-> uploads'[d]]
      /\ \A d \in Client : uploads'[d] \subseteq get_servers_to_update(d)'
  <2>1. /\ uploads = [d \in Client |-> uploads[d]]
        /\ \A d \in Client : uploads[d] \subseteq get_servers_to_update(d)
    BY DEF CacheInv, Clients
  <2>2. \A d \in Client : get_servers_to_update(d)' = get_servers_to_update(d)
    BY <1>1 DEF get_servers_to_update
  <2>3. /\ uploads' = [d \in Client |-> uploads'[d]]
        /\ \A d \in Client : uploads'[d] \subseteq uploads[d]
    BY <1>1, <2>1
  <2>4. QED
    BY <2>1, <2>2, <2>3
<1>7. \A d \in Client : state'[d] \in {"uploading", "done"} => \A q \in Wants(d)' : Has(d, q)'
  BY <1>1 DEF CacheInv, Clients, Wants, Has
<1>8. Clients'
  BY <1>1, <1>6, <1>7 DEF CacheInv, Clients
<1>9. QED
  BY <1>4, <1>5, <1>8 DEF CacheInv

\* It is not, and nobody counts it.
LEMMA SendFailsKeeps ==
    ASSUME CacheInv, NEW c \in Client, NEW s, NEW n, SendFails(c, s, n)
    PROVE  CacheInv'
<1>1. /\ state[c] = "uploading" /\ state' = [state EXCEPT ![c] = "stuck"] /\ faults' = faults + 1
      /\ UNCHANGED <<served, known, seen, requirements_not_found, answer, pc, job, run, wheels, uploads>>
  BY DEF SendFails, Fault, sharedVars
<1>2. Filed' /\ Shared' /\ Answered' /\ Threads'
  BY <1>1, AnswersStay DEF CacheInv, Filed
<1>3. /\ state' \in [Client -> {"off", "finding", "uploading", "done", "failed", "stuck"}]
      /\ state'[c] = "stuck" /\ \A d \in Client \ {c} : state'[d] = state[d]
  BY <1>1 DEF CacheInv, Clients
<1>4. faults' \in Nat
  BY <1>1 DEF CacheInv, Clients
<1>5. \A d \in Client : uploads'[d] \subseteq get_servers_to_update(d)'
  BY <1>1 DEF CacheInv, Clients, get_servers_to_update
<1>6. \A d \in Client : state'[d] \in {"uploading", "done"} => \A q \in Wants(d)' : Has(d, q)'
  BY <1>1, <1>3 DEF CacheInv, Clients, Wants, Has
<1>7. \A d \in Client : state'[d] = "off" => state[d] = "off"
  BY <1>3
<1>8. Clients'
  BY <1>1, <1>3, <1>4, <1>5, <1>6, <1>7 DEF CacheInv, Clients
<1>9. QED
  BY <1>2, <1>8 DEF CacheInv

-----------------------------------------------------------------------------
(* The servers *)

\* A server starts again, with the files it had.
LEMMA RestartFacts ==
    ASSUME Filed, faults \in Nat, NEW s \in Curd, Restart(s)
    PROVE  /\ Filed' /\ faults' > faults /\ faults' \in Nat
           /\ \A z \in Curd, p \in Package, v \in Version :
                  Range(served'[z][p][v]) = Range(served[z][p][v])
           /\ UNCHANGED <<known, seen, requirements_not_found, answer, pc, job, history, clientVars>>
<1>1. faults' = faults + 1
      /\ UNCHANGED <<known, seen, requirements_not_found, answer, pc, job, history, clientVars>>
  BY DEF Restart, Fault, sharedVars
<1>2. PICK listdir \in SetToSeqs(Files(s)) : served' = [served EXCEPT ![s] = scan(listdir)]
  BY DEF Restart
<1>3. served \in [Curd -> Table] /\ Sorted(served[s])
  BY DEF Filed
<1>4. /\ scan(listdir) \in Table /\ Sorted(scan(listdir))
      /\ \A p \in Package, v \in Version :
             Range(scan(listdir)[p][v]) = Range(served[s][p][v])
  BY <1>3, RestartSorts
<1>5. served' \in [Curd -> Table] /\ served'[s] = scan(listdir)
      /\ \A z \in Curd \ {s} : served'[z] = served[z]
  BY <1>2, <1>3, <1>4
<1>6. \A z \in Curd : Sorted(served'[z])
  BY <1>4, <1>5 DEF Filed
<1>7. Filed'
  BY <1>5, <1>6 DEF Filed, Sorted
<1>8. QED
  BY <1>1, <1>4, <1>5, <1>7

LEMMA RestartKeeps ==
    ASSUME CacheInv, NEW s \in Curd, Restart(s)
    PROVE  CacheInv'
<1>1. Filed /\ faults \in Nat
  BY DEF CacheInv, Clients
<1>2. /\ Filed' /\ faults' \in Nat
      /\ UNCHANGED <<known, seen, requirements_not_found, answer, pc, job, run, state, wheels, uploads>>
  BY <1>1, RestartFacts DEF clientVars
<1>3. Shared' /\ Answered' /\ Threads'
  BY <1>2, AnswersStay DEF CacheInv
<1>4. \A d \in Client : uploads'[d] \subseteq get_servers_to_update(d)'
  BY <1>2 DEF CacheInv, Clients, get_servers_to_update
<1>5. \A d \in Client : state'[d] \in {"uploading", "done"} => \A q \in Wants(d)' : Has(d, q)'
  BY <1>2 DEF CacheInv, Clients, Wants, Has
<1>6. Clients'
  BY <1>2, <1>4, <1>5 DEF CacheInv, Clients
<1>7. QED
  BY <1>2, <1>3, <1>6 DEF CacheInv

-----------------------------------------------------------------------------
(* All of it *)

\* It holds at first.
LEMMA CacheStarts == Init => CacheInv
<1> SUFFICES ASSUME Init
             PROVE  CacheInv
  OBVIOUS
<1>1. /\ served = [s \in Curd |-> scan(Stock[s])] /\ run \in Runs
      /\ state = [c \in Client |-> "off"]
      /\ wheels = [c \in Client |-> [r \in Requirement |-> None]]
      /\ uploads = [c \in Client |-> {}]
      /\ known = [c \in Client |-> NothingKnown]
      /\ seen = [c \in Client |-> [i \in PyPi |-> {}]]
      /\ requirements_not_found = [c \in Client |-> [s \in Curd |-> <<>>]]
      /\ answer = [c \in Client |-> [r \in Requirement |-> Reply("unasked", None, None)]]
      /\ pc = [t \in Thread |-> "idle"] /\ job = [t \in Thread |-> NoJob] /\ faults = 0
  BY DEF Init, LocatorsInit
<1>2. Filed
  <2>1. \A s \in Curd : scan(Stock[s]) \in Table /\ Sorted(scan(Stock[s]))
    BY ScanSorts, CacheServerAssumption
  <2>2. QED
    BY <1>1, <2>1 DEF Filed
<1>3. Shared
  <2>1. NothingKnown \in [Range(Locators) -> [Package -> Listing \cup {None}]]
        /\ \A l \in Range(Locators), p \in Package : NothingKnown[l][p] = None
    BY DEF NothingKnown
  <2>2. <<>> \in Seq(Package)
    OBVIOUS
  <2>3. known \in [Client -> [Range(Locators) -> [Package -> Listing \cup {None}]]]
        /\ \A c \in Client, l \in Range(Locators), p \in Package : known[c][l][p] = None
    BY <1>1, <2>1
  <2>4. seen \in [Client -> [PyPi -> SUBSET Archive]]
    BY <1>1
  <2>5. requirements_not_found \in [Client -> [Curd -> Seq(Package)]]
    BY <1>1, <2>2
  <2>6. QED
    BY <2>3, <2>4, <2>5 DEF Shared
<1>4. Answered
  <2> DEFINE reply == Reply("unasked", None, None)
  <2>1. reply \in Replies /\ \A r \in Requirement : Proper(r, reply)
    BY DEF Replies, Reply, Proper, Ended
  <2> HIDE DEF reply
  <2>2. answer = [c \in Client |-> [r \in Requirement |-> reply]]
    BY <1>1 DEF reply
  <2>3. QED
    BY <2>1, <2>2 DEF Answered
<1>5. Threads
  BY <1>1, NothingFacts DEF Threads
<1>6. Clients
  <2>1. \A c \in Client, r \in Requirement : answer[c][r].state = "unasked"
    BY <1>1 DEF Reply
  <2>2. QED
    BY <1>1, <2>1 DEF Clients
<1>7. QED
  BY <1>2, <1>3, <1>4, <1>5, <1>6 DEF CacheInv

\* Every step of a client keeps it.
LEMMA ClientKeeps ==
    ASSUME CacheInv, NEW c \in Client, ClientStep(c)
    PROVE  CacheInv'
<1>1. CASE Start(c)
  BY <1>1, StartKeeps
<1>2. CASE GiveUp(c) \/ InstallAll(c) \/ Exit(c)
  BY <1>2, StagesKeep
<1>3. CASE \E r \in Requirement : Download(c, r) \/ DownloadFails(c, r)
  BY <1>3, DownloadKeeps, DownloadFailsKeeps
<1>4. ASSUME NEW x \in uploads[c], Send(c, x[1], x[2])
      PROVE  CacheInv'
  BY <1>4, UploadFacts, SendKeeps
<1>5. ASSUME NEW x \in uploads[c], SendFails(c, x[1], x[2])
      PROVE  CacheInv'
  BY <1>5, SendFailsKeeps
<1>6. QED
  BY <1>1, <1>2, <1>3, <1>4, <1>5 DEF ClientStep

LEMMA CacheKeeps == CacheInv /\ [Next]_vars => CacheInv'
<1> SUFFICES ASSUME CacheInv, [Next]_vars
             PROVE  CacheInv'
  OBVIOUS
<1>1. CASE Next
  BY <1>1, ClientKeeps, SearchKeepsClients, RestartKeeps DEF Next
<1>2. CASE UNCHANGED vars
  <2>1. /\ UNCHANGED <<served, known, seen, requirements_not_found, answer, pc, job, faults>>
        /\ UNCHANGED <<run, state, wheels, uploads>>
    BY <1>2 DEF vars, locatorVars, sharedVars, clientVars
  <2>2. Filed' /\ Shared' /\ Answered' /\ Threads'
    BY <2>1, AnswersStay DEF CacheInv, Filed
  <2>3. \A c \in Client : uploads'[c] \subseteq get_servers_to_update(c)'
    BY <2>1 DEF CacheInv, Clients, get_servers_to_update
  <2>4. \A c \in Client : state'[c] \in {"uploading", "done"} => \A r \in Wants(c)' : Has(c, r)'
    BY <2>1 DEF CacheInv, Clients, Wants, Has
  <2>5. Clients'
    BY <2>1, <2>3, <2>4 DEF CacheInv, Clients
  <2>6. QED
    BY <2>2, <2>5 DEF CacheInv
<1>3. QED
  BY <1>1, <1>2

(***************************************************************************)
(* Whatever clients and threads do at the same time and whoever fails:     *)
(* tables, listings, answers and wheels are of the package they are filed  *)
(* under, two threads of a client never look for the same requirement, and *)
(* a client that installs has the wheels of all its requirements.          *)
(***************************************************************************)
THEOREM CacheSound == Spec => []CacheInv
BY CacheStarts, CacheKeeps, PTL DEF Spec

(***************************************************************************)
(* TypeOK: in particular, an answer is found exactly when it names an      *)
(* archive, it names a locator exactly when one is to blame for it, and a  *)
(* thread at work has a requirement that is being searched.                *)
(***************************************************************************)
THEOREM Typed == Spec => []TypeOK
<1>1. CacheInv => TypeOK
  <2> SUFFICES ASSUME CacheInv
               PROVE  TypeOK
    OBVIOUS
  <2>1. \A c \in Client, r \in Requirement :
            /\ answer[c][r].state \in {"unasked", "queued", "searching"} \cup Ended
            /\ answer[c][r].state = "found" <=> answer[c][r].url \in Archive
            /\ answer[c][r].state \in {"found", "error"} <=> answer[c][r].locator \in Range(Locators)
    <3> TAKE c \in Client, r \in Requirement
    <3>1. answer[c][r] \in Replies /\ Proper(r, answer[c][r])
      BY DEF CacheInv, Answered
    <3>2. None \notin Archive /\ None \notin Range(Locators)
      BY LocatorsAssumption, LocatorFacts
    <3>3. QED
      BY <3>1, <3>2 DEF Replies, Proper
  <2>2. \A t \in Thread :
            /\ pc[t] \in {"idle", "ask", "page", "links", "visit", "learn"}
            /\ pc[t] # "idle" =>
                /\ job[t].req \in Requirement /\ job[t].at \in DOMAIN Locators
                /\ answer[ClientOf[t]][job[t].req].state = "searching"
                /\ job[t].top \in Listing /\ job[t].below \in Listing
    BY DEF CacheInv, Threads, Doing, ListingsOf
  <2>3. LocatorsTypeOK
    BY <2>1, <2>2 DEF LocatorsTypeOK, CacheInv, Shared
  <2>4. QED
    BY <2>3 DEF TypeOK, CacheInv, Clients, Filed, Table
<1>2. QED
  BY <1>1, CacheSound, PTL

\* What a step does to the files of a version.
LEMMA FilesStay ==
    ASSUME CacheInv, [Next]_vars
    PROVE  \A s \in Curd, p \in Package, v \in Version :
               served[s][p][v] # <<>> =>
                   \/ served'[s][p][v] # <<>> /\ Head(served'[s][p][v]) = Head(served[s][p][v])
                   \/ faults' > faults /\ Range(served'[s][p][v]) = Range(served[s][p][v])
<1>1. CASE served' = served
  BY <1>1
<1>2. ASSUME NEW c \in Client, NEW x \in uploads[c], Send(c, x[1], x[2])
      PROVE  \A s \in Curd, p \in Package, v \in Version : served[s][p][v] # <<>> =>
                 served'[s][p][v] # <<>> /\ Head(served'[s][p][v]) = Head(served[s][p][v])
  <2> DEFINE p == requirements_not_found[c][x[1]][x[2]]
  <2>1. x[1] \in Curd /\ p \in Package
    BY UploadFacts
  <2>2. PICK w \in best_version(c, p) : served' = Stored(c, x[1], p, w)
    BY <1>2 DEF Send
  <2>3. w \in Of(p)
    <3>1. \A r \in Wants(c) : Has(c, r)
      BY <1>2 DEF CacheInv, Clients, Send
    <3>2. QED
      BY <3>1, BestFacts
  <2> HIDE DEF p
  <2>4. QED
    BY <2>1, <2>2, <2>3, StoredFacts DEF CacheInv
<1>3. ASSUME NEW s \in Curd, Restart(s)
      PROVE  /\ faults' > faults
             /\ \A z \in Curd, p \in Package, v \in Version :
                    Range(served'[z][p][v]) = Range(served[z][p][v])
  BY <1>3, RestartFacts DEF CacheInv, Clients
<1>4. \/ served' = served
      \/ \E c \in Client : \E x \in uploads[c] : Send(c, x[1], x[2])
      \/ \E s \in Curd : Restart(s)
  <2>1. ASSUME NEW c \in Client, ClientStep(c)
        PROVE  served' = served \/ \E x \in uploads[c] : Send(c, x[1], x[2])
    <3>1. CASE Start(c)
      BY <3>1 DEF Start
    <3>2. CASE GiveUp(c) \/ InstallAll(c) \/ Exit(c)
      BY <3>2 DEF GiveUp, InstallAll, Exit, locatorVars
    <3>3. CASE \E r \in Requirement : Download(c, r) \/ DownloadFails(c, r)
      BY <3>3 DEF Download, DownloadFails, locatorVars
    <3>4. CASE \E x \in uploads[c] : Send(c, x[1], x[2]) \/ SendFails(c, x[1], x[2])
      BY <3>4 DEF SendFails
    <3>5. QED
      BY <2>1, <3>1, <3>2, <3>3, <3>4 DEF ClientStep
  <2>2. ASSUME NEW t \in Thread, SearchStep(t)
        PROVE  served' = served
    BY <2>2, SearchKeeps DEF SearchStep, CacheInv, SearchFrame
  <2>3. UNCHANGED vars => served' = served
    BY DEF vars, locatorVars
  <2>4. QED
    BY <2>1, <2>2, <2>3 DEF Next
<1>5. QED
  BY <1>1, <1>2, <1>3, <1>4

(***************************************************************************)
(* AnswerStays: uploads, however many clients send the same wheel, never   *)
(* change the file a server lists for a version; only a restart may put    *)
(* another of its files first.                                             *)
(***************************************************************************)
THEOREM UploadsDisturbNobody == Spec => AnswerStays
<1>1. CacheInv /\ [Next]_vars =>
          [\A s \in Curd, p \in Package, v \in Version :
               served[s][p][v] # <<>> =>
                   \/ served'[s][p][v] # <<>> /\ Head(served'[s][p][v]) = Head(served[s][p][v])
                   \/ faults' > faults /\ Range(served'[s][p][v]) = Range(served[s][p][v])]_vars
  BY FilesStay
<1>2. QED
  BY <1>1, CacheSound, PTL DEF Spec, AnswerStays

-----------------------------------------------------------------------------
(* What was missed is sent *)

\* What is listed stays listed.
LEMMA ServedStays ==
    ASSUME CacheInv, [Next]_vars, NEW s \in Curd, NEW p \in Package, NEW v \in Version,
           served[s][p][v] # <<>>
    PROVE  served'[s][p][v] # <<>>
<1>1. \/ served'[s][p][v] # <<>>
      \/ Range(served'[s][p][v]) = Range(served[s][p][v])
  BY FilesStay
<1>2. Range(served[s][p][v]) # {}
  <2>1. served[s][p][v] \in Seq(Archive)
    BY DEF CacheInv, Filed, Table
  <2>2. 1 \in DOMAIN served[s][p][v]
    BY <2>1
  <2>3. QED
    BY <2>2 DEF Range
<1>3. Range(<<>>) = {}
  BY DEF Range
<1>4. QED
  BY <1>1, <1>2, <1>3

\* A thread changes the answer to one search that is going on, at most.
LEMMA SearchAnswers ==
    ASSUME Threads, Answered, NEW t \in Thread, Search(t)
    PROVE  \E r \in Requirement :
               /\ answer[ClientOf[t]][r].state \in {"queued", "searching"}
               /\ \A c \in Client, q \in Requirement :
                      c # ClientOf[t] \/ q # r => answer'[c][q] = answer[c][q]
<1>1. ClientOf[t] \in Client /\ answer \in [Client -> [Requirement -> Replies]]
  BY LocatorsAssumption DEF Answered
<1>2. ASSUME NEW r \in Requirement, Take(t, r)
      PROVE  /\ answer[ClientOf[t]][r].state = "queued"
             /\ \A c \in Client, q \in Requirement :
                    c # ClientOf[t] \/ q # r => answer'[c][q] = answer[c][q]
  BY <1>1, <1>2 DEF Take
<1>3. ASSUME pc[t] # "idle", answer' = answer \/ \E reply : Finish(t, reply)
      PROVE  /\ job[t].req \in Requirement /\ answer[ClientOf[t]][job[t].req].state = "searching"
             /\ \A c \in Client, q \in Requirement :
                    c # ClientOf[t] \/ q # job[t].req => answer'[c][q] = answer[c][q]
  <2>1. job[t].req \in Requirement /\ answer[ClientOf[t]][job[t].req].state = "searching"
    BY <1>3 DEF Threads, Doing
  <2>2. CASE \E reply : Finish(t, reply)
    BY <1>1, <2>1, <2>2 DEF Finish
  <2>3. QED
    BY <1>3, <2>1, <2>2
<1>4. CASE \E r \in Requirement : Take(t, r)
  BY <1>2, <1>4
<1>5. CASE ~\E r \in Requirement : Take(t, r)
  <2>1. pc[t] # "idle"
    BY <1>5 DEF Search, Remember, AskCurd, NoAnswer, AskIndex, Fetch, NoPage, Home, Return,
                Skip, See, Visit, Fetched, Store, Looking, At
  <2>2. answer' = answer \/ \E reply : Finish(t, reply)
    <3>1. CASE Remember(t) \/ Store(t)
      BY <3>1 DEF Remember, Store, Decide
    <3>2. CASE Fetch(t) \/ Home(t)
      BY <3>2 DEF Fetch, Home, TooManyRedirects
    <3>3. CASE \/ AskCurd(t) \/ NoAnswer(t) \/ AskIndex(t) \/ NoPage(t)
               \/ Return(t) \/ Skip(t) \/ See(t) \/ Visit(t) \/ Fetched(t)
      BY <3>3 DEF AskCurd, NoAnswer, AskIndex, NoPage, Return, Skip, See, Visit, Fetched
    <3>4. QED
      BY <1>5, <3>1, <3>2, <3>3 DEF Search
  <2>3. QED
    BY <1>3, <2>1, <2>2
<1>6. QED
  BY <1>4, <1>5

\* A client whose part does not change has what it missed still covered.
LEMMA CoveredStays ==
    ASSUME CacheInv, [Next]_vars, NEW c \in Client, NEW s \in Curd,
           NEW n \in DOMAIN requirements_not_found[c][s], Covered(c, s, n),
           \A r \in Wants(c) : Has(c, r),
           run' = run, wheels'[c] = wheels[c], requirements_not_found'[c] = requirements_not_found[c],
           <<s, n>> \in uploads[c] => <<s, n>> \in uploads'[c]
    PROVE  Covered(c, s, n)'
<1>1. PICK p \in Package : p = requirements_not_found[c][s][n]
  <2>1. requirements_not_found[c][s] \in Seq(Package)
    BY DEF CacheInv, Shared
  <2>2. QED
    BY <2>1
<1>2. best_version(c, p)' = best_version(c, p)
  BY DEF best_version, Compatible, Wants
<1>3. CASE <<s, n>> \in uploads[c]
  BY <1>3 DEF Covered
<1>4. CASE \E w \in best_version(c, p) : served[s][p][VersionOf(w)] # <<>>
  <2>1. PICK w \in best_version(c, p) : served[s][p][VersionOf(w)] # <<>>
    BY <1>4
  <2>2. VersionOf(w) \in Version
    BY BestFacts, OfFacts
  <2>3. served'[s][p][VersionOf(w)] # <<>>
    BY <2>1, <2>2, ServedStays
  <2>4. QED
    BY <1>1, <1>2, <2>3 DEF Covered
<1>5. QED
  BY <1>1, <1>3, <1>4 DEF Covered

\* So it is for a client that went on uploading.
LEMMA WarmStays ==
    ASSUME CacheInv, WarmsUpInv, [Next]_vars, NEW c \in Upload, NEW s \in Curd, c \in Admits[s],
           state[c] \in {"uploading", "done"},
           run' = run, wheels'[c] = wheels[c], requirements_not_found'[c] = requirements_not_found[c],
           uploads[c] \subseteq uploads'[c]
    PROVE  \A n \in DOMAIN requirements_not_found'[c][s] : Covered(c, s, n)'
<1>1. c \in Client /\ \A r \in Wants(c) : Has(c, r)
  BY CacheServerAssumption DEF CacheInv, Clients
<1>2. \A n \in DOMAIN requirements_not_found[c][s] : Covered(c, s, n)
  BY DEF WarmsUpInv
<1>3. QED
  BY <1>1, <1>2, CoveredStays

\* A thread searches, for a client that is still finding.
LEMMA SearchWarms ==
    ASSUME CacheInv, WarmsUpInv, NEW t \in Thread, SearchStep(t)
    PROVE  WarmsUpInv'
<1>1. Search(t) /\ UNCHANGED <<run, state, wheels, uploads>> /\ [Next]_vars
  BY DEF SearchStep, clientVars, Next
<1>2. SearchFrame(t)
  BY <1>1, SearchKeeps DEF CacheInv
<1>3. PICK r \in Requirement :
          /\ answer[ClientOf[t]][r].state \in {"queued", "searching"}
          /\ \A c \in Client, q \in Requirement :
                 c # ClientOf[t] \/ q # r => answer'[c][q] = answer[c][q]
  BY <1>1, SearchAnswers DEF CacheInv
<1>4. ClientOf[t] \in Client
  BY LocatorsAssumption
<1>5. ~Has(ClientOf[t], r) /\ r \in Wants(ClientOf[t])
  BY <1>3, <1>4 DEF WarmsUpInv
<1>6. ASSUME NEW c \in Client, NEW q \in Requirement
      PROVE  /\ Has(c, q)' => answer'[c][q].state \in {"unasked", "found"}
             /\ q \notin Wants(c)' => answer'[c][q].state = "unasked"
  <2>1. Has(c, q)' = Has(c, q) /\ Wants(c)' = Wants(c)
    BY <1>1 DEF Has, Wants
  <2>2. CASE c = ClientOf[t] /\ q = r
    BY <1>5, <2>1, <2>2
  <2>3. CASE c # ClientOf[t] \/ q # r
    BY <1>3, <2>1, <2>3 DEF WarmsUpInv
  <2>4. QED
    BY <2>2, <2>3
<1>7. state[ClientOf[t]] \notin {"uploading", "done"}
  BY <1>4, <1>5 DEF CacheInv, Clients
<1>8. ASSUME NEW c \in Upload, NEW s \in Curd, state'[c] \in {"uploading", "done"}, c \in Admits[s]
      PROVE  \A n \in DOMAIN requirements_not_found'[c][s] : Covered(c, s, n)'
  <2>1. c \in Client /\ c # ClientOf[t] /\ state[c] \in {"uploading", "done"}
    BY <1>1, <1>7, <1>8, CacheServerAssumption
  <2>2. requirements_not_found'[c] = requirements_not_found[c]
    BY <1>2, <2>1 DEF SearchFrame
  <2>3. QED
    BY <1>1, <1>8, <2>1, <2>2, WarmStays
<1>9. \A c \in Client : state'[c] = "done" => uploads'[c] = {}
  BY <1>1 DEF WarmsUpInv
<1>10. QED
  BY <1>6, <1>8, <1>9 DEF WarmsUpInv

\* A client starts: what it has it does not ask for.
LEMMA StartWarms ==
    ASSUME CacheInv, WarmsUpInv, NEW c \in Client, Start(c)
    PROVE  WarmsUpInv'
<1>1. /\ state[c] = "off" /\ state' = [state EXCEPT ![c] = "finding"]
      /\ wheels' = [wheels EXCEPT ![c] = [r \in Requirement |->
                        IF r \in Wants(c) THEN Newest(c, r) ELSE None]]
      /\ answer' = [answer EXCEPT ![c] = [r \in Requirement |->
                        IF r \in Wants(c) /\ Newest(c, r) = None THEN Reply("queued", None, None)
                        ELSE answer[c][r]]]
      /\ UNCHANGED <<requirements_not_found, run, uploads>> /\ [Next]_vars
  BY DEF Start, sharedVars, Next, ClientStep
<1>2. /\ DOMAIN answer = Client /\ DOMAIN wheels = Client /\ DOMAIN state = Client
      /\ \A r \in Requirement : answer[c][r].state = "unasked"
  BY <1>1 DEF CacheInv, Clients, Answered
<1>3. /\ \A r \in Requirement : wheels'[c][r] = IF r \in Wants(c) THEN Newest(c, r) ELSE None
      /\ \A r \in Requirement : (r \in Wants(c) /\ Newest(c, r) = None) \/ answer'[c][r] = answer[c][r]
      /\ \A d \in Client \ {c} :
             answer'[d] = answer[d] /\ wheels'[d] = wheels[d] /\ state'[d] = state[d]
      /\ state'[c] = "finding"
  BY <1>1, <1>2
<1>4. \A d \in Client : Wants(d)' = Wants(d)
  BY <1>1 DEF Wants
<1>5. ASSUME NEW d \in Client, NEW r \in Requirement
      PROVE  /\ Has(d, r)' => answer'[d][r].state \in {"unasked", "found"}
             /\ r \notin Wants(d)' => answer'[d][r].state = "unasked"
  <2>1. CASE d = c
    BY <1>2, <1>3, <1>4, <2>1 DEF Has
  <2>2. CASE d # c
    BY <1>3, <1>4, <2>2 DEF Has, WarmsUpInv
  <2>3. QED
    BY <2>1, <2>2
<1>6. ASSUME NEW d \in Upload, NEW s \in Curd, state'[d] \in {"uploading", "done"}, d \in Admits[s]
      PROVE  \A n \in DOMAIN requirements_not_found'[d][s] : Covered(d, s, n)'
  <2>1. d \in Client /\ d # c
    BY <1>3, <1>6, CacheServerAssumption
  <2>2. state[d] \in {"uploading", "done"} /\ wheels'[d] = wheels[d]
    BY <1>3, <1>6, <2>1
  <2>3. QED
    BY <1>1, <1>6, <2>1, <2>2, WarmStays
<1>7. \A d \in Client : state'[d] = "done" => uploads'[d] = {}
  BY <1>1, <1>3 DEF WarmsUpInv
<1>8. QED
  BY <1>5, <1>6, <1>7 DEF WarmsUpInv

\* A wheel arrives, or does not.
LEMMA DownloadWarms ==
    ASSUME CacheInv, WarmsUpInv, NEW c \in Client, NEW r \in Requirement,
           Download(c, r) \/ DownloadFails(c, r)
    PROVE  WarmsUpInv'
<1>1. /\ state[c] = "finding" /\ ~Has(c, r) /\ answer[c][r].state = "found"
      /\ UNCHANGED <<requirements_not_found, run, state, uploads>> /\ [Next]_vars
  BY DEF Download, DownloadFails, Downloading, locatorVars, sharedVars, clientVars, Next, ClientStep
<1>2. r \in Wants(c)
  BY <1>1 DEF WarmsUpInv
<1>3. \A d \in Client, q \in Requirement : d # c \/ q # r =>
          wheels'[d][q] = wheels[d][q] /\ answer'[d][q] = answer[d][q]
  <2>1. CASE Download(c, r)
    <3>1. \E w : wheels' = [wheels EXCEPT ![c][r] = w]
      BY <2>1 DEF Download
    <3>2. answer' = answer
      BY <2>1 DEF Download, locatorVars
    <3>3. QED
      BY <3>1, <3>2 DEF CacheInv, Clients
  <2>2. CASE DownloadFails(c, r)
    <3>1. \E a : answer' = [answer EXCEPT ![c][r] = a]
      BY <2>2 DEF DownloadFails
    <3>2. wheels' = wheels
      BY <2>2 DEF DownloadFails, clientVars
    <3>3. QED
      BY <3>1, <3>2 DEF CacheInv, Answered
  <2>3. QED
    BY <2>1, <2>2
<1>4. \A d \in Client \ {c} : wheels'[d] = wheels[d]
  BY DEF Download, DownloadFails, clientVars, CacheInv, Clients
<1>5. Has(c, r)' => answer'[c][r].state = "found"
  <2>1. CASE Download(c, r)
    BY <1>1, <2>1 DEF Download, locatorVars
  <2>2. CASE DownloadFails(c, r)
    BY <1>1, <2>2 DEF DownloadFails, clientVars, Has
  <2>3. QED
    BY <2>1, <2>2
<1>6. ASSUME NEW d \in Client, NEW q \in Requirement
      PROVE  /\ Has(d, q)' => answer'[d][q].state \in {"unasked", "found"}
             /\ q \notin Wants(d)' => answer'[d][q].state = "unasked"
  <2>1. Wants(d)' = Wants(d)
    BY <1>1 DEF Wants
  <2>2. CASE d = c /\ q = r
    BY <1>2, <1>5, <2>1, <2>2
  <2>3. CASE d # c \/ q # r
    BY <1>3, <2>1, <2>3 DEF WarmsUpInv, Has
  <2>4. QED
    BY <2>2, <2>3
<1>7. ASSUME NEW d \in Upload, NEW s \in Curd, state'[d] \in {"uploading", "done"}, d \in Admits[s]
      PROVE  \A n \in DOMAIN requirements_not_found'[d][s] : Covered(d, s, n)'
  <2>1. d \in Client /\ d # c /\ state[d] \in {"uploading", "done"}
    BY <1>1, <1>7, CacheServerAssumption
  <2>2. QED
    BY <1>1, <1>4, <1>7, <2>1, WarmStays
<1>8. \A d \in Client : state'[d] = "done" => uploads'[d] = {}
  BY <1>1 DEF WarmsUpInv
<1>9. QED
  BY <1>6, <1>7, <1>8 DEF WarmsUpInv

\* Everything is here: what was missed is to be sent.
LEMMA InstallWarms ==
    ASSUME CacheInv, WarmsUpInv, NEW c \in Client, InstallAll(c)
    PROVE  WarmsUpInv'
<1>1. /\ state[c] = "finding"
      /\ UNCHANGED <<requirements_not_found, answer, run, wheels>> /\ [Next]_vars
      /\ \/ state' = [state EXCEPT ![c] = "failed"] /\ UNCHANGED uploads
         \/ /\ state' = [state EXCEPT ![c] = "uploading"]
            /\ uploads' = [uploads EXCEPT ![c] =
                               IF c \in Upload THEN get_servers_to_update(c) ELSE {}]
  BY DEF InstallAll, locatorVars, sharedVars, Next, ClientStep
<1>2. DOMAIN state = Client /\ DOMAIN uploads = Client
  BY DEF CacheInv, Clients
<1>3. /\ state'[c] \in {"failed", "uploading"}
      /\ (state'[c] = "uploading" /\ c \in Upload) => uploads'[c] = get_servers_to_update(c)
      /\ \A d \in Client \ {c} : state'[d] = state[d] /\ uploads'[d] = uploads[d]
  BY <1>1, <1>2
<1>4. ASSUME NEW d \in Upload, NEW s \in Curd, state'[d] \in {"uploading", "done"}, d \in Admits[s]
      PROVE  \A n \in DOMAIN requirements_not_found'[d][s] : Covered(d, s, n)'
  <2>1. d \in Client
    BY CacheServerAssumption
  <2>2. CASE d = c
    <3>1. uploads'[c] = get_servers_to_update(c)
      BY <1>3, <1>4, <2>2
    <3>2. \A n \in DOMAIN requirements_not_found[c][s] : <<s, n>> \in uploads'[c]
      BY <3>1 DEF get_servers_to_update
    <3>3. QED
      BY <1>1, <2>2, <3>2 DEF Covered
  <2>3. CASE d # c
    <3>1. state[d] \in {"uploading", "done"} /\ uploads'[d] = uploads[d]
      BY <1>3, <1>4, <2>1, <2>3
    <3>2. QED
      BY <1>1, <1>4, <3>1, <2>1, WarmStays
  <2>4. QED
    BY <2>2, <2>3
<1>5. \A d \in Client : state'[d] = "done" => uploads'[d] = {}
  BY <1>3 DEF WarmsUpInv
<1>6. \A d \in Client, q \in Requirement :
          /\ Has(d, q)' => answer'[d][q].state \in {"unasked", "found"}
          /\ q \notin Wants(d)' => answer'[d][q].state = "unasked"
  BY <1>1 DEF WarmsUpInv, Has, Wants
<1>7. QED
  BY <1>4, <1>5, <1>6 DEF WarmsUpInv

\* A client stops, or has nothing more to send.
LEMMA StopWarms ==
    ASSUME CacheInv, WarmsUpInv, NEW c \in Client,
           GiveUp(c) \/ Exit(c) \/ \E x \in uploads[c] : SendFails(c, x[1], x[2])
    PROVE  WarmsUpInv'
<1>1. /\ UNCHANGED <<requirements_not_found, answer, run, wheels, uploads>> /\ [Next]_vars
      /\ \/ state' = [state EXCEPT ![c] = "failed"] \/ state' = [state EXCEPT ![c] = "stuck"]
         \/ state[c] = "uploading" /\ uploads[c] = {} /\ state' = [state EXCEPT ![c] = "done"]
  BY DEF GiveUp, Exit, SendFails, locatorVars, sharedVars, Next, ClientStep
<1>2. DOMAIN state = Client
  BY DEF CacheInv, Clients
<1>3. \A d \in Client : state'[d] \in {"uploading", "done"} =>
          /\ state[d] \in {"uploading", "done"}
          /\ state'[d] = "done" => uploads[d] = {}
  BY <1>1, <1>2 DEF WarmsUpInv
<1>4. ASSUME NEW d \in Upload, NEW s \in Curd, state'[d] \in {"uploading", "done"}, d \in Admits[s]
      PROVE  \A n \in DOMAIN requirements_not_found'[d][s] : Covered(d, s, n)'
  <2>1. state[d] \in {"uploading", "done"}
    BY <1>3, <1>4, CacheServerAssumption
  <2>2. QED
    BY <1>1, <1>4, <2>1, WarmStays
<1>5. \A d \in Client, q \in Requirement :
          /\ Has(d, q)' => answer'[d][q].state \in {"unasked", "found"}
          /\ q \notin Wants(d)' => answer'[d][q].state = "unasked"
  BY <1>1 DEF WarmsUpInv, Has, Wants
<1>6. QED
  BY <1>1, <1>3, <1>4, <1>5 DEF WarmsUpInv

\* A wheel is sent: the server lists it now, if it lets the client in.
LEMMA SendWarms ==
    ASSUME CacheInv, WarmsUpInv, NEW c \in Client, NEW x \in uploads[c], Send(c, x[1], x[2])
    PROVE  WarmsUpInv'
<1> DEFINE p == requirements_not_found[c][x[1]][x[2]]
<1>1. /\ state[c] = "uploading" /\ uploads' = [uploads EXCEPT ![c] = @ \ {<<x[1], x[2]>>}]
      /\ UNCHANGED <<requirements_not_found, answer, run, wheels, state>> /\ [Next]_vars
  BY DEF Send, sharedVars, Next, ClientStep
<1>2. x[1] \in Curd /\ p \in Package
  BY UploadFacts
<1>3. \A r \in Wants(c) : Has(c, r)
  BY <1>1 DEF CacheInv, Clients
<1>4. PICK w \in best_version(c, p) : served' = Stored(c, x[1], p, w)
  BY DEF Send
<1>5. c \in Admits[x[1]] => served'[x[1]][p][VersionOf(w)] # <<>>
  <2>1. w \in Of(p)
    BY <1>3, BestFacts
  <2> HIDE DEF p
  <2>2. QED
    BY <1>2, <1>4, <2>1, StoredFacts DEF CacheInv
<1>6. /\ DOMAIN uploads = Client /\ uploads'[c] = uploads[c] \ {<<x[1], x[2]>>}
      /\ \A d \in Client \ {c} : uploads'[d] = uploads[d]
  <2>1. uploads = [d \in Client |-> uploads[d]]
    BY DEF CacheInv, Clients
  <2>2. QED
    BY <1>1, <2>1
<1>7. ASSUME NEW s \in Curd, c \in Upload, c \in Admits[s], NEW n \in DOMAIN requirements_not_found[c][s]
      PROVE  Covered(c, s, n)'
  <2>1. CASE s = x[1] /\ n = x[2]
    <3>1. PICK q : q = p
      OBVIOUS
    <3>2. best_version(c, q)' = best_version(c, q)
      BY <1>1 DEF best_version, Compatible, Wants
    <3>3. w \in best_version(c, q)' /\ served'[s][q][VersionOf(w)] # <<>>
      BY <1>4, <1>5, <1>7, <2>1, <3>1, <3>2
    <3>4. requirements_not_found'[c][s][n] = q
      BY <1>1, <2>1, <3>1
    <3>5. QED
      BY <3>3, <3>4 DEF Covered
  <2>2. CASE <<s, n>> # <<x[1], x[2]>>
    <3>1. Covered(c, s, n)
      BY <1>1, <1>7 DEF WarmsUpInv
    <3>2. <<s, n>> \in uploads[c] => <<s, n>> \in uploads'[c]
      BY <1>6, <2>2
    <3>3. QED
      BY <1>1, <1>3, <1>7, <3>1, <3>2, CoveredStays
  <2>3. QED
    BY <2>1, <2>2
<1>8. ASSUME NEW d \in Upload, NEW s \in Curd, state'[d] \in {"uploading", "done"}, d \in Admits[s]
      PROVE  \A n \in DOMAIN requirements_not_found'[d][s] : Covered(d, s, n)'
  <2>1. CASE d = c
    BY <1>1, <1>7, <1>8, <2>1
  <2>2. CASE d # c
    <3>1. uploads'[d] = uploads[d] /\ state[d] \in {"uploading", "done"}
      BY <1>1, <1>6, <1>8, <2>2, CacheServerAssumption
    <3>2. QED
      BY <1>1, <1>8, <3>1, WarmStays
  <2>3. QED
    BY <2>1, <2>2
<1>9. \A d \in Client : state'[d] = "done" => uploads'[d] = {}
  BY <1>1, <1>6 DEF WarmsUpInv
<1>10. \A d \in Client, q \in Requirement :
          /\ Has(d, q)' => answer'[d][q].state \in {"unasked", "found"}
          /\ q \notin Wants(d)' => answer'[d][q].state = "unasked"
  BY <1>1 DEF WarmsUpInv, Has, Wants
<1>11. QED
  BY <1>8, <1>9, <1>10 DEF WarmsUpInv

\* No client takes part.
LEMMA RestartWarms ==
    ASSUME CacheInv, WarmsUpInv, [Next]_vars,
           UNCHANGED <<requirements_not_found, answer, run, wheels, state, uploads>>
    PROVE  WarmsUpInv'
<1>1. ASSUME NEW d \in Upload, NEW s \in Curd, state'[d] \in {"uploading", "done"}, d \in Admits[s]
      PROVE  \A n \in DOMAIN requirements_not_found'[d][s] : Covered(d, s, n)'
  BY <1>1, WarmStays
<1>2. \A d \in Client, q \in Requirement :
          /\ Has(d, q)' => answer'[d][q].state \in {"unasked", "found"}
          /\ q \notin Wants(d)' => answer'[d][q].state = "unasked"
  BY DEF WarmsUpInv, Has, Wants
<1>3. \A d \in Client : state'[d] = "done" => uploads'[d] = {}
  BY DEF WarmsUpInv
<1>4. QED
  BY <1>1, <1>2, <1>3 DEF WarmsUpInv

LEMMA WarmsStarts == Init => WarmsUpInv
<1> SUFFICES ASSUME Init
             PROVE  WarmsUpInv
  OBVIOUS
<1>1. /\ \A c \in Client : state[c] = "off"
      /\ \A c \in Client, r \in Requirement : wheels[c][r] = None
      /\ answer = [c \in Client |-> [r \in Requirement |-> Reply("unasked", None, None)]]
  BY DEF Init, LocatorsInit
<1>2. \A c \in Client, r \in Requirement : answer[c][r].state = "unasked"
  BY <1>1 DEF Reply
<1>3. QED
  BY <1>1, <1>2, CacheServerAssumption DEF WarmsUpInv, Has

LEMMA WarmsKeeps == CacheInv /\ WarmsUpInv /\ [Next]_vars => WarmsUpInv'
<1> SUFFICES ASSUME CacheInv, WarmsUpInv, [Next]_vars
             PROVE  WarmsUpInv'
  OBVIOUS
<1>1. ASSUME NEW c \in Client, ClientStep(c)
      PROVE  WarmsUpInv'
  BY <1>1, StartWarms, DownloadWarms, InstallWarms, StopWarms, SendWarms DEF ClientStep
<1>2. ASSUME NEW t \in Thread, SearchStep(t)
      PROVE  WarmsUpInv'
  BY <1>2, SearchWarms
<1>3. ASSUME (\E s \in Curd : Restart(s)) \/ UNCHANGED vars
      PROVE  WarmsUpInv'
  <2>1. UNCHANGED <<requirements_not_found, answer, run, wheels, state, uploads>>
    BY <1>3 DEF Restart, vars, locatorVars, sharedVars, clientVars
  <2>2. QED
    BY <2>1, RestartWarms
<1>4. QED
  BY <1>1, <1>2, <1>3 DEF Next

(***************************************************************************)
(* WarmsUp: a client that ran with -u and is done leaves no server that    *)
(* lets it in without a wheel it missed there, whatever other clients      *)
(* upload meanwhile and whichever servers restart.                         *)
(***************************************************************************)
THEOREM MissesMadeGood == Spec => []WarmsUp
<1>1. CacheInv /\ WarmsUpInv => WarmsUp
  <2> SUFFICES ASSUME CacheInv, WarmsUpInv, NEW c \in Upload, NEW s \in Curd,
                      state[c] = "done", c \in Admits[s],
                      NEW p \in Range(requirements_not_found[c][s])
               PROVE  \E w \in best_version(c, p) : served[s][p][VersionOf(w)] # <<>>
    BY DEF WarmsUp
  <2>1. PICK n \in DOMAIN requirements_not_found[c][s] : p = requirements_not_found[c][s][n]
    BY DEF Range
  <2>2. Covered(c, s, n) /\ uploads[c] = {}
    BY CacheServerAssumption DEF WarmsUpInv
  <2>3. QED
    BY <2>1, <2>2 DEF Covered
<1>2. QED
  BY <1>1, CacheSound, WarmsStarts, WarmsKeeps, PTL DEF Spec

-----------------------------------------------------------------------------
(* Servers come first *)

\* Every server is a locator.
LEMMA CurdsAreAsked ==
    /\ \A s \in Curd : \E k \in 1 .. Len(Locators) : Locators[k] = s
    /\ \A s \in Curd : s \notin PyPi
<1>1. Range(Locators) = Curd \cup PyPi /\ DOMAIN Locators = 1 .. Len(Locators)
  BY LocatorFacts
<1>2. \A s \in Curd : \E k \in 1 .. Len(Locators) : Locators[k] = s
  BY <1>1 DEF Range
<1>3. QED
  BY <1>2, LocatorsAssumption

\* A thread at an index has had all the servers behind it.
LEMMA AfterServers ==
    ASSUME Threads, ServersFirstInv, NEW t \in Thread, pc[t] # "idle", Here(t) \in PyPi, NEW s \in Curd
    PROVE  Lacks(ClientOf[t], s, job[t].req)
<1>1. job[t].at \in DOMAIN Locators
  BY Whereabouts
<1>2. PICK k \in 1 .. job[t].at - 1 : Locators[k] = s
  BY <1>1, LocatorFacts DEF Here
<1>3. QED
  BY <1>2 DEF ServersFirstInv

\* A server whose listing has nothing that suits.
LEMMA NothingSuits ==
    ASSUME NEW c, NEW s, NEW r \in Requirement, NEW versions,
           Tells(c, s, PkgOf[r], versions), Suitable(versions, r) = {}
    PROVE  Lacks(c, s, r)
<1>1. Allows[r] \subseteq Version /\ \A v \in Allows[r] : versions[v] = None
  BY LocatorsAssumption DEF Suitable
<1>2. QED
  BY <1>1 DEF Tells, Lacks

\* A step of a thread, by what it does to the listings, the thread and the answers.
LEMMA FirstStays ==
    ASSUME CacheInv, ServersFirstInv, NEW t \in Thread,
           before' = before, served' = served, outages \subseteq outages',
           \A u \in Thread \ {t} : pc'[u] = pc[u] /\ job'[u] = job[u],
           \A c \in Client, s \in Curd, p \in Package :
               known'[c][s][p] = known[c][s][p] \/ Tells(c, s, p, known'[c][s][p]),
           pc'[t] = "learn" /\ Locators[job'[t].at] \in Curd =>
               \/ <<ClientOf[t], Locators[job'[t].at], PkgOf[job'[t].req]>> \in outages'
               \/ Tells(ClientOf[t], Locators[job'[t].at], PkgOf[job'[t].req], job'[t].top),
           pc'[t] # "idle" =>
               \A k \in 1 .. job'[t].at - 1 :
                   Locators[k] \in Curd => Lacks(ClientOf[t], Locators[k], job'[t].req),
           \A c \in Client, r \in Requirement :
               \/ answer'[c][r] = answer[c][r]
               \/ answer'[c][r].state # "not found" /\ answer'[c][r].locator \notin PyPi
               \/ \A s \in Curd : Lacks(c, s, r)
    PROVE  ServersFirstInv'
<1>1. /\ before' \in [Client -> [Curd -> Table]]
      /\ \A c \in Client, s \in Curd, p \in Package, v \in Version :
             before'[c][s][p][v] # <<>> => served'[s][p][v] # <<>>
  BY DEF ServersFirstInv
<1>2. ASSUME NEW c \in Client, NEW s \in Curd, NEW p \in Package, known'[c][s][p] # None
      PROVE  Tells(c, s, p, known[c][s][p])'
  <2>1. Tells(c, s, p, known'[c][s][p])
    BY <1>2 DEF ServersFirstInv
  <2>2. QED
    BY <2>1 DEF Tells
<1>3. ASSUME NEW u \in Thread, pc'[u] = "learn", Here(u)' \in Curd
      PROVE  Tells(ClientOf[u], Here(u), Wanted(u), job[u].top)'
  <2> DEFINE c == ClientOf[u]
             s == Locators[job'[u].at]
             p == PkgOf[job'[u].req]
             top == job'[u].top
  <2>1. <<c, s, p>> \in outages' \/ Tells(c, s, p, top)
    <3>1. CASE u = t
      BY <1>3, <3>1 DEF Here
    <3>2. CASE u # t
      <4>1. pc'[u] = pc[u] /\ job'[u] = job[u]
        BY <3>2
      <4>2. QED
        BY <1>3, <4>1 DEF ServersFirstInv, Here, Wanted
    <3>3. QED
      BY <3>1, <3>2
  <2>2. c \in Admits[s] /\ <<c, s, p>> \notin outages' =>
            \A v \in Version : before'[c][s][p][v] # <<>> => top[v] # None
    <3> HIDE DEF c, s, p, top
    <3>1. QED
      BY <2>1 DEF Tells
  <2>3. QED
    BY <2>2 DEF Tells, Here, Wanted
<1>4. ASSUME NEW c, NEW s, NEW r, Lacks(c, s, r)
      PROVE  Lacks(c, s, r)'
  BY <1>4 DEF Lacks
<1>5. ASSUME NEW u \in Thread, pc'[u] # "idle", NEW k \in 1 .. job'[u].at - 1, Locators[k] \in Curd
      PROVE  Lacks(ClientOf[u], Locators[k], job[u].req)'
  <2>1. Lacks(ClientOf[u], Locators[k], job'[u].req)
    <3>1. CASE u = t
      BY <1>5, <3>1
    <3>2. CASE u # t
      <4>1. pc'[u] = pc[u] /\ job'[u] = job[u]
        BY <3>2
      <4>2. QED
        BY <1>5, <4>1 DEF ServersFirstInv
    <3>3. QED
      BY <3>1, <3>2
  <2>2. PICK r : r = job'[u].req
    OBVIOUS
  <2>3. Lacks(ClientOf[u], Locators[k], r)'
    BY <1>4, <2>1, <2>2
  <2>4. QED
    BY <2>2, <2>3 DEF Lacks
<1>6. ASSUME NEW c \in Client, NEW r \in Requirement, NEW s \in Curd,
             answer'[c][r].state = "not found" \/ answer'[c][r].locator \in PyPi
      PROVE  Lacks(c, s, r)'
  <2>1. ASSUME answer'[c][r] = answer[c][r]
        PROVE  Lacks(c, s, r)
    <3>1. answer[c][r].state = "not found" \/ answer[c][r].locator \in PyPi
      BY <1>6, <2>1
    <3>2. ServersFirst
      BY DEF ServersFirstInv
    <3>3. QED
      BY ONLY <3>1, <3>2, c \in Client, r \in Requirement, s \in Curd DEF ServersFirst, Lacks
  <2>2. QED
    BY <1>4, <1>6, <2>1
<1>7. ServersFirst'
  BY <1>6 DEF ServersFirst, Lacks
<1>8. QED
  BY <1>1, <1>2, <1>3, <1>5, <1>7 DEF ServersFirstInv

\* A thread goes on with the same locator.
LEMMA SteadyFirst ==
    ASSUME CacheInv, ServersFirstInv, NEW t \in Thread, pc[t] # "idle",
           UNCHANGED <<before, served, known, answer>>, outages \subseteq outages',
           \A u \in Thread \ {t} : pc'[u] = pc[u] /\ job'[u] = job[u],
           job'[t].at = job[t].at, job'[t].req = job[t].req,
           \/ pc'[t] # "learn" \/ Here(t) \in PyPi
           \/ <<ClientOf[t], Here(t), Wanted(t)>> \in outages'
           \/ Tells(ClientOf[t], Here(t), Wanted(t), job'[t].top)
    PROVE  ServersFirstInv'
<1>1. \A k \in 1 .. job'[t].at - 1 :
          Locators[k] \in Curd => Lacks(ClientOf[t], Locators[k], job'[t].req)
  BY DEF ServersFirstInv
<1>2. pc'[t] = "learn" /\ Locators[job'[t].at] \in Curd =>
          \/ <<ClientOf[t], Locators[job'[t].at], PkgOf[job'[t].req]>> \in outages'
          \/ Tells(ClientOf[t], Locators[job'[t].at], PkgOf[job'[t].req], job'[t].top)
  BY CurdsAreAsked DEF Here, Wanted
<1>3. \A c \in Client, s \in Curd, p \in Package :
          known'[c][s][p] = known[c][s][p] \/ Tells(c, s, p, known'[c][s][p])
  OBVIOUS
<1>4. \A c \in Client, r \in Requirement :
          \/ answer'[c][r] = answer[c][r]
          \/ answer'[c][r].state # "not found" /\ answer'[c][r].locator \notin PyPi
          \/ \A s \in Curd : Lacks(c, s, r)
  OBVIOUS
<1>5. QED
  BY <1>1, <1>2, <1>3, <1>4, FirstStays

\* locate is over: either a server has the answer, or no server had one.
LEMMA FinishFirst ==
    ASSUME CacheInv, ServersFirstInv, NEW t \in Thread, pc[t] # "idle",
           UNCHANGED <<before, served, outages>>,
           \A c \in Client, s \in Curd, p \in Package :
               known'[c][s][p] = known[c][s][p] \/ Tells(c, s, p, known'[c][s][p]),
           NEW reply, Finish(t, reply),
           reply.state = "not found" \/ reply.locator \in PyPi =>
               \A s \in Curd : Lacks(ClientOf[t], s, job[t].req)
    PROVE  ServersFirstInv'
<1>1. /\ pc'[t] = "idle"
      /\ \A u \in Thread \ {t} : pc'[u] = pc[u] /\ job'[u] = job[u]
  BY DEF Finish, Goto, CacheInv, Threads
<1>2. \A c \in Client, r \in Requirement :
          \/ answer'[c][r] = answer[c][r]
          \/ c = ClientOf[t] /\ r = job[t].req /\ answer'[c][r] = reply
  BY DEF Finish, CacheInv, Answered
<1>3. \A c \in Client, r \in Requirement :
          \/ answer'[c][r] = answer[c][r]
          \/ answer'[c][r].state # "not found" /\ answer'[c][r].locator \notin PyPi
          \/ \A s \in Curd : Lacks(c, s, r)
  BY <1>2
<1>4. outages \subseteq outages' /\ pc'[t] # "learn"
  BY <1>1
<1>5. QED
  BY <1>1, <1>3, <1>4, FirstStays

\* A locator has answered: its listing tells what a server had.
LEMMA DecideFirst ==
    ASSUME CacheInv, ServersFirstInv, NEW t \in Thread, pc[t] # "idle",
           UNCHANGED <<before, served, outages>>,
           \A c \in Client, s \in Curd, p \in Package :
               known'[c][s][p] = known[c][s][p] \/ Tells(c, s, p, known'[c][s][p]),
           NEW versions, Decide(t, versions),
           Here(t) \in Curd => Tells(ClientOf[t], Here(t), Wanted(t), versions)
    PROVE  ServersFirstInv'
<1> DEFINE c == ClientOf[t]
           r == job[t].req
<1>1. r \in Requirement /\ job[t].at \in 1 .. Len(Locators) /\ Len(Locators) \in Nat
  BY Whereabouts, LocatorFacts DEF CacheInv
<1>2. ASSUME Suitable(versions, r) = {}, NEW k \in 1 .. job[t].at, Locators[k] \in Curd
      PROVE  Lacks(c, Locators[k], r)
  <2>1. CASE k = job[t].at
    BY <1>1, <1>2, <2>1, NothingSuits DEF Here, Wanted
  <2>2. CASE k # job[t].at
    <3>1. k \in 1 .. job[t].at - 1
      BY <1>1, <2>2
    <3>2. QED
      BY <1>2, <3>1 DEF ServersFirstInv
  <2>3. QED
    BY <2>1, <2>2
<1>3. CASE Finish(t, Reply("found", find_packages(versions, r), Here(t)))
  <2>1. PICK reply : reply = Reply("found", find_packages(versions, r), Here(t))
    OBVIOUS
  <2>2. reply.state = "found" /\ reply.locator = Here(t) /\ Finish(t, reply)
    BY <1>3, <2>1 DEF Reply
  <2>3. reply.state = "not found" \/ reply.locator \in PyPi => \A s \in Curd : Lacks(c, s, r)
    BY <2>2, AfterServers DEF CacheInv
  <2>4. QED
    BY <2>2, <2>3, FinishFirst
<1>4. CASE Suitable(versions, r) = {} /\ Finish(t, Reply("not found", None, None)) /\ job[t].at = Len(Locators)
  <2>1. \A s \in Curd : Lacks(c, s, r)
    BY <1>1, <1>2, <1>4, CurdsAreAsked
  <2>2. PICK reply : reply = Reply("not found", None, None)
    OBVIOUS
  <2>3. Finish(t, reply)
    BY <1>4, <2>2
  <2>4. QED
    BY <2>1, <2>3, FinishFirst
<1>5. CASE /\ Suitable(versions, r) = {}
           /\ job' = [job EXCEPT ![t] = [NoJob EXCEPT !.req = r, !.at = job[t].at + 1]]
           /\ Goto(t, "ask") /\ UNCHANGED answer
  <2>1. /\ pc'[t] = "ask"
        /\ \A u \in Thread \ {t} : pc'[u] = pc[u] /\ job'[u] = job[u]
    BY <1>5 DEF Goto, CacheInv, Threads
  <2>2. job'[t].req = r /\ job'[t].at = job[t].at + 1
    BY <1>5 DEF CacheInv, Threads, NoJob
  <2>3. \A k \in 1 .. job'[t].at - 1 :
            Locators[k] \in Curd => Lacks(c, Locators[k], job'[t].req)
    <3>1. 1 .. job'[t].at - 1 = 1 .. job[t].at
      BY <1>1, <2>2
    <3>2. QED
      BY <1>2, <1>5, <2>2, <3>1
  <2>4. outages \subseteq outages' /\ pc'[t] # "learn"
    BY <2>1
  <2>5. \A d \in Client, q \in Requirement :
            \/ answer'[d][q] = answer[d][q]
            \/ answer'[d][q].state # "not found" /\ answer'[d][q].locator \notin PyPi
            \/ \A s \in Curd : Lacks(d, s, q)
    BY <1>5
  <2>6. QED
    BY <2>1, <2>3, <2>4, <2>5, FirstStays
<1>6. QED
  BY <1>3, <1>4, <1>5 DEF Decide

\* A listing comes from `_cache', or goes there.
LEMMA DecidesFirst ==
    ASSUME CacheInv, ServersFirstInv, NEW t \in Thread, Remember(t) \/ Store(t)
    PROVE  ServersFirstInv'
<1>1. pc[t] # "idle" /\ UNCHANGED <<before, served, outages>>
  BY DEF Remember, Store, At, history
<1>2. ClientOf[t] \in Client /\ Here(t) \in Range(Locators) /\ Wanted(t) \in Package
  BY <1>1, Whereabouts DEF CacheInv
<1>3. CASE Remember(t)
  <2>1. Known(t) # None /\ Decide(t, Known(t)) /\ UNCHANGED known
    BY <1>3 DEF Remember, sharedVars
  <2>2. Here(t) \in Curd => Tells(ClientOf[t], Here(t), Wanted(t), Known(t))
    BY <1>2, <2>1 DEF ServersFirstInv, Known
  <2>3. \A c \in Client, s \in Curd, p \in Package :
            known'[c][s][p] = known[c][s][p] \/ Tells(c, s, p, known'[c][s][p])
    BY <2>1
  <2>4. PICK versions : versions = Known(t)
    OBVIOUS
  <2>5. QED
    BY <1>1, <2>1, <2>2, <2>3, <2>4, DecideFirst
<1>4. CASE Store(t)
  <2>1. PICK versions : versions = job[t].top
    OBVIOUS
  <2>2. /\ pc[t] = "learn" /\ Decide(t, versions)
        /\ known' = [known EXCEPT ![ClientOf[t]][Here(t)][Wanted(t)] = versions]
    BY <1>4, <2>1 DEF Store, At
  <2>3. Here(t) \in Curd => Tells(ClientOf[t], Here(t), Wanted(t), versions)
    BY <2>1, <2>2 DEF ServersFirstInv
  <2>4. \A c \in Client, s \in Curd, p \in Package :
            known'[c][s][p] = known[c][s][p] \/ Tells(c, s, p, known'[c][s][p])
    <3>1. known \in [Client -> [Range(Locators) -> [Package -> Listing \cup {None}]]]
      BY DEF CacheInv, Shared
    <3>2. \A c \in Client, s \in Range(Locators), p \in Package :
              \/ known'[c][s][p] = known[c][s][p]
              \/ c = ClientOf[t] /\ s = Here(t) /\ p = Wanted(t) /\ known'[c][s][p] = versions
      BY <1>2, <2>2, <3>1
    <3>3. Curd \subseteq Range(Locators)
      BY LocatorFacts
    <3>4. QED
      BY <2>3, <3>2, <3>3
  <2>5. QED
    BY <1>1, <2>2, <2>3, <2>4, DecideFirst
<1>5. QED
  BY <1>3, <1>4

\* A server answers with all it has, or does not answer.
LEMMA AsksFirst ==
    ASSUME CacheInv, ServersFirstInv, NEW t \in Thread, AskCurd(t)
    PROVE  ServersFirstInv'
<1>1. PICK listing :
          /\ listing = IF ClientOf[t] \in Admits[Here(t)] THEN Listed(Here(t), Wanted(t)) ELSE NoVersion
          /\ job' = [job EXCEPT ![t].top = listing]
  BY DEF AskCurd, Learn
<1>2. /\ pc[t] # "idle" /\ Here(t) \in Curd
      /\ pc' = [pc EXCEPT ![t] = "learn"]
      /\ UNCHANGED <<before, served, known, answer, outages>>
  BY DEF AskCurd, At, Learn, Goto, history
<1>3. Wanted(t) \in Package /\ IsJob(job[t]) /\ ClientOf[t] \in Client
  BY <1>2, Whereabouts DEF CacheInv
<1>4. /\ \A u \in Thread \ {t} : pc'[u] = pc[u] /\ job'[u] = job[u]
      /\ job'[t] = [job[t] EXCEPT !.top = listing]
  BY <1>1, <1>2 DEF CacheInv, Threads
<1>5. job'[t].at = job[t].at /\ job'[t].req = job[t].req /\ job'[t].top = listing
  BY <1>3, <1>4 DEF IsJob
<1>6. Tells(ClientOf[t], Here(t), Wanted(t), listing)
  <2>1. CASE ClientOf[t] \in Admits[Here(t)]
    <3>1. \A v \in Version : before[ClientOf[t]][Here(t)][Wanted(t)][v] # <<>> => listing[v] # None
      BY <1>1, <1>2, <1>3, <2>1, ListedFacts DEF CacheInv, ServersFirstInv
    <3>2. QED
      BY <3>1 DEF Tells
  <2>2. QED
    BY <2>1 DEF Tells
<1>7. QED
  BY <1>2, <1>4, <1>5, <1>6, SteadyFirst

LEMMA NoAnswerFirst ==
    ASSUME CacheInv, ServersFirstInv, NEW t \in Thread, NoAnswer(t)
    PROVE  ServersFirstInv'
<1>1. /\ pc[t] # "idle" /\ UNCHANGED <<before, served, known, answer>>
      /\ outages' = outages \cup {<<ClientOf[t], Here(t), Wanted(t)>>}
  BY DEF NoAnswer, At, sharedVars
<1>2. IsJob(job[t]) /\ pc = [u \in Thread |-> pc[u]] /\ job = [u \in Thread |-> job[u]]
  BY <1>1, Whereabouts DEF CacheInv, Threads
<1>3. /\ pc' = pc \/ pc' = [pc EXCEPT ![t] = "learn"]
      /\ \/ job' = [job EXCEPT ![t].top = NoVersion]
         \/ job' = [job EXCEPT ![t].pages = Tail(@)]
         \/ job' = [job EXCEPT ![t].links = Rest(t)]
  BY DEF NoAnswer, Learn, Goto
<1>4. /\ \A u \in Thread \ {t} : pc'[u] = pc[u] /\ job'[u] = job[u]
      /\ \/ job'[t] = [job[t] EXCEPT !.top = NoVersion]
         \/ job'[t] = [job[t] EXCEPT !.pages = Tail(job[t].pages)]
         \/ job'[t] = [job[t] EXCEPT !.links = Rest(t)]
  BY <1>2, <1>3
<1>5. job'[t].at = job[t].at /\ job'[t].req = job[t].req
  BY <1>2, <1>4 DEF IsJob
<1>6. QED
  BY <1>1, <1>4, <1>5, SteadyFirst

\* The search of an index goes on.
LEMMA IndexFirst ==
    ASSUME CacheInv, ServersFirstInv, NEW t \in Thread,
           \/ AskIndex(t) \/ NoPage(t) \/ Return(t) \/ Skip(t) \/ See(t) \/ Visit(t) \/ Fetched(t)
           \/ (Fetch(t) \/ Home(t)) /\ ~TooManyRedirects(t)
    PROVE  ServersFirstInv'
<1>1. pc[t] # "idle" /\ Here(t) \in PyPi
  BY DEF CacheInv, Threads, Doing, Here, AskIndex, NoPage, Return, Skip, See, Visit, Fetched,
         Fetch, Home, Looking, At
<1>2. UNCHANGED <<before, served, known, answer, outages>>
  <2>1. CASE AskIndex(t) \/ NoPage(t) \/ Return(t) \/ Skip(t) \/ See(t) \/ Visit(t) \/ Fetched(t)
    BY <2>1 DEF AskIndex, NoPage, Return, Skip, See, Visit, Fetched, sharedVars, history
  <2>2. CASE (Fetch(t) \/ Home(t)) /\ ~TooManyRedirects(t)
    BY <2>2 DEF Fetch, Home, sharedVars, history
  <2>3. QED
    BY <2>1, <2>2
<1>3. /\ \E k : pc' = [pc EXCEPT ![t] = k]
      /\ \E pages, links, top, below :
             \/ job' = job
             \/ job' = [job EXCEPT ![t].pages = pages]
             \/ job' = [job EXCEPT ![t].links = links]
             \/ job' = [job EXCEPT ![t].top = top]
             \/ job' = [job EXCEPT ![t].links = links, ![t].pages = pages]
             \/ job' = [job EXCEPT ![t].links = links, ![t].below = below, ![t].top = top]
             \/ job' = [job EXCEPT ![t].links = links, ![t].top = top, ![t].below = below]
  <2>1. pc = [pc EXCEPT ![t] = pc[t]]
    BY DEF CacheInv, Threads
  <2>2. CASE AskIndex(t)
    BY <2>2 DEF AskIndex, Goto
  <2>3. CASE NoPage(t)
    BY <2>3 DEF NoPage, Learn, Goto
  <2>4. CASE Return(t)
    BY <2>1, <2>4 DEF Return
  <2>5. CASE Skip(t)
    BY <2>1, <2>5 DEF Skip
  <2>6. CASE See(t)
    BY <2>6 DEF See, Goto
  <2>7. CASE Visit(t)
    BY <2>7 DEF Visit, Goto
  <2>8. CASE Fetched(t)
    BY <2>8 DEF Fetched, Learn, Goto
  <2>9. CASE Fetch(t) /\ ~TooManyRedirects(t)
    BY <2>9 DEF Fetch, Goto
  <2>10. CASE Home(t) /\ ~TooManyRedirects(t)
    BY <2>1, <2>10 DEF Home
  <2>11. QED
    BY <2>2, <2>3, <2>4, <2>5, <2>6, <2>7, <2>8, <2>9, <2>10
<1>4. IsJob(job[t]) /\ pc = [u \in Thread |-> pc[u]] /\ job = [u \in Thread |-> job[u]]
  BY <1>1, Whereabouts DEF CacheInv, Threads
<1>5. \A u \in Thread \ {t} : pc'[u] = pc[u] /\ job'[u] = job[u]
  BY <1>3, <1>4
<1>6. job'[t].at = job[t].at /\ job'[t].req = job[t].req
  <2>1. PICK j : j = job[t]
    OBVIOUS
  <2>2. IsJob(j)
    BY <1>4, <2>1
  <2>3. PICK pages, links, top, below :
             \/ job' = job
             \/ job' = [job EXCEPT ![t].pages = pages]
             \/ job' = [job EXCEPT ![t].links = links]
             \/ job' = [job EXCEPT ![t].top = top]
             \/ job' = [job EXCEPT ![t].links = links, ![t].pages = pages]
             \/ job' = [job EXCEPT ![t].links = links, ![t].below = below, ![t].top = top]
             \/ job' = [job EXCEPT ![t].links = links, ![t].top = top, ![t].below = below]
    BY <1>3
  <2>4. \/ job'[t] = j
        \/ job'[t] = [j EXCEPT !.pages = pages]
        \/ job'[t] = [j EXCEPT !.links = links]
        \/ job'[t] = [j EXCEPT !.top = top]
        \/ job'[t] = [j EXCEPT !.links = links, !.pages = pages]
        \/ job'[t] = [j EXCEPT !.links = links, !.below = below, !.top = top]
        \/ job'[t] = [j EXCEPT !.links = links, !.top = top, !.below = below]
    BY <1>4, <2>1, <2>3
  <2>5. QED
    BY <2>1, <2>2, <2>4 DEF IsJob
<1>7. QED
  BY <1>1, <1>2, <1>5, <1>6, SteadyFirst

\* A page of an index redirects too often.
LEMMA TooManyRedirectsFirst ==
    ASSUME CacheInv, ServersFirstInv, NEW t \in Thread, Fetch(t) \/ Home(t), TooManyRedirects(t)
    PROVE  ServersFirstInv'
<1>1. pc[t] # "idle" /\ Here(t) \in PyPi
  BY DEF CacheInv, Threads, Doing, Here, Fetch, Home, Looking, At
<1>2. PICK reply : reply = Reply("error", None, Here(t))
  OBVIOUS
<1>3. Finish(t, reply) /\ UNCHANGED <<before, served, known, outages>>
  BY <1>2 DEF TooManyRedirects, sharedVars, history
<1>4. \A s \in Curd : Lacks(ClientOf[t], s, job[t].req)
  BY <1>1, AfterServers DEF CacheInv
<1>5. \A c \in Client, s \in Curd, p \in Package :
          known'[c][s][p] = known[c][s][p] \/ Tells(c, s, p, known'[c][s][p])
  BY <1>3
<1>6. QED
  BY <1>1, <1>3, <1>4, <1>5, FinishFirst

\* A requirement leaves the queue.
LEMMA TakeFirst ==
    ASSUME CacheInv, ServersFirstInv, NEW t \in Thread, NEW r \in Requirement, Take(t, r)
    PROVE  ServersFirstInv'
<1>1. /\ UNCHANGED <<before, served, known, outages>>
      /\ answer[ClientOf[t]][r].state = "queued"
      /\ answer' = [answer EXCEPT ![ClientOf[t]][r].state = "searching"]
      /\ job' = [job EXCEPT ![t] = [NoJob EXCEPT !.req = r, !.at = 1]]
      /\ pc' = [pc EXCEPT ![t] = "ask"]
  BY DEF Take, Goto, sharedVars, history
<1>2. /\ pc'[t] = "ask" /\ \A u \in Thread \ {t} : pc'[u] = pc[u] /\ job'[u] = job[u]
      /\ job'[t] = [NoJob EXCEPT !.req = r, !.at = 1]
  BY <1>1 DEF CacheInv, Threads
<1>3. job'[t].at = 1 /\ 1 .. job'[t].at - 1 = {}
  <2>1. job'[t].at = 1
    BY <1>2 DEF NoJob
  <2>2. QED
    BY <2>1
<1>4. \A c \in Client, q \in Requirement :
          \/ answer'[c][q] = answer[c][q]
          \/ answer'[c][q].state # "not found" /\ answer'[c][q].locator \notin PyPi
          \/ \A s \in Curd : Lacks(c, s, q)
  <2>1. /\ ClientOf[t] \in Client /\ answer \in [Client -> [Requirement -> Replies]]
        /\ Proper(r, answer[ClientOf[t]][r])
    BY LocatorsAssumption DEF CacheInv, Answered
  <2>2. answer[ClientOf[t]][r] \in Replies
    BY <2>1
  <2>3. answer[ClientOf[t]][r].locator = None
    BY <1>1, <2>1 DEF Proper
  <2>4. PICK reply : reply = [answer[ClientOf[t]][r] EXCEPT !.state = "searching"]
    OBVIOUS
  <2>5. reply.state = "searching" /\ reply.locator = None
    BY <2>2, <2>3, <2>4 DEF Replies
  <2>6. \A c \in Client, q \in Requirement : answer'[c][q] = answer[c][q] \/ answer'[c][q] = reply
    BY <1>1, <2>1, <2>4
  <2>7. None \notin PyPi
    BY LocatorsAssumption
  <2>8. QED
    BY <2>5, <2>6, <2>7
<1>5. outages \subseteq outages' /\ pc'[t] # "learn"
  BY <1>1, <1>2
<1>6. QED
  BY <1>1, <1>2, <1>3, <1>4, <1>5, FirstStays

LEMMA SearchFirst ==
    ASSUME CacheInv, ServersFirstInv, NEW t \in Thread, Search(t)
    PROVE  ServersFirstInv'
BY TakeFirst, DecidesFirst, AsksFirst, NoAnswerFirst, IndexFirst, TooManyRedirectsFirst DEF Search

\* No search takes a step.
LEMMA FirstStutters ==
    ASSUME CacheInv, ServersFirstInv, [Next]_vars,
           UNCHANGED <<before, outages, known, pc, job>>,
           \A c \in Client, r \in Requirement :
               \/ answer'[c][r] = answer[c][r]
               \/ answer[c][r].locator = answer'[c][r].locator /\ answer'[c][r].state # "not found"
    PROVE  ServersFirstInv'
<1>1. \A c \in Client, s \in Curd, p \in Package, v \in Version :
          before'[c][s][p][v] # <<>> => served'[s][p][v] # <<>>
  BY ServedStays DEF ServersFirstInv
<1>2. ServersFirst'
  BY DEF ServersFirstInv, ServersFirst
<1>3. /\ \A c \in Client, s \in Curd, p \in Package :
             known'[c][s][p] # None => Tells(c, s, p, known[c][s][p])'
      /\ \A t \in Thread : pc'[t] = "learn" /\ Here(t)' \in Curd =>
             Tells(ClientOf[t], Here(t), Wanted(t), job[t].top)'
  BY DEF ServersFirstInv, Tells, Here, Wanted
<1>4. \A t \in Thread : pc'[t] # "idle" => \A k \in 1 .. job'[t].at - 1 :
          Locators[k] \in Curd => Lacks(ClientOf[t], Locators[k], job[t].req)'
  BY DEF ServersFirstInv, Lacks
<1>5. before' \in [Client -> [Curd -> Table]]
  BY DEF ServersFirstInv
<1>6. QED
  BY <1>1, <1>2, <1>3, <1>4, <1>5 DEF ServersFirstInv

\* A client starts: it knows nothing yet, and what servers list now is what counts.
LEMMA StartFirst ==
    ASSUME CacheInv, ServersFirstInv, NEW c \in Client, Start(c)
    PROVE  ServersFirstInv'
<1>1. /\ state[c] = "off" /\ before' = [before EXCEPT ![c] = served]
      /\ answer' = [answer EXCEPT ![c] = [r \in Requirement |->
                        IF r \in Wants(c) /\ Newest(c, r) = None THEN Reply("queued", None, None)
                        ELSE answer[c][r]]]
      /\ UNCHANGED <<served, known, outages, pc, job>>
  BY DEF Start, sharedVars
<1>2. /\ \A r \in Requirement : answer[c][r].state = "unasked" /\ answer[c][r].locator = None
      /\ known[c] = NothingKnown
  <2>1. \A r \in Requirement : answer[c][r].state = "unasked"
    BY <1>1 DEF CacheInv, Clients
  <2>2. \A r \in Requirement : Proper(r, answer[c][r])
    BY DEF CacheInv, Answered
  <2>3. known[c] = NothingKnown
    BY <1>1 DEF CacheInv, Clients
  <2>4. QED
    BY <2>1, <2>2, <2>3 DEF Proper
<1>3. /\ before' \in [Client -> [Curd -> Table]] /\ before'[c] = served
      /\ \A d \in Client \ {c} : before'[d] = before[d]
  BY <1>1 DEF CacheInv, Filed, ServersFirstInv
<1>4. \A d \in Client, s \in Curd, p \in Package, v \in Version :
          before'[d][s][p][v] # <<>> => served'[s][p][v] # <<>>
  BY <1>1, <1>3 DEF ServersFirstInv
<1>5. \A r \in Requirement : answer'[c][r].state \in {"unasked", "queued"} /\ answer'[c][r].locator = None
  <2>1. \A r \in Requirement :
            answer'[c][r] = answer[c][r] \/ answer'[c][r] = Reply("queued", None, None)
    BY <1>1 DEF CacheInv, Answered
  <2>2. Reply("queued", None, None).state = "queued" /\ Reply("queued", None, None).locator = None
    BY DEF Reply
  <2>3. QED
    BY <1>2, <2>1, <2>2
<1>6. \A d \in Client \ {c} : answer'[d] = answer[d]
  BY <1>1 DEF CacheInv, Answered
<1>7. ServersFirst'
  <2>1. None \notin PyPi
    BY LocatorsAssumption
  <2>2. ASSUME NEW d \in Client, NEW r \in Requirement, NEW s \in Curd,
               answer'[d][r].state = "not found" \/ answer'[d][r].locator \in PyPi
        PROVE  d # c
    BY <1>5, <2>1, <2>2
  <2>3. ASSUME NEW d \in Client, NEW r \in Requirement, NEW s \in Curd,
               answer'[d][r].state = "not found" \/ answer'[d][r].locator \in PyPi,
               d \in Admits[s], <<d, s, PkgOf[r]>> \notin outages',
               NEW v \in Allows[r]
        PROVE  before'[d][s][PkgOf[r]][v] = <<>>
    <3>1. d # c
      BY <2>2, <2>3
    <3>2. answer'[d] = answer[d] /\ before'[d] = before[d] /\ outages' = outages
      BY <1>1, <1>3, <1>6, <3>1
    <3>3. answer[d][r].state = "not found" \/ answer[d][r].locator \in PyPi
      BY <2>3, <3>2
    <3>4. before[d][s][PkgOf[r]][v] = <<>>
      BY <2>3, <3>2, <3>3 DEF ServersFirstInv, ServersFirst
    <3>5. QED
      BY <3>2, <3>4
  <2>4. QED
    BY <2>3 DEF ServersFirst
<1>8. ASSUME NEW d \in Client, NEW s \in Curd, NEW p \in Package, known'[d][s][p] # None
      PROVE  Tells(d, s, p, known[d][s][p])'
  <2>1. d # c
    <3>1. s \in Range(Locators)
      BY LocatorFacts
    <3>2. NothingKnown[s][p] = None
      BY <3>1 DEF NothingKnown
    <3>3. QED
      BY <1>1, <1>2, <1>8, <3>2
  <2>2. QED
    BY <1>1, <1>3, <1>8, <2>1 DEF ServersFirstInv, Tells
<1>9. \A t \in Thread : pc[t] # "idle" => ClientOf[t] \in Client \ {c}
  BY <1>2, NobodySearches, LocatorsAssumption DEF CacheInv
<1>10. ASSUME NEW t \in Thread, pc'[t] = "learn", Here(t)' \in Curd
       PROVE  Tells(ClientOf[t], Here(t), Wanted(t), job[t].top)'
  <2>1. Tells(ClientOf[t], Here(t), Wanted(t), job[t].top)
    BY <1>1, <1>10 DEF ServersFirstInv, Here
  <2>2. before'[ClientOf[t]] = before[ClientOf[t]]
    BY <1>1, <1>3, <1>9, <1>10
  <2>3. QED
    BY <1>1, <2>1, <2>2 DEF Tells, Here, Wanted
<1>11. ASSUME NEW t \in Thread, pc'[t] # "idle", NEW k \in 1 .. job'[t].at - 1, Locators[k] \in Curd
       PROVE  Lacks(ClientOf[t], Locators[k], job[t].req)'
  <2>1. Lacks(ClientOf[t], Locators[k], job[t].req)
    BY <1>1, <1>11 DEF ServersFirstInv
  <2>2. before'[ClientOf[t]] = before[ClientOf[t]]
    BY <1>1, <1>3, <1>9, <1>11
  <2>3. QED
    BY <1>1, <2>1, <2>2 DEF Lacks
<1>12. QED
  BY <1>3, <1>4, <1>7, <1>8, <1>10, <1>11 DEF ServersFirstInv

\* Nobody hears of a listing from the rest of what clients do.
LEMMA ClientFirst ==
    ASSUME CacheInv, ServersFirstInv, NEW c \in Client, ClientStep(c)
    PROVE  ServersFirstInv'
<1>1. [Next]_vars
  BY DEF Next
<1>2. CASE Start(c)
  BY <1>2, StartFirst
<1>3. ASSUME NEW r \in Requirement, DownloadFails(c, r)
      PROVE  ServersFirstInv'
  <2>1. /\ UNCHANGED <<before, outages, known, pc, job>>
        /\ answer' = [answer EXCEPT ![c][r] = Reply("error", None, answer[c][r].locator)]
    BY <1>3 DEF DownloadFails, sharedVars, history
  <2>2. PICK reply : reply = Reply("error", None, answer[c][r].locator)
    OBVIOUS
  <2>3. reply.state = "error" /\ reply.locator = answer[c][r].locator
    BY <2>2 DEF Reply
  <2>4. \A d \in Client, q \in Requirement :
            answer'[d][q] = answer[d][q] \/ (d = c /\ q = r /\ answer'[d][q] = reply)
    BY <2>1, <2>2 DEF CacheInv, Answered
  <2>5. \A d \in Client, q \in Requirement :
            \/ answer'[d][q] = answer[d][q]
            \/ answer[d][q].locator = answer'[d][q].locator /\ answer'[d][q].state # "not found"
    BY <2>3, <2>4
  <2>6. QED
    BY <1>1, <2>1, <2>5, FirstStutters
<1>4. CASE UNCHANGED <<before, outages, known, pc, job, answer>>
  BY <1>1, <1>4, FirstStutters
<1>5. \/ Start(c) \/ \E r \in Requirement : DownloadFails(c, r)
      \/ UNCHANGED <<before, outages, known, pc, job, answer>>
  <2>1. CASE GiveUp(c) \/ InstallAll(c) \/ Exit(c) \/ \E r \in Requirement : Download(c, r)
    BY <2>1 DEF GiveUp, InstallAll, Exit, Download, locatorVars, sharedVars, history
  <2>2. CASE \E x \in uploads[c] : Send(c, x[1], x[2]) \/ SendFails(c, x[1], x[2])
    BY <2>2 DEF Send, SendFails, sharedVars, history
  <2>3. QED
    BY <2>1, <2>2 DEF ClientStep
<1>6. QED
  BY <1>2, <1>3, <1>4, <1>5

LEMMA FirstStarts == Init => ServersFirstInv
<1> SUFFICES ASSUME Init
             PROVE  ServersFirstInv
  OBVIOUS
<1>1. /\ before = [c \in Client |-> served]
      /\ known = [c \in Client |-> NothingKnown]
      /\ answer = [c \in Client |-> [r \in Requirement |-> Reply("unasked", None, None)]]
      /\ pc = [t \in Thread |-> "idle"]
  BY DEF Init, LocatorsInit
<1>2. served \in [Curd -> Table]
  BY CacheStarts DEF CacheInv, Filed
<1>3. \A c \in Client, s \in Curd, p \in Package : known[c][s][p] = None
  BY <1>1, LocatorFacts DEF NothingKnown
<1>4. \A c \in Client, r \in Requirement : answer[c][r].state = "unasked" /\ answer[c][r].locator = None
  BY <1>1 DEF Reply
<1>5. ServersFirst
  BY <1>4, LocatorsAssumption DEF ServersFirst
<1>6. QED
  BY <1>1, <1>2, <1>3, <1>5 DEF ServersFirstInv

LEMMA FirstKeeps == CacheInv /\ ServersFirstInv /\ [Next]_vars => ServersFirstInv'
<1> SUFFICES ASSUME CacheInv, ServersFirstInv, [Next]_vars
             PROVE  ServersFirstInv'
  OBVIOUS
<1>1. ASSUME (\E s \in Curd : Restart(s)) \/ UNCHANGED vars
      PROVE  ServersFirstInv'
  <2>1. UNCHANGED <<before, outages, known, pc, job, answer>>
    BY <1>1 DEF Restart, vars, locatorVars, sharedVars, history
  <2>2. QED
    BY <2>1, FirstStutters
<1>2. QED
  BY <1>1, ClientFirst, SearchFirst DEF Next, SearchStep

(***************************************************************************)
(* ServersFirst: a requirement that is answered by an index, or not at     *)
(* all, had no version listed on any server that lets the client in and    *)
(* that answered it, when the client started; whatever the threads of the  *)
(* client, which share their listings, and other clients do meanwhile.     *)
(***************************************************************************)
THEOREM ServersComeFirst == Spec => []ServersFirst
<1>1. ServersFirstInv => ServersFirst
  BY DEF ServersFirstInv
<1>2. QED
  BY <1>1, CacheSound, FirstStarts, FirstKeeps, PTL DEF Spec
==============================================================================
