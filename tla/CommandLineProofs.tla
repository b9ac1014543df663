-------------------------- MODULE CommandLineProofs --------------------------
(***************************************************************************)
(* curd for every set of distributions, files and commands: what is true   *)
(* of the site between two steps of a command, and what it says of a       *)
(* command that is over.                                                   *)
(***************************************************************************)
EXTENDS CommandLine, RecursionProofs, FiniteSetTheorems, SequenceTheorems, TLAPS

(***************************************************************************)
(* Of SitePackages: the order of the files of a distribution and of those  *)
(* that are left, that they differ, and which of them two distributions    *)
(* may share.                                                              *)
(***************************************************************************)
\* The files of d from some point on
IsRest(s, d) ==
    \E k \in 0 .. Len(Paths(d)) :
        /\ s \in Seq(Range(Paths(d)))
        /\ Len(s) = Len(Paths(d)) - k
        /\ \A i \in 1 .. Len(s) : s[i] = Paths(d)[i + k]

Todo(d) == Range(left[d])

-----------------------------------------------------------------------------
\* The files of a distribution, METADATA and RECORD at the end.
LEMMA PathsFacts ==
    ASSUME NEW d \in Dist
    PROVE  /\ Len(Code[d]) \in Nat
           /\ Paths(d) \in Seq(Range(Paths(d)))
           /\ Len(Paths(d)) = Len(Code[d]) + 2
           /\ \A i \in 1 .. Len(Code[d]) : Paths(d)[i] = Code[d][i]
           /\ Paths(d)[Len(Code[d]) + 1] = Metadata[d]
           /\ Paths(d)[Len(Code[d]) + 2] = Record[d]
           /\ Range(Paths(d)) = Range(Code[d]) \cup {Metadata[d], Record[d]}
<1> DEFINE c == Code[d]
           S == Range(c) \cup {Metadata[d], Record[d]}
<1>1. c \in Seq(S) /\ <<Metadata[d], Record[d]>> \in Seq(S)
  <2>1. c \in Seq(Range(c))
    BY SitePackagesAssumption
  <2>2. QED
    BY <2>1
<1>2. /\ Len(c) \in Nat /\ DOMAIN c = 1 .. Len(c)
      /\ Paths(d) \in Seq(S) /\ Len(Paths(d)) = Len(c) + 2
      /\ \A i \in 1 .. Len(c) : Paths(d)[i] = c[i]
      /\ Paths(d)[Len(c) + 1] = Metadata[d]
      /\ Paths(d)[Len(c) + 2] = Record[d]
  BY <1>1 DEF Paths
<1>3. DOMAIN Paths(d) = 1 .. Len(c) + 2
  BY <1>2
<1>4. Range(Paths(d)) = S
  <2> HIDE DEF c
  <2>1. 1 .. Len(c) + 2 = 1 .. Len(c) \cup {Len(c) + 1, Len(c) + 2}
    BY <1>2
  <2>2. Range(Paths(d)) = {Paths(d)[i] : i \in 1 .. Len(c)}
                              \cup {Paths(d)[Len(c) + 1], Paths(d)[Len(c) + 2]}
    BY <1>3, <2>1 DEF Range
  <2>3. {Paths(d)[i] : i \in 1 .. Len(c)} = Range(c)
    BY <1>2 DEF Range
  <2>4. QED
    BY <1>2, <2>2, <2>3 DEF c
<1>5. QED
  BY <1>2, <1>4

\* No two files of a distribution are the same.
LEMMA PathsDiffer ==
    ASSUME NEW d \in Dist, NEW i \in 1 .. Len(Paths(d)), NEW j \in 1 .. Len(Paths(d)),
           Paths(d)[i] = Paths(d)[j]
    PROVE  i = j
<1>1. DOMAIN Paths(d) = 1 .. Len(Paths(d))
  BY PathsFacts
<1>2. QED
  BY <1>1, SitePackagesAssumption DEF IsInjective

\* Two distributions share code at most.
LEMMA OnlyCodeShared ==
    ASSUME NEW d \in Dist, NEW e \in Dist, d # e,
           NEW f \in Range(Paths(d)) \cap Range(Paths(e))
    PROVE  /\ f \in Range(Code[d]) /\ f \in Range(Code[e])
           /\ d \in Sharing(e) /\ e \in Sharing(d)
<1>1. f \notin {Metadata[d], Record[d]} /\ f \notin {Metadata[e], Record[e]}
  BY SitePackagesAssumption
<1>2. f \in Range(Code[d]) /\ f \in Range(Code[e])
  BY <1>1, PathsFacts
<1>3. QED
  BY <1>2 DEF Sharing

\* All the files are left at first, and none in the end.
LEMMA RestOfAll ==
    ASSUME NEW d \in Dist
    PROVE  IsRest(Paths(d), d) /\ IsRest(<<>>, d)
<1> DEFINE n == Len(Paths(d))
<1>1. n \in Nat /\ Paths(d) \in Seq(Range(Paths(d)))
  BY PathsFacts
<1>2. IsRest(Paths(d), d)
  <2>1. 0 \in 0 .. n /\ n = n - 0 /\ \A i \in 1 .. n : Paths(d)[i] = Paths(d)[i + 0]
    BY <1>1
  <2>2. QED
    BY <1>1, <2>1 DEF IsRest
<1>3. IsRest(<<>>, d)
  <2>1. n \in 0 .. n /\ Len(<<>>) = n - n /\ <<>> \in Seq(Range(Paths(d)))
    BY <1>1
  <2>2. \A i \in 1 .. Len(<<>>) : <<>>[i] = Paths(d)[i + n]
    OBVIOUS
  <2>3. QED
    BY <2>1, <2>2 DEF IsRest
<1>4. QED
  BY <1>2, <1>3

\* The next file of d, and what is left after it.
LEMMA RestMoves ==
    ASSUME NEW d \in Dist, NEW s, IsRest(s, d), s # <<>>
    PROVE  /\ Head(s) \in Range(s) /\ Range(s) \subseteq Range(Paths(d))
           /\ IsRest(Tail(s), d)
           /\ Range(Tail(s)) = Range(s) \ {Head(s)}
           /\ Head(s) = Metadata[d] => Range(s) \cap Range(Code[d]) = {}
<1> DEFINE n == Len(Paths(d))
<1>1. PICK k \in 0 .. n :
        /\ s \in Seq(Range(Paths(d)))
        /\ Len(s) = n - k
        /\ \A i \in 1 .. Len(s) : s[i] = Paths(d)[i + k]
  BY DEF IsRest
<1>2. n \in Nat /\ DOMAIN Paths(d) = 1 .. n
  BY PathsFacts
<1>3. /\ Len(s) \in Nat \ {0} /\ DOMAIN s = 1 .. Len(s)
      /\ Head(s) = s[1] /\ Tail(s) \in Seq(Range(Paths(d)))
      /\ Len(Tail(s)) = Len(s) - 1
      /\ \A i \in 1 .. Len(s) - 1 : Tail(s)[i] = s[i + 1]
  BY <1>1
<1> HIDE DEF n
<1>4. DOMAIN Tail(s) = 1 .. Len(s) - 1
  BY <1>3
<1>5. Head(s) \in Range(s) /\ Range(s) \subseteq Range(Paths(d))
  <2>1. 1 \in DOMAIN s
    BY <1>3
  <2>2. \A i \in DOMAIN s : s[i] \in Range(Paths(d))
    BY <1>1
  <2>3. QED
    BY <1>3, <2>1, <2>2 DEF Range
<1>6. IsRest(Tail(s), d)
  <2>1. k + 1 \in 0 .. n /\ Len(Tail(s)) = n - (k + 1)
    BY <1>1, <1>2, <1>3
  <2>2. \A i \in 1 .. Len(Tail(s)) : Tail(s)[i] = Paths(d)[i + (k + 1)]
    BY <1>1, <1>2, <1>3
  <2>3. QED
    BY <1>3, <2>1, <2>2 DEF IsRest, n
<1>7. ASSUME NEW i \in 1 .. Len(s), NEW j \in 1 .. Len(s), s[i] = s[j]
      PROVE  i = j
  <2>1. i + k \in 1 .. n /\ j + k \in 1 .. n /\ Paths(d)[i + k] = Paths(d)[j + k]
    BY <1>1, <1>2, <1>3, <1>7
  <2>2. i + k = j + k
    BY <2>1, PathsDiffer DEF n
  <2>3. QED
    BY <1>1, <1>2, <1>3, <2>2
<1>8. Range(Tail(s)) = Range(s) \ {Head(s)}
  <2>1. ASSUME NEW i \in 1 .. Len(s) - 1
        PROVE  Tail(s)[i] \in Range(s) \ {Head(s)}
    <3>1. i + 1 \in 1 .. Len(s) /\ i + 1 # 1 /\ 1 \in 1 .. Len(s)
      BY <1>3
    <3>2. QED
      BY <1>3, <1>7, <3>1 DEF Range
  <2>2. ASSUME NEW i \in 1 .. Len(s), s[i] # Head(s)
        PROVE  s[i] \in Range(Tail(s))
    <3>1. i - 1 \in 1 .. Len(s) - 1 /\ (i - 1) + 1 = i
      BY <1>3, <2>2
    <3>2. QED
      BY <1>3, <1>4, <3>1 DEF Range
  <2>3. QED
    BY <1>3, <1>4, <2>1, <2>2 DEF Range
<1>9. ASSUME Head(s) = Metadata[d]
      PROVE  Range(s) \cap Range(Code[d]) = {}
  <2> DEFINE m == Len(Code[d])
  <2>1. /\ m \in Nat /\ n = m + 2 /\ Paths(d)[m + 1] = Metadata[d]
        /\ \A i \in 1 .. m : Paths(d)[i] = Code[d][i]
        /\ DOMAIN Code[d] = 1 .. m
    BY PathsFacts, SitePackagesAssumption DEF n
  <2>2. 1 + k \in 1 .. n /\ m + 1 \in 1 .. n /\ Paths(d)[1 + k] = Paths(d)[m + 1]
    BY <1>1, <1>2, <1>3, <1>9, <2>1
  <2>3. 1 + k = m + 1
    BY <2>2, PathsDiffer DEF n
  <2>4. ASSUME NEW i \in 1 .. Len(s), NEW j \in 1 .. m
        PROVE  s[i] # Code[d][j]
    <3>1. i + k \in 1 .. n /\ j \in 1 .. n /\ i + k # j
      BY <1>1, <1>2, <1>3, <2>1, <2>3
    <3>2. s[i] = Paths(d)[i + k] /\ Code[d][j] = Paths(d)[j]
      BY <1>1, <2>1
    <3>3. QED
      BY <3>1, <3>2, PathsDiffer DEF n
  <2>5. QED
    BY <1>3, <2>1, <2>4 DEF Range
<1>10. QED
  BY <1>5, <1>6, <1>8, <1>9

\* What is left is a suffix of RECORD.
LEMMA RestIsSuffix ==
    ASSUME NEW d \in Dist, NEW s, IsRest(s, d)
    PROVE  IsSuffix(s, Paths(d))
<1> DEFINE n == Len(Paths(d))
<1>1. PICK k \in 0 .. n :
        /\ s \in Seq(Range(Paths(d)))
        /\ Len(s) = n - k
        /\ \A i \in 1 .. Len(s) : s[i] = Paths(d)[i + k]
  BY DEF IsRest
<1>2. n \in Nat /\ Len(s) \in Nat /\ Paths(d) \in Seq(Range(Paths(d))) /\ Len(s) <= n
  BY <1>1, PathsFacts
<1>3. /\ Reverse(s) \in Seq(Range(Paths(d))) /\ Len(Reverse(s)) = Len(s)
      /\ \A i \in 1 .. Len(s) : Reverse(s)[i] = s[(Len(s) - i) + 1]
  BY <1>1, <1>2 DEF Reverse
<1>4. /\ Reverse(Paths(d)) \in Seq(Range(Paths(d))) /\ Len(Reverse(Paths(d))) = n
      /\ \A i \in 1 .. n : Reverse(Paths(d))[i] = Paths(d)[(n - i) + 1]
  BY <1>2 DEF Reverse
<1>5. \A i \in 1 .. Len(s) : Reverse(s)[i] = Reverse(Paths(d))[i]
  <2> HIDE DEF n
  <2> SUFFICES ASSUME NEW i \in 1 .. Len(s)
               PROVE  Reverse(s)[i] = Reverse(Paths(d))[i]
    OBVIOUS
  <2>1. i \in 1 .. n /\ (Len(s) - i) + 1 \in 1 .. Len(s)
    BY <1>2
  <2>2. ((Len(s) - i) + 1) + k = (n - i) + 1
    BY <1>1, <1>2
  <2>3. QED
    BY <1>1, <1>3, <1>4, <2>1, <2>2
<1>6. SubSeq(Reverse(s), 1, Len(s)) = SubSeq(Reverse(Paths(d)), 1, Len(s))
  <2> DEFINE R == Range(Paths(d))
             a == Reverse(s)
             b == Reverse(Paths(d))
             m == Len(s)
  <2>1. a \in Seq(R) /\ b \in Seq(R) /\ m \in Nat /\ m <= n /\ Len(a) = m /\ Len(b) = n /\ n \in Nat
    BY <1>2, <1>3, <1>4
  <2>2. \A i \in 1 .. m : a[i] = b[i]
    BY <1>5
  <2> HIDE DEF a, b, m, n, R
  <2>3. /\ SubSeq(a, 1, m) \in Seq(R) /\ Len(SubSeq(a, 1, m)) = m
        /\ \A i \in 1 .. m : SubSeq(a, 1, m)[i] = a[i]
    BY <2>1
  <2>4. /\ SubSeq(b, 1, m) \in Seq(R) /\ Len(SubSeq(b, 1, m)) = m
        /\ \A i \in 1 .. m : SubSeq(b, 1, m)[i] = b[i]
    BY <2>1
  <2>5. SubSeq(a, 1, m) = SubSeq(b, 1, m)
    BY <2>1, <2>2, <2>3, <2>4, SeqEqual
  <2>6. QED
    BY <2>5 DEF a, b, m
<1>7. QED
  BY <1>2, <1>3, <1>4, <1>6 DEF IsSuffix, IsPrefix

\* The files of a distribution that are done are those not left.
LEMMA WrittenIs ==
    ASSUME NEW d \in Dist, IsRest(left[d], d)
    PROVE  Written(d) = Range(Paths(d)) \ Todo(d)
<1>1. left[d] \in Seq(Range(Paths(d)))
  BY DEF IsRest
<1>2. DOMAIN left[d] = 1 .. Len(left[d])
  BY <1>1
<1>3. QED
  BY <1>2 DEF Written, Contains, Todo, Range
-----------------------------------------------------------------------------
(***************************************************************************)
(* What holds of the site whatever is going on, and while distributions    *)
(* are installed, or removed.                                              *)
(***************************************************************************)

SiteInv ==
    /\ files \subseteq Path
    /\ dirs \subseteq Dist /\ hurt \subseteq Dist
    /\ busy \subseteq Dist /\ fresh \subseteq dirs \cap busy
    /\ faults \in 0 .. MaxFaults
    /\ left \in [Dist -> Seq(Path)]
    /\ \A d \in Dist : IsRest(left[d], d) /\ (d \notin busy => left[d] = <<>>)

Installing ==
    \A d \in busy :
        /\ Metadata[d] \notin Todo(d) => d \in dirs
        /\ d \notin hurt => Range(Paths(d)) \ Todo(d) \subseteq files

Removing == fresh = {} /\ \A d \in busy : files \cap Range(Paths(d)) \subseteq Todo(d)

\* Gone, but for the files of those being installed
Left(d) ==
    /\ d \notin dirs /\ {Metadata[d], Record[d]} \cap files = {}
    /\ \A f \in Range(Code[d]) \cap files :
        \E e \in Sharing(d) : f \in Range(Code[e]) /\ e \in dirs \cup hurt \cup busy

Kept == \A d \in Dist \ (hurt \cup busy) : Whole(d) \/ Left(d)

\* A file that is shared goes with the first distribution that has it
KeptBut ==
    \A d \in Dist \ (hurt \cup busy) : Whole(d) \/ Left(d) \/ \E e \in busy : d \in Sharing(e)

\* The files of a distribution are some of all the files.
LEMMA PathsInPath ==
    ASSUME NEW d \in Dist
    PROVE  Range(Paths(d)) \subseteq Path /\ Paths(d) \in Seq(Path) /\ <<>> \in Seq(Path)
<1>1. Range(Paths(d)) \subseteq Path
  BY DEF Path
<1>2. Paths(d) \in Seq(Range(Paths(d)))
  BY PathsFacts
<1>3. QED
  BY <1>1, <1>2

\* A site at rest.
LEMMA SiteStarts == SiteInit => SiteInv /\ Kept /\ busy = {}
<1> SUFFICES ASSUME SiteInit PROVE SiteInv /\ Kept /\ busy = {}
  OBVIOUS
<1>1. dirs \subseteq Dist
  BY SitePackagesAssumption DEF SiteInit
<1>2. files \subseteq Path
  BY <1>1, PathsInPath DEF SiteInit
<1>3. left \in [Dist -> Seq(Path)] /\ \A d \in Dist : left[d] = <<>> /\ IsRest(left[d], d)
  BY PathsInPath, RestOfAll DEF SiteInit
<1>4. SiteInv
  BY <1>1, <1>2, <1>3, SitePackagesAssumption DEF SiteInit, SiteInv
<1>5. ASSUME NEW d \in Dist
      PROVE  Whole(d) \/ Left(d)
  <2>1. CASE d \in dirs
    BY <2>1 DEF Whole, SiteInit
  <2>2. CASE d \notin dirs
    <3>1. ASSUME NEW f \in files \cap Range(Paths(d))
          PROVE  \E e \in Sharing(d) : f \in Range(Code[e]) /\ e \in dirs
      <4>1. PICK e \in dirs : f \in Range(Paths(e))
        BY DEF SiteInit
      <4>2. QED
        BY <1>1, <2>2, <4>1, OnlyCodeShared
    <3>2. {Metadata[d], Record[d]} \cap files = {}
      <4>1. ASSUME NEW e \in dirs PROVE {Metadata[d], Record[d]} \cap Range(Paths(e)) = {}
        BY <1>1, <2>2, SitePackagesAssumption
      <4>2. QED
        BY <4>1 DEF SiteInit
    <3>3. Range(Code[d]) \subseteq Range(Paths(d))
      BY PathsFacts
    <3>4. QED
      BY <2>2, <3>1, <3>2, <3>3 DEF Left
  <2>3. QED
    BY <2>1, <2>2
<1>6. QED
  BY <1>4, <1>5 DEF Kept, SiteInit

\* Work begins on distributions.
LEMMA BeginSite ==
    ASSUME SiteInv, NEW ds \in SUBSET Dist, Begin(ds), UNCHANGED <<files, dirs, faults>>,
           hurt' \subseteq Dist
    PROVE  /\ SiteInv'
           /\ \A d \in ds : Todo(d)' = Range(Paths(d))
<1>1. \A d \in Dist : left'[d] = IF d \in ds THEN Paths(d) ELSE <<>>
  BY DEF Begin
<1>2. left' \in [Dist -> Seq(Path)]
  BY PathsInPath DEF Begin
<1>3. \A d \in Dist : IsRest(left'[d], d)
  BY <1>1, RestOfAll
<1>4. QED
  BY <1>1, <1>2, <1>3 DEF SiteInv, Begin, Todo

LEMMA BeginKeeps ==
    ASSUME SiteInv, busy = {}, Kept, NEW ds \in SUBSET Dist, Begin(ds),
           UNCHANGED <<files, dirs, faults>>,
           hurt' \subseteq hurt, hurt \subseteq hurt' \cup ds
    PROVE  SiteInv' /\ Installing' /\ Removing' /\ Kept'
<1>1. SiteInv' /\ \A d \in ds : Todo(d)' = Range(Paths(d))
  BY BeginSite DEF SiteInv
<1>2. busy' = ds /\ fresh' = {}
  BY DEF Begin
<1>3. \A d \in ds : Metadata[d] \in Range(Paths(d))
  BY PathsFacts
<1>4. Installing'
  BY <1>1, <1>2, <1>3 DEF Installing
<1>5. Removing'
  BY <1>1, <1>2 DEF Removing
<1>6. ASSUME NEW d \in Dist \ (hurt' \cup busy')
      PROVE  Whole(d)' \/ Left(d)'
  <2>1. Whole(d) \/ Left(d)
    BY <1>2 DEF Kept
  <2>2. dirs \cup hurt \cup busy \subseteq dirs' \cup hurt' \cup busy'
    BY <1>2
  <2>3. QED
    BY <2>1, <2>2 DEF Whole, Left
<1>7. QED
  BY <1>1, <1>4, <1>5, <1>6 DEF Kept

\* The next file of d: what is left, and what was done, after it.
LEMMA NextFile ==
    ASSUME SiteInv, NEW d \in Dist, left[d] # <<>>, left' = [left EXCEPT ![d] = Tail(@)]
    PROVE  /\ Head(left[d]) \in Todo(d) /\ Todo(d) \subseteq Range(Paths(d))
           /\ left' \in [Dist -> Seq(Path)]
           /\ \A e \in Dist : IsRest(left'[e], e)
           /\ Todo(d)' = Todo(d) \ {Head(left[d])}
           /\ \A e \in Dist \ {d} : left'[e] = left[e] /\ Todo(e)' = Todo(e)
           /\ Head(left[d]) = Metadata[d] => Todo(d) \cap Range(Code[d]) = {}
<1>1. left \in [Dist -> Seq(Path)] /\ \A e \in Dist : IsRest(left[e], e)
  BY DEF SiteInv
<1>2. /\ Head(left[d]) \in Range(left[d]) /\ Range(left[d]) \subseteq Range(Paths(d))
      /\ IsRest(Tail(left[d]), d)
      /\ Range(Tail(left[d])) = Range(left[d]) \ {Head(left[d])}
      /\ Head(left[d]) = Metadata[d] => Range(left[d]) \cap Range(Code[d]) = {}
  BY <1>1, RestMoves
<1>3. left'[d] = Tail(left[d]) /\ \A e \in Dist \ {d} : left'[e] = left[e]
  BY <1>1
<1>4. Tail(left[d]) \in Seq(Path)
  BY <1>1
<1>5. left' \in [Dist -> Seq(Path)]
  BY <1>1, <1>4
<1>6. QED
  BY <1>1, <1>2, <1>3, <1>5 DEF Todo

LEMMA WriteKeeps ==
    ASSUME SiteInv, Installing, Kept, NEW d \in Dist, Write(d)
    PROVE  SiteInv' /\ Installing' /\ Kept'
<1> DEFINE h == Head(left[d])
<1>1. /\ d \in busy /\ left[d] # <<>> /\ files' = files \cup {h}
      /\ left' = [left EXCEPT ![d] = Tail(@)]
      /\ UNCHANGED <<busy, faults, hurt>>
      /\ \/ h = Metadata[d] /\ d \notin dirs /\ dirs' = dirs \cup {d} /\ fresh' = fresh \cup {d}
         \/ (h # Metadata[d] \/ d \in dirs) /\ UNCHANGED <<dirs, fresh>>
  BY DEF Write
<1>2. /\ h \in Todo(d) /\ Todo(d) \subseteq Range(Paths(d))
      /\ left' \in [Dist -> Seq(Path)]
      /\ \A e \in Dist : IsRest(left'[e], e)
      /\ Todo(d)' = Todo(d) \ {h}
      /\ \A e \in Dist \ {d} : left'[e] = left[e] /\ Todo(e)' = Todo(e)
  BY <1>1, NextFile
<1> HIDE DEF h
<1>3. SiteInv'
  <2>1. files' \subseteq Path
    BY <1>1, <1>2, PathsInPath DEF SiteInv
  <2>2. \A e \in Dist : e \notin busy' => left'[e] = <<>>
    BY <1>1, <1>2 DEF SiteInv
  <2>3. dirs' \subseteq Dist /\ fresh' \subseteq dirs' \cap busy'
    BY <1>1 DEF SiteInv
  <2>4. QED
    BY <1>1, <1>2, <2>1, <2>2, <2>3 DEF SiteInv
<1>4. dirs \subseteq dirs' /\ dirs' \subseteq dirs \cup {d} /\ (h = Metadata[d] => d \in dirs')
  BY <1>1
<1>5. Installing'
  BY <1>1, <1>2, <1>4 DEF Installing, SiteInv
<1>6. ASSUME NEW e \in Dist \ (hurt' \cup busy')
      PROVE  Whole(e)' \/ Left(e)'
  <2>1. e # d /\ (Whole(e) \/ Left(e))
    BY <1>1 DEF Kept
  <2>2. CASE Whole(e)
    BY <1>1, <1>4, <2>2 DEF Whole
  <2>3. CASE Left(e)
    <3>1. h \in Range(Paths(d)) /\ h \notin {Metadata[e], Record[e]}
      BY <1>2, <2>1, SitePackagesAssumption
    <3>2. h \in Range(Code[e]) => d \in Sharing(e) /\ h \in Range(Code[d])
      BY <2>1, <3>1, OnlyCodeShared, PathsFacts
    <3>3. ASSUME NEW f \in Range(Code[e]) \cap files'
          PROVE  \E x \in Sharing(e) : f \in Range(Code[x]) /\ x \in dirs' \cup hurt' \cup busy'
      <4>1. CASE f = h
        BY <1>1, <3>2, <3>3, <4>1
      <4>2. CASE f \in files
        BY <1>1, <1>4, <2>3, <3>3, <4>2 DEF Left
      <4>3. QED
        BY <1>1, <3>3, <4>1, <4>2
    <3>4. e \notin dirs' /\ {Metadata[e], Record[e]} \cap files' = {}
      BY <1>1, <1>4, <2>1, <2>3, <3>1 DEF Left
    <3>5. QED
      BY <3>3, <3>4 DEF Left
  <2>4. QED
    BY <2>1, <2>2, <2>3
<1>7. QED
  BY <1>3, <1>5, <1>6 DEF Kept

LEMMA WriteEndsKeeps ==
    ASSUME SiteInv, Installing, Kept, NEW d \in Dist, WriteEnds(d)
    PROVE  SiteInv' /\ Installing' /\ Kept'
<1>1. /\ d \in busy /\ left[d] = <<>> /\ busy' = busy \ {d} /\ fresh' = fresh \ {d}
      /\ UNCHANGED <<files, dirs, left, faults, hurt>>
  BY DEF WriteEnds
<1>2. SiteInv'
  BY <1>1 DEF SiteInv
<1>3. Todo(d) = {}
  BY <1>1 DEF Todo, Range
<1>4. d \in dirs /\ (d \notin hurt => Whole(d))
  BY <1>1, <1>3 DEF Installing, Whole
<1>5. Installing'
  BY <1>1 DEF Installing, Todo
<1>6. ASSUME NEW e \in Dist \ (hurt' \cup busy')
      PROVE  Whole(e)' \/ Left(e)'
  <2>1. Whole(e) \/ Left(e)
    BY <1>1, <1>4 DEF Kept
  <2>2. dirs \cup hurt \cup busy \subseteq dirs' \cup hurt' \cup busy'
    BY <1>1, <1>4
  <2>3. QED
    BY <1>1, <2>1, <2>2 DEF Whole, Left
<1>7. QED
  BY <1>2, <1>5, <1>6 DEF Kept

\* A file can not be written.
LEMMA WriteFailsKeeps ==
    ASSUME SiteInv, Installing, Kept, NEW d \in Dist, WriteFails(d)
    PROVE  SiteInv' /\ Installing' /\ Kept'
<1>1. /\ d \in busy /\ files' = files \ Written(d)
      /\ dirs' = dirs \ (fresh \cap {d})
      /\ busy' = busy \ {d} /\ fresh' = fresh \ {d}
      /\ left' = [left EXCEPT ![d] = <<>>]
      /\ hurt' = hurt \cup {d} \cup Sharing(d)
      /\ faults' \in 0 .. MaxFaults
  BY SitePackagesAssumption DEF WriteFails, Fault, SiteInv
<1>2. Written(d) \subseteq Range(Paths(d))
  BY DEF Written
<1>3. /\ left' \in [Dist -> Seq(Path)] /\ left'[d] = <<>>
      /\ \A e \in Dist \ {d} : left'[e] = left[e] /\ Todo(e)' = Todo(e)
  BY <1>1, PathsInPath DEF SiteInv, Todo
<1>4. SiteInv'
  <2>1. Sharing(d) \subseteq Dist
    BY DEF Sharing
  <2>2. \A e \in Dist : IsRest(left'[e], e) /\ (e \notin busy' => left'[e] = <<>>)
    BY <1>1, <1>3, RestOfAll DEF SiteInv
  <2>3. fresh' \subseteq dirs' \cap busy' /\ dirs' \subseteq Dist /\ files' \subseteq Path
    BY <1>1 DEF SiteInv
  <2>4. QED
    BY <1>1, <1>3, <2>1, <2>2, <2>3 DEF SiteInv
<1>5. ASSUME NEW e \in Dist, e \notin hurt'
      PROVE  e # d /\ e \notin hurt /\ Range(Paths(e)) \cap Written(d) = {}
  BY <1>1, <1>2, <1>5, OnlyCodeShared
<1>6. Installing'
  <2>1. ASSUME NEW e \in busy'
        PROVE  /\ Metadata[e] \notin Todo(e)' => e \in dirs'
               /\ e \notin hurt' => Range(Paths(e)) \ Todo(e)' \subseteq files'
    <3>1. e \in busy /\ e # d /\ e \in Dist /\ Todo(e)' = Todo(e)
      BY <1>1, <1>3 DEF SiteInv
    <3>2. QED
      BY <1>1, <1>5, <3>1 DEF Installing
  <2>2. QED
    BY <2>1 DEF Installing
<1>7. ASSUME NEW e \in Dist \ (hurt' \cup busy')
      PROVE  Whole(e)' \/ Left(e)'
  <2>1. e # d /\ e \notin hurt /\ Range(Paths(e)) \cap Written(d) = {}
    BY <1>5
  <2>2. Whole(e) \/ Left(e)
    BY <1>1, <2>1 DEF Kept
  <2>3. dirs \cup hurt \cup busy \subseteq dirs' \cup hurt' \cup busy'
    BY <1>1
  <2>4. QED
    BY <1>1, <2>1, <2>2, <2>3 DEF Whole, Left
<1>8. QED
  BY <1>4, <1>6, <1>7 DEF Kept

LEMMA UnlinkKeeps ==
    ASSUME SiteInv, Removing, KeptBut, NEW d \in Dist, Unlink(d)
    PROVE  SiteInv' /\ Removing' /\ KeptBut'
<1> DEFINE h == Head(left[d])
<1>1. /\ d \in busy /\ left[d] # <<>> /\ files' = files \ {h}
      /\ left' = [left EXCEPT ![d] = Tail(@)]
      /\ UNCHANGED <<dirs, busy, fresh, faults, hurt>>
  BY DEF Unlink
<1>2. /\ h \in Todo(d) /\ Todo(d) \subseteq Range(Paths(d))
      /\ left' \in [Dist -> Seq(Path)]
      /\ \A e \in Dist : IsRest(left'[e], e)
      /\ Todo(d)' = Todo(d) \ {h}
      /\ \A e \in Dist \ {d} : left'[e] = left[e] /\ Todo(e)' = Todo(e)
  BY <1>1, NextFile
<1> HIDE DEF h
<1>3. SiteInv'
  <2>1. \A e \in Dist : e \notin busy' => left'[e] = <<>>
    BY <1>1, <1>2 DEF SiteInv
  <2>2. QED
    BY <1>1, <1>2, <2>1 DEF SiteInv
<1>4. Removing'
  BY <1>1, <1>2 DEF Removing, SiteInv
<1>5. ASSUME NEW e \in Dist \ (hurt' \cup busy')
      PROVE  Whole(e)' \/ Left(e)' \/ \E x \in busy' : e \in Sharing(x)
  <2>1. e # d /\ (Whole(e) \/ Left(e) \/ \E x \in busy : e \in Sharing(x))
    BY <1>1 DEF KeptBut
  <2>2. CASE h \in Range(Paths(e))
    BY <1>1, <1>2, <2>1, <2>2, OnlyCodeShared
  <2>3. CASE h \notin Range(Paths(e))
    <3>1. Whole(e) => Whole(e)'
      BY <1>1, <2>3 DEF Whole
    <3>2. Left(e) => Left(e)'
      BY <1>1 DEF Left
    <3>3. QED
      BY <1>1, <2>1, <3>1, <3>2
  <2>4. QED
    BY <2>2, <2>3
<1>6. QED
  BY <1>3, <1>4, <1>5 DEF KeptBut

LEMMA RemoveDirectoryKeeps ==
    ASSUME SiteInv, Removing, KeptBut, NEW d \in Dist, RemoveDirectory(d)
    PROVE  SiteInv' /\ Removing' /\ KeptBut'
<1>1. /\ d \in busy /\ left[d] = <<>> /\ dirs' = dirs \ {d} /\ busy' = busy \ {d}
      /\ hurt' = hurt \cup Sharing(d)
      /\ UNCHANGED <<files, left, fresh, faults>>
  BY DEF RemoveDirectory
<1>2. SiteInv'
  BY <1>1 DEF SiteInv, Removing, Sharing
<1>3. Removing'
  BY <1>1 DEF Removing, Todo
<1>4. files \cap Range(Paths(d)) = {}
  <2>1. Todo(d) = {}
    BY <1>1 DEF Todo, Range
  <2>2. QED
    BY <1>1, <2>1 DEF Removing
<1>5. ASSUME NEW e \in Dist \ (hurt' \cup busy')
      PROVE  Whole(e)' \/ Left(e)' \/ \E x \in busy' : e \in Sharing(x)
  <2>1. CASE e = d
    BY <1>1, <1>4, <2>1, PathsFacts DEF Left
  <2>2. CASE e # d
    <3>1. e \notin hurt \cup busy /\ e \notin Sharing(d)
      BY <1>1, <2>2
    <3>2. Whole(e) => Whole(e)'
      BY <1>1, <2>2 DEF Whole
    <3>3. Left(e) => Left(e)'
      <4>1. d \notin Sharing(e)
        BY <3>1, <2>2 DEF Sharing
      <4>2. QED
        BY <1>1, <4>1 DEF Left
    <3>4. QED
      BY <1>1, <3>1, <3>2, <3>3 DEF KeptBut
  <2>3. QED
    BY <2>1, <2>2
<1>6. QED
  BY <1>2, <1>3, <1>5 DEF KeptBut

\* Whatever is cut off is hurt, and what shares a file with it.
LEMMA CutKeeps ==
    ASSUME SiteInv, KeptBut, Cut, faults' \in 0 .. MaxFaults
    PROVE  SiteInv' /\ Kept' /\ busy' = {}
<1>1. /\ busy' = {} /\ fresh' = {} /\ UNCHANGED <<files, dirs>>
      /\ hurt' = hurt \cup busy \cup UNION {Sharing(d) : d \in busy}
      /\ left' = [d \in Dist |-> <<>>]
  BY DEF Cut
<1>2. left' \in [Dist -> Seq(Path)] /\ \A d \in Dist : left'[d] = <<>> /\ IsRest(left'[d], d)
  BY <1>1, PathsInPath, RestOfAll
<1>3. hurt' \subseteq Dist
  BY <1>1 DEF Sharing, SiteInv
<1>4. SiteInv'
  BY <1>1, <1>2, <1>3 DEF SiteInv
<1>5. ASSUME NEW d \in Dist \ (hurt' \cup busy')
      PROVE  Whole(d)' \/ Left(d)'
  <2>1. d \notin hurt \cup busy /\ ~ \E e \in busy : d \in Sharing(e)
    BY <1>1
  <2>2. Whole(d) \/ Left(d)
    BY <2>1 DEF KeptBut
  <2>3. dirs \cup hurt \cup busy \subseteq dirs' \cup hurt' \cup busy'
    BY <1>1
  <2>4. QED
    BY <1>1, <2>2, <2>3 DEF Whole, Left
<1>6. QED
  BY <1>1, <1>4, <1>5 DEF Kept

-----------------------------------------------------------------------------
(* The commands *)

IsList(q) == q \in Seq(Range(q))

\* Where a command is, and what it knows there
Control ==
    /\ cmd \in Command \cup {None}
    /\ pc \in {"prompt", "read", "install", "uninstall", "freeze"}
    /\ stack \in Seq(Seq(Lexeme)) /\ IsList(packages) /\ IsList(rest)
    /\ exit \in {None} \cup 0 .. 2 /\ crash \in Failure \cup {None}
    /\ commands \in 0 .. MaxCommands
    /\ exit = 0 => crash = None
    /\ pc = "prompt" => exit # None \/ cmd = None
    /\ pc # "prompt" =>
        cmd # None /\ crash = None /\ (exit = None \/ (pc = "install" /\ exit = 1))
    /\ pc = "read" => cmd.command # "freeze"
    /\ pc = "install" => cmd.command = "install"
    /\ pc = "uninstall" => cmd.command = "uninstall"
    /\ pc = "freeze" => cmd.command = "freeze"

\* What is true of the site there
SiteThere ==
    /\ SiteInv
    /\ pc \notin {"install", "uninstall"} => busy = {}
    /\ pc = "read" => start = Site
    /\ pc = "install" => Installing
    /\ pc = "uninstall" => Removing /\ KeptBut
    /\ pc # "uninstall" => Kept

\* What is true of the broken ones, unless they are installed
BrokenThere ==
    cmd = None \/ cmd.command # "install" =>
        \A d \in start.broken :
            /\ d \in Dist /\ Listed(d)
            /\ \E f \in Range(Code[d]) \ files : d \in busy => f \in Todo(d)

\* What install has done, or will have if nothing fails
InstallThere ==
    /\ TrueExit
    /\ pc = "install" /\ exit # 1 =>
        \A p \in Requested : \E d \in Dist \ hurt :
            Safe[NameOf[d]] = p /\ (d \in busy \/ Whole(d))

\* What uninstall has removed: what it has yet to look at is not among it
UninstallThere ==
    /\ Removed
    /\ pc = "uninstall" =>
        /\ Range(rest) \subseteq Range(packages)
        /\ \A d \in Dist : Listed(d) => d \in start.listed
        /\ \A d \in Dist : Listed(d) /\ Safe[NameOf[d]] \in Range(packages) =>
            \/ NameOf[d] # Safe[NameOf[d]]
            \/ NameOf[d] \in Range(rest) \/ d \in busy
            \/ \E e \in start.listed \ {d} : NameOf[e] = NameOf[d]

\* Which files are not where they were, and why
FilesThere ==
    /\ CrashExplained
    /\ pc = "uninstall" =>
        /\ start.faults \in Nat /\ start.faults <= faults
        /\ \A d \in busy : d \in start.listed /\ NameOf[d] \in Range(packages)
        /\ \A d \in (start.listed \ start.hurt) \cap Dist : \A f \in Range(Paths(d)) \ files :
            \/ d \in busy /\ f \notin Todo(d)
            \/ d \notin busy /\ ~Listed(d)
            \/ \E e \in Sharing(d) : f \in Range(Code[e]) /\ NameOf[e] \in Range(packages)

\* What freeze has seen
FreezeThere ==
    /\ FreezeTells
    /\ pc = "freeze" =>
        \A f \in DOMAIN Imports[cmd.root_path] :
            \/ f \in Range(rest)
            \/ /\ f \in DOMAIN Imports[Cwd]
               /\ find_imported_modules(Imports[Cwd][f]) \subseteq Range(packages)

-----------------------------------------------------------------------------
\* A sequence is one of its own elements.
LEMMA ListOfItself ==
    ASSUME NEW S, NEW s \in Seq(S)
    PROVE  IsList(s) /\ Range(s) \subseteq S
BY SeqOfRange, RangeOfSeq DEF IsList

\* A sequence is its head and then its tail.
LEMMA HeadThenTail ==
    ASSUME NEW s, IsList(s), s # <<>>
    PROVE  /\ Head(s) \in Range(s) /\ IsList(Tail(s))
           /\ Range(s) = {Head(s)} \cup Range(Tail(s))
<1>1. s \in Seq(Range(s))
  BY DEF IsList
<1>2. /\ Len(s) \in Nat \ {0} /\ DOMAIN s = 1 .. Len(s)
      /\ Head(s) = s[1] /\ Tail(s) \in Seq(Range(s))
      /\ Len(Tail(s)) = Len(s) - 1
      /\ \A i \in 1 .. Len(s) - 1 : Tail(s)[i] = s[i + 1]
  BY <1>1
<1>3. DOMAIN Tail(s) = 1 .. Len(s) - 1
  BY <1>2
<1>4. Head(s) \in Range(s) /\ Range(Tail(s)) \subseteq Range(s)
  <2>1. 1 \in DOMAIN s
    BY <1>2
  <2>2. QED
    BY <1>2, <2>1, ListOfItself DEF Range
<1>5. ASSUME NEW i \in DOMAIN s, s[i] # Head(s)
      PROVE  s[i] \in Range(Tail(s))
  <2>1. i - 1 \in 1 .. Len(s) - 1 /\ (i - 1) + 1 = i
    BY <1>2, <1>5
  <2>2. QED
    BY <1>2, <1>3, <2>1 DEF Range
<1>6. QED
  <2>1. IsList(Tail(s))
    <3>1. Tail(s) \in Seq(Range(s))
      BY <1>2
    <3>2. QED
      BY <3>1, ListOfItself
  <2>2. Range(s) \subseteq {Head(s)} \cup Range(Tail(s))
    BY <1>5 DEF Range
  <2>3. QED
    BY <1>4, <2>1, <2>2

\* One sequence after the other.
LEMMA OneThenOther ==
    ASSUME NEW s, IsList(s), NEW t, IsList(t)
    PROVE  IsList(s \o t) /\ Range(s \o t) = Range(s) \cup Range(t)
<1> DEFINE S == Range(s) \cup Range(t)
<1>1. s \in Seq(S) /\ t \in Seq(S)
  BY DEF IsList
<1>2. s \o t \in Seq(S)
  BY <1>1
<1> HIDE DEF S
<1>3. Range(s \o t) = Range(s) \cup Range(t)
  BY <1>1, RangeConcatenation
<1>4. IsList(s \o t)
  BY <1>2, ListOfItself
<1>5. QED
  BY <1>3, <1>4

\* What may be typed.
LEMMA CommandFacts ==
    ASSUME NEW c \in Command
    PROVE  /\ c # None
           /\ c.command \in {"install", "uninstall", "freeze"}
           /\ c.command # "freeze" => c.args \in Seq(Spelling) /\ c.requirements \in Seq(File)
           /\ c.command = "freeze" => c.root_path \in Directory
<1>1. c # None
  BY CommandLineAssumption
<1>2. \/ c \in [command : {"install"}, tarballs : SUBSET Tarball, args : Seq(Spelling),
                requirements : Seq(File), quiet : BOOLEAN]
      \/ c \in [command : {"uninstall"}, args : Seq(Spelling), requirements : Seq(File)]
      \/ c \in [command : {"freeze"}, root_path : Directory]
  BY CommandLineAssumption
<1>3. QED
  BY <1>1, <1>2

\* The modules of a set, each of them once.
LEMMA ListsAllOf ==
    ASSUME NEW S, IsFiniteSet(S)
    PROVE  /\ \A s \in SetToSeqs(S) : IsList(s) /\ Range(s) = S
           /\ IsList(SetToSeq(S)) /\ Range(SetToSeq(S)) = S
<1> DEFINE n == Cardinality(S)
<1>1. n \in Nat /\ IsFiniteSet(1 .. n) /\ Cardinality(1 .. n) = n
  BY FS_CardinalityType, FS_Interval
<1>2. ASSUME NEW s \in Injection(1 .. n, S)
      PROVE  IsList(s) /\ Range(s) = S
  <2>1. s \in [1 .. n -> S] /\ s \in Surjection(1 .. n, S)
    BY <1>1, <1>2, FS_Injection DEF Injection
  <2>2. s \in Seq(S) /\ DOMAIN s = 1 .. n
    BY <1>1, <2>1
  <2>3. Range(s) = S
    BY <2>1, <2>2 DEF Surjection, Range
  <2>4. QED
    BY <2>2, <2>3, ListOfItself
<1>3. ASSUME NEW s \in SetToSeqs(S)
      PROVE  IsList(s) /\ Range(s) = S
  <2>1. s \in Injection(1 .. n, S)
    BY <1>1 DEF SetToSeqs, Injection, IsInjective
  <2>2. QED
    BY <1>2, <2>1
<1>4. IsList(SetToSeq(S)) /\ Range(SetToSeq(S)) = S
  <2>1. \E f \in [1 .. n -> S] : IsInjective(f)
    <3>1. PICK m \in Nat : ExistsBijection(1 .. m, S)
      BY FS_NatBijection
    <3>2. m = n
      BY <3>1, FS_CountingElements
    <3>3. PICK f : f \in Bijection(1 .. n, S)
      BY <3>1, <3>2 DEF ExistsBijection
    <3>4. QED
      BY <3>3 DEF Bijection, Injection, IsInjective
  <2>2. SetToSeq(S) \in [1 .. n -> S] /\ IsInjective(SetToSeq(S))
    BY <2>1 DEF SetToSeq
  <2>3. SetToSeq(S) \in Injection(1 .. n, S)
    BY <1>1, <2>2 DEF Injection, IsInjective
  <2>4. QED
    BY <1>2, <2>3
<1>5. QED
  BY <1>3, <1>4

\* A step of the program that leaves the site alone.
LEMMA SiteStutters ==
    ASSUME UNCHANGED siteVars
    PROVE  /\ (SiteInv => SiteInv') /\ (Installing => Installing') /\ (Removing => Removing')
           /\ (Kept => Kept') /\ (KeptBut => KeptBut')
           /\ Site' = Site
<1>1. UNCHANGED <<files, dirs, busy, left, fresh, faults, hurt>>
  BY DEF siteVars
<1>2. (SiteInv => SiteInv') /\ (Installing => Installing') /\ (Removing => Removing')
  BY <1>1 DEF SiteInv, Installing, Removing, Todo
<1>3. \A d \in Dist : Whole(d)' = Whole(d) /\ Left(d)' = Left(d)
  BY <1>1 DEF Whole, Left
<1>4. (Kept => Kept') /\ (KeptBut => KeptBut')
  BY <1>1, <1>3 DEF Kept, KeptBut
<1>5. Site' = Site
  BY <1>1 DEF Site, Listed, Broken
<1>6. QED
  BY <1>2, <1>4, <1>5

LEMMA AtRest ==
    ASSUME SiteInv, busy = {}
    PROVE  Installing /\ Removing /\ (Kept <=> KeptBut)
BY DEF SiteInv, Installing, Removing, Kept, KeptBut

\* It starts at the prompt.
LEMMA ControlStarts == Init => Control /\ SiteThere
<1> SUFFICES ASSUME Init PROVE Control /\ SiteThere
  OBVIOUS
<1>1. Control
  <2>1. <<>> \in Seq(Seq(Lexeme)) /\ IsList(<<>>)
    BY DEF IsList
  <2>2. 0 \in 0 .. MaxCommands
    BY CommandLineAssumption
  <2>3. None # 0
    BY CommandLineAssumption
  <2>4. QED
    BY <2>1, <2>2, <2>3 DEF Init, Control
<1>2. SiteThere
  BY SiteStarts DEF Init, SiteThere
<1>3. QED
  BY <1>1, <1>2

\* A command is typed.
LEMMA RunControls ==
    ASSUME Control, SiteThere, NEW c \in Command, Run(c)
    PROVE  Control' /\ SiteThere'
<1>1. /\ pc = "prompt" /\ commands < MaxCommands /\ commands' = commands + 1
      /\ cmd' = c /\ crash' = None /\ start' = Site /\ UNCHANGED siteVars
  BY DEF Run, At
<1>2. /\ c # None /\ c.command \in {"install", "uninstall", "freeze"}
      /\ c.command # "freeze" => c.args \in Seq(Spelling) /\ c.requirements \in Seq(File)
      /\ c.command = "freeze" => c.root_path \in Directory
  BY CommandFacts
<1>3. commands' \in 0 .. MaxCommands
  BY <1>1, CommandLineAssumption DEF Control
<1>4. SiteInv' /\ Kept' /\ busy' = {} /\ Site' = Site
  <2>1. SiteInv /\ Kept /\ busy = {}
    BY <1>1 DEF SiteThere
  <2>2. busy' = busy
    BY <1>1 DEF siteVars
  <2>3. QED
    BY <1>1, <2>1, <2>2, SiteStutters
<1>5. CASE Missing(c)
  <2>1. pc' = "prompt" /\ exit' = 2 /\ UNCHANGED <<stack, packages, rest>>
    BY <1>5 DEF Run, Exit, Goto
  <2>2. None # 2
    BY CommandLineAssumption
  <2>3. Control'
    BY <1>1, <1>3, <2>1, <2>2 DEF Control
  <2>4. SiteThere'
    BY <1>4, <2>1 DEF SiteThere
  <2>5. QED
    BY <2>3, <2>4
<1>6. CASE ~Missing(c) /\ c.command = "freeze"
  <2>1. /\ pc' = "freeze" /\ exit' = None /\ stack' = <<>> /\ packages' = <<>>
        /\ rest' \in SetToSeqs(DOMAIN Imports[c.root_path])
    BY <1>6 DEF Run, Goto
  <2>2. IsFiniteSet(DOMAIN Imports[c.root_path])
    BY <1>2, <1>6, CommandLineAssumption
  <2>3. IsList(rest)'
    <3>1. \A s \in SetToSeqs(DOMAIN Imports[c.root_path]) : IsList(s)
      BY <2>2, ListsAllOf
    <3>2. QED
      BY <2>1, <3>1 DEF IsList
  <2>4. stack' \in Seq(Seq(Lexeme)) /\ IsList(packages)'
    BY <2>1 DEF IsList
  <2>5. None # 0
    BY CommandLineAssumption
  <2>6. Control'
    BY <1>1, <1>2, <1>3, <1>6, <2>1, <2>3, <2>4, <2>5 DEF Control
  <2>7. SiteThere'
    BY <1>4, <2>1 DEF SiteThere
  <2>8. QED
    BY <2>6, <2>7
<1>7. CASE ~Missing(c) /\ c.command # "freeze"
  <2>1. /\ pc' = "read" /\ exit' = None /\ stack' = <<c.requirements>> /\ rest' = <<>>
        /\ packages' = [i \in DOMAIN c.args |-> Safe[c.args[i]]]
    BY <1>7 DEF Run, Goto
  <2>2. stack' \in Seq(Seq(Lexeme))
    <3>1. c.requirements \in Seq(Lexeme)
      BY <1>2, <1>7 DEF Lexeme
    <3>2. QED
      BY <2>1, <3>1
  <2>3. IsList(packages)'
    <3>1. packages' \in Seq(Spelling)
      BY <1>2, <1>7, <2>1, CommandLineAssumption
    <3>2. QED
      BY <3>1, SeqOfRange DEF IsList
  <2>4. IsList(rest)' /\ None # 0
    BY <2>1, CommandLineAssumption DEF IsList
  <2>5. Control'
    BY <1>1, <1>2, <1>3, <1>7, <2>1, <2>2, <2>3, <2>4 DEF Control
  <2>6. SiteThere'
    BY <1>1, <1>4, <2>1 DEF SiteThere
  <2>7. QED
    BY <2>5, <2>6
<1>8. QED
  BY <1>5, <1>6, <1>7

\* A line, a file in its place, or the end of a file.
LEMMA ReadingControls ==
    ASSUME Control, SiteThere, get_packages_from_args
    PROVE  Control' /\ SiteThere'
<1>1. /\ pc = "read" /\ stack # <<>> /\ UNCHANGED siteVars
      /\ UNCHANGED <<cmd, rest, printed, commands, stopped, start>>
  BY DEF get_packages_from_args, At
<1>2. SiteInv' /\ Kept' /\ busy' = {} /\ start' = Site'
  <2>1. SiteInv /\ Kept /\ busy = {} /\ start = Site
    BY <1>1 DEF SiteThere
  <2>2. busy' = busy /\ start' = start
    BY <1>1 DEF siteVars
  <2>3. QED
    BY <1>1, <2>1, <2>2, SiteStutters
<1>3. /\ Head(stack) \in Seq(Lexeme) /\ Tail(stack) \in Seq(Seq(Lexeme))
      /\ Head(stack) # <<>> => (Line \in Lexeme /\ PopLine \in Seq(Seq(Lexeme)))
  <2>1. stack \in Seq(Seq(Lexeme))
    BY DEF Control
  <2>2. Head(stack) \in Seq(Lexeme) /\ Tail(stack) \in Seq(Seq(Lexeme))
    BY <1>1, <2>1
  <2>3. Head(stack) # <<>> => Line \in Lexeme /\ Tail(Head(stack)) \in Seq(Lexeme)
    BY <2>2 DEF Line
  <2>4. QED
    BY <2>2, <2>3 DEF PopLine
<1>4. crash = None /\ exit = None /\ cmd # None
  BY <1>1 DEF Control
<1>5. None # 0 /\ None # 1
  BY CommandLineAssumption
<1>6. \/ pc' = "prompt" /\ exit' = 1 /\ crash' \in Failure /\ UNCHANGED <<stack, packages>>
      \/ UNCHANGED <<pc, exit, crash>> /\ stack' \in Seq(Seq(Lexeme)) /\ IsList(packages)'
  <2>1. CASE Raise("file") /\ UNCHANGED <<stack, packages>>
    BY <2>1 DEF Raise, Exit, Goto, Failure
  <2>2. CASE EndOfFile \/ SkipLine
    BY <1>3, <2>2 DEF EndOfFile, SkipLine, Control, IsList
  <2>3. CASE Package
    <3>1. /\ Head(stack) # <<>> /\ Line \in Spelling /\ stack' = PopLine
          /\ packages' = Append(packages, Safe[Line]) /\ UNCHANGED <<pc, exit, crash>>
      BY <2>3 DEF Package
    <3>2. packages \in Seq(Range(packages) \cup {Safe[Line]})
      BY DEF Control, IsList
    <3>3. packages' \in Seq(Range(packages) \cup {Safe[Line]})
      BY <3>1, <3>2
    <3>4. IsList(packages)'
      BY <3>3, SeqOfRange DEF IsList
    <3>5. QED
      BY <1>3, <3>1, <3>4
  <2>4. CASE Include
    <3>1. CASE Raise("include") /\ UNCHANGED <<stack, packages>>
      BY <3>1 DEF Raise, Exit, Goto, Failure
    <3>2. CASE /\ Head(stack) # <<>> /\ Line \in File /\ Lines[Line] # None
               /\ stack' = <<Lines[Line]>> \o PopLine
               /\ UNCHANGED <<packages, pc, exit, crash>>
      <4>1. Lines[Line] \in Seq(Lexeme)
        BY <3>2, CommandLineAssumption DEF Lexeme
      <4>2. stack' \in Seq(Seq(Lexeme))
        BY <1>3, <3>2, <4>1
      <4>3. QED
        BY <3>2, <4>2 DEF Control, IsList
    <3>3. QED
      BY <2>4, <3>1, <3>2 DEF Include
  <2>5. QED
    BY <2>1, <2>2, <2>3, <2>4 DEF get_packages_from_args, expand_requirements
<1>7. Control'
  <2>1. IsList(packages)' /\ IsList(rest)' /\ stack' \in Seq(Seq(Lexeme))
    BY <1>1, <1>6 DEF Control, IsList
  <2>2. QED
    BY <1>1, <1>4, <1>5, <1>6, <2>1 DEF Control
<1>8. SiteThere'
  BY <1>1, <1>2, <1>6 DEF SiteThere
<1>9. QED
  BY <1>7, <1>8

\* install: the work begins, or the command gives up.
LEMMA RetrieveControls ==
    ASSUME Control, SiteThere, ZeroDivision \/ Retrieve
    PROVE  Control' /\ SiteThere'
<1>1. /\ pc = "read" /\ cmd # None /\ cmd.command = "install"
      /\ UNCHANGED <<cmd, stack, packages, rest, printed, commands, stopped, start>>
  BY DEF ZeroDivision, Retrieve, Ready, At, Is
<1>2. None # 0 /\ None # 1
  BY CommandLineAssumption
<1>3. crash = None /\ exit = None /\ SiteInv /\ Kept /\ busy = {}
  BY <1>1 DEF Control, SiteThere
<1>4. CASE /\ pc' = "prompt" /\ exit' = 1 /\ crash' \in Failure \cup {None}
           /\ UNCHANGED siteVars
  <2>1. Control'
    BY <1>1, <1>2, <1>4 DEF Control, IsList
  <2>2. SiteInv' /\ Kept'
    BY <1>3, <1>4, SiteStutters
  <2>3. busy' = {}
    BY <1>3, <1>4 DEF siteVars
  <2>4. QED
    BY <1>4, <2>1, <2>2, <2>3 DEF SiteThere
<1>5. ASSUME NEW ds \in SUBSET Dist, Begin(ds), hurt' = hurt \ ds, pc' = "install",
             UNCHANGED <<files, dirs, faults, exit, crash>>
      PROVE  Control' /\ SiteThere'
  <2>1. Control'
    BY <1>1, <1>2, <1>3, <1>5 DEF Control, IsList
  <2>2. SiteInv' /\ Installing' /\ Kept'
    BY <1>3, <1>5, BeginKeeps
  <2>3. QED
    BY <1>5, <2>1, <2>2 DEF SiteThere
<1>6. QED
  <2>1. CASE ZeroDivision
    BY <1>4, <2>1 DEF ZeroDivision, Raise, Exit, Goto, Failure
  <2>2. CASE Retrieve
    BY <1>3, <1>4, <1>5, <2>2 DEF Retrieve, Exit, Goto
  <2>3. QED
    BY <2>1, <2>2

\* install: the threads of the installer, and the end.
LEMMA InstallControls ==
    ASSUME Control, SiteThere, Installer \/ InstallerFails \/ handle_install_exit
    PROVE  Control' /\ SiteThere'
<1>1. /\ pc = "install" /\ SiteInv /\ Installing /\ Kept
      /\ cmd # None /\ cmd.command = "install" /\ crash = None /\ exit \in {None, 1}
  BY DEF Installer, InstallerFails, handle_install_exit, At, Control, SiteThere
<1>2. None # 0 /\ None # 1
  BY CommandLineAssumption
<1>3. ASSUME NEW d \in Dist, Write(d) \/ WriteEnds(d) \/ WriteFails(d)
      PROVE  SiteInv' /\ Installing' /\ Kept'
  BY <1>1, <1>3, WriteKeeps, WriteEndsKeeps, WriteFailsKeeps
<1>4. CASE Installer
  <2>1. UNCHANGED <<program, commands, stopped, start>> /\ SiteInv' /\ Installing' /\ Kept'
    BY <1>3, <1>4 DEF Installer
  <2>2. Control'
    BY <2>1 DEF Control, program, IsList
  <2>3. QED
    BY <1>1, <2>1, <2>2 DEF SiteThere, program
<1>5. CASE InstallerFails
  <2>1. /\ exit' = 1 /\ SiteInv' /\ Installing' /\ Kept'
        /\ UNCHANGED <<cmd, pc, stack, packages, rest, crash, printed, commands, stopped, start>>
    BY <1>3, <1>5 DEF InstallerFails
  <2>2. Control'
    BY <1>1, <1>2, <2>1 DEF Control, IsList
  <2>3. QED
    BY <1>1, <2>1, <2>2 DEF SiteThere
<1>6. CASE handle_install_exit
  <2>1. /\ pc' = "prompt" /\ exit' \in {0, 1} /\ UNCHANGED siteVars /\ busy = {}
        /\ UNCHANGED <<cmd, stack, packages, rest, crash, printed, commands, stopped, start>>
    BY <1>1, <1>6 DEF handle_install_exit, Exit, Goto
  <2>2. Control'
    BY <1>1, <1>2, <2>1 DEF Control, IsList
  <2>3. SiteInv' /\ Kept'
    BY <1>1, <2>1, SiteStutters
  <2>4. busy' = {}
    BY <2>1 DEF siteVars
  <2>5. QED
    BY <2>1, <2>2, <2>3, <2>4 DEF SiteThere
<1>7. QED
  BY <1>4, <1>5, <1>6

\* uninstall: the next package.
LEMMA UninstallControls ==
    ASSUME Control, SiteThere,
           request_uninstall \/ NotInstalled \/ uninstall \/ UninstallEnds
    PROVE  Control' /\ SiteThere'
<1>1. /\ cmd # None /\ cmd.command = "uninstall" /\ crash = None /\ exit = None
      /\ SiteInv /\ Kept /\ KeptBut /\ busy = {}
      /\ UNCHANGED <<cmd, stack, packages, printed, commands, stopped, start>>
  BY AtRest DEF request_uninstall, NotInstalled, uninstall, UninstallEnds, Ready, At, Is,
       Control, SiteThere
<1>2. None # 0 /\ None # 1
  BY CommandLineAssumption
<1>3. CASE request_uninstall \/ NotInstalled \/ UninstallEnds
  <2>1. UNCHANGED siteVars
    BY <1>3 DEF request_uninstall, NotInstalled, UninstallEnds
  <2>2. /\ \/ pc' = "uninstall" /\ exit' = exit
           \/ pc' = "prompt" /\ exit' = 0
        /\ crash' = crash
    BY <1>3 DEF request_uninstall, NotInstalled, UninstallEnds, Goto, Exit, At
  <2>3. IsList(rest)'
    BY <1>3, HeadThenTail DEF request_uninstall, NotInstalled, UninstallEnds, Control, IsList
  <2>4. Control'
    BY <1>1, <1>2, <2>2, <2>3 DEF Control, IsList
  <2>5. SiteInv' /\ Kept' /\ KeptBut' /\ Removing'
    BY <1>1, <2>1, SiteStutters, AtRest
  <2>6. busy' = {}
    BY <1>1, <2>1 DEF siteVars
  <2>7. QED
    BY <2>2, <2>4, <2>5, <2>6 DEF SiteThere
<1>4. CASE uninstall
  <2>1. /\ pc = "uninstall" /\ rest # <<>> /\ UNCHANGED <<files, dirs, faults, hurt>>
        /\ \/ /\ \E d \in Dist : Begin({d})
              /\ rest' = Tail(rest) /\ UNCHANGED <<pc, exit, crash>>
           \/ Raise("record") /\ UNCHANGED <<busy, left, fresh, rest>>
    BY <1>4 DEF uninstall, At, Found
  <2>2. CASE Raise("record") /\ UNCHANGED <<busy, left, fresh, rest>>
    <3>1. /\ pc' = "prompt" /\ exit' = 1 /\ crash' \in Failure /\ UNCHANGED siteVars
          /\ UNCHANGED <<rest, busy>>
      BY <2>1, <2>2 DEF Raise, Exit, Goto, Failure, siteVars
    <3>2. Control'
      BY <1>1, <1>2, <3>1 DEF Control, IsList
    <3>3. SiteInv' /\ Kept'
      BY <1>1, <3>1, SiteStutters
    <3>4. QED
      BY <1>1, <3>1, <3>2, <3>3 DEF SiteThere
  <2>3. ASSUME NEW d \in Dist, Begin({d}), rest' = Tail(rest), UNCHANGED <<pc, exit, crash>>
        PROVE  Control' /\ SiteThere'
    <3>1. IsList(rest)'
      BY <2>1, <2>3, HeadThenTail DEF Control, IsList
    <3>2. Control'
      BY <1>1, <1>2, <2>1, <2>3, <3>1 DEF Control, IsList
    <3>3. SiteInv' /\ Removing' /\ Kept'
      BY <1>1, <2>1, <2>3, BeginKeeps
    <3>4. KeptBut'
      BY <3>3 DEF Kept, KeptBut
    <3>5. QED
      BY <2>1, <2>3, <3>2, <3>3, <3>4 DEF SiteThere
  <2>4. QED
    BY <2>1, <2>2, <2>3
<1>5. QED
  BY <1>3, <1>4

\* uninstall: the files of a distribution.
LEMMA RemovingControls ==
    ASSUME Control, SiteThere, RemoveFiles \/ UnlinkFails
    PROVE  Control' /\ SiteThere'
<1>1. pc = "uninstall" /\ SiteInv /\ Removing /\ KeptBut /\ cmd # None
  BY DEF RemoveFiles, UnlinkFails, At, SiteThere, Control
<1>2. None # 0 /\ None # 1
  BY CommandLineAssumption
<1>3. CASE RemoveFiles
  <2>1. PICK d \in Dist : Unlink(d) \/ RemoveDirectory(d)
    BY <1>3 DEF RemoveFiles
  <2>2. SiteInv' /\ Removing' /\ KeptBut'
    BY <1>1, <2>1, UnlinkKeeps, RemoveDirectoryKeeps
  <2>3. UNCHANGED <<program, commands, stopped, start>>
    BY <1>3 DEF RemoveFiles
  <2>4. Control'
    BY <2>3 DEF Control, program, IsList
  <2>5. QED
    BY <1>1, <2>2, <2>3, <2>4 DEF SiteThere, program
<1>4. CASE UnlinkFails
  <2>1. /\ pc' = "prompt" /\ exit' = 1 /\ crash' \in Failure /\ Cut
        /\ UNCHANGED <<cmd, stack, packages, rest, printed, commands, stopped, start>>
    BY <1>4 DEF UnlinkFails, Raise, Exit, Goto, Failure
  <2>2. faults' \in 0 .. MaxFaults
    BY <1>1, <1>4, SitePackagesAssumption DEF UnlinkFails, UnlinkRaises, Fault, SiteInv
  <2>3. SiteInv' /\ Kept' /\ busy' = {}
    BY <1>1, <2>1, <2>2, CutKeeps
  <2>4. Control'
    BY <1>1, <1>2, <2>1 DEF Control, IsList
  <2>5. QED
    BY <2>1, <2>3, <2>4 DEF SiteThere
<1>5. QED
  BY <1>3, <1>4

\* The modules of a file are finitely many.
LEMMA ModulesFinite ==
    ASSUME NEW f \in DOMAIN Imports[Cwd]
    PROVE  IsFiniteSet(find_imported_modules(Imports[Cwd][f]))
<1> DEFINE statements == Imports[Cwd][f]
           D == {j \in DOMAIN statements : statements[j] # <<>>}
           first == [i \in D |-> statements[i][1]]
<1>1. statements \in Seq(Range(statements))
  BY CommandLineAssumption
<1>2. IsFiniteSet(DOMAIN statements)
  <2>1. Len(statements) \in Nat /\ DOMAIN statements = 1 .. Len(statements)
    BY <1>1
  <2>2. QED
    BY <2>1, FS_Interval
<1>3. IsFiniteSet(D)
  BY <1>2, FS_Subset
<1>4. first \in Surjection(D, {statements[i][1] : i \in D})
  BY DEF Surjection
<1>5. IsFiniteSet({statements[i][1] : i \in D})
  BY <1>3, <1>4, FS_Surjection
<1>6. QED
  BY <1>5 DEF find_imported_modules

\* freeze.
LEMMA FreezeControls ==
    ASSUME Control, SiteThere, Harvest \/ FreezeEnds
    PROVE  Control' /\ SiteThere'
<1>1. /\ pc = "freeze" /\ cmd # None /\ cmd.command = "freeze" /\ crash = None /\ exit = None
      /\ SiteInv /\ Kept /\ busy = {} /\ UNCHANGED siteVars
      /\ UNCHANGED <<cmd, stack, commands, stopped, start>>
  BY DEF Harvest, FreezeEnds, At, Control, SiteThere
<1>2. None # 0 /\ None # 1
  BY CommandLineAssumption
<1>3. SiteInv' /\ Kept'
  BY <1>1, SiteStutters
<1>4. busy' = {}
  BY <1>1 DEF siteVars
<1>5. \/ pc' = "freeze" /\ UNCHANGED <<exit, crash>>
      \/ pc' = "prompt" /\ exit' \in {0, 1} /\ crash' \in Failure \cup {None}
         /\ (exit' = 0 => crash' = None)
  BY <1>1 DEF Harvest, FreezeEnds, Raise, Exit, Goto, Failure
<1>6. IsList(rest)' /\ IsList(packages)'
  <2>1. CASE UNCHANGED <<rest, packages>>
    BY <2>1 DEF Control, IsList
  <2>2. CASE /\ rest # <<>> /\ rest' = Tail(rest) /\ Head(rest) \in DOMAIN Imports[Cwd]
             /\ packages' = packages \o SetToSeq(find_imported_modules(Imports[Cwd][Head(rest)]))
    <3> DEFINE ms == find_imported_modules(Imports[Cwd][Head(rest)])
    <3>1. IsFiniteSet(ms)
      BY <2>2, ModulesFinite
    <3>2. IsList(SetToSeq(ms))
      BY <3>1, ListsAllOf
    <3>3. IsList(packages \o SetToSeq(ms))
      BY <3>2, OneThenOther DEF Control
    <3>4. IsList(Tail(rest))
      BY <2>2, HeadThenTail DEF Control
    <3>5. QED
      BY <2>2, <3>3, <3>4 DEF IsList
  <2>3. QED
    BY <2>1, <2>2 DEF Harvest, FreezeEnds
<1>7. Control'
  BY <1>1, <1>2, <1>5, <1>6 DEF Control
<1>8. QED
  BY <1>3, <1>4, <1>5, <1>7 DEF SiteThere

\* Ctrl-C.
LEMMA InterruptControls ==
    ASSUME Control, SiteThere, KeyboardInterrupt
    PROVE  Control' /\ SiteThere'
<1>1. /\ pc # "prompt" /\ pc' = "prompt" /\ Cut
      /\ \/ exit' = 1 /\ crash' \in Failure
         \/ exit' = 0 /\ crash' = crash
      /\ UNCHANGED <<faults, cmd, stack, packages, rest, printed, commands, start>>
  BY DEF KeyboardInterrupt, At, Raise, Exit, Goto, Failure
<1>2. None # 0 /\ None # 1
  BY CommandLineAssumption
<1>3. Control'
  BY <1>1, <1>2 DEF Control, IsList
<1>4. SiteInv /\ KeptBut /\ faults' \in 0 .. MaxFaults
  BY <1>1, AtRest DEF SiteThere, SiteInv, Kept, KeptBut
<1>5. SiteInv' /\ Kept' /\ busy' = {}
  BY <1>1, <1>4, CutKeeps
<1>6. QED
  BY <1>1, <1>3, <1>5 DEF SiteThere

\* All the time.
LEMMA StepControls ==
    ASSUME Control, SiteThere, [Next]_vars
    PROVE  Control' /\ SiteThere'
<1>1. CASE UNCHANGED vars
  <2>1. UNCHANGED siteVars /\ UNCHANGED <<program, commands, stopped, start>>
    BY <1>1 DEF vars
  <2>2. Control'
    BY <2>1 DEF Control, program, IsList
  <2>3. busy' = busy /\ pc' = pc
    BY <2>1 DEF siteVars, program
  <2>4. QED
    BY <2>1, <2>2, <2>3, SiteStutters DEF SiteThere
<1>2. CASE Step
  BY <1>2, ReadingControls, RetrieveControls, InstallControls, UninstallControls,
     RemovingControls, FreezeControls DEF Step, Progress
<1>3. CASE KeyboardInterrupt
  BY <1>3, InterruptControls
<1>4. CASE \E c \in Command : Run(c)
  BY <1>4, RunControls
<1>5. QED
  BY <1>1, <1>2, <1>3, <1>4 DEF Next

\* Commands, and the site they leave, are under control: CommandLine's invariants rest on it.
THEOREM Controlled == Spec => [](Control /\ SiteThere)
<1>1. Init => Control /\ SiteThere
  BY ControlStarts
<1>2. Control /\ SiteThere /\ [Next]_vars => (Control /\ SiteThere)'
  BY StepControls
<1>3. QED
  BY <1>1, <1>2, PTL DEF Spec

(***************************************************************************)
(* TypeOK: whatever is typed, the program is at one of its points, what is *)
(* left of a distribution is a suffix of its RECORD, and nobody works on   *)
(* the site unless a command installs or removes.                          *)
(***************************************************************************)
THEOREM Typed == Spec => []TypeOK
<1>1. Control /\ SiteThere => TypeOK
  <2> SUFFICES ASSUME Control, SiteThere PROVE TypeOK
    OBVIOUS
  <2>1. SiteTypeOK
    <3>1. \A d \in Dist : IsSuffix(left[d], Paths(d)) /\ (left[d] # <<>> => d \in busy)
      BY RestIsSuffix DEF SiteThere, SiteInv
    <3>2. QED
      BY <3>1 DEF SiteThere, SiteInv, SiteTypeOK
  <2>2. \A i \in DOMAIN stack : stack[i] \in Seq(Spelling \cup File \cup {Blank})
    BY DEF Control, Lexeme
  <2>3. busy # {} => pc \in {"install", "uninstall"}
    BY DEF SiteThere
  <2>4. QED
    BY <2>1, <2>2, <2>3 DEF Control, TypeOK
<1>2. QED
  BY <1>1, Controlled, PTL

(***************************************************************************)
(* WholeOrGone: between two commands a distribution is there with all its  *)
(* files or gone with all of them, for every number of threads of the      *)
(* installer and every set of shared files.                                *)
(***************************************************************************)
THEOREM AllOrNothing == Spec => []WholeOrGone
<1>1. Control /\ SiteThere => WholeOrGone
  BY DEF SiteThere, WholeOrGone, At, Kept, Left, Gone
<1>2. QED
  BY <1>1, Controlled, PTL

-----------------------------------------------------------------------------
\* What the steps of a program do to the site, and when.
LEMMA StepKinds ==
    ASSUME Control, SiteThere, [Next]_vars, ~ \E c \in Command : Run(c)
    PROVE  /\ UNCHANGED <<cmd, start>>
           /\ \/ UNCHANGED siteVars
              \/ pc = "read" /\ Retrieve /\ cmd.command = "install"
              \/ pc = "install" /\ (Installer \/ InstallerFails) /\ cmd.command = "install"
              \/ /\ pc = "uninstall" /\ cmd.command = "uninstall" /\ busy = {}
                 /\ UNCHANGED <<files, dirs, faults, hurt>> /\ \E d \in Dist : Begin({d})
              \/ pc = "uninstall" /\ RemoveFiles /\ cmd.command = "uninstall"
              \/ pc # "prompt" /\ pc' = "prompt" /\ Cut
<1>1. CASE UNCHANGED vars
  BY <1>1 DEF vars, program
<1>2. CASE Step
  <2>1. CASE get_packages_from_args \/ ZeroDivision \/ handle_install_exit
              \/ request_uninstall \/ NotInstalled \/ UninstallEnds \/ Harvest \/ FreezeEnds
    BY <2>1 DEF get_packages_from_args, ZeroDivision, handle_install_exit, request_uninstall,
       NotInstalled, UninstallEnds, Harvest, FreezeEnds
  <2>2. CASE Retrieve \/ Installer \/ InstallerFails
    <3>1. CASE Retrieve
      BY <3>1 DEF Retrieve, Ready, At, Is
    <3>2. CASE Installer
      BY <3>2 DEF Installer, program, At, Control
    <3>3. CASE InstallerFails
      BY <3>3 DEF InstallerFails, At, Control
    <3>4. QED
      BY <2>2, <3>1, <3>2, <3>3
  <2>3. CASE uninstall
    <3>1. pc = "uninstall" /\ busy = {} /\ UNCHANGED <<files, dirs, faults, hurt, cmd, start>>
      BY <2>3 DEF uninstall, At
    <3>2. (\E d \in Dist : Begin({d})) \/ UNCHANGED <<busy, left, fresh>>
      BY <2>3 DEF uninstall, Found
    <3>3. QED
      BY <3>1, <3>2 DEF Control, siteVars
  <2>4. CASE RemoveFiles
    BY <2>4 DEF RemoveFiles, program, At, Control
  <2>5. CASE UnlinkFails
    BY <2>5 DEF UnlinkFails, Raise, Exit, Goto, At
  <2>6. QED
    BY <1>2, <2>1, <2>2, <2>3, <2>4, <2>5 DEF Step, Progress
<1>3. CASE KeyboardInterrupt
  BY <1>3 DEF KeyboardInterrupt, Raise, Exit, Goto, At
<1>4. QED
  BY <1>1, <1>2, <1>3 DEF Next

LEMMA BrokenStep ==
    ASSUME Control, SiteThere, BrokenThere, [Next]_vars
    PROVE  BrokenThere'
<1>1. CASE \E c \in Command : Run(c)
  <2>1. PICK c \in Command : Run(c)
    BY <1>1
  <2>2. start' = Site /\ cmd' = c /\ UNCHANGED siteVars /\ busy = {}
    BY <2>1 DEF Run, At, SiteThere
  <2>3. UNCHANGED <<files, dirs, busy>>
    BY <2>2 DEF siteVars
  <2>4. \A d \in Site.broken : d \in Dist /\ Listed(d) /\ \E f \in Range(Code[d]) : f \notin files
    BY DEF Site, Broken
  <2>5. QED
    BY <2>2, <2>3, <2>4 DEF BrokenThere, Listed
<1>2. CASE ~ \E c \in Command : Run(c)
  <2> SUFFICES ASSUME cmd' = None \/ cmd'.command # "install", NEW d \in start'.broken
               PROVE  /\ d \in Dist /\ Listed(d)'
                      /\ \E f \in Range(Code[d]) \ files' : d \in busy' => f \in Todo(d)'
    BY DEF BrokenThere
  <2>1. /\ UNCHANGED <<cmd, start>>
        /\ \/ UNCHANGED siteVars
           \/ /\ pc = "uninstall"
              /\ UNCHANGED <<files, dirs, faults, hurt>> /\ \E e \in Dist : Begin({e})
           \/ pc = "uninstall" /\ RemoveFiles
           \/ Cut
    <3>1. pc \in {"read", "install"} => cmd # None
      BY DEF Control
    <3>2. QED
      BY <1>2, <3>1, StepKinds
  <2>2. d \in Dist /\ Listed(d)
    BY <2>1 DEF BrokenThere
  <2>3. PICK f \in Range(Code[d]) \ files : d \in busy => f \in Todo(d)
    BY <2>1 DEF BrokenThere
  <2>4. f \in Range(Paths(d))
    BY <2>2, PathsFacts
  <2>5. CASE UNCHANGED siteVars
    BY <2>2, <2>3, <2>5 DEF siteVars, Listed, Todo
  <2>6. CASE UNCHANGED <<files, dirs>> /\ \E e \in Dist : Begin({e})
    <3>1. d \in busy' => f \in Todo(d)'
      BY <2>2, <2>4, <2>6 DEF Begin, Todo
    <3>2. QED
      BY <2>2, <2>3, <2>6, <3>1 DEF Listed
  <2>7. CASE RemoveFiles
    <3>1. SiteInv
      BY DEF SiteThere
    <3>2. ASSUME NEW e \in Dist, Unlink(e)
          PROVE  Listed(d)' /\ f \notin files' /\ (d \in busy' => f \in Todo(d)')
      <4>1. /\ e \in busy /\ left[e] # <<>> /\ Head(left[e]) \in files
            /\ files' = files \ {Head(left[e])} /\ UNCHANGED <<dirs, busy>>
            /\ left' = [left EXCEPT ![e] = Tail(@)]
        BY <3>2 DEF Unlink
      <4>2. /\ Head(left[e]) \in Todo(e) /\ Todo(e) \subseteq Range(Paths(e))
            /\ Todo(e)' = Todo(e) \ {Head(left[e])}
            /\ \A x \in Dist \ {e} : Todo(x)' = Todo(x)
            /\ Head(left[e]) = Metadata[e] => Todo(e) \cap Range(Code[e]) = {}
        BY <3>1, <4>1, NextFile
      <4>3. Metadata[d] # Head(left[e])
        BY <2>2, <2>3, <4>1, <4>2, SitePackagesAssumption
      <4>4. QED
        BY <2>2, <2>3, <4>1, <4>2, <4>3 DEF Listed
    <3>3. ASSUME NEW e \in Dist, RemoveDirectory(e)
          PROVE  Listed(d)' /\ f \notin files' /\ (d \in busy' => f \in Todo(d)')
      <4>1. /\ e \in busy /\ left[e] = <<>> /\ dirs' = dirs \ {e} /\ busy' = busy \ {e}
            /\ UNCHANGED <<files, left>>
        BY <3>3 DEF RemoveDirectory
      <4>2. Todo(e) = {}
        BY <4>1 DEF Todo, Range
      <4>3. e # d
        BY <2>3, <4>1, <4>2
      <4>4. QED
        BY <2>2, <2>3, <4>1, <4>3 DEF Listed, Todo
    <3>4. QED
      BY <2>2, <2>3, <2>7, <3>2, <3>3 DEF RemoveFiles
  <2>8. CASE Cut
    BY <2>2, <2>3, <2>8 DEF Cut, Listed
  <2>9. QED
    BY <2>1, <2>5, <2>6, <2>7, <2>8
<1>3. QED
  BY <1>1, <1>2

(***************************************************************************)
(* StaysBroken: no uninstall, whatever it is asked for and wherever it is  *)
(* cut off, gets rid of a distribution that lost a file before.            *)
(***************************************************************************)
THEOREM BrokenStays == Spec => []StaysBroken
<1>1. Init => BrokenThere
  <2> SUFFICES ASSUME Init PROVE BrokenThere
    OBVIOUS
  <2>1. start = Site /\ busy = {}
    BY DEF Init, SiteInit
  <2>2. QED
    BY <2>1 DEF BrokenThere, Site, Broken
<1>2. Control /\ SiteThere /\ BrokenThere /\ [Next]_vars => BrokenThere'
  BY BrokenStep
<1>3. BrokenThere => StaysBroken
  BY DEF BrokenThere, StaysBroken, Is
<1>4. QED
  BY <1>1, <1>2, <1>3, Controlled, PTL DEF Spec

-----------------------------------------------------------------------------
\* Wherever an install is, what it works on is what it was asked for.
LEMMA InstallStep ==
    ASSUME Control, SiteThere, InstallThere, [Next]_vars
    PROVE  InstallThere'
<1> DEFINE Done(p, d) == Safe[NameOf[d]] = p /\ d \notin hurt /\ (d \in busy \/ Whole(d))
<1>1. None # 0 /\ None # 1
  BY CommandLineAssumption
<1>2. Control'
  BY StepControls
<1>3. CASE UNCHANGED vars
  <2>1. UNCHANGED <<files, dirs, busy, hurt, cmd, pc, packages, exit, stopped>>
    BY <1>3 DEF vars, siteVars, program
  <2>2. Requested' = Requested /\ \A d \in Dist : Whole(d)' = Whole(d)
    BY <2>1 DEF Requested, Whole
  <2>3. QED
    BY <2>1, <2>2 DEF InstallThere, TrueExit, Completed, At, Is
<1>4. CASE \E c \in Command : Run(c)
  <2>1. pc' # "install" /\ exit' # 0
    BY <1>1, <1>4 DEF Run, Exit, Goto
  <2>2. QED
    BY <2>1 DEF InstallThere, TrueExit, Completed
<1>5. CASE KeyboardInterrupt
  BY <1>5 DEF KeyboardInterrupt, Raise, Exit, Goto, InstallThere, TrueExit, Completed
<1>6. CASE get_packages_from_args \/ ZeroDivision
  <2>1. pc = "read" /\ exit = None
    BY <1>6 DEF get_packages_from_args, ZeroDivision, Ready, At, Control
  <2>2. pc' # "install" /\ exit' # 0
    BY <1>1, <1>6, <2>1 DEF get_packages_from_args, ZeroDivision, expand_requirements, EndOfFile,
       SkipLine, Package, Include, Raise, Exit, Goto
  <2>3. QED
    BY <2>2 DEF InstallThere, TrueExit, Completed
<1>7. CASE Retrieve
  <2>1. pc = "read" /\ exit = None /\ UNCHANGED <<cmd, packages>>
    BY <1>7 DEF Retrieve, Ready, At, Control
  <2>2. CASE pc' = "prompt" /\ exit' = 1
    BY <2>2 DEF InstallThere, TrueExit, Completed
  <2>3. ASSUME NEW ds \in SUBSET Dist, {Safe[NameOf[d]] : d \in ds} = Requested,
               busy' = ds, hurt' = hurt \ ds, pc' = "install"
        PROVE  InstallThere'
    <3>1. Requested' = Requested
      BY <2>1 DEF Requested
    <3>2. \A p \in Requested : \E d \in ds : Safe[NameOf[d]] = p
      BY <2>3
    <3>3. \A p \in Requested' : \E d \in Dist \ hurt' :
            Safe[NameOf[d]] = p /\ (d \in busy' \/ Whole(d)')
      BY <2>3, <3>1, <3>2
    <3>4. QED
      BY <2>3, <3>3 DEF InstallThere, TrueExit, Completed, At
  <2>4. QED
    BY <1>7, <2>2, <2>3 DEF Retrieve, Begin, Exit, Goto
<1>8. CASE Installer
  <2>1. /\ pc = "install" /\ SiteInv /\ Installing
        /\ UNCHANGED <<cmd, pc, packages, exit, stopped>>
    BY <1>8 DEF Installer, At, SiteThere, program
  <2>2. PICK e \in Dist : Write(e) \/ WriteEnds(e)
    BY <1>8 DEF Installer
  <2>3. ASSUME NEW p \in Requested, NEW d \in Dist, Done(p, d)
        PROVE  d \notin hurt' /\ (d \in busy' \/ Whole(d)')
    <3>1. CASE Write(e)
      BY <2>3, <3>1 DEF Write, Whole
    <3>2. CASE WriteEnds(e)
      <4>1. UNCHANGED <<files, dirs, left, hurt>> /\ busy' = busy \ {e} /\ left[e] = <<>> /\ e \in busy
        BY <3>2 DEF WriteEnds
      <4>2. CASE d = e
        <5>1. Todo(e) = {}
          BY <4>1 DEF Todo, Range
        <5>2. QED
          BY <2>1, <2>3, <4>1, <4>2, <5>1 DEF Installing, Whole
      <4>3. CASE d # e
        BY <2>3, <4>1, <4>3 DEF Whole
      <4>4. QED
        BY <4>2, <4>3
    <3>3. QED
      BY <2>2, <3>1, <3>2
  <2>4. Requested' = Requested
    BY <2>1 DEF Requested
  <2>5. exit' # 1 => \A p \in Requested' : \E d \in Dist \ hurt' :
          Safe[NameOf[d]] = p /\ (d \in busy' \/ Whole(d)')
    BY <2>1, <2>3, <2>4 DEF InstallThere
  <2>6. QED
    BY <2>1, <2>5 DEF InstallThere, TrueExit, Completed, At
<1>9. CASE InstallerFails
  BY <1>9 DEF InstallerFails, At, InstallThere, TrueExit, Completed
<1>10. CASE handle_install_exit
  <2>1. /\ pc = "install" /\ pc' = "prompt" /\ busy = {} /\ UNCHANGED <<siteVars, cmd, packages>>
        /\ exit' = IF exit = None THEN 0 ELSE exit
    BY <1>10 DEF handle_install_exit, At, Exit, Goto
  <2>2. UNCHANGED <<files, dirs>> /\ exit \in {None, 1}
    BY <2>1 DEF siteVars, Control
  <2>3. Requested' = Requested /\ \A d \in Dist : Whole(d)' = Whole(d)
    BY <2>1, <2>2 DEF Requested, Whole
  <2>4. exit' = 0 => \A p \in Requested : \E d \in Dist : Safe[NameOf[d]] = p /\ Whole(d)
    BY <1>1, <2>1, <2>2 DEF InstallThere
  <2>5. QED
    BY <2>1, <2>3, <2>4 DEF InstallThere, TrueExit, Completed
<1>11. CASE request_uninstall \/ NotInstalled \/ uninstall \/ RemoveFiles \/ UnlinkFails
             \/ UninstallEnds \/ Harvest \/ FreezeEnds
  <2>1. cmd.command \in {"uninstall", "freeze"} /\ cmd' = cmd
    BY <1>11 DEF request_uninstall, NotInstalled, uninstall, RemoveFiles, UnlinkFails,
       UninstallEnds, Harvest, FreezeEnds, Ready, At, Is, Control, program
  <2>2. QED
    BY <1>2, <2>1 DEF Control, InstallThere, TrueExit, Completed, Is
<1>12. QED
  BY <1>3, <1>4, <1>5, <1>6, <1>7, <1>8, <1>9, <1>10, <1>11 DEF Next, Step, Progress

(***************************************************************************)
(* TrueExit: an install that ends with status 0 leaves a whole             *)
(* distribution of each package it was asked for, whatever the order in    *)
(* which the threads of the installer write and fail.                      *)
(***************************************************************************)
THEOREM ExitIsTrue == Spec => []TrueExit
<1>1. Init => InstallThere
  BY DEF Init, InstallThere, TrueExit, Completed, Is
<1>2. Control /\ SiteThere /\ InstallThere /\ [Next]_vars => InstallThere'
  BY InstallStep
<1>3. InstallThere => TrueExit
  BY DEF InstallThere
<1>4. QED
  BY <1>1, <1>2, <1>3, Controlled, PTL DEF Spec

-----------------------------------------------------------------------------
\* While files are removed, no distribution comes back.
LEMMA RemovesOnly ==
    ASSUME SiteThere, RemoveFiles
    PROVE  /\ files' \subseteq files /\ dirs' \subseteq dirs
           /\ UNCHANGED <<cmd, pc, packages, rest, start, exit, stopped>>
           /\ \A d \in Dist : Listed(d)' => Listed(d)
           /\ \A d \in busy : Listed(d)' => d \in busy'
<1>1. UNCHANGED <<cmd, pc, packages, rest, start, exit, stopped>>
  BY DEF RemoveFiles, program
<1>2. PICK e \in Dist : Unlink(e) \/ RemoveDirectory(e)
  BY DEF RemoveFiles
<1>3. /\ files' \subseteq files /\ dirs' \subseteq dirs
      /\ busy' = busy \/ (busy' = busy \ {e} /\ e \notin dirs')
  BY <1>2 DEF Unlink, RemoveDirectory
<1>4. QED
  BY <1>1, <1>3 DEF Listed

\* Wherever an uninstall is, what it has passed is gone or in work.
LEMMA UninstallStep ==
    ASSUME Control, SiteThere, UninstallThere, [Next]_vars
    PROVE  UninstallThere'
<1>1. None # 0 /\ None # 1
  BY CommandLineAssumption
<1>2. Control'
  BY StepControls
<1>3. CASE UNCHANGED vars
  <2>1. UNCHANGED <<files, dirs, busy, cmd, pc, packages, rest, exit, stopped, start>>
    BY <1>3 DEF vars, siteVars, program
  <2>2. \A d \in Dist : Listed(d)' = Listed(d)
    BY <2>1 DEF Listed
  <2>3. QED
    BY <2>1, <2>2 DEF UninstallThere, Removed, Completed, At, Is
<1>4. CASE \E c \in Command : Run(c)
  <2>1. pc' # "uninstall" /\ exit' # 0
    BY <1>1, <1>4 DEF Run, Exit, Goto
  <2>2. QED
    BY <2>1 DEF UninstallThere, Removed, Completed
<1>5. CASE KeyboardInterrupt
  BY <1>5 DEF KeyboardInterrupt, Raise, Exit, Goto, UninstallThere, Removed, Completed
<1>6. CASE get_packages_from_args
  <2>1. pc = "read" /\ exit = None
    BY <1>6 DEF get_packages_from_args, At, Control
  <2>2. pc' # "uninstall" /\ exit' # 0
    BY <1>1, <1>6, <2>1 DEF get_packages_from_args, expand_requirements, EndOfFile,
       SkipLine, Package, Include, Raise, Exit, Goto
  <2>3. QED
    BY <2>2 DEF UninstallThere, Removed, Completed
<1>7. CASE ZeroDivision \/ Retrieve \/ Installer \/ InstallerFails \/ handle_install_exit
            \/ Harvest \/ FreezeEnds
  <2>1. cmd.command \in {"install", "freeze"} /\ cmd' = cmd
    BY <1>7 DEF ZeroDivision, Retrieve, Installer, InstallerFails, handle_install_exit,
       Harvest, FreezeEnds, Ready, At, Is, Control, program
  <2>2. QED
    BY <1>2, <2>1 DEF Control, UninstallThere, Removed, Completed, Is
<1>8. CASE request_uninstall
  <2>1. /\ start = Site /\ pc' = "uninstall" /\ rest' = packages
        /\ UNCHANGED <<siteVars, packages, start>>
    BY <1>8 DEF request_uninstall, Ready, At, Goto, SiteThere
  <2>2. UNCHANGED <<files, dirs>>
    BY <2>1 DEF siteVars
  <2>3. \A d \in Dist : Listed(d)' => d \in start'.listed
    BY <2>1, <2>2 DEF Site, Listed
  <2>4. QED
    BY <2>1, <2>3 DEF UninstallThere, Removed, Completed, At
<1>9. CASE NotInstalled
  <2>1. /\ pc = "uninstall" /\ rest # <<>> /\ Found(Head(rest)) = {} /\ rest' = Tail(rest)
        /\ UNCHANGED <<siteVars, pc, packages, start>>
    BY <1>9 DEF NotInstalled, At
  <2>2. UNCHANGED <<files, dirs, busy>>
    BY <2>1 DEF siteVars
  <2>3. Range(rest) = {Head(rest)} \cup Range(rest')
    BY <2>1, HeadThenTail DEF Control
  <2>4. \A d \in Dist : Listed(d)' = Listed(d)
    BY <2>2 DEF Listed
  <2>5. \A d \in Dist : Listed(d) => NameOf[d] # Head(rest)
    BY <2>1 DEF Found
  <2>6. QED
    BY <2>1, <2>2, <2>3, <2>4, <2>5 DEF UninstallThere, Removed, Completed, At
<1>10. CASE uninstall
  <2>1. CASE Raise("record")
    BY <2>1 DEF Raise, Exit, Goto, UninstallThere, Removed, Completed
  <2>2. CASE ~Raise("record")
    <3>1. PICK e \in Found(Head(rest)) : Begin({e}) /\ rest' = Tail(rest) /\ pc' = pc
      BY <1>10, <2>2 DEF uninstall
    <3>2. /\ pc = "uninstall" /\ busy = {} /\ rest # <<>> /\ busy' = {e}
          /\ UNCHANGED <<files, dirs, packages, start>>
      BY <1>10, <3>1 DEF uninstall, At, Begin
    <3>3. Range(rest) = {Head(rest)} \cup Range(rest')
      BY <3>1, <3>2, HeadThenTail DEF Control
    <3>4. \A d \in Dist : Listed(d)' = Listed(d)
      BY <3>2 DEF Listed
    <3>5. e \in start.listed /\ NameOf[e] = Head(rest)
      BY <3>1, <3>2 DEF Found, UninstallThere
    <3>6. ASSUME NEW d \in Dist, Listed(d)', Safe[NameOf[d]] \in Range(packages')
          PROVE  \/ NameOf[d] # Safe[NameOf[d]]
                 \/ NameOf[d] \in Range(rest') \/ d \in busy'
                 \/ \E x \in start'.listed \ {d} : NameOf[x] = NameOf[d]
      <4>1. \/ NameOf[d] # Safe[NameOf[d]]
            \/ NameOf[d] \in Range(rest)
            \/ \E x \in start.listed \ {d} : NameOf[x] = NameOf[d]
        BY <3>2, <3>4, <3>6 DEF UninstallThere
      <4>2. NameOf[d] = Head(rest) => d = e \/ \E x \in start.listed \ {d} : NameOf[x] = NameOf[d]
        BY <3>5
      <4>3. QED
        BY <3>2, <3>3, <4>1, <4>2
    <3>7. QED
      BY <3>1, <3>2, <3>3, <3>4, <3>6 DEF UninstallThere, Removed, Completed, At
  <2>3. QED
    BY <2>1, <2>2
<1>11. CASE RemoveFiles
  <2>1. pc = "uninstall"
    BY <1>11 DEF RemoveFiles, At
  <2>2. /\ UNCHANGED <<cmd, pc, packages, rest, start, exit, stopped>>
        /\ \A d \in Dist : Listed(d)' => Listed(d)
        /\ \A d \in busy : Listed(d)' => d \in busy'
    BY <1>11, RemovesOnly
  <2>3. QED
    BY <2>1, <2>2 DEF UninstallThere, Removed, Completed, At
<1>12. CASE UnlinkFails
  BY <1>12 DEF UnlinkFails, Raise, Exit, Goto, UninstallThere, Removed, Completed
<1>13. CASE UninstallEnds
  <2>1. /\ pc = "uninstall" /\ pc' = "prompt" /\ busy = {} /\ rest = <<>>
        /\ UNCHANGED <<siteVars, packages, start>>
    BY <1>13 DEF UninstallEnds, At, Exit, Goto
  <2>2. UNCHANGED <<files, dirs>> /\ Range(rest) = {}
    BY <2>1 DEF siteVars, Range
  <2>3. \A d \in Dist : Listed(d)' = Listed(d)
    BY <2>2 DEF Listed
  <2>4. QED
    BY <2>1, <2>2, <2>3 DEF UninstallThere, Removed
<1>14. QED
  BY <1>3, <1>4, <1>5, <1>6, <1>7, <1>8, <1>9, <1>10, <1>11, <1>12, <1>13 DEF Next, Step, Progress

(***************************************************************************)
(* Removed: an uninstall that ends with status 0 has removed each package  *)
(* it was asked for, but for the ones it finds twice or can not find by    *)
(* the name it looks for.                                                  *)
(***************************************************************************)
THEOREM AllRemoved == Spec => []Removed
<1>1. Init => UninstallThere
  BY DEF Init, UninstallThere, Removed, Completed, Is
<1>2. Control /\ SiteThere /\ UninstallThere /\ [Next]_vars => UninstallThere'
  BY UninstallStep
<1>3. UninstallThere => Removed
  BY DEF UninstallThere
<1>4. QED
  BY <1>1, <1>2, <1>3, Controlled, PTL DEF Spec

-----------------------------------------------------------------------------
\* Which files an uninstall has lost, and to whom.
LEMMA FilesRemoved ==
    ASSUME Control, SiteThere, FilesThere, RemoveFiles
    PROVE  FilesThere'
<1>1. /\ pc = "uninstall" /\ SiteInv /\ Removing
      /\ UNCHANGED <<cmd, pc, packages, rest, start, exit, stopped>>
  BY RemovesOnly DEF RemoveFiles, At, SiteThere
<1>2. crash = None /\ crash' = crash /\ None \notin Failure
  BY <1>1, CommandLineAssumption DEF RemoveFiles, program, Control
<1>3. CrashExplained'
  BY <1>2 DEF CrashExplained, Failure
<1>4. PICK e \in Dist : Unlink(e) \/ RemoveDirectory(e)
  BY DEF RemoveFiles
<1>5. e \in busy /\ busy' \subseteq busy /\ faults' = faults
  BY <1>4 DEF Unlink, RemoveDirectory
<1>6. e \in start.listed /\ NameOf[e] \in Range(packages)
  BY <1>1, <1>5 DEF FilesThere
<1>7. ASSUME NEW d \in (start.listed \ start.hurt) \cap Dist,
             NEW f \in Range(Paths(d)), f \notin files'
      PROVE  \/ d \in busy' /\ f \notin Todo(d)'
             \/ d \notin busy' /\ ~Listed(d)'
             \/ \E x \in Sharing(d) : f \in Range(Code[x]) /\ NameOf[x] \in Range(packages)
  <2>1. f \notin files =>
          \/ d \in busy /\ f \notin Todo(d)
          \/ d \notin busy /\ ~Listed(d)
          \/ \E x \in Sharing(d) : f \in Range(Code[x]) /\ NameOf[x] \in Range(packages)
    BY <1>1 DEF FilesThere
  <2>2. CASE Unlink(e)
    <3>1. /\ left[e] # <<>> /\ files' = files \ {Head(left[e])} /\ UNCHANGED <<dirs, busy>>
          /\ left' = [left EXCEPT ![e] = Tail(@)]
      BY <2>2 DEF Unlink
    <3>2. /\ Head(left[e]) \in Todo(e) /\ Todo(e) \subseteq Range(Paths(e))
          /\ Todo(e)' = Todo(e) \ {Head(left[e])}
          /\ \A x \in Dist \ {e} : Todo(x)' = Todo(x)
      BY <1>1, <3>1, NextFile
    <3>3. CASE f \notin files
      <4>1. Todo(d)' \subseteq Todo(d) /\ (Listed(d)' => Listed(d))
        BY <3>1, <3>2 DEF Listed
      <4>2. QED
        BY <2>1, <3>1, <3>3, <4>1
    <3>4. CASE f = Head(left[e]) /\ d = e
      BY <1>5, <3>1, <3>2, <3>4
    <3>5. CASE f = Head(left[e]) /\ d # e
      BY <1>6, <3>2, <3>5, OnlyCodeShared
    <3>6. QED
      BY <1>7, <3>1, <3>3, <3>4, <3>5
  <2>3. CASE RemoveDirectory(e)
    <3>1. UNCHANGED <<files, left>> /\ dirs' = dirs \ {e} /\ busy' = busy \ {e}
      BY <2>3 DEF RemoveDirectory
    <3>2. QED
      BY <1>7, <2>1, <3>1 DEF Listed, Todo
  <2>4. QED
    BY <1>4, <2>2, <2>3
<1>8. QED
  BY <1>1, <1>3, <1>5, <1>7 DEF FilesThere

\* A file that raises is one that was lost before, or can not be removed.
LEMMA RaiseExplained ==
    ASSUME Control, SiteThere, FilesThere, UninstallThere, UnlinkFails
    PROVE  FilesThere'
<1>1. /\ pc = "uninstall" /\ pc' = "prompt" /\ SiteInv /\ UNCHANGED <<packages, start>>
  BY DEF UnlinkFails, At, Raise, Exit, Goto, SiteThere
<1>2. PICK d \in Dist : UnlinkRaises(d)
  BY DEF UnlinkFails
<1>3. /\ d \in busy /\ left[d] # <<>>
      /\ \/ Head(left[d]) \notin files /\ UNCHANGED faults
         \/ faults' = faults + 1
  BY <1>2 DEF UnlinkRaises, Fault
<1>4. d \in start.listed /\ NameOf[d] \in Range(packages)
  BY <1>1, <1>3 DEF FilesThere
<1>5. CASE Head(left[d]) \notin files
  <2>1. Head(left[d]) \in Todo(d) /\ Head(left[d]) \in Range(Paths(d))
    BY <1>1, <1>3, RestMoves DEF SiteInv, Todo
  <2>2. d \in start.hurt \/ \E e \in Sharing(d) : NameOf[e] \in Range(packages)
    BY <1>1, <1>3, <1>4, <1>5, <2>1 DEF FilesThere
  <2>3. QED
    BY <1>1, <1>4, <2>2 DEF FilesThere, CrashExplained
<1>6. CASE faults' = faults + 1
  <2>1. faults' > start.faults
    <3>1. start.faults \in Nat /\ faults \in Nat /\ start.faults <= faults
      BY <1>1 DEF FilesThere, SiteInv
    <3>2. QED
      BY <1>6, <3>1
  <2>2. QED
    BY <1>1, <2>1 DEF FilesThere, CrashExplained
<1>7. QED
  BY <1>3, <1>5, <1>6

LEMMA FilesStep ==
    ASSUME Control, SiteThere, FilesThere, UninstallThere, [Next]_vars
    PROVE  FilesThere'
<1>1. "unlink" # "record" /\ None \notin {"unlink", "record"}
  BY CommandLineAssumption DEF Failure
<1>2. Control'
  BY StepControls
<1>3. CASE UNCHANGED vars
  <2>1. UNCHANGED <<files, dirs, busy, left, faults, pc, packages, crash, start>>
    BY <1>3 DEF vars, siteVars, program
  <2>2. \A d \in Dist : Listed(d)' = Listed(d) /\ Todo(d)' = Todo(d)
    BY <2>1 DEF Listed, Todo
  <2>3. CrashExplained'
    BY <2>1 DEF FilesThere, CrashExplained
  <2>4. QED
    BY <2>1, <2>2, <2>3 DEF FilesThere
<1>4. CASE \E c \in Command : Run(c)
  <2>1. pc' # "uninstall" /\ crash' = None
    BY <1>4 DEF Run, Exit, Goto
  <2>2. QED
    BY <1>1, <2>1 DEF FilesThere, CrashExplained
<1>5. CASE KeyboardInterrupt \/ get_packages_from_args
  <2>1. crash = None /\ pc' # "uninstall"
    BY <1>5 DEF KeyboardInterrupt, get_packages_from_args, expand_requirements, EndOfFile,
       SkipLine, Package, Include, Raise, Exit, Goto, At, Control
  <2>2. crash' \notin {"unlink", "record"}
    BY <1>1, <1>5, <2>1 DEF KeyboardInterrupt, get_packages_from_args, expand_requirements,
       EndOfFile, SkipLine, Package, Include, Raise, Exit, Goto
  <2>3. QED
    BY <2>1, <2>2 DEF FilesThere, CrashExplained
<1>6. CASE ZeroDivision \/ Retrieve \/ Installer \/ InstallerFails \/ handle_install_exit
            \/ Harvest \/ FreezeEnds
  <2>1. cmd.command \in {"install", "freeze"} /\ cmd' = cmd /\ crash = None
    BY <1>6 DEF ZeroDivision, Retrieve, Installer, InstallerFails, handle_install_exit,
       Harvest, FreezeEnds, Ready, At, Is, Control, program
  <2>2. crash' \notin {"unlink", "record"}
    BY <1>1, <1>6, <2>1 DEF ZeroDivision, Retrieve, Installer, InstallerFails,
       handle_install_exit, Harvest, FreezeEnds, Raise, program
  <2>3. QED
    BY <1>2, <2>1, <2>2 DEF Control, FilesThere, CrashExplained
<1>7. CASE request_uninstall
  <2>1. /\ start = Site /\ Kept /\ busy = {} /\ SiteInv /\ crash = None /\ crash' = crash
        /\ UNCHANGED <<siteVars, packages, start>>
    BY <1>7 DEF request_uninstall, Ready, At, SiteThere, Control
  <2>2. UNCHANGED <<files, dirs, busy, left, faults>>
    BY <2>1 DEF siteVars
  <2>3. ASSUME NEW d \in (start.listed \ start.hurt) \cap Dist
        PROVE  Range(Paths(d)) \subseteq files
    <3>1. Listed(d) /\ d \notin hurt
      BY <2>1, <2>3 DEF Site
    <3>2. Whole(d)
      BY <2>1, <3>1 DEF Kept, Left, Listed
    <3>3. QED
      BY <3>2 DEF Whole
  <2>4. start.faults \in Nat /\ start.faults <= faults
    <3>1. start.faults = faults /\ faults \in Nat
      BY <2>1 DEF Site, SiteInv
    <3>2. QED
      BY <3>1
  <2>5. CrashExplained'
    BY <1>1, <2>1 DEF CrashExplained
  <2>6. QED
    BY <2>1, <2>2, <2>3, <2>4, <2>5 DEF FilesThere
<1>8. CASE NotInstalled \/ UninstallEnds
  <2>1. /\ pc = "uninstall" /\ crash = None /\ crash' = crash
        /\ UNCHANGED <<siteVars, packages, start>>
    BY <1>8 DEF NotInstalled, UninstallEnds, At, Control, Exit
  <2>2. UNCHANGED <<files, dirs, busy, left, faults>>
    BY <2>1 DEF siteVars
  <2>3. \A d \in Dist : Listed(d)' = Listed(d) /\ Todo(d)' = Todo(d)
    BY <2>2 DEF Listed, Todo
  <2>4. CrashExplained'
    BY <1>1, <2>1 DEF CrashExplained
  <2>5. QED
    BY <2>1, <2>2, <2>3, <2>4 DEF FilesThere
<1>9. CASE uninstall
  <2>1. /\ pc = "uninstall" /\ busy = {} /\ rest # <<>>
        /\ UNCHANGED <<files, dirs, faults, packages, start>> /\ crash = None
    BY <1>9 DEF uninstall, At, Control
  <2>2. PICK e \in Found(Head(rest)) :
          \/ Record[e] \in files /\ Begin({e}) /\ UNCHANGED <<pc, crash>>
          \/ Record[e] \notin files /\ Raise("record")
    BY <1>9 DEF uninstall
  <2>3. e \in Dist /\ Listed(e) /\ NameOf[e] \in Range(packages) /\ e \in start.listed
    <3>1. Head(rest) \in Range(packages)
      BY <2>1, HeadThenTail DEF Control, UninstallThere
    <3>2. QED
      BY <2>1, <2>2, <3>1 DEF Found, UninstallThere
  <2>4. CASE Record[e] \in files /\ Begin({e}) /\ UNCHANGED <<pc, crash>>
    <3>1. busy' = {e} /\ \A d \in Dist : Listed(d)' = Listed(d)
      BY <2>1, <2>4 DEF Begin, Listed
    <3>2. ASSUME NEW d \in (start.listed \ start.hurt) \cap Dist,
                 NEW f \in Range(Paths(d)) \ files
          PROVE  \/ d \notin busy' /\ ~Listed(d)'
                 \/ \E x \in Sharing(d) : f \in Range(Code[x]) /\ NameOf[x] \in Range(packages)
      BY <2>1, <2>3, <3>1 DEF FilesThere
    <3>3. CrashExplained'
      BY <1>1, <2>1, <2>4 DEF CrashExplained
    <3>4. start.faults \in Nat /\ start.faults <= faults
      BY <2>1 DEF FilesThere
    <3>5. QED
      BY <2>1, <2>3, <2>4, <3>1, <3>2, <3>3, <3>4 DEF FilesThere
  <2>5. CASE Record[e] \notin files /\ Raise("record")
    <3>1. e \in start.hurt
      <4>1. Record[e] \in Range(Paths(e)) \ files
        BY <2>3, <2>5, PathsFacts
      <4>2. \A x \in Sharing(e) : Record[e] \notin Range(Code[x])
        <5>1. ASSUME NEW x \in Sharing(e) PROVE Record[e] \notin Range(Code[x])
          <6>1. x \in Dist /\ x # e
            BY DEF Sharing
          <6>2. Record[e] \notin Range(Paths(x))
            BY <2>3, <6>1, SitePackagesAssumption
          <6>3. QED
            BY <6>1, <6>2, PathsFacts
        <5>2. QED
          BY <5>1
      <4>3. QED
        BY <2>1, <2>3, <4>1, <4>2 DEF FilesThere
    <3>2. pc' = "prompt"
      BY <2>5 DEF Raise, Exit, Goto
    <3>3. QED
      BY <2>1, <2>3, <3>1, <3>2 DEF FilesThere, CrashExplained
  <2>6. QED
    BY <2>2, <2>4, <2>5
<1>10. CASE RemoveFiles
  BY <1>10, FilesRemoved
<1>11. CASE UnlinkFails
  BY <1>11, RaiseExplained
<1>12. QED
  BY <1>3, <1>4, <1>5, <1>6, <1>7, <1>8, <1>9, <1>10, <1>11 DEF Next, Step, Progress

(***************************************************************************)
(* CrashExplained: an uninstall that raises met a file that can not be     *)
(* removed, a distribution that was hurt before, or one that shares a file *)
(* with another package it was asked to remove.                            *)
(***************************************************************************)
THEOREM CrashesExplained == Spec => []CrashExplained
<1>1. Init => FilesThere /\ UninstallThere
  <2>1. None \notin {"unlink", "record"}
    BY CommandLineAssumption DEF Failure
  <2>2. QED
    BY <2>1 DEF Init, FilesThere, CrashExplained, UninstallThere, Removed, Completed, Is
<1>2. Control /\ SiteThere /\ FilesThere /\ UninstallThere /\ [Next]_vars
          => (FilesThere /\ UninstallThere)'
  BY FilesStep, UninstallStep
<1>3. FilesThere => CrashExplained
  BY DEF FilesThere
<1>4. QED
  BY <1>1, <1>2, <1>3, Controlled, PTL DEF Spec

-----------------------------------------------------------------------------
\* Every file is yet to be read, or its modules are among those found.
LEMMA FreezeStep ==
    ASSUME Control, FreezeThere, SiteThere, [Next]_vars
    PROVE  FreezeThere'
<1>1. None # 0 /\ None # 1
  BY CommandLineAssumption
<1>2. Control'
  BY StepControls
<1>3. CASE UNCHANGED vars
  BY <1>3 DEF vars, program, FreezeThere, FreezeTells, Completed, At, Is
<1>4. CASE \E c \in Command : Run(c)
  <2>1. PICK c \in Command : Run(c)
    BY <1>4
  <2>2. exit' # 0 /\ cmd' = c
    BY <1>1, <2>1 DEF Run, Exit, Goto
  <2>3. pc' = "freeze" => rest' \in SetToSeqs(DOMAIN Imports[c.root_path])
    BY <2>1 DEF Run, Exit, Goto
  <2>4. ASSUME pc' = "freeze"
        PROVE  Range(rest') = DOMAIN Imports[c.root_path]
    <3>1. c.command = "freeze"
      BY <2>1, <2>4 DEF Run, Exit, Goto
    <3>2. IsFiniteSet(DOMAIN Imports[c.root_path])
      BY <3>1, CommandFacts, CommandLineAssumption
    <3>3. \A s \in SetToSeqs(DOMAIN Imports[c.root_path]) : Range(s) = DOMAIN Imports[c.root_path]
      BY <3>2, ListsAllOf
    <3>4. QED
      BY <2>3, <2>4, <3>3
  <2>5. QED
    BY <2>2, <2>4 DEF FreezeThere, FreezeTells, Completed
<1>5. CASE KeyboardInterrupt
  BY <1>5 DEF KeyboardInterrupt, Raise, Exit, Goto, FreezeThere, FreezeTells, Completed
<1>6. CASE Step /\ ~Harvest /\ ~FreezeEnds
  <2>1. cmd.command # "freeze" /\ cmd' = cmd
    BY <1>6 DEF Step, Progress, get_packages_from_args, ZeroDivision, Retrieve, Installer, InstallerFails,
       handle_install_exit, request_uninstall, NotInstalled, uninstall, RemoveFiles, UnlinkFails,
       UninstallEnds, Ready, At, Is, Control, program
  <2>2. QED
    BY <1>2, <2>1 DEF Control, FreezeThere, FreezeTells, Completed, Is
<1>7. CASE Harvest
  <2>1. pc = "freeze" /\ rest # <<>> /\ cmd' = cmd
    BY <1>7 DEF Harvest, At
  <2>2. CASE Raise("open")
    BY <2>2 DEF Raise, Exit, Goto, FreezeThere, FreezeTells, Completed
  <2>3. CASE ~Raise("open")
    <3> DEFINE ms == find_imported_modules(Imports[Cwd][Head(rest)])
    <3>1. /\ Head(rest) \in DOMAIN Imports[Cwd] /\ rest' = Tail(rest) /\ pc' = pc
          /\ packages' = packages \o SetToSeq(ms)
      BY <1>7, <2>3 DEF Harvest
    <3>2. IsList(SetToSeq(ms)) /\ Range(SetToSeq(ms)) = ms
      BY <3>1, ModulesFinite, ListsAllOf
    <3>3. Range(packages') = Range(packages) \cup ms
      BY <3>1, <3>2, OneThenOther DEF Control
    <3>4. Range(rest) = {Head(rest)} \cup Range(rest')
      BY <2>1, <3>1, HeadThenTail DEF Control
    <3>5. QED
      BY <2>1, <3>1, <3>3, <3>4 DEF FreezeThere, FreezeTells, Completed, At
  <2>4. QED
    BY <2>2, <2>3
<1>8. CASE FreezeEnds
  <2>1. /\ pc = "freeze" /\ rest = <<>> /\ pc' = "prompt" /\ cmd' = cmd
        /\ printed' = Range(packages) \ Builtin
    BY <1>8 DEF FreezeEnds, At, Exit, Goto
  <2>2. Range(rest) = {}
    BY <2>1 DEF Range
  <2>3. ASSUME NEW f \in DOMAIN Imports[cmd.root_path]
        PROVE  /\ f \in DOMAIN Imports[Cwd]
               /\ find_imported_modules(Imports[Cwd][f]) \subseteq Range(packages)
    BY <2>1, <2>2, <2>3 DEF FreezeThere
  <2>4. ASSUME NEW f \in DOMAIN Imports[cmd.root_path], Imports[cmd.root_path][f] = Imports[Cwd][f],
               NEW i \in DOMAIN Imports[Cwd][f], NEW n \in DOMAIN Imports[Cwd][f][i]
        PROVE  n > 1 \/ Imports[Cwd][f][i][n] \in printed' \cup Builtin
    <3> DEFINE names == Imports[Cwd][f][i]
    <3>1. names \in Range(Imports[Cwd][f])
      BY DEF Range
    <3>2. names \in Seq(Range(names))
      BY <2>3, <3>1, CommandLineAssumption
    <3>3. n \in Nat /\ n >= 1 /\ names # <<>>
      BY <3>2
    <3>4. names[1] \in find_imported_modules(Imports[Cwd][f])
      BY <3>3 DEF find_imported_modules
    <3>5. find_imported_modules(Imports[Cwd][f]) \subseteq Range(packages)
      BY <2>3
    <3>6. n > 1 \/ n = 1
      BY <3>3
    <3>7. QED
      BY <2>1, <3>4, <3>5, <3>6
  <2>5. FreezeTells'
    BY <2>1, <2>3, <2>4 DEF FreezeTells
  <2>6. QED
    BY <2>1, <2>5 DEF FreezeThere
<1>9. QED
  BY <1>3, <1>4, <1>5, <1>6, <1>7, <1>8 DEF Next

(***************************************************************************)
(* FreezeTells: freeze prints every module that is imported under its root *)
(* path, whatever the files and the order they come in, but for those      *)
(* built in, those after the first of a statement, and those of a file     *)
(* that another one of its name stands in for in the working directory.    *)
(***************************************************************************)
THEOREM FreezeIsComplete == Spec => []FreezeTells
<1>1. Init => FreezeThere
  BY DEF Init, FreezeThere, FreezeTells, Completed, Is
<1>2. Control /\ SiteThere /\ FreezeThere /\ [Next]_vars => FreezeThere'
  BY FreezeStep
<1>3. FreezeThere => FreezeTells
  BY DEF FreezeThere
<1>4. QED
  BY <1>1, <1>2, <1>3, Controlled, PTL DEF Spec

-----------------------------------------------------------------------------
(* What is read *)

Result == [ok : BOOLEAN, names : Seq(Spelling)]

Inside == [File -> Result]

\* How deep the includes of the last file of a stack may yet go
LeftOf(s) == IF Len(s) > RecursionLimit THEN 0 ELSE RecursionLimit + 1 - Len(s)

\* What the rest of the files being read will come to
Pending[s \in Seq(Seq(Lexeme))] ==
    IF s = <<>> THEN Nothing
    ELSE Join(Through(Included[LeftOf(s)])[Head(s)], Pending[Tail(s)])

SoFar == [ok |-> TRUE, names |-> packages]

\* What was read and what is left to read make up what is to be read
ReadThere ==
    /\ ReadsAll
    /\ pc = "read" =>
        /\ packages \in Seq(Spelling) /\ Len(stack) <= RecursionLimit + 1
        /\ Join(SoFar, Pending[stack]) = Reading
        /\ UninstallFile => stack # <<>>

\* One result after the other.
LEMMA JoinFacts ==
    /\ Nothing \in Result /\ Raises \in Result
    /\ \A a \in Result : Join(Nothing, a) = a /\ Join(a, Nothing) = a
    /\ \A a, b \in Result : Join(a, b) \in Result
    /\ \A a, b, c \in Result : Join(Join(a, b), c) = Join(a, Join(b, c))
<1>1. Nothing \in Result /\ Raises \in Result
  BY DEF Nothing, Raises, Result
<1>2. ASSUME NEW a \in Result
      PROVE  Join(Nothing, a) = a /\ Join(a, Nothing) = a
  <2>1. a = [ok |-> a.ok, names |-> a.names] /\ a.ok \in BOOLEAN /\ a.names \in Seq(Spelling)
    BY DEF Result
  <2>2. <<>> \o a.names = a.names /\ a.names \o <<>> = a.names
    BY <2>1
  <2>3. (TRUE /\ a.ok) = a.ok /\ (a.ok /\ TRUE) = a.ok
    BY <2>1
  <2>4. QED
    BY <2>1, <2>2, <2>3 DEF Join, Nothing
<1>3. ASSUME NEW a \in Result, NEW b \in Result
      PROVE  Join(a, b) \in Result
  <2>1. (a.ok /\ b.ok) \in BOOLEAN /\ a.names \o b.names \in Seq(Spelling)
    BY DEF Result
  <2>2. QED
    BY <2>1 DEF Join, Result
<1>4. ASSUME NEW a \in Result, NEW b \in Result, NEW c \in Result
      PROVE  Join(Join(a, b), c) = Join(a, Join(b, c))
  <2>1. /\ a.ok \in BOOLEAN /\ b.ok \in BOOLEAN /\ c.ok \in BOOLEAN
        /\ a.names \in Seq(Spelling) /\ b.names \in Seq(Spelling) /\ c.names \in Seq(Spelling)
    BY DEF Result
  <2>2. (a.names \o b.names) \o c.names = a.names \o (b.names \o c.names)
    <3>1. \A p, q, r \in Seq(Spelling) : (p \o q) \o r = p \o (q \o r)
      BY ConcatAssociative
    <3>2. QED
      BY <2>1, <3>1
  <2>3. ((a.ok /\ b.ok) /\ c.ok) = (a.ok /\ (b.ok /\ c.ok))
    BY <2>1
  <2>4. QED
    BY <2>2, <2>3 DEF Join
<1>5. QED
  BY <1>1, <1>2, <1>3, <1>4

\* What comes of a line.
LEMMA ReadsFacts ==
    ASSUME NEW inside \in Inside, NEW line \in Lexeme
    PROVE  /\ Reads(line, inside) \in Result
           /\ line = Blank => Reads(line, inside) = Nothing
           /\ line \in File => Reads(line, inside) = inside[line]
           /\ line \in Spelling =>
                Reads(line, inside) = [ok |-> TRUE, names |-> <<Safe[line]>>] /\ Safe[line] \in Spelling
<1>1. File \cap Spelling = {} /\ Blank \notin Spelling \cup File
  BY CommandLineAssumption
<1>2. CASE line = Blank
  BY <1>1, <1>2, JoinFacts DEF Reads
<1>3. CASE line \in File
  BY <1>1, <1>3 DEF Reads, Inside
<1>4. CASE line \in Spelling
  <2>1. Reads(line, inside) = [ok |-> TRUE, names |-> <<Safe[line]>>]
    BY <1>1, <1>4 DEF Reads
  <2>2. Safe[line] \in Spelling
    BY <1>4, CommandLineAssumption
  <2>3. QED
    BY <1>1, <1>4, <2>1, <2>2 DEF Result
<1>5. QED
  BY <1>2, <1>3, <1>4 DEF Lexeme

\* Lines are read one after the other.
LEMMA ThroughWalks ==
    ASSUME NEW inside \in Inside
    PROVE  /\ Through(inside) \in [Seq(Lexeme) -> Result]
           /\ Through(inside)[<<>>] = Nothing
           /\ \A q \in Seq(Lexeme) : q # <<>> =>
                Through(inside)[q] = Join(Reads(Head(q), inside), Through(inside)[Tail(q)])
<1> DEFINE of(q, rest_) == IF q = <<>> THEN Nothing ELSE Join(Reads(Head(q), inside), rest_)
           step == [x \in Seq(Lexeme) \X Result |-> of(x[1], x[2])]
           t == Through(inside)
           Is_(g) == g = [q \in Seq(Lexeme) |-> of(q, g[Tail(q)])]
<1>1. \A q \in Seq(Lexeme) : q # <<>> => Head(q) \in Lexeme /\ Tail(q) \in Seq(Lexeme)
  OBVIOUS
<1>2. ASSUME NEW q \in Seq(Lexeme), NEW r \in Result
      PROVE  of(q, r) \in Result
  BY <1>1, ReadsFacts, JoinFacts
<1>3. step \in Steps(Seq(Lexeme), Result)
  <2> HIDE DEF of
  <2>1. QED
    BY <1>2 DEF Steps
<1>4. PICK f : Walks(Lexeme, Result, Nothing, step, f)
  <2> HIDE DEF step
  <2>1. QED
    BY <1>3, JoinFacts, SequenceRecursion
<1>5. Is_(f)
  <2>1. f = [q \in Seq(Lexeme) |-> f[q]]
    BY <1>4 DEF Walks
  <2>2. ASSUME NEW q \in Seq(Lexeme)
        PROVE  f[q] = of(q, f[Tail(q)])
    <3>1. CASE q = <<>>
      BY <1>4, <3>1 DEF Walks
    <3>2. CASE q # <<>>
      <4>1. f[Tail(q)] \in Result /\ f[q] = step[<<q, f[Tail(q)]>>]
        BY <1>1, <1>4, <3>2 DEF Walks
      <4>2. QED
        <5> HIDE DEF of
        <5>1. QED
          BY <4>1
    <3>3. QED
      BY <3>1, <3>2
  <2>3. QED
    <3> HIDE DEF of
    <3>1. QED
      BY <2>1, <2>2
<1>6. t = CHOOSE g : Is_(g)
  BY DEF Through
<1>7. Is_(t)
  <2> HIDE DEF Is_, t
  <2>1. QED
    BY <1>5, <1>6
<1>8. t[<<>>] = Nothing
  <2> HIDE DEF t
  <2>1. <<>> \in Seq(Lexeme)
    OBVIOUS
  <2>2. QED
    BY <1>7, <2>1
<1>9. ASSUME NEW q \in Seq(Lexeme), q # <<>>
      PROVE  t[q] = Join(Reads(Head(q), inside), t[Tail(q)])
  <2> HIDE DEF t
  <2>1. QED
    BY <1>7, <1>9
<1> DEFINE A == {q \in Seq(Lexeme) : t[q] \in Result}
<1>10. Seq(Lexeme) \subseteq A
  <2>1. <<>> \in A
    <3> HIDE DEF t
    <3>1. QED
      BY <1>8, JoinFacts
  <2>2. ASSUME NEW q \in Seq(Lexeme), q # <<>>, Tail(q) \in A
        PROVE  q \in A
    <3>1. t[Tail(q)] \in Result /\ Reads(Head(q), inside) \in Result
      BY <1>1, <2>2, ReadsFacts
    <3>2. t[q] \in Result
      <4> HIDE DEF t
      <4>1. QED
        BY <1>9, <2>2, <3>1, JoinFacts
    <3>3. QED
      BY <3>2
  <2>3. QED
    <3> HIDE DEF A
    <3>1. QED
      BY <2>1, <2>2, SequenceInduction
<1>11. t \in [Seq(Lexeme) -> Result]
  <2> HIDE DEF t, of
  <2>1. t = [q \in Seq(Lexeme) |-> t[q]]
    BY <1>7
  <2>2. QED
    BY <1>10, <2>1
<1>12. QED
  BY <1>8, <1>9, <1>11

\* Files are included ever deeper.
LEMMA IncludedCounts ==
    /\ Included \in [Nat -> Inside]
    /\ \A n \in Nat : \A f \in File :
        /\ n = 0 \/ Lines[f] = None => Included[n][f] = Raises
        /\ n # 0 /\ Lines[f] # None => Included[n][f] = Through(Included[n - 1])[Lines[f]]
<1> DEFINE deeper(g) ==
               [f \in File |-> IF Lines[f] = None THEN Raises ELSE Through(g)[Lines[f]]]
           none == [f \in File |-> Raises]
           step == [x \in Nat \X Inside |-> deeper(x[2])]
           body(n, h) ==
               [f \in File |-> IF n = 0 \/ Lines[f] = None THEN Raises
                               ELSE Through(h[n - 1])[Lines[f]]]
           Is_(h) == h = [n \in Nat |-> body(n, h)]
<1>1. none \in Inside
  BY JoinFacts DEF Inside
<1>2. ASSUME NEW g \in Inside
      PROVE  deeper(g) \in Inside
  <2>1. \A f \in File : Lines[f] # None => Lines[f] \in Seq(Lexeme)
    BY CommandLineAssumption
  <2>2. \A q \in Seq(Lexeme) : Through(g)[q] \in Result
    BY ThroughWalks
  <2>3. QED
    BY <2>1, <2>2, JoinFacts DEF Inside
<1>3. step \in Steps(Nat, Inside)
  <2> HIDE DEF deeper
  <2>1. QED
    BY <1>2 DEF Steps
<1>4. PICK h : Counts(Inside, none, step, h)
  <2> HIDE DEF step, none
  <2>1. QED
    BY <1>1, <1>3, NumberRecursion
<1>5. ASSUME NEW n \in Nat
      PROVE  /\ body(0, h) = none
             /\ body(n + 1, h) = deeper(h[n])
  <2>1. body(0, h) = none
    OBVIOUS
  <2>2. n + 1 # 0 /\ (n + 1) - 1 = n
    OBVIOUS
  <2>3. QED
    BY <2>1, <2>2
<1>6. h \in [Nat -> Inside] /\ h[0] = body(0, h) /\ \A n \in Nat : h[n + 1] = body(n + 1, h)
  <2>1. h \in [Nat -> Inside] /\ h[0] = none /\ \A n \in Nat : h[n + 1] = step[<<n, h[n]>>]
    <3> HIDE DEF step, none
    <3>1. QED
      BY <1>4 DEF Counts
  <2>2. \A n \in Nat : h[n + 1] = deeper(h[n])
    <3> HIDE DEF deeper
    <3>1. QED
      BY <2>1
  <2>3. QED
    <3> HIDE DEF deeper, body, step, none
    <3>1. QED
      BY <1>5, <2>1, <2>2
<1>7. \A n \in Nat : n = 0 \/ \E m \in Nat : n = m + 1
  <2>1. \A n \in Nat : n = 0 \/ (n - 1 \in Nat /\ n = (n - 1) + 1)
    OBVIOUS
  <2>2. QED
    BY <2>1
<1>8. Is_(h)
  <2> HIDE DEF body
  <2>1. \A n \in Nat : h[n] = body(n, h)
    BY <1>6, <1>7
  <2>2. h = [n \in Nat |-> h[n]]
    BY <1>6
  <2>3. QED
    BY <2>1, <2>2
<1>9. Is_(Included)
  <2>1. Included = CHOOSE g : Is_(g)
    BY DEF Included
  <2>2. QED
    <3> HIDE DEF Is_
    <3>1. QED
      BY <1>8, <2>1
<1>10. ASSUME NEW n \in Nat
       PROVE  Included[n] = body(n, Included)
  <2> HIDE DEF body
  <2>1. QED
    BY <1>9
<1> DEFINE A == {n \in Nat : Included[n] \in Inside}
<1>11. Nat \subseteq A
  <2>1. 0 \in A
    BY <1>1, <1>10
  <2>2. ASSUME NEW n \in Nat, n \in A
        PROVE  n + 1 \in A
    <3>1. n + 1 \in Nat /\ n + 1 # 0 /\ (n + 1) - 1 = n
      OBVIOUS
    <3>2. body(n + 1, Included) = deeper(Included[n])
      BY <3>1
    <3>3. QED
      <4> HIDE DEF deeper, body
      <4>1. QED
        BY <1>2, <1>10, <2>2, <3>1, <3>2
  <2>3. QED
    <3> HIDE DEF A
    <3>1. QED
      BY <2>1, <2>2, NumberInduction
<1>12. Included \in [Nat -> Inside]
  <2> HIDE DEF body
  <2>1. Included = [n \in Nat |-> Included[n]]
    BY <1>9
  <2>2. QED
    BY <1>11, <2>1
<1>13. QED
  BY <1>10, <1>12

\* One file after the other, from the one that was included last.
LEMMA PendingWalks ==
    /\ Pending[<<>>] = Nothing
    /\ \A s \in Seq(Seq(Lexeme)) :
        /\ Pending[s] \in Result
        /\ s # <<>> => Pending[s] = Join(Through(Included[LeftOf(s)])[Head(s)], Pending[Tail(s)])
<1> DEFINE L == Seq(Lexeme)
           of(s, r) == IF s = <<>> THEN Nothing ELSE Join(Through(Included[LeftOf(s)])[Head(s)], r)
           step == [x \in Seq(L) \X Result |-> of(x[1], x[2])]
           Is_(g) == g = [s \in Seq(L) |-> of(s, g[Tail(s)])]
<1>1. \A s \in Seq(L) : s # <<>> => Head(s) \in L /\ Tail(s) \in Seq(L)
  OBVIOUS
<1>2. ASSUME NEW s \in Seq(L), s # <<>>
      PROVE  Through(Included[LeftOf(s)])[Head(s)] \in Result
  <2>1. LeftOf(s) \in Nat
    <3>1. Len(s) \in Nat /\ RecursionLimit \in Nat
      BY CommandLineAssumption
    <3>2. QED
      BY <3>1 DEF LeftOf
  <2>2. Included[LeftOf(s)] \in Inside
    BY <2>1, IncludedCounts
  <2>3. Through(Included[LeftOf(s)]) \in [L -> Result]
    BY <2>2, ThroughWalks
  <2>4. QED
    BY <1>1, <1>2, <2>3
<1>3. ASSUME NEW s \in Seq(L), NEW r \in Result
      PROVE  of(s, r) \in Result
  <2> HIDE DEF L
  <2>1. QED
    BY <1>2, JoinFacts
<1>4. step \in Steps(Seq(L), Result)
  <2> HIDE DEF of
  <2>1. QED
    BY <1>3 DEF Steps
<1>5. PICK f : Walks(L, Result, Nothing, step, f)
  <2> HIDE DEF step, L
  <2>1. QED
    BY <1>4, JoinFacts, SequenceRecursion
<1>6. Is_(f)
  <2> HIDE DEF L
  <2>1. f = [s \in Seq(L) |-> f[s]]
    BY <1>5 DEF Walks
  <2>2. ASSUME NEW s \in Seq(L)
        PROVE  f[s] = of(s, f[Tail(s)])
    <3>1. CASE s = <<>>
      BY <1>5, <3>1 DEF Walks
    <3>2. CASE s # <<>>
      <4>1. f[Tail(s)] \in Result /\ f[s] = step[<<s, f[Tail(s)]>>]
        BY <1>1, <1>5, <3>2 DEF Walks
      <4>2. QED
        <5> HIDE DEF of
        <5>1. QED
          BY <4>1
    <3>3. QED
      BY <3>1, <3>2
  <2>3. QED
    <3> HIDE DEF of
    <3>1. QED
      BY <2>1, <2>2
<1>7. Pending = CHOOSE g : Is_(g)
  BY DEF Pending
<1>8. Is_(Pending)
  <2> HIDE DEF Is_
  <2>1. QED
    BY <1>6, <1>7
<1>9. \A s \in Seq(L) : Pending[s] = of(s, Pending[Tail(s)])
  <2> HIDE DEF of
  <2>1. QED
    BY <1>8
<1>10. Pending[<<>>] = Nothing
  <2>1. <<>> \in Seq(L)
    OBVIOUS
  <2>2. QED
    BY <1>9, <2>1
<1> DEFINE A == {s \in Seq(L) : Pending[s] \in Result}
<1>11. Seq(L) \subseteq A
  <2>1. <<>> \in A
    BY <1>10, JoinFacts
  <2>2. ASSUME NEW s \in Seq(L), s # <<>>, Tail(s) \in A
        PROVE  s \in A
    <3>1. of(s, Pending[Tail(s)]) \in Result
      <4> HIDE DEF of, L
      <4>1. QED
        BY <1>3, <2>2
    <3>2. QED
      <4> HIDE DEF of, L
      <4>1. QED
        BY <1>9, <3>1
  <2>3. QED
    <3> HIDE DEF A, L
    <3>1. QED
      BY <2>1, <2>2, SequenceInduction
<1>12. QED
  BY <1>9, <1>10, <1>11

\* One deeper.
LEMMA OneLess ==
    ASSUME NEW r \in Nat, NEW n \in Nat, n <= r, n # 0
    PROVE  /\ r + 1 - n # 0
           /\ (IF n + 1 > r THEN 0 ELSE r + 1 - (n + 1)) = (r + 1 - n) - 1
  OBVIOUS

\* A sequence with one more on top.
LEMMA OnTop ==
    ASSUME NEW S, NEW x \in S, NEW t \in Seq(S)
    PROVE  /\ <<x>> \o t \in Seq(S) /\ Len(<<x>> \o t) = Len(t) + 1
           /\ Head(<<x>> \o t) = x /\ Tail(<<x>> \o t) = t
<1>1. /\ <<x>> \o t \in Seq(S) /\ Len(<<x>> \o t) = Len(t) + 1
      /\ Head(<<x>> \o t) = x
  OBVIOUS
<1>2. Tail(<<x>> \o t) = t
  OBVIOUS
<1>3. QED
  BY <1>1, <1>2

\* What is left after a line, the end of a file and an included one.
LEMMA PendingSteps ==
    ASSUME NEW s \in Seq(Seq(Lexeme)), s # <<>>, Len(s) <= RecursionLimit + 1
    PROVE  /\ Head(s) = <<>> => Pending[s] = Pending[Tail(s)]
           /\ Head(s) # <<>> =>
                LET line == Head(Head(s))
                    popped == <<Tail(Head(s))>> \o Tail(s)
                IN  /\ popped \in Seq(Seq(Lexeme)) /\ Len(popped) = Len(s)
                    /\ line \in Lexeme /\ Included[LeftOf(s)] \in Inside
                    /\ Pending[s] = Join(Reads(line, Included[LeftOf(s)]), Pending[popped])
           /\ \A f \in File :
                Lines[f] # None /\ Len(s) <= RecursionLimit =>
                    /\ <<Lines[f]>> \o s \in Seq(Seq(Lexeme)) /\ Len(<<Lines[f]>> \o s) = Len(s) + 1
                    /\ Pending[<<Lines[f]>> \o s] = Join(Included[LeftOf(s)][f], Pending[s])
           /\ \A f \in File :
                Lines[f] = None \/ Len(s) > RecursionLimit => Included[LeftOf(s)][f] = Raises
<1> DEFINE L == Seq(Lexeme)
           inside == Included[LeftOf(s)]
<1>1. /\ Len(s) \in Nat \ {0} /\ Head(s) \in L /\ Tail(s) \in Seq(L) /\ RecursionLimit \in Nat
      /\ Len(Tail(s)) = Len(s) - 1
  BY CommandLineAssumption
<1>2. LeftOf(s) = RecursionLimit + 1 - Len(s) /\ LeftOf(s) \in Nat
  BY <1>1 DEF LeftOf
<1>3. inside \in Inside
  BY <1>2, IncludedCounts
<1>4. Pending[s] = Join(Through(inside)[Head(s)], Pending[Tail(s)]) /\ Pending[Tail(s)] \in Result
  BY <1>1, PendingWalks
<1>5. ASSUME Head(s) = <<>>
      PROVE  Pending[s] = Pending[Tail(s)]
  <2>1. Through(inside)[Head(s)] = Nothing
    <3> HIDE DEF inside
    <3>1. QED
      BY <1>3, <1>5, ThroughWalks
  <2>2. QED
    <3> HIDE DEF inside
    <3>1. QED
      BY <1>4, <2>1, JoinFacts
<1>6. ASSUME Head(s) # <<>>
      PROVE  LET line == Head(Head(s))
                 popped == <<Tail(Head(s))>> \o Tail(s)
             IN  /\ popped \in Seq(Seq(Lexeme)) /\ Len(popped) = Len(s)
                 /\ line \in Lexeme /\ Included[LeftOf(s)] \in Inside
                 /\ Pending[s] = Join(Reads(line, Included[LeftOf(s)]), Pending[popped])
  <2> DEFINE line == Head(Head(s))
             popped == <<Tail(Head(s))>> \o Tail(s)
  <2>1. line \in Lexeme /\ Tail(Head(s)) \in L
    BY <1>1, <1>6
  <2>2. popped \in Seq(L) /\ Len(popped) = Len(s) /\ Head(popped) = Tail(Head(s)) /\ Tail(popped) = Tail(s)
    <3>1. Tail(s) \in Seq(L) /\ Len(Tail(s)) + 1 = Len(s)
      BY <1>1
    <3> HIDE DEF L
    <3>2. /\ popped \in Seq(L) /\ Len(popped) = Len(Tail(s)) + 1
          /\ Head(popped) = Tail(Head(s)) /\ Tail(popped) = Tail(s)
      BY <2>1, <3>1, OnTop, Zenon
    <3>3. QED
      BY <3>1, <3>2
  <2>3. LeftOf(popped) = LeftOf(s)
    BY <2>2 DEF LeftOf
  <2>4. popped # <<>>
    <3> HIDE DEF popped
    <3>1. QED
      BY <1>1, <2>2
  <2>5. Pending[popped] = Join(Through(inside)[Tail(Head(s))], Pending[Tail(s)])
    <3> HIDE DEF popped
    <3>1. QED
      BY <2>2, <2>3, <2>4, PendingWalks
  <2>6. /\ Through(inside)[Head(s)] = Join(Reads(line, inside), Through(inside)[Tail(Head(s))])
        /\ Through(inside)[Tail(Head(s))] \in Result
    <3> HIDE DEF inside
    <3>1. QED
      BY <1>1, <1>3, <1>6, <2>1, ThroughWalks
  <2>7. Reads(line, inside) \in Result
    <3> HIDE DEF inside, line
    <3>1. QED
      BY <1>3, <2>1, ReadsFacts
  <2>8. Pending[s] = Join(Reads(line, inside), Pending[popped])
    <3> HIDE DEF inside, line, popped
    <3>1. \A a, b, c \in Result : Join(Join(a, b), c) = Join(a, Join(b, c))
      BY JoinFacts
    <3>2. Join(Join(Reads(line, inside), Through(inside)[Tail(Head(s))]), Pending[Tail(s)])
              = Join(Reads(line, inside), Join(Through(inside)[Tail(Head(s))], Pending[Tail(s)]))
      BY <1>4, <2>6, <2>7, <3>1
    <3>3. QED
      BY <1>4, <2>5, <2>6, <3>2
  <2>9. QED
    BY <1>3, <2>1, <2>2, <2>8
<1>7. ASSUME NEW f \in File, Lines[f] # None, Len(s) <= RecursionLimit
      PROVE  /\ <<Lines[f]>> \o s \in Seq(Seq(Lexeme)) /\ Len(<<Lines[f]>> \o s) = Len(s) + 1
             /\ Pending[<<Lines[f]>> \o s] = Join(Included[LeftOf(s)][f], Pending[s])
  <2> DEFINE deeper == <<Lines[f]>> \o s
  <2>1. Lines[f] \in L
    BY <1>7, CommandLineAssumption
  <2>2. deeper \in Seq(L) /\ Len(deeper) = Len(s) + 1 /\ Head(deeper) = Lines[f] /\ Tail(deeper) = s
    <3>1. s \in Seq(L)
      OBVIOUS
    <3> HIDE DEF L
    <3>2. QED
      BY <2>1, <3>1, OnTop, Zenon
  <2>3. LeftOf(deeper) = LeftOf(s) - 1 /\ LeftOf(s) # 0
    <3>1. Len(s) \in Nat /\ Len(s) # 0 /\ RecursionLimit \in Nat
      BY <1>1
    <3>2. /\ RecursionLimit + 1 - Len(s) # 0
          /\ (IF Len(s) + 1 > RecursionLimit THEN 0 ELSE RecursionLimit + 1 - (Len(s) + 1))
                = (RecursionLimit + 1 - Len(s)) - 1
      <4> HIDE DEF deeper, inside, L
      <4>1. QED
        BY <1>7, <3>1, OneLess, Zenon
    <3>3. LeftOf(deeper) = IF Len(s) + 1 > RecursionLimit THEN 0 ELSE RecursionLimit + 1 - (Len(s) + 1)
      <4> HIDE DEF deeper, inside, L
      <4>1. QED
        BY <2>2, Zenon DEF LeftOf
    <3>4. LeftOf(s) = RecursionLimit + 1 - Len(s)
      BY <1>2
    <3>5. LeftOf(s) # 0
      BY <3>2, <3>4, Zenon
    <3>6. LeftOf(deeper) = LeftOf(s) - 1
      <4> HIDE DEF deeper, inside, L
      <4>1. LeftOf(s) - 1 = (RecursionLimit + 1 - Len(s)) - 1
        BY <3>4, Zenon
      <4>2. LeftOf(deeper) = (RecursionLimit + 1 - Len(s)) - 1
        BY <3>2, <3>3, Zenon
      <4>3. QED
        BY <4>1, <4>2, Zenon
    <3>7. QED
      BY <3>5, <3>6
  <2>4. deeper # <<>>
    <3> HIDE DEF deeper
    <3>1. QED
      BY <1>1, <2>2
  <2>5. Pending[deeper] = Join(Through(Included[LeftOf(s) - 1])[Lines[f]], Pending[s])
    <3> HIDE DEF deeper
    <3>1. QED
      BY <2>2, <2>3, <2>4, PendingWalks
  <2>6. Included[LeftOf(s)][f] = Through(Included[LeftOf(s) - 1])[Lines[f]]
    BY <1>2, <1>7, <2>3, IncludedCounts
  <2>7. QED
    BY <2>2, <2>5, <2>6
<1>8. ASSUME NEW f \in File, Lines[f] = None \/ Len(s) > RecursionLimit
      PROVE  Included[LeftOf(s)][f] = Raises
  <2>1. Lines[f] = None \/ LeftOf(s) = 0
    BY <1>8 DEF LeftOf
  <2>2. QED
    BY <1>2, <2>1, IncludedCounts
<1>9. QED
  BY <1>5, <1>6, <1>7, <1>8

\* A command starts with its arguments read and its files to be read.
LEMMA RunReads ==
    ASSUME Control, ReadThere, NEW c \in Command, Run(c)
    PROVE  ReadThere'
<1>1. cmd' = c
  BY DEF Run
<1>2. CASE Missing(c) \/ c.command = "freeze"
  <2>1. exit' = 2 \/ Is("freeze")'
    BY <1>1, <1>2, CommandFacts DEF Run, Exit, Is
  <2>2. pc' # "read"
    BY <1>2 DEF Run, Exit, Goto
  <2>3. QED
    BY <2>1, <2>2 DEF ReadThere, ReadsAll
<1>3. CASE ~Missing(c) /\ c.command # "freeze"
  <2>1. /\ pc' = "read" /\ stack' = <<c.requirements>>
        /\ packages' = [i \in DOMAIN c.args |-> Safe[c.args[i]]]
    BY <1>3 DEF Run, Goto
  <2>2. c.args \in Seq(Spelling) /\ c.requirements \in Seq(Lexeme)
    BY <1>3, CommandFacts DEF Lexeme
  <2>3. packages' \in Seq(Spelling)
    <3>1. \A i \in DOMAIN c.args : Safe[c.args[i]] \in Spelling
      BY <2>2, CommandLineAssumption
    <3>2. DOMAIN c.args = 1 .. Len(c.args) /\ Len(c.args) \in Nat
      BY <2>2
    <3>3. packages' \in [1 .. Len(c.args) -> Spelling]
      BY <2>1, <3>1, <3>2
    <3>4. QED
      BY <3>2, <3>3
  <2>4. /\ stack' \in Seq(Seq(Lexeme)) /\ Len(stack') = 1 /\ stack' # <<>>
        /\ Head(stack') = c.requirements /\ Tail(stack') = <<>>
    BY <2>1, <2>2
  <2>5. RecursionLimit \in Nat /\ RecursionLimit >= 1
    BY CommandLineAssumption
  <2>6. LeftOf(stack') = RecursionLimit
    BY <2>4, <2>5 DEF LeftOf
  <2>7. Through(Included[RecursionLimit])[c.requirements] \in Result
    <3>1. Included[RecursionLimit] \in Inside
      BY <2>5, IncludedCounts
    <3>2. QED
      BY <2>2, <3>1, ThroughWalks
  <2>8. Pending[stack'] = Through(Included[RecursionLimit])[c.requirements]
    BY <2>4, <2>6, <2>7, PendingWalks, JoinFacts
  <2>9. SoFar' = Arguments'
    BY <1>1, <2>1 DEF SoFar, Arguments
  <2>10. Join(SoFar', Pending[stack']) = Reading'
    BY <1>1, <2>8, <2>9 DEF Reading, Join
  <2>11. ReadsAll'
    BY <2>1 DEF ReadsAll, At
  <2>12. Len(stack') <= RecursionLimit + 1
    BY <2>4, <2>5
  <2>13. QED
    BY <2>3, <2>4, <2>10, <2>11, <2>12 DEF ReadThere, SoFar
<1>4. QED
  BY <1>2, <1>3

\* A step of reading takes a line from what is left to what was read.
LEMMA ReadStep ==
    ASSUME Control, ReadThere, get_packages_from_args
    PROVE  ReadThere'
<1>1. pc = "read" /\ stack # <<>> /\ cmd' = cmd
  BY DEF get_packages_from_args, At
<1>2. /\ packages \in Seq(Spelling) /\ Len(stack) <= RecursionLimit + 1
      /\ Join(SoFar, Pending[stack]) = Reading /\ stack \in Seq(Seq(Lexeme))
  BY <1>1 DEF ReadThere, Control
<1>3. SoFar \in Result
  BY <1>2 DEF SoFar, Result
<1>4. Reading' = Reading /\ UninstallFile' = UninstallFile
  BY <1>1 DEF Reading, Arguments, UninstallFile, Is
<1>5. RecursionLimit \in Nat /\ Len(stack) \in Nat /\ Len(Tail(stack)) = Len(stack) - 1
      /\ Tail(stack) \in Seq(Seq(Lexeme))
  BY <1>1, <1>2, CommandLineAssumption
<1> DEFINE inside == Included[LeftOf(stack)]
<1>6. CASE UninstallFile
  <2>1. pc' = "prompt" /\ crash' = "file"
    BY <1>6 DEF get_packages_from_args, Raise, Exit, Goto
  <2>2. QED
    BY <1>4, <1>6, <2>1 DEF ReadThere, ReadsAll
<1>7. CASE ~UninstallFile /\ EndOfFile
  <2>1. Head(stack) = <<>> /\ stack' = Tail(stack) /\ UNCHANGED <<pc, packages>>
    BY <1>7 DEF EndOfFile
  <2>2. Pending[stack'] = Pending[stack]
    BY <1>1, <1>2, <2>1, PendingSteps
  <2>3. Len(stack') <= RecursionLimit + 1
    BY <1>2, <1>5, <2>1
  <2>4. SoFar' = SoFar
    BY <2>1 DEF SoFar
  <2>5. QED
    BY <1>1, <1>2, <1>4, <1>7, <2>1, <2>2, <2>3, <2>4 DEF ReadThere, ReadsAll, At
<1>8. ASSUME Head(stack) # <<>>
      PROVE  /\ PopLine \in Seq(Seq(Lexeme)) /\ Len(PopLine) = Len(stack) /\ Line \in Lexeme
             /\ inside \in Inside /\ Reads(Line, inside) \in Result /\ Pending[PopLine] \in Result
             /\ Pending[stack] = Join(Reads(Line, inside), Pending[PopLine])
  <2>1. /\ PopLine \in Seq(Seq(Lexeme)) /\ Len(PopLine) = Len(stack) /\ Line \in Lexeme
        /\ inside \in Inside
        /\ Pending[stack] = Join(Reads(Line, inside), Pending[PopLine])
    BY <1>1, <1>2, <1>8, PendingSteps DEF PopLine, Line
  <2>2. QED
    BY <2>1, ReadsFacts, PendingWalks
<1>9. CASE ~UninstallFile /\ SkipLine
  <2>1. Head(stack) # <<>> /\ Line = Blank /\ stack' = PopLine /\ UNCHANGED <<pc, packages>>
    BY <1>9 DEF SkipLine
  <2>2. Reads(Line, inside) = Nothing
    <3> HIDE DEF inside
    <3>1. QED
      BY <1>8, <2>1, ReadsFacts
  <2>3. Pending[stack'] = Pending[stack]
    <3> HIDE DEF inside
    <3>1. QED
      BY <1>8, <2>1, <2>2, JoinFacts
  <2>4. SoFar' = SoFar
    BY <2>1 DEF SoFar
  <2>5. QED
    BY <1>1, <1>2, <1>4, <1>9, <1>8, <2>1, <2>3, <2>4 DEF ReadThere, ReadsAll, At
<1>10. CASE ~UninstallFile /\ Package
  <2>1. /\ Head(stack) # <<>> /\ Line \in Spelling /\ stack' = PopLine /\ pc' = pc
        /\ packages' = Append(packages, Safe[Line])
    BY <1>10 DEF Package
  <2>2. Reads(Line, inside) = [ok |-> TRUE, names |-> <<Safe[Line]>>] /\ Safe[Line] \in Spelling
    <3> HIDE DEF inside
    <3>1. QED
      BY <1>8, <2>1, ReadsFacts
  <2>3. packages' \in Seq(Spelling) /\ packages' = packages \o <<Safe[Line]>>
    BY <1>2, <2>1, <2>2
  <2>4. SoFar' = Join(SoFar, Reads(Line, inside))
    <3> HIDE DEF inside
    <3>1. SoFar.ok = TRUE /\ SoFar.names = packages
      BY DEF SoFar
    <3>2. Reads(Line, inside).ok = TRUE /\ Reads(Line, inside).names = <<Safe[Line]>>
      BY <2>2
    <3>3. Join(SoFar, Reads(Line, inside)) = [ok |-> TRUE, names |-> packages \o <<Safe[Line]>>]
      BY <3>1, <3>2 DEF Join
    <3>4. QED
      BY <2>3, <3>3 DEF SoFar
  <2>5. Join(SoFar', Pending[stack']) = Join(SoFar, Pending[stack])
    <3> HIDE DEF inside
    <3>1. \A a, b, c \in Result : Join(Join(a, b), c) = Join(a, Join(b, c))
      BY JoinFacts
    <3>2. Join(Join(SoFar, Reads(Line, inside)), Pending[PopLine])
              = Join(SoFar, Join(Reads(Line, inside), Pending[PopLine]))
      BY <1>3, <1>8, <2>1, <3>1
    <3>3. QED
      BY <1>8, <2>1, <2>4, <3>2
  <2>6. QED
    BY <1>1, <1>2, <1>4, <1>10, <1>8, <2>1, <2>3, <2>5 DEF ReadThere, ReadsAll, At
<1>11. CASE ~UninstallFile /\ Include
  <2>1. Head(stack) # <<>> /\ Line \in File
    BY <1>11 DEF Include
  <2>2. Reads(Line, inside) = inside[Line]
    <3> HIDE DEF inside
    <3>1. QED
      BY <1>8, <2>1, ReadsFacts
  <2>3. CASE Lines[Line] = None \/ Len(stack) > RecursionLimit
    <3>1. pc' = "prompt" /\ crash' = "include"
      BY <1>11, <2>3 DEF Include, Raise, Exit, Goto
    <3>2. inside[Line] = Raises
      BY <1>1, <1>2, <2>1, <2>3, PendingSteps
    <3>3. ~Reading.ok
      <4>1. Reading = Join(SoFar, Join(Raises, Pending[PopLine]))
        BY <1>2, <1>8, <2>1, <2>2, <3>2
      <4>2. QED
        BY <4>1 DEF Join, Raises
    <3>4. QED
      BY <1>4, <1>11, <3>1, <3>3 DEF ReadThere, ReadsAll
  <2>4. CASE ~(Lines[Line] = None \/ Len(stack) > RecursionLimit)
    <3>1. stack' = <<Lines[Line]>> \o PopLine /\ UNCHANGED <<pc, packages>>
      BY <1>11, <2>4 DEF Include
    <3>2. Lines[Line] # None /\ Len(PopLine) <= RecursionLimit
      BY <1>5, <1>8, <2>1, <2>4
    <3>3. LeftOf(PopLine) = LeftOf(stack)
      BY <1>8, <2>1 DEF LeftOf
    <3>4. PopLine # <<>> /\ Len(PopLine) <= RecursionLimit + 1
      BY <1>1, <1>2, <1>5, <1>8, <2>1
    <3>5. /\ Len(stack') = Len(PopLine) + 1
          /\ Pending[stack'] = Join(inside[Line], Pending[PopLine])
      <4> HIDE DEF inside
      <4>1. /\ Len(<<Lines[Line]>> \o PopLine) = Len(PopLine) + 1
            /\ Pending[<<Lines[Line]>> \o PopLine] = Join(Included[LeftOf(PopLine)][Line], Pending[PopLine])
        BY <1>8, <2>1, <3>2, <3>4, PendingSteps
      <4>2. QED
        BY <3>1, <3>3, <4>1 DEF inside
    <3>6. Pending[stack'] = Pending[stack]
      <4> HIDE DEF inside
      <4>1. QED
        BY <1>8, <2>1, <2>2, <3>5
    <3>7. Len(stack') <= RecursionLimit + 1
      BY <1>5, <1>8, <2>1, <3>2, <3>5
    <3>8. SoFar' = SoFar
      BY <3>1 DEF SoFar
    <3>9. QED
      BY <1>1, <1>2, <1>4, <1>11, <3>1, <3>6, <3>7, <3>8 DEF ReadThere, ReadsAll, At
  <2>5. QED
    BY <2>3, <2>4
<1>12. QED
  BY <1>6, <1>7, <1>9, <1>10, <1>11 DEF get_packages_from_args, expand_requirements

\* Nothing else changes what was read, and it goes on once all is read.
LEMMA ReadElse ==
    ASSUME Control, ReadThere, Step \/ KeyboardInterrupt, ~get_packages_from_args
    PROVE  ReadThere'
<1>1. cmd' = cmd /\ pc # "prompt" /\ pc' # "read"
  BY DEF Step, Progress, ZeroDivision, Retrieve, Installer, InstallerFails, handle_install_exit,
     request_uninstall, NotInstalled, uninstall, RemoveFiles, UnlinkFails, UninstallEnds,
     Harvest, FreezeEnds, KeyboardInterrupt, Ready, At, Is, program, Raise, Exit, Goto
<1>2. crash = None /\ cmd # None
  BY <1>1 DEF Control
<1>3. CASE Is("freeze")
  BY <1>1, <1>3 DEF ReadThere, ReadsAll, Is
<1>4. CASE crash' = "interrupt"
  BY <1>1, <1>4 DEF ReadThere, ReadsAll
<1>5. CASE ~Is("freeze") /\ crash' # "interrupt"
  <2>1. packages' = packages /\ crash' \notin {"include", "file"}
    BY <1>2, <1>5, CommandLineAssumption
    DEF Step, Progress, ZeroDivision, Retrieve, Installer, InstallerFails, handle_install_exit,
     request_uninstall, NotInstalled, uninstall, RemoveFiles, UnlinkFails, UninstallEnds,
     Harvest, FreezeEnds, KeyboardInterrupt, Ready, At, Is, program, Raise, Exit, Goto, Control, Failure
  <2>2. ~UninstallFile /\ Reading.ok /\ Reading.names = packages
    <3>1. CASE pc = "read"
      <4>1. stack = <<>>
        BY <1>5, <3>1
        DEF Step, Progress, ZeroDivision, Retrieve, Installer, InstallerFails, handle_install_exit,
          request_uninstall, NotInstalled, uninstall, RemoveFiles, UnlinkFails, UninstallEnds,
          Harvest, FreezeEnds, KeyboardInterrupt, Ready, At, Raise, Exit, Goto
      <4>2. packages \in Seq(Spelling) /\ Join(SoFar, Nothing) = Reading
        BY <3>1, <4>1, PendingWalks DEF ReadThere
      <4>3. SoFar \in Result
        BY <4>2 DEF SoFar, Result
      <4>4. Reading = SoFar
        BY <4>2, <4>3, JoinFacts
      <4>5. ~UninstallFile
        BY <3>1, <4>1 DEF ReadThere
      <4>6. QED
        BY <4>4, <4>5 DEF SoFar
    <3>2. CASE pc # "read"
      BY <1>1, <1>2, <1>5, <3>2, CommandLineAssumption
      DEF ReadThere, ReadsAll, At, Control, Failure
    <3>3. QED
      BY <3>1, <3>2
  <2>3. Reading' = Reading /\ UninstallFile' = UninstallFile
    BY <1>1 DEF Reading, Arguments, UninstallFile, Is
  <2>4. QED
    BY <1>1, <2>1, <2>2, <2>3 DEF ReadThere, ReadsAll
<1>6. QED
  BY <1>3, <1>4, <1>5

(***************************************************************************)
(* ReadsAll: however many files include each other, and however deep, a    *)
(* command works on the packages of its arguments and then of its files,   *)
(* each where it is included; only an included file that is not there,     *)
(* includes that go deeper than the limit, or a file given to uninstall    *)
(* make it raise.                                                          *)
(***************************************************************************)
THEOREM AllIsRead == Spec => []ReadsAll
<1>1. Init => ReadThere
  BY DEF Init, ReadThere, ReadsAll
<1>2. Control /\ ReadThere /\ [Next]_vars => ReadThere'
  <2> SUFFICES ASSUME Control, ReadThere, [Next]_vars PROVE ReadThere'
    OBVIOUS
  <2>1. CASE UNCHANGED vars
    BY <2>1 DEF vars, program, ReadThere, ReadsAll, Reading, Arguments, SoFar, UninstallFile, Is, At
  <2>2. QED
    BY <2>1, RunReads, ReadStep, ReadElse DEF Next
<1>3. ReadThere => ReadsAll
  BY DEF ReadThere
<1>4. QED
  BY <1>1, <1>2, <1>3, Controlled, PTL DEF Spec
=============================================================================
