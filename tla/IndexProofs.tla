----------------------------- MODULE IndexProofs -----------------------------
(***************************************************************************)
(* Index for every set of names, threads and interruptions: what keeps the *)
(* files and the table of them together, though no lock does.              *)
(***************************************************************************)
EXTENDS Index, FiniteSetTheorems, TLAPS

\* Files a thread has opened for writing and not put in the table yet
Held == {job[w] : w \in {v \in Writer : pc[v] # "idle"}}

Jobs == job \in [Thread -> Name \cup Query \cup {None}]

\* A file that is not whole is being written, or its writer was interrupted
PartsExplained == \A n \in Name : disk[n] = "part" => n \in BeingWritten \cup cut

\* Nothing in the table, in a writer's hand or in a reader's is off the disk
Backed == \A n \in Opening \cup Indexed \cup Held : n \in Name /\ disk[n] # "none"

Inv == TypeOK /\ Jobs /\ PartsExplained /\ Backed /\ NoneForgotten

-----------------------------------------------------------------------------
\* scan lists each file of a set, and only those.
LEMMA ListsAll ==
    ASSUME NEW S, IsFiniteSet(S), NEW s \in SetToSeqs(S)
    PROVE  s \in Seq(S) /\ ToSet(s) = S
<1>1. /\ Cardinality(S) \in Nat
      /\ s \in [1 .. Cardinality(S) -> S]
      /\ \A i, j \in 1 .. Cardinality(S) : i # j => s[i] # s[j]
  BY FS_CardinalityType DEF SetToSeqs
<1>2. s \in Injection(1 .. Cardinality(S), S)
  BY <1>1 DEF Injection, IsInjective
<1>3. IsFiniteSet(1 .. Cardinality(S)) /\ Cardinality(1 .. Cardinality(S)) = Cardinality(S)
  BY <1>1, FS_Interval
<1>4. s \in Surjection(1 .. Cardinality(S), S)
  BY <1>2, <1>3, FS_Injection
<1>5. ToSet(s) = S
  BY <1>1, <1>4 DEF ToSet, Surjection
<1>6. QED
  BY <1>1, <1>5

\* The table that scan builds: every named file of the directory, and no other.
LEMMA ScanLists ==
    ASSUME TypeOK, NEW table \in Scanned
    PROVE  /\ table \in [Key -> Seq(Name)]
           /\ UNION {ToSet(table[k]) : k \in Key} = {n \in OnDisk : KeyOf[n] \in Key}
<1>1. ASSUME NEW k \in Key
      PROVE  table[k] \in Seq(Name) /\ ToSet(table[k]) = FilesOf(k) \cap OnDisk
  <2>1. table[k] \in SetToSeqs(FilesOf(k) \cap OnDisk)
    BY DEF Scanned
  <2>2. FilesOf(k) \cap OnDisk \subseteq Name
    BY DEF OnDisk
  <2>3. IsFiniteSet(FilesOf(k) \cap OnDisk)
    BY <2>2, IndexAssumption, FS_Subset
  <2>4. table[k] \in Seq(FilesOf(k) \cap OnDisk) /\ ToSet(table[k]) = FilesOf(k) \cap OnDisk
    BY <2>1, <2>3, ListsAll
  <2>5. QED
    BY <2>2, <2>4
<1>2. table \in [Key -> Seq(Name)]
  <2>1. table = [k \in Key |-> table[k]]
    BY DEF Scanned
  <2>2. QED
    BY <1>1, <2>1
<1>3. UNION {ToSet(table[k]) : k \in Key} = {n \in OnDisk : KeyOf[n] \in Key}
  BY <1>1 DEF FilesOf, OnDisk
<1>4. QED
  BY <1>2, <1>3

\* What get answers is in the table.
LEMMA FoundIndexed ==
    ASSUME TypeOK, NEW q \in Query, NEW n \in Found(q)
    PROVE  n \in Indexed
<1>1. PICK v \in Compatible(q) :
          \E i \in Suitable(storage[<<q.pkg, v>>], q.fmt) : storage[<<q.pkg, v>>][i] = n
  BY DEF Found
<1>2. q.pkg \in Package /\ v \in Version
  BY IndexAssumption DEF Compatible, VersionsOf
<1>3. <<q.pkg, v>> \in Key
  BY <1>2 DEF Key
<1>4. Suitable(storage[<<q.pkg, v>>], q.fmt) \subseteq DOMAIN storage[<<q.pkg, v>>]
  BY DEF Suitable
<1>5. n \in ToSet(storage[<<q.pkg, v>>])
  BY <1>1, <1>4 DEF ToSet
<1>6. QED
  BY <1>3, <1>5 DEF Indexed

\* A file joins the table, and nothing leaves it.
LEMMA IndexGrows ==
    ASSUME TypeOK, NEW n \in Name, NEW k \in Key,
           storage' = [storage EXCEPT ![k] = Added(@, n)]
    PROVE  /\ storage' \in [Key -> Seq(Name)]
           /\ Indexed' = Indexed \cup {n}
<1>1. storage \in [Key -> Seq(Name)]
  BY DEF TypeOK
<1>2. storage'[k] = Append(storage[k], n) /\ \A l \in Key \ {k} : storage'[l] = storage[l]
  BY <1>1 DEF Added
<1>3. ToSet(Append(storage[k], n)) = ToSet(storage[k]) \cup {n}
  <2>1. storage[k] \in Seq(Name)
    BY <1>1
  <2> DEFINE s == storage[k]
  <2>2. /\ Len(s) \in Nat /\ DOMAIN s = 1 .. Len(s)
        /\ DOMAIN Append(s, n) = 1 .. Len(s) + 1
        /\ \A i \in 1 .. Len(s) : Append(s, n)[i] = s[i]
        /\ Append(s, n)[Len(s) + 1] = n
    BY <2>1
  <2> HIDE DEF s
  <2>3. 1 .. Len(s) + 1 = 1 .. Len(s) \cup {Len(s) + 1}
    BY <2>2
  <2>4. ToSet(Append(s, n)) = ToSet(s) \cup {n}
    BY <2>2, <2>3 DEF ToSet
  <2>5. QED
    BY <2>4 DEF s
<1>4. storage' \in [Key -> Seq(Name)]
  BY <1>1 DEF Added
<1>5. Indexed' = Indexed \cup {n}
  BY <1>2, <1>3 DEF Indexed
<1>6. QED
  BY <1>4, <1>5

-----------------------------------------------------------------------------
LEMMA InitInv == Init => Inv
<1> SUFFICES ASSUME Init PROVE Inv
  OBVIOUS
<1>1. TypeOK
  <2>1. 0 \in 0 .. MaxRestarts
    <3>1. MaxRestarts \in Nat
      BY IndexAssumption
    <3>2. QED
      BY <3>1
  <2>2. storage \in [Key -> Seq(Name)]
    BY DEF Init
  <2>3. \A t \in Thread : pc[t] = "idle"
    BY DEF Init
  <2>4. QED
    BY <2>1, <2>2, <2>3 DEF Init, TypeOK, Thread
<1>2. Jobs
  BY DEF Init, Jobs
<1>3. PartsExplained
  BY DEF Init, PartsExplained
<1>4. Opening = {} /\ Held = {}
  BY DEF Init, Opening, Held, Thread
<1>5. Indexed = {}
  BY DEF Init, Indexed, ToSet
<1>6. Backed
  BY <1>4, <1>5 DEF Backed
<1>7. NoneForgotten
  BY DEF Init, NoneForgotten
<1>8. QED
  BY <1>1, <1>2, <1>3, <1>6, <1>7 DEF Inv

LEMMA ScanInv ==
    ASSUME Inv, Scan
    PROVE  Inv'
<1> USE DEF Inv
<1>1. TypeOK'
  <2>1. storage' \in [Key -> Seq(Name)]
    BY ScanLists DEF Scan, TypeOK
  <2>2. QED
    BY <2>1 DEF Scan, TypeOK
<1>2. Jobs' /\ PartsExplained'
  BY DEF Scan, Jobs, PartsExplained, BeingWritten
<1>3. Held' = Held /\ Opening' = Opening
  BY DEF Scan, Held, Opening
<1>4. CASE Unnamed # {}
  <2>1. Indexed' = Indexed
    BY <1>4 DEF Scan, Indexed
  <2>2. QED
    BY <1>1, <1>2, <1>3, <1>4, <2>1 DEF Scan, Backed, NoneForgotten
<1>5. CASE Unnamed = {}
  <2>1. Indexed' = {n \in OnDisk : KeyOf[n] \in Key}
    BY <1>5, ScanLists DEF Scan, Indexed
  <2>2. Backed'
    BY <1>3, <2>1 DEF Scan, Backed, OnDisk
  <2>3. NoneForgotten'
    BY <2>1, IndexAssumption DEF Scan, NoneForgotten, OnDisk
  <2>4. QED
    BY <1>1, <1>2, <2>2, <2>3
<1>6. QED
  BY <1>4, <1>5

LEMMA InterruptInv ==
    ASSUME Inv, Interrupt
    PROVE  Inv'
<1> USE DEF Inv
<1>1. \A t \in Thread : pc'[t] = "idle"
  BY DEF Interrupt, Die
<1>2. TypeOK'
  <2>1. BeingWritten \subseteq Name
    BY DEF BeingWritten, TypeOK
  <2>2. storage' \in [Key -> Seq(Name)]
    BY DEF Interrupt
  <2>3. restarts' \in 0 .. MaxRestarts
    <3>1. restarts \in 0 .. MaxRestarts /\ restarts < MaxRestarts /\ restarts' = restarts + 1
      BY DEF Interrupt, TypeOK
    <3>2. MaxRestarts \in Nat
      BY IndexAssumption
    <3>3. QED
      BY <3>1, <3>2
  <2>4. QED
    BY <2>1, <2>2, <2>3 DEF Interrupt, Die, TypeOK, Thread
<1>3. Jobs'
  BY DEF Interrupt, Jobs
<1>4. PartsExplained'
  BY DEF Interrupt, PartsExplained
<1>5. Held' = {} /\ Opening' = {}
  BY <1>1 DEF Held, Opening, Thread
<1>6. Indexed' = {}
  BY DEF Interrupt, Indexed, ToSet
<1>7. Backed' /\ NoneForgotten'
  BY <1>5, <1>6 DEF Backed, NoneForgotten, Interrupt
<1>8. QED
  BY <1>2, <1>3, <1>4, <1>7

LEMMA CreateInv ==
    ASSUME Inv, NEW w \in Writer, NEW n \in Name, Create(w, n)
    PROVE  Inv'
<1> USE DEF Inv
<1>1. /\ pc[w] = "idle" /\ pc' = [pc EXCEPT ![w] = "write"]
      /\ job' = [job EXCEPT ![w] = n] /\ disk' = [disk EXCEPT ![n] = "part"]
      /\ UNCHANGED <<storage, proc, mark, restarts, cut, failed>>
  BY DEF Create, At
<1>2. w \in Thread /\ w \notin Reader
  BY IndexAssumption DEF Thread
<1>3. TypeOK'
  BY <1>1, <1>2 DEF TypeOK, Jobs
<1>4. Jobs'
  BY <1>1 DEF Jobs
<1>5. Held' = Held \cup {n} /\ BeingWritten' = BeingWritten \cup {n}
  BY <1>1, <1>2 DEF Held, BeingWritten, TypeOK, Jobs, Thread
<1>6. Opening' = Opening /\ Indexed' = Indexed
  BY <1>1, <1>2 DEF Opening, Indexed, TypeOK, Jobs, Thread
<1>7. PartsExplained'
  BY <1>1, <1>5 DEF PartsExplained, TypeOK
<1>8. Backed'
  BY <1>1, <1>5, <1>6 DEF Backed, TypeOK
<1>9. NoneForgotten'
  <2> SUFFICES ASSUME proc = "up", NEW m \in Name, disk'[m] = "whole", KeyOf[m] # None,
                      m \notin Indexed
               PROVE  \E v \in Writer : pc'[v] \in {"write", "index"} /\ job'[v] = m
    BY <1>1, <1>6 DEF NoneForgotten
  <2>1. m # n /\ disk[m] = "whole"
    BY <1>1 DEF TypeOK
  <2>2. PICK v \in Writer : pc[v] \in {"write", "index"} /\ job[v] = m
    BY <2>1 DEF NoneForgotten
  <2>3. v # w
    BY <1>1, <2>2
  <2>4. QED
    BY <1>1, <2>2, <2>3 DEF TypeOK, Jobs
<1>10. QED
  BY <1>3, <1>4, <1>7, <1>8, <1>9

LEMMA WriteInv ==
    ASSUME Inv, NEW w \in Writer, Write(w)
    PROVE  Inv'
<1> USE DEF Inv
<1>1. PICK state \in {"part", "whole"} :
        /\ state = "part" => \E v \in Writer \ {w} : pc[v] = "write" /\ job[v] = job[w]
        /\ disk' = [disk EXCEPT ![job[w]] = state]
        /\ cut' = IF state = "whole" THEN cut \ {job[w]} ELSE cut
  BY DEF Write
<1>2. /\ pc[w] = "write" /\ pc' = [pc EXCEPT ![w] = "index"]
      /\ UNCHANGED <<storage, proc, job, mark, restarts, failed>>
  BY DEF Write, At
<1>3. w \in Thread /\ w \notin Reader /\ job[w] \in Name
  BY <1>2, IndexAssumption DEF Thread, TypeOK
<1>4. TypeOK' /\ Jobs'
  BY <1>1, <1>2, <1>3 DEF TypeOK, Jobs
<1>5. Held' = Held /\ Opening' = Opening /\ Indexed' = Indexed
  BY <1>2, <1>3 DEF Held, Opening, Indexed, TypeOK, Thread
<1>6. \A n \in BeingWritten : n # job[w] => n \in BeingWritten'
  BY <1>2, <1>3 DEF BeingWritten, TypeOK, Thread
<1>7. state = "part" => job[w] \in BeingWritten'
  BY <1>1, <1>2, <1>3 DEF BeingWritten, TypeOK, Thread
<1>8. PartsExplained'
  BY <1>1, <1>3, <1>6, <1>7 DEF PartsExplained, TypeOK
<1>9. Backed'
  BY <1>1, <1>3, <1>5 DEF Backed, TypeOK
<1>10. NoneForgotten'
  <2> SUFFICES ASSUME proc = "up", NEW m \in Name, disk'[m] = "whole", KeyOf[m] # None,
                      m \notin Indexed
               PROVE  \E v \in Writer : pc'[v] \in {"write", "index"} /\ job'[v] = m
    BY <1>2, <1>5 DEF NoneForgotten
  <2>1. CASE m = job[w]
    BY <1>2, <1>3, <2>1 DEF TypeOK
  <2>2. CASE m # job[w]
    <3>1. disk[m] = "whole"
      BY <1>1, <2>2 DEF TypeOK
    <3>2. PICK v \in Writer : pc[v] \in {"write", "index"} /\ job[v] = m
      BY <3>1 DEF NoneForgotten
    <3>3. QED
      BY <1>2, <2>2, <3>2 DEF TypeOK
  <2>3. QED
    BY <2>1, <2>2
<1>11. QED
  BY <1>4, <1>8, <1>9, <1>10

LEMMA IndexFileInv ==
    ASSUME Inv, NEW w \in Writer, IndexFile(w)
    PROVE  Inv'
<1> USE DEF Inv
<1>1. /\ pc[w] = "index" /\ pc' = [pc EXCEPT ![w] = "idle"]
      /\ job' = [job EXCEPT ![w] = None]
      /\ UNCHANGED <<disk, proc, mark, restarts, cut>>
  BY DEF IndexFile, Written, At
<1>2. w \in Thread /\ w \notin Reader /\ job[w] \in Name
  BY <1>1, IndexAssumption DEF Thread, TypeOK
<1>3. /\ storage' \in [Key -> Seq(Name)]
      /\ Indexed \subseteq Indexed' /\ Indexed' \subseteq Indexed \cup {job[w]}
      /\ KeyOf[job[w]] # None => job[w] \in Indexed'
  <2>1. CASE KeyOf[job[w]] = None
    BY <2>1 DEF IndexFile, TypeOK, Indexed
  <2>2. CASE KeyOf[job[w]] # None
    <3>1. KeyOf[job[w]] \in Key
      BY <1>2, <2>2, IndexAssumption
    <3>2. storage' = [storage EXCEPT ![KeyOf[job[w]]] = Added(@, job[w])]
      BY <2>2 DEF IndexFile
    <3>3. QED
      BY <1>2, <3>1, <3>2, IndexGrows
  <2>3. QED
    BY <2>1, <2>2
<1>4. TypeOK'
  <2>1. failed' \in SUBSET Name
    BY <1>2 DEF IndexFile, TypeOK
  <2>2. QED
    BY <1>1, <1>2, <1>3, <2>1 DEF TypeOK, Jobs
<1>5. Jobs'
  BY <1>1 DEF Jobs
<1>6. Held' \subseteq Held /\ job[w] \in Held /\ BeingWritten' = BeingWritten
  BY <1>1, <1>2 DEF Held, BeingWritten, TypeOK, Jobs, Thread
<1>7. Opening' = Opening
  BY <1>1, <1>2 DEF Opening, TypeOK, Jobs, Thread
<1>8. PartsExplained'
  BY <1>1, <1>6 DEF PartsExplained
<1>9. Backed'
  BY <1>1, <1>3, <1>6, <1>7 DEF Backed
<1>10. NoneForgotten'
  <2> SUFFICES ASSUME proc = "up", NEW m \in Name, disk[m] = "whole", KeyOf[m] # None,
                      m \notin Indexed'
               PROVE  \E v \in Writer : pc'[v] \in {"write", "index"} /\ job'[v] = m
    BY <1>1 DEF NoneForgotten
  <2>1. PICK v \in Writer : pc[v] \in {"write", "index"} /\ job[v] = m
    BY <1>3 DEF NoneForgotten
  <2>2. v # w
    BY <1>3, <2>1
  <2>3. QED
    BY <1>1, <2>1, <2>2 DEF TypeOK, Jobs
<1>11. QED
  BY <1>4, <1>5, <1>8, <1>9, <1>10

LEMMA ReadInv ==
    ASSUME Inv, NEW r \in Reader,
           (\E q \in Query : Look(r, q)) \/ Raise(r) \/ Answer(r) \/ Open(r)
    PROVE  Inv'
<1> USE DEF Inv
<1>1. r \in Thread /\ r \notin Writer
  BY IndexAssumption DEF Thread
<1>2. UNCHANGED <<disk, storage, proc, restarts, cut, failed>>
  BY DEF Look, Raise, Answer, Open
<1>3. \E where \in {"idle", "look", "open"}, j \in Name \cup Query \cup {None} :
        /\ pc' = [pc EXCEPT ![r] = where] /\ job' = [job EXCEPT ![r] = j]
        /\ where = "look" => j \in Query
        /\ where = "open" => j \in Indexed /\ j \in Name
  <2>1. CASE \E q \in Query : Look(r, q)
    BY <2>1 DEF Look
  <2>2. CASE Raise(r) \/ Open(r)
    BY <2>2 DEF Raise, Open
  <2>3. CASE Answer(r)
    <3>1. job[r] \in Query
      BY <2>3 DEF Answer, At, TypeOK
    <3>2. PICK n \in Found(job[r]) : job' = [job EXCEPT ![r] = n]
      BY <2>3 DEF Answer
    <3>3. n \in Indexed /\ n \in Name
      BY <3>1, <3>2, FoundIndexed DEF Found
    <3>4. QED
      BY <2>3, <3>2, <3>3 DEF Answer
  <2>4. QED
    BY <2>1, <2>2, <2>3
<1>4. mark' \in [Reader -> Nat]
  <2>1. CASE \E q \in Query : Look(r, q)
    <3>1. PICK q \in Query : Look(r, q)
      BY <2>1
    <3>2. IsFiniteSet(VersionsOf(q.pkg))
      BY FS_Subset, IndexAssumption DEF VersionsOf
    <3>3. QED
      BY <3>1, <3>2, FS_CardinalityType DEF Look, TypeOK
  <2>2. QED
    BY <2>1 DEF Raise, Answer, Open, TypeOK
<1>5. PICK where \in {"idle", "look", "open"}, j \in Name \cup Query \cup {None} :
        /\ pc' = [pc EXCEPT ![r] = where] /\ job' = [job EXCEPT ![r] = j]
        /\ where = "look" => j \in Query
        /\ where = "open" => j \in Indexed /\ j \in Name
  BY <1>3
<1>6. TypeOK'
  BY <1>1, <1>2, <1>4, <1>5 DEF TypeOK, Jobs
<1>7. Jobs'
  BY <1>5 DEF Jobs
<1>8. Held' = Held /\ BeingWritten' = BeingWritten
  BY <1>1, <1>5 DEF Held, BeingWritten, TypeOK, Jobs, Thread
<1>9. Indexed' = Indexed /\ Opening' \subseteq Opening \cup Indexed
  BY <1>1, <1>2, <1>5 DEF Indexed, Opening, TypeOK, Jobs, Thread
<1>10. PartsExplained' /\ Backed'
  BY <1>2, <1>8, <1>9 DEF PartsExplained, Backed
<1>11. NoneForgotten'
  <2>1. \A w \in Writer : pc'[w] = pc[w] /\ job'[w] = job[w]
    BY <1>1, <1>5 DEF TypeOK, Jobs
  <2>2. QED
    BY <1>2, <1>9, <2>1 DEF NoneForgotten
<1>12. QED
  BY <1>6, <1>7, <1>10, <1>11

LEMMA NextInv == Inv /\ [Next]_vars => Inv'
<1> SUFFICES ASSUME Inv, [Next]_vars PROVE Inv'
  OBVIOUS
<1>1. CASE Next
  BY <1>1, ScanInv, InterruptInv, CreateInv, WriteInv, IndexFileInv, ReadInv DEF Next
<1>2. CASE UNCHANGED vars
  <2>1. TypeOK' /\ Jobs'
    BY <1>2 DEF vars, Inv, TypeOK, Jobs
  <2>2. Held' = Held /\ Opening' = Opening /\ Indexed' = Indexed /\ BeingWritten' = BeingWritten
    BY <1>2 DEF vars, Held, Opening, Indexed, BeingWritten
  <2>3. PartsExplained' /\ Backed' /\ NoneForgotten'
    BY <1>2, <2>2 DEF vars, Inv, PartsExplained, Backed, NoneForgotten
  <2>4. QED
    BY <2>1, <2>3 DEF Inv
<1>3. QED
  BY <1>1, <1>2

LEMMA Invariance == Spec => []Inv
<1>1. QED
  BY InitInv, NextInv, PTL DEF Spec

-----------------------------------------------------------------------------
\* The variables of the index keep their types, whatever its threads do and
\* wherever the process is interrupted.
THEOREM TypeCorrect == Spec => []TypeOK
<1>1. Inv => TypeOK
  BY DEF Inv
<1>2. QED
  BY <1>1, Invariance, PTL

(***************************************************************************)
(* For every set of files and threads, what get answers and what the table *)
(* lists is on the disk, and whole unless a writer has it open or was      *)
(* interrupted.                                                            *)
(***************************************************************************)
THEOREM ServesWholeFiles == Spec => []OnlyWholeServed
<1>1. Inv => OnlyWholeServed
  BY DEF Inv, TypeOK, PartsExplained, Backed, OnlyWholeServed
<1>2. QED
  BY <1>1, Invariance, PTL

(***************************************************************************)
(* While the process is up every whole file with a name and a version is   *)
(* in the table or about to be, for every number of restarts.              *)
(***************************************************************************)
THEOREM ForgetsNone == Spec => []NoneForgotten
<1>1. Inv => NoneForgotten
  BY DEF Inv
<1>2. QED
  BY <1>1, Invariance, PTL
=============================================================================
