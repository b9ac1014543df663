------------------------------ MODULE FateProofs ------------------------------
(***************************************************************************)
(* What becomes of requirements in RetrieveAndBuild: nothing is lost       *)
(* between two services, what is set aside is served by another            *)
(* requirement, the main thread dies of two things only; and what          *)
(* load_installer chooses: the command line's version wins, a failure gets *)
(* through in one case only, and every dependency was dealt with.          *)
(***************************************************************************)
EXTENDS RetrieveAndBuildProofs

\* What the workers leave to the main thread
LEMMA WorkFrame ==
    ASSUME Inv, NEW w \in Worker, Work(w)
    PROVE  /\ UNCHANGED <<main, item, mark, loop, plan, dependencies>>
           /\ main \notin {"load", "install", "report", "crashed"}
           /\ \/ Repeat(w)
              \/ UNCHANGED <<requirements, repeated>>
<1>1. /\ UNCHANGED <<main, item, mark, loop, plan, dependencies>>
      /\ main # "crashed"
      /\ Repeat(w) \/ UNCHANGED <<requirements, repeated>>
  BY DEF Work, Take, Fail, Find, Unique, Repeat, Enqueue, Download, Curdle, Emit,
         Inspect, Tell, QueueInstall, CountRead, CountStore, At, mapping
<1>2. pc[w] = "idle" => ServiceOf[w] \in Service /\ queue[ServiceOf[w]] # <<>>
  BY PipelineAssumption
  DEF Work, Take, Fail, Find, Unique, Repeat, Enqueue, Download, Curdle, Emit,
      Inspect, Tell, QueueInstall, CountRead, CountStore, At
<1>3. QED
  BY <1>1, <1>2 DEF Inv, QuietOnLoad

\* A finder sets the requirement it holds aside
LEMMA RepeatFrame ==
    ASSUME Inv, NEW w \in Worker, Repeat(w)
    PROVE  /\ w \in Holders /\ ServiceOf[w] = "finder" /\ pc[w] = "unique"
           /\ job[w].req \in Pending /\ job[w].req \in Requirement
           /\ requirements' = requirements \ {job[w].req}
           /\ repeated' = repeated \cup {job[w].req}
BY DEF Repeat, SetAside, At, Holders, Inv, OnePlace, Pending, TypeOK, MappingTypeOK

\* What the main thread leaves alone unless it files a requirement
LEMMA MainFrame ==
    ASSUME Main, ~Accept
    PROVE  UNCHANGED mapping
BY DEF Main, Handle, Drop, Look, Crash, Prevail, SetWheel, SetTarball, SetURL, AskFinder, Empty,
       ReadTotal, ReadBuilt, Decide, LoadInstaller

\* The main thread files one requirement
LEMMA AcceptFrame ==
    ASSUME Inv, Accept
    PROVE  /\ main = "scan" /\ main' = "wheel" /\ item \in Told /\ item' = item
           /\ item.req \in Requirement /\ item.req \notin requirements
           /\ ~was_directly_required(PkgOf[item.req])
           /\ requirements' = requirements \cup {item.req}
           /\ dependencies' = [dependencies EXCEPT ![item.req] = @ \cup {item.parent}]
           /\ UNCHANGED <<inbox, repeated, errors, wheels, pool, queue, processing_packages>>
BY DEF Accept, Filed, Inv, Scanning, TypeOK, Told

-----------------------------------------------------------------------------
(* What kills the main thread *)

\* What the main thread counted is there, as long as nothing is set aside
Counted ==
    repeated = {} =>
        /\ main = "scan" => mark = Cardinality(requirements)
        /\ main \in {"built", "failed"} => total = Cardinality(requirements)

LEMMA CountedStep ==
    ASSUME Inv, Counted, OnlyRepeatsCrash, [Next]_vars
    PROVE  Counted' /\ OnlyRepeatsCrash'
<1>1. CASE Main
  <2>1. CASE Accept
    BY <2>1, AcceptFrame DEF Counted, OnlyRepeatsCrash
  <2>2. CASE Crash \/ Decide
    <3>1. UNCHANGED mapping
      BY <2>2 DEF Crash, Decide
    <3>2. CASE Crash
      BY <3>1, <3>2 DEF Crash, Counted, OnlyRepeatsCrash, mapping
    <3>3. CASE Decide
      <4>1. total = 0 /\ repeated = {} => requirements = {}
        BY <3>3, Sizes, FS_EmptySet DEF Decide, Counted, Inv
      <4>2. QED
        BY <3>1, <3>3, <4>1 DEF Decide, Verdict, Counted, OnlyRepeatsCrash, mapping
    <3>4. QED
      BY <2>2, <3>2, <3>3
  <2>3. CASE ~Accept /\ ~Crash /\ ~Decide
    <3>1. UNCHANGED mapping
      BY <1>1, <2>3, MainFrame
    <3>2. QED
      BY <1>1, <2>3, <3>1
      DEF Main, Handle, Drop, Look, Prevail, SetWheel, SetTarball, SetURL, AskFinder, Empty,
          ReadTotal, ReadBuilt, LoadInstaller, Counted, OnlyRepeatsCrash, mapping, loop
  <2>4. QED
    BY <2>1, <2>2, <2>3
<1>2. ASSUME NEW w \in Worker, Work(w) PROVE Counted' /\ OnlyRepeatsCrash'
  <2>1. /\ UNCHANGED <<main, mark, total>> /\ main # "crashed"
        /\ repeated' = {} => UNCHANGED <<requirements, repeated>>
    BY <1>2, WorkFrame, RepeatFrame DEF loop
  <2>2. QED
    BY <2>1 DEF Counted, OnlyRepeatsCrash
<1>3. CASE UNCHANGED vars
  BY <1>3 DEF vars, mapping, loop, Counted, OnlyRepeatsCrash
<1>4. QED
  BY <1>1, <1>2, <1>3 DEF Next, Terminated

(***************************************************************************)
(* The main thread dies in Retrieve and Build only if a finder set some    *)
(* requirement aside, or if nothing was filed and a bar is shown.          *)
(***************************************************************************)
THEOREM DiesOfRepeatsOnly == Spec => []OnlyRepeatsCrash
<1>1. Init => Counted /\ OnlyRepeatsCrash
  BY DEF Init, Counted, OnlyRepeatsCrash
<1>2. QED
  BY <1>1, CountedStep, Invariance, PTL DEF Spec

-----------------------------------------------------------------------------
(* Nothing is lost *)

Queued(r) == \E s \in Service : \E i \in DOMAIN queue[s] : queue[s][i].req = r
Held(r) == \E w \in Holders : job[w].req = r
AtHand(r) == AtMain /\ item.req = r

LEMMA InFlightMeans ==
    ASSUME NEW r, Queued(r) \/ Held(r) \/ AtHand(r)
    PROVE  r \in InFlight
<1> DEFINE waiting == UNION {{queue[s][i].req : i \in DOMAIN queue[s]} : s \in Service}
           held == {job[w].req : w \in Holders}
           hand == IF AtMain THEN {item.req} ELSE {}
<1>1. InFlight = waiting \cup held \cup hand
  BY DEF InFlight
<1>2. Queued(r) => r \in waiting
  BY DEF Queued
<1>3. Held(r) => r \in held
  BY DEF Held
<1>4. AtHand(r) => r \in hand
  BY DEF AtHand
<1> HIDE DEF waiting, held, hand
<1>5. QED
  BY <1>1, <1>2, <1>3, <1>4

NothingIdle == \A r \in Pending : Queued(r) \/ Held(r) \/ AtHand(r)

\* Nothing moves
LEMMA NothingMoves ==
    ASSUME NothingIdle,
           queue' = queue, Holders' = Holders,
           \A w \in Holders : job'[w].req = job[w].req,
           AtMain => AtMain' /\ item' = item,
           Pending' \subseteq Pending
    PROVE  NothingIdle'
BY DEF NothingIdle, Queued, Held, AtHand

\* A worker gets rid of its requirement, which has a result or is set aside
LEMMA OneLeaves ==
    ASSUME NothingIdle, NEW w \in Holders,
           queue' = queue, Holders' = Holders \ {w},
           \A v \in Holders \ {w} : job'[v] = job[v],
           UNCHANGED <<main, item>>,
           Pending' \subseteq Pending \ {job[w].req}
    PROVE  NothingIdle'
BY DEF NothingIdle, Queued, Held, AtHand, AtMain

\* A requirement goes from the main thread or from a worker to a queue
LEMMA OneEnters ==
    ASSUME TypeOK, NothingIdle, NEW s \in Service, NEW r, NEW f, Put(s, r, f),
           \A v \in Holders : job[v].req = r \/ (v \in Holders' /\ job'[v] = job[v]),
           AtMain => item.req = r \/ (AtMain' /\ item' = item),
           Pending' \subseteq Pending
    PROVE  NothingIdle'
<1>1. Queued(r)'
  BY PutFacts DEF Queued
<1>2. ASSUME NEW q, Queued(q) PROVE Queued(q)'
  <2>1. PICK t \in Service : \E i \in DOMAIN queue[t] : queue[t][i].req = q
    BY <1>2 DEF Queued
  <2>2. \A i \in DOMAIN queue[t] : i \in DOMAIN queue'[t] /\ queue'[t][i] = queue[t][i]
    BY <2>1, PutFacts
  <2>3. QED
    BY <2>1, <2>2 DEF Queued
<1>3. ASSUME NEW q, Held(q), q # r PROVE Held(q)'
  BY <1>3 DEF Held
<1>4. ASSUME NEW q, AtHand(q), q # r PROVE AtHand(q)'
  BY <1>4 DEF AtHand
<1>5. QED
  BY <1>1, <1>2, <1>3, <1>4 DEF NothingIdle

\* A worker takes a requirement from its queue
LEMMA OneTaken ==
    ASSUME TypeOK, NothingIdle, NEW w \in Worker, Take(w)
    PROVE  NothingIdle'
<1> DEFINE s == ServiceOf[w]
<1>1. s \in Service /\ queue[s] \in Seq(JobOf(s)) /\ queue[s] # <<>>
  BY PipelineAssumption DEF Take, TypeOK
<1>2. /\ queue' = [queue EXCEPT ![s] = Tail(@)]
      /\ job' = [job EXCEPT ![w] = Head(queue[s])]
      /\ pc' = [pc EXCEPT ![w] = "run"]
      /\ pc[w] = "idle"
      /\ UNCHANGED <<requirements, wheels, errors, main, item>>
  BY DEF Take, At, mapping
<1> HIDE DEF s
<1>3. /\ Len(queue[s]) \in Nat \ {0}
      /\ DOMAIN queue[s] = 1 .. Len(queue[s]) /\ Head(queue[s]) = queue[s][1]
      /\ DOMAIN Tail(queue[s]) = 1 .. Len(queue[s]) - 1
      /\ \A i \in 1 .. Len(queue[s]) - 1 : Tail(queue[s])[i] = queue[s][i + 1]
  BY <1>1
<1>4. /\ w \in Holders' /\ job'[w] = queue[s][1]
      /\ \A v \in Holders : v \in Holders' /\ job'[v] = job[v]
  BY <1>2, <1>3 DEF Holders, TypeOK
<1>5. ASSUME NEW r, Queued(r) PROVE Queued(r)' \/ Held(r)'
  <2>1. PICK t \in Service : \E i \in DOMAIN queue[t] : queue[t][i].req = r
    BY <1>5 DEF Queued
  <2>0. PICK i \in DOMAIN queue[t] : queue[t][i].req = r
    BY <2>1
  <2>2. CASE t # s
    <3>1. queue'[t] = queue[t]
      BY <1>2, <2>2 DEF TypeOK
    <3>2. QED
      BY <2>0, <3>1 DEF Queued
  <2>3. CASE t = s /\ i = 1
    BY <1>4, <2>0, <2>3 DEF Held
  <2>4. CASE t = s /\ i # 1
    <3>1. i - 1 \in 1 .. Len(queue[s]) - 1 /\ (i - 1) + 1 = i
      BY <1>3, <2>4
    <3>2. queue'[s] = Tail(queue[s])
      BY <1>1, <1>2 DEF TypeOK
    <3>3. i - 1 \in DOMAIN queue'[s] /\ queue'[s][i - 1] = queue[s][i]
      BY <1>3, <3>1, <3>2
    <3>4. QED
      BY <1>1, <2>0, <2>4, <3>3 DEF Queued
  <2>5. QED
    BY <2>2, <2>3, <2>4
<1>6. ASSUME NEW r, Held(r) PROVE Held(r)'
  BY <1>4, <1>6 DEF Held
<1>7. Pending' = Pending /\ \A r : AtHand(r)' <=> AtHand(r)
  BY <1>2 DEF Pending, Settled, Built, AtHand, AtMain
<1>8. QED
  BY <1>5, <1>6, <1>7 DEF NothingIdle

LEMMA IdleMain ==
    ASSUME Inv, NothingIdle, Main
    PROVE  NothingIdle'
<1>1. CASE Accept
  <2>1. item.req \in requirements' /\ AtMain' /\ item' = item /\ ~AtMain
    BY <1>1, AcceptFrame DEF AtMain
  <2>2. UNCHANGED <<queue, pc, job, wheels, errors>> /\ Holders' = Holders
    BY <1>1, AcceptFrame DEF pool, Holders
  <2>3. Pending' \subseteq Pending \cup {item.req}
    BY <1>1, <2>2, AcceptFrame DEF Pending, Settled, Built
  <2>4. QED
    BY <2>1, <2>2, <2>3 DEF NothingIdle, Queued, Held, AtHand
<1>2. CASE ~Accept
  <2>1. Pending' = Pending
    BY <1>2, MainFrame DEF mapping, Pending, Settled, Built
  <2>2. CASE \/ Drop \/ Look \/ Crash \/ Prevail \/ Empty \/ ReadTotal \/ ReadBuilt \/ Decide
             \/ LoadInstaller
    <3>1. ~AtMain /\ UNCHANGED <<queue, pc, job>>
      BY <2>2 DEF Drop, Look, Crash, Prevail, Empty, ReadTotal, ReadBuilt, Decide,
                  LoadInstaller, AtMain, pool
    <3>2. QED
      BY <2>1, <3>1, NothingMoves DEF Holders
  <2>3. CASE SetWheel \/ SetTarball \/ SetURL \/ AskFinder
    <3>1. UNCHANGED <<pc, job>> /\ item.req \in Requirement
      BY <2>3 DEF SetWheel, SetTarball, SetURL, AskFinder, pool, Inv, TypeOK, Told
    <3>2. Holders' = Holders
      BY <3>1 DEF Holders
    <3>3. CASE main' = "tarball"
      <4>1. queue' = queue /\ item' = item /\ AtMain'
        BY <2>3, <3>3 DEF SetWheel, SetTarball, SetURL, AskFinder, AtMain
      <4>2. QED
        BY <2>1, <3>1, <3>2, <4>1, NothingMoves
    <3>4. CASE main' = "drain"
      <4>1. \E s \in Service : \E f : Put(s, item.req, f)
        BY <2>3, <3>4 DEF SetWheel, SetTarball, SetURL, AskFinder, Service
      <4>2. QED
        BY <2>1, <3>1, <3>2, <4>1, OneEnters DEF Inv
    <3>5. QED
      BY <2>3, <3>3, <3>4 DEF SetWheel, SetTarball, SetURL, AskFinder
  <2>4. QED
    BY <1>2, <2>2, <2>3 DEF Main, Handle
<1>3. QED
  BY <1>1, <1>2

LEMMA IdleWork ==
    ASSUME Inv, NothingIdle, NEW w \in Worker, Work(w)
    PROVE  NothingIdle'
<1> USE DEF Inv
<1>1. CASE Take(w)
  BY <1>1, OneTaken
<1>2. CASE Fail(w) \/ Repeat(w) \/ QueueInstall(w)
  <2>1. w \in Holders /\ job[w].req \in Requirement /\ UNCHANGED <<queue, main, item>>
    BY <1>2, JobType DEF Fail, Repeat, QueueInstall, At, Holders
  <2>2. Holders' = Holders \ {w} /\ \A v \in Holders \ {w} : job'[v] = job[v]
    <3>1. CASE Fail(w) \/ Repeat(w)
      BY <2>1, <3>1, RestHolders DEF Fail, Repeat
    <3>2. CASE QueueInstall(w)
      BY <3>2 DEF QueueInstall, At, Holders, TypeOK
    <3>3. QED
      BY <1>2, <3>1, <3>2
  <2>3. Pending' \subseteq Pending \ {job[w].req}
    <3>1. CASE Fail(w)
      BY <3>1 DEF Fail, Error, Pending, Settled, Built
    <3>2. CASE Repeat(w)
      BY <3>2 DEF Repeat, SetAside, Pending, Settled, Built
    <3>3. CASE QueueInstall(w)
      <4>1. job[w] \in Job
        BY <3>3, JobType DEF QueueInstall, At
      <4>2. QED
        BY <2>1, <3>3, <4>1, MappingAssumption
        DEF QueueInstall, Job, Pending, Settled, Built, TypeOK, MappingTypeOK
    <3>4. QED
      BY <1>2, <3>1, <3>2, <3>3
  <2>4. QED
    BY <2>1, <2>2, <2>3, OneLeaves
<1>3. CASE \/ Find(w) \/ Unique(w) \/ Download(w) \/ Curdle(w) \/ Inspect(w) \/ Tell(w)
           \/ CountRead(w) \/ CountStore(w)
  <2>1. /\ Holders' = Holders /\ \A v \in Holders : job'[v].req = job[v].req
        /\ UNCHANGED <<queue, main, item, requirements, wheels, errors>>
    <3>1. CASE Find(w)
      <4>1. job[w] \in JobOf("finder")
        BY <3>1, JobType DEF Find, At
      <4>2. QED
        BY <3>1, <4>1 DEF Find, At, Holders, TypeOK, mapping, JobOf
    <3>2. CASE Curdle(w)
      <4>1. job[w] \in Job
        BY <3>2, JobType DEF Curdle, At
      <4>2. QED
        BY <3>2, <4>1 DEF Curdle, At, Holders, TypeOK, mapping, Job
    <3>3. CASE Unique(w) \/ Download(w) \/ Inspect(w) \/ Tell(w)
      BY <3>3 DEF Unique, Download, Inspect, Tell, At, Holders, TypeOK, mapping
    <3>4. CASE CountRead(w) \/ CountStore(w)
      BY <3>4 DEF CountRead, CountStore, At, Rest, Holders, TypeOK, mapping
    <3>5. QED
      BY <1>3, <3>1, <3>2, <3>3, <3>4
  <2>2. Pending' = Pending /\ AtMain' = AtMain
    BY <2>1 DEF Pending, Settled, Built, AtMain
  <2>3. QED
    BY <2>1, <2>2, NothingMoves
<1>4. CASE Enqueue(w) \/ Emit(w)
  <2>1. w \in Holders /\ UNCHANGED <<main, item, mapping>> /\ Rest(w)
    BY <1>4 DEF Enqueue, Emit, At, Holders
  <2>2. \E s \in Service : \E f : Put(s, job[w].req, f)
    BY <1>4 DEF Enqueue, Emit, NextService, Service
  <2>3. Holders' = Holders \ {w} /\ \A v \in Holders \ {w} : job'[v] = job[v]
    BY <2>1, RestHolders
  <2>4. Pending' = Pending /\ AtMain' = AtMain
    BY <2>1 DEF mapping, Pending, Settled, Built, AtMain
  <2>5. QED
    BY <2>1, <2>2, <2>3, <2>4, OneEnters
<1>5. QED
  BY <1>1, <1>2, <1>3, <1>4 DEF Work

(***************************************************************************)
(* No filed requirement is lost between two threads, whatever fails: it    *)
(* has a result, or a queue, a worker or the main thread has it.           *)
(***************************************************************************)
THEOREM NoneLost == Spec => []NothingLost
<1>1. Init => NothingIdle
  BY DEF Init, MappingInit, NothingIdle, Pending
<1>2. Inv /\ NothingIdle /\ [Next]_vars => NothingIdle'
  <2> SUFFICES ASSUME Inv, NothingIdle, [Next]_vars PROVE NothingIdle'
    OBVIOUS
  <2>1. CASE UNCHANGED vars \/ Terminated
    BY <2>1 DEF Terminated, vars, mapping, pool, NothingIdle, Pending, Settled, Built,
                Queued, Held, Holders, AtHand, AtMain
  <2>2. QED
    BY <2>1, IdleMain, IdleWork DEF Next
<1>3. NothingIdle => NothingLost
  BY InFlightMeans DEF NothingIdle, NothingLost
<1>4. QED
  BY <1>1, <1>2, <1>3, Invariance, PTL DEF Spec

-----------------------------------------------------------------------------
(* What was set aside is served *)

\* Something behind the finder works on q with a file of package p
Carried(q, p) ==
    \/ \E s \in Service \ {"finder"} : \E i \in DOMAIN queue[s] :
            queue[s][i].req = q /\ queue[s][i].file.pkg = p
    \/ \E w \in Holders : ServiceOf[w] # "finder" /\ job[w].req = q /\ job[w].file.pkg = p

\* q has brought a file of package p, is bringing one, or has failed to
BroughtBy(q, p) ==
    /\ q \in requirements
    /\ q \in errors \/ (q \in Built /\ wheels[q].pkg = p) \/ Carried(q, p)

Brought(p) == \E q \in Requirement : BroughtBy(q, p)

FinderFiles ==
    \A w \in Worker : ServiceOf[w] = "finder" /\ pc[w] \in {"unique", "enqueue"} =>
        job[w].file.pkg = PkgOf[job[w].req]

Serving ==
    /\ FinderFiles
    /\ \A f \in processing_packages : Brought(f.pkg)
    /\ \A r \in repeated : Brought(PkgOf[r])

\* The job put in a queue is the last one there
LEMMA PutLast ==
    ASSUME TypeOK, NEW s \in Service, NEW r, NEW f, Put(s, r, f)
    PROVE  \E i \in DOMAIN queue'[s] : queue'[s][i] = [req |-> r, file |-> f]
<1>1. /\ queue'[s] = Append(queue[s], [req |-> r, file |-> f])
      /\ Len(queue[s]) \in Nat
      /\ Len(queue[s]) + 1 \in DOMAIN queue'[s]
  BY DEF TypeOK, Put
<1>2. queue'[s][Len(queue[s]) + 1] = [req |-> r, file |-> f]
  BY <1>1 DEF TypeOK
<1>3. QED
  BY <1>1, <1>2

\* Jobs stay where they are, whatever is added
LEMMA CarriedStays ==
    ASSUME NEW q, NEW p, Carried(q, p),
           \A s \in Service : \A i \in DOMAIN queue[s] :
               i \in DOMAIN queue'[s] /\ queue'[s][i] = queue[s][i],
           \A v \in Holders : ServiceOf[v] # "finder" /\ job[v].req = q =>
               /\ v \in Holders' /\ job'[v].req = q
               /\ job'[v].file.pkg = job[v].file.pkg
    PROVE  Carried(q, p)'
BY DEF Carried

LEMMA BroughtStays ==
    ASSUME NEW q, NEW p, BroughtBy(q, p),
           q \in requirements', errors \subseteq errors',
           q \in Built => wheels'[q] = wheels[q],
           Carried(q, p) => Carried(q, p)'
    PROVE  BroughtBy(q, p)'
BY DEF BroughtBy, Built

\* A worker takes a job from its queue
LEMMA CarriedTaken ==
    ASSUME TypeOK, NEW w \in Worker, Take(w), NEW q, NEW p, Carried(q, p)
    PROVE  Carried(q, p)'
<1> DEFINE s == ServiceOf[w]
<1>1. s \in Service /\ queue[s] \in Seq(JobOf(s)) /\ queue[s] # <<>>
  BY PipelineAssumption DEF Take, TypeOK
<1>2. /\ queue' = [queue EXCEPT ![s] = Tail(@)]
      /\ job' = [job EXCEPT ![w] = Head(queue[s])]
      /\ pc' = [pc EXCEPT ![w] = "run"]
      /\ pc[w] = "idle"
  BY DEF Take, At
<1>3. /\ Len(queue[s]) \in Nat \ {0}
      /\ DOMAIN queue[s] = 1 .. Len(queue[s]) /\ Head(queue[s]) = queue[s][1]
      /\ DOMAIN Tail(queue[s]) = 1 .. Len(queue[s]) - 1
      /\ \A i \in 1 .. Len(queue[s]) - 1 : Tail(queue[s])[i] = queue[s][i + 1]
  BY <1>1
<1>4. /\ w \in Holders' /\ job'[w] = queue[s][1]
      /\ \A v \in Holders : v \in Holders' /\ job'[v] = job[v]
  BY <1>2, <1>3 DEF Holders, TypeOK
<1>5. ASSUME NEW t \in Service \ {"finder"}, NEW i \in DOMAIN queue[t],
             queue[t][i].req = q, queue[t][i].file.pkg = p
      PROVE  Carried(q, p)'
  <2>1. CASE t # s
    <3>1. queue'[t] = queue[t]
      BY <1>2, <2>1 DEF TypeOK
    <3>2. QED
      BY <1>5, <3>1 DEF Carried
  <2>2. CASE t = s /\ i = 1
    BY <1>4, <1>5, <2>2 DEF Carried, s
  <2>3. CASE t = s /\ i # 1
    <3>1. i - 1 \in 1 .. Len(queue[s]) - 1 /\ (i - 1) + 1 = i
      BY <1>3, <2>3
    <3>2. queue'[s] = Tail(queue[s])
      BY <1>1, <1>2 DEF TypeOK
    <3>3. i - 1 \in DOMAIN queue'[s] /\ queue'[s][i - 1] = queue[s][i]
      BY <1>3, <3>1, <3>2
    <3>4. QED
      BY <1>5, <2>3, <3>3 DEF Carried
  <2>4. QED
    BY <2>1, <2>2, <2>3
<1>6. ASSUME NEW v \in Holders, ServiceOf[v] # "finder", job[v].req = q, job[v].file.pkg = p
      PROVE  Carried(q, p)'
  BY <1>4, <1>6 DEF Carried
<1>7. QED
  BY <1>5, <1>6 DEF Carried

LEMMA BroughtMain ==
    ASSUME Inv, Main, NEW q \in Requirement, NEW p, BroughtBy(q, p)
    PROVE  BroughtBy(q, p)'
<1>1. UNCHANGED <<pc, job, errors, wheels, repeated>> /\ requirements \subseteq requirements'
  BY MainFrame, AcceptFrame DEF mapping, Main, Handle, Drop, Look, Crash, Prevail, Accept,
     SetWheel, SetTarball, SetURL, AskFinder, Empty, ReadTotal, ReadBuilt, Decide, LoadInstaller, pool
<1>2. queue' = queue \/ \E s \in Service : \E f : Put(s, item.req, f)
  BY DEF Main, Handle, Drop, Look, Crash, Prevail, Accept, SetWheel, SetTarball, SetURL, AskFinder,
         Empty, ReadTotal, ReadBuilt, Decide, LoadInstaller, Service
<1>3. \A s \in Service : \A i \in DOMAIN queue[s] :
          i \in DOMAIN queue'[s] /\ queue'[s][i] = queue[s][i]
  BY <1>2, PutFacts DEF Inv
<1>4. Holders' = Holders
  BY <1>1 DEF Holders
<1>5. Carried(q, p) => Carried(q, p)'
  BY <1>1, <1>3, <1>4, CarriedStays
<1>6. QED
  BY <1>1, <1>5, BroughtStays DEF BroughtBy

LEMMA BroughtWork ==
    ASSUME Inv, NEW w \in Worker, Work(w), NEW q \in Requirement, NEW p, BroughtBy(q, p)
    PROVE  BroughtBy(q, p)'
<1> USE DEF Inv
<1>1. CASE Take(w)
  <2>1. UNCHANGED <<requirements, errors, wheels>> /\ (Carried(q, p) => Carried(q, p)')
    BY <1>1, CarriedTaken DEF Take, mapping
  <2>2. QED
    BY <2>1, BroughtStays DEF BroughtBy
<1>2. CASE Fail(w)
  <2>1. w \in Holders /\ errors' = errors \cup {job[w].req} /\ UNCHANGED <<queue, wheels, requirements>>
    BY <1>2 DEF Fail, Error, At, Holders
  <2>2. CASE q = job[w].req
    BY <2>1, <2>2 DEF BroughtBy
  <2>3. CASE q # job[w].req
    <3>1. \A v \in Holders \ {w} : v \in Holders' /\ job'[v] = job[v]
      BY <1>2, <2>1, RestHolders DEF Fail
    <3>2. Carried(q, p) => Carried(q, p)'
      BY <2>1, <2>3, <3>1, CarriedStays
    <3>3. QED
      BY <2>1, <3>2, BroughtStays DEF BroughtBy
  <2>4. QED
    BY <2>2, <2>3
<1>3. CASE Repeat(w)
  <2>1. /\ w \in Holders /\ ServiceOf[w] = "finder" /\ UNCHANGED <<queue, wheels, errors>>
        /\ job[w].req \in Pending /\ requirements' = requirements \ {job[w].req}
    BY <1>3, RepeatFrame DEF Repeat
  <2>2. q # job[w].req
    BY <2>1 DEF BroughtBy, Carried, OnePlace, Pending, Settled
  <2>3. \A v \in Holders \ {w} : v \in Holders' /\ job'[v] = job[v]
    BY <1>3, <2>1, RestHolders DEF Repeat
  <2>4. Carried(q, p) => Carried(q, p)'
    BY <2>1, <2>2, <2>3, CarriedStays
  <2>5. QED
    BY <2>1, <2>2, <2>4, BroughtStays DEF BroughtBy
<1>4. CASE Find(w) \/ Unique(w) \/ Download(w) \/ Curdle(w) \/ Inspect(w) \/ Tell(w)
  <2>1. /\ Holders' = Holders /\ UNCHANGED <<queue, requirements, wheels, errors>>
        /\ \A v \in Holders : ServiceOf[v] # "finder" =>
               job'[v].req = job[v].req /\ job'[v].file.pkg = job[v].file.pkg
    <3>1. CASE Find(w)
      BY <3>1 DEF Find, At, Holders, TypeOK, mapping
    <3>2. CASE Curdle(w)
      <4>1. job[w] \in Job
        BY <3>2, JobType DEF Curdle, At
      <4>2. QED
        BY <3>2, <4>1 DEF Curdle, WheelOf, At, Holders, TypeOK, mapping, Job, File
    <3>3. CASE Unique(w) \/ Download(w) \/ Inspect(w) \/ Tell(w)
      BY <3>3 DEF Unique, Download, Inspect, Tell, At, Holders, TypeOK, mapping
    <3>4. QED
      BY <1>4, <3>1, <3>2, <3>3
  <2>2. Carried(q, p) => Carried(q, p)'
    BY <2>1, CarriedStays
  <2>3. QED
    BY <2>1, <2>2, BroughtStays DEF BroughtBy
<1>5. CASE Enqueue(w) \/ Emit(w)
  <2>1. w \in Holders /\ UNCHANGED <<requirements, wheels, errors>> /\ Rest(w)
    BY <1>5 DEF Enqueue, Emit, At, Holders, mapping
  <2>2. PICK s \in Service \ {"finder"} : Put(s, job[w].req, job[w].file)
    BY <1>5 DEF Enqueue, Emit, NextService, Service
  <2>3. \A v \in Holders \ {w} : v \in Holders' /\ job'[v] = job[v]
    BY <2>1, RestHolders
  <2>4. \A t \in Service : \A i \in DOMAIN queue[t] :
          i \in DOMAIN queue'[t] /\ queue'[t][i] = queue[t][i]
    BY <2>2, PutFacts
  <2>5. ASSUME Carried(q, p) PROVE Carried(q, p)'
    <3>1. CASE job[w].req = q /\ job[w].file.pkg = p
      <4>1. PICK i \in DOMAIN queue'[s] : queue'[s][i] = [req |-> job[w].req, file |-> job[w].file]
        BY <2>2, PutLast
      <4>2. queue'[s][i].req = q /\ queue'[s][i].file.pkg = p
        BY <3>1, <4>1
      <4>3. QED
        BY <4>2 DEF Carried
    <3>2. CASE ~(job[w].req = q /\ job[w].file.pkg = p)
      BY <2>3, <2>4, <2>5, <3>2 DEF Carried
    <3>3. QED
      BY <3>1, <3>2
  <2>6. QED
    BY <2>1, <2>5, BroughtStays DEF BroughtBy
<1>6. CASE QueueInstall(w)
  <2>1. /\ w \in Holders /\ job[w] \in Job /\ pc' = [pc EXCEPT ![w] = "count"]
        /\ UNCHANGED <<queue, job, requirements, errors>>
        /\ wheels' = [wheels EXCEPT ![job[w].req] = job[w].file]
        /\ job[w].req \in Requirement
    BY <1>6, JobType DEF QueueInstall, At, Holders
  <2>2. job[w].req \in Pending
    BY <2>1 DEF OnePlace
  <2>3. /\ wheels'[job[w].req] = job[w].file /\ job[w].file # None
        /\ \A r \in Requirement \ {job[w].req} : wheels'[r] = wheels[r]
    BY <2>1, MappingAssumption DEF Job, TypeOK, MappingTypeOK
  <2>4. \A v \in Holders \ {w} : v \in Holders' /\ job'[v] = job[v]
    BY <2>1 DEF Holders, TypeOK
  <2>5. CASE job[w].req = q /\ job[w].file.pkg = p
    BY <2>1, <2>3, <2>5 DEF BroughtBy, Built
  <2>6. CASE ~(job[w].req = q /\ job[w].file.pkg = p)
    <3>1. Carried(q, p) => Carried(q, p)'
      BY <2>1, <2>4, <2>6 DEF Carried
    <3>2. q \in Built => wheels'[q] = wheels[q]
      BY <2>2, <2>3 DEF Pending, Settled
    <3>3. QED
      BY <2>1, <3>1, <3>2, BroughtStays DEF BroughtBy
  <2>7. QED
    BY <2>5, <2>6
<1>7. CASE CountRead(w) \/ CountStore(w)
  <2>1. /\ UNCHANGED <<queue, requirements, wheels, errors>>
        /\ \A v \in Holders : v \in Holders' /\ job'[v] = job[v]
    BY <1>7 DEF CountRead, CountStore, At, Rest, Holders, TypeOK, mapping
  <2>2. Carried(q, p) => Carried(q, p)'
    BY <2>1, CarriedStays
  <2>3. QED
    BY <2>1, <2>2, BroughtStays DEF BroughtBy
<1>8. QED
  BY <1>1, <1>2, <1>3, <1>4, <1>5, <1>6, <1>7 DEF Work

\* A requirement given to the downloader with a file brings that file
LEMMA GivenToDownloader ==
    ASSUME Inv, NEW CONSTANT q \in requirements, NEW CONSTANT f, Put("downloader", q, f),
           UNCHANGED requirements
    PROVE  BroughtBy(q, f.pkg)'
<1>1. PICK i \in DOMAIN queue'["downloader"] :
          queue'["downloader"][i] = [req |-> q, file |-> f]
  BY PutLast DEF Service, Inv
<1>2. queue'["downloader"][i].req = q /\ queue'["downloader"][i].file.pkg = f.pkg
  BY <1>1
<1>3. Carried(q, f.pkg)'
  BY <1>2 DEF Carried, Service
<1>4. QED
  BY <1>3 DEF BroughtBy

\* A file is noted by the downloader together with a job that carries it
LEMMA NewFiles ==
    ASSUME Inv, FinderFiles, Next, processing_packages' # processing_packages
    PROVE  \E q \in Requirement, f \in File :
               /\ processing_packages' = processing_packages \cup {f}
               /\ BroughtBy(q, f.pkg)'
<1> USE DEF Inv
<1>1. CASE SetURL
  <2>1. item.req \in Requirement /\ item.req \in requirements
    BY <1>1 DEF SetURL, TypeOK, Told, OnePlace, AtMain, Pending
  <2>2. PICK q \in requirements, f \in File : q = item.req /\ f = Link[item.req]
    BY <1>1, <2>1, PipelineAssumption DEF SetURL, is_url
  <2>3. processing_packages' = processing_packages \cup {f} /\ Put("downloader", q, f)
    BY <1>1, <2>2 DEF SetURL
  <2>4. BroughtBy(q, f.pkg)'
    BY <1>1, <2>3, GivenToDownloader DEF SetURL, mapping
  <2>5. QED
    BY <2>1, <2>2, <2>3, <2>4
<1>2. ASSUME NEW w \in Worker, Enqueue(w)
      PROVE  \E q \in Requirement, f \in File :
               /\ processing_packages' = processing_packages \cup {f}
               /\ BroughtBy(q, f.pkg)'
  <2>1. w \in Holders /\ job[w] \in Job
    BY <1>2, JobType DEF Enqueue, At, Holders
  <2>2. job[w].req \in Requirement /\ job[w].file \in File /\ job[w].req \in requirements
    BY <2>1 DEF Job, OnePlace, Pending
  <2>3. PICK q \in requirements, f \in File : q = job[w].req /\ f = job[w].file
    BY <2>2
  <2>4. processing_packages' = processing_packages \cup {f} /\ Put("downloader", q, f)
    BY <1>2, <2>3 DEF Enqueue
  <2>5. BroughtBy(q, f.pkg)'
    BY <1>2, <2>4, GivenToDownloader DEF Enqueue, mapping
  <2>6. QED
    BY <2>2, <2>3, <2>4, <2>5
<1>3. CASE Main /\ ~SetURL
  BY <1>3 DEF Main, Handle, Drop, Look, Crash, Prevail, Accept, SetWheel, SetTarball, AskFinder,
              Empty, ReadTotal, ReadBuilt, Decide, LoadInstaller
<1>4. ASSUME NEW w \in Worker, Work(w), ~Enqueue(w) PROVE FALSE
  BY <1>4 DEF Work, Take, Fail, Find, Unique, Repeat, Download, Curdle, Emit,
              Inspect, Tell, QueueInstall, CountRead, CountStore
<1>5. CASE Terminated
  BY <1>5 DEF Terminated, vars
<1>6. QED
  BY <1>1, <1>2, <1>3, <1>4, <1>5 DEF Next

\* What the finder hands over is a file of the package it was asked for
LEMMA FinderFilesStep ==
    ASSUME Inv, FinderFiles, Next
    PROVE  FinderFiles'
<1> USE DEF Inv
<1>1. CASE Main \/ Terminated
  BY <1>1 DEF Main, Handle, Drop, Look, Crash, Prevail, Accept, SetWheel, SetTarball, SetURL,
              AskFinder, Empty, ReadTotal, ReadBuilt, Decide, LoadInstaller, Terminated, vars,
              pool, FinderFiles
<1>2. ASSUME NEW w \in Worker, Work(w) PROVE FinderFiles'
  <2>1. \A v \in Worker \ {w} : pc'[v] = pc[v] /\ job'[v] = job[v]
    BY <1>2 DEF Work, Take, Fail, Find, Unique, Repeat, Enqueue, Download, Curdle, Emit, Rest,
                Inspect, Tell, QueueInstall, CountRead, CountStore, TypeOK
  <2>2. CASE Find(w)
    <3>1. job[w] \in JobOf("finder") /\ job[w].req \in Requirement
      BY <2>2, JobType DEF Find, At
    <3>2. job'[w].req = job[w].req /\ job'[w].file.pkg = PkgOf[job[w].req]
      BY <2>2, <3>1 DEF Find, Found, JobOf, TypeOK
    <3>3. QED
      BY <2>1, <3>2 DEF FinderFiles
  <2>3. CASE Unique(w)
    BY <2>1, <2>3 DEF Unique, At, FinderFiles, TypeOK
  <2>4. CASE ~Find(w) /\ ~Unique(w)
    <3>1. ServiceOf[w] = "finder" => pc'[w] \notin {"unique", "enqueue"}
      BY <1>2, <2>4, PipelineAssumption
      DEF Work, Take, Fail, Repeat, Enqueue, Download, Curdle, Emit, Rest, At,
          Inspect, Tell, QueueInstall, CountRead, CountStore, TypeOK
    <3>2. QED
      BY <2>1, <3>1 DEF FinderFiles
  <2>5. QED
    BY <2>2, <2>3, <2>4
<1>3. QED
  BY <1>1, <1>2 DEF Next

LEMMA ServingStep ==
    ASSUME Inv, Serving, [Next]_vars
    PROVE  Serving'
<1>1. CASE UNCHANGED vars
  BY <1>1 DEF vars, mapping, pool, Serving, FinderFiles, Brought, BroughtBy, Carried, Built, Holders
<1>2. CASE Next
  <2>1. ASSUME NEW p, Brought(p) PROVE Brought(p)'
    <3>1. PICK q \in Requirement : BroughtBy(q, p)
      BY <2>1 DEF Brought
    <3>2. BroughtBy(q, p)'
      <4>1. CASE Terminated
        BY <3>1, <4>1
        DEF Terminated, vars, mapping, pool, BroughtBy, Carried, Built, Holders
      <4>2. QED
        BY <1>2, <3>1, <4>1, BroughtMain, BroughtWork DEF Next
    <3>3. QED
      BY <3>2 DEF Brought
  <2>2. ASSUME NEW f \in processing_packages' PROVE Brought(f.pkg)'
    <3>1. CASE f \in processing_packages
      BY <2>1, <3>1 DEF Serving
    <3>2. CASE f \notin processing_packages
      <4>1. PICK q \in Requirement : BroughtBy(q, f.pkg)'
        BY <1>2, <2>2, <3>2, NewFiles DEF Serving
      <4>2. QED
        BY <4>1 DEF Brought
    <3>3. QED
      BY <3>1, <3>2
  <2>3. ASSUME NEW r \in repeated' PROVE Brought(PkgOf[r])'
    <3>1. CASE r \in repeated
      BY <2>1, <3>1 DEF Serving
    <3>2. CASE r \notin repeated
      <4>1. PICK w \in Worker : Repeat(w)
        <5>1. Main /\ ~Accept => repeated' = repeated
          BY MainFrame DEF mapping
        <5>2. Accept => repeated' = repeated
          BY AcceptFrame
        <5>3. QED
          BY <1>2, <2>3, <3>2, <5>1, <5>2, WorkFrame DEF Next, Terminated, vars, mapping
      <4>2. r = job[w].req /\ job[w].file \in processing_packages
        BY <2>3, <3>2, <4>1, RepeatFrame DEF Repeat, Aware
      <4>3. job[w].file.pkg = PkgOf[r]
        BY <4>1, <4>2, RepeatFrame DEF Serving, FinderFiles
      <4>4. QED
        BY <2>1, <4>2, <4>3 DEF Serving
    <3>3. QED
      BY <3>1, <3>2
  <2>4. QED
    BY <1>2, <2>2, <2>3, FinderFilesStep DEF Serving
<1>3. QED
  BY <1>1, <1>2

(***************************************************************************)
(* Whenever the loop ends, a requirement that a finder set aside has       *)
(* another one in its place, which brought a file of its package or        *)
(* failed: whatever the number of finders and the order of their answers.  *)
(***************************************************************************)
THEOREM RepeatsServed == Spec => []RepeatedServed
<1>1. Init => Serving
  BY DEF Init, MappingInit, Serving, FinderFiles
<1>2. Inv /\ Serving => RepeatedServed
  <2> SUFFICES ASSUME Inv, Serving, main \in {"load", "install"}, NEW r \in repeated
               PROVE  \E q \in requirements : Serves(q, r)
    BY DEF RepeatedServed
  <2>1. PICK q \in Requirement : BroughtBy(q, PkgOf[r])
    BY DEF Serving, Brought
  <2>2. ~Carried(q, PkgOf[r])
    BY DEF Carried, Inv, QuietOnLoad, Holders
  <2>3. QED
    BY <2>1, <2>2 DEF BroughtBy, Serves
<1>3. QED
  BY <1>1, <1>2, ServingStep, Invariance, PTL DEF Spec

-----------------------------------------------------------------------------
NotURLs(q) == \A i \in DOMAIN q : ~is_url(q[i])

\* Nobody asks for a URL: neither a command line nor a wheel
NamesNoURL ==
    /\ \A argv \in CommandLines : NotURLs(argv)
    /\ \A r \in Requirement, v \in Version : NotURLs(Requires[r][v])

\* So the main thread never has one in hand
NoURLs ==
    /\ \A i \in DOMAIN inbox : ~is_url(inbox[i].req)
    /\ main \in {"scan", "wheel", "tarball"} => ~is_url(item.req)
    /\ \A w \in Worker : NotURLs(deps[w])

\* Requirements come into the inbox from the command line and from wheels only.
LEMMA NoURLsStep ==
    ASSUME NamesNoURL, TypeOK, NoURLs, [Next]_vars
    PROVE  NoURLs'
<1>1. inbox \in Seq(Told) /\ deps \in [Worker -> Seq(Requirement)]
  BY DEF TypeOK
<1>2. CASE Drop \/ Look
  <2>1. inbox # <<>> /\ inbox' = Tail(inbox) /\ deps' = deps
        /\ (main' = "drain" \/ item' = Head(inbox))
    BY <1>2 DEF Drop, Look, pool
  <2>2. \A i \in DOMAIN inbox' : i + 1 \in DOMAIN inbox /\ inbox'[i] = inbox[i + 1]
    BY <1>1, <2>1
  <2>3. Head(inbox) = inbox[1] /\ 1 \in DOMAIN inbox
    BY <1>1, <2>1
  <2>4. QED
    BY <2>1, <2>2, <2>3 DEF NoURLs, is_url
<1>3. CASE \E w \in Worker : Tell(w)
  <2>1. PICK w \in Worker : Tell(w)
    BY <1>3
  <2>2. /\ deps[w] # <<>> /\ item' = item /\ main' = main
        /\ inbox' = Append(inbox, [req |-> Head(deps[w]), parent |-> job[w].req])
        /\ deps' = [deps EXCEPT ![w] = Tail(@)]
    BY <2>1 DEF Tell
  <2>3. deps[w] \in Seq(Requirement)
    BY <1>1
  <2>4. Head(deps[w]) = deps[w][1] /\ 1 \in DOMAIN deps[w]
    BY <2>2, <2>3
  <2>5. \A i \in DOMAIN inbox' : \/ i \in DOMAIN inbox /\ inbox'[i] = inbox[i]
                                \/ inbox'[i].req = deps[w][1]
    BY <1>1, <2>2, <2>4
  <2>6. NotURLs(deps'[w])
    <3>1. \A i \in DOMAIN Tail(deps[w]) :
              i + 1 \in DOMAIN deps[w] /\ Tail(deps[w])[i] = deps[w][i + 1]
      BY <2>2, <2>3
    <3>2. deps'[w] = Tail(deps[w])
      BY <1>1, <2>2
    <3>3. QED
      BY <3>1, <3>2 DEF NoURLs, NotURLs, is_url
  <2>7. \A v \in Worker \ {w} : deps'[v] = deps[v]
    BY <1>1, <2>2
  <2>8. ~is_url(deps[w][1])
    BY <2>4 DEF NoURLs, NotURLs
  <2>9. QED
    BY <2>2, <2>5, <2>6, <2>7, <2>8 DEF NoURLs, NotURLs, is_url
<1>4. CASE \E w \in Worker : Inspect(w)
  <2>1. PICK w \in Worker : Inspect(w)
    BY <1>4
  <2>2. job[w].req \in Requirement /\ job[w].file.ver \in Version
    BY <2>1 DEF Inspect, At, TypeOK, WorkerTypeOK, JobOf, FileFor, Stage, File
  <2>3. /\ inbox' = inbox /\ item' = item /\ main' = main
        /\ deps' = [deps EXCEPT ![w] = Requires[job[w].req][job[w].file.ver]]
    BY <2>1 DEF Inspect
  <2>4. \A v \in Worker : deps'[v] = deps[v] \/ deps'[v] = Requires[job[w].req][job[w].file.ver]
    BY <1>1, <2>3
  <2>5. NotURLs(Requires[job[w].req][job[w].file.ver])
    BY <2>2 DEF NamesNoURL
  <2>6. QED
    BY <2>3, <2>4, <2>5 DEF NoURLs, NotURLs, is_url
<1>5. CASE \E w \in Worker : Fail(w)
  <2>1. PICK w \in Worker : /\ inbox' = inbox /\ item' = item /\ main' = main
                          /\ deps' = [deps EXCEPT ![w] = <<>>]
    BY <1>5 DEF Fail
  <2>2. \A v \in Worker : deps'[v] = deps[v] \/ deps'[v] = <<>>
    BY <1>1, <2>1
  <2>3. QED
    BY <2>1, <2>2 DEF NoURLs, NotURLs, is_url
<1>6. CASE /\ ~(Drop \/ Look) /\ ~\E w \in Worker : Tell(w)
           /\ ~(\E w \in Worker : Inspect(w)) /\ ~\E w \in Worker : Fail(w)
  <2>1. /\ inbox' = inbox /\ deps' = deps
        /\ main' \in {"scan", "wheel", "tarball"} =>
            item' = item /\ main \in {"scan", "wheel", "tarball"}
    <3>1. CASE Main
      BY <1>6, <3>1 DEF Main, Handle, Crash, Prevail, Accept, SetWheel, SetTarball, SetURL,
          AskFinder, Empty, ReadTotal, ReadBuilt, Decide, Verdict, LoadInstaller, pool
    <3>2. CASE \E w \in Worker : Work(w)
      BY <1>6, <3>2 DEF Work, Take, Find, Unique, Repeat, Enqueue, Download, Curdle, Emit,
          QueueInstall, CountRead, CountStore
    <3>3. CASE UNCHANGED vars
      BY <3>3 DEF vars, pool
    <3>4. QED
      BY <3>1, <3>2, <3>3 DEF Next, Terminated
  <2>2. QED
    BY <2>1 DEF NoURLs, NotURLs, is_url
<1>7. QED
  BY <1>2, <1>3, <1>4, <1>5, <1>6

(***************************************************************************)
(* "The Downloader does not download duplicated items"                     *)
(* (design-and-implementation.rst:110) is true of one finder thread when   *)
(* nobody asks for a URL, whatever the other pools: the check and the note *)
(* of the file then have nobody between them.                              *)
(***************************************************************************)
THEOREM OneFinderDownloadsOnce ==
    ASSUME \A v, w \in Worker : ServiceOf[v] = "finder" /\ ServiceOf[w] = "finder" => v = w,
           NamesNoURL
    PROVE  Spec => []NoDuplicateDownload
<1>1. Init => NoDuplicateDownload /\ NoURLs
  BY DEF Init, NoDuplicateDownload, NoURLs, NotURLs, NamesNoURL, is_url
<1>2. Inv /\ NoURLs /\ NoDuplicateDownload /\ [Next]_vars => NoDuplicateDownload'
  <2> SUFFICES ASSUME Inv, NoURLs, NoDuplicateDownload, [Next]_vars, NEW w \in Worker,
                      pc'[w] = "enqueue"
               PROVE  job'[w].file \notin processing_packages'
    BY DEF NoDuplicateDownload
  <2>1. CASE \E v \in Worker : Enqueue(v)
    <3>1. PICK v \in Worker : Enqueue(v)
      BY <2>1
    <3>2. pc[v] = "enqueue" /\ ServiceOf[v] = "finder" /\ pc' = [pc EXCEPT ![v] = "idle"]
      BY <3>1 DEF Enqueue, At, Rest
    <3>3. w # v /\ pc[w] = "enqueue"
      BY <3>2 DEF Inv, TypeOK
    <3>4. ServiceOf[w] = "finder"
      BY <3>3 DEF Inv, TypeOK, WorkerTypeOK, Stage
    <3>5. QED
      BY <3>2, <3>3, <3>4
  <2>2. CASE ~\E v \in Worker : Enqueue(v)
    <3>1. ~SetURL
      BY MappingAssumption DEF SetURL, NoURLs, Inv, TypeOK, Told
    <3>2. processing_packages' = processing_packages
      BY <2>2, <3>1
      DEF Next, Terminated, vars, Main, Handle, Drop, Look, Crash, Prevail, Accept, SetWheel,
          SetTarball, AskFinder, Empty, ReadTotal, ReadBuilt, Decide, LoadInstaller, Work, Take,
          Fail, Find, Unique, Repeat, Download, Curdle, Emit, Inspect, Tell, QueueInstall,
          CountRead, CountStore
    <3>3. CASE pc'[w] = pc[w] /\ job'[w] = job[w]
      BY <3>2, <3>3 DEF NoDuplicateDownload
    <3>4. CASE Unique(w)
      BY <3>2, <3>4 DEF Unique, Aware
    <3>5. (pc'[w] = pc[w] /\ job'[w] = job[w]) \/ Unique(w)
      <4>1. ASSUME NEW v \in Worker, Work(v)
            PROVE  (pc'[w] = pc[w] /\ job'[w] = job[w]) \/ Unique(w)
        BY <2>2, <4>1
        DEF Work, Take, Fail, Find, Unique, Repeat, SetAside, Download, Curdle, Emit, Inspect,
            Tell, QueueInstall, CountRead, CountStore, Rest, Inv, TypeOK
      <4>2. CASE ~\E v \in Worker : Work(v)
        BY <4>2
        DEF Next, Terminated, vars, Main, Handle, Drop, Look, Crash, Prevail, Accept, SetWheel,
            SetTarball, SetURL, AskFinder, Empty, ReadTotal, ReadBuilt, Decide, LoadInstaller,
            pool
      <4>3. QED
        BY <4>1, <4>2
    <3>6. QED
      BY <3>3, <3>4, <3>5
  <2>3. QED
    BY <2>1, <2>2
<1>3. Inv /\ NoURLs /\ [Next]_vars => NoURLs'
  BY NoURLsStep DEF Inv
<1>4. QED
  BY <1>1, <1>2, <1>3, Invariance, PTL DEF Spec

-----------------------------------------------------------------------------
(* What load_installer chooses *)

\* The other steps of the main thread
LEMMA MainMoves ==
    ASSUME Inv, Main, main' = "install"
    PROVE  LoadInstaller
BY DEF Main, Handle, Drop, Look, Crash, Prevail, Accept, SetWheel, SetTarball, SetURL, AskFinder,
       Empty, ReadTotal, ReadBuilt, Decide, Verdict, LoadInstaller

\* Once there is something to install, nothing happens any more
LEMMA InstallStays ==
    ASSUME Inv, [Next]_vars, main = "install"
    PROVE  UNCHANGED vars
BY WorkFrame
DEF Next, Terminated, Main, Handle, Drop, Look, Crash, Prevail, Accept, SetWheel, SetTarball,
    SetURL, AskFinder, Empty, ReadTotal, ReadBuilt, Decide, LoadInstaller

\* Installation starts with the choice of load_installer
LEMMA InstallStarts ==
    ASSUME Inv, [Next]_vars, main # "install", main' = "install"
    PROVE  /\ LoadInstaller /\ ~Reported /\ requirements = Settled
           /\ UNCHANGED <<mapping, inbox>>
           /\ DOMAIN plan' = installable_packages
           /\ \A p \in installable_packages : plan'[p] \in best_version(p)
<1>1. Main
  BY WorkFrame DEF Next, Terminated, vars
<1>2. LoadInstaller
  BY <1>1, MainMoves
<1>3. QED
  BY <1>2 DEF LoadInstaller, Inv, QuietOnLoad

\* A package with a requirement that failed has no compatible version
LEMMA FailureConflicts ==
    ASSUME Inv, NEW e \in errors
    PROVE  compatible_versions(PkgOf[e]) = {}
<1> DEFINE p == PkgOf[e]
           all == get_requirements_by_package_name(p)
           votes(v) == {r \in all \cap Built : v \in Allows[r]}
<1>1. e \in all /\ e \notin Built
  BY DEF get_requirements_by_package_name, Inv, OnePlace, Settled, TypeOK, MappingTypeOK
<1>2. IsFiniteSet(all) /\ Cardinality(all) \in Nat /\ IsFiniteSet(all \ {e})
  <2>1. all \in SUBSET Requirement /\ all \ {e} \in SUBSET Requirement
    BY DEF get_requirements_by_package_name, Inv, TypeOK, MappingTypeOK
  <2>2. QED
    BY <2>1, FiniteRequirements
<1>3. ASSUME NEW v PROVE Cardinality(votes(v)) # Cardinality(all)
  <2>1. votes(v) \subseteq all \ {e}
    BY <1>1
  <2>2. Cardinality(votes(v)) <= Cardinality(all \ {e})
    BY <1>2, <2>1, FS_Subset
  <2>3. Cardinality(all \ {e}) = Cardinality(all) - 1
    BY <1>1, <1>2, FS_RemoveElement
  <2>4. Cardinality(votes(v)) \in Nat
    BY <1>2, <2>1, FS_Subset, FS_CardinalityType
  <2>5. QED
    BY <1>2, <2>2, <2>3, <2>4
<1>4. QED
  BY <1>3 DEF compatible_versions

-----------------------------------------------------------------------------
(* The command line's version wins *)

\* No package has two filed requirements of the command line
OnePrimary ==
    \A q, r \in requirements :
        is_primary_requirement(q) /\ is_primary_requirement(r) /\ PkgOf[q] = PkgOf[r] => q = r

LEMMA OnePrimaryStep ==
    ASSUME Inv, OnePrimary, [Next]_vars
    PROVE  OnePrimary'
<1>1. CASE Accept
  <2>1. \A q \in requirements : PkgOf[q] = PkgOf[item.req] => ~is_primary_requirement(q)
    BY <1>1, AcceptFrame DEF was_directly_required, get_requirements_by_package_name
  <2>2. \A q \in requirements : dependencies'[q] = dependencies[q]
    BY <1>1, AcceptFrame DEF Inv, TypeOK, MappingTypeOK
  <2>3. QED
    BY <1>1, <2>1, <2>2, AcceptFrame DEF OnePrimary, is_primary_requirement
<1>2. ASSUME NEW w \in Worker, Work(w) PROVE OnePrimary'
  <2>1. requirements' \subseteq requirements /\ dependencies' = dependencies
    BY <1>2, WorkFrame, RepeatFrame
  <2>2. QED
    BY <2>1 DEF OnePrimary, is_primary_requirement
<1>3. CASE (Main /\ ~Accept) \/ Terminated \/ UNCHANGED vars
  BY <1>3, MainFrame DEF Terminated, vars, mapping, OnePrimary, is_primary_requirement
<1>4. QED
  BY <1>1, <1>2, <1>3 DEF Next

\* Of the command line's requirement, if it was built, comes the only candidate
LEMMA PrimaryCandidate ==
    ASSUME Inv, OnePrimary, NEW r \in requirements, is_primary_requirement(r)
    PROVE  primary_versions(PkgOf[r]) = IF r \in Built THEN {wheels[r].ver} ELSE {}
<1>1. r \in get_requirements_by_package_name(PkgOf[r])
  BY DEF get_requirements_by_package_name
<1>2. \A q \in get_requirements_by_package_name(PkgOf[r]) : is_primary_requirement(q) => q = r
  BY DEF get_requirements_by_package_name, OnePrimary
<1>3. {q \in get_requirements_by_package_name(PkgOf[r]) \cap Built : is_primary_requirement(q)}
        = IF r \in Built THEN {r} ELSE {}
  BY <1>1, <1>2
<1>4. QED
  BY <1>3 DEF primary_versions

LEMMA PrimaryChosen ==
    ASSUME Inv, OnePrimary, ~Reported, requirements = Settled,
           NEW r \in requirements, is_primary_requirement(r)
    PROVE  /\ r \in Built /\ PkgOf[r] \in installable_packages
           /\ \A q \in best_version(PkgOf[r]) : wheels[q].ver = wheels[r].ver
<1>1. r \in Built
  <2> SUFFICES ASSUME r \in errors PROVE r \in Built
    BY DEF Settled
  <2>1. PkgOf[r] \in initially_required_packages
    BY DEF initially_required_packages
  <2>2. PkgOf[r] \in installable_packages
    BY <2>1 DEF Reported
  <2>3. best_version(PkgOf[r]) # {}
    BY <2>2 DEF Reported
  <2>4. primary_versions(PkgOf[r]) # {}
    BY <2>3, FailureConflicts DEF best_version, Candidates
  <2>5. QED
    BY <2>4, PrimaryCandidate
<1>2. Candidates(PkgOf[r]) = {wheels[r].ver}
  BY <1>1, PrimaryCandidate DEF Candidates
<1>3. wheels[r].ver \in Nat
  BY <1>1, MappingAssumption DEF Built, Inv, TypeOK, MappingTypeOK, File
<1>4. Max({wheels[r].ver}) = wheels[r].ver
  BY <1>3 DEF Max
<1>5. QED
  BY <1>1, <1>2, <1>4 DEF best_version, installable_packages

(***************************************************************************)
(* What is installed of a package that the command line names has the      *)
(* version found for it, however many packages ask for another one.        *)
(***************************************************************************)
THEOREM CommandLineWins == Spec => []PrimaryWins
<1>1. Init => OnePrimary /\ PrimaryWins
  BY DEF Init, MappingInit, OnePrimary, PrimaryWins
<1>2. Inv /\ OnePrimary /\ PrimaryWins /\ [Next]_vars => PrimaryWins'
  <2> SUFFICES ASSUME Inv, OnePrimary, PrimaryWins, [Next]_vars, main' = "install"
               PROVE  PrimaryWins'
    BY DEF PrimaryWins
  <2>1. CASE main = "install"
    BY <2>1, InstallStays DEF vars, mapping, PrimaryWins
  <2>2. CASE main # "install"
    <3>1. /\ ~Reported /\ requirements = Settled /\ UNCHANGED mapping
          /\ DOMAIN plan' = installable_packages
          /\ \A p \in installable_packages : plan'[p] \in best_version(p)
      BY <2>2, InstallStarts
    <3>2. ASSUME NEW r \in requirements, is_primary_requirement(r)
          PROVE  PkgOf[r] \in DOMAIN plan' /\ wheels[plan'[PkgOf[r]]].ver = wheels[r].ver
      BY <3>1, <3>2, PrimaryChosen
    <3>3. QED
      BY <3>1, <3>2 DEF mapping, PrimaryWins, is_primary_requirement
  <2>3. QED
    BY <2>1, <2>2
<1>3. QED
  BY <1>1, <1>2, OnePrimaryStep, Invariance, PTL DEF Spec

-----------------------------------------------------------------------------
(* The one failure that gets through *)

\* The command line's requirements come first ...
CommandLineFirst ==
    \A j \in DOMAIN inbox : inbox[j].parent = None =>
        /\ \A i \in 1 .. j : inbox[i].parent = None
        /\ main = "scan" => item.parent = None

\* ... so that nothing else is filed before them
Coming == (\E j \in DOMAIN inbox : inbox[j].parent = None)
            \/ (main = "scan" /\ item.parent = None)

OnlyPrimaryBefore == Coming => \A q \in requirements : is_primary_requirement(q)

\* Who was asked for is remembered
Remembered == \A r \in Requirement : dependencies[r] # {} => r \in requirements \cup repeated

Excused == \E r \in repeated : None \in dependencies[r]

\* A package of the command line has one requirement, unless one is set aside
Alone ==
    \A q, e \in requirements :
        q # e /\ PkgOf[q] = PkgOf[e] /\ is_primary_requirement(q) => Excused

FilingOrder == CommandLineFirst /\ OnlyPrimaryBefore /\ Remembered /\ Alone

LEMMA OrderOfMain ==
    ASSUME Inv, FilingOrder, Main
    PROVE  FilingOrder'
<1> USE DEF Inv
<1>0. inbox \in Seq(Told)
  BY DEF TypeOK
<1>1. CASE Drop \/ Look
  <2>1. inbox # <<>> /\ inbox' = Tail(inbox) /\ main # "scan" /\ UNCHANGED mapping
    BY <1>1 DEF Drop, Look
  <2>2. main' = "scan" => item' = inbox[1]
    BY <1>1 DEF Drop, Look
  <2>3. /\ Len(inbox) \in Nat \ {0} /\ DOMAIN inbox = 1 .. Len(inbox)
        /\ DOMAIN inbox' = 1 .. Len(inbox) - 1
        /\ \A i \in DOMAIN inbox' : inbox'[i] = inbox[i + 1]
    BY <1>0, <2>1
  <2>4. CommandLineFirst'
    <3> SUFFICES ASSUME NEW j \in DOMAIN inbox', inbox'[j].parent = None
                 PROVE  /\ \A i \in 1 .. j : inbox'[i].parent = None
                        /\ main' = "scan" => item'.parent = None
      BY DEF CommandLineFirst
    <3>1. j + 1 \in DOMAIN inbox /\ inbox[j + 1].parent = None
      BY <2>3
    <3>2. \A i \in 1 .. j + 1 : inbox[i].parent = None
      BY <3>1 DEF FilingOrder, CommandLineFirst
    <3>3. QED
      BY <2>2, <2>3, <3>2
  <2>5. Coming' => Coming
    BY <2>2, <2>3 DEF Coming
  <2>6. QED
    BY <2>1, <2>4, <2>5
    DEF mapping, FilingOrder, OnlyPrimaryBefore, Remembered, Alone, Excused, is_primary_requirement
<1>2. CASE Accept
  <2> DEFINE x == item.req
  <2>1. /\ main = "scan" /\ main' = "wheel" /\ item \in Told /\ UNCHANGED <<inbox, repeated>>
        /\ x \in Requirement /\ x \notin requirements
        /\ \A q \in requirements : PkgOf[q] = PkgOf[x] => ~is_primary_requirement(q)
        /\ requirements' = requirements \cup {x}
    BY <1>2, AcceptFrame DEF was_directly_required, get_requirements_by_package_name
  <2>2. /\ dependencies'[x] = dependencies[x] \cup {item.parent}
        /\ \A q \in Requirement \ {x} : dependencies'[q] = dependencies[q]
    BY <1>2, <2>1, AcceptFrame DEF TypeOK, MappingTypeOK
  <2>3. requirements \subseteq Requirement /\ repeated \subseteq Requirement
    BY DEF TypeOK, MappingTypeOK
  <2> HIDE DEF x
  <2>4. CommandLineFirst'
    BY <2>1 DEF FilingOrder, CommandLineFirst
  <2>5. OnlyPrimaryBefore'
    <3> SUFFICES ASSUME Coming', NEW q \in requirements' PROVE None \in dependencies'[q]
      BY DEF OnlyPrimaryBefore, is_primary_requirement
    <3>1. PICK j \in DOMAIN inbox : inbox[j].parent = None
      BY <2>1 DEF Coming
    <3>2. item.parent = None /\ Coming
      BY <2>1, <3>1 DEF FilingOrder, CommandLineFirst, Coming
    <3>3. \A r \in requirements : None \in dependencies[r]
      BY <3>2 DEF FilingOrder, OnlyPrimaryBefore, is_primary_requirement
    <3>4. QED
      BY <2>1, <2>2, <2>3, <3>2, <3>3
  <2>6. Remembered'
    BY <2>1, <2>2, <2>3 DEF FilingOrder, Remembered
  <2>7. Excused => Excused'
    BY <2>1, <2>2, <2>3 DEF Excused
  <2>8. ASSUME NEW q \in requirements', NEW e \in requirements',
               q # e, PkgOf[q] = PkgOf[e], None \in dependencies'[q]
        PROVE  Excused'
    <3>1. CASE q # x /\ e # x
      BY <2>1, <2>2, <2>3, <2>7, <2>8, <3>1 DEF FilingOrder, Alone, is_primary_requirement
    <3>2. CASE e = x
      BY <2>1, <2>2, <2>3, <2>8, <3>2 DEF is_primary_requirement
    <3>3. CASE q = x /\ None \in dependencies[x]
      BY <2>1, <2>2, <3>3 DEF FilingOrder, Remembered, Excused
    <3>4. CASE q = x /\ None \notin dependencies[x]
      <4>1. item.parent = None
        BY <2>2, <2>8, <3>4
      <4>2. is_primary_requirement(e)
        BY <2>1, <2>8, <3>4, <4>1 DEF FilingOrder, OnlyPrimaryBefore, Coming
      <4>3. QED
        BY <2>1, <2>8, <3>4, <4>2
    <3>5. QED
      BY <3>1, <3>2, <3>3, <3>4
  <2>9. QED
    BY <2>4, <2>5, <2>6, <2>8 DEF FilingOrder, Alone, is_primary_requirement
<1>3. CASE Main /\ ~Drop /\ ~Look /\ ~Accept
  <2>1. UNCHANGED <<mapping, inbox>> /\ main' # "scan"
    BY <1>3, MainFrame
    DEF Main, Handle, Crash, Prevail, SetWheel, SetTarball, SetURL, AskFinder, Empty,
        ReadTotal, ReadBuilt, Decide, Verdict, LoadInstaller
  <2>2. QED
    BY <2>1 DEF mapping, FilingOrder, CommandLineFirst, OnlyPrimaryBefore, Coming, Remembered,
                Alone, Excused, is_primary_requirement
<1>4. QED
  BY <1>1, <1>2, <1>3

LEMMA OrderOfWork ==
    ASSUME Inv, FilingOrder, NEW w \in Worker, Work(w)
    PROVE  FilingOrder'
<1> USE DEF Inv
<1>1. UNCHANGED <<main, item, dependencies>>
  BY WorkFrame
<1>2. requirements' \subseteq requirements /\ repeated \subseteq repeated'
  BY WorkFrame, RepeatFrame
<1>3. requirements \cup repeated \subseteq requirements' \cup repeated'
  BY WorkFrame, RepeatFrame
<1>4. inbox' = inbox \/ \E m \in Told : m.parent # None /\ inbox' = Append(inbox, m)
  <2>1. CASE Tell(w)
    <3>1. job[w].req \in Requirement /\ job[w].req # None
      BY <2>1, JobType, MappingAssumption DEF Tell, At
    <3>2. deps[w] \in Seq(Requirement) /\ deps[w] # <<>>
      BY <2>1 DEF Tell, TypeOK
    <3>3. [req |-> Head(deps[w]), parent |-> job[w].req] \in Told
      BY <3>1, <3>2 DEF Told
    <3>4. QED
      BY <2>1, <3>1, <3>3 DEF Tell
  <2>2. CASE ~Tell(w)
    BY <2>2 DEF Work, Take, Fail, Find, Unique, Repeat, Enqueue, Download, Curdle, Emit,
                Inspect, QueueInstall, CountRead, CountStore
  <2>3. QED
    BY <2>1, <2>2
<1>5. \A j \in DOMAIN inbox' : inbox'[j].parent = None =>
          j \in DOMAIN inbox /\ \A i \in 1 .. j : inbox'[i] = inbox[i]
  <2>1. inbox \in Seq(Told)
    BY DEF TypeOK
  <2>2. QED
    BY <1>4, <2>1
<1>6. CommandLineFirst' /\ (Coming' => Coming)
  <2>1. inbox \in Seq(Told)
    BY DEF TypeOK
  <2>2. \A j \in DOMAIN inbox : j \in 1 .. j
    BY <2>1
  <2>3. QED
    BY <1>1, <1>5, <2>2 DEF FilingOrder, CommandLineFirst, Coming
<1>7. QED
  BY <1>1, <1>2, <1>3, <1>6
  DEF FilingOrder, OnlyPrimaryBefore, Remembered, Alone, Excused, is_primary_requirement

LEMMA FilingOrderStep ==
    ASSUME Inv, FilingOrder, [Next]_vars
    PROVE  FilingOrder'
<1>1. CASE Terminated \/ UNCHANGED vars
  BY <1>1 DEF Terminated, vars, mapping, FilingOrder, CommandLineFirst, OnlyPrimaryBefore, Coming,
              Remembered, Alone, Excused, is_primary_requirement
<1>2. QED
  BY <1>1, OrderOfMain, OrderOfWork DEF Next

LEMMA FailureExcused ==
    ASSUME Inv, Alone, ~Reported, requirements = Settled, errors # {}
    PROVE  Excused
<1>1. PICK e \in errors : TRUE
  OBVIOUS
<1>2. e \in requirements /\ e \notin Built
  BY DEF Inv, OnePlace, Settled
<1>3. PkgOf[e] \in installable_packages
  BY <1>2 DEF Reported, initially_required_packages
<1>4. best_version(PkgOf[e]) # {}
  BY <1>3 DEF Reported
<1>5. primary_versions(PkgOf[e]) # {}
  BY <1>4, FailureConflicts DEF best_version, Candidates
<1>6. PICK q \in requirements \cap Built : PkgOf[q] = PkgOf[e] /\ is_primary_requirement(q)
  BY <1>5 DEF primary_versions, get_requirements_by_package_name
<1>7. QED
  BY <1>2, <1>6 DEF Alone

(***************************************************************************)
(* Installation starts in spite of a failure only if a requirement of the  *)
(* command line was set aside.                                             *)
(***************************************************************************)
THEOREM InstallsCleanly == Spec => []CleanInstall
<1>1. Init => FilingOrder /\ CleanInstall
  <2> SUFFICES ASSUME Init PROVE FilingOrder /\ CleanInstall
    OBVIOUS
  <2>1. PICK argv \in CommandLines :
          inbox = [i \in DOMAIN argv |-> [req |-> argv[i], parent |-> None]]
    BY DEF Init
  <2>2. argv \in Seq(Requirement) /\ DOMAIN argv = 1 .. Len(argv) /\ Len(argv) \in Nat
    BY <2>1, PipelineAssumption
  <2>3. \A j \in DOMAIN inbox : inbox[j].parent = None /\ 1 .. j \subseteq DOMAIN inbox
    BY <2>1, <2>2
  <2>4. QED
    BY <2>3 DEF Init, MappingInit, FilingOrder, CommandLineFirst, OnlyPrimaryBefore, Remembered,
                Alone, CleanInstall
<1>2. Inv /\ FilingOrder /\ CleanInstall /\ [Next]_vars => CleanInstall'
  <2> SUFFICES ASSUME Inv, FilingOrder, CleanInstall, [Next]_vars, main' = "install", errors' # {}
               PROVE  Excused'
    BY DEF CleanInstall, Excused
  <2>1. CASE main = "install"
    BY <2>1, InstallStays DEF vars, mapping, CleanInstall, Excused
  <2>2. CASE main # "install"
    <3>1. ~Reported /\ requirements = Settled /\ UNCHANGED mapping
      BY <2>2, InstallStarts
    <3>2. QED
      BY <3>1, FailureExcused DEF mapping, Excused, FilingOrder
  <2>3. QED
    BY <2>1, <2>2
<1>3. QED
  BY <1>1, <1>2, FilingOrderStep, Invariance, PTL DEF Spec

-----------------------------------------------------------------------------
(* Every dependency was dealt with *)

\* The main thread knows of d, or will
Noted(d) ==
    \/ DealtWith(d)
    \/ \E i \in DOMAIN inbox : inbox[i].req = d
    \/ main = "scan" /\ item.req = d

Heard ==
    main # "crashed" =>
        \A r \in Built : \A i \in DOMAIN Requires[r][wheels[r].ver] :
            Noted(Requires[r][wheels[r].ver][i])

\* What worker w has not told yet of the dependencies ds
Untold(w, d) == \E i \in DOMAIN deps[w] : deps[w][i] = d

Telling(w) ==
    main # "crashed" /\ ServiceOf[w] = "dependencer" /\ pc[w] = "tell" =>
        \A i \in DOMAIN Requires[job[w].req][job[w].file.ver] :
            LET d == Requires[job[w].req][job[w].file.ver][i] IN Noted(d) \/ Untold(w, d)

Closing == Heard /\ \A w \in Worker : Telling(w)

LEMMA DealtWithStays ==
    ASSUME NEW CONSTANT d, DealtWith(d),
           requirements \cup repeated \subseteq requirements' \cup repeated',
           \A q \in Requirement : dependencies[q] \subseteq dependencies'[q]
    PROVE  DealtWith(d)'
BY DEF DealtWith

LEMMA NotedByMain ==
    ASSUME Inv, Main, main' # "crashed", NEW CONSTANT d, Noted(d)
    PROVE  Noted(d)'
<1> USE DEF Inv
<1>1. CASE Drop \/ Look
  <2>1. inbox \in Seq(Told) /\ inbox # <<>> /\ inbox' = Tail(inbox) /\ UNCHANGED mapping
        /\ main # "scan"
    BY <1>1 DEF Drop, Look, TypeOK
  <2>2. /\ Len(inbox) \in Nat \ {0} /\ DOMAIN inbox = 1 .. Len(inbox)
        /\ Head(inbox) = inbox[1]
        /\ DOMAIN inbox' = 1 .. Len(inbox) - 1
        /\ \A i \in 2 .. Len(inbox) :
              i - 1 \in 1 .. Len(inbox) - 1 /\ inbox'[i - 1] = inbox[i]
    BY <2>1
  <2>3. CASE DealtWith(d)
    BY <2>1, <2>3 DEF mapping, DealtWith, Noted
  <2>4. ASSUME NEW i \in DOMAIN inbox, inbox[i].req = d, i # 1 PROVE Noted(d)'
    <3>1. i \in 2 .. Len(inbox)
      BY <2>2, <2>4
    <3>2. QED
      BY <2>2, <2>4, <3>1 DEF Noted
  <2>5. CASE inbox[1].req = d
    <3>1. CASE Drop
      <4>1. PkgOf[d] \in Blacklist \/ d \in requirements
        BY <2>2, <2>5, <3>1 DEF Drop, Ignored, Known
      <4>2. QED
        BY <2>1, <4>1 DEF mapping, Noted, DealtWith
    <3>2. CASE Look
      BY <2>2, <2>5, <3>2 DEF Look, Noted
    <3>3. QED
      BY <1>1, <3>1, <3>2
  <2>6. QED
    BY <2>1, <2>2, <2>3, <2>4, <2>5 DEF Noted
<1>2. CASE Prevail
  <2>1. UNCHANGED <<mapping, inbox>> /\ main = "scan" /\ was_directly_required(PkgOf[item.req])
    BY <1>2 DEF Prevail
  <2>2. requirements \subseteq Requirement
    BY DEF TypeOK, MappingTypeOK
  <2>3. DealtWith(item.req)
    BY <2>1, <2>2
    DEF was_directly_required, get_requirements_by_package_name, is_primary_requirement, DealtWith
  <2>4. QED
    BY <2>1, <2>3 DEF mapping, Noted, DealtWith
<1>3. CASE Accept
  <2>1. /\ requirements' = requirements \cup {item.req} /\ UNCHANGED <<inbox, repeated>>
        /\ \A q \in Requirement : dependencies[q] \subseteq dependencies'[q]
    BY <1>3, AcceptFrame DEF TypeOK, MappingTypeOK
  <2>2. DealtWith(d) => DealtWith(d)'
    BY <2>1, DealtWithStays
  <2>3. QED
    BY <2>1, <2>2 DEF Noted, DealtWith
<1>4. CASE ~Drop /\ ~Look /\ ~Prevail /\ ~Accept
  <2>1. UNCHANGED <<mapping, inbox>> /\ main # "scan"
    BY <1>4, MainFrame
    DEF Main, Handle, Crash, SetWheel, SetTarball, SetURL, AskFinder, Empty,
        ReadTotal, ReadBuilt, Decide, LoadInstaller
  <2>2. QED
    BY <2>1 DEF mapping, Noted, DealtWith
<1>5. QED
  BY <1>1, <1>2, <1>3, <1>4

LEMMA NotedByWork ==
    ASSUME Inv, NEW w \in Worker, Work(w), NEW CONSTANT d, Noted(d)
    PROVE  Noted(d)'
<1> USE DEF Inv
<1>1. UNCHANGED <<main, item, dependencies>>
  BY WorkFrame
<1>2. requirements \cup repeated \subseteq requirements' \cup repeated'
  BY WorkFrame, RepeatFrame
<1>3. DealtWith(d) => DealtWith(d)'
  BY <1>1, <1>2, DealtWithStays
<1>4. \A i \in DOMAIN inbox : i \in DOMAIN inbox' /\ inbox'[i] = inbox[i]
  <2>1. inbox' = inbox \/ \E m : inbox' = Append(inbox, m)
    BY DEF Work, Take, Fail, Find, Unique, Repeat, Enqueue, Download, Curdle, Emit,
           Inspect, Tell, QueueInstall, CountRead, CountStore
  <2>2. inbox \in Seq(Told)
    BY DEF TypeOK
  <2>3. QED
    BY <2>1, <2>2
<1>5. QED
  BY <1>1, <1>3, <1>4 DEF Noted

LEMMA ClosingOfMain ==
    ASSUME Inv, Closing, Main
    PROVE  Closing'
<1>1. UNCHANGED <<wheels, pc, job, deps>> /\ main # "crashed"
  BY DEF Main, Handle, Drop, Look, Crash, Prevail, Accept, SetWheel, SetTarball, SetURL, AskFinder,
         Empty, ReadTotal, ReadBuilt, Decide, LoadInstaller, mapping, pool
<1>2. main' # "crashed" => \A d : Noted(d) => Noted(d)'
  BY NotedByMain
<1>3. QED
  BY <1>1, <1>2 DEF Closing, Heard, Telling, Untold, Built

\* What the dependencer has read of a wheel is told or waits to be
LEMMA TellingStep ==
    ASSUME Inv, Closing, NEW w \in Worker, Work(w), NEW v \in Worker
    PROVE  Telling(v)'
<1> USE DEF Inv
<1>1. \A d : Noted(d) => Noted(d)'
  BY NotedByWork
<1>2. CASE v # w
  <2>1. pc'[v] = pc[v] /\ job'[v] = job[v] /\ deps'[v] = deps[v]
    BY <1>2 DEF Work, Take, Fail, Find, Unique, Repeat, Enqueue, Download, Curdle, Emit, Rest,
                Inspect, Tell, QueueInstall, CountRead, CountStore, TypeOK
  <2>2. main # "crashed"
    BY WorkFrame
  <2>3. \A d : Untold(v, d) => Untold(v, d)'
    BY <2>1 DEF Untold
  <2>4. QED
    BY <1>1, <2>1, <2>2, <2>3 DEF Closing, Telling
<1>3. CASE v = w /\ Inspect(w)
  <2>1. deps'[w] = Requires[job[w].req][job[w].file.ver] /\ job' = job
    BY <1>3 DEF Inspect, TypeOK
  <2>2. \A d : (\E i \in DOMAIN deps'[w] : deps'[w][i] = d) => Untold(w, d)'
    BY DEF Untold
  <2>3. QED
    BY <1>3, <2>1, <2>2 DEF Telling
<1>4. CASE v = w /\ Tell(w)
  <2>1. /\ job' = job /\ pc' = pc /\ ServiceOf[w] = "dependencer" /\ pc[w] = "tell"
        /\ main # "crashed"
        /\ deps[w] \in Seq(Requirement) /\ deps[w] # <<>> /\ deps'[w] = Tail(deps[w])
        /\ inbox \in Seq(Told)
        /\ inbox' = Append(inbox, [req |-> Head(deps[w]), parent |-> job[w].req])
    BY <1>4 DEF Tell, At, TypeOK
  <2>2. /\ Len(deps[w]) \in Nat \ {0} /\ DOMAIN deps[w] = 1 .. Len(deps[w])
        /\ Head(deps[w]) = deps[w][1]
        /\ DOMAIN deps'[w] = 1 .. Len(deps[w]) - 1
        /\ \A i \in 2 .. Len(deps[w]) :
              i - 1 \in 1 .. Len(deps[w]) - 1 /\ deps'[w][i - 1] = deps[w][i]
    BY <2>1
  <2>3. Len(inbox) + 1 \in DOMAIN inbox' /\ inbox'[Len(inbox) + 1].req = Head(deps[w])
    BY <2>1
  <2>4. ASSUME NEW CONSTANT d, Untold(w, d) PROVE Noted(d)' \/ Untold(w, d)'
    <3>1. PICK i \in DOMAIN deps[w] : deps[w][i] = d
      BY <2>4 DEF Untold
    <3>2. CASE i = 1
      BY <2>2, <2>3, <3>1, <3>2 DEF Noted
    <3>3. CASE i # 1
      <4>1. i \in 2 .. Len(deps[w])
        BY <2>2, <3>3
      <4>2. QED
        BY <2>2, <3>1, <4>1 DEF Untold
    <3>4. QED
      BY <3>2, <3>3
  <2>5. QED
    BY <1>1, <1>4, <2>1, <2>4 DEF Closing, Telling
<1>5. CASE v = w /\ ~Inspect(w) /\ ~Tell(w)
  <2>1. ServiceOf[w] = "dependencer" => pc'[w] # "tell"
    BY <1>5, PipelineAssumption
    DEF Work, Take, Fail, Find, Unique, Repeat, Enqueue, Download, Curdle, Emit, Rest, At,
        QueueInstall, CountRead, CountStore, TypeOK
  <2>2. QED
    BY <1>5, <2>1 DEF Telling
<1>6. QED
  BY <1>2, <1>3, <1>4, <1>5

LEMMA HeardStep ==
    ASSUME Inv, Closing, NEW w \in Worker, Work(w)
    PROVE  Heard'
<1> USE DEF Inv
<1>1. \A d : Noted(d) => Noted(d)'
  BY NotedByWork
<1>2. main # "crashed"
  BY WorkFrame
<1>3. CASE wheels' = wheels
  BY <1>1, <1>2, <1>3 DEF Closing, Heard, Built
<1>4. CASE QueueInstall(w)
  <2>1. /\ ServiceOf[w] = "dependencer" /\ pc[w] = "tell" /\ deps[w] = <<>>
        /\ wheels' = [wheels EXCEPT ![job[w].req] = job[w].file]
        /\ job[w].req \in Requirement
    BY <1>4, JobType DEF QueueInstall, At
  <2>2. /\ wheels'[job[w].req] = job[w].file
        /\ \A r \in Requirement \ {job[w].req} : wheels'[r] = wheels[r]
    BY <2>1 DEF TypeOK, MappingTypeOK
  <2>3. \A i \in DOMAIN Requires[job[w].req][job[w].file.ver] :
            Noted(Requires[job[w].req][job[w].file.ver][i])
    BY <1>2, <2>1 DEF Closing, Telling, Untold
  <2>4. ASSUME NEW r \in Built' PROVE \A i \in DOMAIN Requires[r][wheels'[r].ver] :
                                        Noted(Requires[r][wheels'[r].ver][i])
    <3>1. CASE r = job[w].req
      BY <2>2, <2>3, <3>1
    <3>2. CASE r # job[w].req
      BY <1>2, <2>2, <2>4, <3>2 DEF Closing, Heard, Built
    <3>3. QED
      BY <3>1, <3>2
  <2>5. QED
    BY <1>1, <2>4 DEF Heard
<1>5. wheels' = wheels \/ QueueInstall(w)
  BY DEF Work, Take, Fail, Find, Unique, Repeat, Enqueue, Download, Curdle, Emit,
         Inspect, Tell, CountRead, CountStore, mapping
<1>6. QED
  BY <1>3, <1>4, <1>5

LEMMA ClosingStep ==
    ASSUME Inv, Closing, [Next]_vars
    PROVE  Closing'
<1>1. CASE Terminated \/ UNCHANGED vars
  <2>1. UNCHANGED <<mapping, pool, inbox, main, item>>
    BY <1>1 DEF Terminated, vars
  <2>2. \A d : Noted(d) => Noted(d)'
    BY <2>1 DEF mapping, Noted, DealtWith
  <2>3. QED
    BY <2>1, <2>2 DEF mapping, pool, Closing, Heard, Telling, Untold, Built
<1>2. QED
  BY <1>1, ClosingOfMain, TellingStep, HeardStep DEF Closing, Next

(***************************************************************************)
(* When installation starts and the inbox is empty, no dependency of a     *)
(* wheel is ignored: neither the dependencers' failures nor their          *)
(* messages' delay nor the filter for duplicates drop one.                 *)
(***************************************************************************)
THEOREM DependenciesDealtWith == Spec => []ClosureOnInstall
<1>1. Init => Closing
  BY DEF Init, MappingInit, Closing, Heard, Telling, Built
<1>2. Closing => ClosureOnInstall
  BY DEF Closing, Heard, Noted, ClosureOnInstall
<1>3. QED
  BY <1>1, <1>2, ClosingStep, Invariance, PTL DEF Spec
=============================================================================
