------------------------ MODULE RetrieveAndBuildProofs ------------------------
(***************************************************************************)
(* What holds of RetrieveAndBuild for every index, command line and pool.  *)
(***************************************************************************)
EXTENDS RetrieveAndBuild, FiniteSetTheorems, SequenceTheorems, TLAPS

\* Sets of requirements are finite, and their sizes are numbers
LEMMA FiniteRequirements ==
    ASSUME NEW S \in SUBSET Requirement
    PROVE  IsFiniteSet(S) /\ Cardinality(S) \in Nat
BY MappingAssumption, FS_Subset, FS_CardinalityType

\* A file in an answer of the index is in the index, and a checkout is no wheel
LEMMA IndexAnswers ==
    ASSUME TypeOK, NEW r \in Requirement
    PROVE  /\ WheelsFor(r) \subseteq FileFor("dependencer")
           /\ SourcesFor(r) \subseteq FileFor("curdler")
           /\ Found(r) \subseteq File
BY PipelineAssumption DEF WheelsFor, SourcesFor, IndexGet, Found, TypeOK, FileFor

\* Putting a job of the right kind in a queue keeps the queues well typed
LEMMA PutType ==
    ASSUME DOMAIN queue = Service,
           \A s \in Service : queue[s] \in Seq(JobOf(s)),
           NEW t \in Service, NEW r \in Requirement, NEW f \in FileFor(t),
           Put(t, r, f)
    PROVE  /\ DOMAIN queue' = Service
           /\ \A s \in Service : queue'[s] \in Seq(JobOf(s))
<1> DEFINE e == [req |-> r, file |-> f]
<1>1. e \in JobOf(t)
  BY DEF JobOf
<1>2. queue' = [queue EXCEPT ![t] = Append(@, e)]
  BY DEF Put
<1>3. Append(queue[t], e) \in Seq(JobOf(t))
  BY <1>1
<1> HIDE DEF e
<1>4. QED
  BY <1>2, <1>3

LEMMA InitType == Init => TypeOK
<1> SUFFICES ASSUME Init PROVE TypeOK
  OBVIOUS
<1>1. inbox \in Seq(Told)
  <2>1. PICK argv \in CommandLines :
          inbox = [i \in DOMAIN argv |-> [req |-> argv[i], parent |-> None]]
    BY DEF Init
  <2>2. argv \in Seq(Requirement)
    BY PipelineAssumption
  <2>3. Len(argv) \in Nat /\ DOMAIN argv = 1 .. Len(argv)
    BY <2>2
  <2>4. \A i \in 1 .. Len(argv) : [req |-> argv[i], parent |-> None] \in Told
    BY <2>2, <2>3 DEF Told
  <2>5. inbox \in [1 .. Len(argv) -> Told]
    BY <2>1, <2>3, <2>4
  <2>6. QED
    BY <2>3, <2>5, SeqDef
<1>2. MappingTypeOK /\ Built = {}
  BY DEF Init, MappingInit, MappingTypeOK, Built
<1>3. QED
  BY <1>1, <1>2, PipelineAssumption DEF Init, TypeOK, WorkerTypeOK, MainPC

LEMMA MainType == TypeOK /\ Main => TypeOK'
<1> SUFFICES ASSUME TypeOK, Main PROVE TypeOK'
  OBVIOUS
<1> USE FiniteRequirements, MappingAssumption, PipelineAssumption
<1>1. CASE Drop
  BY <1>1 DEF Drop, TypeOK, mapping, pool, loop, MappingTypeOK, WorkerTypeOK, Built
<1>2. CASE Look
  BY <1>2 DEF Look, TypeOK, mapping, pool, loop, MappingTypeOK, WorkerTypeOK, Built, MainPC
<1>3. CASE Crash \/ Prevail
  BY <1>3 DEF Crash, Prevail, TypeOK, mapping, pool, loop, MappingTypeOK, WorkerTypeOK, Built,
              MainPC, Ended
<1>4. CASE Accept
  BY <1>4 DEF Accept, Filed, TypeOK, mapping, pool, loop, MappingTypeOK, WorkerTypeOK, Built,
              MainPC, Told
<1>5. CASE SetWheel
  <2>1. item.req \in Requirement
    BY <1>5 DEF SetWheel, TypeOK, Told
  <2>2. CASE WheelsFor(item.req) # {}
    <3>1. PICK f \in WheelsFor(item.req) : Put("dependencer", item.req, f)
      BY <1>5, <2>2 DEF SetWheel
    <3>2. f \in FileFor("dependencer")
      BY <2>1, IndexAnswers
    <3>3. DOMAIN queue' = Service /\ \A s \in Service : queue'[s] \in Seq(JobOf(s))
      BY <2>1, <3>1, <3>2, PutType DEF TypeOK, Service
    <3>4. QED
      BY <1>5, <2>2, <3>3 DEF SetWheel, TypeOK, mapping, pool, loop, MappingTypeOK,
                              WorkerTypeOK, Built, MainPC
  <2>3. CASE WheelsFor(item.req) = {}
    BY <1>5, <2>3 DEF SetWheel, TypeOK, mapping, pool, loop, MappingTypeOK,
                      WorkerTypeOK, Built, MainPC
  <2>4. QED
    BY <2>2, <2>3
<1>6. CASE SetTarball \/ SetURL \/ AskFinder
  <2>1. item.req \in Requirement
    BY <1>6 DEF SetTarball, SetURL, AskFinder, TypeOK, Told
  <2>2. \E s \in Service : \E f \in FileFor(s) : Put(s, item.req, f)
    BY <1>6, <2>1, IndexAnswers
    DEF SetTarball, SetURL, AskFinder, FileFor, Service, is_url
  <2>3. DOMAIN queue' = Service /\ \A s \in Service : queue'[s] \in Seq(JobOf(s))
    BY <2>1, <2>2, PutType DEF TypeOK
  <2>4. processing_packages' \subseteq File
    BY <1>6, <2>1 DEF SetTarball, SetURL, AskFinder, TypeOK, is_url
  <2>5. QED
    BY <1>6, <2>3, <2>4 DEF SetTarball, SetURL, AskFinder, TypeOK, mapping, pool, loop,
                            MappingTypeOK, WorkerTypeOK, Built, MainPC
<1>7. CASE Empty
  BY <1>7 DEF Empty, TypeOK, mapping, pool, loop, MappingTypeOK, WorkerTypeOK, Built, MainPC
<1>8. CASE ReadTotal \/ ReadBuilt
  BY <1>8 DEF ReadTotal, ReadBuilt, Count, TypeOK, mapping, pool, loop, MappingTypeOK,
              WorkerTypeOK, Built, MainPC
<1>9. CASE Decide
  BY <1>9 DEF Decide, Verdict, TypeOK, mapping, pool, loop, MappingTypeOK, WorkerTypeOK, Built,
              MainPC, Ended
<1>10. CASE LoadInstaller
  BY <1>10 DEF LoadInstaller, TypeOK, mapping, pool, loop, MappingTypeOK, WorkerTypeOK, Built,
              MainPC, Ended
<1>11. QED
  BY <1>1, <1>2, <1>3, <1>4, <1>5, <1>6, <1>7, <1>8, <1>9, <1>10 DEF Main, Handle

\* A worker that lies down is well typed, and so are the others
LEMMA RestType ==
    ASSUME TypeOK, NEW w \in Worker, Rest(w)
    PROVE  /\ DOMAIN pc' = Worker /\ DOMAIN job' = Worker
           /\ \A v \in Worker : WorkerTypeOK(v)'
BY DEF TypeOK, Rest, WorkerTypeOK

\* A worker goes on with its job, whose file may have changed
LEMMA MoveType ==
    ASSUME TypeOK, NEW w \in Worker, NEW where,
           <<ServiceOf[w], where>> \in Stage,
           pc' = [pc EXCEPT ![w] = where],
           DOMAIN job' = Worker,
           \A v \in Worker \ {w} : job'[v] = job[v],
           job'[w] \in Job,
           ServiceOf[w] = "dependencer" => job'[w].file.fmt = "whl"
    PROVE  /\ DOMAIN pc' = Worker
           /\ \A v \in Worker : WorkerTypeOK(v)'
BY DEF TypeOK, WorkerTypeOK

\* What a worker that is awake holds
LEMMA JobType ==
    ASSUME TypeOK, NEW w \in Worker, pc[w] # "idle"
    PROVE  /\ job[w].req \in Requirement
           /\ pc[w] = "run" => job[w] \in JobOf(ServiceOf[w])
           /\ pc[w] # "run" => job[w] \in Job
           /\ ServiceOf[w] = "dependencer" => job[w] \in Job /\ job[w].file.fmt = "whl"
           /\ ServiceOf[w] # "finder" => job[w] \in Job
<1>1. WorkerTypeOK(w)
  BY DEF TypeOK
<1>2. CASE pc[w] = "run" /\ job[w] \in JobOf(ServiceOf[w])
  BY <1>2 DEF JobOf, Job, FileFor
<1>3. CASE pc[w] # "run"
  BY <1>1, <1>3 DEF WorkerTypeOK, Job, Stage
<1>4. QED
  BY <1>1, <1>2, <1>3 DEF WorkerTypeOK, Stage

LEMMA WorkType == TypeOK /\ (\E w \in Worker : Work(w)) => TypeOK'
<1> SUFFICES ASSUME TypeOK, NEW w \in Worker, Work(w) PROVE TypeOK'
  OBVIOUS
<1> USE MappingAssumption, PipelineAssumption
<1>1. CASE Take(w)
  <2> DEFINE s == ServiceOf[w]
  <2>1. s \in Service /\ queue[s] \in Seq(JobOf(s)) /\ queue[s] # <<>>
    BY <1>1 DEF Take, TypeOK
  <2>2. Head(queue[s]) \in JobOf(s) /\ Tail(queue[s]) \in Seq(JobOf(s))
    BY <2>1, HeadTailProperties
  <2> HIDE DEF s
  <2>3. /\ queue' = [queue EXCEPT ![s] = Tail(@)]
        /\ job' = [job EXCEPT ![w] = Head(queue[s])]
        /\ pc' = [pc EXCEPT ![w] = "run"]
    BY <1>1 DEF Take, s
  <2>4. DOMAIN queue' = Service /\ \A t \in Service : queue'[t] \in Seq(JobOf(t))
    BY <2>2, <2>3 DEF TypeOK
  <2>5. /\ DOMAIN pc' = Worker /\ DOMAIN job' = Worker
        /\ \A v \in Worker : WorkerTypeOK(v)'
    BY <2>2, <2>3 DEF TypeOK, WorkerTypeOK, s
  <2>6. QED
    BY <1>1, <2>4, <2>5 DEF Take, TypeOK, mapping, loop, MappingTypeOK, Built
<1>2. CASE Fail(w)
  <2>1. pc[w] # "idle" /\ Rest(w) /\ errors' = errors \cup {job[w].req}
    BY <1>2 DEF Fail, Error, At
  <2>2. job[w].req \in Requirement
    BY <2>1, JobType
  <2>3. Leftover(w) \subseteq File
    <3>1. ASSUME ServiceOf[w] = "curdler" PROVE WheelOf(job[w].file) \in File
      BY <2>1, <3>1, JobType DEF Job, WheelOf, File, Format
    <3>2. QED
      BY <3>1 DEF Leftover
  <2>4. storage' \subseteq File
    BY <1>2, <2>3 DEF Fail, TypeOK
  <2>5. deps' \in [Worker -> Seq(Requirement)]
    BY <1>2, EmptySeq DEF Fail, TypeOK
  <2>6. DOMAIN pc' = Worker /\ DOMAIN job' = Worker /\ \A v \in Worker : WorkerTypeOK(v)'
    BY <2>1, RestType
  <2>7. QED
    BY <1>2, <2>1, <2>2, <2>4, <2>5, <2>6 DEF Fail, TypeOK, mapping, loop, MappingTypeOK, Built
<1>3. CASE Find(w)
  <2>1. job[w].req \in Requirement /\ ServiceOf[w] = "finder" /\ job[w] \in JobOf("finder")
    BY <1>3, JobType DEF Find, At
  <2>2. PICK f \in Found(job[w].req) : job' = [job EXCEPT ![w].file = f]
    BY <1>3 DEF Find
  <2>3. f \in File
    BY <2>1, <2>2, IndexAnswers
  <2>4. DOMAIN job' = Worker /\ job'[w] \in Job /\ \A v \in Worker \ {w} : job'[v] = job[v]
    BY <2>1, <2>2, <2>3 DEF TypeOK, Job, JobOf
  <2>5. pc' = [pc EXCEPT ![w] = "unique"] /\ <<ServiceOf[w], "unique">> \in Stage
    BY <1>3, <2>1 DEF Find, Stage
  <2>6. DOMAIN pc' = Worker /\ \A v \in Worker : WorkerTypeOK(v)'
    BY <2>1, <2>4, <2>5, MoveType
  <2>7. QED
    BY <1>3, <2>4, <2>6 DEF Find, TypeOK, mapping, loop, MappingTypeOK, Built
<1>4. CASE Unique(w)
  BY <1>4 DEF Unique, At, TypeOK, mapping, loop, MappingTypeOK, WorkerTypeOK, Built, Stage
<1>5. CASE Repeat(w)
  BY <1>5, RestType, JobType DEF Repeat, SetAside, At, TypeOK, loop, MappingTypeOK, Built
<1>6. CASE Enqueue(w)
  <2>1. job[w] \in Job
    BY <1>6, JobType DEF Enqueue, At
  <2>2. job[w].file \in FileFor("downloader") /\ job[w].req \in Requirement
    BY <2>1 DEF Job, FileFor
  <2>3. DOMAIN queue' = Service /\ \A t \in Service : queue'[t] \in Seq(JobOf(t))
    BY <1>6, <2>2, PutType DEF Enqueue, TypeOK, Service
  <2>4. QED
    BY <1>6, <2>1, <2>3, RestType
    DEF Enqueue, TypeOK, mapping, loop, MappingTypeOK, Built, Job
<1>7. CASE Download(w)
  <2>1. job[w] \in Job /\ ServiceOf[w] = "downloader"
    BY <1>7, JobType DEF Download, At
  <2>2. DOMAIN pc' = Worker /\ \A v \in Worker : WorkerTypeOK(v)'
    <3>1. /\ <<ServiceOf[w], "emit">> \in Stage
          /\ pc' = [pc EXCEPT ![w] = "emit"]
          /\ DOMAIN job' = Worker /\ job' = job
      BY <1>7, <2>1 DEF Download, TypeOK, Stage
    <3>2. QED
      BY <2>1, <3>1, MoveType
  <2>3. storage' \subseteq File
    BY <1>7, <2>1 DEF Download, TypeOK, Job
  <2>4. QED
    BY <1>7, <2>2, <2>3 DEF Download, TypeOK, mapping, loop, MappingTypeOK, Built
<1>8. CASE Curdle(w)
  <2>1. job[w] \in Job /\ ServiceOf[w] = "curdler"
    BY <1>8, JobType DEF Curdle, At
  <2>2. WheelOf(job[w].file) \in File
    BY <2>1 DEF Job, WheelOf, File, Format
  <2>3. DOMAIN job' = Worker /\ job'[w] \in Job /\ \A v \in Worker \ {w} : job'[v] = job[v]
    BY <1>8, <2>1, <2>2 DEF Curdle, TypeOK, Job
  <2>4. DOMAIN pc' = Worker /\ \A v \in Worker : WorkerTypeOK(v)'
    <3>1. pc' = [pc EXCEPT ![w] = "emit"] /\ <<ServiceOf[w], "emit">> \in Stage
      BY <1>8, <2>1 DEF Curdle, Stage
    <3>2. QED
      BY <2>1, <2>3, <3>1, MoveType
  <2>5. storage' \subseteq File
    BY <1>8, <2>2 DEF Curdle, TypeOK
  <2>6. QED
    BY <1>8, <2>3, <2>4, <2>5 DEF Curdle, TypeOK, mapping, loop, MappingTypeOK, Built
<1>9. CASE Emit(w)
  <2>1. job[w] \in Job
    BY <1>9, JobType DEF Emit, At
  <2>2. /\ NextService(job[w].file) \in Service
        /\ job[w].file \in FileFor(NextService(job[w].file)) /\ job[w].req \in Requirement
    BY <2>1 DEF Job, FileFor, NextService, Service
  <2>3. DOMAIN queue' = Service /\ \A t \in Service : queue'[t] \in Seq(JobOf(t))
    BY <1>9, <2>2, PutType DEF Emit, TypeOK
  <2>4. QED
    BY <1>9, <2>3, RestType DEF Emit, TypeOK, mapping, loop, MappingTypeOK, Built
<1>10. CASE Inspect(w)
  <2>1. job[w] \in Job /\ ServiceOf[w] = "dependencer" /\ job[w].file.fmt = "whl"
    BY <1>10, JobType DEF Inspect, At
  <2>2. DOMAIN pc' = Worker /\ \A v \in Worker : WorkerTypeOK(v)'
    <3>1. /\ <<ServiceOf[w], "tell">> \in Stage
          /\ pc' = [pc EXCEPT ![w] = "tell"]
          /\ DOMAIN job' = Worker /\ job' = job
      BY <1>10, <2>1 DEF Inspect, TypeOK, Stage
    <3>2. QED
      BY <2>1, <3>1, MoveType
  <2>3. Requires[job[w].req][job[w].file.ver] \in Seq(Requirement)
    <3>1. job[w].req \in Requirement /\ job[w].file.ver \in Version
      BY <2>1 DEF Job, File
    <3>2. Requires[job[w].req] \in [Version -> Seq(Requirement)]
      BY <3>1
    <3>3. QED
      BY <3>1, <3>2
  <2>4. QED
    BY <1>10, <2>2, <2>3 DEF Inspect, TypeOK, mapping, loop, MappingTypeOK, Built
<1>11. CASE Tell(w)
  <2>1. job[w] \in Job
    BY <1>11, JobType DEF Tell, At
  <2>2. deps[w] \in Seq(Requirement) /\ deps[w] # <<>>
    BY <1>11 DEF Tell, TypeOK
  <2>3. Head(deps[w]) \in Requirement /\ Tail(deps[w]) \in Seq(Requirement)
    BY <2>2, HeadTailProperties
  <2>4. [req |-> Head(deps[w]), parent |-> job[w].req] \in Told
    BY <2>1, <2>3 DEF Told, Job
  <2>5. inbox' \in Seq(Told)
    BY <1>11, <2>4, AppendProperties DEF Tell, TypeOK
  <2>6. QED
    BY <1>11, <2>3, <2>5 DEF Tell, TypeOK, mapping, loop, MappingTypeOK, Built, WorkerTypeOK
<1>12. CASE QueueInstall(w)
  <2>1. job[w] \in Job /\ ServiceOf[w] = "dependencer" /\ job[w].file.fmt = "whl"
    BY <1>12, JobType DEF QueueInstall, At
  <2>2. DOMAIN pc' = Worker /\ \A v \in Worker : WorkerTypeOK(v)'
    <3>1. /\ <<ServiceOf[w], "count">> \in Stage
          /\ pc' = [pc EXCEPT ![w] = "count"]
          /\ DOMAIN job' = Worker /\ job' = job
      BY <1>12, <2>1 DEF QueueInstall, TypeOK, Stage
    <3>2. QED
      BY <2>1, <3>1, MoveType
  <2>3. MappingTypeOK' /\ (\A r \in Built : wheels[r].fmt = "whl")'
    BY <1>12, <2>1 DEF QueueInstall, TypeOK, MappingTypeOK, Built, Job
  <2>4. QED
    BY <1>12, <2>2, <2>3 DEF QueueInstall, TypeOK, loop
<1>13. CASE CountRead(w)
  BY <1>13 DEF CountRead, At, TypeOK, mapping, loop, MappingTypeOK, WorkerTypeOK, Built, Stage
<1>14. CASE CountStore(w)
  BY <1>14, RestType DEF CountStore, At, TypeOK, loop, MappingTypeOK, Built
<1>15. QED
  BY <1>1, <1>2, <1>3, <1>4, <1>5, <1>6, <1>7, <1>8, <1>9, <1>10, <1>11, <1>12, <1>13, <1>14
  DEF Work

LEMMA NextType == TypeOK /\ [Next]_vars => TypeOK'
<1> SUFFICES ASSUME TypeOK, UNCHANGED vars PROVE TypeOK'
  BY MainType, WorkType DEF Next, Terminated
<1> QED
  BY DEF TypeOK, vars, mapping, pool, loop, MappingTypeOK, Built, WorkerTypeOK

(***************************************************************************)
(* Every variable of retrieve_and_build has its type: a service is handed  *)
(* the kind of file it works on, and only wheels are recorded as wheels.   *)
(***************************************************************************)
THEOREM TypeCorrect == Spec => []TypeOK
<1>1. QED
  BY InitType, NextType, PTL DEF Spec

-----------------------------------------------------------------------------
(* One place per requirement: how tokens move *)

\* Nothing moves: a step that changes neither queues, nor who holds what
LEMMA Stays ==
    ASSUME OnePlace,
           queue' = queue, Holders' = Holders,
           \A w \in Holders : job'[w].req = job[w].req,
           AtMain' => AtMain /\ item' = item,
           UNCHANGED <<requirements, wheels, errors>>
    PROVE  OnePlace'
BY DEF OnePlace, Pending, Settled, Built

\* A worker gets rid of its requirement, which is settled or set aside
LEMMA Leaves ==
    ASSUME OnePlace, NEW w \in Holders,
           queue' = queue, Holders' = Holders \ {w},
           \A v \in Holders \ {w} : job'[v] = job[v],
           UNCHANGED <<main, item>>,
           Pending' = Pending \ {job[w].req},
           Settled' \subseteq requirements',
           Built' \cap errors' = {}
    PROVE  OnePlace'
BY DEF OnePlace, AtMain

\* Appending to a queue
LEMMA PutFacts ==
    ASSUME TypeOK, NEW s \in Service, NEW r, NEW f, Put(s, r, f)
    PROVE  /\ \A t \in Service \ {s} : queue'[t] = queue[t]
           /\ \A t \in Service : DOMAIN queue[t] = 1 .. Len(queue[t]) /\ Len(queue[t]) \in Nat
           /\ DOMAIN queue'[s] = 1 .. Len(queue[s]) + 1
           /\ \A i \in DOMAIN queue[s] : queue'[s][i] = queue[s][i]
           /\ queue'[s][Len(queue[s]) + 1].req = r
BY DEF TypeOK, Put

\* A requirement enters a queue from the main thread or from a worker
LEMMA Enters ==
    ASSUME TypeOK, OnePlace, NEW s \in Service, NEW r \in Pending, NEW f, Put(s, r, f),
           \A t \in Service : \A i \in DOMAIN queue[t] : queue[t][i].req # r,
           Holders' \subseteq Holders,
           \A v \in Holders' : job'[v] = job[v] /\ job[v].req # r,
           AtMain' => AtMain /\ item' = item /\ item.req # r,
           UNCHANGED <<requirements, wheels, errors>>
    PROVE  OnePlace'
<1>1. Pending' = Pending /\ Settled' = Settled /\ Built' = Built
  BY DEF Pending, Settled, Built
<1>2. \A t \in Service : \A i \in DOMAIN queue'[t] :
        \/ i \in DOMAIN queue[t] /\ queue'[t][i] = queue[t][i]
        \/ t = s /\ i = Len(queue[s]) + 1 /\ queue'[t][i].req = r
  BY PutFacts
<1>3. \A t \in Service : \A i \in DOMAIN queue'[t] : queue'[t][i].req \in Pending
  BY <1>2 DEF OnePlace
<1>4. ASSUME NEW t \in Service, NEW u \in Service,
             NEW i \in DOMAIN queue'[t], NEW j \in DOMAIN queue'[u],
             queue'[t][i].req = queue'[u][j].req
      PROVE  t = u /\ i = j
  <2>1. CASE i \in DOMAIN queue[t] /\ queue'[t][i] = queue[t][i]
    BY <1>2, <1>4, <2>1 DEF OnePlace
  <2>2. CASE t = s /\ i = Len(queue[s]) + 1 /\ queue'[t][i].req = r
    BY <1>2, <1>4, <2>2
  <2>3. QED
    BY <1>2, <2>1, <2>2
<1>5. ASSUME NEW v \in Holders', NEW t \in Service, NEW i \in DOMAIN queue'[t]
      PROVE  job'[v].req # queue'[t][i].req
  BY <1>2 DEF OnePlace
<1>6. AtMain' => \A t \in Service : \A i \in DOMAIN queue'[t] : item'.req # queue'[t][i].req
  BY <1>2 DEF OnePlace
<1>7. (\A v, w \in Holders : job[v].req = job[w].req => v = w)'
  BY DEF OnePlace
<1>8. (\A w \in Holders : job[w].req \in Pending)'
  BY <1>1 DEF OnePlace
<1>9. (AtMain => item.req \in Pending /\ \A w \in Holders : item.req # job[w].req)'
  BY <1>1 DEF OnePlace
<1>10. QED
  BY <1>1, <1>3, <1>4, <1>5, <1>6, <1>7, <1>8, <1>9 DEF OnePlace

\* A worker takes the first job of the queue of its service
LEMMA Taken ==
    ASSUME TypeOK, OnePlace, NEW w \in Worker, Take(w)
    PROVE  OnePlace'
<1> DEFINE s == ServiceOf[w]
<1>1. s \in Service /\ queue[s] \in Seq(JobOf(s)) /\ queue[s] # <<>>
  BY PipelineAssumption DEF Take, TypeOK
<1>2. /\ queue' = [queue EXCEPT ![s] = Tail(@)]
      /\ job' = [job EXCEPT ![w] = Head(queue[s])]
      /\ pc' = [pc EXCEPT ![w] = "run"]
      /\ pc[w] = "idle"
      /\ UNCHANGED <<requirements, wheels, errors, main, item>>
  BY DEF Take, At, mapping
<1> HIDE DEF s
<1>3. /\ Len(Tail(queue[s])) = Len(queue[s]) - 1 /\ Len(queue[s]) \in Nat \ {0}
      /\ \A i \in 1 .. Len(queue[s]) - 1 : Tail(queue[s])[i] = queue[s][i + 1]
      /\ Head(queue[s]) = queue[s][1]
      /\ DOMAIN Tail(queue[s]) = 1 .. Len(queue[s]) - 1
      /\ DOMAIN queue[s] = 1 .. Len(queue[s])
  BY <1>1
<1>4. \A t \in Service : \A i \in DOMAIN queue'[t] :
        \/ t # s /\ i \in DOMAIN queue[t] /\ queue'[t][i] = queue[t][i]
        \/ /\ t = s /\ i \in Nat /\ i # 0 /\ i + 1 \in DOMAIN queue[t]
           /\ queue'[t][i] = queue[t][i + 1]
  BY <1>1, <1>2, <1>3 DEF TypeOK
<1>5. /\ w \notin Holders /\ Holders' = Holders \cup {w}
      /\ job'[w].req = queue[s][1].req /\ 1 \in DOMAIN queue[s]
      /\ \A v \in Holders : job'[v] = job[v]
  BY <1>2, <1>3 DEF Holders, TypeOK
<1>6. Pending' = Pending /\ Settled' = Settled /\ Built' = Built /\ AtMain' = AtMain
  BY <1>2 DEF Pending, Settled, Built, AtMain
<1>7. \A t \in Service : \A i \in DOMAIN queue'[t] :
        queue'[t][i].req \in Pending /\ queue'[t][i].req # queue[s][1].req
  <2> SUFFICES ASSUME NEW t \in Service, NEW i \in DOMAIN queue'[t]
               PROVE  queue'[t][i].req \in Pending /\ queue'[t][i].req # queue[s][1].req
    OBVIOUS
  <2>1. CASE t # s /\ i \in DOMAIN queue[t] /\ queue'[t][i] = queue[t][i]
    BY <1>1, <1>5, <2>1 DEF OnePlace
  <2>2. CASE /\ t = s /\ i \in Nat /\ i # 0 /\ i + 1 \in DOMAIN queue[t]
             /\ queue'[t][i] = queue[t][i + 1]
    <3>1. i + 1 # 1
      BY <2>2
    <3>2. QED
      BY <1>1, <1>5, <2>2, <3>1 DEF OnePlace
  <2>3. QED
    BY <1>4, <2>1, <2>2
<1>8. ASSUME NEW t \in Service, NEW u \in Service,
             NEW i \in DOMAIN queue'[t], NEW j \in DOMAIN queue'[u],
             queue'[t][i].req = queue'[u][j].req
      PROVE  t = u /\ i = j
  <2>1. CASE t # s /\ i \in DOMAIN queue[t] /\ queue'[t][i] = queue[t][i]
    BY <1>4, <1>8, <2>1 DEF OnePlace
  <2>2. CASE /\ t = s /\ i \in Nat /\ i + 1 \in DOMAIN queue[t]
             /\ queue'[t][i] = queue[t][i + 1]
    <3>1. CASE u # s /\ j \in DOMAIN queue[u] /\ queue'[u][j] = queue[u][j]
      BY <1>8, <2>2, <3>1 DEF OnePlace
    <3>2. CASE /\ u = s /\ j \in Nat /\ j + 1 \in DOMAIN queue[u]
               /\ queue'[u][j] = queue[u][j + 1]
      <4>1. i + 1 = j + 1
        BY <1>8, <2>2, <3>2 DEF OnePlace
      <4>2. QED
        BY <2>2, <3>2, <4>1
    <3>3. QED
      BY <1>4, <3>1, <3>2
  <2>3. QED
    BY <1>4, <2>1, <2>2
<1>9. ASSUME NEW v \in Holders', NEW t \in Service, NEW i \in DOMAIN queue'[t]
      PROVE  job'[v].req # queue'[t][i].req
  BY <1>4, <1>5, <1>7 DEF OnePlace
<1>10. (\A u, v \in Holders : job[u].req = job[v].req => u = v)'
  BY <1>1, <1>5 DEF OnePlace
<1>11. (\A v \in Holders : job[v].req \in Pending)'
  BY <1>1, <1>5, <1>6 DEF OnePlace
<1>12. AtMain' => /\ item' = item /\ item.req \in Pending
                  /\ \A v \in Holders' : item.req # job'[v].req
                  /\ \A t \in Service : \A i \in DOMAIN queue'[t] : item.req # queue'[t][i].req
  BY <1>1, <1>2, <1>4, <1>5, <1>6 DEF OnePlace
<1>13. Settled' \subseteq requirements' /\ Built' \cap errors' = {}
  BY <1>2, <1>6 DEF OnePlace
<1>14. QED
  BY <1>6, <1>7, <1>8, <1>9, <1>10, <1>11, <1>12, <1>13 DEF OnePlace

\* The main thread files a requirement, which nothing works on
LEMMA Accepted ==
    ASSUME TypeOK, OnePlace, Scanning, Accept
    PROVE  OnePlace'
<1>1. /\ item.req \in Requirement /\ item.req \notin requirements /\ item' = item
      /\ requirements' = requirements \cup {item.req}
      /\ main = "scan" /\ main' = "wheel"
      /\ UNCHANGED <<wheels, errors, queue, pc, job>>
  BY DEF Accept, Filed, Scanning, TypeOK, Told, pool
<1>2. Pending' = Pending \cup {item.req} /\ Settled' = Settled /\ Built' = Built
  BY <1>1 DEF OnePlace, Pending, Settled, Built
<1>3. Holders' = Holders /\ AtMain' /\ item.req \notin Pending
  BY <1>1 DEF Holders, AtMain, Pending
<1>4. QED
  BY <1>1, <1>2, <1>3 DEF OnePlace

LEMMA OnePlaceMain ==
    ASSUME TypeOK, OnePlace, Scanning, Main
    PROVE  OnePlace'
<1>1. CASE Drop \/ Look \/ Crash \/ Prevail \/ Empty \/ ReadTotal \/ ReadBuilt \/ Decide
              \/ LoadInstaller
  <2>1. ~AtMain' /\ UNCHANGED <<queue, pc, job, requirements, wheels, errors>>
    BY <1>1 DEF Drop, Look, Crash, Prevail, Empty, ReadTotal, ReadBuilt, Decide, Verdict,
                LoadInstaller, AtMain, mapping, pool
  <2>2. QED
    BY <2>1, Stays DEF Holders
<1>2. CASE Accept
  BY <1>2, Accepted
<1>3. CASE SetWheel \/ SetTarball \/ SetURL \/ AskFinder
  <2>1. AtMain /\ item.req \in Pending /\ UNCHANGED <<pc, job, requirements, wheels, errors>>
    BY <1>3 DEF SetWheel, SetTarball, SetURL, AskFinder, AtMain, OnePlace, mapping, pool
  <2>2. Holders' = Holders /\ \A w \in Holders : job'[w] = job[w]
    BY <2>1 DEF Holders
  <2>3. CASE main' = "tarball"
    <3>1. queue' = queue /\ item' = item
      BY <1>3, <2>3 DEF SetWheel, SetTarball, SetURL, AskFinder
    <3>2. QED
      BY <2>1, <2>2, <3>1, Stays
  <2>4. CASE main' = "drain"
    <3>1. PICK s \in Service, f \in File \cup {None} : Put(s, item.req, f)
      <4>1. item.req \in Requirement
        BY <1>3 DEF SetWheel, SetTarball, SetURL, AskFinder, TypeOK, Told
      <4>2. CASE SetWheel
        BY <2>4, <4>1, <4>2, IndexAnswers DEF SetWheel, FileFor, Service
      <4>3. CASE SetTarball
        BY <4>1, <4>3, IndexAnswers DEF SetTarball, FileFor, Service
      <4>4. CASE SetURL \/ AskFinder
        BY <4>1, <4>4, PipelineAssumption DEF SetURL, AskFinder, Service
      <4>5. QED
        BY <1>3, <4>2, <4>3, <4>4
    <3>2. ~AtMain'
      BY <2>4 DEF AtMain
    <3>3. /\ \A t \in Service : \A i \in DOMAIN queue[t] : queue[t][i].req # item.req
          /\ \A w \in Holders : job[w].req # item.req
      BY <2>1 DEF OnePlace
    <3>4. QED
      BY <2>1, <2>2, <3>1, <3>2, <3>3, Enters
  <2>5. QED
    BY <1>3, <2>3, <2>4 DEF SetWheel, SetTarball, SetURL, AskFinder
<1>4. QED
  BY <1>1, <1>2, <1>3 DEF Main, Handle

\* A worker that lies down holds nothing any more
LEMMA RestHolders ==
    ASSUME TypeOK, NEW w \in Holders, Rest(w)
    PROVE  Holders' = Holders \ {w} /\ \A v \in Holders \ {w} : job'[v] = job[v]
BY DEF Holders, Rest, TypeOK

LEMMA OnePlaceWork ==
    ASSUME TypeOK, OnePlace, NEW w \in Worker, Work(w)
    PROVE  OnePlace'
<1>1. CASE Take(w)
  BY <1>1, Taken
<1>2. CASE Fail(w) \/ Repeat(w)
  <2>1. w \in Holders /\ job[w].req \in Requirement
    BY <1>2, JobType DEF Fail, Repeat, At, Holders
  <2>2. job[w].req \in Pending /\ job[w].req \notin Settled
    BY <2>1 DEF OnePlace, Pending
  <2>3. Holders' = Holders \ {w} /\ \A v \in Holders \ {w} : job'[v] = job[v]
    BY <1>2, <2>1, RestHolders DEF Fail, Repeat
  <2>4. UNCHANGED <<queue, main, item, wheels>>
    BY <1>2 DEF Fail, Repeat
  <2>5. CASE Fail(w)
    <3>1. errors' = errors \cup {job[w].req} /\ requirements' = requirements
      BY <2>5 DEF Fail, Error
    <3>2. /\ Pending' = Pending \ {job[w].req}
          /\ Settled' \subseteq requirements' /\ Built' \cap errors' = {}
      BY <2>2, <2>4, <3>1 DEF OnePlace, Pending, Settled, Built
    <3>3. QED
      BY <2>1, <2>3, <2>4, <3>2, Leaves
  <2>6. CASE Repeat(w)
    <3>1. requirements' = requirements \ {job[w].req} /\ errors' = errors
      BY <2>6 DEF Repeat, SetAside
    <3>2. /\ Pending' = Pending \ {job[w].req}
          /\ Settled' \subseteq requirements' /\ Built' \cap errors' = {}
      BY <2>2, <2>4, <3>1 DEF OnePlace, Pending, Settled, Built
    <3>3. QED
      BY <2>1, <2>3, <2>4, <3>2, Leaves
  <2>7. QED
    BY <1>2, <2>5, <2>6
<1>3. CASE Find(w) \/ Unique(w) \/ Download(w) \/ Curdle(w) \/ Inspect(w) \/ Tell(w)
  <2>1. /\ Holders' = Holders /\ \A v \in Holders : job'[v].req = job[v].req
        /\ UNCHANGED <<queue, main, item, requirements, wheels, errors>>
    <3>1. CASE Find(w)
      <4>1. job[w] \in JobOf("finder")
        BY <3>1, JobType DEF Find, At
      <4>2. QED
        BY <3>1, <4>1 DEF Find, At, Holders, TypeOK, mapping, JobOf
    <3>2. CASE Curdle(w)
      <4>1. job[w] \in Job
        BY <3>2, JobType DEF Curdle, At
      <4>2. QED
        BY <3>2, <4>1 DEF Curdle, At, Holders, TypeOK, mapping, Job
    <3>3. CASE Unique(w) \/ Download(w) \/ Inspect(w) \/ Tell(w)
      BY <3>3 DEF Unique, Download, Inspect, Tell, At, Holders, TypeOK, mapping
    <3>4. QED
      BY <1>3, <3>1, <3>2, <3>3
  <2>2. QED
    BY <2>1, Stays DEF AtMain
<1>4. CASE Enqueue(w) \/ Emit(w)
  <2>1. w \in Holders /\ job[w] \in Job
    BY <1>4, JobType DEF Enqueue, Emit, At, Holders
  <2>2. PICK s \in Service : Put(s, job[w].req, job[w].file)
    BY <1>4 DEF Enqueue, Emit, NextService, Service
  <2>3. Holders' = Holders \ {w} /\ \A v \in Holders \ {w} : job'[v] = job[v]
    BY <1>4, <2>1, RestHolders DEF Enqueue, Emit
  <2>4. UNCHANGED <<main, item, requirements, wheels, errors>>
    BY <1>4 DEF Enqueue, Emit, mapping
  <2>5. /\ job[w].req \in Pending
        /\ \A t \in Service : \A i \in DOMAIN queue[t] : queue[t][i].req # job[w].req
        /\ \A v \in Holders \ {w} : job[v].req # job[w].req
        /\ AtMain => item.req # job[w].req
    BY <2>1 DEF OnePlace
  <2>6. AtMain' => AtMain /\ item' = item
    BY <2>4 DEF AtMain
  <2>7. QED
    BY <2>1, <2>2, <2>3, <2>4, <2>5, <2>6, Enters
<1>5. CASE QueueInstall(w)
  <2>1. /\ w \in Holders /\ job[w] \in Job /\ pc' = [pc EXCEPT ![w] = "count"]
        /\ UNCHANGED <<queue, job, main, item, requirements, errors>>
        /\ wheels' = [wheels EXCEPT ![job[w].req] = job[w].file]
    BY <1>5, JobType DEF QueueInstall, At, Holders
  <2>2. job[w].req \in Pending
    BY <2>1 DEF OnePlace
  <2>3. Holders' = Holders \ {w}
    BY <2>1 DEF Holders, TypeOK
  <2>4. Built' = Built \cup {job[w].req}
    BY <2>1, MappingAssumption DEF Built, Job, TypeOK, MappingTypeOK
  <2>5. /\ Pending' = Pending \ {job[w].req}
        /\ Settled' \subseteq requirements' /\ Built' \cap errors' = {}
    BY <2>1, <2>2, <2>4 DEF OnePlace, Pending, Settled
  <2>6. QED
    BY <2>1, <2>3, <2>5, Leaves
<1>6. CASE CountRead(w) \/ CountStore(w)
  <2>1. /\ Holders' = Holders /\ \A v \in Holders : job'[v] = job[v]
        /\ UNCHANGED <<queue, main, item, requirements, wheels, errors>>
    BY <1>6 DEF CountRead, CountStore, At, Rest, Holders, TypeOK, mapping
  <2>2. QED
    BY <2>1, Stays DEF AtMain
<1>7. QED
  BY <1>1, <1>2, <1>3, <1>4, <1>5, <1>6 DEF Work

-----------------------------------------------------------------------------
(* The counter *)

LEMMA Sizes ==
    ASSUME TypeOK
    PROVE  /\ IsFiniteSet(Built) /\ Cardinality(Built) \in Nat
           /\ IsFiniteSet(errors) /\ Cardinality(errors) \in Nat
           /\ IsFiniteSet(requirements) /\ Cardinality(requirements) \in Nat
           /\ IsFiniteSet(Counting) /\ Cardinality(Counting) \in Nat
<1>1. Built \subseteq Requirement /\ errors \subseteq Requirement /\ requirements \subseteq Requirement
  BY DEF TypeOK, MappingTypeOK, Built
<1>2. IsFiniteSet(Counting) /\ Cardinality(Counting) \in Nat
  BY PipelineAssumption, FS_Subset, FS_CardinalityType DEF Counting
<1>3. QED
  BY <1>1, <1>2, FiniteRequirements

LEMMA ScanningStep ==
    ASSUME TypeOK, Scanning, Next
    PROVE  Scanning'
<1>1. CASE Main
  BY <1>1 DEF Scanning, Main, Handle, Drop, Look, Crash, Prevail, Accept, SetWheel, SetTarball,
              SetURL, AskFinder, Empty, ReadTotal, ReadBuilt, Decide, Verdict, LoadInstaller,
              Ignored, Known, mapping
<1>2. ASSUME NEW w \in Worker, Work(w) PROVE Scanning'
  <2>1. main' = main /\ item' = item /\ requirements' \subseteq requirements
    BY <1>2 DEF Work, Take, Fail, Find, Unique, Repeat, SetAside, Enqueue, Download, Curdle, Emit,
                Inspect, Tell, QueueInstall, CountRead, CountStore, mapping
  <2>2. QED
    BY <2>1 DEF Scanning
<1>3. CASE Terminated
  BY <1>3 DEF Terminated, vars, mapping, Scanning
<1>4. QED
  BY <1>1, <1>2, <1>3 DEF Next

LEMMA AccountingMain ==
    ASSUME TypeOK, Accounting, Main
    PROVE  Accounting'
<1>1. UNCHANGED <<built, wheels, errors, pc, reg>>
  BY DEF Main, Handle, Drop, Look, Crash, Prevail, Accept, SetWheel, SetTarball, SetURL, AskFinder,
         Empty, ReadTotal, ReadBuilt, Decide, LoadInstaller, mapping, pool
<1>2. Counting' = Counting /\ Built' = Built
  BY <1>1 DEF Counting, Built
<1>3. CASE ReadTotal
  <2>1. main' = "built" /\ requirements' = requirements /\ total' = Cardinality(requirements)
    BY <1>3 DEF ReadTotal, mapping
  <2>2. QED
    BY <1>1, <1>2, <2>1, Sizes DEF Accounting
<1>4. CASE ReadBuilt
  <2>1. /\ main = "built" /\ main' = "failed" /\ nbuilt' = built
        /\ requirements' = requirements /\ total' = total
    BY <1>4 DEF ReadBuilt, Count, mapping
  <2>2. QED
    BY <1>1, <1>2, <2>1 DEF Accounting
<1>5. CASE Handle \/ Empty \/ Decide \/ LoadInstaller
  <2>1. main' \notin {"built", "failed"}
    BY <1>5 DEF Handle, Drop, Look, Crash, Prevail, Accept, SetWheel, SetTarball, SetURL, AskFinder,
                Empty, Decide, Verdict, LoadInstaller
  <2>2. QED
    BY <1>1, <1>2, <2>1 DEF Accounting
<1>6. QED
  BY <1>3, <1>4, <1>5 DEF Main

LEMMA AccountingWork ==
    ASSUME TypeOK, OnePlace, Accounting, NEW w \in Worker, Work(w)
    PROVE  Accounting'
<1>1. UNCHANGED <<main, total, nbuilt>>
  BY DEF Work, Take, Fail, Find, Unique, Repeat, Enqueue, Download, Curdle, Emit,
         Inspect, Tell, QueueInstall, CountRead, CountStore, loop
<1>2. Cardinality(requirements') <= Cardinality(requirements) /\ Cardinality(requirements') \in Nat
  <2>1. requirements' \subseteq requirements
    BY DEF Work, Take, Fail, Find, Unique, Repeat, SetAside, Enqueue, Download, Curdle, Emit,
           Inspect, Tell, QueueInstall, CountRead, CountStore, mapping
  <2>2. QED
    BY <2>1, Sizes, FS_Subset, FS_CardinalityType
<1>3. total \in Nat /\ nbuilt \in Nat /\ built \in Nat /\ \A v \in Worker : reg[v] \in Nat
  BY DEF TypeOK, MappingTypeOK
<1>4. main' \in {"built", "failed"} => Cardinality(requirements') <= total'
  BY <1>1, <1>2, <1>3, Sizes DEF Accounting
<1>5. CASE \/ Take(w) \/ Fail(w) \/ Find(w) \/ Unique(w) \/ Repeat(w) \/ Enqueue(w)
           \/ Download(w) \/ Curdle(w) \/ Emit(w) \/ Inspect(w) \/ Tell(w)
  <2>1. UNCHANGED <<built, wheels, reg>>
    BY <1>5 DEF Take, Fail, Find, Unique, Repeat, Enqueue, Download, Curdle, Emit, Inspect, Tell,
                mapping
  <2>2. Counting' = Counting /\ \A v \in Counting : pc'[v] = pc[v]
    BY <1>5 DEF Take, Fail, Find, Unique, Repeat, Enqueue, Download, Curdle, Emit, Inspect, Tell,
                At, Rest, Counting, TypeOK
  <2>3. QED
    BY <1>1, <1>4, <2>1, <2>2 DEF Accounting, Built
<1>6. CASE QueueInstall(w)
  <2>1. /\ w \in Holders /\ w \notin Counting /\ job[w] \in Job
        /\ pc' = [pc EXCEPT ![w] = "count"] /\ UNCHANGED <<built, reg>>
        /\ wheels' = [wheels EXCEPT ![job[w].req] = job[w].file]
    BY <1>6, JobType DEF QueueInstall, At, Holders, Counting
  <2>2. Counting' = Counting \cup {w} /\ pc'[w] = "count" /\ \A v \in Counting : pc'[v] = pc[v]
    BY <2>1 DEF Counting, TypeOK
  <2>3. Cardinality(Counting') = Cardinality(Counting) + 1
    BY <2>1, <2>2, Sizes, FS_AddElement
  <2>4. Built' = Built \cup {job[w].req} /\ job[w].req \notin Built
    BY <2>1, MappingAssumption DEF OnePlace, Pending, Settled, Built, Job, TypeOK, MappingTypeOK
  <2>5. Cardinality(Built') = Cardinality(Built) + 1
    BY <2>4, Sizes, FS_AddElement
  <2>6. \A v \in Counting' :
          pc'[v] = "store" => reg'[v] + Cardinality(Counting') <= Cardinality(Built')
    BY <1>3, <2>1, <2>2, <2>3, <2>5, Sizes DEF Accounting, Counting
  <2>7. QED
    BY <1>1, <1>3, <1>4, <2>1, <2>3, <2>5, <2>6, Sizes DEF Accounting
<1>7. CASE CountRead(w)
  <2>1. /\ w \in Counting /\ Counting' = Counting /\ UNCHANGED <<built, wheels>>
        /\ \A v \in Counting \ {w} : pc'[v] = pc[v] /\ reg'[v] = reg[v]
        /\ reg'[w] = built
    BY <1>7 DEF CountRead, At, Counting, TypeOK, mapping
  <2>2. Built' = Built
    BY <2>1 DEF Built
  <2>3. QED
    BY <1>1, <1>4, <2>1, <2>2 DEF Accounting
<1>8. CASE CountStore(w)
  <2>1. /\ w \in Counting /\ pc[w] = "store" /\ Counting' = Counting \ {w}
        /\ built' = reg[w] + 1 /\ wheels' = wheels
        /\ \A v \in Counting \ {w} : pc'[v] = pc[v] /\ reg'[v] = reg[v]
    BY <1>8 DEF CountStore, At, Rest, Counting, TypeOK
  <2>2. Cardinality(Counting') = Cardinality(Counting) - 1
    BY <2>1, Sizes, FS_RemoveElement
  <2>3. Built' = Built
    BY <2>1 DEF Built
  <2>4. \A v \in Counting' :
          pc'[v] = "store" => reg'[v] + Cardinality(Counting') <= Cardinality(Built')
    BY <1>3, <2>1, <2>2, <2>3, Sizes DEF Accounting, Counting
  <2>5. built' + Cardinality(Counting') <= Cardinality(Built')
    <3>1. reg[w] + Cardinality(Counting) <= Cardinality(Built)
      BY <2>1 DEF Accounting
    <3>2. QED
      BY <1>3, <2>1, <2>2, <2>3, <3>1, Sizes
  <2>6. main' = "failed" => nbuilt' + Cardinality(Counting') <= Cardinality(Built')
    BY <1>1, <1>3, <2>2, <2>3, Sizes DEF Accounting
  <2>7. QED
    BY <1>4, <2>4, <2>5, <2>6 DEF Accounting
<1>9. QED
  BY <1>5, <1>6, <1>7, <1>8 DEF Work

-----------------------------------------------------------------------------
(* When the loop breaks *)

(***************************************************************************)
(* If the three numbers agree, then so do the sets they count:             *)
(*   |Settled| <= |requirements| <= total = nbuilt + |errors|              *)
(*             <= |Built| - |Counting| + |errors| = |Settled| - |Counting| *)
(***************************************************************************)
LEMMA NumbersAgree ==
    ASSUME TypeOK, OnePlace, Accounting, main = "failed", total = nbuilt + Cardinality(errors)
    PROVE  requirements = Settled /\ Counting = {}
<1>1. IsFiniteSet(Settled) /\ Cardinality(Settled) = Cardinality(Built) + Cardinality(errors)
  <2>1. Cardinality(Built \cap errors) = 0
    BY FS_EmptySet DEF OnePlace
  <2>2. /\ IsFiniteSet(Settled)
        /\ Cardinality(Settled)
             = Cardinality(Built) + Cardinality(errors) - Cardinality(Built \cap errors)
    BY Sizes, FS_Union DEF Settled
  <2>3. QED
    BY <2>1, <2>2, Sizes
<1>2. Cardinality(Settled) <= Cardinality(requirements)
  BY Sizes, FS_Subset DEF OnePlace
<1>3. /\ Cardinality(requirements) <= total
      /\ nbuilt + Cardinality(Counting) <= Cardinality(Built)
      /\ total \in Nat /\ nbuilt \in Nat
  BY DEF Accounting, TypeOK
<1>4. Cardinality(Counting) = 0 /\ Cardinality(Settled) = Cardinality(requirements)
  BY <1>1, <1>2, <1>3, Sizes
<1>5. Settled \subseteq requirements
  BY DEF OnePlace
<1>6. QED
  BY <1>4, <1>5, Sizes, FS_Subset, FS_EmptySet

\* With nothing pending there is nothing in flight
LEMMA NothingPending ==
    ASSUME TypeOK, OnePlace, requirements = Settled, Counting = {}
    PROVE  /\ \A s \in Service : queue[s] = <<>>
           /\ \A w \in Worker : pc[w] = "idle"
<1>1. Pending = {}
  BY DEF Pending
<1>2. ASSUME NEW s \in Service PROVE queue[s] = <<>>
  <2>1. queue[s] \in Seq(JobOf(s)) /\ DOMAIN queue[s] = {}
    BY <1>1 DEF OnePlace, TypeOK
  <2>2. QED
    BY <2>1
<1>3. ASSUME NEW w \in Worker PROVE pc[w] = "idle"
  <2>1. w \notin Holders /\ w \notin Counting
    BY <1>1 DEF OnePlace
  <2>2. WorkerTypeOK(w)
    BY DEF TypeOK
  <2>3. QED
    BY <2>1, <2>2 DEF Holders, Counting, WorkerTypeOK, Stage
<1>4. QED
  BY <1>2, <1>3

LEMMA QuietStep ==
    ASSUME TypeOK, OnePlace, Accounting, QuietOnLoad, Next
    PROVE  QuietOnLoad'
<1>1. CASE Decide
  <2>1. main = "failed" /\ UNCHANGED <<requirements, wheels, errors, queue, pc>>
    BY <1>1 DEF Decide, mapping, pool
  <2>2. main' = "load" => total = nbuilt + Cardinality(errors)
    BY <1>1 DEF Decide, Verdict
  <2>3. main' \notin {"install", "report"}
    BY <1>1 DEF Decide, Verdict
  <2>4. QED
    BY <2>1, <2>2, <2>3, NumbersAgree, NothingPending DEF QuietOnLoad, Settled, Built
<1>2. CASE LoadInstaller
  BY <1>2 DEF LoadInstaller, mapping, pool, QuietOnLoad, Settled, Built
<1>3. CASE Handle \/ Empty \/ ReadTotal \/ ReadBuilt
  BY <1>3 DEF Handle, Drop, Look, Crash, Prevail, Accept, SetWheel, SetTarball, SetURL, AskFinder,
              Empty, ReadTotal, ReadBuilt, QuietOnLoad
<1>4. ASSUME NEW w \in Worker, Work(w) PROVE QuietOnLoad'
  <2>1. main' = main
    BY <1>4 DEF Work, Take, Fail, Find, Unique, Repeat, Enqueue, Download, Curdle, Emit,
                Inspect, Tell, QueueInstall, CountRead, CountStore
  <2>2. pc[w] = "idle" => ServiceOf[w] \in Service /\ queue[ServiceOf[w]] # <<>>
    BY <1>4, PipelineAssumption
    DEF Work, Take, Fail, Find, Unique, Repeat, Enqueue, Download, Curdle, Emit,
        Inspect, Tell, QueueInstall, CountRead, CountStore, At
  <2>3. QED
    BY <2>1, <2>2 DEF QuietOnLoad
<1>5. CASE Terminated
  BY <1>5 DEF Terminated, vars, mapping, pool, QuietOnLoad, Settled, Built
<1>6. QED
  BY <1>1, <1>2, <1>3, <1>4, <1>5 DEF Next, Main

-----------------------------------------------------------------------------
(* The theorems *)

Inv == TypeOK /\ OnePlace /\ Scanning /\ Accounting /\ QuietOnLoad

LEMMA InitInv == Init => Inv
<1> SUFFICES ASSUME Init PROVE Inv
  OBVIOUS
<1>1. TypeOK
  BY InitType
<1>2. Built = {} /\ errors = {} /\ Counting = {} /\ Holders = {} /\ main = "drain"
  BY DEF Init, MappingInit, Built, Counting, Holders
<1>3. OnePlace
  BY <1>2 DEF Init, MappingInit, OnePlace, Settled, AtMain
<1>4. Accounting
  BY <1>2, FS_EmptySet DEF Init, MappingInit, Accounting
<1>5. QED
  BY <1>1, <1>2, <1>3, <1>4 DEF Inv, Scanning, QuietOnLoad

LEMMA NextInv == Inv /\ [Next]_vars => Inv'
<1> SUFFICES ASSUME Inv, [Next]_vars PROVE Inv'
  OBVIOUS
<1>1. CASE Next
  <2>1. TypeOK'
    BY <1>1, NextType DEF Inv
  <2>2. CASE Main
    BY <1>1, <2>1, <2>2, OnePlaceMain, ScanningStep, AccountingMain, QuietStep DEF Inv
  <2>3. CASE \E w \in Worker : Work(w)
    BY <1>1, <2>1, <2>3, OnePlaceWork, ScanningStep, AccountingWork, QuietStep DEF Inv
  <2>4. CASE Terminated
    BY <2>1, <2>4
    DEF Terminated, vars, mapping, pool, loop, Inv, OnePlace, Scanning, Accounting, QuietOnLoad,
        Pending, Settled, Built, Holders, Counting, AtMain
  <2>5. QED
    BY <1>1, <2>2, <2>3, <2>4 DEF Next
<1>2. CASE UNCHANGED vars
  <2>1. TypeOK'
    BY <1>2, NextType DEF Inv
  <2>2. QED
    BY <1>2, <2>1
    DEF vars, mapping, pool, loop, Inv, OnePlace, Scanning, Accounting, QuietOnLoad,
        Pending, Settled, Built, Holders, Counting, AtMain
<1>3. QED
  BY <1>1, <1>2

THEOREM Invariance == Spec => []Inv
<1>1. QED
  BY InitInv, NextInv, PTL DEF Spec

(***************************************************************************)
(* Whatever the pools and the timing, no requirement is worked on twice,   *)
(* and none has two results.                                               *)
(***************************************************************************)
THEOREM WorkedOnOnce == Spec => []OnePlace
<1>1. Inv => OnePlace
  BY DEF Inv
<1>2. QED
  BY <1>1, Invariance, PTL

(***************************************************************************)
(* The unlocked counter never runs ahead of the wheels recorded.           *)
(***************************************************************************)
THEOREM CounterBehind == Spec => []Accounting
<1>1. Inv => Accounting
  BY DEF Inv
<1>2. QED
  BY <1>1, Invariance, PTL

(***************************************************************************)
(* retrieve_and_build never goes on to load_installer while a service is   *)
(* at work or a filed requirement lacks its result.                        *)
(***************************************************************************)
THEOREM QuietWhenDone == Spec => []QuietOnLoad
<1>1. Inv => QuietOnLoad
  BY DEF Inv
<1>2. QED
  BY <1>1, Invariance, PTL

-----------------------------------------------------------------------------
(* Retrieve and Build implements Lifecycle *)

\* Steps that Lifecycle does not see
LEMMA Unseen ==
    ASSUME UNCHANGED <<requirements, wheels, errors>>,
           main' \in {"load", "install", "report"} <=> main \in {"load", "install", "report"}
    PROVE  UNCHANGED L!vars
BY DEF L!vars, Built

LEMMA MainImplements ==
    ASSUME Inv, Main
    PROVE  [L!Next]_(L!vars)
<1>1. CASE Accept
  <2>1. /\ item.req \in Requirement /\ item.req \notin requirements
        /\ main = "scan" /\ main' = "wheel" /\ UNCHANGED <<wheels, errors>>
        /\ requirements' = requirements \cup {item.req}
    BY <1>1 DEF Accept, Filed, Inv, Scanning, TypeOK, Told
  <2>2. L!File(item.req)
    BY <2>1 DEF L!File, Built
  <2>3. QED
    BY <2>1, <2>2 DEF L!Next
<1>2. CASE Decide
  <2>1. main = "failed" /\ UNCHANGED <<requirements, wheels, errors>>
    BY <1>2 DEF Decide, mapping
  <2>2. CASE main' = "load"
    <3>1. requirements = Settled
      BY <1>2, <2>1, <2>2, NumbersAgree DEF Decide, Verdict, Inv
    <3>2. L!End
      BY <2>1, <2>2, <3>1 DEF L!End, L!Waiting, Settled, Built
    <3>3. QED
      BY <3>2 DEF L!Next
  <2>3. CASE main' # "load"
    BY <1>2, <2>1, <2>3, Unseen DEF Decide, Verdict
  <2>4. QED
    BY <2>2, <2>3
<1>3. CASE LoadInstaller
  BY <1>3, Unseen DEF LoadInstaller, mapping
<1>4. CASE \/ Drop \/ Look \/ Crash \/ Prevail \/ SetWheel \/ SetTarball \/ SetURL \/ AskFinder
           \/ Empty \/ ReadTotal \/ ReadBuilt
  BY <1>4, Unseen DEF Drop, Look, Crash, Prevail, SetWheel, SetTarball, SetURL, AskFinder,
                      Empty, ReadTotal, ReadBuilt, mapping
<1>5. QED
  BY <1>1, <1>2, <1>3, <1>4 DEF Main, Handle

LEMMA WorkImplements ==
    ASSUME Inv, NEW w \in Worker, Work(w)
    PROVE  [L!Next]_(L!vars)
<1>1. main' = main
  BY DEF Work, Take, Fail, Find, Unique, Repeat, Enqueue, Download, Curdle, Emit,
         Inspect, Tell, QueueInstall, CountRead, CountStore
<1>2. CASE Fail(w) \/ Repeat(w) \/ QueueInstall(w)
  <2>1. w \in Holders /\ job[w].req \in Requirement
    BY <1>2, JobType DEF Fail, Repeat, QueueInstall, At, Holders, Inv
  <2>2. job[w].req \in Pending
    BY <2>1 DEF Inv, OnePlace
  <2>3. main \notin {"load", "install", "report"}
    BY <2>1 DEF Inv, QuietOnLoad, Holders
  <2>4. CASE Fail(w)
    <3>1. L!Fail(job[w].req)
      BY <1>1, <2>2, <2>3, <2>4
      DEF Fail, Error, L!Fail, L!Waiting, Pending, Settled, Built
    <3>2. QED
      BY <2>1, <3>1 DEF L!Next
  <2>5. CASE Repeat(w)
    <3>1. L!SetAside(job[w].req)
      BY <1>1, <2>2, <2>3, <2>5
      DEF Repeat, SetAside, L!SetAside, L!Waiting, Pending, Settled, Built
    <3>2. QED
      BY <2>1, <3>1 DEF L!Next
  <2>6. CASE QueueInstall(w)
    <3>1. Built' = Built \cup {job[w].req}
      <4>1. job[w] \in Job /\ wheels' = [wheels EXCEPT ![job[w].req] = job[w].file]
        BY <2>6, JobType DEF QueueInstall, At, Inv
      <4>2. QED
        BY <4>1, MappingAssumption DEF Built, Job, Inv, TypeOK, MappingTypeOK
    <3>2. L!Finish(job[w].req)
      BY <1>1, <2>2, <2>3, <2>6, <3>1
      DEF QueueInstall, L!Finish, L!Waiting, Pending, Settled
    <3>3. QED
      BY <2>1, <3>2 DEF L!Next
  <2>7. QED
    BY <1>2, <2>4, <2>5, <2>6
<1>3. CASE \/ Take(w) \/ Find(w) \/ Unique(w) \/ Enqueue(w) \/ Download(w) \/ Curdle(w)
           \/ Emit(w) \/ Inspect(w) \/ Tell(w) \/ CountRead(w) \/ CountStore(w)
  BY <1>1, <1>3, Unseen DEF Take, Find, Unique, Enqueue, Download, Curdle, Emit, Inspect, Tell,
                            CountRead, CountStore, mapping
<1>4. QED
  BY <1>2, <1>3 DEF Work

(***************************************************************************)
(* The pipeline of threads, queues and unlocked counters implements the    *)
(* abstract life cycle of requirements.                                    *)
(***************************************************************************)
THEOREM ImplementsLifecycle == Spec => LifecycleSpec
<1>1. Init => L!Init
  BY DEF Init, MappingInit, L!Init, Built
<1>2. Inv /\ [Next]_vars => [L!Next]_(L!vars)
  <2> SUFFICES ASSUME Inv, [Next]_vars PROVE [L!Next]_(L!vars)
    OBVIOUS
  <2>1. CASE UNCHANGED vars \/ Terminated
    BY <2>1, Unseen DEF Terminated, vars, mapping
  <2>2. QED
    BY <2>1, MainImplements, WorkImplements DEF Next
<1>3. QED
  BY <1>1, <1>2, Invariance, PTL DEF Spec, LifecycleSpec, L!Spec
=============================================================================
