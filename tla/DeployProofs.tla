----------------------------- MODULE DeployProofs -----------------------------
(***************************************************************************)
(* Deploy for every number of packages, servers and threads.  Both loops   *)
(* end on a sum that workers change while it is read; what makes the       *)
(* result right is that the sum errs on one side only.                     *)
(***************************************************************************)
EXTENDS Deploy, FiniteSetTheorems, TLAPS

\* Tasks of a service that are not finished
Open(s) == Len(queue[s]) + Cardinality(Busy(s))

HasTask(s, t) ==
    \/ \E i \in DOMAIN queue[s] : queue[s][i] = t
    \/ \E w \in Worker : ServiceOf[w] = s /\ pc[w] = "run" /\ job[w] = t

\* A thread works for a service that was started, an uploader for a server
ThreadsStarted == \A w \in Worker : pc[w] # "idle" => ServiceOf[w] \in started

Addressed ==
    /\ \A i \in DOMAIN queue["uploader"] : queue["uploader"][i].server \in Server
    /\ \A w \in Worker : ServiceOf[w] = "uploader" /\ pc[w] # "idle" => job[w].server \in Server

\* No package is forgotten
PackagesKept ==
    \A p \in packages : p \in installed \cup errors
                          \/ HasTask("installer", [pkg |-> p, server |-> Nothing])

\* The installer's counter, or what a thread or the main thread read of it,
\* is not ahead
Slack(x) == x + Open("installer") + Cardinality(errors) <= Cardinality(packages)

Installing ==
    main \in {"start", "installed", "failed"} =>
        /\ Slack(stats["installer"])
        /\ \A w \in Worker : ServiceOf[w] = "installer" /\ pc[w] = "store" => Slack(reg[w])
        /\ main = "failed" => Slack(count)

\* All the packages are installed before anything else happens
Passed ==
    /\ main \in {"gate", "load", "uploaded", "exit 0"} => leftover = 0 /\ packages \subseteq installed
    /\ main = "gate" => errors = {}

UploaderWaits ==
    IF "uploader" \in started
    THEN main \in {"load", "uploaded", "exit 0"}
    ELSE /\ main \notin {"load", "uploaded"}
         /\ stats["uploader"] = 0 /\ queue["uploader"] = <<>> /\ uploaded = {}

\* Nothing a server misses is forgotten
MissingKept ==
    \A i \in DOMAIN missing :
        \/ missing[i] \in uploaded
        \/ \E t \in Task : HasTask("uploader", t) /\ missing[i] = <<t.server, t.pkg>>
        \/ \E j \in DOMAIN todo : todo[j] = missing[i]

\* The uploader's counter is not ahead; if it is not behind, all went well
Room(x) ==
    /\ x + Open("uploader") + Len(todo) <= Len(missing)
    /\ x + Open("uploader") + Len(todo) = Len(missing) => MissingKept

Uploading ==
    main \in {"load", "uploaded"} =>
        /\ Room(stats["uploader"])
        /\ \A w \in Worker : ServiceOf[w] = "uploader" /\ pc[w] = "store" => Room(reg[w])
        /\ main = "uploaded" => todo = <<>>

Inv ==
    /\ TypeOK /\ ThreadsStarted /\ Addressed /\ PackagesKept /\ Installing
    /\ Passed /\ UploaderWaits /\ Uploading /\ InstallSettled /\ TrueSuccess

-----------------------------------------------------------------------------
(* Threads and their tasks *)

LEMMA BusyFinite ==
    ASSUME NEW s
    PROVE  IsFiniteSet(Busy(s)) /\ Cardinality(Busy(s)) \in Nat
<1>1. Busy(s) \subseteq Worker
  BY DEF Busy
<1>2. QED
  BY <1>1, DeployAssumption, FS_Subset, FS_CardinalityType

LEMMA OpenNat ==
    ASSUME TypeOK, NEW s \in Service
    PROVE  Len(queue[s]) \in Nat /\ Open(s) \in Nat
BY BusyFinite DEF TypeOK, Open

LEMMA JobType ==
    ASSUME TypeOK, NEW w \in Worker, pc[w] # "idle"
    PROVE  job[w] \in Task /\ job[w].pkg \in Package
BY DEF TypeOK, Task

\* A thread that works works for a service that was started, before the end
LEMMA WorkFrame ==
    ASSUME Inv, NEW w \in Worker, Work(w)
    PROVE  /\ ServiceOf[w] \in started /\ main \notin Exits
           /\ UNCHANGED <<request, started, main, count, todo>>
           /\ \A v \in Worker \ {w} :
                 pc'[v] = pc[v] /\ job'[v] = job[v] /\ reg'[v] = reg[v]
BY DEF Work, Take, Fail, InstallWheel, UploadWheel, CountRead, CountStore, At, Rest, Inv, TypeOK

\* Which service works when
LEMMA Phases ==
    ASSUME Inv, NEW w \in Worker, Work(w)
    PROVE  IF main \in {"start", "installed", "failed"} THEN ServiceOf[w] = "installer"
           ELSE IF main \in {"load", "uploaded"} THEN ServiceOf[w] = "uploader"
           ELSE main = "signal" /\ leftover # 0 /\ ServiceOf[w] = "installer"
<1>1. ServiceOf[w] \in Service /\ ServiceOf[w] \in started /\ main \notin Exits
  BY WorkFrame, DeployAssumption
<1>2. pc[w] = "idle" => queue[ServiceOf[w]] # <<>>
  BY DEF Work, Take, Fail, InstallWheel, UploadWheel, CountRead, CountStore, At
<1>3. pc[w] # "idle" => Busy(ServiceOf[w]) # {}
  BY DEF Busy
<1>4. QED
  BY <1>1, <1>2, <1>3 DEF Inv, TypeOK, MainPC, Exits, Service, InstallSettled, UploaderWaits, Passed

LEMMA TakeType ==
    ASSUME TypeOK, NEW w \in Worker, Take(w)
    PROVE  /\ ServiceOf[w] \in Service
           /\ Len(queue[ServiceOf[w]]) \in Nat \ {0}
           /\ DOMAIN queue[ServiceOf[w]] = 1 .. Len(queue[ServiceOf[w]])
           /\ queue[ServiceOf[w]] \in Seq(Task)
           /\ queue'[ServiceOf[w]] = Tail(queue[ServiceOf[w]])
           /\ \A s \in Service \ {ServiceOf[w]} : queue'[s] = queue[s]
           /\ Tail(queue[ServiceOf[w]]) \in Seq(Task)
           /\ Len(Tail(queue[ServiceOf[w]])) = Len(queue[ServiceOf[w]]) - 1
           /\ DOMAIN Tail(queue[ServiceOf[w]]) = 1 .. Len(queue[ServiceOf[w]]) - 1
           /\ \A i \in 2 .. Len(queue[ServiceOf[w]]) :
                 /\ i - 1 \in 1 .. Len(queue[ServiceOf[w]]) - 1
                 /\ Tail(queue[ServiceOf[w]])[i - 1] = queue[ServiceOf[w]][i]
           /\ job'[w] = queue[ServiceOf[w]][1] /\ job'[w] \in Task
           /\ pc[w] = "idle" /\ pc'[w] = "run"
<1>1. ServiceOf[w] \in Service
  BY DeployAssumption
<1>2. queue[ServiceOf[w]] \in Seq(Task) /\ queue[ServiceOf[w]] # <<>>
  BY <1>1 DEF Take, TypeOK
<1>3. /\ queue'[ServiceOf[w]] = Tail(queue[ServiceOf[w]])
      /\ \A s \in Service \ {ServiceOf[w]} : queue'[s] = queue[s]
      /\ job'[w] = Head(queue[ServiceOf[w]])
      /\ pc[w] = "idle" /\ pc'[w] = "run"
  BY <1>1 DEF Take, At, TypeOK
<1>4. QED
  BY <1>1, <1>2, <1>3

\* Tasks that a service has not finished: none is added by a thread
LEMMA OpenStep ==
    ASSUME Inv, NEW w \in Worker, Work(w), NEW s \in Service
    PROVE  Open(s)' = IF (Fail(w) \/ CountStore(w)) /\ ServiceOf[w] = s
                      THEN Open(s) - 1 ELSE Open(s)
<1> USE DEF Inv
<1>1. CASE ServiceOf[w] # s
  <2>1. Busy(s)' = Busy(s)
    BY <1>1, WorkFrame DEF Busy
  <2>2. queue'[s] = queue[s]
    BY <1>1 DEF Work, Take, Fail, InstallWheel, UploadWheel, CountRead, CountStore, TypeOK
  <2>3. Open(s)' = Open(s)
    BY <2>1, <2>2 DEF Open
  <2>4. QED
    BY <1>1, <2>3
<1>2. CASE ServiceOf[w] = s /\ Take(w)
  <2>1. ~Fail(w) /\ ~CountStore(w)
    BY <1>2, TakeType DEF Fail, CountStore, At
  <2>2. w \notin Busy(s) /\ Busy(s)' = Busy(s) \cup {w}
    BY <1>2, TakeType, WorkFrame DEF Busy
  <2>3. Cardinality(Busy(s)') = Cardinality(Busy(s)) + 1
    BY <2>2, BusyFinite, FS_AddElement
  <2>4. Len(queue'[s]) = Len(queue[s]) - 1 /\ Len(queue[s]) \in Nat
    BY <1>2, TakeType
  <2>5. Open(s)' = Open(s)
    BY <2>3, <2>4, BusyFinite DEF Open
  <2>6. QED
    BY <2>1, <2>5
<1>3. CASE ServiceOf[w] = s /\ (Fail(w) \/ CountStore(w))
  <2>1. w \in Busy(s) /\ Busy(s)' = Busy(s) \ {w} /\ queue' = queue
    BY <1>3, WorkFrame DEF Fail, CountStore, At, Rest, Busy, TypeOK
  <2>2. Cardinality(Busy(s)') = Cardinality(Busy(s)) - 1
    BY <2>1, BusyFinite, FS_RemoveElement
  <2>3. QED
    BY <1>3, <2>1, <2>2, BusyFinite, OpenNat DEF Open
<1>4. CASE ServiceOf[w] = s /\ ~Take(w) /\ ~Fail(w) /\ ~CountStore(w)
  <2>1. pc[w] # "idle" /\ pc'[w] # "idle" /\ queue' = queue
    BY <1>4 DEF Work, InstallWheel, UploadWheel, CountRead, At, TypeOK
  <2>2. Busy(s)' = Busy(s)
    BY <2>1, WorkFrame DEF Busy
  <2>3. QED
    BY <1>4, <2>1, <2>2 DEF Open
<1>5. QED
  BY <1>1, <1>2, <1>3, <1>4

\* A task is there until the thread that has it is done with it
LEMMA TaskStays ==
    ASSUME Inv, NEW w \in Worker, Work(w), NEW CONSTANT s \in Service, NEW CONSTANT t,
           HasTask(s, t)
    PROVE  \/ HasTask(s, t)'
           \/ /\ ServiceOf[w] = s /\ pc[w] = "run" /\ job[w] = t
              /\ Fail(w) \/ InstallWheel(w) \/ UploadWheel(w)
<1> USE DEF Inv
<1>1. CASE Take(w)
  <2>1. ASSUME NEW i \in DOMAIN queue[s], queue[s][i] = t PROVE HasTask(s, t)'
    <3>1. CASE s # ServiceOf[w]
      BY <1>1, <2>1, <3>1, TakeType DEF HasTask
    <3>2. CASE s = ServiceOf[w] /\ i = 1
      BY <1>1, <2>1, <3>2, TakeType DEF HasTask
    <3>3. CASE s = ServiceOf[w] /\ i # 1
      <4>1. i \in 2 .. Len(queue[s])
        BY <1>1, <3>3, TakeType
      <4>2. /\ queue'[s] = Tail(queue[s]) /\ DOMAIN Tail(queue[s]) = 1 .. Len(queue[s]) - 1
            /\ i - 1 \in 1 .. Len(queue[s]) - 1 /\ Tail(queue[s])[i - 1] = queue[s][i]
        BY <1>1, <3>3, <4>1, TakeType
      <4>3. QED
        BY <2>1, <4>2 DEF HasTask
    <3>4. QED
      BY <3>1, <3>2, <3>3
  <2>2. ASSUME NEW v \in Worker, ServiceOf[v] = s, pc[v] = "run", job[v] = t PROVE HasTask(s, t)'
    BY <1>1, <2>2, TakeType, WorkFrame DEF HasTask
  <2>3. QED
    BY <2>1, <2>2 DEF HasTask
<1>2. CASE ~Take(w)
  <2>1. queue' = queue
    BY <1>2 DEF Work, Fail, InstallWheel, UploadWheel, CountRead, CountStore
  <2>2. pc[w] = "run" => Fail(w) \/ InstallWheel(w) \/ UploadWheel(w)
    BY <1>2 DEF Work, CountRead, CountStore, At
  <2>3. QED
    BY <2>1, <2>2, WorkFrame DEF HasTask
<1>3. QED
  BY <1>1, <1>2

-----------------------------------------------------------------------------
(* Types *)

LEMMA InitType == Init => TypeOK
<1> SUFFICES ASSUME Init PROVE TypeOK
  OBVIOUS
<1>1. packages \in SUBSET Package /\ missing \in Seq(Server \X Package) /\ leftover \in Nat
  <2>1. /\ packages \in SUBSET Package
        /\ missing \in NotFound \cup {<<>>}
        /\ leftover \in 0 .. MaxLeftover
    BY DEF Init
  <2> DEFINE Lists == Seq(Server \X Package)
  <2>5. <<>> \in Lists /\ NotFound \subseteq Lists
    BY DeployAssumption
  <2> HIDE DEF Lists
  <2>6. missing \in Lists
    BY <2>1, <2>5
  <2>2. missing \in Seq(Server \X Package)
    BY <2>6 DEF Lists
  <2>3. leftover \in Nat
    BY <2>1, DeployAssumption
  <2>4. QED
    BY <2>1, <2>2, <2>3
<1>2. Cardinality(packages) \in Nat
  BY <1>1, DeployAssumption, FS_Subset, FS_CardinalityType
<1>3. queue \in [Service -> Seq(Task)]
  <2>1. PICK order \in [1 .. Cardinality(packages) -> packages] :
          queue = [s \in Service |->
                      IF s = "installer"
                      THEN [i \in DOMAIN order |-> [pkg |-> order[i], server |-> Nothing]]
                      ELSE <<>>]
    BY DEF Init
  <2>2. PICK n \in Nat : DOMAIN order = 1 .. n
    BY <1>2, <2>1
  <2>3. \A i \in 1 .. n : [pkg |-> order[i], server |-> Nothing] \in Task
    BY <1>1, <2>1, <2>2 DEF Task
  <2>4. [i \in 1 .. n |-> [pkg |-> order[i], server |-> Nothing]] \in Seq(Task)
    BY <2>3
  <2>5. <<>> \in Seq(Task)
    OBVIOUS
  <2>6. QED
    BY <2>1, <2>2, <2>4, <2>5
<1>4. QED
  BY <1>1, <1>3 DEF Init, TypeOK, MainPC

LEMMA MainType ==
    ASSUME Inv, Main
    PROVE  TypeOK'
<1> USE DEF Inv, TypeOK
<1>2. CASE LoadUploader
  <2>1. Head(todo) \in Server \X Package /\ Tail(todo) \in Seq(Server \X Package)
    BY <1>2 DEF LoadUploader
  <2>2. [pkg |-> Head(todo)[2], server |-> Head(todo)[1]] \in Task
    BY <2>1 DEF Task
  <2>3. queue["uploader"] \in Seq(Task)
    BY DEF Service
  <2>4. Append(queue["uploader"], [pkg |-> Head(todo)[2], server |-> Head(todo)[1]]) \in Seq(Task)
    BY <2>2, <2>3
  <2>5. queue' \in [Service -> Seq(Task)]
    BY <1>2, <2>4 DEF LoadUploader
  <2>6. QED
    BY <1>2, <2>1, <2>5 DEF LoadUploader, request, site, pool
<1>3. CASE ~LoadUploader
  <2>1. UNCHANGED <<request, queue, errors, stats, site, pool>>
    BY <1>3 DEF Main, StartInstaller, ReadInstalled, CompareInstalled, Signal, Gate, Loaded, CompareUploaded
  <2>2. main' \in MainPC
    BY <1>3 DEF Main, StartInstaller, ReadInstalled, CompareInstalled, Signal, Gate, Loaded,
                CompareUploaded, Goto, MainPC, Exits
  <2>3. started' \in SUBSET Service
    BY <1>3 DEF Main, StartInstaller, ReadInstalled, CompareInstalled, Signal, Gate, Loaded,
                CompareUploaded, Service
  <2>4. count' \in {count, stats["installer"], 0}
    BY <1>3 DEF Main, StartInstaller, ReadInstalled, CompareInstalled, Signal, Gate, Loaded, CompareUploaded
  <2>5. todo' \in {todo, missing, <<>>}
    BY <1>3 DEF Main, StartInstaller, ReadInstalled, CompareInstalled, Signal, Gate, Loaded, CompareUploaded
  <2> DEFINE Lists == Seq(Server \X Package)
  <2>6. <<>> \in Lists /\ todo \in Lists /\ missing \in Lists
    OBVIOUS
  <2> HIDE DEF Lists
  <2>7. todo' \in Lists
    BY <2>5, <2>6
  <2>8. count' \in Nat
    BY <2>4 DEF Service
  <2>0. count' \in Nat /\ todo' \in Seq(Server \X Package)
    BY <2>7, <2>8 DEF Lists
  <2>9. QED
    BY <2>0, <2>1, <2>2, <2>3 DEF request, site, pool
<1>4. QED
  BY <1>2, <1>3

LEMMA WorkType ==
    ASSUME Inv, NEW w \in Worker, Work(w)
    PROVE  TypeOK'
<1> USE DEF Inv
<1>1. CASE Take(w)
  <2>1. queue' \in [Service -> Seq(Task)]
    BY <1>1, TakeType DEF Take, TypeOK
  <2>2. job'[w] \in Task /\ job'[w] # Nothing
    BY <1>1, TakeType, DeployAssumption
  <2>3. QED
    BY <1>1, <2>1, <2>2, TakeType DEF Take, At, TypeOK, request, site
<1>2. CASE ~Take(w)
  <2>1. pc[w] # "idle" /\ job[w] \in Task /\ job[w].pkg \in Package
    BY <1>2, JobType DEF Work, Fail, InstallWheel, UploadWheel, CountRead, CountStore, At
  <2>2. CASE Fail(w)
    BY <2>1, <2>2 DEF Fail, Rest, Remember, TypeOK, request, site
  <2>3. CASE InstallWheel(w)
    BY <2>1, <2>3 DEF InstallWheel, TypeOK, request
  <2>4. CASE UploadWheel(w)
    <3>1. <<job[w].server, job[w].pkg>> \in Server \X Package
      BY <2>1, <2>4 DEF UploadWheel, Addressed
    <3>2. QED
      BY <2>1, <2>4, <3>1 DEF UploadWheel, TypeOK, request
  <2>5. CASE CountRead(w) \/ CountStore(w)
    <3>1. stats[ServiceOf[w]] \in Nat /\ reg[w] \in Nat
      BY DeployAssumption DEF TypeOK
    <3>2. CASE CountRead(w)
      BY <2>1, <3>1, <3>2 DEF CountRead, TypeOK, request, site
    <3>3. CASE CountStore(w)
      <4>1. stats' \in [Service -> Nat] /\ reg' \in [Worker -> Nat]
        <5>1. stats \in [Service -> Nat] /\ reg \in [Worker -> Nat]
          BY DEF TypeOK
        <5>2. stats' = [stats EXCEPT ![ServiceOf[w]] = reg[w] + 1] /\ reg' = [reg EXCEPT ![w] = 0]
          BY <3>3 DEF CountStore
        <5>3. reg[w] + 1 \in Nat
          BY <3>1
        <5>4. QED
          BY <5>1, <5>2, <5>3
      <4>2. QED
        BY <3>3, <4>1 DEF CountStore, Rest, TypeOK, request, site
    <3>4. QED
      BY <2>5, <3>2, <3>3
  <2>6. QED
    BY <1>2, <2>2, <2>3, <2>4, <2>5 DEF Work
<1>3. QED
  BY <1>1, <1>2

-----------------------------------------------------------------------------
(* What the threads do to the invariant *)

LEMMA TasksOfWork ==
    ASSUME Inv, NEW w \in Worker, Work(w)
    PROVE  ThreadsStarted' /\ Addressed' /\ PackagesKept'
<1> USE DEF Inv
<1>1. ThreadsStarted'
  BY WorkFrame DEF ThreadsStarted
<1>2. Addressed'
  <2>1. CASE Take(w)
    <3>1. \A i \in DOMAIN queue'["uploader"] : queue'["uploader"][i].server \in Server
      <4>1. CASE ServiceOf[w] = "uploader"
        <5>1. ASSUME NEW i \in 1 .. Len(queue["uploader"]) - 1
              PROVE  Tail(queue["uploader"])[i] = queue["uploader"][i + 1]
          BY <2>1, <4>1, TakeType
        <5>2. \A i \in 1 .. Len(queue["uploader"]) - 1 : i + 1 \in DOMAIN queue["uploader"]
          BY <2>1, <4>1, TakeType
        <5>3. /\ queue'["uploader"] = Tail(queue["uploader"])
              /\ DOMAIN Tail(queue["uploader"]) = 1 .. Len(queue["uploader"]) - 1
          BY <2>1, <4>1, TakeType
        <5>4. QED
          BY <5>1, <5>2, <5>3 DEF Addressed
      <4>2. CASE ServiceOf[w] # "uploader"
        BY <2>1, <4>2, TakeType DEF Addressed, Service
      <4>3. QED
        BY <4>1, <4>2
    <3>2. ServiceOf[w] = "uploader" => job'[w].server \in Server
      BY <2>1, TakeType DEF Addressed
    <3>3. QED
      BY <3>1, <3>2, WorkFrame DEF Addressed
  <2>2. CASE ~Take(w)
    <3>1. queue' = queue /\ (pc'[w] = "idle" \/ (pc[w] # "idle" /\ job'[w] = job[w]))
      BY <2>2 DEF Work, Fail, InstallWheel, UploadWheel, CountRead, CountStore, At, Rest, TypeOK
    <3>2. \A v \in Worker : pc'[v] = "idle" \/ (pc[v] # "idle" /\ job'[v] = job[v])
      BY <3>1, WorkFrame
    <3>3. QED
      BY <3>1, <3>2 DEF Addressed
  <2>3. QED
    BY <2>1, <2>2
<1>3. PackagesKept'
  <2>1. installed \subseteq installed' /\ errors \subseteq errors' /\ packages' = packages
    BY DEF Work, Take, Fail, InstallWheel, UploadWheel, CountRead, CountStore, Remember, site, request
  <2>2. ASSUME NEW p \in packages, HasTask("installer", [pkg |-> p, server |-> Nothing])
        PROVE  p \in installed' \cup errors' \/ HasTask("installer", [pkg |-> p, server |-> Nothing])'
    <3>1. PICK t : t = [pkg |-> p, server |-> Nothing]
      OBVIOUS
    <3>2. CASE ServiceOf[w] = "installer" /\ job[w] = t /\ (Fail(w) \/ InstallWheel(w) \/ UploadWheel(w))
      BY <3>1, <3>2 DEF Fail, Remember, InstallWheel, UploadWheel
    <3>3. CASE HasTask("installer", t)'
      BY <3>1, <3>3
    <3>4. QED
      BY <2>2, <3>1, <3>2, <3>3, TaskStays DEF Service
  <2>3. QED
    BY <2>1, <2>2 DEF PackagesKept
<1>4. QED
  BY <1>1, <1>2, <1>3

\* Reading a sum that is not ahead, and adding to it, keeps it so
LEMMA InstallingOfWork ==
    ASSUME Inv, NEW w \in Worker, Work(w)
    PROVE  Installing'
<1> SUFFICES ASSUME main \in {"start", "installed", "failed"} PROVE Installing'
  BY WorkFrame DEF Installing
<1> USE DEF Inv
<1>1. ServiceOf[w] = "installer" /\ UNCHANGED <<main, count, packages>>
  BY Phases, WorkFrame DEF request
<1>2. /\ Open("installer") \in Nat
      /\ Open("installer")' = IF Fail(w) \/ CountStore(w) THEN Open("installer") - 1
                              ELSE Open("installer")
  BY <1>1, OpenStep, OpenNat DEF Service
<1>3. /\ IsFiniteSet(errors) /\ Cardinality(errors) \in Nat /\ Cardinality(errors') \in Nat
      /\ Cardinality(errors') <= Cardinality(errors) + 1
      /\ ~Fail(w) => errors' = errors
  <2>1. IsFiniteSet(errors) /\ Cardinality(errors) \in Nat
    BY DeployAssumption, FS_Subset, FS_CardinalityType DEF TypeOK
  <2>2. CASE Fail(w)
    <3>1. errors' = errors \cup {job[w].pkg}
      BY <2>2 DEF Fail, Remember
    <3>2. Cardinality(errors') = IF job[w].pkg \in errors THEN Cardinality(errors)
                                 ELSE Cardinality(errors) + 1
      BY <2>1, <3>1, FS_AddElement
    <3>3. Cardinality(errors') \in Nat /\ Cardinality(errors') <= Cardinality(errors) + 1
      BY <2>1, <3>2
    <3>4. QED
      BY <2>1, <2>2, <3>3
  <2>3. CASE ~Fail(w)
    BY <2>1, <2>3 DEF Work, Take, InstallWheel, UploadWheel, CountRead, CountStore, site
  <2>4. QED
    BY <2>1, <2>2, <2>3
<1>4. /\ stats["installer"] \in Nat /\ reg[w] \in Nat /\ count \in Nat
      /\ \A v \in Worker : reg[v] \in Nat
      /\ Cardinality(packages) \in Nat
  BY DeployAssumption, FS_Subset, FS_CardinalityType DEF TypeOK, Service
<1>5. ASSUME NEW CONSTANT x \in Nat, Slack(x) PROVE Slack(x)'
  <2>1. CASE Fail(w)
    BY <1>1, <1>2, <1>3, <1>4, <1>5, <2>1 DEF Slack
  <2>2. CASE ~Fail(w)
    BY <1>1, <1>2, <1>3, <1>4, <1>5, <2>2 DEF Slack
  <2>3. QED
    BY <2>1, <2>2
<1>6. CASE CountStore(w)
  <2>1. /\ pc[w] = "store" /\ pc'[w] = "idle" /\ stats'["installer"] = reg[w] + 1
        /\ ~Fail(w)
    BY <1>1, <1>6 DEF CountStore, Fail, At, Rest, TypeOK, Service
  <2>2. Slack(reg[w])
    BY <1>1, <2>1 DEF Installing
  <2>3. Slack(stats["installer"])'
    BY <1>1, <1>2, <1>3, <1>4, <1>6, <2>1, <2>2 DEF Slack
  <2>4. \A v \in Worker : ServiceOf[v] = "installer" /\ pc'[v] = "store" =>
            pc[v] = "store" /\ reg'[v] = reg[v]
    BY <2>1, WorkFrame
  <2>5. QED
    BY <1>1, <1>4, <1>5, <2>3, <2>4 DEF Installing
<1>7. CASE ~CountStore(w)
  <2>1. stats' = stats
    BY <1>7 DEF Work, Take, Fail, InstallWheel, UploadWheel, CountRead
  <2>2. pc'[w] = "store" => reg'[w] = stats["installer"]
    BY <1>1, <1>7 DEF Work, Take, Fail, InstallWheel, UploadWheel, CountRead, At, Rest, TypeOK
  <2>3. \A v \in Worker : ServiceOf[v] = "installer" /\ pc'[v] = "store" =>
            \/ reg'[v] = stats["installer"]
            \/ pc[v] = "store" /\ reg'[v] = reg[v]
    BY <2>2, WorkFrame
  <2>4. QED
    BY <1>1, <1>4, <1>5, <2>1, <2>3 DEF Installing
<1>8. QED
  BY <1>6, <1>7

\* So does the uploader, for whom a failure makes the sum fall behind for good
LEMMA UploadingOfWork ==
    ASSUME Inv, NEW w \in Worker, Work(w)
    PROVE  Uploading'
<1> SUFFICES ASSUME main \in {"load", "uploaded"} PROVE Uploading'
  BY WorkFrame DEF Uploading
<1> USE DEF Inv
<1>1. ServiceOf[w] = "uploader" /\ UNCHANGED <<main, missing, todo>>
  BY Phases, WorkFrame DEF request
<1>2. /\ Open("uploader") \in Nat
      /\ Open("uploader")' = IF Fail(w) \/ CountStore(w) THEN Open("uploader") - 1
                             ELSE Open("uploader")
      /\ Len(todo) \in Nat /\ Len(missing) \in Nat
  BY <1>1, OpenStep, OpenNat DEF Service, TypeOK
<1>3. ~Fail(w) /\ MissingKept => MissingKept'
  <2> SUFFICES ASSUME ~Fail(w), MissingKept PROVE MissingKept'
    OBVIOUS
  <2>1. uploaded \subseteq uploaded'
    BY DEF Work, Take, InstallWheel, UploadWheel, CountRead, CountStore, site
  <2>2. ASSUME NEW t \in Task, HasTask("uploader", t)
        PROVE  <<t.server, t.pkg>> \in uploaded' \/ HasTask("uploader", t)'
    <3>1. ~InstallWheel(w)
      BY <1>1 DEF InstallWheel
    <3>2. UploadWheel(w) /\ job[w] = t => <<t.server, t.pkg>> \in uploaded'
      BY DEF UploadWheel
    <3>3. QED
      BY <2>2, <3>1, <3>2, TaskStays DEF Service
  <2>3. QED
    BY <1>1, <2>1, <2>2 DEF MissingKept
<1>4. /\ stats["uploader"] \in Nat /\ reg[w] \in Nat
      /\ \A v \in Worker : reg[v] \in Nat
  BY DEF TypeOK, Service
<1>5. ASSUME NEW CONSTANT x \in Nat, Room(x) PROVE Room(x)'
  <2>1. CASE Fail(w)
    BY <1>1, <1>2, <1>5, <2>1 DEF Room
  <2>2. CASE ~Fail(w) /\ CountStore(w)
    BY <1>1, <1>2, <1>5, <2>2 DEF Room
  <2>3. CASE ~Fail(w) /\ ~CountStore(w)
    BY <1>1, <1>2, <1>3, <1>5, <2>3 DEF Room
  <2>4. QED
    BY <2>1, <2>2, <2>3
<1>6. CASE CountStore(w)
  <2>1. /\ pc[w] = "store" /\ pc'[w] = "idle" /\ stats'["uploader"] = reg[w] + 1
        /\ ~Fail(w)
    BY <1>1, <1>6 DEF CountStore, Fail, At, Rest, TypeOK, Service
  <2>2. Room(reg[w])
    BY <1>1, <2>1 DEF Uploading
  <2>3. Room(stats["uploader"])'
    BY <1>1, <1>2, <1>3, <1>4, <1>6, <2>1, <2>2 DEF Room
  <2>4. \A v \in Worker : ServiceOf[v] = "uploader" /\ pc'[v] = "store" =>
            pc[v] = "store" /\ reg'[v] = reg[v]
    BY <2>1, WorkFrame
  <2>5. QED
    BY <1>1, <1>4, <1>5, <2>3, <2>4 DEF Uploading
<1>7. CASE ~CountStore(w)
  <2>1. stats' = stats
    BY <1>7 DEF Work, Take, Fail, InstallWheel, UploadWheel, CountRead
  <2>2. pc'[w] = "store" => reg'[w] = stats["uploader"]
    BY <1>1, <1>7 DEF Work, Take, Fail, InstallWheel, UploadWheel, CountRead, At, Rest, TypeOK
  <2>3. \A v \in Worker : ServiceOf[v] = "uploader" /\ pc'[v] = "store" =>
            \/ reg'[v] = stats["uploader"]
            \/ pc[v] = "store" /\ reg'[v] = reg[v]
    BY <2>2, WorkFrame
  <2>4. QED
    BY <1>1, <1>4, <1>5, <2>1, <2>3 DEF Uploading
<1>8. QED
  BY <1>6, <1>7

LEMMA PhasesOfWork ==
    ASSUME Inv, NEW w \in Worker, Work(w)
    PROVE  Passed' /\ UploaderWaits' /\ InstallSettled' /\ TrueSuccess'
<1> USE DEF Inv
<1>1. /\ UNCHANGED <<main, started, leftover, packages, missing>> /\ main \notin Exits
      /\ installed \subseteq installed'
  <2>1. installed \subseteq installed'
    BY DEF Work, Take, Fail, InstallWheel, UploadWheel, CountRead, CountStore, site
  <2>2. QED
    BY <2>1, WorkFrame DEF request
<1>2. main # "gate"
  BY Phases
<1>3. Passed' /\ TrueSuccess'
  BY <1>1, <1>2 DEF Passed, TrueSuccess, Exits
<1>4. UploaderWaits'
  <2>1. CASE "uploader" \in started
    BY <1>1, <2>1 DEF UploaderWaits
  <2>2. CASE "uploader" \notin started
    <3>1. ServiceOf[w] # "uploader"
      BY <2>2, WorkFrame
    <3>2. stats'["uploader"] = stats["uploader"] /\ queue'["uploader"] = queue["uploader"]
          /\ uploaded' = uploaded
      BY <3>1 DEF Work, Take, Fail, InstallWheel, UploadWheel, CountRead, CountStore, site,
                  TypeOK, Service
    <3>3. QED
      BY <1>1, <2>2, <3>2 DEF UploaderWaits
  <2>3. QED
    BY <2>1, <2>2
<1>5. InstallSettled'
  <2> SUFFICES ASSUME leftover = 0, main \in {"signal", "gate", "load", "uploaded"}
               PROVE  InstallSettled'
    BY <1>1 DEF InstallSettled
  <2>1. main \in {"load", "uploaded"} /\ ServiceOf[w] = "uploader"
    BY Phases
  <2>2. queue'["installer"] = queue["installer"]
    BY <2>1 DEF Work, Take, Fail, InstallWheel, UploadWheel, CountRead, CountStore, TypeOK, Service
  <2>3. Busy("installer")' = Busy("installer")
    BY <2>1, WorkFrame DEF Busy
  <2>4. packages \subseteq installed
    BY <2>1 DEF Passed
  <2>5. QED
    BY <1>1, <2>2, <2>3, <2>4 DEF InstallSettled
<1>6. QED
  BY <1>3, <1>4, <1>5

-----------------------------------------------------------------------------
(* What the main thread does to it *)

LEMMA MainFrame ==
    ASSUME Main
    PROVE  /\ UNCHANGED <<request, errors, stats, site, pool>>
           /\ main \notin Exits
           /\ LoadUploader \/ queue' = queue
           /\ Gate \/ StartInstaller \/ started' = started
BY DEF Main, StartInstaller, ReadInstalled, CompareInstalled, Signal, Gate, LoadUploader, Loaded,
       CompareUploaded, Goto, Exits

LEMMA Queued ==
    ASSUME Inv, LoadUploader
    PROVE  LET server == Head(todo)[1]
               pkg == Head(todo)[2]
               task == [pkg |-> pkg, server |-> server]
           IN  /\ server \in Server /\ pkg \in Package /\ Head(todo) = <<server, pkg>>
               /\ task \in Task
               /\ queue'["installer"] = queue["installer"]
               /\ Len(queue["uploader"]) \in Nat
               /\ DOMAIN queue["uploader"] = 1 .. Len(queue["uploader"])
               /\ IF pkg \notin packages THEN queue' = queue
                  ELSE queue'["uploader"] = Append(queue["uploader"], task)
               /\ todo \in Seq(Server \X Package) /\ todo # <<>> /\ todo' = Tail(todo)
<1> DEFINE server == Head(todo)[1]
           pkg == Head(todo)[2]
           task == [pkg |-> pkg, server |-> server]
<1>1. todo \in Seq(Server \X Package) /\ todo # <<>> /\ todo' = Tail(todo)
  BY DEF LoadUploader, Inv, TypeOK
<1>2. Head(todo) \in Server \X Package
  BY <1>1
<1>3. server \in Server /\ pkg \in Package /\ Head(todo) = <<server, pkg>> /\ task \in Task
  BY <1>2 DEF Task
<1>4. /\ queue'["installer"] = queue["installer"]
      /\ Len(queue["uploader"]) \in Nat
      /\ DOMAIN queue["uploader"] = 1 .. Len(queue["uploader"])
  BY DEF LoadUploader, Inv, TypeOK, Service
<1>5. IF pkg \notin packages THEN queue' = queue
      ELSE queue'["uploader"] = Append(queue["uploader"], task)
  BY DEF LoadUploader, Inv, TypeOK, Service
<1>6. QED
  BY <1>1, <1>3, <1>4, <1>5

LEMMA TasksOfMain ==
    ASSUME Inv, Main
    PROVE  ThreadsStarted' /\ Addressed' /\ PackagesKept'
<1> USE DEF Inv
<1>1. ThreadsStarted'
  BY MainFrame DEF ThreadsStarted, StartInstaller, Gate, pool
<1>2. Addressed'
  <2>1. CASE LoadUploader
    <3>1. \A i \in DOMAIN queue'["uploader"] : queue'["uploader"][i].server \in Server
      <4>1. CASE Head(todo)[2] \in packages
        <5> DEFINE task == [pkg |-> Head(todo)[2], server |-> Head(todo)[1]]
        <5>1. /\ queue'["uploader"] = Append(queue["uploader"], task)
              /\ task.server \in Server
              /\ queue["uploader"] \in Seq(Task)
          BY <2>1, <4>1, Queued DEF TypeOK, Service
        <5> HIDE DEF task
        <5>2. QED
          BY <5>1 DEF Addressed
      <4>2. CASE Head(todo)[2] \notin packages
        BY <2>1, <4>2, Queued DEF Addressed
      <4>3. QED
        BY <4>1, <4>2
    <3>2. QED
      BY <3>1, MainFrame DEF pool, Addressed
  <2>2. CASE ~LoadUploader
    BY <2>2, MainFrame DEF pool, Addressed
  <2>3. QED
    BY <2>1, <2>2
<1>3. PackagesKept'
  <2>1. queue'["installer"] = queue["installer"]
    BY MainFrame, Queued
  <2>2. QED
    BY <2>1, MainFrame DEF pool, site, request, PackagesKept, HasTask
<1>4. QED
  BY <1>1, <1>2, <1>3

LEMMA PassedByMain ==
    ASSUME Inv, Main
    PROVE  Installing' /\ Passed' /\ UploaderWaits'
<1> USE DEF Inv
<1>1. UNCHANGED <<request, errors, stats, site, pool>>
  BY MainFrame
<1>2. Installing'
  <2>1. CASE StartInstaller \/ ReadInstalled \/ CompareInstalled
    BY <1>1, <2>1
    DEF StartInstaller, ReadInstalled, CompareInstalled, Goto, Installing, Slack, Open, Busy,
        request, pool
  <2>2. CASE Signal \/ Gate \/ LoadUploader \/ Loaded \/ CompareUploaded
    BY <2>2 DEF Signal, Gate, LoadUploader, Loaded, CompareUploaded, Goto, Installing
  <2>3. QED
    BY <2>1, <2>2 DEF Main
<1>3. Passed'
  <2>1. CASE Signal
    <3>1. main' = "gate" => leftover = 0 /\ errors = {}
      <4>1. IsFiniteSet(errors) /\ Cardinality(errors) \in Nat /\ leftover \in Nat
        BY DeployAssumption, FS_Subset, FS_CardinalityType DEF TypeOK
      <4>2. main' = "gate" => leftover + Cardinality(errors) = 0
        BY <2>1 DEF Signal, Goto, Failures
      <4>3. QED
        BY <4>1, <4>2, FS_EmptySet
    <3>2. main' = "gate" => packages \subseteq installed
      BY <2>1, <3>1 DEF Signal, Goto, InstallSettled
    <3>3. QED
      BY <1>1, <2>1, <3>1, <3>2 DEF Signal, Goto, Passed, request, site
  <2>2. CASE ~Signal
    BY <1>1, <2>2
    DEF Main, StartInstaller, ReadInstalled, CompareInstalled, Gate, LoadUploader, Loaded,
        CompareUploaded, Goto, Passed, request, site
  <2>3. QED
    BY <2>1, <2>2
<1>4. UploaderWaits'
  <2>1. CASE LoadUploader
    BY <1>1, <2>1 DEF LoadUploader, UploaderWaits
  <2>2. CASE ~LoadUploader
    BY <1>1, <2>2
    DEF Main, StartInstaller, ReadInstalled, CompareInstalled, Signal, Gate, Loaded,
        CompareUploaded, Goto, UploaderWaits, site
  <2>3. QED
    BY <2>1, <2>2
<1>5. QED
  BY <1>2, <1>3, <1>4

LEMMA UploadingOfMain ==
    ASSUME Inv, Main
    PROVE  Uploading'
<1> USE DEF Inv
<1>1. CASE Gate /\ main' = "load"
  <2>1. /\ todo' = missing /\ queue' = queue
        /\ UNCHANGED <<missing, stats, uploaded, pc, job, reg>>
        /\ queue["uploader"] = <<>> /\ stats["uploader"] = 0 /\ "uploader" \notin started
    BY <1>1 DEF Gate, Goto, request, site, pool, UploaderWaits
  <2>2. Busy("uploader") = {}
    BY <2>1 DEF ThreadsStarted, Busy
  <2>3. Busy("uploader")' = {}
    BY <2>1, <2>2 DEF Busy
  <2>4. Open("uploader")' = 0
    <3>1. Cardinality({}) = 0
      BY FS_EmptySet
    <3>2. Len(queue'["uploader"]) = 0 /\ Cardinality(Busy("uploader")') = 0
      BY <2>1, <2>3, <3>1
    <3>3. QED
      BY <3>2 DEF Open
  <2>5. MissingKept'
    BY <2>1 DEF MissingKept
  <2>6. Len(missing) \in Nat
    BY DEF TypeOK
  <2>7. Room(stats["uploader"])'
    BY <2>1, <2>4, <2>5, <2>6 DEF Room
  <2>8. \A w \in Worker : ServiceOf[w] = "uploader" => pc'[w] # "store"
    BY <2>1, <2>2 DEF Busy
  <2>9. QED
    BY <1>1, <2>7, <2>8 DEF Uploading
<1>2. CASE LoadUploader
  <2> DEFINE task == [pkg |-> Head(todo)[2], server |-> Head(todo)[1]]
  <2>1. /\ main = "load" /\ main' = "load"
        /\ UNCHANGED <<missing, stats, uploaded, pc, job, reg>>
    BY <1>2 DEF LoadUploader, request, site, pool
  <2>2. /\ todo \in Seq(Server \X Package) /\ todo # <<>> /\ todo' = Tail(todo)
        /\ Len(todo) \in Nat \ {0} /\ Len(todo') = Len(todo) - 1
        /\ \A j \in DOMAIN todo : j = 1 \/ (j - 1 \in DOMAIN todo' /\ todo'[j - 1] = todo[j])
        /\ Head(todo) = todo[1]
    <3>1. todo \in Seq(Server \X Package) /\ todo # <<>> /\ todo' = Tail(todo)
      BY <1>2, Queued
    <3>2. QED
      BY <3>1
  <2>3. Busy("uploader")' = Busy("uploader") /\ Cardinality(Busy("uploader")) \in Nat
    BY <2>1, BusyFinite DEF Busy
  <2>4. Len(queue["uploader"]) \in Nat /\ Len(missing) \in Nat
    BY <1>2, Queued DEF TypeOK
  <2>5. CASE Head(todo)[2] \notin packages
    <3>1. queue' = queue
      BY <1>2, <2>5, Queued
    <3>2. Open("uploader")' = Open("uploader") /\ Open("uploader") \in Nat
      BY <2>3, <2>4, <3>1 DEF Open
    <3>3. ASSUME NEW CONSTANT x \in Nat, Room(x) PROVE Room(x)'
      BY <2>1, <2>2, <2>4, <3>2, <3>3 DEF Room
    <3>4. stats["uploader"] \in Nat /\ \A w \in Worker : reg[w] \in Nat
      BY DEF TypeOK, Service
    <3>5. QED
      BY <2>1, <3>3, <3>4 DEF Uploading
  <2>6. CASE Head(todo)[2] \in packages
    <3>1. queue'["uploader"] = Append(queue["uploader"], task) /\ queue["uploader"] \in Seq(Task)
      BY <1>2, <2>6, Queued DEF TypeOK, Service
    <3>2. /\ task \in Task /\ task.server = Head(todo)[1] /\ task.pkg = Head(todo)[2]
          /\ Head(todo) = <<Head(todo)[1], Head(todo)[2]>>
      BY <1>2, Queued
    <3>3. PICK u \in Task : u = task /\ Head(todo) = <<u.server, u.pkg>>
      BY <3>2
    <3> HIDE DEF task
    <3>4. /\ Len(queue'["uploader"]) = Len(queue["uploader"]) + 1
          /\ queue'["uploader"][Len(queue["uploader"]) + 1] = u
          /\ Len(queue["uploader"]) + 1 \in DOMAIN queue'["uploader"]
          /\ \A i \in DOMAIN queue["uploader"] :
                i \in DOMAIN queue'["uploader"] /\ queue'["uploader"][i] = queue["uploader"][i]
      BY <3>1, <3>3
    <3>5. HasTask("uploader", u)' /\ \A t : HasTask("uploader", t) => HasTask("uploader", t)'
      BY <2>1, <3>4 DEF HasTask
    <3>6. MissingKept => MissingKept'
      <4>1. ASSUME NEW j \in DOMAIN todo
            PROVE  todo[j] = <<u.server, u.pkg>> \/ \E k \in DOMAIN todo' : todo'[k] = todo[j]
        <5>1. CASE j = 1
          BY <2>2, <3>3, <5>1
        <5>2. CASE j # 1
          BY <2>2, <5>2
        <5>3. QED
          BY <5>1, <5>2
      <4>2. ASSUME NEW i \in DOMAIN missing, \E j \in DOMAIN todo : todo[j] = missing[i]
            PROVE  missing[i] = <<u.server, u.pkg>> \/ \E k \in DOMAIN todo' : todo'[k] = missing[i]
        BY <4>1, <4>2
      <4>3. QED
        BY <2>1, <3>5, <4>2 DEF MissingKept
    <3>7. Open("uploader")' = Open("uploader") + 1 /\ Open("uploader") \in Nat
      BY <2>3, <2>4, <3>4 DEF Open
    <3>8. ASSUME NEW CONSTANT x \in Nat, Room(x) PROVE Room(x)'
      BY <2>1, <2>2, <2>4, <3>6, <3>7, <3>8 DEF Room
    <3>9. stats["uploader"] \in Nat /\ \A w \in Worker : reg[w] \in Nat
      BY DEF TypeOK, Service
    <3>10. QED
      BY <2>1, <3>8, <3>9 DEF Uploading
  <2>7. QED
    BY <2>5, <2>6
<1>3. CASE Loaded \/ CompareUploaded
  <2>1. /\ UNCHANGED <<missing, stats, uploaded, pc, job, reg, queue, todo>>
        /\ main \in {"load", "uploaded"} /\ main' = "uploaded" => todo = <<>>
    BY <1>3 DEF Loaded, CompareUploaded, Goto, request, site, pool, Uploading
  <2>2. main \in {"load", "uploaded"}
    BY <1>3 DEF Loaded, CompareUploaded, Goto
  <2>3. \A x : Room(x) => Room(x)'
    BY <2>1 DEF Room, Open, Busy, MissingKept, HasTask
  <2>4. main' # "load"
    BY <1>3 DEF Loaded, CompareUploaded, Goto
  <2>5. QED
    BY <2>1, <2>2, <2>3, <2>4 DEF Uploading
<1>4. CASE main' \notin {"load", "uploaded"}
  BY <1>4 DEF Uploading
<1>5. QED
  BY <1>1, <1>2, <1>3, <1>4
  DEF Main, StartInstaller, ReadInstalled, CompareInstalled, Signal, Gate, Goto

\* A service with nothing open has nothing queued and nobody at work
LEMMA NothingOpen ==
    ASSUME TypeOK, NEW s \in Service, Open(s) = 0
    PROVE  queue[s] = <<>> /\ Busy(s) = {} /\ \A t : ~HasTask(s, t)
<1>1. Len(queue[s]) = 0 /\ Cardinality(Busy(s)) = 0
  BY OpenNat, BusyFinite DEF Open
<1>2. queue[s] = <<>>
  BY <1>1 DEF TypeOK
<1>3. Busy(s) = {}
  BY <1>1, BusyFinite, FS_EmptySet
<1>4. QED
  BY <1>2, <1>3 DEF HasTask, Busy

LEMMA SettledByMain ==
    ASSUME Inv, Main
    PROVE  InstallSettled'
<1> USE DEF Inv
<1>1. UNCHANGED <<request, errors, stats, site, pool>>
  BY MainFrame
<1>2. queue'["installer"] = queue["installer"] /\ Busy("installer")' = Busy("installer")
  BY <1>1, MainFrame, Queued DEF Busy, pool
<1>3. CASE CompareInstalled
  <2> SUFFICES ASSUME leftover = 0, main' = "signal" PROVE InstallSettled'
    BY <1>1, <1>3 DEF CompareInstalled, Goto, InstallSettled, Exits, request
  <2>1. main = "failed" /\ Cardinality(packages) = count + (leftover + Cardinality(errors))
    BY <1>3 DEF CompareInstalled, Goto, AllDone, Failures
  <2>2. count + Open("installer") + Cardinality(errors) <= Cardinality(packages)
    BY <2>1 DEF Installing, Slack
  <2>3. /\ Open("installer") \in Nat /\ count \in Nat /\ Cardinality(errors) \in Nat
        /\ Cardinality(packages) \in Nat
    BY OpenNat, DeployAssumption, FS_Subset, FS_CardinalityType DEF Service, TypeOK
  <2>4. Open("installer") = 0
    BY <2>1, <2>2, <2>3
  <2>5. /\ queue["installer"] = <<>> /\ Busy("installer") = {}
        /\ packages \subseteq installed \cup errors
    BY <2>4, NothingOpen DEF Service, PackagesKept
  <2>6. QED
    BY <1>1, <1>2, <2>5 DEF InstallSettled, request, site
<1>4. CASE ~CompareInstalled
  BY <1>1, <1>2, <1>4
  DEF Main, StartInstaller, ReadInstalled, Signal, Gate, LoadUploader, Loaded, CompareUploaded,
      Goto, InstallSettled, Exits, request, site
<1>5. QED
  BY <1>3, <1>4

LEMMA ListLength ==
    ASSUME NEW S, NEW l \in Seq(S)
    PROVE  Len(l) \in Nat /\ (l = <<>> => Len(l) = 0 /\ DOMAIN l = {})
OBVIOUS

\* At the gate nothing has failed
LEMMA GateClean ==
    ASSUME Inv, main = "gate"
    PROVE  Failures = 0 /\ packages \subseteq installed
<1>1. leftover = 0 /\ errors = {} /\ packages \subseteq installed
  BY DEF Inv, Passed
<1>2. Cardinality({}) = 0
  BY FS_EmptySet
<1>3. QED
  BY <1>1, <1>2 DEF Failures

\* When the counter says so, all the uploads are done
LEMMA UploadsDone ==
    ASSUME Inv, main = "uploaded", UploadsCounted
    PROVE  packages \subseteq installed /\ \A i \in DOMAIN missing : missing[i] \in uploaded
<1> USE DEF Inv
<1>1. Room(stats["uploader"]) /\ todo = <<>> /\ packages \subseteq installed
  BY DEF Uploading, Passed
<1>2. Len(missing) \in Nat /\ Len(todo) = 0 /\ DOMAIN todo = {}
  BY <1>1, ListLength DEF TypeOK
<1>3. Open("uploader") \in Nat
  BY OpenNat DEF Service
<1>4. Open("uploader") = 0 /\ MissingKept
  BY <1>1, <1>2, <1>3 DEF Room, UploadsCounted
<1>5. QED
  BY <1>1, <1>2, <1>4, NothingOpen DEF Service, MissingKept

LEMMA SuccessOfMain ==
    ASSUME Inv, Main
    PROVE  TrueSuccess'
<1>1. UNCHANGED <<packages, missing, installed, uploaded>>
  BY MainFrame DEF request, site
<1>2. CASE Gate
  <2>1. Failures = 0 /\ packages \subseteq installed
    BY <1>2, GateClean DEF Gate, Goto
  <2>2. main' = "exit 0" => (Upload => missing = <<>>)
    BY <1>2, <2>1 DEF Gate, Goto
  <2>3. missing = <<>> => DOMAIN missing = {}
    BY ListLength DEF Inv, TypeOK
  <2>4. QED
    BY <1>1, <2>1, <2>2, <2>3 DEF TrueSuccess
<1>3. CASE CompareUploaded
  <2>1. main' = "exit 0" => main = "uploaded" /\ UploadsCounted
    BY <1>3 DEF CompareUploaded, Goto
  <2>2. QED
    BY <1>1, <2>1, UploadsDone DEF TrueSuccess
<1>4. CASE ~Gate /\ ~CompareUploaded
  <2>1. main' # "exit 0"
    BY <1>4 DEF Main, StartInstaller, ReadInstalled, CompareInstalled, Signal, LoadUploader, Loaded, Goto
  <2>2. QED
    BY <2>1 DEF TrueSuccess
<1>5. QED
  BY <1>2, <1>3, <1>4

-----------------------------------------------------------------------------
(* The theorems *)

LEMMA InitInv == Init => Inv
<1> SUFFICES ASSUME Init PROVE Inv
  OBVIOUS
<1>1. TypeOK
  BY InitType
<1>2. \A w \in Worker : pc[w] = "idle"
  BY DEF Init
<1>3. Busy("installer") = {} /\ Cardinality({}) = 0
  BY <1>2, FS_EmptySet DEF Busy
<1>4. PICK order \in [1 .. Cardinality(packages) -> packages] :
        /\ \A p \in packages : \E i \in DOMAIN order : order[i] = p
        /\ queue = [s \in Service |->
                      IF s = "installer"
                      THEN [i \in DOMAIN order |-> [pkg |-> order[i], server |-> Nothing]]
                      ELSE <<>>]
  BY DEF Init
<1>5. PICK n \in Nat : n = Cardinality(packages)
  BY <1>1, DeployAssumption, FS_Subset, FS_CardinalityType DEF TypeOK
<1>6. /\ queue["installer"] = [i \in 1 .. n |-> [pkg |-> order[i], server |-> Nothing]]
      /\ queue["uploader"] = <<>>
  BY <1>4, <1>5 DEF Service
<1>7. Len(queue["installer"]) = n
  BY <1>5, <1>6
<1>8. PackagesKept
  <2> SUFFICES ASSUME NEW p \in packages
               PROVE  \E i \in DOMAIN queue["installer"] :
                        queue["installer"][i] = [pkg |-> p, server |-> Nothing]
    BY DEF PackagesKept, HasTask
  <2>1. PICK i \in DOMAIN order : order[i] = p
    BY <1>4
  <2>2. i \in 1 .. n
    BY <1>4, <1>5, <2>1
  <2>3. QED
    BY <1>6, <2>1, <2>2
<1>9. Addressed /\ ThreadsStarted
  BY <1>2, <1>6 DEF Addressed, ThreadsStarted
<1>10. Installing
  <2>1. Slack(0)
    <3>1. errors = {}
      BY DEF Init
    <3>2. Open("installer") = n
      BY <1>3, <1>5, <1>7 DEF Open
    <3>3. QED
      BY <1>3, <1>5, <3>1, <3>2 DEF Slack
  <2>2. QED
    BY <1>2, <2>1 DEF Init, Installing, Service
<1>11. Passed /\ UploaderWaits /\ Uploading /\ TrueSuccess
  BY <1>6 DEF Init, Passed, UploaderWaits, Uploading, TrueSuccess, Service
<1>12. InstallSettled
  <2> SUFFICES ASSUME main = "gate" PROVE InstallSettled
    BY DEF Init, InstallSettled, Exits
  <2>1. packages = {}
    BY DEF Init
  <2>2. queue["installer"] = <<>>
    BY <1>1, <1>3, <1>5, <1>7, <2>1 DEF TypeOK, Service
  <2>3. QED
    BY <1>3, <2>1, <2>2 DEF InstallSettled
<1>13. QED
  BY <1>1, <1>8, <1>9, <1>10, <1>11, <1>12 DEF Inv

LEMMA NextInv == Inv /\ [Next]_vars => Inv'
<1> SUFFICES ASSUME Inv, [Next]_vars PROVE Inv'
  OBVIOUS
<1>1. CASE Main
  BY <1>1, MainType, TasksOfMain, PassedByMain, UploadingOfMain, SettledByMain, SuccessOfMain DEF Inv
<1>2. ASSUME NEW w \in Worker, Work(w) PROVE Inv'
  BY <1>2, WorkType, TasksOfWork, InstallingOfWork, UploadingOfWork, PhasesOfWork DEF Inv
<1>3. CASE UNCHANGED vars
  <2>1. UNCHANGED <<packages, missing, leftover, queue, started, errors, stats, installed, uploaded,
                    pc, job, reg, main, count, todo>>
    BY <1>3 DEF vars, request, site, pool
  <2>2. /\ \A s : Open(s)' = Open(s) /\ Busy(s)' = Busy(s)
        /\ \A s, t : HasTask(s, t)' <=> HasTask(s, t)
    BY <2>1 DEF Open, Busy, HasTask
  <2>3. MissingKept' <=> MissingKept
    BY <2>1, <2>2 DEF MissingKept
  <2>4. \A x : (Slack(x)' <=> Slack(x)) /\ (Room(x)' <=> Room(x))
    BY <2>1, <2>2, <2>3 DEF Slack, Room
  <2>5. TypeOK' /\ ThreadsStarted' /\ Addressed' /\ PackagesKept'
    BY <2>1, <2>2 DEF Inv, TypeOK, ThreadsStarted, Addressed, PackagesKept
  <2>6. Installing' /\ Uploading'
    BY <2>1, <2>4 DEF Inv, Installing, Uploading
  <2>7. Passed' /\ UploaderWaits' /\ InstallSettled' /\ TrueSuccess'
    BY <2>1, <2>2 DEF Inv, Passed, UploaderWaits, InstallSettled, TrueSuccess
  <2>8. QED
    BY <2>5, <2>6, <2>7 DEF Inv
<1>4. QED
  BY <1>1, <1>2, <1>3 DEF Next, Over

LEMMA Invariance == Spec => []Inv
<1>1. QED
  BY InitInv, NextInv, PTL DEF Spec

\* The variables of Deploy keep their types, whatever the two services do.
THEOREM TypeCorrect == Spec => []TypeOK
<1>1. Inv => TypeOK
  BY DEF Inv
<1>2. QED
  BY <1>1, Invariance, PTL

(***************************************************************************)
(* When the loop of install ends, unless retrieve_and_build left it a      *)
(* failure, no installer works any more and each package has its result:   *)
(* for every number of packages and threads.                               *)
(***************************************************************************)
THEOREM SettlesInstalls == Spec => []InstallSettled
<1>1. Inv => InstallSettled
  BY DEF Inv
<1>2. QED
  BY <1>1, Invariance, PTL

(***************************************************************************)
(* Exit status 0 is true: everything is installed, everything that was     *)
(* missed is uploaded.                                                     *)
(***************************************************************************)
THEOREM SucceedsTruly == Spec => []TrueSuccess
<1>1. Inv => TrueSuccess
  BY DEF Inv
<1>2. QED
  BY <1>1, Invariance, PTL

(***************************************************************************)
(* No wheel is uploaded before all the packages are installed.             *)
(***************************************************************************)
THEOREM InstallsFirst == Spec => []InstalledBeforeUploaded
<1>1. Inv => InstalledBeforeUploaded
  BY DEF Inv, UploaderWaits, Passed, InstalledBeforeUploaded
<1>2. QED
  BY <1>1, Invariance, PTL
=============================================================================
