----------------------------- MODULE CacheServer -----------------------------
(***************************************************************************)
(* Clients that share curdling cache servers (src/curdling/web): a client  *)
(* looks in its own index, asks the servers and then the indexes           *)
(* (Locators), downloads, builds, and with -u sends the servers the wheels *)
(* they did not have.  A request is one step of a server, which gevent     *)
(* runs without interleaving; servers restart from their directory.        *)
(***************************************************************************)
EXTENDS Locators

CONSTANTS
    Runs,       \* [wants, local : client -> requirements queued, wheels in ~/.curds]
    Stock,      \* server -> the files of its directory at first, in a sequence
    Upload,     \* clients that run with -u
    Wheel,      \* the archives that are wheels
    WheelOf,    \* [Client -> [Package \X Version -> Wheel]]: what a client builds
    UserDB,     \* server -> its htpasswd file: a sequence of <<user, crypted>>, or None
    Login,      \* server -> client -> <<user, password>> of its URL, or None
    crypt       \* [password -> crypted]

\* HtPasswd.load: the last line of a user counts
Line(s, user) == SelectLastInSeq(UserDB[s], LAMBDA line : line[1] = user)

\* HtPasswd.auth, behind Authenticator
Authenticated(s, c) ==
    \/ UserDB[s] = None
    \/ /\ Login[s][c] # None
       /\ Line(s, Login[s][c][1]) > 0
       /\ UserDB[s][Line(s, Login[s][c][1])][2] = crypt[Login[s][c][2]]

ASSUME CacheServerAssumption ==
    /\ Wheel \subseteq {a \in Archive : Describes[a] # None}
    /\ Runs \subseteq [wants : [Client -> SUBSET Requirement], local : [Client -> SUBSET Wheel]]
    /\ WheelOf \in [Client -> [Package \X Version -> Wheel]]
    /\ \A c \in Client, p \in Package, v \in Version : Describes[WheelOf[c][<<p, v>>]] = <<p, v>>
    /\ \A s \in Curd : Admits[s] = {c \in Client : Authenticated(s, c)}
    /\ Stock \in [Curd -> Seq(Archive)]
    /\ Upload \subseteq Client

VARIABLES
    run,        \* one of Runs; a client that wants nothing does not run
    state,      \* client -> the stage of its run
    wheels,     \* client -> requirement -> its wheel (mapping.wheels), or None
    uploads     \* client -> the misses its uploader has to make good

clientVars == <<run, state, wheels, uploads>>
vars == <<locatorVars, clientVars>>

\* The n of S that has i - 1 others before it
Nth(S, i) == CHOOSE n \in S : Cardinality({m \in S : m <= n}) = i

\* Index.scan: the table of a server, from the files of its directory in the
\* order of os.listdir
scan(listdir) ==
    [p \in Package |-> [v \in Version |->
        LET of == {n \in DOMAIN listdir : Describes[listdir[n]] = <<p, v>>}
        IN  [i \in 1 .. Cardinality(of) |-> listdir[Nth(of, i)]]]]

Init ==
    /\ served = [s \in Curd |-> scan(Stock[s])]
    /\ LocatorsInit
    /\ run \in Runs
    /\ state = [c \in Client |-> "off"]
    /\ wheels = [c \in Client |-> [r \in Requirement |-> None]]
    /\ uploads = [c \in Client |-> {}]

Wants(c) == run.wants[c]

-----------------------------------------------------------------------------
(* A client.  The requirements its run queues are queued at once; two of   *)
(* one package are dependencies (RetrieveAndBuild has the other cases).    *)

\* index.get: a wheel of the newest version in the own index
Newest(c, r) ==
    LET fit == {w \in run.local[c] : Describes[w][1] = PkgOf[r] /\ VersionOf(w) \in Allows[r]}
    IN  IF fit = {} THEN None
        ELSE CHOOSE w \in fit : \A x \in fit : VersionOf(x) <= VersionOf(w)

\* Install.handle: a wheel in the own index keeps the finder from being asked
Start(c) ==
    /\ state[c] = "off" /\ Wants(c) # {}
    /\ state' = [state EXCEPT ![c] = "finding"]
    /\ wheels' = [wheels EXCEPT ![c] = [r \in Requirement |->
                      IF r \in Wants(c) THEN Newest(c, r) ELSE None]]
    /\ answer' = [answer EXCEPT ![c] = [r \in Requirement |->
                      IF r \in Wants(c) /\ Newest(c, r) = None THEN Reply("queued", None, None)
                      ELSE @[r]]]
    /\ before' = [before EXCEPT ![c] = served]
    /\ UNCHANGED <<served, sharedVars, pc, job, faults, outages, visits, raced, run, uploads>>

Has(c, r) == wheels[c][r] # None

\* Every requirement had its turn, and one of them failed: exit status 1
GiveUp(c) ==
    /\ state[c] = "finding"
    /\ \A r \in Wants(c) : Has(c, r) \/ answer[c][r].state \in {"not found", "error"}
    /\ \E r \in Wants(c) : ~Has(c, r)
    /\ state' = [state EXCEPT ![c] = "failed"]
    /\ UNCHANGED <<locatorVars, run, wheels, uploads>>

Downloading(c, r) == state[c] = "finding" /\ ~Has(c, r) /\ answer[c][r].state = "found"

\* The wheel arrives, or is built from what arrives
Download(c, r) ==
    LET url == answer[c][r].url
    IN  /\ Downloading(c, r)
        /\ wheels' = [wheels EXCEPT ![c][r] = IF url \in Wheel THEN url ELSE WheelOf[c][Describes[url]]]
        /\ UNCHANGED <<locatorVars, run, state, uploads>>

\* Mutant: nobody hears of the failure
FailsSilently(c, r) ==
    /\ Downloading(c, r)
    /\ Fault(answer[c][r].locator)
    /\ answer' = [answer EXCEPT ![c][r] = Reply("searching", None, None)]
    /\ UNCHANGED <<served, sharedVars, pc, job, history, clientVars>>

\* The server is gone between the listing and the download; nobody else is asked
DownloadFails(c, r) ==
    /\ Downloading(c, r)
    /\ Fault(answer[c][r].locator)
    /\ answer' = [answer EXCEPT ![c][r] = Reply("error", None, @.locator)]
    /\ UNCHANGED <<served, sharedVars, pc, job, history, clientVars>>

\* The wheels of p that suit all its requirements, and the newest of them
\* (Mapping.best_version)
Compatible(c, p) ==
    LET of == {r \in Wants(c) : PkgOf[r] = p}
    IN  {w \in {wheels[c][r] : r \in of} : \A r \in of : VersionOf(w) \in Allows[r]}

best_version(c, p) ==
    {w \in Compatible(c, p) : \A x \in Compatible(c, p) : VersionOf(x) <= VersionOf(w)}

\* Mutant: only the first server is updated
FirstServer(c) == {Curds[1]} \X DOMAIN requirements_not_found[c][Curds[1]]

\* A package is listed as often as it was missed
get_servers_to_update(c) == UNION {{s} \X DOMAIN requirements_not_found[c][s] : s \in Curd}

\* Everything is here: installed, unless the requirements of a package conflict
InstallAll(c) ==
    /\ state[c] = "finding" /\ \A r \in Wants(c) : Has(c, r)
    /\ IF \E r \in Wants(c) : Compatible(c, PkgOf[r]) = {}
       THEN state' = [state EXCEPT ![c] = "failed"] /\ UNCHANGED uploads
       ELSE /\ state' = [state EXCEPT ![c] = "uploading"]
            /\ uploads' = [uploads EXCEPT ![c] =
                               IF c \in Upload THEN get_servers_to_update(c) ELSE {}]
    /\ UNCHANGED <<locatorVars, run, wheels>>

\* Mutant: the latest file comes first
Prepended(c, s, p, w) ==
    IF c \in Admits[s]
    THEN [served EXCEPT ![s][p][VersionOf(w)] = <<w>> \o @]
    ELSE served

\* web_upload, from_data: the file joins the table, once more if it was there
Stored(c, s, p, w) ==
    IF c \in Admits[s]
    THEN [served EXCEPT ![s][p][VersionOf(w)] = Append(@, w)]
    ELSE served

\* The uploader does not look at the answer: refused or not, it counts
Send(c, s, n) ==
    LET p == requirements_not_found[c][s][n]
    IN  /\ state[c] = "uploading"
        /\ \E w \in best_version(c, p) : served' = Stored(c, s, p, w)
        /\ uploads' = [uploads EXCEPT ![c] = @ \ {<<s, n>>}]
        /\ UNCHANGED <<sharedVars, answer, pc, job, faults, history, run, state, wheels>>

\* An upload that raises is never counted, and upload() waits for ever
SendFails(c, s, n) ==
    /\ state[c] = "uploading"
    /\ Fault(s)
    /\ state' = [state EXCEPT ![c] = "stuck"]
    /\ UNCHANGED <<served, sharedVars, answer, pc, job, history, run, wheels, uploads>>

Exit(c) ==
    /\ state[c] = "uploading" /\ uploads[c] = {}
    /\ state' = [state EXCEPT ![c] = "done"]
    /\ UNCHANGED <<locatorVars, run, wheels, uploads>>

-----------------------------------------------------------------------------
(* A server *)

Files(s) == UNION {Range(served[s][p][v]) : p \in Package, v \in Version}

\* Server.__init__ scans the directory, where web_upload has put everything
Restart(s) ==
    /\ Fault(s)
    /\ \E listdir \in SetToSeqs(Files(s)) : served' = [served EXCEPT ![s] = scan(listdir)]
    /\ UNCHANGED <<sharedVars, answer, pc, job, history, clientVars>>

ClientStep(c) ==
    \/ Start(c) \/ GiveUp(c) \/ InstallAll(c) \/ Exit(c)
    \/ \E r \in Requirement : Download(c, r) \/ DownloadFails(c, r)
    \/ \E x \in uploads[c] : Send(c, x[1], x[2]) \/ SendFails(c, x[1], x[2])

SearchStep(t) == Search(t) /\ UNCHANGED clientVars

Next ==
    \/ \E c \in Client : ClientStep(c)
    \/ \E t \in Thread : SearchStep(t)
    \/ \E s \in Curd : Restart(s)

Spec == Init /\ [][Next]_vars

\* Threads of a client and its main thread run; servers need not restart
FairSpec ==
    /\ Spec
    /\ \A c \in Client : WF_vars(ClientStep(c))
    /\ \A t \in Thread : WF_vars(SearchStep(t))

-----------------------------------------------------------------------------
TypeOK ==
    /\ LocatorsTypeOK
    /\ served \in [Curd -> [Package -> [Version -> Seq(Archive)]]]
    /\ run \in Runs
    /\ state \in [Client -> {"off", "finding", "uploading", "done", "failed", "stuck"}]
    /\ wheels \in [Client -> [Requirement -> Wheel \cup {None}]]
    /\ \A c \in Client : uploads[c] \subseteq get_servers_to_update(c)

(***************************************************************************)
(* "The client will upload the packages back to the curdling server"       *)
(* (docs/distributed-cache.rst:90): when a client that ran with -u is      *)
(* done, a server that lets it in lists every package it missed, in the    *)
(* version that was installed, whatever restarted meanwhile.               *)
(***************************************************************************)
WarmsUp ==
    \A c \in Upload, s \in Curd :
        state[c] = "done" /\ c \in Admits[s] =>
            \A p \in Range(requirements_not_found[c][s]) :
                \E w \in best_version(c, p) : served[s][p][VersionOf(w)] # <<>>

(***************************************************************************)
(* What clients are told of a version, the first file it has, does not     *)
(* change with uploads: two clients that miss the same wheel and send it   *)
(* one after the other disturb nobody.  This is what is left of "Smart     *)
(* enough to not save things we already have" and "Idempotent"             *)
(* (src/curdling/web/__init__.py:134-135): the file is saved and listed    *)
(* once more, behind the first.  Only a restart may put another one first. *)
(***************************************************************************)
AnswerStays ==
    [][\A s \in Curd, p \in Package, v \in Version :
           served[s][p][v] # <<>> =>
               \/ served'[s][p][v] # <<>> /\ Head(served'[s][p][v]) = Head(served[s][p][v])
               \/ faults' > faults /\ Range(served'[s][p][v]) = Range(served[s][p][v])]_vars

(***************************************************************************)
(* As far as pages and servers go a client ends, whatever the pages refer  *)
(* and redirect to and whatever the servers fail to answer; except that it *)
(* waits for ever for an upload that a server did not answer.  That its    *)
(* threads lose no update of a counter it waits for is assumed here: what  *)
(* comes of one is in RetrieveAndBuild and in Deploy (EndsUnlessShort).    *)
(***************************************************************************)
ClientEnds ==
    \A c \in Client : Wants(c) # {} =>
        <>(\/ state[c] \in {"done", "failed"}
           \/ state[c] = "stuck" /\ Flaky \cap Curd # {})
=============================================================================
