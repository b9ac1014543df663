------------------------------- MODULE Locators -------------------------------
(***************************************************************************)
(* How a finder thread looks for a requirement                             *)
(* (src/curdling/services/downloader.py).  The locators are asked one      *)
(* after the other, curdling servers first.  The threads of one client     *)
(* share its locators, and with them three unlocked objects: the listings  *)
(* distlib remembers (`_cache'), the links a scraper has seen (`_seen',    *)
(* which is never emptied) and the names a curdling server did not have    *)
(* (`requirements_not_found').                                             *)
(***************************************************************************)
EXTENDS Naturals, FiniteSets, Sequences, FiniteSetsExt, SequencesExt

CONSTANTS
    Package, Version, Requirement,
    PkgOf,          \* [Requirement -> Package]
    Allows,         \* [Requirement -> SUBSET Version]
    Archive,        \* files, by their links
    Describes,      \* archive -> <<package, version>>, None for another platform's
    Page,           \* pages of links
    Links,          \* [Page -> Seq(Archive \cup Page)], the pages being home pages
    Location,       \* page -> where it redirects to, or None
    REDIRECT_LIMIT,
    Curds, Indexes, \* sequences of URLs: -c, -i
    Spellings,      \* [index -> [Package -> Seq(Page)]], with hyphens and then underscores
    Client,         \* runs of `curd install', each with its own locators
    Thread,         \* finder threads
    ClientOf,       \* [Thread -> Client]
    Admits,         \* [curdling server -> SUBSET Client]: who passes its Authenticator
    Flaky,          \* servers that may fail to answer
    MaxFaults,      \* bound on failures to answer and restarts
    None

\* Mutant: the indexes are asked first
IndexesFirst == Indexes \o Curds

\* get_locator: the order in which they are asked
Locators == Curds \o Indexes
Curd == Range(Curds)
PyPi == Range(Indexes)

Listing == [Version -> Archive \cup {None}]

ASSUME LocatorsAssumption ==
    /\ Version \subseteq Nat /\ IsFiniteSet(Version)
    /\ PkgOf \in [Requirement -> Package]
    /\ Allows \in [Requirement -> SUBSET Version]
    /\ Describes \in [Archive -> (Package \X Version) \cup {None}]
    /\ Links \in [Page -> Seq(Archive \cup Page)]
    /\ IsFiniteSet(Archive) /\ Archive \cap Page = {}
    /\ None \notin Archive \cup Page \cup Curd \cup PyPi /\ None \notin Listing
    /\ Location \in [Page -> Page \cup {None}]
    /\ REDIRECT_LIMIT \in Nat
    /\ Curds \in Seq(Curd) /\ Indexes \in Seq(PyPi)
    /\ Locators # <<>> /\ Curd \cap PyPi = {}
    /\ Spellings \in [PyPi -> [Package -> Seq(Page)]]
    /\ ClientOf \in [Thread -> Client]
    /\ Admits \in [Curd -> SUBSET Client]
    /\ Flaky \subseteq Curd \cup PyPi /\ MaxFaults \in Nat

NoVersion == [v \in Version |-> None]

VARIABLES
    served,     \* curdling server -> package -> version -> its files, in order
    known,      \* client -> locator -> package -> listing (`_cache'), or None
    seen,       \* client -> index -> archives (`_seen')
    requirements_not_found, \* client -> curdling server -> sequence of packages
    answer,     \* client -> requirement -> what became of its search
    pc, job,    \* thread -> where it is, and its call of locate
    faults,     \* failures to answer and restarts so far
    before,     \* history: client -> what the servers listed when it started
    outages,    \* history: <<client, locator, package>> that went unanswered
    visits,     \* history: <<client, archive, package it was looked at for>>
    raced       \* history: <<client, index, package>> fetched by two threads at once

sharedVars == <<known, seen, requirements_not_found>>
history == <<before, outages, visits, raced>>
locatorVars == <<served, sharedVars, answer, pc, job, faults, history>>

Ended == {"found", "not found", "error"}

Reply(state, url, locator) == [state |-> state, url |-> url, locator |-> locator]

NoJob == [req |-> None, at |-> 0, pages |-> <<>>, links |-> <<>>,
          top |-> NoVersion, below |-> NoVersion]

NothingKnown == [l \in Range(Locators) |-> [p \in Package |-> None]]

LocatorsInit ==
    /\ known = [c \in Client |-> NothingKnown]
    /\ seen = [c \in Client |-> [i \in PyPi |-> {}]]
    /\ requirements_not_found = [c \in Client |-> [s \in Curd |-> <<>>]]
    /\ answer = [c \in Client |-> [r \in Requirement |-> Reply("unasked", None, None)]]
    /\ pc = [t \in Thread |-> "idle"]
    /\ job = [t \in Thread |-> NoJob]
    /\ faults = 0
    /\ before = [c \in Client |-> served]
    /\ outages = {} /\ visits = {} /\ raced = {}

-----------------------------------------------------------------------------
(* One call of locate *)

At(t, k) == pc[t] = k
Here(t) == Locators[job[t].at]
Wanted(t) == PkgOf[job[t].req]

Goto(t, k) == pc' = [pc EXCEPT ![t] = k]

\* locate returns, or raises
Finish(t, reply) ==
    /\ answer' = [answer EXCEPT ![ClientOf[t]][job[t].req] = reply]
    /\ job' = [job EXCEPT ![t] = NoJob]
    /\ Goto(t, "idle")

Suitable(versions, r) == {v \in Allows[r] : versions[v] # None}

\* Mutant: the newest version of all, listed or not
NewestOfAll(versions, r) == versions[Max(Version)]

find_packages(versions, r) == versions[Max(Suitable(versions, r))]

\* A locator has answered: take its best version, or go on to the next locator
Decide(t, versions) ==
    \/ /\ Suitable(versions, job[t].req) # {}
       /\ Finish(t, Reply("found", find_packages(versions, job[t].req), Here(t)))
    \/ /\ Suitable(versions, job[t].req) = {}
       /\ job[t].at < Len(Locators)
       /\ job' = [job EXCEPT ![t] = [NoJob EXCEPT !.req = job[t].req, !.at = job[t].at + 1]]
       /\ Goto(t, "ask")
       /\ UNCHANGED answer
    \/ /\ Suitable(versions, job[t].req) = {}
       /\ job[t].at = Len(Locators)
       /\ Finish(t, Reply("not found", None, None))

\* A thread takes a requirement from the queue of the finder
Take(t, r) ==
    /\ At(t, "idle")
    /\ answer[ClientOf[t]][r].state = "queued"
    /\ answer' = [answer EXCEPT ![ClientOf[t]][r].state = "searching"]
    /\ job' = [job EXCEPT ![t] = [NoJob EXCEPT !.req = r, !.at = 1]]
    /\ Goto(t, "ask")
    /\ UNCHANGED <<served, sharedVars, faults, history>>

Known(t) == known[ClientOf[t]][Here(t)][Wanted(t)]

\* get_project answers from `_cache'
Remember(t) ==
    /\ At(t, "ask") /\ Known(t) # None
    /\ Decide(t, Known(t))
    /\ UNCHANGED <<served, sharedVars, faults, history>>

\* The first file of each version, whatever its format
Listed(s, p) ==
    [v \in Version |-> IF served[s][p][v] = <<>> THEN None ELSE Head(served[s][p][v])]

\* What get_project found out goes to `_cache' once it is back
Learn(t, versions) ==
    /\ job' = [job EXCEPT ![t].top = versions]
    /\ Goto(t, "learn")

\* CurdlingLocator._get_project: status 200 brings a listing, any other one a miss
AskCurd(t) ==
    LET c == ClientOf[t]
        s == Here(t)
        p == Wanted(t)
        listing == IF c \in Admits[s] THEN Listed(s, p) ELSE NoVersion
    IN  /\ At(t, "ask") /\ Known(t) = None /\ s \in Curd
        /\ requirements_not_found' =
               IF listing # NoVersion THEN requirements_not_found
               ELSE [requirements_not_found EXCEPT ![c][s] = Append(@, p)]
        /\ Learn(t, listing)
        /\ UNCHANGED <<served, known, seen, answer, faults, history>>

\* A server fails to answer
Fault(server) ==
    /\ server \in Flaky /\ faults < MaxFaults
    /\ faults' = faults + 1

-----------------------------------------------------------------------------
(* PyPiLocator._get_project *)

\* Threads that fetch the pages of the same package for the same client
Rivals(t) ==
    {u \in Thread \ {t} :
        /\ pc[u] \in {"page", "links", "visit", "learn"}
        /\ ClientOf[u] = ClientOf[t] /\ Here(u) = Here(t) /\ Wanted(u) = Wanted(t)}

AskIndex(t) ==
    /\ At(t, "ask") /\ Known(t) = None /\ Here(t) \in PyPi
    /\ job' = [job EXCEPT ![t].pages = Spellings[Here(t)][Wanted(t)]]
    /\ Goto(t, "page")
    /\ raced' = IF Rivals(t) = {} THEN raced
                ELSE raced \cup {<<ClientOf[t], Here(t), Wanted(t)>>}
    /\ UNCHANGED <<served, sharedVars, answer, faults, before, outages, visits>>

\* Where a page is after its redirections: None after too many of them
http_retrieve(page) ==
    LET retrieve[n \in Nat] ==
            [p \in Page |-> IF n = 0 THEN None
                            ELSE IF Location[p] = None THEN p
                            ELSE retrieve[n - 1][Location[p]]]
    IN  retrieve[REDIRECT_LIMIT][page]

\* The links of a page, to be looked at in order
Queue(page, sub) == [i \in DOMAIN Links[page] |-> [link |-> Links[page][i], sub |-> sub]]

\* What follows the links of a home page
EndOfPage == [link |-> None, sub |-> TRUE]

\* TooManyRedirects is not caught on its way out of locate
TooManyRedirects(t) ==
    /\ Finish(t, Reply("error", None, Here(t)))
    /\ UNCHANGED <<served, sharedVars, faults, history>>

\* _fetch of the next spelling of the name, if the one before had nothing
Fetch(t) ==
    LET page == http_retrieve(Head(job[t].pages))
    IN  /\ At(t, "page") /\ job[t].pages # <<>>
        /\ IF page = None THEN TooManyRedirects(t)
           ELSE /\ job' = [job EXCEPT ![t].links = Queue(page, FALSE), ![t].pages = Tail(@)]
                /\ Goto(t, "links")
                /\ UNCHANGED <<served, sharedVars, answer, faults, history>>

\* No spelling is left: get_project answers None, which is remembered as well
NoPage(t) ==
    /\ At(t, "page") /\ job[t].pages = <<>>
    /\ Learn(t, NoVersion)
    /\ UNCHANGED <<served, sharedVars, answer, faults, history>>

Looking(t) == At(t, "links") /\ job[t].links # <<>>
Link(t) == Head(job[t].links)
Rest(t) == Tail(job[t].links)

\* _should_queue: a home page is fetched, one level down
Home(t) ==
    LET page == http_retrieve(Link(t).link)
    IN  /\ Looking(t) /\ Link(t).link \in Page /\ ~Link(t).sub
        /\ IF page = None THEN TooManyRedirects(t)
           ELSE /\ job' = [job EXCEPT ![t].links = Queue(page, TRUE) \o <<EndOfPage>> \o Rest(t)]
                /\ UNCHANGED <<served, sharedVars, answer, pc, faults, history>>

\* MaxRetryError: no listing and no miss of a curdling server, or no links of a page
NoAnswer(t) ==
    /\ ~At(t, "idle") /\ Fault(Here(t))
    /\ \/ /\ At(t, "ask") /\ Known(t) = None /\ Here(t) \in Curd
          /\ Learn(t, NoVersion)
       \/ /\ At(t, "page") /\ job[t].pages # <<>>
          /\ job' = [job EXCEPT ![t].pages = Tail(@)]
          /\ UNCHANGED pc
       \/ /\ Looking(t) /\ Link(t).link \in Page /\ ~Link(t).sub
          /\ job' = [job EXCEPT ![t].links = Rest(t)]
          /\ UNCHANGED pc
    /\ outages' = outages \cup {<<ClientOf[t], Here(t), Wanted(t)>>}
    /\ UNCHANGED <<served, sharedVars, answer, before, visits, raced>>

\* versions.update: what the home page had comes before what was found until then
Update(top, below) == [v \in Version |-> IF below[v] # None THEN below[v] ELSE top[v]]

\* Back from the home page
Return(t) ==
    /\ Looking(t) /\ Link(t) = EndOfPage
    /\ job' = [job EXCEPT ![t].links = Rest(t), ![t].below = NoVersion,
                          ![t].top = Update(job[t].top, job[t].below)]
    /\ UNCHANGED <<served, sharedVars, answer, pc, faults, history>>

Seen(t) == Link(t).link \in seen[ClientOf[t]][Here(t)]

\* Nothing is seen twice, and a page on a home page is no archive
Skip(t) ==
    /\ Looking(t)
    /\ \/ Link(t).link \in Page /\ Link(t).sub
       \/ Link(t).link \in Archive /\ Seen(t)
    /\ job' = [job EXCEPT ![t].links = Rest(t)]
    /\ UNCHANGED <<served, sharedVars, answer, pc, faults, history>>

See(t) ==
    /\ Looking(t) /\ Link(t).link \in Archive /\ ~Seen(t)
    /\ Goto(t, "visit")
    /\ UNCHANGED <<served, sharedVars, answer, job, faults, history>>

\* The first archive of a version stays
FirstWins(versions, a, p) ==
    [v \in Version |-> IF Describes[a] = <<p, v>> /\ versions[v] = None THEN a ELSE versions[v]]

\* _visit_link, some time after the link was found not to be in `_seen'
Visit(t) ==
    LET a == Link(t).link
        c == ClientOf[t]
    IN  /\ At(t, "visit")
        /\ seen' = [seen EXCEPT ![c][Here(t)] = @ \cup {a}]
        /\ job' = [job EXCEPT
               ![t].links = Rest(t),
               ![t].top = IF Link(t).sub THEN @ ELSE FirstWins(@, a, Wanted(t)),
               ![t].below = IF Link(t).sub THEN FirstWins(@, a, Wanted(t)) ELSE @]
        /\ Goto(t, "links")
        /\ visits' = visits \cup {<<c, a, Wanted(t)>>}
        /\ UNCHANGED <<served, known, requirements_not_found, answer, faults, before, outages, raced>>

\* Mutant: only one spelling is tried
FetchedOnce(t) ==
    /\ At(t, "links") /\ job[t].links = <<>>
    /\ Learn(t, job[t].top)
    /\ UNCHANGED <<served, sharedVars, answer, faults, history>>

\* The page is done: its versions are the answer, or the next spelling is tried
Fetched(t) ==
    /\ At(t, "links") /\ job[t].links = <<>>
    /\ IF job[t].top # NoVersion THEN Learn(t, job[t].top) ELSE Goto(t, "page") /\ UNCHANGED job
    /\ UNCHANGED <<served, sharedVars, answer, faults, history>>

\* get_project stores what it found and returns it
Store(t) ==
    /\ At(t, "learn")
    /\ known' = [known EXCEPT ![ClientOf[t]][Here(t)][Wanted(t)] = job[t].top]
    /\ Decide(t, job[t].top)
    /\ UNCHANGED <<served, seen, requirements_not_found, faults, history>>

Search(t) ==
    \/ \E r \in Requirement : Take(t, r)
    \/ Remember(t) \/ AskCurd(t) \/ NoAnswer(t) \/ AskIndex(t)
    \/ Fetch(t) \/ NoPage(t)
    \/ Home(t) \/ Return(t) \/ Skip(t) \/ See(t) \/ Visit(t) \/ Fetched(t)
    \/ Store(t)

-----------------------------------------------------------------------------
LocatorsTypeOK ==
    /\ known \in [Client -> [Range(Locators) -> [Package -> Listing \cup {None}]]]
    /\ seen \in [Client -> [PyPi -> SUBSET Archive]]
    /\ requirements_not_found \in [Client -> [Curd -> Seq(Package)]]
    /\ \A c \in Client, r \in Requirement :
        /\ answer[c][r].state \in {"unasked", "queued", "searching"} \cup Ended
        /\ answer[c][r].state = "found" <=> answer[c][r].url \in Archive
        /\ answer[c][r].state \in {"found", "error"} <=> answer[c][r].locator \in Range(Locators)
    /\ \A t \in Thread :
        /\ pc[t] \in {"idle", "ask", "page", "links", "visit", "learn"}
        /\ pc[t] # "idle" =>
            /\ job[t].req \in Requirement /\ job[t].at \in DOMAIN Locators
            /\ answer[ClientOf[t]][job[t].req].state = "searching"
            /\ job[t].top \in Listing /\ job[t].below \in Listing

\* The archives on a page and on its home pages, and those of p among them
OnPage(page) ==
    LET there == IF page = None THEN {} ELSE Range(Links[page])
        below == {http_retrieve(h) : h \in there \cap Page} \ {None}
    IN  (there \cup UNION {Range(Links[h]) : h \in below}) \cap Archive

OfPackage(page, p) == {a \in OnPage(page) : Describes[a] \in {p} \X Version}

\* Where the n-th spelling of p leads, and the spellings that lead to archives of p
PageOf(i, p, n) == http_retrieve(Spellings[i][p][n])
Bearing(i, p) == {n \in DOMAIN Spellings[i][p] : OfPackage(PageOf(i, p, n), p) # {}}

\* The archives of p on the first spelling's page that has any
Offers(i, p) ==
    IF Bearing(i, p) = {} THEN {} ELSE OfPackage(PageOf(i, p, Min(Bearing(i, p))), p)

VersionOf(a) == Describes[a][2]

\* The locators whose turn it was, the one that answered included
Asked(reply) ==
    {Locators[n] : n \in {m \in DOMAIN Locators :
        reply.state = "found" => \A k \in 1 .. m - 1 : Locators[k] # reply.locator}}

\* Another search got in the way: of another package, or of the same one meanwhile
Taken(c, i, a, p) ==
    \/ <<c, i, p>> \in raced \cup outages
    \/ \E q \in Package \ {p} : <<c, a, q>> \in visits

(***************************************************************************)
(* The finder overlooks nothing: an archive that suits the requirement, on *)
(* the pages of an index that was asked, is no newer than the one chosen.  *)
(* The exceptions come from `_seen', which the searches of all packages    *)
(* share: an archive that was looked at for another package, or two        *)
(* threads that fetched the pages of one package at the same time.         *)
(***************************************************************************)
Overlooked(c, r, i, a) ==
    /\ VersionOf(a) \in Allows[r]
    /\ ~Taken(c, i, a, PkgOf[r])
    /\ answer[c][r].locator = i => VersionOf(a) > VersionOf(answer[c][r].url)

FindsTheBest ==
    \A c \in Client, r \in Requirement :
        answer[c][r].state \in {"found", "not found"} =>
            \A i \in Asked(answer[c][r]) \cap PyPi :
                \A a \in Offers(i, PkgOf[r]) : ~Overlooked(c, r, i, a)

(***************************************************************************)
(* "The installer will try to retrieve binary files from any curdling      *)
(* servers specified before accessing the ones declared using -i"          *)
(* (docs/usage.rst:159): a version that a server listed when the client    *)
(* started is not looked for elsewhere, unless that server did not answer. *)
(***************************************************************************)
ServersFirst ==
    \A c \in Client, r \in Requirement :
        answer[c][r].state = "not found" \/ answer[c][r].locator \in PyPi =>
            \A s \in Curd :
                c \in Admits[s] /\ <<c, s, PkgOf[r]>> \notin outages =>
                    \A v \in Allows[r] : before[c][s][PkgOf[r]][v] = <<>>
=============================================================================
