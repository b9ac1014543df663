---------------------------- MODULE LocatorsProofs ----------------------------
(***************************************************************************)
(* Finders overlook nothing, for every set of pages, however they refer    *)
(* and redirect to each other, and every number of threads that look at    *)
(* them at the same time: an archive is in the hands of a thread, ahead of *)
(* it, or another search got in the way.                                   *)
(***************************************************************************)
EXTENDS CacheServerProofs, RecursionProofs

Entry == [link : Archive \cup Page \cup {None}, sub : BOOLEAN]

\* A page that redirects, or links to a page that redirects, too often
Trap(page) == page = None \/ \E h \in Range(Links[page]) \cap Page : http_retrieve(h) = None

\* The first spelling of p whose page raises or has archives of p
Stops(i, p) == {n \in DOMAIN Spellings[i][p] : Trap(PageOf(i, p, n)) \/ n \in Bearing(i, p)}
First(i, p, f) == f \in Stops(i, p) /\ \A n \in 1 .. f - 1 : n \notin Stops(i, p)

\* No error keeps a search from the offers
Open(i, p) == \E f \in DOMAIN Spellings[i][p] : First(i, p, f) /\ ~Trap(PageOf(i, p, f))

\* A thread with the call j has been, or is, on this page
Count(i, p, j) == Len(Spellings[i][p]) - Len(j.pages)

InHand(j, a) == j.top[VersionOf(a)] # None \/ j.below[VersionOf(a)] # None
EmptyHands(j) == j.top = NoVersion /\ j.below = NoVersion

\* The link e leads to a, or to an error
Leads(e, a) ==
    \/ e.link = a
    \/ /\ e.link \in Page /\ ~e.sub /\ http_retrieve(e.link) # None
       /\ a \in Range(Links[http_retrieve(e.link)])
Ahead(links, a) == \E e \in Range(links) : Leads(e, a)
TrapAhead(links) == \E e \in Range(links) : e.link \in Page /\ ~e.sub /\ http_retrieve(e.link) = None

\* The links of a home page end
Enclosed(links) ==
    \A n \in DOMAIN links : links[n].sub => \E m \in DOMAIN links : n <= m /\ links[m] = EndOfPage

\* A call has the rest of the spellings in front of it
Paged(i, p, j) ==
    /\ j.pages \in Seq(Page) /\ Count(i, p, j) \in Nat
    /\ \A n \in DOMAIN j.pages : j.pages[n] = Spellings[i][p][Count(i, p, j) + n]

\* e is on the page, which is the n-th
Belongs(i, p, n, e) ==
    /\ e.link \in Archive => e.link \in OnPage(PageOf(i, p, n))
    /\ e.link \in Page /\ ~e.sub => e.link \in Range(Links[PageOf(i, p, n)])

\* and the links of its page
Linked(i, p, j) ==
    /\ Count(i, p, j) \in DOMAIN Spellings[i][p]
    /\ PageOf(i, p, Count(i, p, j)) # None
    /\ j.links \in Seq(Entry) /\ Enclosed(j.links)
    /\ j.below # NoVersion => EndOfPage \in Range(j.links)
    /\ \A e \in Range(j.links) : Belongs(i, p, Count(i, p, j), e)

\* It has nothing before the first page that has something
Bare(i, p, j) == \A f \in DOMAIN Spellings[i][p] : First(i, p, f) /\ Count(i, p, j) < f => EmptyHands(j)

\* There, it has each offer, or will have it, but for those in T; and all of
\* them are in T if it gets beyond
Prospect(T, i, p, k, j) ==
    \A f \in DOMAIN Spellings[i][p] : First(i, p, f) =>
        /\ Count(i, p, j) = f /\ k # "page" =>
            /\ Trap(PageOf(i, p, f)) => TrapAhead(j.links) \/ Offers(i, p) \subseteq T
            /\ ~Trap(PageOf(i, p, f)) =>
                   \A a \in Offers(i, p) : a \in T \/ InHand(j, a) \/ Ahead(j.links, a)
        /\ Count(i, p, j) > f \/ (Count(i, p, j) = f /\ k = "page") => Offers(i, p) \subseteq T

Going(T, i, p, k, j) ==
    /\ Paged(i, p, j) /\ Bare(i, p, j) /\ Prospect(T, i, p, k, j)
    /\ IF k = "page" THEN EmptyHands(j) ELSE Linked(i, p, j)
    /\ k = "visit" => j.links # <<>>

\* A listing has every offer, and one without a version that suits r had none
Complete(T, i, p, listing) == \A a \in Offers(i, p) : a \in T \/ listing[VersionOf(a)] # None
Barren(T, i, r) == \A a \in Offers(i, PkgOf[r]) : VersionOf(a) \in Allows[r] => a \in T

-----------------------------------------------------------------------------
(* Pages *)

\* http_retrieve leads to a page, or to none.
LEMMA Retrieves == \A page \in Page : http_retrieve(page) \in Page \cup {None}
<1> DEFINE R == [Page -> Page \cup {None}]
           base == [p \in Page |-> IF Location[p] = None THEN p ELSE None]
           none == [p \in Page |-> None]
           more(g) == [p \in Page |-> IF Location[p] = None THEN p ELSE g[Location[p]]]
           step == [x \in Nat \X R |-> more(x[2])]
           Right(f) == f = [n \in Nat |-> [p \in Page |->
                              IF n = 0 THEN None
                              ELSE IF Location[p] = None THEN p ELSE f[n - 1][Location[p]]]]
<1>1. Location \in [Page -> Page \cup {None}] /\ REDIRECT_LIMIT \in Nat
  BY LocatorsAssumption
<1>2. none \in R /\ \A g \in R : more(g) \in R
  BY <1>1
<1>3. step \in Steps(Nat, R)
  <2> HIDE DEF R, more
  <2>1. QED
    BY <1>2 DEF Steps
<1>4. PICK h : Counts(R, none, step, h)
  <2> HIDE DEF R, none, step
  <2>1. QED
    BY <1>2, <1>3, NumberRecursion
<1>5. h \in [Nat -> R] /\ h[0] = none /\ \A n \in Nat : h[n + 1] = more(h[n])
  <2> HIDE DEF R, none, more
  <2>1. h \in [Nat -> R] /\ h[0] = none /\ \A n \in Nat : h[n] \in R /\ h[n + 1] = step[<<n, h[n]>>]
    BY <1>4 DEF Counts
  <2>2. QED
    BY <2>1
<1>6. Right(h)
  <2>1. ASSUME NEW n \in Nat
        PROVE  h[n] = [p \in Page |-> IF n = 0 THEN None
                       ELSE IF Location[p] = None THEN p ELSE h[n - 1][Location[p]]]
    <3>1. CASE n = 0
      BY <1>5, <3>1
    <3>2. CASE n # 0
      <4>1. n - 1 \in Nat /\ (n - 1) + 1 = n
        BY <3>2
      <4>2. h[n] = more(h[n - 1])
        <5> HIDE DEF more
        <5>1. QED
          BY <1>5, <4>1
      <4>3. QED
        BY <3>2, <4>2
    <3>3. QED
      BY <3>1, <3>2
  <2>2. h = [n \in Nat |-> h[n]]
    BY <1>5
  <2>3. QED
    BY <2>1, <2>2
<1> DEFINE f == CHOOSE g : Right(g)
<1>7. Right(f)
  <2> HIDE DEF Right
  <2>1. QED
    BY <1>6
<1>8. Nat \subseteq {n \in Nat : f[n] \in R}
  <2> DEFINE A == {n \in Nat : f[n] \in R}
  <2>1. \A n \in Nat : f[n] = [p \in Page |-> IF n = 0 THEN None
                       ELSE IF Location[p] = None THEN p ELSE f[n - 1][Location[p]]]
    <3> HIDE DEF f
    <3>1. QED
      BY <1>7
  <2> HIDE DEF f
  <2>2. 0 \in A
    <3>1. f[0] = none
      BY <2>1
    <3>2. QED
      BY <1>2, <3>1
  <2>3. ASSUME NEW n \in Nat, n \in A
        PROVE  n + 1 \in A
    <3>1. n + 1 \in Nat /\ n + 1 # 0 /\ (n + 1) - 1 = n
      OBVIOUS
    <3>2. f[n + 1] = more(f[n])
      BY <2>1, <3>1
    <3>3. QED
      BY <1>2, <2>3, <3>1, <3>2
  <2>4. Nat \subseteq A
    <3> HIDE DEF A
    <3>1. QED
      BY <2>2, <2>3, NumberInduction
  <2>5. QED
    BY <2>4
<1>9. ASSUME NEW page \in Page
      PROVE  http_retrieve(page) \in Page \cup {None}
  <2>1. http_retrieve(page) = f[REDIRECT_LIMIT][page]
    BY DEF http_retrieve
  <2> HIDE DEF f
  <2>2. QED
    BY <1>1, <1>8, <2>1
<1>10. QED
  BY <1>9

\* What is on a page, and on its home pages, is on the page.
LEMMA OnPageFacts ==
    ASSUME NEW page \in Page
    PROVE  /\ Range(Links[page]) \subseteq Archive \cup Page
           /\ Range(Links[page]) \cap Archive \subseteq OnPage(page)
           /\ \A h \in Range(Links[page]) \cap Page : http_retrieve(h) # None =>
                  Range(Links[http_retrieve(h)]) \cap Archive \subseteq OnPage(page)
           /\ OnPage(page) \subseteq Archive
<1>1. Links[page] \in Seq(Archive \cup Page) /\ page # None
  BY LocatorsAssumption
<1>2. Range(Links[page]) \subseteq Archive \cup Page
  BY <1>1 DEF Range
<1> DEFINE there == Range(Links[page])
           below == {http_retrieve(h) : h \in there \cap Page} \ {None}
<1>3. OnPage(page) = (there \cup UNION {Range(Links[h]) : h \in below}) \cap Archive
  BY <1>1 DEF OnPage
<1>4. \A h \in there \cap Page : http_retrieve(h) # None =>
          Range(Links[http_retrieve(h)]) \cap Archive \subseteq OnPage(page)
  BY <1>3
<1>5. QED
  BY <1>2, <1>3, <1>4

\* An archive on a page is reached by a link of it.
LEMMA OnPageLeads ==
    ASSUME NEW page \in Page, NEW a \in OnPage(page)
    PROVE  \/ a \in Range(Links[page])
           \/ \E h \in Range(Links[page]) \cap Page :
                  http_retrieve(h) # None /\ a \in Range(Links[http_retrieve(h)])
<1>1. page # None
  BY LocatorsAssumption
<1>2. QED
  BY <1>1 DEF OnPage

\* The spellings of a name.
LEMMA SpellingFacts ==
    ASSUME NEW i \in PyPi, NEW p \in Package
    PROVE  /\ Spellings[i][p] \in Seq(Page) /\ Len(Spellings[i][p]) \in Nat
           /\ DOMAIN Spellings[i][p] = 1 .. Len(Spellings[i][p])
           /\ \A n \in DOMAIN Spellings[i][p] :
                  Spellings[i][p][n] \in Page /\ PageOf(i, p, n) \in Page \cup {None}
<1>1. Spellings[i][p] \in Seq(Page)
  BY LocatorsAssumption
<1>2. \A n \in DOMAIN Spellings[i][p] : Spellings[i][p][n] \in Page
  BY <1>1
<1>3. QED
  BY <1>1, <1>2, Retrieves DEF PageOf

\* A set of numbers has a least one.
LEMMA Least ==
    ASSUME NEW S, S \subseteq Nat, S # {}
    PROVE  \E x \in S : \A y \in S : x <= y
<1>1. PICK x \in S : \A y \in S : ~(<<y, x>> \in OpToRel(<, Nat))
  BY NatLessThanWellFounded, WFMin
<1>2. \A y \in S : ~(y < x)
  BY <1>1 DEF OpToRel
<1>3. QED
  BY <1>2

\* Where the first page that has something is.
LEMMA FirstFacts ==
    ASSUME NEW i \in PyPi, NEW p \in Package
    PROVE  /\ Offers(i, p) \subseteq Of(p)
           /\ Offers(i, p) # {} => \E f \in DOMAIN Spellings[i][p] : First(i, p, f)
           /\ \A f, m \in DOMAIN Spellings[i][p] : First(i, p, f) /\ m \in Stops(i, p) => f <= m
           /\ \A f \in DOMAIN Spellings[i][p] :
                  First(i, p, f) /\ ~Trap(PageOf(i, p, f)) =>
                      PageOf(i, p, f) \in Page /\ Offers(i, p) = OfPackage(PageOf(i, p, f), p)
<1> DEFINE D == DOMAIN Spellings[i][p]
           B == Bearing(i, p)
           S == Stops(i, p)
<1>1. D \subseteq Nat /\ B \subseteq S /\ S \subseteq D /\ D = 1 .. Len(Spellings[i][p])
  BY SpellingFacts DEF Bearing, Stops
<1> HIDE DEF D, B, S
<1>2. \A f, m \in D : First(i, p, f) /\ m \in S => f <= m
  <2>1. SUFFICES ASSUME NEW f \in D, NEW m \in D, First(i, p, f), m \in S, ~(f <= m)
                 PROVE  FALSE
    OBVIOUS
  <2>2. m \in 1 .. f - 1
    BY <1>1, <2>1, SpellingFacts
  <2>3. QED
    BY <2>1, <2>2 DEF First, S
<1>3. S # {} => \E f \in D : First(i, p, f)
  <2>1. SUFFICES ASSUME S # {} PROVE \E f \in D : First(i, p, f)
    OBVIOUS
  <2>2. PICK f \in S : \A m \in S : f <= m
    BY <1>1, <2>1, Least
  <2>3. \A n \in 1 .. f - 1 : n \notin S
    <3>1. f \in Nat
      BY <1>1
    <3>2. \A n \in 1 .. f - 1 : ~(f <= n)
      BY <3>1
    <3>3. QED
      BY <2>2, <3>2
  <2>4. QED
    BY <1>1, <2>2, <2>3 DEF First, S
<1>4. Offers(i, p) = IF B = {} THEN {} ELSE OfPackage(PageOf(i, p, Min(B)), p)
  BY DEF Offers, B
<1>5. ASSUME NEW f \in D, First(i, p, f), ~Trap(PageOf(i, p, f))
      PROVE  PageOf(i, p, f) \in Page /\ Offers(i, p) = OfPackage(PageOf(i, p, f), p)
  <2>1. f \in B /\ PageOf(i, p, f) # None
    BY <1>5 DEF First, Stops, B, Trap
  <2>2. \A n \in B : f <= n
    BY <1>1, <1>2, <1>5
  <2>3. Min(B) = f
    <3>1. Min(B) \in B /\ \A n \in B : Min(B) <= n
      BY <2>1, <2>2 DEF Min
    <3>2. Min(B) <= f /\ f <= Min(B) /\ Min(B) \in Nat /\ f \in Nat
      BY <1>1, <2>1, <2>2, <3>1
    <3>3. QED
      BY <3>2
  <2>4. PageOf(i, p, f) \in Page \cup {None}
    BY SpellingFacts DEF D
  <2>5. QED
    BY <1>4, <2>1, <2>3, <2>4
<1>7. Offers(i, p) \subseteq Of(p)
  <2>1. CASE B = {}
    BY <1>4, <2>1
  <2>2. CASE B # {}
    <3>1. OfPackage(PageOf(i, p, Min(B)), p) \subseteq Of(p)
      <4>1. \A page : OnPage(page) \subseteq Archive
        BY DEF OnPage
      <4>2. QED
        BY <4>1 DEF OfPackage, Of
    <3>2. QED
      BY <1>4, <2>2, <3>1
  <2>3. QED
    BY <2>1, <2>2
<1>8. QED
  BY <1>1, <1>2, <1>3, <1>4, <1>5, <1>7 DEF D, S

\* Without errors on the way, the offers are those of that page; an error is
\* not before it.
LEMMA OpenFacts ==
    ASSUME NEW i \in PyPi, NEW p \in Package, NEW n \in DOMAIN Spellings[i][p],
           Trap(PageOf(i, p, n)), Open(i, p)
    PROVE  \E f \in DOMAIN Spellings[i][p] : First(i, p, f) /\ f < n
<1>1. PICK f \in DOMAIN Spellings[i][p] : First(i, p, f) /\ ~Trap(PageOf(i, p, f))
  BY DEF Open
<1>2. n \in Stops(i, p)
  BY DEF Stops
<1>3. f <= n /\ f # n /\ f \in Nat /\ n \in Nat
  BY <1>1, <1>2, FirstFacts, SpellingFacts
<1>4. QED
  BY <1>1, <1>3

-----------------------------------------------------------------------------
(* A call goes on, in terms of what it has in hand and ahead *)

\* The head and the tail of a sequence that is not empty.
LEMMA TailFacts ==
    ASSUME NEW S, NEW s \in Seq(S), s # <<>>
    PROVE  /\ Head(s) \in S /\ Tail(s) \in Seq(S)
           /\ Len(s) \in Nat /\ Len(Tail(s)) = Len(s) - 1 /\ Len(s) # 0
           /\ DOMAIN s = 1 .. Len(s) /\ DOMAIN Tail(s) = 1 .. Len(Tail(s))
           /\ s[1] = Head(s) /\ \A n \in DOMAIN Tail(s) : n + 1 \in DOMAIN s /\ Tail(s)[n] = s[n + 1]
           /\ Range(s) = {Head(s)} \cup Range(Tail(s))
<1>1. /\ Head(s) \in S /\ Tail(s) \in Seq(S)
      /\ Len(s) \in Nat /\ Len(Tail(s)) = Len(s) - 1 /\ Len(s) # 0
      /\ DOMAIN s = 1 .. Len(s) /\ DOMAIN Tail(s) = 1 .. Len(Tail(s))
  OBVIOUS
<1>2. s[1] = Head(s) /\ \A n \in DOMAIN Tail(s) : n + 1 \in DOMAIN s /\ Tail(s)[n] = s[n + 1]
  BY HeadTailProperties
<1>3. \A n \in DOMAIN s : n = 1 \/ (n - 1 \in DOMAIN Tail(s) /\ s[n] = Tail(s)[n - 1])
  <2>1. ASSUME NEW n \in DOMAIN s, n # 1
        PROVE  n - 1 \in DOMAIN Tail(s) /\ (n - 1) + 1 = n
    BY <1>1, <2>1
  <2>2. QED
    BY <1>2, <2>1
<1>4. 1 \in DOMAIN s
  BY <1>1
<1>5. Range(s) = {Head(s)} \cup Range(Tail(s))
  BY <1>2, <1>3, <1>4 DEF Range
<1>6. QED
  BY <1>1, <1>2, <1>5

\* The next spelling.
LEMMA TurnsPage ==
    ASSUME NEW i \in PyPi, NEW p \in Package, NEW j, NEW j2,
           Paged(i, p, j), j.pages # <<>>, j2.pages = Tail(j.pages)
    PROVE  /\ Paged(i, p, j2) /\ Count(i, p, j) \in Nat /\ Count(i, p, j2) = Count(i, p, j) + 1
           /\ Count(i, p, j2) \in DOMAIN Spellings[i][p]
           /\ Head(j.pages) = Spellings[i][p][Count(i, p, j2)]
<1> DEFINE n == Count(i, p, j)
           all == Spellings[i][p]
           pages == j.pages
<1>1. /\ pages \in Seq(Page) /\ pages # <<>> /\ n \in Nat /\ Len(all) \in Nat /\ DOMAIN all = 1 .. Len(all)
      /\ n = Len(all) - Len(pages)
      /\ \A m \in DOMAIN pages : pages[m] = all[n + m]
  BY SpellingFacts DEF Paged, Count
<1>2. /\ Tail(pages) \in Seq(Page) /\ Len(pages) \in Nat /\ Len(Tail(pages)) = Len(pages) - 1 /\ Len(pages) # 0
      /\ pages[1] = Head(pages) /\ 1 \in DOMAIN pages
      /\ \A m \in DOMAIN Tail(pages) : m \in Nat /\ m + 1 \in DOMAIN pages /\ Tail(pages)[m] = pages[m + 1]
  <2> HIDE DEF pages
  <2>1. QED
    BY <1>1, TailFacts
<1>3. Count(i, p, j2) = Len(all) - Len(Tail(pages))
  BY DEF Count
<1> HIDE DEF n, all, pages
<1>4. Count(i, p, j2) = n + 1 /\ n + 1 \in 1 .. Len(all)
  BY <1>1, <1>2, <1>3
<1>5. \A m \in DOMAIN Tail(pages) : Tail(pages)[m] = all[(n + 1) + m]
  <2>1. \A m \in DOMAIN Tail(pages) : n + (m + 1) = (n + 1) + m
    BY <1>1, <1>2
  <2>2. QED
    BY <1>1, <1>2, <2>1
<1>6. Paged(i, p, j2)
  <2>1. j2.pages = Tail(pages) /\ Count(i, p, j2) = n + 1 /\ n + 1 \in Nat
    <3>1. j2.pages = Tail(pages)
      BY DEF pages
    <3>2. n + 1 \in Nat
      BY ONLY <1>1
    <3>3. QED
      BY <1>4, <3>1, <3>2
  <2>2. \A m \in DOMAIN j2.pages : j2.pages[m] = all[Count(i, p, j2) + m]
    BY <1>5, <2>1
  <2>3. QED
    BY <1>2, <2>1, <2>2 DEF Paged, all
<1>7. Head(pages) = all[n + 1]
  BY <1>1, <1>2
<1>8. QED
  BY <1>1, <1>4, <1>6, <1>7 DEF n, all, pages

\* A link is done with: the rest are links of the page still.
LEMMA RestLinked ==
    ASSUME NEW i \in PyPi, NEW p \in Package, NEW j, NEW j2,
           Linked(i, p, j), j.links # <<>>, j2.links = Tail(j.links), j2.pages = j.pages,
           \/ j2.below = NoVersion
           \/ j2.below = j.below /\ Head(j.links) # EndOfPage
           \/ Head(j.links).sub /\ Head(j.links) # EndOfPage
    PROVE  Linked(i, p, j2)
<1> DEFINE links == j.links
<1>1. links \in Seq(Entry) /\ links # <<>> /\ Enclosed(links) /\ Count(i, p, j2) = Count(i, p, j)
  BY DEF Linked, Count
<1>2. /\ Head(links) \in Entry /\ Tail(links) \in Seq(Entry)
      /\ Len(links) \in Nat /\ Len(Tail(links)) = Len(links) - 1
      /\ DOMAIN links = 1 .. Len(links) /\ DOMAIN Tail(links) = 1 .. Len(Tail(links))
      /\ links[1] = Head(links) /\ 1 \in DOMAIN links
      /\ \A n \in DOMAIN Tail(links) : n + 1 \in DOMAIN links /\ Tail(links)[n] = links[n + 1]
      /\ Range(links) = {Head(links)} \cup Range(Tail(links))
  <2> HIDE DEF links
  <2>1. /\ Head(links) \in Entry /\ Tail(links) \in Seq(Entry)
        /\ Len(links) \in Nat /\ Len(Tail(links)) = Len(links) - 1 /\ Len(links) # 0
        /\ DOMAIN links = 1 .. Len(links) /\ DOMAIN Tail(links) = 1 .. Len(Tail(links))
        /\ links[1] = Head(links)
        /\ \A n \in DOMAIN Tail(links) : n + 1 \in DOMAIN links /\ Tail(links)[n] = links[n + 1]
        /\ Range(links) = {Head(links)} \cup Range(Tail(links))
    BY <1>1, TailFacts
  <2>2. 1 \in DOMAIN links
    BY <2>1
  <2>3. QED
    BY <2>1, <2>2
<1> HIDE DEF links
<1>3. \A m \in DOMAIN links : m = 1 \/ (m - 1 \in DOMAIN Tail(links) /\ Tail(links)[m - 1] = links[m])
  <2>1. ASSUME NEW m \in DOMAIN links, m # 1
        PROVE  m - 1 \in DOMAIN Tail(links) /\ (m - 1) + 1 = m
    BY <1>2, <2>1
  <2>2. QED
    BY <1>2, <2>1
<1>4. Enclosed(Tail(links))
  <2>1. ASSUME NEW n \in DOMAIN Tail(links), Tail(links)[n].sub
        PROVE  \E m \in DOMAIN Tail(links) : n <= m /\ Tail(links)[m] = EndOfPage
    <3>1. n + 1 \in DOMAIN links /\ links[n + 1].sub
      BY <1>2, <2>1
    <3>2. PICK m \in DOMAIN links : n + 1 <= m /\ links[m] = EndOfPage
      BY <1>1, <3>1 DEF Enclosed
    <3>3. m # 1 /\ n <= m - 1
      BY <1>2, <3>2
    <3>4. QED
      BY <1>3, <3>2, <3>3
  <2>2. QED
    BY <2>1 DEF Enclosed
<1>5. j2.below # NoVersion => EndOfPage \in Range(Tail(links))
  <2>1. CASE j2.below = j.below /\ Head(links) # EndOfPage
    <3>1. j.below # NoVersion => EndOfPage \in Range(links)
      BY DEF Linked, links
    <3>2. QED
      BY <1>2, <2>1, <3>1
  <2>2. CASE Head(links).sub /\ Head(links) # EndOfPage
    <3>1. PICK m \in DOMAIN links : links[m] = EndOfPage
      BY <1>1, <1>2, <2>2 DEF Enclosed
    <3>2. EndOfPage \in Range(links)
      BY <3>1 DEF Range
    <3>3. QED
      BY <1>2, <2>2, <3>2
  <2>3. QED
    BY <2>1, <2>2 DEF links
<1>6. \A e \in Range(Tail(links)) : Belongs(i, p, Count(i, p, j2), e)
  BY <1>1, <1>2 DEF Linked, links
<1>7. QED
  BY <1>1, <1>2, <1>4, <1>5, <1>6 DEF Linked, links

\* The start.
LEMMA Begins ==
    ASSUME NEW i \in PyPi, NEW p \in Package, NEW T, NEW j,
           j.pages = Spellings[i][p], EmptyHands(j)
    PROVE  Going(T, i, p, "page", j)
<1>1. Count(i, p, j) = 0 /\ \A n \in DOMAIN Spellings[i][p] : n \in Nat /\ ~(0 > n) /\ 0 # n /\ 0 + n = n
  BY SpellingFacts DEF Count
<1>2. Paged(i, p, j)
  BY <1>1, SpellingFacts DEF Paged
<1>3. Prospect(T, i, p, "page", j)
  BY <1>1 DEF Prospect
<1>4. QED
  BY <1>2, <1>3 DEF Going, Bare

\* The links of a page in a queue.
LEMMA QueueFacts ==
    ASSUME NEW page \in Page, NEW sub \in BOOLEAN
    PROVE  /\ Queue(page, sub) \in Seq(Entry)
           /\ \A e \in Range(Queue(page, sub)) :
                  e.sub = sub /\ e.link \in Range(Links[page]) /\ e.link # None
           /\ \A m \in DOMAIN Queue(page, sub) : Queue(page, sub)[m].sub = sub
           /\ \A x \in Range(Links[page]) : \E e \in Range(Queue(page, sub)) : e.link = x /\ e.sub = sub
<1> DEFINE links == Links[page]
           q == Queue(page, sub)
<1>1. links \in Seq(Archive \cup Page) /\ None \notin Archive \cup Page
  BY LocatorsAssumption
<1>2. q = [n \in DOMAIN links |-> [link |-> links[n], sub |-> sub]]
  BY DEF Queue
<1>3. /\ Len(links) \in Nat /\ DOMAIN links = 1 .. Len(links)
      /\ \A n \in DOMAIN links : links[n] \in Archive \cup Page /\ links[n] \in Range(links)
  <2> HIDE DEF links
  <2>1. QED
    BY <1>1 DEF Range
<1> HIDE DEF links, q
<1>4. \A n \in DOMAIN links :
          q[n] \in Entry /\ q[n].link = links[n] /\ q[n].sub = sub
  BY <1>2, <1>3 DEF Entry
<1>5. DOMAIN q = DOMAIN links /\ q = [n \in 1 .. Len(links) |-> q[n]]
  BY <1>2, <1>3
<1>6. q \in Seq(Entry)
  BY <1>3, <1>4, <1>5
<1>7. \A e \in Range(q) : e.sub = sub /\ e.link \in Range(links) /\ e.link # None
  <2>1. ASSUME NEW e \in Range(q)
        PROVE  e.sub = sub /\ e.link \in Range(links) /\ e.link # None
    <3>1. PICK n \in DOMAIN links : e = q[n]
      BY <1>5 DEF Range
    <3>2. e.sub = sub /\ e.link = links[n]
      BY <1>4, <3>1
    <3>3. QED
      BY <1>1, <1>3, <3>2
  <2>2. QED
    BY <2>1
<1>8. \A x \in Range(links) : \E e \in Range(q) : e.link = x /\ e.sub = sub
  <2>1. ASSUME NEW x \in Range(links)
        PROVE  \E e \in Range(q) : e.link = x /\ e.sub = sub
    <3>1. PICK n \in DOMAIN links : x = links[n]
      BY DEF Range
    <3>2. q[n] \in Range(q)
      BY <1>5 DEF Range
    <3>3. QED
      BY <1>4, <3>1, <3>2
  <2>2. QED
    BY <2>1
<1>9. QED
  BY <1>4, <1>5, <1>6, <1>7, <1>8 DEF links, q

\* A home page before the rest.
LEMMA EnclosedByHome ==
    ASSUME NEW s \in Seq(Entry), NEW r \in Seq(Entry), Enclosed(r)
    PROVE  /\ s \o <<EndOfPage>> \o r \in Seq(Entry) /\ Enclosed(s \o <<EndOfPage>> \o r)
           /\ Range(s \o <<EndOfPage>> \o r) = Range(s) \cup {EndOfPage} \cup Range(r)
<1> DEFINE q == s \o <<EndOfPage>>
           all == q \o r
<1>1. EndOfPage \in Entry
  BY DEF EndOfPage, Entry
<1>2. <<EndOfPage>> \in Seq(Entry) /\ Range(<<EndOfPage>>) = {EndOfPage}
  BY <1>1 DEF Range
<1>3. /\ q \in Seq(Entry) /\ Len(q) = Len(s) + 1 /\ Len(s) \in Nat /\ Len(r) \in Nat
      /\ q[Len(q)] = EndOfPage
  BY <1>2
<1>4. Range(q) = Range(s) \cup {EndOfPage}
  <2>1. \A x, y \in Seq(Entry) : Range(x \o y) = Range(x) \cup Range(y)
    BY RangeConcatenation
  <2>2. Range(q) = Range(s) \cup Range(<<EndOfPage>>)
    BY <1>2, <2>1
  <2>3. QED
    BY <1>2, <2>2
<1> HIDE DEF q
<1>5. /\ all \in Seq(Entry) /\ Len(all) = Len(q) + Len(r) /\ DOMAIN all = 1 .. Len(all)
      /\ \A n \in 1 .. Len(q) : all[n] = q[n]
      /\ \A n \in 1 .. Len(r) : n + Len(q) \in DOMAIN all /\ all[n + Len(q)] = r[n]
      /\ \A n \in Len(q) + 1 .. Len(all) : n - Len(q) \in DOMAIN r /\ all[n] = r[n - Len(q)]
  BY <1>3
<1>6. Range(all) = Range(q) \cup Range(r)
  BY <1>3, RangeConcatenation
<1> HIDE DEF all
<1>7. ASSUME NEW n \in DOMAIN all, all[n].sub
      PROVE  \E m \in DOMAIN all : n <= m /\ all[m] = EndOfPage
  <2>1. Len(q) \in Nat /\ Len(q) # 0 /\ Len(all) \in Nat
    BY <1>3, <1>5
  <2>2. CASE n <= Len(q)
    <3>1. Len(q) \in DOMAIN all /\ all[Len(q)] = EndOfPage
      BY <1>3, <1>5, <2>1
    <3>2. QED
      BY <2>2, <3>1
  <2>3. CASE ~(n <= Len(q))
    <3>1. n - Len(q) \in DOMAIN r /\ r[n - Len(q)].sub /\ n \in Nat
      <4>1. n \in 1 .. Len(all)
        BY <1>5
      <4>2. n \in Len(q) + 1 .. Len(all) /\ n \in Nat
        BY <2>1, <2>3, <4>1
      <4>3. n - Len(q) \in DOMAIN r /\ all[n] = r[n - Len(q)]
        BY <1>5, <4>2
      <4>4. QED
        BY <1>7, <4>2, <4>3
    <3>2. PICK m \in DOMAIN r : n - Len(q) <= m /\ r[m] = EndOfPage
      BY <3>1 DEF Enclosed
    <3>3. m \in 1 .. Len(r) /\ m \in Nat
      BY <3>2
    <3>4. m + Len(q) \in DOMAIN all /\ all[m + Len(q)] = EndOfPage
      BY <1>5, <3>2, <3>3
    <3>5. n <= m + Len(q)
      BY <2>1, <3>1, <3>2, <3>3
    <3>6. QED
      BY <3>4, <3>5
  <2>4. QED
    BY <2>2, <2>3
<1>8. QED
  BY <1>4, <1>5, <1>6, <1>7 DEF Enclosed, all, q

\* On the same page.
LEMMA Proceeds ==
    ASSUME NEW i \in PyPi, NEW p \in Package, NEW T, NEW T2, T \subseteq T2,
           NEW k \in {"links", "visit"}, NEW j, NEW j2,
           Going(T, i, p, k, j), j2.pages = j.pages, Linked(i, p, j2), Bare(i, p, j2),
           (TrapAhead(j.links) => TrapAhead(j2.links)) \/ Offers(i, p) \subseteq T2,
           Open(i, p) => \A a \in Offers(i, p) :
               InHand(j, a) \/ Ahead(j.links, a) => a \in T2 \/ InHand(j2, a) \/ Ahead(j2.links, a)
    PROVE  Going(T2, i, p, "links", j2)
<1>1. Count(i, p, j2) = Count(i, p, j) /\ k # "page"
  BY DEF Count
<1>2. Paged(i, p, j2)
  BY <1>1 DEF Going, Paged
<1>3. Prospect(T2, i, p, "links", j2)
  <2>1. ASSUME NEW f \in DOMAIN Spellings[i][p], First(i, p, f)
        PROVE  /\ Count(i, p, j) = f =>
                   /\ Trap(PageOf(i, p, f)) => TrapAhead(j2.links) \/ Offers(i, p) \subseteq T2
                   /\ ~Trap(PageOf(i, p, f)) =>
                          \A a \in Offers(i, p) : a \in T2 \/ InHand(j2, a) \/ Ahead(j2.links, a)
               /\ Count(i, p, j) > f => Offers(i, p) \subseteq T2
    <3>1. Trap(PageOf(i, p, f)) \/ Open(i, p)
      BY <2>1 DEF Open
    <3>2. QED
      BY <1>1, <2>1, <3>1, Zenon DEF Going, Prospect
  <2>2. QED
    BY <1>1, <2>1 DEF Prospect
<1>4. QED
  BY <1>1, <1>2, <1>3 DEF Going

\* The links of the next page.
LEMMA Fetches ==
    ASSUME NEW i \in PyPi, NEW p \in Package, NEW T, NEW j, NEW j2,
           Going(T, i, p, "page", j), j.pages # <<>>, j2.pages = Tail(j.pages),
           NEW page, page = http_retrieve(Head(j.pages)), page # None,
           j2.links = Queue(page, FALSE), j2.top = j.top, j2.below = j.below
    PROVE  Going(T, i, p, "links", j2)
<1> DEFINE n == Count(i, p, j2)
<1>1. /\ Paged(i, p, j2) /\ n \in DOMAIN Spellings[i][p] /\ page = PageOf(i, p, n) /\ page \in Page
      /\ n = Count(i, p, j) + 1 /\ Count(i, p, j) \in Nat
  BY TurnsPage, SpellingFacts DEF Going, PageOf
<1>2. EmptyHands(j2)
  BY DEF Going, EmptyHands
<1> HIDE DEF n
<1>3. /\ j2.links \in Seq(Entry)
      /\ \A e \in Range(j2.links) : ~e.sub /\ e.link \in Range(Links[page]) /\ e.link # None
      /\ \A m \in DOMAIN j2.links : ~j2.links[m].sub
      /\ \A x \in Range(Links[page]) : \E e \in Range(j2.links) : e.link = x /\ ~e.sub
  <2>1. PICK sub \in BOOLEAN : sub = FALSE
    OBVIOUS
  <2>2. PICK q : q = Queue(page, sub)
    OBVIOUS
  <2>3. /\ q \in Seq(Entry)
        /\ \A e \in Range(q) : e.sub = sub /\ e.link \in Range(Links[page]) /\ e.link # None
        /\ \A m \in DOMAIN q : q[m].sub = sub
        /\ \A x \in Range(Links[page]) : \E e \in Range(q) : e.link = x /\ e.sub = sub
    <3>1. page \in Page /\ sub \in BOOLEAN
      BY <1>1
    <3>2. /\ Queue(page, sub) \in Seq(Entry)
          /\ \A e \in Range(Queue(page, sub)) :
                 e.sub = sub /\ e.link \in Range(Links[page]) /\ e.link # None
          /\ \A m \in DOMAIN Queue(page, sub) : Queue(page, sub)[m].sub = sub
          /\ \A x \in Range(Links[page]) : \E e \in Range(Queue(page, sub)) : e.link = x /\ e.sub = sub
      BY ONLY <3>1, QueueFacts
    <3>3. QED
      BY ONLY <2>2, <3>2
  <2>4. j2.links = q
    BY <2>1, <2>2
  <2>5. QED
    BY <2>1, <2>3, <2>4
<1>4. Linked(i, p, j2)
  <2>1. Enclosed(j2.links)
    BY <1>3 DEF Enclosed
  <2>2. \A e \in Range(j2.links) : Belongs(i, p, n, e)
    BY <1>1, <1>3, OnPageFacts DEF Belongs
  <2>3. QED
    BY <1>1, <1>2, <1>3, <2>1, <2>2 DEF Linked, EmptyHands, n
<1>5. Trap(page) => TrapAhead(j2.links)
  <2>1. SUFFICES ASSUME Trap(page) PROVE TrapAhead(j2.links)
    OBVIOUS
  <2>2. PICK h \in Range(Links[page]) \cap Page : http_retrieve(h) = None
    BY <2>1 DEF Trap
  <2>3. PICK e \in Range(j2.links) : e.link = h /\ ~e.sub
    BY <1>3, <2>2
  <2>4. QED
    BY <2>2, <2>3 DEF TrapAhead
<1>6. \A a \in OnPage(page) : Ahead(j2.links, a)
  <2>1. ASSUME NEW a \in OnPage(page)
        PROVE  Ahead(j2.links, a)
    <3>1. CASE a \in Range(Links[page])
      BY <1>3, <3>1 DEF Ahead, Leads
    <3>2. CASE \E h \in Range(Links[page]) \cap Page :
                   http_retrieve(h) # None /\ a \in Range(Links[http_retrieve(h)])
      BY <1>3, <3>2 DEF Ahead, Leads
    <3>3. QED
      BY <1>1, <3>1, <3>2, OnPageLeads
  <2>2. QED
    BY <2>1
<1>7. Prospect(T, i, p, "links", j2)
  <2>1. ASSUME NEW f \in DOMAIN Spellings[i][p], First(i, p, f)
        PROVE  /\ n = f =>
                   /\ Trap(PageOf(i, p, f)) => TrapAhead(j2.links)
                   /\ ~Trap(PageOf(i, p, f)) => \A a \in Offers(i, p) : Ahead(j2.links, a)
               /\ n > f => Offers(i, p) \subseteq T
    <3>1. n = f /\ Trap(PageOf(i, p, f)) => TrapAhead(j2.links)
      BY <1>1, <1>5
    <3>2. n = f /\ ~Trap(PageOf(i, p, f)) => Offers(i, p) = OfPackage(page, p)
      BY <1>1, <2>1, FirstFacts
    <3>3. n = f /\ ~Trap(PageOf(i, p, f)) => \A a \in Offers(i, p) : Ahead(j2.links, a)
      BY <1>6, <3>2 DEF OfPackage
    <3>4. n > f => Count(i, p, j) > f \/ Count(i, p, j) = f
      BY <1>1, SpellingFacts
    <3>5. n > f => Offers(i, p) \subseteq T
      BY <2>1, <3>4 DEF Going, Prospect
    <3>6. QED
      BY <3>1, <3>3, <3>5
  <2>2. QED
    BY <2>1 DEF Prospect, n
<1>8. QED
  BY <1>1, <1>2, <1>4, <1>7 DEF Going, Bare

\* A home page has its links in front of the rest.
LEMMA FetchesHome ==
    ASSUME NEW i \in PyPi, NEW p \in Package, NEW T, NEW j, NEW j2,
           Going(T, i, p, "links", j), j.links # <<>>, j2.pages = j.pages,
           Head(j.links).link \in Page, ~Head(j.links).sub,
           NEW page, page = http_retrieve(Head(j.links).link), page # None,
           j2.links = Queue(page, TRUE) \o <<EndOfPage>> \o Tail(j.links),
           j2.top = j.top, j2.below = j.below
    PROVE  Going(T, i, p, "links", j2)
<1> DEFINE links == j.links
           e0 == Head(links)
           here == PageOf(i, p, Count(i, p, j))
<1>1. /\ Linked(i, p, j) /\ links \in Seq(Entry) /\ links # <<>>
      /\ Count(i, p, j) \in DOMAIN Spellings[i][p] /\ here # None
  BY DEF Going, Linked
<1>2. Tail(links) \in Seq(Entry) /\ e0 \in Entry /\ Range(links) = {e0} \cup Range(Tail(links))
  <2> HIDE DEF links
  <2>1. QED
    BY <1>1, TailFacts
<1>3. here \in Page /\ page \in Page /\ None \notin Archive \cup Page /\ Archive \cap Page = {}
  BY <1>1, SpellingFacts, Retrieves, LocatorsAssumption
<1>4. Enclosed(Tail(links))
  <2>1. PICK j3 : j3 = [pages |-> j.pages, links |-> Tail(links), below |-> NoVersion]
    OBVIOUS
  <2>2. Linked(i, p, j3)
    BY <1>1, <2>1, RestLinked
  <2>3. QED
    BY <2>1, <2>2 DEF Linked
<1>5. PICK q : q = Queue(page, TRUE)
  OBVIOUS
<1>6. /\ q \in Seq(Entry)
      /\ \A e \in Range(q) : e.sub /\ e.link \in Range(Links[page])
      /\ \A x \in Range(Links[page]) : \E e \in Range(q) : e.link = x
  <2>1. PICK sub \in BOOLEAN : sub = TRUE
    OBVIOUS
  <2>2. /\ Queue(page, sub) \in Seq(Entry)
        /\ \A e \in Range(Queue(page, sub)) :
               e.sub = sub /\ e.link \in Range(Links[page]) /\ e.link # None
        /\ \A x \in Range(Links[page]) : \E e \in Range(Queue(page, sub)) : e.link = x /\ e.sub = sub
    BY ONLY <1>3, QueueFacts
  <2>3. q = Queue(page, sub)
    BY <1>5, <2>1
  <2>4. QED
    BY <2>1, <2>2, <2>3
<1>7. /\ j2.links \in Seq(Entry) /\ Enclosed(j2.links)
      /\ Range(j2.links) = Range(q) \cup {EndOfPage} \cup Range(Tail(links))
  <2>1. j2.links = q \o <<EndOfPage>> \o Tail(links)
    BY <1>5
  <2>2. QED
    BY <1>2, <1>4, <1>6, <2>1, EnclosedByHome
<1>8. e0.link \in Range(Links[here])
  BY <1>1, <1>2 DEF Linked, Belongs
<1>9. \A e \in Range(j2.links) : Belongs(i, p, Count(i, p, j), e)
  <2>1. ASSUME NEW e \in Range(q)
        PROVE  Belongs(i, p, Count(i, p, j), e)
    <3>1. Range(Links[page]) \cap Archive \subseteq OnPage(here)
      BY <1>3, <1>8, OnPageFacts
    <3>2. QED
      BY <1>6, <3>1 DEF Belongs
  <2>2. Belongs(i, p, Count(i, p, j), EndOfPage)
    BY <1>3 DEF Belongs, EndOfPage
  <2>3. \A e \in Range(links) : Belongs(i, p, Count(i, p, j), e)
    BY <1>1 DEF Linked
  <2>4. QED
    BY <1>2, <1>7, <2>1, <2>2, <2>3
<1>10. Count(i, p, j2) = Count(i, p, j)
  BY DEF Count
<1> HIDE DEF links, e0, here
<1>11. Linked(i, p, j2)
  BY <1>1, <1>7, <1>9, <1>10 DEF Linked, here
<1>12. Bare(i, p, j2)
  BY <1>10 DEF Going, Bare, EmptyHands
<1>13. TrapAhead(links) => TrapAhead(j2.links)
  <2>1. http_retrieve(e0.link) # None
    BY DEF e0, links
  <2>2. QED
    BY <1>2, <1>7, <2>1 DEF TrapAhead
<1>14. ASSUME NEW a \in Offers(i, p), Ahead(links, a)
       PROVE  Ahead(j2.links, a)
  <2>1. a \in Archive
    BY FirstFacts DEF Of
  <2>2. PICK e \in Range(links) : Leads(e, a)
    BY <1>14 DEF Ahead
  <2>3. CASE e = e0
    <3>1. a \in Range(Links[page])
      BY <1>3, <2>1, <2>2, <2>3 DEF Leads, e0, links
    <3>2. PICK d \in Range(q) : d.link = a
      BY <1>6, <3>1
    <3>3. QED
      BY <1>7, <3>2 DEF Ahead, Leads
  <2>4. CASE e # e0
    BY <1>2, <1>7, <2>2, <2>4 DEF Ahead
  <2>5. QED
    BY <2>3, <2>4
<1>15. \A a \in Offers(i, p) :
           InHand(j, a) \/ Ahead(j.links, a) => a \in T \/ InHand(j2, a) \/ Ahead(j2.links, a)
  BY <1>14 DEF InHand, links
<1>16. TrapAhead(j.links) => TrapAhead(j2.links)
  BY <1>13 DEF links
<1>17. PICK k \in {"links", "visit"} : k = "links"
  OBVIOUS
<1>18. Going(T, i, p, k, j) /\ T \subseteq T /\ j2.pages = j.pages
  BY <1>17
<1>19. QED
  BY ONLY <1>11, <1>12, <1>15, <1>16, <1>18, i \in PyPi, p \in Package, k \in {"links", "visit"}, Proceeds

\* An archive is to be visited.
LEMMA Sees ==
    ASSUME NEW i \in PyPi, NEW p \in Package, NEW T, NEW j,
           Going(T, i, p, "links", j), j.links # <<>>
    PROVE  Going(T, i, p, "visit", j)
<1>1. Prospect(T, i, p, "visit", j)
  BY DEF Going, Prospect
<1>2. QED
  BY <1>1 DEF Going

\* A link is done with.
LEMMA Passes ==
    ASSUME NEW i \in PyPi, NEW p \in Package, NEW T, NEW T2, T \subseteq T2,
           NEW k \in {"links", "visit"}, NEW j, NEW j2,
           Going(T, i, p, k, j), j.links # <<>>, j2.links = Tail(j.links), j2.pages = j.pages,
           \/ j2.below = NoVersion
           \/ j2.below = j.below /\ Head(j.links) # EndOfPage
           \/ Head(j.links).sub /\ Head(j.links) # EndOfPage,
           Bare(i, p, j2),
           Offers(i, p) \subseteq T2 \/ Head(j.links).link \notin Page \/ Head(j.links).sub,
           Open(i, p) => \A a \in Offers(i, p) :
               InHand(j, a) \/ Leads(Head(j.links), a) => a \in T2 \/ InHand(j2, a)
    PROVE  Going(T2, i, p, "links", j2)
<1>1. Linked(i, p, j) /\ j.links \in Seq(Entry)
  BY DEF Going, Linked
<1>2. Linked(i, p, j2)
  BY <1>1, RestLinked
<1>3. PICK links : links = j.links
  OBVIOUS
<1>4. Range(links) = {Head(links)} \cup Range(Tail(links))
  BY <1>1, <1>3, TailFacts
<1>5. (TrapAhead(j.links) => TrapAhead(j2.links)) \/ Offers(i, p) \subseteq T2
  BY <1>3, <1>4 DEF TrapAhead
<1>6. Open(i, p) => \A a \in Offers(i, p) :
          InHand(j, a) \/ Ahead(j.links, a) => a \in T2 \/ InHand(j2, a) \/ Ahead(j2.links, a)
  BY <1>3, <1>4 DEF Ahead
<1>7. Bare(i, p, j2) /\ j2.pages = j.pages /\ Going(T, i, p, k, j)
  OBVIOUS
<1>8. QED
  BY ONLY <1>2, <1>5, <1>6, <1>7, T \subseteq T2, k \in {"links", "visit"},
          i \in PyPi, p \in Package, Proceeds

\* Nothing in hand is lost.
LEMMA HandsKeep ==
    ASSUME NEW p \in Package, NEW a \in Of(p), NEW top, NEW below, NEW x \in Archive
    PROVE  /\ top[VersionOf(a)] # None => Update(top, below)[VersionOf(a)] # None
           /\ below[VersionOf(a)] # None => Update(top, below)[VersionOf(a)] # None
           /\ top[VersionOf(a)] # None => FirstWins(top, x, p)[VersionOf(a)] # None
           /\ FirstWins(top, a, p)[VersionOf(a)] # None
           /\ NoVersion[VersionOf(a)] = None
<1>1. a # None /\ VersionOf(a) \in Version /\ Describes[a] = <<p, VersionOf(a)>> /\ x # None
  BY OfFacts, LocatorsAssumption
<1>2. QED
  BY <1>1 DEF Update, FirstWins, NoVersion

\* Nothing comes of nothing.
LEMMA NothingComes ==
    /\ Update(NoVersion, NoVersion) = NoVersion
    /\ \A p \in Package, a \in Archive : a \notin Of(p) => FirstWins(NoVersion, a, p) = NoVersion
<1>1. Update(NoVersion, NoVersion) = NoVersion
  BY DEF Update, NoVersion
<1>2. ASSUME NEW p \in Package, NEW a \in Archive, a \notin Of(p)
      PROVE  FirstWins(NoVersion, a, p) = NoVersion
  <2>1. \A v \in Version : Describes[a] # <<p, v>>
    BY <1>2 DEF Of
  <2>2. QED
    BY <2>1 DEF FirstWins, NoVersion
<1>3. QED
  BY <1>1, <1>2

\* The head of the links.
LEMMA HeadFacts ==
    ASSUME NEW i \in PyPi, NEW p \in Package, NEW j, Linked(i, p, j), j.links # <<>>
    PROVE  /\ Head(j.links) \in Entry /\ Belongs(i, p, Count(i, p, j), Head(j.links))
           /\ Head(j.links).link \in Archive \cup Page <=> Head(j.links).link # None
           /\ Head(j.links) = EndOfPage => Head(j.links).link = None
           /\ Archive \cap Page = {} /\ None \notin Archive \cup Page
<1>1. PICK links \in Seq(Entry) : links = j.links
  BY DEF Linked
<1>2. Head(links) \in Entry /\ Head(links) \in Range(links)
  BY <1>1, TailFacts
<1>3. Archive \cap Page = {} /\ None \notin Archive \cup Page
  BY LocatorsAssumption
<1>4. QED
  BY <1>1, <1>2, <1>3 DEF Linked, Entry, EndOfPage

\* A link is passed over: there is nothing behind it that is not had already.
LEMMA Skips ==
    ASSUME NEW i \in PyPi, NEW p \in Package, NEW T, NEW j, NEW j2,
           Going(T, i, p, "links", j), j.links # <<>>, j2.links = Tail(j.links), j2.pages = j.pages,
           j2.top = j.top, j2.below = j.below,
           \/ Head(j.links).link \in Page /\ Head(j.links).sub
           \/ /\ Head(j.links).link \in Archive
              /\ Open(i, p) /\ Head(j.links).link \in Offers(i, p) =>
                     Head(j.links).link \in T \/ InHand(j, Head(j.links).link)
    PROVE  Going(T, i, p, "links", j2)
<1>1. Linked(i, p, j) /\ Bare(i, p, j)
  BY DEF Going
<1>2. PICK e : e = Head(j.links)
  OBVIOUS
<1>3. /\ e.link \in Archive \/ (e.link \in Page /\ e.sub)
      /\ Archive \cap Page = {} /\ e # EndOfPage
  BY <1>1, <1>2, HeadFacts
<1>4. ASSUME Open(i, p), NEW a \in Offers(i, p), InHand(j, a) \/ Leads(e, a)
      PROVE  a \in T \/ InHand(j2, a)
  <2>1. a \in Archive
    BY FirstFacts DEF Of
  <2>2. Leads(e, a) => a = e.link /\ e.link \in Archive
    BY <1>3, <2>1 DEF Leads
  <2>3. QED
    BY <1>2, <1>3, <1>4, <2>2 DEF InHand
<1>5. Bare(i, p, j2)
  BY <1>1 DEF Bare, Count, EmptyHands
<1>6. Head(j.links).link \notin Page \/ Head(j.links).sub
  BY <1>2, <1>3
<1>7. j2.below = j.below /\ Head(j.links) # EndOfPage
  BY <1>2, <1>3
<1>8. Open(i, p) => \A a \in Offers(i, p) :
          InHand(j, a) \/ Leads(Head(j.links), a) => a \in T \/ InHand(j2, a)
  BY <1>2, <1>4
<1>9. QED
  BY <1>5, <1>6, <1>7, <1>8, Passes

\* Back from a home page.
LEMMA Returns ==
    ASSUME NEW i \in PyPi, NEW p \in Package, NEW T, NEW j, NEW j2,
           Going(T, i, p, "links", j), j.links # <<>>, j2.links = Tail(j.links), j2.pages = j.pages,
           Head(j.links) = EndOfPage,
           j2.top = Update(j.top, j.below), j2.below = NoVersion
    PROVE  Going(T, i, p, "links", j2)
<1>1. Linked(i, p, j) /\ Bare(i, p, j)
  BY DEF Going
<1>2. PICK e : e = Head(j.links)
  OBVIOUS
<1>3. e.link = None /\ e.link \notin Archive \cup Page
  BY <1>1, <1>2, HeadFacts
<1>4. ASSUME NEW a \in Offers(i, p), InHand(j, a) \/ Leads(e, a)
      PROVE  a \in T \/ InHand(j2, a)
  <2>1. a \in Of(p) /\ a \in Archive
    BY FirstFacts DEF Of
  <2>2. InHand(j, a)
    BY <1>3, <1>4, <2>1 DEF Leads
  <2>3. QED
    BY <2>1, <2>2, HandsKeep DEF InHand
<1>5. Bare(i, p, j2)
  BY <1>1, NothingComes DEF Bare, Count, EmptyHands
<1>6. QED
  BY <1>2, <1>3, <1>4, <1>5, Passes

\* An archive joins the versions.
LEMMA Visits ==
    ASSUME NEW i \in PyPi, NEW p \in Package, NEW T, NEW T2, T \subseteq T2, NEW j, NEW j2,
           Going(T, i, p, "visit", j), j.links # <<>>, j2.links = Tail(j.links), j2.pages = j.pages,
           NEW a, a = Head(j.links).link, a \in Archive,
           \/ /\ Head(j.links).sub /\ j2.top = j.top /\ j2.below = FirstWins(j.below, a, p)
           \/ /\ ~Head(j.links).sub /\ j2.top = FirstWins(j.top, a, p) /\ j2.below = j.below
    PROVE  Going(T2, i, p, "links", j2)
<1>1. Linked(i, p, j) /\ Bare(i, p, j)
  BY DEF Going
<1>2. PICK e : e = Head(j.links)
  OBVIOUS
<1>3. /\ e.link = a /\ a \notin Page /\ e # EndOfPage
      /\ Belongs(i, p, Count(i, p, j), e)
  BY <1>1, <1>2, HeadFacts
<1>4. \A x \in Of(p) : InHand(j, x) => InHand(j2, x)
  BY HandsKeep DEF InHand
<1>5. a \in Of(p) => InHand(j2, a)
  <2>1. a \in Of(p) => \A top : FirstWins(top, a, p)[VersionOf(a)] # None
    BY HandsKeep
  <2>2. QED
    BY <2>1 DEF InHand
<1>6. \A x \in Offers(i, p) : InHand(j, x) \/ Leads(e, x) => x \in T2 \/ InHand(j2, x)
  BY <1>3, <1>4, <1>5, FirstFacts DEF Leads
<1>7. Bare(i, p, j2)
  <2>1. ASSUME NEW f \in DOMAIN Spellings[i][p], First(i, p, f), Count(i, p, j) < f
        PROVE  EmptyHands(j2)
    <3>1. EmptyHands(j)
      BY <1>1, <2>1 DEF Bare
    <3>2. Count(i, p, j) \in 1 .. f - 1 /\ Count(i, p, j) \in DOMAIN Spellings[i][p]
      BY <1>1, <2>1, SpellingFacts DEF Linked
    <3>3. Count(i, p, j) \notin Bearing(i, p)
      BY <2>1, <3>2 DEF First, Stops
    <3>4. a \in OnPage(PageOf(i, p, Count(i, p, j)))
      BY <1>3 DEF Belongs
    <3>5. a \notin Of(p)
      BY <3>2, <3>3, <3>4 DEF Bearing, OfPackage, Of
    <3>6. FirstWins(NoVersion, a, p) = NoVersion
      BY <3>5, NothingComes
    <3>7. QED
      BY <3>1, <3>6 DEF EmptyHands
  <2>2. QED
    BY <2>1 DEF Bare, Count
<1>8. \/ j2.below = j.below /\ Head(j.links) # EndOfPage
      \/ Head(j.links).sub /\ Head(j.links) # EndOfPage
  BY <1>2, <1>3
<1>9. Head(j.links).link \notin Page
  BY <1>3
<1>10. PICK k \in {"links", "visit"} : k = "visit"
  OBVIOUS
<1>11. Going(T, i, p, k, j)
  BY <1>10
<1>12. \A x \in Offers(i, p) : InHand(j, x) \/ Leads(Head(j.links), x) => x \in T2 \/ InHand(j2, x)
  BY <1>2, <1>6
<1>13. Going(T2, i, p, "links", j2)
  BY <1>7, <1>8, <1>9, <1>11, <1>12, Passes
<1>14. QED
  BY <1>13

\* No links of a home page, or no page: what was there no longer counts.
LEMMA Misses ==
    ASSUME NEW i \in PyPi, NEW p \in Package, NEW T, NEW T2, T \subseteq T2, Offers(i, p) \subseteq T2,
           NEW j, NEW j2, j2.top = j.top, j2.below = j.below
    PROVE  /\ /\ Going(T, i, p, "links", j) /\ j.links # <<>> /\ j2.links = Tail(j.links)
              /\ j2.pages = j.pages /\ Head(j.links) # EndOfPage
              => Going(T2, i, p, "links", j2)
           /\ Going(T, i, p, "page", j) /\ j.pages # <<>> /\ j2.pages = Tail(j.pages)
              => Going(T2, i, p, "page", j2)
<1>1. ASSUME Going(T, i, p, "links", j), j.links # <<>>, j2.links = Tail(j.links),
             j2.pages = j.pages, Head(j.links) # EndOfPage
      PROVE  Going(T2, i, p, "links", j2)
  <2>1. Bare(i, p, j2)
    BY <1>1 DEF Going, Bare, Count, EmptyHands
  <2>2. \A a \in Offers(i, p) : InHand(j, a) \/ Leads(Head(j.links), a) => a \in T2 \/ InHand(j2, a)
    OBVIOUS
  <2>3. j2.below = j.below /\ Head(j.links) # EndOfPage
    BY <1>1
  <2>4. Offers(i, p) \subseteq T2 \/ Head(j.links).link \notin Page \/ Head(j.links).sub
    OBVIOUS
  <2>5. PICK k \in {"links", "visit"} : k = "links"
    OBVIOUS
  <2>6. Going(T, i, p, k, j)
    BY <1>1, <2>5
  <2>7. QED
    BY <1>1, <2>1, <2>2, <2>3, <2>4, <2>6, Passes
<1>2. ASSUME Going(T, i, p, "page", j), j.pages # <<>>, j2.pages = Tail(j.pages)
      PROVE  Going(T2, i, p, "page", j2)
  <2>1. Paged(i, p, j2)
    BY <1>2, TurnsPage DEF Going
  <2>2. EmptyHands(j2)
    BY <1>2 DEF Going, EmptyHands
  <2>3. QED
    BY <2>1, <2>2 DEF Going, Bare, Prospect
<1>3. QED
  BY <1>1, <1>2

\* What got in the way stays in the way.
LEMMA Grows ==
    ASSUME NEW i \in PyPi, NEW p \in Package, NEW T, NEW T2, T \subseteq T2
    PROVE  /\ \A k, j : Going(T, i, p, k, j) => Going(T2, i, p, k, j)
           /\ \A listing : Complete(T, i, p, listing) => Complete(T2, i, p, listing)
           /\ \A r : Barren(T, i, r) => Barren(T2, i, r)
<1>1. \A k, j : Prospect(T, i, p, k, j) => Prospect(T2, i, p, k, j)
  <2>1. ASSUME NEW k, NEW j, Prospect(T, i, p, k, j), NEW f \in DOMAIN Spellings[i][p], First(i, p, f)
        PROVE  /\ Count(i, p, j) = f /\ k # "page" =>
                   /\ Trap(PageOf(i, p, f)) => TrapAhead(j.links) \/ Offers(i, p) \subseteq T2
                   /\ ~Trap(PageOf(i, p, f)) =>
                          \A a \in Offers(i, p) : a \in T2 \/ InHand(j, a) \/ Ahead(j.links, a)
               /\ Count(i, p, j) > f \/ (Count(i, p, j) = f /\ k = "page") => Offers(i, p) \subseteq T2
    BY <2>1, Zenon DEF Prospect
  <2>2. QED
    BY <2>1 DEF Prospect
<1>2. \A k, j : Going(T, i, p, k, j) => Going(T2, i, p, k, j)
  BY <1>1 DEF Going
<1>3. QED
  BY <1>2 DEF Complete, Barren

\* A page is done: it had nothing to offer, or everything is in hand.
LEMMA PageDone ==
    ASSUME NEW i \in PyPi, NEW p \in Package, NEW T, NEW j,
           Going(T, i, p, "links", j), j.links = <<>>
    PROVE  /\ j.top # NoVersion => Complete(T, i, p, j.top)
           /\ j.top = NoVersion => Going(T, i, p, "page", j)
<1>1. Paged(i, p, j) /\ Bare(i, p, j) /\ Linked(i, p, j) /\ Prospect(T, i, p, "links", j)
  BY DEF Going
<1>2. Range(j.links) = {} /\ ~TrapAhead(j.links) /\ \A a : ~Ahead(j.links, a)
  BY DEF Range, TrapAhead, Ahead
<1>3. j.below = NoVersion
  BY <1>1, <1>2 DEF Linked
<1>4. \A a \in Offers(i, p) : InHand(j, a) => j.top[VersionOf(a)] # None
  BY <1>3, FirstFacts, OfFacts DEF InHand, NoVersion
<1>5. ASSUME NEW f \in DOMAIN Spellings[i][p], First(i, p, f)
      PROVE  Count(i, p, j) < f \/ Complete(T, i, p, j.top)
  <2>1. CASE Count(i, p, j) > f
    BY <1>1, <1>5, <2>1 DEF Prospect, Complete
  <2>2. CASE Count(i, p, j) = f
    <3>1. CASE Trap(PageOf(i, p, f))
      BY <1>1, <1>2, <1>5, <2>2, <3>1 DEF Prospect, Complete
    <3>2. CASE ~Trap(PageOf(i, p, f))
      BY <1>1, <1>2, <1>4, <1>5, <2>2, <3>2 DEF Prospect, Complete
    <3>3. QED
      BY <3>1, <3>2
  <2>3. Count(i, p, j) \in Nat /\ f \in Nat
    BY <1>1, SpellingFacts DEF Paged
  <2>4. QED
    BY <2>1, <2>2, <2>3
<1>6. ASSUME j.top # NoVersion
      PROVE  Complete(T, i, p, j.top)
  <2>1. CASE Offers(i, p) = {}
    BY <2>1 DEF Complete
  <2>2. CASE Offers(i, p) # {}
    <3>1. PICK f \in DOMAIN Spellings[i][p] : First(i, p, f)
      BY <2>2, FirstFacts
    <3>2. ~(Count(i, p, j) < f)
      BY <1>1, <1>6, <3>1 DEF Bare, EmptyHands
    <3>3. QED
      BY <1>5, <3>1, <3>2
  <2>3. QED
    BY <2>1, <2>2
<1>7. ASSUME j.top = NoVersion
      PROVE  Going(T, i, p, "page", j)
  <2>1. Complete(T, i, p, j.top) => Offers(i, p) \subseteq T
    BY <1>7, FirstFacts, OfFacts DEF Complete, NoVersion
  <2>2. \A f \in DOMAIN Spellings[i][p] :
            First(i, p, f) /\ (Count(i, p, j) > f \/ Count(i, p, j) = f) => Offers(i, p) \subseteq T
    <3>1. \A f \in DOMAIN Spellings[i][p] :
              Count(i, p, j) > f \/ Count(i, p, j) = f => ~(Count(i, p, j) < f)
      BY <1>1, SpellingFacts DEF Paged
    <3>2. QED
      BY <1>5, <2>1, <3>1
  <2>3. Prospect(T, i, p, "page", j)
    BY <2>2 DEF Prospect
  <2>4. QED
    BY <1>1, <1>3, <1>7, <2>3 DEF Going, EmptyHands
<1>8. QED
  BY <1>6, <1>7

\* No spelling is left: it had nothing to offer, or something got in the way.
LEMMA NoneLeft ==
    ASSUME NEW i \in PyPi, NEW p \in Package, NEW T, NEW j,
           Going(T, i, p, "page", j), j.pages = <<>>
    PROVE  Offers(i, p) \subseteq T
<1>1. SUFFICES ASSUME Offers(i, p) # {} PROVE Offers(i, p) \subseteq T
  OBVIOUS
<1>2. PICK f \in DOMAIN Spellings[i][p] : First(i, p, f)
  BY <1>1, FirstFacts
<1>3. Count(i, p, j) = Len(Spellings[i][p])
  BY SpellingFacts DEF Count
<1>4. Count(i, p, j) > f \/ Count(i, p, j) = f
  BY <1>2, <1>3, SpellingFacts
<1>5. QED
  BY <1>2, <1>4 DEF Going, Prospect

\* An error that ends the search comes before the offers or after them.
LEMMA Trapped ==
    ASSUME NEW i \in PyPi, NEW p \in Package, NEW T, NEW j, Open(i, p),
           \/ /\ Going(T, i, p, "page", j) /\ j.pages # <<>>
              /\ http_retrieve(Head(j.pages)) = None
           \/ /\ Going(T, i, p, "links", j) /\ j.links # <<>>
              /\ Head(j.links).link \in Page /\ ~Head(j.links).sub
              /\ http_retrieve(Head(j.links).link) = None
    PROVE  Offers(i, p) \subseteq T
<1>1. CASE Going(T, i, p, "page", j) /\ j.pages # <<>> /\ http_retrieve(Head(j.pages)) = None
  <2>1. PICK j2 : j2 = [pages |-> Tail(j.pages)]
    OBVIOUS
  <2>2. /\ Count(i, p, j2) = Count(i, p, j) + 1 /\ Count(i, p, j) \in Nat
        /\ Count(i, p, j2) \in DOMAIN Spellings[i][p]
        /\ Head(j.pages) = Spellings[i][p][Count(i, p, j2)]
    <3>1. j2.pages = Tail(j.pages)
      BY <2>1
    <3>2. Paged(i, p, j)
      BY <1>1 DEF Going
    <3>3. QED
      BY <1>1, <3>1, <3>2, TurnsPage
  <2>3. Trap(PageOf(i, p, Count(i, p, j2)))
    BY <1>1, <2>2 DEF PageOf, Trap
  <2>4. PICK f \in DOMAIN Spellings[i][p] : First(i, p, f) /\ f < Count(i, p, j2)
    BY <2>2, <2>3, OpenFacts
  <2>5. Count(i, p, j) > f \/ Count(i, p, j) = f
    BY <2>2, <2>4, SpellingFacts
  <2>6. QED
    BY <1>1, <2>4, <2>5 DEF Going, Prospect
<1>2. CASE /\ Going(T, i, p, "links", j) /\ j.links # <<>>
           /\ Head(j.links).link \in Page /\ ~Head(j.links).sub
           /\ http_retrieve(Head(j.links).link) = None
  <2>1. Linked(i, p, j) /\ Count(i, p, j) \in DOMAIN Spellings[i][p]
    BY <1>2 DEF Going, Linked
  <2>2. Head(j.links).link \in Range(Links[PageOf(i, p, Count(i, p, j))])
    BY <1>2, <2>1, HeadFacts DEF Belongs
  <2>3. Trap(PageOf(i, p, Count(i, p, j)))
    BY <1>2, <2>2 DEF Trap
  <2>4. PICK f \in DOMAIN Spellings[i][p] : First(i, p, f) /\ f < Count(i, p, j)
    BY <2>1, <2>3, OpenFacts
  <2>5. Count(i, p, j) > f
    BY <2>1, <2>4, SpellingFacts
  <2>6. QED
    BY <1>2, <2>4, <2>5 DEF Going, Prospect
<1>3. QED
  BY <1>1, <1>2

-----------------------------------------------------------------------------
(* What is true between two steps *)

\* The archives of p that another search got in the way of
Marks(c, i, p) == {a \in Archive : Taken(c, i, a, p)}

\* A thread at k with the call j fetches pages of an index, or has done so
IsFetching(k, j) == k \in {"page", "links", "visit", "learn"} /\ Locators[j.at] \in PyPi
KeyOf(t, j) == <<ClientOf[t], Locators[j.at], PkgOf[j.req]>>

\* The listing of p is known, or a thread that will store it has a in hand
Kept(c, i, p, a) ==
    \/ known[c][i][p] # None
    \/ \E t \in Thread : IsFetching(pc[t], job[t]) /\ KeyOf(t, job[t]) = <<c, i, p>> /\ InHand(job[t], a)

\* r is not to be had newer from i, which was asked
Bested(T, i, r, reply) ==
    \A a \in Offers(i, PkgOf[r]) : VersionOf(a) \in Allows[r] =>
        a \in T \/ (reply.locator = i /\ ~(VersionOf(a) > VersionOf(reply.url)))

\* Two threads that fetch the pages of one package are known to; a thread that
\* does so alone learns what is not known
Alone ==
    \A t \in Thread : IsFetching(pc[t], job[t]) /\ KeyOf(t, job[t]) \notin raced =>
        /\ known[ClientOf[t]][Locators[job[t].at]][PkgOf[job[t].req]] = None
        /\ \A u \in Thread \ {t} : IsFetching(pc[u], job[u]) => KeyOf(u, job[u]) # KeyOf(t, job[t])

\* A thread at k with the call j for the package p of the index i
Prosperous(T, i, p, k, j) == IF k = "learn" THEN Complete(T, i, p, j.top) ELSE Going(T, i, p, k, j)

Underway ==
    \A t \in Thread :
        /\ pc[t] = "ask" => EmptyHands(job[t])
        /\ IsFetching(pc[t], job[t]) =>
               Prosperous(Marks(ClientOf[t], Locators[job[t].at], PkgOf[job[t].req]),
                          Locators[job[t].at], PkgOf[job[t].req], pc[t], job[t])
        /\ pc[t] # "idle" => \A n \in 1 .. job[t].at - 1 : Locators[n] \in PyPi =>
               Barren(Marks(ClientOf[t], Locators[n], PkgOf[job[t].req]), Locators[n], job[t].req)

\* What was seen was not for nothing
Sighted ==
    \A c \in Client, i \in PyPi, p \in Package : Open(i, p) =>
        \A a \in Offers(i, p) \cap seen[c][i] : a \in Marks(c, i, p) \/ Kept(c, i, p, a)

Remembered ==
    \A c \in Client, i \in PyPi, p \in Package :
        known[c][i][p] # None => Complete(Marks(c, i, p), i, p, known[c][i][p])

Satisfied ==
    \A c \in Client, r \in Requirement : answer[c][r].state \in {"found", "not found"} =>
        \A i \in Asked(answer[c][r]) \cap PyPi :
            Bested(Marks(c, i, PkgOf[r]), i, r, answer[c][r])

BestInv == Alone /\ Underway /\ Sighted /\ Remembered /\ Satisfied

\* A step adds to what got in the way.
MarksGrow == \A c, i, p : Marks(c, i, p) \subseteq Marks(c, i, p)'

\* What got in the way is not forgotten.
LEMMA TakenStays ==
    ASSUME raced \subseteq raced', outages \subseteq outages', visits \subseteq visits'
    PROVE  MarksGrow
BY DEF MarksGrow, Marks, Taken

\* When a search of this package failed or raced, all of them are.
LEMMA AllTaken ==
    ASSUME NEW c, NEW i, NEW p, NEW a, a \in Archive
    PROVE  /\ <<c, i, p>> \in raced \cup outages => a \in Marks(c, i, p)
           /\ (<<c, i, p>> \in raced \cup outages)' => a \in Marks(c, i, p)'
BY DEF Marks, Taken

\* FindsTheBest is Satisfied, with what got in the way spelled out.
LEMMA BestIsFound ==
    ASSUME Satisfied
    PROVE  FindsTheBest
<1>1. ASSUME NEW c \in Client, NEW r \in Requirement, answer[c][r].state \in {"found", "not found"},
             NEW i \in Asked(answer[c][r]) \cap PyPi, NEW a \in Offers(i, PkgOf[r])
      PROVE  ~Overlooked(c, r, i, a)
  <2>1. PkgOf[r] \in Package /\ a \in Archive
    BY <1>1, LocatorsAssumption, FirstFacts DEF Of
  <2>2. Bested(Marks(c, i, PkgOf[r]), i, r, answer[c][r])
    BY <1>1 DEF Satisfied
  <2>3. QED
    BY <2>1, <2>2 DEF Bested, Marks, Overlooked
<1>2. QED
  BY <1>1 DEF FindsTheBest

\* A step of a thread, by what it does to the listings, the thread and the answers.
LEMMA BestStays ==
    ASSUME Threads, BestInv, NEW t \in Thread, MarksGrow, raced \subseteq raced',
           \A u \in Thread \ {t} : pc'[u] = pc[u] /\ job'[u] = job[u],
           \A c \in Client, i \in PyPi, p \in Package :
               \/ known'[c][i][p] = known[c][i][p]
               \/ /\ IsFetching(pc[t], job[t]) /\ KeyOf(t, job[t]) = <<c, i, p>> /\ pc'[t] \in {"idle", "ask"}
                  /\ known'[c][i][p] # None /\ Complete(Marks(c, i, p), i, p, known'[c][i][p]),
           IsFetching(pc'[t], job'[t]) /\ KeyOf(t, job'[t]) \notin raced' =>
               /\ known'[ClientOf[t]][Locators[job'[t].at]][PkgOf[job'[t].req]] = None
               /\ \A u \in Thread \ {t} : IsFetching(pc[u], job[u]) => KeyOf(u, job[u]) # KeyOf(t, job'[t]),
           pc'[t] = "ask" => EmptyHands(job'[t]),
           \A c, i, p : IsFetching(pc'[t], job'[t]) /\ KeyOf(t, job'[t]) = <<c, i, p>> =>
               Prosperous(Marks(c, i, p)', i, p, pc'[t], job'[t]),
           pc'[t] # "idle" => \A n \in 1 .. job'[t].at - 1 : Locators[n] \in PyPi =>
               Barren(Marks(ClientOf[t], Locators[n], PkgOf[job'[t].req]), Locators[n], job'[t].req),
           \A c \in Client, i \in PyPi, p \in Package : Open(i, p) => \A a \in Offers(i, p) :
               \/ /\ a \in seen'[c][i] => a \in seen[c][i]
                  /\ ~(IsFetching(pc[t], job[t]) /\ KeyOf(t, job[t]) = <<c, i, p>> /\ InHand(job[t], a))
               \/ a \in Marks(c, i, p)' \/ Kept(c, i, p, a)',
           \A c \in Client, r \in Requirement :
               \/ answer'[c][r] = answer[c][r]
               \/ answer'[c][r].state \notin {"found", "not found"}
               \/ \A i \in Asked(answer'[c][r]) \cap PyPi :
                      Bested(Marks(c, i, PkgOf[r]), i, r, answer'[c][r])
    PROVE  BestInv'
<1>1. Alone'
  <2>1. ASSUME NEW u \in Thread, u # t, IsFetching(pc'[u], job'[u]), KeyOf(u, job'[u]) \notin raced'
        PROVE  /\ known'[ClientOf[u]][Locators[job'[u].at]][PkgOf[job'[u].req]] = None
               /\ \A w \in Thread \ {u} : IsFetching(pc'[w], job'[w]) => KeyOf(w, job'[w]) # KeyOf(u, job'[u])
    <3>1. pc'[u] = pc[u] /\ job'[u] = job[u]
      BY <2>1
    <3>2. IsFetching(pc[u], job[u]) /\ KeyOf(u, job[u]) \notin raced
      BY <2>1, <3>1
    <3>3. /\ known[ClientOf[u]][Locators[job[u].at]][PkgOf[job[u].req]] = None
          /\ \A w \in Thread \ {u} : IsFetching(pc[w], job[w]) => KeyOf(w, job[w]) # KeyOf(u, job[u])
      BY <3>2 DEF BestInv, Alone
    <3>4. pc[u] # "idle" /\ Locators[job[u].at] \in PyPi
      BY <3>2 DEF IsFetching
    <3>5. ClientOf[u] \in Client /\ PkgOf[job[u].req] \in Package
      BY <3>4, Whereabouts DEF Wanted
    <3>6. known'[ClientOf[u]][Locators[job[u].at]][PkgOf[job[u].req]] = None
      <4>1. ~(IsFetching(pc[t], job[t]) /\ KeyOf(t, job[t]) = KeyOf(u, job[u]))
        BY <2>1, <3>3
      <4>2. KeyOf(u, job[u]) = <<ClientOf[u], Locators[job[u].at], PkgOf[job[u].req]>>
        BY DEF KeyOf
      <4>3. QED
        BY <3>3, <3>4, <3>5, <4>1, <4>2
    <3>7. ASSUME NEW w \in Thread \ {u}, IsFetching(pc'[w], job'[w])
          PROVE  KeyOf(w, job'[w]) # KeyOf(u, job'[u])
      <4>1. CASE w = t
        <5>1. KeyOf(t, job'[t]) = KeyOf(u, job[u]) => KeyOf(t, job'[t]) \notin raced'
          BY <2>1, <3>1
        <5>2. QED
          BY <2>1, <3>1, <3>2, <3>7, <4>1, <5>1
      <4>2. CASE w # t
        BY <3>1, <3>3, <3>7, <4>2
      <4>3. QED
        BY <4>1, <4>2
    <3>8. QED
      BY <3>1, <3>6, <3>7
  <2>2. ASSUME IsFetching(pc'[t], job'[t]), KeyOf(t, job'[t]) \notin raced'
        PROVE  /\ known'[ClientOf[t]][Locators[job'[t].at]][PkgOf[job'[t].req]] = None
               /\ \A w \in Thread \ {t} : IsFetching(pc'[w], job'[w]) => KeyOf(w, job'[w]) # KeyOf(t, job'[t])
    BY <2>2
  <2>3. QED
    BY <2>1, <2>2 DEF Alone, IsFetching, KeyOf
<1>2. ASSUME NEW c, NEW i \in PyPi, NEW p \in Package
      PROVE  \A k, j : Prosperous(Marks(c, i, p), i, p, k, j) => Prosperous(Marks(c, i, p)', i, p, k, j)
  <2>1. PICK T, T2 : T = Marks(c, i, p) /\ T2 = Marks(c, i, p)'
    OBVIOUS
  <2>2. T \subseteq T2
    BY <2>1 DEF MarksGrow
  <2>3. \A k, j : Prosperous(T, i, p, k, j) => Prosperous(T2, i, p, k, j)
    BY <2>2, Grows DEF Prosperous
  <2>4. QED
    BY <2>1, <2>3
<1>3. ASSUME NEW u \in Thread, NEW c, NEW i, NEW p,
             IsFetching(pc'[u], job'[u]), KeyOf(u, job'[u]) = <<c, i, p>>
      PROVE  Prosperous(Marks(c, i, p)', i, p, pc'[u], job'[u])
  <2>1. CASE u = t
    BY <1>3, <2>1
  <2>2. CASE u # t
    <3>1. pc'[u] = pc[u] /\ job'[u] = job[u] /\ IsFetching(pc[u], job[u])
      BY <1>3, <2>2
    <3>2. c = ClientOf[u] /\ i = Locators[job[u].at] /\ p = PkgOf[job[u].req]
      BY <1>3, <3>1 DEF KeyOf
    <3>3. i \in PyPi /\ p \in Package
      BY <3>1, <3>2, Whereabouts DEF IsFetching, Wanted
    <3>4. Prosperous(Marks(c, i, p), i, p, pc[u], job[u])
      BY <3>1, <3>2 DEF BestInv, Underway
    <3>5. QED
      BY <1>2, <3>1, <3>3, <3>4
  <2>3. QED
    BY <2>1, <2>2
<1>4. ASSUME NEW T, NEW T2, T \subseteq T2, NEW n, NEW r
      PROVE  Barren(T, n, r) => Barren(T2, n, r)
  BY <1>4 DEF Barren
<1>5. ASSUME NEW u \in Thread, pc'[u] # "idle", NEW n \in 1 .. job'[u].at - 1, Locators[n] \in PyPi,
             NEW r, r = job'[u].req
      PROVE  Barren(Marks(ClientOf[u], Locators[n], PkgOf[r])', Locators[n], r)
  <2>1. Barren(Marks(ClientOf[u], Locators[n], PkgOf[r]), Locators[n], r)
    <3>1. CASE u = t
      BY <1>5, <3>1
    <3>2. CASE u # t
      <4>1. pc'[u] = pc[u] /\ job'[u] = job[u]
        BY <3>2
      <4>2. QED
        BY <1>5, <4>1 DEF BestInv, Underway
    <3>3. QED
      BY <3>1, <3>2
  <2>2. QED
    BY <1>4, <2>1 DEF MarksGrow
<1>6. Underway'
  <2>1. ASSUME NEW u \in Thread
        PROVE  pc'[u] = "ask" => EmptyHands(job'[u])
    <3>1. CASE u # t
      BY <3>1 DEF BestInv, Underway
    <3>2. QED
      BY <3>1
  <2>2. ASSUME NEW u \in Thread, IsFetching(pc[u], job[u])'
        PROVE  Prosperous(Marks(ClientOf[u], Locators[job[u].at], PkgOf[job[u].req]),
                          Locators[job[u].at], PkgOf[job[u].req], pc[u], job[u])'
    <3>1. PICK c, i, p : c = ClientOf[u] /\ i = Locators[job'[u].at] /\ p = PkgOf[job'[u].req]
      OBVIOUS
    <3>2. KeyOf(u, job'[u]) = <<c, i, p>> /\ IsFetching(pc'[u], job'[u])
      BY <2>2, <3>1 DEF KeyOf, IsFetching
    <3>3. Prosperous(Marks(c, i, p)', i, p, pc'[u], job'[u])
      BY <1>3, <3>2
    <3>4. QED
      BY <3>1, <3>3 DEF Marks, Taken, Prosperous, Complete, Going, Prospect, Linked, Paged, Bare
  <2>3. ASSUME NEW u \in Thread, pc'[u] # "idle", NEW n \in 1 .. job'[u].at - 1, Locators[n] \in PyPi
        PROVE  Barren(Marks(ClientOf[u], Locators[n], PkgOf[job[u].req]), Locators[n], job[u].req)'
    <3>1. PICK r : r = job'[u].req
      OBVIOUS
    <3>2. Barren(Marks(ClientOf[u], Locators[n], PkgOf[r])', Locators[n], r)
      BY <1>5, <2>3, <3>1
    <3>3. QED
      BY <3>1, <3>2 DEF Marks, Taken, Barren
  <2>4. QED
    BY <2>1, <2>2, <2>3 DEF Underway, IsFetching, EmptyHands
<1>7. Sighted'
  <2>1. ASSUME NEW c \in Client, NEW i \in PyPi, NEW p \in Package, Open(i, p),
               NEW a \in Offers(i, p), a \in seen'[c][i]
        PROVE  a \in Marks(c, i, p)' \/ Kept(c, i, p, a)'
    <3>1. SUFFICES ASSUME a \in seen[c][i],
                          ~(IsFetching(pc[t], job[t]) /\ KeyOf(t, job[t]) = <<c, i, p>> /\ InHand(job[t], a))
                   PROVE  a \in Marks(c, i, p)' \/ Kept(c, i, p, a)'
      BY <2>1
    <3>2. a \in Marks(c, i, p) \/ Kept(c, i, p, a)
      BY <2>1, <3>1 DEF BestInv, Sighted
    <3>3. CASE a \in Marks(c, i, p)
      BY <3>3 DEF MarksGrow
    <3>4. CASE known[c][i][p] # None
      BY <3>4 DEF Kept
    <3>5. CASE \E u \in Thread : IsFetching(pc[u], job[u]) /\ KeyOf(u, job[u]) = <<c, i, p>> /\ InHand(job[u], a)
      <4>1. PICK u \in Thread : IsFetching(pc[u], job[u]) /\ KeyOf(u, job[u]) = <<c, i, p>> /\ InHand(job[u], a)
        BY <3>5
      <4>2. u # t
        BY <3>1, <4>1
      <4>3. IsFetching(pc'[u], job'[u]) /\ KeyOf(u, job'[u]) = <<c, i, p>> /\ InHand(job'[u], a)
        BY <4>1, <4>2
      <4>4. QED
        BY <4>3 DEF Kept, IsFetching, KeyOf, InHand
    <3>6. QED
      BY <3>2, <3>3, <3>4, <3>5 DEF Kept
  <2>2. QED
    BY <2>1 DEF Sighted
<1>8. Remembered'
  <2>1. ASSUME NEW c \in Client, NEW i \in PyPi, NEW p \in Package, known'[c][i][p] # None
        PROVE  Complete(Marks(c, i, p)', i, p, known'[c][i][p])
    <3>1. Complete(Marks(c, i, p), i, p, known'[c][i][p])
      BY <2>1 DEF BestInv, Remembered
    <3>2. QED
      BY <3>1 DEF Complete, MarksGrow
  <2>2. QED
    BY <2>1 DEF Remembered, Complete, Marks, Taken
<1>9. Satisfied'
  <2>1. ASSUME NEW c \in Client, NEW r \in Requirement, answer'[c][r].state \in {"found", "not found"},
               NEW i \in Asked(answer'[c][r]) \cap PyPi
        PROVE  Bested(Marks(c, i, PkgOf[r])', i, r, answer'[c][r])
    <3>1. Bested(Marks(c, i, PkgOf[r]), i, r, answer'[c][r])
      BY <2>1 DEF BestInv, Satisfied
    <3>2. QED
      BY <3>1 DEF Bested, MarksGrow
  <2>2. QED
    BY <2>1 DEF Satisfied, Asked, Bested, Marks, Taken
<1>10. QED
  BY <1>1, <1>6, <1>7, <1>8, <1>9 DEF BestInv

-----------------------------------------------------------------------------
(* The steps of a thread *)

\* A thread goes on fetching.
LEMMA SearchGoesOn ==
    ASSUME Threads, BestInv, NEW t \in Thread, IsFetching(pc[t], job[t]),
           NEW k \in {"page", "links", "visit", "learn"}, NEW j, j.at = job[t].at, j.req = job[t].req,
           pc'[t] = k, job'[t] = j, \A u \in Thread \ {t} : pc'[u] = pc[u] /\ job'[u] = job[u],
           UNCHANGED <<known, answer, raced>>, outages \subseteq outages', visits \subseteq visits',
           NEW c, NEW i, NEW p, c = ClientOf[t], i = Locators[j.at], p = PkgOf[j.req],
           Prosperous(Marks(c, i, p)', i, p, k, j),
           Open(i, p) => \A a \in Offers(i, p) : InHand(job[t], a) => a \in Marks(c, i, p)' \/ InHand(j, a),
           \A d \in Client, l \in PyPi, q \in Package : Open(l, q) => \A a \in Offers(l, q) :
               a \in seen'[d][l] => a \in seen[d][l] \/ a \in Marks(d, l, q)' \/ Kept(d, l, q, a)'
    PROVE  BestInv'
<1>1. MarksGrow
  BY TakenStays
<1>2. IsFetching(k, j) /\ KeyOf(t, j) = <<c, i, p>> /\ KeyOf(t, j) = KeyOf(t, job[t])
  BY DEF IsFetching, KeyOf
<1>3. KeyOf(t, j) \notin raced' =>
          /\ known'[ClientOf[t]][Locators[j.at]][PkgOf[j.req]] = None
          /\ \A u \in Thread \ {t} : IsFetching(pc[u], job[u]) => KeyOf(u, job[u]) # KeyOf(t, j)
  BY <1>2 DEF BestInv, Alone
<1>4. \A d, l, q : IsFetching(k, j) /\ KeyOf(t, j) = <<d, l, q>> => Prosperous(Marks(d, l, q)', l, q, k, j)
  <2>1. ASSUME NEW d, NEW l, NEW q, KeyOf(t, j) = <<d, l, q>>
        PROVE  d = c /\ l = i /\ q = p
    BY <1>2, <2>1
  <2>2. QED
    BY <2>1
<1>5. \A n \in 1 .. j.at - 1 : Locators[n] \in PyPi =>
          Barren(Marks(ClientOf[t], Locators[n], PkgOf[j.req]), Locators[n], j.req)
  <2>1. pc[t] # "idle"
    BY DEF IsFetching
  <2>2. QED
    BY <2>1 DEF BestInv, Underway
<1>6. ASSUME NEW d \in Client, NEW l \in PyPi, NEW q \in Package, Open(l, q), NEW a \in Offers(l, q)
      PROVE  \/ /\ a \in seen'[d][l] => a \in seen[d][l]
                /\ ~(IsFetching(pc[t], job[t]) /\ KeyOf(t, job[t]) = <<d, l, q>> /\ InHand(job[t], a))
             \/ a \in Marks(d, l, q)' \/ Kept(d, l, q, a)'
  <2>1. CASE KeyOf(t, j) = <<d, l, q>> /\ InHand(job[t], a)
    <3>1. d = c /\ l = i /\ q = p
      BY <1>2, <2>1
    <3>2. a \in Marks(c, i, p)' \/ InHand(j, a)
      BY <1>6, <2>1, <3>1
    <3>3. ASSUME InHand(j, a)
          PROVE  Kept(d, l, q, a)'
      <4>1. IsFetching(pc'[t], job'[t]) /\ KeyOf(t, job'[t]) = <<d, l, q>> /\ InHand(job'[t], a)
        BY <1>2, <2>1, <3>3
      <4>2. QED
        BY <4>1 DEF Kept, IsFetching, KeyOf, InHand
    <3>4. QED
      BY <3>1, <3>2, <3>3
  <2>2. CASE ~(KeyOf(t, j) = <<d, l, q>> /\ InHand(job[t], a))
    BY <1>2, <1>6, <2>2
  <2>3. QED
    BY <2>1, <2>2
<1>7. \A d \in Client, l \in PyPi, q \in Package : known'[d][l][q] = known[d][l][q]
  OBVIOUS
<1>8. \A d \in Client, r \in Requirement : answer'[d][r] = answer[d][r]
  OBVIOUS
<1>9. raced \subseteq raced' /\ pc'[t] # "ask"
  OBVIOUS
<1>10. QED
  BY <1>1, <1>3, <1>4, <1>5, <1>6, <1>7, <1>8, <1>9, BestStays

\* The pages of an index are asked for, with empty hands.
LEMMA AskIndexBest ==
    ASSUME Threads, BestInv, NEW t \in Thread, AskIndex(t)
    PROVE  BestInv'
<1>1. /\ pc[t] = "ask" /\ pc[t] # "idle" /\ Known(t) = None /\ Here(t) \in PyPi
      /\ job' = [job EXCEPT ![t].pages = Spellings[Here(t)][Wanted(t)]]
      /\ pc' = [pc EXCEPT ![t] = "page"]
      /\ raced' = IF Rivals(t) = {} THEN raced ELSE raced \cup {<<ClientOf[t], Here(t), Wanted(t)>>}
      /\ UNCHANGED <<known, seen, answer, outages, visits>>
  BY DEF AskIndex, At, Goto, sharedVars
<1>2. PICK c, i, p, old : c = ClientOf[t] /\ i = Here(t) /\ p = Wanted(t) /\ old = job[t]
  OBVIOUS
<1>3. /\ IsJob(old) /\ p \in Package /\ i \in PyPi /\ c \in Client
      /\ i = Locators[old.at] /\ p = PkgOf[old.req]
  BY <1>1, <1>2, Whereabouts DEF Here, Wanted
<1>4. PICK j : j = [old EXCEPT !.pages = Spellings[i][p]]
  OBVIOUS
<1>5. /\ j.at = old.at /\ j.req = old.req /\ j.top = old.top /\ j.below = old.below
      /\ j.pages = Spellings[i][p]
  BY <1>3, <1>4 DEF IsJob
<1>6. /\ pc'[t] = "page" /\ job'[t] = j
      /\ \A u \in Thread \ {t} : pc'[u] = pc[u] /\ job'[u] = job[u]
  BY <1>1, <1>2, <1>4 DEF Threads
<1>7. KeyOf(t, j) = <<c, i, p>> /\ ~IsFetching(pc[t], job[t])
  BY <1>1, <1>2, <1>3, <1>5 DEF KeyOf, IsFetching
<1>8. raced \subseteq raced' /\ MarksGrow
  BY <1>1, TakenStays
<1>9. ASSUME KeyOf(t, j) \notin raced'
      PROVE  /\ known'[ClientOf[t]][Locators[j.at]][PkgOf[j.req]] = None
             /\ \A u \in Thread \ {t} : IsFetching(pc[u], job[u]) => KeyOf(u, job[u]) # KeyOf(t, j)
  <2>1. Rivals(t) = {}
    BY <1>1, <1>2, <1>7, <1>9
  <2>2. known'[ClientOf[t]][Locators[j.at]][PkgOf[j.req]] = None
    BY <1>1, <1>2, <1>3, <1>5 DEF Known
  <2>3. ASSUME NEW u \in Thread \ {t}, IsFetching(pc[u], job[u]), KeyOf(u, job[u]) = KeyOf(t, j)
        PROVE  FALSE
    <3>1. ClientOf[u] = c /\ Here(u) = i /\ Wanted(u) = p
      BY <1>7, <2>3 DEF KeyOf, Here, Wanted
    <3>2. u \in Rivals(t)
      BY <1>2, <2>3, <3>1 DEF Rivals, IsFetching
    <3>3. QED
      BY <2>1, <3>2
  <2>4. QED
    BY <2>2, <2>3
<1>10. EmptyHands(j)
  BY <1>1, <1>2, <1>5 DEF BestInv, Underway, EmptyHands
<1>11. ASSUME NEW d, NEW l, NEW q, KeyOf(t, j) = <<d, l, q>>
       PROVE  Prosperous(Marks(d, l, q)', l, q, "page", j)
  <2>1. d = c /\ l = i /\ q = p
    BY <1>7, <1>11
  <2>2. \A T : Going(T, i, p, "page", j)
    BY <1>3, <1>5, <1>10, Begins
  <2>3. \A T : Prosperous(T, i, p, "page", j)
    BY <2>2 DEF Prosperous
  <2>4. QED
    BY <2>1, <2>3
<1>12. \A n \in 1 .. j.at - 1 : Locators[n] \in PyPi =>
           Barren(Marks(ClientOf[t], Locators[n], PkgOf[j.req]), Locators[n], j.req)
  BY <1>1, <1>2, <1>5 DEF BestInv, Underway
<1>13. /\ \A d \in Client, l \in PyPi, q \in Package : known'[d][l][q] = known[d][l][q] /\ seen'[d][l] = seen[d][l]
       /\ \A d \in Client, r \in Requirement : answer'[d][r] = answer[d][r]
  BY <1>1
<1>14. \A d \in Client, l \in PyPi, q \in Package : Open(l, q) => \A a \in Offers(l, q) :
           /\ a \in seen'[d][l] => a \in seen[d][l]
           /\ ~(IsFetching(pc[t], job[t]) /\ KeyOf(t, job[t]) = <<d, l, q>> /\ InHand(job[t], a))
  BY <1>7, <1>13
<1>15. pc'[t] # "ask"
  BY <1>6
<1>16. /\ IsFetching(pc'[t], job'[t]) /\ KeyOf(t, job'[t]) \notin raced' =>
             /\ known'[ClientOf[t]][Locators[job'[t].at]][PkgOf[job'[t].req]] = None
             /\ \A u \in Thread \ {t} : IsFetching(pc[u], job[u]) => KeyOf(u, job[u]) # KeyOf(t, job'[t])
       /\ \A d, l, q : IsFetching(pc'[t], job'[t]) /\ KeyOf(t, job'[t]) = <<d, l, q>> =>
             Prosperous(Marks(d, l, q)', l, q, pc'[t], job'[t])
       /\ \A n \in 1 .. job'[t].at - 1 : Locators[n] \in PyPi =>
             Barren(Marks(ClientOf[t], Locators[n], PkgOf[job'[t].req]), Locators[n], job'[t].req)
  BY <1>6, <1>9, <1>11, <1>12
<1>17. QED
  BY <1>6, <1>8, <1>13, <1>14, <1>15, <1>16, BestStays

\* What a step of a thread that fetches does to its call.
LEMMA Changes ==
    ASSUME Threads, NEW t \in Thread, NEW k, NEW j,
           pc' = [pc EXCEPT ![t] = k], job' = [job EXCEPT ![t] = j]
    PROVE  pc'[t] = k /\ job'[t] = j /\ \A u \in Thread \ {t} : pc'[u] = pc[u] /\ job'[u] = job[u]
BY DEF Threads

\* A thread at a page of an index.
LEMMA AtPages ==
    ASSUME Threads, BestInv, NEW t \in Thread, pc[t] \in {"page", "links", "visit"},
           NEW c, NEW i, NEW p, NEW j, c = ClientOf[t], i = Here(t), p = Wanted(t), j = job[t]
    PROVE  /\ IsFetching(pc[t], j) /\ pc[t] # "idle" /\ IsJob(j)
           /\ i \in PyPi /\ p \in Package /\ c \in Client /\ i = Locators[j.at] /\ p = PkgOf[j.req]
           /\ Going(Marks(c, i, p), i, p, pc[t], j)
           /\ KeyOf(t, j) = <<c, i, p>>
           /\ pc = [pc EXCEPT ![t] = pc[t]] /\ job = [job EXCEPT ![t] = j]
<1>1. pc = [u \in Thread |-> pc[u]] /\ job = [u \in Thread |-> job[u]]
  BY DEF Threads
<1>2. IsFetching(pc[t], j) /\ pc[t] # "idle" /\ Doing(pc[t], j)
  BY DEF Threads, Doing, IsFetching
<1>3. IsJob(j) /\ i \in PyPi /\ p \in Package /\ c \in Client /\ i = Locators[j.at] /\ p = PkgOf[j.req]
  BY <1>2, Whereabouts DEF IsFetching, Here, Wanted
<1>4. Prosperous(Marks(c, i, p), i, p, pc[t], j)
  BY <1>2, <1>3 DEF BestInv, Underway
<1>5. QED
  BY <1>1, <1>2, <1>3, <1>4 DEF Prosperous, KeyOf

\* It goes on, and nothing new is seen.
LEMMA Goes ==
    ASSUME Threads, BestInv, NEW t \in Thread, pc[t] \in {"page", "links", "visit"},
           NEW k \in {"page", "links", "visit", "learn"}, NEW j, j.at = job[t].at, j.req = job[t].req,
           pc' = [pc EXCEPT ![t] = k], job' = [job EXCEPT ![t] = j],
           UNCHANGED <<known, answer, raced, seen>>, outages \subseteq outages', visits \subseteq visits',
           NEW c, NEW i, NEW p, c = ClientOf[t], i = Here(t), p = Wanted(t),
           Prosperous(Marks(c, i, p)', i, p, k, j),
           Open(i, p) => \A a \in Offers(i, p) : InHand(job[t], a) => a \in Marks(c, i, p)' \/ InHand(j, a)
    PROVE  BestInv'
<1>1. IsFetching(pc[t], job[t]) /\ i = Locators[j.at] /\ p = PkgOf[j.req]
  BY AtPages DEF Here, Wanted
<1>2. pc'[t] = k /\ job'[t] = j /\ \A u \in Thread \ {t} : pc'[u] = pc[u] /\ job'[u] = job[u]
  BY Changes
<1>3. \A d \in Client, l \in PyPi, q \in Package : Open(l, q) => \A a \in Offers(l, q) :
          a \in seen'[d][l] => a \in seen[d][l] \/ a \in Marks(d, l, q)' \/ Kept(d, l, q, a)'
  OBVIOUS
<1>4. QED
  BY <1>1, <1>2, <1>3, SearchGoesOn

\* The marks of a step that gets in nobody's way.
LEMMA MarksStay ==
    ASSUME UNCHANGED <<raced, outages, visits>>
    PROVE  \A c, i, p : Marks(c, i, p)' = Marks(c, i, p)
BY DEF Marks, Taken

\* The links of a page wait behind a call with empty hands.
LEMMA FetchBest ==
    ASSUME Threads, BestInv, NEW t \in Thread, Fetch(t), http_retrieve(Head(job[t].pages)) # None
    PROVE  BestInv'
<1>1. PICK c, i, p, old, page :
          /\ c = ClientOf[t] /\ i = Here(t) /\ p = Wanted(t) /\ old = job[t]
          /\ page = http_retrieve(Head(old.pages))
  OBVIOUS
<1>2. PICK j : j = [old EXCEPT !.links = Queue(page, FALSE), !.pages = Tail(old.pages)]
  OBVIOUS
<1>3. /\ pc[t] = "page" /\ old.pages # <<>> /\ page # None
      /\ pc' = [pc EXCEPT ![t] = "links"]
      /\ UNCHANGED <<known, seen, answer, raced, outages, visits>>
      /\ job' = [job EXCEPT ![t].links = Queue(page, FALSE), ![t].pages = Tail(@)]
  BY <1>1 DEF Fetch, At, Goto, sharedVars, history
<1>4. /\ IsJob(old) /\ i \in PyPi /\ p \in Package /\ Going(Marks(c, i, p), i, p, "page", old)
  BY <1>1, <1>3, AtPages
<1>5. job' = [job EXCEPT ![t] = j]
  BY <1>1, <1>2, <1>3
<1>6. /\ j.at = old.at /\ j.req = old.req /\ j.top = old.top /\ j.below = old.below
      /\ j.links = Queue(page, FALSE) /\ j.pages = Tail(old.pages)
  BY <1>2, <1>4 DEF IsJob
<1>7. Going(Marks(c, i, p), i, p, "links", j)
  BY <1>1, <1>3, <1>4, <1>6, Fetches
<1>8. Prosperous(Marks(c, i, p)', i, p, "links", j)
  BY <1>3, <1>7, MarksStay DEF Prosperous
<1>9. \A a \in Offers(i, p) : InHand(job[t], a) => a \in Marks(c, i, p)' \/ InHand(j, a)
  BY <1>1, <1>6 DEF InHand
<1>10. PICK k \in {"page", "links", "visit", "learn"} : k = "links"
  OBVIOUS
<1>11. /\ pc[t] \in {"page", "links", "visit"} /\ j.at = job[t].at /\ j.req = job[t].req
       /\ pc' = [pc EXCEPT ![t] = k] /\ job' = [job EXCEPT ![t] = j]
       /\ UNCHANGED <<known, answer, raced, seen>> /\ outages \subseteq outages' /\ visits \subseteq visits'
       /\ Prosperous(Marks(c, i, p)', i, p, k, j)
       /\ c = ClientOf[t] /\ i = Here(t) /\ p = Wanted(t)
  BY <1>1, <1>3, <1>5, <1>6, <1>8, <1>10
<1>12. QED
  BY <1>9, <1>10, <1>11, Goes

\* The links of a home page are put before those of its page.
LEMMA HomeBest ==
    ASSUME Threads, BestInv, NEW t \in Thread, Home(t), http_retrieve(Link(t).link) # None
    PROVE  BestInv'
<1>1. PICK c, i, p, old, page :
          /\ c = ClientOf[t] /\ i = Here(t) /\ p = Wanted(t) /\ old = job[t]
          /\ page = http_retrieve(Head(old.links).link)
  OBVIOUS
<1>2. PICK links : links = Queue(page, TRUE) \o <<EndOfPage>> \o Tail(old.links)
  OBVIOUS
<1>3. PICK j : j = [old EXCEPT !.links = links]
  OBVIOUS
<1>4. /\ pc[t] = "links" /\ old.links # <<>> /\ page # None
      /\ Head(old.links).link \in Page /\ ~Head(old.links).sub
      /\ UNCHANGED <<pc, known, seen, answer, raced, outages, visits>>
      /\ job' = [job EXCEPT ![t].links = links]
  BY <1>1, <1>2 DEF Home, At, Looking, Link, Rest, sharedVars, history
<1>5. /\ IsJob(old) /\ i \in PyPi /\ p \in Package /\ Going(Marks(c, i, p), i, p, "links", old)
      /\ pc' = [pc EXCEPT ![t] = "links"]
  BY <1>1, <1>4, AtPages
<1>6. job' = [job EXCEPT ![t] = j]
  BY <1>1, <1>3, <1>4
<1>7. /\ j.at = old.at /\ j.req = old.req /\ j.top = old.top /\ j.below = old.below
      /\ j.links = links /\ j.pages = old.pages
  BY <1>3, <1>5 DEF IsJob
<1>8. Going(Marks(c, i, p), i, p, "links", j)
  BY <1>1, <1>2, <1>4, <1>5, <1>7, FetchesHome
<1>9. Prosperous(Marks(c, i, p)', i, p, "links", j)
  BY <1>4, <1>8, MarksStay DEF Prosperous
<1>10. \A a \in Offers(i, p) : InHand(job[t], a) => a \in Marks(c, i, p)' \/ InHand(j, a)
  BY <1>1, <1>7 DEF InHand
<1>11. PICK k \in {"page", "links", "visit", "learn"} : k = "links"
  OBVIOUS
<1>12. /\ pc[t] \in {"page", "links", "visit"} /\ j.at = job[t].at /\ j.req = job[t].req
       /\ pc' = [pc EXCEPT ![t] = k] /\ job' = [job EXCEPT ![t] = j]
       /\ UNCHANGED <<known, answer, raced, seen>> /\ outages \subseteq outages' /\ visits \subseteq visits'
       /\ Prosperous(Marks(c, i, p)', i, p, k, j)
       /\ c = ClientOf[t] /\ i = Here(t) /\ p = Wanted(t)
  BY <1>1, <1>4, <1>5, <1>6, <1>7, <1>9, <1>11
<1>13. QED
  BY <1>10, <1>11, <1>12, Goes

\* At the end of a home page, what it had is put on top.
LEMMA ReturnBest ==
    ASSUME Threads, BestInv, NEW t \in Thread, Return(t)
    PROVE  BestInv'
<1>1. PICK c, i, p, old : c = ClientOf[t] /\ i = Here(t) /\ p = Wanted(t) /\ old = job[t]
  OBVIOUS
<1>2. PICK top, links : top = Update(old.top, old.below) /\ links = Tail(old.links)
  OBVIOUS
<1>3. PICK j : j = [old EXCEPT !.links = links, !.below = NoVersion, !.top = top]
  OBVIOUS
<1>4. /\ pc[t] = "links" /\ old.links # <<>> /\ Head(old.links) = EndOfPage
      /\ UNCHANGED <<pc, known, seen, answer, raced, outages, visits>>
      /\ job' = [job EXCEPT ![t].links = links, ![t].below = NoVersion, ![t].top = top]
  BY <1>1, <1>2 DEF Return, At, Looking, Link, Rest, sharedVars, history
<1>5. /\ IsJob(old) /\ i \in PyPi /\ p \in Package /\ Going(Marks(c, i, p), i, p, "links", old)
      /\ pc' = [pc EXCEPT ![t] = "links"]
  BY <1>1, <1>4, AtPages
<1>6. job' = [job EXCEPT ![t] = j]
  BY <1>1, <1>3, <1>4
<1>7. /\ j.at = old.at /\ j.req = old.req /\ j.top = top /\ j.below = NoVersion
      /\ j.links = links /\ j.pages = old.pages
  BY <1>3, <1>5 DEF IsJob
<1>8. Going(Marks(c, i, p), i, p, "links", j)
  BY <1>2, <1>4, <1>5, <1>7, Returns
<1>9. Prosperous(Marks(c, i, p)', i, p, "links", j)
  BY <1>4, <1>8, MarksStay DEF Prosperous
<1>10. \A a \in Offers(i, p) : InHand(job[t], a) => a \in Marks(c, i, p)' \/ InHand(j, a)
  <2>1. ASSUME NEW a \in Offers(i, p), InHand(old, a)
        PROVE  InHand(j, a)
    <3>1. a \in Of(p) /\ a \in Archive
      BY <1>5, FirstFacts DEF Of
    <3>2. QED
      BY <1>2, <1>5, <1>7, <2>1, <3>1, HandsKeep DEF InHand
  <2>2. QED
    BY <1>1, <2>1
<1>11. PICK k \in {"page", "links", "visit", "learn"} : k = "links"
  OBVIOUS
<1>12. /\ pc[t] \in {"page", "links", "visit"} /\ j.at = job[t].at /\ j.req = job[t].req
       /\ pc' = [pc EXCEPT ![t] = k] /\ job' = [job EXCEPT ![t] = j]
       /\ UNCHANGED <<known, answer, raced, seen>> /\ outages \subseteq outages' /\ visits \subseteq visits'
       /\ Prosperous(Marks(c, i, p)', i, p, k, j)
       /\ c = ClientOf[t] /\ i = Here(t) /\ p = Wanted(t)
  BY <1>1, <1>4, <1>5, <1>6, <1>7, <1>9, <1>11
<1>13. QED
  BY <1>10, <1>11, <1>12, Goes

\* A link that nobody has seen is about to be visited.
LEMMA SeeBest ==
    ASSUME Threads, BestInv, NEW t \in Thread, See(t)
    PROVE  BestInv'
<1>1. PICK c, i, p, j : c = ClientOf[t] /\ i = Here(t) /\ p = Wanted(t) /\ j = job[t]
  OBVIOUS
<1>2. /\ pc[t] = "links" /\ j.links # <<>> /\ pc' = [pc EXCEPT ![t] = "visit"]
      /\ UNCHANGED <<job, known, seen, answer, raced, outages, visits>>
  BY <1>1 DEF See, At, Goto, Looking, sharedVars, history
<1>3. /\ i \in PyPi /\ p \in Package /\ Going(Marks(c, i, p), i, p, "links", j)
      /\ job' = [job EXCEPT ![t] = j]
  BY <1>1, <1>2, AtPages
<1>4. Going(Marks(c, i, p), i, p, "visit", j)
  BY <1>2, <1>3, Sees
<1>5. Prosperous(Marks(c, i, p)', i, p, "visit", j)
  BY <1>2, <1>4, MarksStay DEF Prosperous
<1>6. \A a \in Offers(i, p) : InHand(job[t], a) => a \in Marks(c, i, p)' \/ InHand(j, a)
  BY <1>1
<1>7. PICK k \in {"page", "links", "visit", "learn"} : k = "visit"
  OBVIOUS
<1>8. /\ pc[t] \in {"page", "links", "visit"} /\ j.at = job[t].at /\ j.req = job[t].req
      /\ pc' = [pc EXCEPT ![t] = k] /\ job' = [job EXCEPT ![t] = j]
      /\ UNCHANGED <<known, answer, raced, seen>> /\ outages \subseteq outages' /\ visits \subseteq visits'
      /\ Prosperous(Marks(c, i, p)', i, p, k, j)
      /\ c = ClientOf[t] /\ i = Here(t) /\ p = Wanted(t)
  BY <1>1, <1>2, <1>3, <1>5, <1>7
<1>9. QED
  BY <1>6, <1>7, <1>8, Goes

\* An offer that was seen is in hand, unless another search got in the way.
LEMMA SeenIsHad ==
    ASSUME Threads, BestInv, NEW t \in Thread, IsFetching(pc[t], job[t]),
           NEW c \in Client, NEW i \in PyPi, NEW p \in Package, KeyOf(t, job[t]) = <<c, i, p>>,
           Open(i, p), NEW a \in Offers(i, p), a \in seen[c][i]
    PROVE  a \in Marks(c, i, p) \/ InHand(job[t], a)
<1>1. a \in Archive
  BY FirstFacts DEF Of
<1>2. CASE KeyOf(t, job[t]) \in raced
  BY <1>1, <1>2, AllTaken
<1>3. CASE KeyOf(t, job[t]) \notin raced
  <2>1. /\ known[ClientOf[t]][Locators[job[t].at]][PkgOf[job[t].req]] = None
        /\ \A u \in Thread \ {t} : IsFetching(pc[u], job[u]) => KeyOf(u, job[u]) # KeyOf(t, job[t])
    BY <1>3 DEF BestInv, Alone
  <2>2. known[c][i][p] = None
    BY <2>1 DEF KeyOf
  <2>3. a \in Marks(c, i, p) \/ Kept(c, i, p, a)
    BY DEF BestInv, Sighted
  <2>4. QED
    BY <2>1, <2>2, <2>3 DEF Kept
<1>4. QED
  BY <1>2, <1>3

\* A link that is not followed leads to nothing that is not marked or had.
LEMMA SkipBest ==
    ASSUME Threads, BestInv, NEW t \in Thread, Skip(t)
    PROVE  BestInv'
<1>1. PICK c, i, p, old : c = ClientOf[t] /\ i = Here(t) /\ p = Wanted(t) /\ old = job[t]
  OBVIOUS
<1>2. PICK links, e : links = Tail(old.links) /\ e = Head(old.links)
  OBVIOUS
<1>3. PICK j : j = [old EXCEPT !.links = links]
  OBVIOUS
<1>4. /\ pc[t] = "links" /\ old.links # <<>>
      /\ (e.link \in Page /\ e.sub) \/ (e.link \in Archive /\ e.link \in seen[c][i])
      /\ UNCHANGED <<pc, known, seen, answer, raced, outages, visits>>
      /\ job' = [job EXCEPT ![t].links = links]
  BY <1>1, <1>2 DEF Skip, At, Looking, Link, Rest, Seen, sharedVars, history
<1>5. /\ IsJob(old) /\ i \in PyPi /\ p \in Package /\ c \in Client
      /\ Going(Marks(c, i, p), i, p, "links", old)
      /\ IsFetching(pc[t], old) /\ KeyOf(t, old) = <<c, i, p>>
      /\ pc' = [pc EXCEPT ![t] = "links"]
  BY <1>1, <1>4, AtPages
<1>6. job' = [job EXCEPT ![t] = j]
  BY <1>1, <1>3, <1>4
<1>7. /\ j.at = old.at /\ j.req = old.req /\ j.top = old.top /\ j.below = old.below
      /\ j.links = links /\ j.pages = old.pages
  BY <1>3, <1>5 DEF IsJob
<1>8. ASSUME e.link \in Archive, e.link \in seen[c][i], Open(i, p), e.link \in Offers(i, p)
      PROVE  e.link \in Marks(c, i, p) \/ InHand(old, e.link)
  <2>1. PICK a \in Offers(i, p) : a = e.link
    BY <1>8
  <2>2. QED
    BY <1>1, <1>5, <1>8, <2>1, SeenIsHad
<1>9. Going(Marks(c, i, p), i, p, "links", j)
  <2>1. \/ Head(old.links).link \in Page /\ Head(old.links).sub
        \/ /\ Head(old.links).link \in Archive
           /\ Open(i, p) /\ Head(old.links).link \in Offers(i, p) =>
                  Head(old.links).link \in Marks(c, i, p) \/ InHand(old, Head(old.links).link)
    BY <1>2, <1>4, <1>8
  <2>2. QED
    BY <1>2, <1>4, <1>5, <1>7, <2>1, Skips
<1>10. Prosperous(Marks(c, i, p)', i, p, "links", j)
  BY <1>4, <1>9, MarksStay DEF Prosperous
<1>11. \A a \in Offers(i, p) : InHand(job[t], a) => a \in Marks(c, i, p)' \/ InHand(j, a)
  BY <1>1, <1>7 DEF InHand
<1>12. PICK k \in {"page", "links", "visit", "learn"} : k = "links"
  OBVIOUS
<1>13. /\ pc[t] \in {"page", "links", "visit"} /\ j.at = job[t].at /\ j.req = job[t].req
       /\ pc' = [pc EXCEPT ![t] = k] /\ job' = [job EXCEPT ![t] = j]
       /\ UNCHANGED <<known, answer, raced, seen>> /\ outages \subseteq outages' /\ visits \subseteq visits'
       /\ Prosperous(Marks(c, i, p)', i, p, k, j)
       /\ c = ClientOf[t] /\ i = Here(t) /\ p = Wanted(t)
  BY <1>1, <1>4, <1>5, <1>6, <1>7, <1>10, <1>12
<1>14. QED
  BY <1>11, <1>12, <1>13, Goes

\* When no spelling is left there were no offers, or all of them are marked.
LEMMA NoPageBest ==
    ASSUME Threads, BestInv, NEW t \in Thread, NoPage(t)
    PROVE  BestInv'
<1>1. PICK c, i, p, old : c = ClientOf[t] /\ i = Here(t) /\ p = Wanted(t) /\ old = job[t]
  OBVIOUS
<1>2. PICK j : j = [old EXCEPT !.top = NoVersion]
  OBVIOUS
<1>3. /\ pc[t] = "page" /\ old.pages = <<>> /\ pc' = [pc EXCEPT ![t] = "learn"]
      /\ UNCHANGED <<known, seen, answer, raced, outages, visits>>
      /\ job' = [job EXCEPT ![t].top = NoVersion]
  BY <1>1 DEF NoPage, Learn, At, Goto, sharedVars, history
<1>4. /\ IsJob(old) /\ i \in PyPi /\ p \in Package /\ Going(Marks(c, i, p), i, p, "page", old)
  BY <1>1, <1>3, AtPages
<1>5. job' = [job EXCEPT ![t] = j]
  BY <1>1, <1>2, <1>3
<1>6. j.at = old.at /\ j.req = old.req /\ j.top = NoVersion
  BY <1>2, <1>4 DEF IsJob
<1>7. Offers(i, p) \subseteq Marks(c, i, p)'
  <2>1. Offers(i, p) \subseteq Marks(c, i, p)
    BY <1>3, <1>4, NoneLeft
  <2>2. QED
    BY <1>3, <2>1, MarksStay
<1>8. Prosperous(Marks(c, i, p)', i, p, "learn", j)
  BY <1>7 DEF Prosperous, Complete
<1>9. \A a \in Offers(i, p) : InHand(job[t], a) => a \in Marks(c, i, p)' \/ InHand(j, a)
  BY <1>7
<1>10. PICK k \in {"page", "links", "visit", "learn"} : k = "learn"
  OBVIOUS
<1>11. /\ pc[t] \in {"page", "links", "visit"} /\ j.at = job[t].at /\ j.req = job[t].req
       /\ pc' = [pc EXCEPT ![t] = k] /\ job' = [job EXCEPT ![t] = j]
       /\ UNCHANGED <<known, answer, raced, seen>> /\ outages \subseteq outages' /\ visits \subseteq visits'
       /\ Prosperous(Marks(c, i, p)', i, p, k, j)
       /\ c = ClientOf[t] /\ i = Here(t) /\ p = Wanted(t)
  BY <1>1, <1>3, <1>5, <1>6, <1>8, <1>10
<1>12. QED
  BY <1>9, <1>10, <1>11, Goes

\* At the end of a page, what it had is learned, or the next spelling is tried.
LEMMA FetchedBest ==
    ASSUME Threads, BestInv, NEW t \in Thread, Fetched(t)
    PROVE  BestInv'
<1>1. PICK c, i, p, old, top :
          c = ClientOf[t] /\ i = Here(t) /\ p = Wanted(t) /\ old = job[t] /\ top = old.top
  OBVIOUS
<1>2. PICK j : j = [old EXCEPT !.top = top]
  OBVIOUS
<1>3. /\ pc[t] = "links" /\ old.links = <<>>
      /\ UNCHANGED <<known, seen, answer, raced, outages, visits>>
      /\ IF top # NoVersion
         THEN job' = [job EXCEPT ![t].top = top] /\ pc' = [pc EXCEPT ![t] = "learn"]
         ELSE job' = job /\ pc' = [pc EXCEPT ![t] = "page"]
  BY <1>1 DEF Fetched, Learn, At, Goto, sharedVars, history
<1>4. /\ IsJob(old) /\ i \in PyPi /\ p \in Package /\ Going(Marks(c, i, p), i, p, "links", old)
      /\ job = [job EXCEPT ![t] = old]
  BY <1>1, <1>3, AtPages
<1>5. j.at = old.at /\ j.req = old.req /\ j.top = top /\ j.below = old.below
  BY <1>1, <1>2, <1>4 DEF IsJob
<1>6. /\ top # NoVersion => Complete(Marks(c, i, p), i, p, top)
      /\ top = NoVersion => Going(Marks(c, i, p), i, p, "page", old)
  BY <1>1, <1>3, <1>4, PageDone
<1>7. PICK k \in {"page", "links", "visit", "learn"}, j2 \in {old, j} :
          IF top # NoVersion THEN k = "learn" /\ j2 = j ELSE k = "page" /\ j2 = old
  OBVIOUS
<1>8. Prosperous(Marks(c, i, p)', i, p, k, j2)
  <2>1. Prosperous(Marks(c, i, p), i, p, k, j2)
    BY <1>5, <1>6, <1>7 DEF Prosperous
  <2>2. QED
    BY <1>3, <2>1, MarksStay
<1>9. /\ j2.at = old.at /\ j2.req = old.req
      /\ \A a \in Offers(i, p) : InHand(old, a) => InHand(j2, a)
  BY <1>1, <1>5, <1>7 DEF InHand
<1>10. pc' = [pc EXCEPT ![t] = k] /\ job' = [job EXCEPT ![t] = j2]
  <2>1. CASE top # NoVersion
    BY <1>1, <1>2, <1>3, <1>7, <2>1
  <2>2. CASE top = NoVersion
    BY <1>3, <1>4, <1>7, <2>2
  <2>3. QED
    BY <2>1, <2>2
<1>11. /\ pc[t] \in {"page", "links", "visit"} /\ j2.at = job[t].at /\ j2.req = job[t].req
       /\ UNCHANGED <<known, answer, raced, seen>> /\ outages \subseteq outages' /\ visits \subseteq visits'
       /\ c = ClientOf[t] /\ i = Here(t) /\ p = Wanted(t)
       /\ \A a \in Offers(i, p) : InHand(job[t], a) => a \in Marks(c, i, p)' \/ InHand(j2, a)
  BY <1>1, <1>3, <1>9
<1>12. QED
  BY <1>8, <1>10, <1>11, Goes

\* When a server does not answer, all the offers of the package are marked.
LEMMA NoAnswerBest ==
    ASSUME Threads, BestInv, NEW t \in Thread, NoAnswer(t), pc[t] # "ask"
    PROVE  BestInv'
<1>1. PICK c, i, p, old : c = ClientOf[t] /\ i = Here(t) /\ p = Wanted(t) /\ old = job[t]
  OBVIOUS
<1>2. PICK pages, links : pages = Tail(old.pages) /\ links = Tail(old.links)
  OBVIOUS
<1>3. /\ UNCHANGED <<pc, known, seen, answer, raced, visits>>
      /\ outages' = outages \cup {<<c, i, p>>}
      /\ \/ /\ pc[t] = "page" /\ old.pages # <<>>
            /\ job' = [job EXCEPT ![t].pages = pages]
         \/ /\ pc[t] = "links" /\ old.links # <<>> /\ Head(old.links).link \in Page
            /\ job' = [job EXCEPT ![t].links = links]
  BY <1>1, <1>2 DEF NoAnswer, At, Looking, Link, Rest, sharedVars
<1>4. /\ IsJob(old) /\ i \in PyPi /\ p \in Package /\ c \in Client
      /\ Going(Marks(c, i, p), i, p, pc[t], old) /\ pc = [pc EXCEPT ![t] = pc[t]]
  BY <1>1, <1>3, AtPages
<1>5. PICK T, T2 : T = Marks(c, i, p) /\ T2 = Marks(c, i, p)'
  OBVIOUS
<1>6. Offers(i, p) \subseteq T2
  <2>1. \A a \in Offers(i, p) : a \in Archive
    BY <1>4, FirstFacts DEF Of
  <2>2. \A a \in Archive : Taken(c, i, a, p)'
    BY <1>3 DEF Taken
  <2>3. QED
    BY <1>5, <2>1, <2>2 DEF Marks
<1>7. T \subseteq T2
  BY <1>3, <1>5, TakenStays DEF MarksGrow
<1>8. PICK k, j :
          /\ k \in {"page", "links", "visit", "learn"} /\ pc[t] = k
          /\ job' = [job EXCEPT ![t] = j] /\ Going(T2, i, p, k, j)
          /\ j.at = old.at /\ j.req = old.req
  <2>1. CASE pc[t] = "page"
    <3>1. PICK j : j = [old EXCEPT !.pages = pages]
      OBVIOUS
    <3>2. /\ j.at = old.at /\ j.req = old.req /\ j.top = old.top /\ j.below = old.below
          /\ j.pages = pages
      BY <1>4, <3>1 DEF IsJob
    <3>3. job' = [job EXCEPT ![t] = j] /\ old.pages # <<>>
      BY <1>1, <1>3, <2>1, <3>1
    <3>4. Going(T, i, p, "page", old)
      BY <1>4, <1>5, <2>1
    <3>5. Going(T2, i, p, "page", j)
      BY <1>2, <1>4, <1>6, <1>7, <3>2, <3>3, <3>4, Misses
    <3>6. QED
      BY <2>1, <3>2, <3>3, <3>5
  <2>2. CASE pc[t] = "links"
    <3>1. PICK j : j = [old EXCEPT !.links = links]
      OBVIOUS
    <3>2. /\ j.at = old.at /\ j.req = old.req /\ j.top = old.top /\ j.below = old.below
          /\ j.pages = old.pages /\ j.links = links
      BY <1>4, <3>1 DEF IsJob
    <3>3. /\ job' = [job EXCEPT ![t] = j] /\ old.links # <<>>
          /\ Head(old.links).link \in Page
      BY <1>1, <1>3, <2>2, <3>1
    <3>4. Going(T, i, p, "links", old)
      BY <1>4, <1>5, <2>2
    <3>5. Head(old.links) # EndOfPage
      BY <3>3, LocatorsAssumption DEF EndOfPage
    <3>6. Going(T2, i, p, "links", j)
      BY <1>2, <1>4, <1>6, <1>7, <3>2, <3>3, <3>4, <3>5, Misses
    <3>7. QED
      BY <2>2, <3>2, <3>3, <3>6
  <2>3. QED
    BY <1>3, <2>1, <2>2
<1>9. Prosperous(Marks(c, i, p)', i, p, k, j)
  BY <1>3, <1>5, <1>8 DEF Prosperous
<1>10. \A a \in Offers(i, p) : InHand(job[t], a) => a \in Marks(c, i, p)' \/ InHand(j, a)
  BY <1>5, <1>6
<1>11. /\ pc[t] \in {"page", "links", "visit"} /\ j.at = job[t].at /\ j.req = job[t].req
       /\ pc' = [pc EXCEPT ![t] = k] /\ job' = [job EXCEPT ![t] = j]
       /\ UNCHANGED <<known, answer, raced, seen>> /\ outages \subseteq outages' /\ visits \subseteq visits'
       /\ c = ClientOf[t] /\ i = Here(t) /\ p = Wanted(t)
  BY <1>1, <1>3, <1>4, <1>8
<1>12. QED
  BY <1>8, <1>9, <1>10, <1>11, Goes

\* An archive joins the versions in hand, and is marked for the other packages.
LEMMA VisitBest ==
    ASSUME Threads, Shared, BestInv, NEW t \in Thread, Visit(t)
    PROVE  BestInv'
<1>1. PICK c, i, p, old, e, a :
          /\ c = ClientOf[t] /\ i = Here(t) /\ p = Wanted(t) /\ old = job[t]
          /\ e = Head(old.links) /\ a = e.link
  OBVIOUS
<1>2. PICK links, top, below :
          /\ links = Tail(old.links)
          /\ top = IF e.sub THEN old.top ELSE FirstWins(old.top, a, p)
          /\ below = IF e.sub THEN FirstWins(old.below, a, p) ELSE old.below
  OBVIOUS
<1>3. PICK j : j = [old EXCEPT !.links = links, !.top = top, !.below = below]
  OBVIOUS
<1>4. /\ pc[t] = "visit" /\ pc' = [pc EXCEPT ![t] = "links"]
      /\ job' = [job EXCEPT ![t].links = links, ![t].top = top, ![t].below = below]
      /\ UNCHANGED <<known, answer, raced, outages>>
      /\ seen' = [seen EXCEPT ![c][i] = @ \cup {a}]
      /\ visits' = visits \cup {<<c, a, p>>}
  BY <1>1, <1>2 DEF Visit, At, Goto, Link, Rest
<1>5. /\ IsJob(old) /\ i \in PyPi /\ p \in Package /\ c \in Client
      /\ i = Locators[old.at] /\ p = PkgOf[old.req] /\ IsFetching(pc[t], old)
      /\ Going(Marks(c, i, p), i, p, "visit", old) /\ KeyOf(t, old) = <<c, i, p>>
  BY <1>1, <1>4, AtPages
<1>6. job' = [job EXCEPT ![t] = j]
  BY <1>1, <1>3, <1>4
<1>7. /\ j.at = old.at /\ j.req = old.req /\ j.top = top /\ j.below = below
      /\ j.links = links /\ j.pages = old.pages
  BY <1>3, <1>5 DEF IsJob
<1>8. a \in Archive /\ old.links # <<>>
  <2>1. old.links # <<>>
    BY <1>5 DEF Going
  <2>2. Doing(pc[t], job[t])
    BY DEF Threads
  <2>3. QED
    BY <1>1, <1>4, <2>1, <2>2 DEF Doing
<1>9. PICK T, T2 : T = Marks(c, i, p) /\ T2 = Marks(c, i, p)'
  OBVIOUS
<1>10. T \subseteq T2
  BY <1>4, <1>9, TakenStays DEF MarksGrow
<1>11. /\ Going(T2, i, p, "links", j)
       /\ a \in Of(p) => InHand(j, a)
       /\ \A x \in Of(p) : InHand(old, x) => InHand(j, x)
  <2>1. \/ Head(old.links).sub /\ j.top = old.top /\ j.below = FirstWins(old.below, a, p)
        \/ ~Head(old.links).sub /\ j.top = FirstWins(old.top, a, p) /\ j.below = old.below
    BY <1>1, <1>2, <1>7
  <2>2. /\ Going(T, i, p, "visit", old) /\ a = Head(old.links).link
        /\ old.links # <<>> /\ j.links = Tail(old.links) /\ j.pages = old.pages
        /\ i \in PyPi /\ p \in Package /\ a \in Archive
    BY <1>1, <1>2, <1>5, <1>7, <1>8, <1>9
  <2>3. Going(T2, i, p, "links", j)
    BY ONLY <1>10, <2>1, <2>2, Visits
  <2>4. \A x \in Of(p) : InHand(old, x) => InHand(j, x)
    BY <2>1, <2>2, HandsKeep DEF InHand
  <2>5. a \in Of(p) => InHand(j, a)
    <3>1. a \in Of(p) => \A list : FirstWins(list, a, p)[VersionOf(a)] # None
      BY <2>2, HandsKeep
    <3>2. QED
      BY <2>1, <3>1 DEF InHand
  <2>6. QED
    BY <2>3, <2>4, <2>5
<1>12. PICK k \in {"page", "links", "visit", "learn"} : k = "links"
  OBVIOUS
<1>13. pc'[t] = k /\ job'[t] = j /\ \A u \in Thread \ {t} : pc'[u] = pc[u] /\ job'[u] = job[u]
  BY <1>4, <1>6, <1>12, Changes
<1>14. Prosperous(Marks(c, i, p)', i, p, k, j)
  BY <1>9, <1>11, <1>12 DEF Prosperous
<1>15. \A x \in Offers(i, p) : InHand(job[t], x) => x \in Marks(c, i, p)' \/ InHand(j, x)
  BY <1>1, <1>5, <1>11, FirstFacts
<1>16. ASSUME NEW d \in Client, NEW l \in PyPi, NEW q \in Package, NEW x \in Offers(l, q),
              x \in seen'[d][l], x \notin seen[d][l]
       PROVE  x \in Marks(d, l, q)' \/ Kept(d, l, q, x)'
  <2>1. d = c /\ l = i /\ x = a
    BY <1>4, <1>5, <1>16 DEF Shared
  <2>2. CASE q # p
    <3>1. <<d, x, p>> \in visits' /\ p \in Package \ {q}
      BY <1>4, <1>5, <2>1, <2>2
    <3>2. Taken(d, l, x, q)'
      BY <3>1 DEF Taken
    <3>3. QED
      BY <1>8, <2>1, <3>2 DEF Marks
  <2>3. CASE q = p
    <3>1. InHand(j, x)
      BY <1>5, <1>11, <1>16, <2>1, <2>3, FirstFacts
    <3>2. IsFetching(pc'[t], job'[t]) /\ KeyOf(t, job'[t]) = <<d, l, q>> /\ InHand(job'[t], x)
      <4>1. KeyOf(t, j) = KeyOf(t, old)
        BY <1>7 DEF KeyOf
      <4>2. IsFetching(k, j)
        BY <1>5, <1>7 DEF IsFetching
      <4>3. QED
        BY <1>5, <1>13, <2>1, <2>3, <3>1, <4>1, <4>2
    <3>3. QED
      BY <3>2 DEF Kept, IsFetching, KeyOf, InHand
  <2>4. QED
    BY <2>2, <2>3
<1>17. /\ IsFetching(pc[t], job[t]) /\ j.at = job[t].at /\ j.req = job[t].req
       /\ UNCHANGED <<known, answer, raced>> /\ outages \subseteq outages' /\ visits \subseteq visits'
       /\ c = ClientOf[t] /\ i = Locators[j.at] /\ p = PkgOf[j.req]
  BY <1>1, <1>4, <1>5, <1>7
<1>18. QED
  BY <1>13, <1>14, <1>15, <1>16, <1>17, SearchGoesOn

\* A thread leaves a locator: what it had in hand is known, or had another search in its way.
LEMMA Leaves ==
    ASSUME Threads, BestInv, NEW t \in Thread, pc[t] # "idle", UNCHANGED <<seen, raced, outages, visits>>,
           \A u \in Thread \ {t} : pc'[u] = pc[u] /\ job'[u] = job[u],
           \A c \in Client, i \in PyPi, p \in Package :
               \/ known'[c][i][p] = known[c][i][p]
               \/ /\ IsFetching(pc[t], job[t]) /\ KeyOf(t, job[t]) = <<c, i, p>>
                  /\ known'[c][i][p] # None /\ Complete(Marks(c, i, p), i, p, known'[c][i][p]),
           pc'[t] \in {"idle", "ask"}, pc'[t] = "ask" => EmptyHands(job'[t]),
           pc'[t] # "idle" => \A n \in 1 .. job'[t].at - 1 : Locators[n] \in PyPi =>
               Barren(Marks(ClientOf[t], Locators[n], PkgOf[job'[t].req]), Locators[n], job'[t].req),
           \A c \in Client, i \in PyPi, p \in Package : Open(i, p) => \A a \in Offers(i, p) :
               IsFetching(pc[t], job[t]) /\ KeyOf(t, job[t]) = <<c, i, p>> /\ InHand(job[t], a)
               => a \in Marks(c, i, p) \/ known'[c][i][p] # None,
           \A c \in Client, r \in Requirement :
               \/ answer'[c][r] = answer[c][r]
               \/ answer'[c][r].state \notin {"found", "not found"}
               \/ \A i \in Asked(answer'[c][r]) \cap PyPi :
                      Bested(Marks(c, i, PkgOf[r]), i, r, answer'[c][r])
    PROVE  BestInv'
<1>1. MarksGrow /\ raced \subseteq raced'
  BY TakenStays
<1>2. ~IsFetching(pc'[t], job'[t])
  BY DEF IsFetching
<1>3. ASSUME NEW c \in Client, NEW i \in PyPi, NEW p \in Package, Open(i, p), NEW a \in Offers(i, p)
      PROVE  \/ /\ a \in seen'[c][i] => a \in seen[c][i]
                /\ ~(IsFetching(pc[t], job[t]) /\ KeyOf(t, job[t]) = <<c, i, p>> /\ InHand(job[t], a))
             \/ a \in Marks(c, i, p)' \/ Kept(c, i, p, a)'
  <2>1. a \in Marks(c, i, p) => a \in Marks(c, i, p)'
    BY <1>1 DEF MarksGrow
  <2>2. known'[c][i][p] # None => Kept(c, i, p, a)'
    BY DEF Kept
  <2>3. QED
    BY <1>3, <2>1, <2>2
<1>4. \A c \in Client, i \in PyPi, p \in Package :
          \/ known'[c][i][p] = known[c][i][p]
          \/ /\ IsFetching(pc[t], job[t]) /\ KeyOf(t, job[t]) = <<c, i, p>> /\ pc'[t] \in {"idle", "ask"}
             /\ known'[c][i][p] # None /\ Complete(Marks(c, i, p), i, p, known'[c][i][p])
  OBVIOUS
<1>5. /\ IsFetching(pc'[t], job'[t]) /\ KeyOf(t, job'[t]) \notin raced' =>
             /\ known'[ClientOf[t]][Locators[job'[t].at]][PkgOf[job'[t].req]] = None
             /\ \A u \in Thread \ {t} : IsFetching(pc[u], job[u]) => KeyOf(u, job[u]) # KeyOf(t, job'[t])
      /\ \A c, i, p : IsFetching(pc'[t], job'[t]) /\ KeyOf(t, job'[t]) = <<c, i, p>> =>
             Prosperous(Marks(c, i, p)', i, p, pc'[t], job'[t])
  BY <1>2
<1>6. QED
  BY <1>1, <1>3, <1>4, <1>5, BestStays

\* locate is over.
LEMMA FinishBest ==
    ASSUME Threads, Answered, BestInv, NEW t \in Thread, pc[t] # "idle", NEW reply, Finish(t, reply),
           UNCHANGED <<seen, raced, outages, visits>>,
           \A c \in Client, i \in PyPi, p \in Package :
               \/ known'[c][i][p] = known[c][i][p]
               \/ /\ IsFetching(pc[t], job[t]) /\ KeyOf(t, job[t]) = <<c, i, p>>
                  /\ known'[c][i][p] # None /\ Complete(Marks(c, i, p), i, p, known'[c][i][p]),
           \A c \in Client, i \in PyPi, p \in Package : Open(i, p) => \A a \in Offers(i, p) :
               IsFetching(pc[t], job[t]) /\ KeyOf(t, job[t]) = <<c, i, p>> /\ InHand(job[t], a)
               => a \in Marks(c, i, p) \/ known'[c][i][p] # None,
           NEW r, r = job[t].req,
           reply.state \in {"found", "not found"} =>
               \A i \in Asked(reply) \cap PyPi : Bested(Marks(ClientOf[t], i, PkgOf[r]), i, r, reply)
    PROVE  BestInv'
<1>1. pc'[t] = "idle" /\ \A u \in Thread \ {t} : pc'[u] = pc[u] /\ job'[u] = job[u]
  BY DEF Finish, Goto, Threads
<1>2. \A c \in Client, q \in Requirement :
          answer'[c][q] = answer[c][q] \/ (c = ClientOf[t] /\ q = r /\ answer'[c][q] = reply)
  BY DEF Finish, Answered
<1>3. \A c \in Client, q \in Requirement :
          \/ answer'[c][q] = answer[c][q]
          \/ answer'[c][q].state \notin {"found", "not found"}
          \/ \A i \in Asked(answer'[c][q]) \cap PyPi :
                 Bested(Marks(c, i, PkgOf[q]), i, q, answer'[c][q])
  <2>1. ASSUME NEW c \in Client, NEW q \in Requirement, answer'[c][q] # answer[c][q],
               answer'[c][q].state \in {"found", "not found"},
               NEW i \in Asked(answer'[c][q]) \cap PyPi
        PROVE  Bested(Marks(c, i, PkgOf[q]), i, q, answer'[c][q])
    <3>1. c = ClientOf[t] /\ q = r /\ answer'[c][q] = reply
      BY <1>2, <2>1
    <3>2. reply.state \in {"found", "not found"} /\ i \in Asked(reply) \cap PyPi
      BY <2>1, <3>1
    <3>3. Bested(Marks(ClientOf[t], i, PkgOf[r]), i, r, reply)
      BY <3>2
    <3>4. QED
      BY <3>1, <3>3
  <2>2. QED
    BY <2>1
<1>4. pc'[t] \in {"idle", "ask"} /\ ~(pc'[t] = "ask") /\ ~(pc'[t] # "idle")
  BY <1>1
<1>5. QED
  BY <1>1, <1>3, <1>4, Leaves

\* A page that redirects too often.
LEMMA TooManyRedirectsBest ==
    ASSUME Threads, Answered, BestInv, NEW t \in Thread, TooManyRedirects(t),
           \/ Fetch(t) /\ http_retrieve(Head(job[t].pages)) = None
           \/ Home(t) /\ http_retrieve(Link(t).link) = None
    PROVE  BestInv'
<1>1. PICK c, i, p, old, r :
          c = ClientOf[t] /\ i = Here(t) /\ p = Wanted(t) /\ old = job[t] /\ r = job[t].req
  OBVIOUS
<1>2. \/ pc[t] = "page" /\ old.pages # <<>> /\ http_retrieve(Head(old.pages)) = None
      \/ /\ pc[t] = "links" /\ old.links # <<>>
         /\ Head(old.links).link \in Page /\ ~Head(old.links).sub
         /\ http_retrieve(Head(old.links).link) = None
  BY <1>1 DEF Fetch, Home, At, Looking, Link
<1>3. /\ i \in PyPi /\ p \in Package /\ pc[t] # "idle" /\ KeyOf(t, old) = <<c, i, p>>
      /\ Going(Marks(c, i, p), i, p, pc[t], old)
  BY <1>1, <1>2, AtPages
<1>4. PICK reply : reply = Reply("error", None, Here(t))
  OBVIOUS
<1>5. /\ Finish(t, reply) /\ UNCHANGED <<known, seen, raced, outages, visits>>
      /\ reply.state \notin {"found", "not found"}
  BY <1>4 DEF TooManyRedirects, sharedVars, history, Reply
<1>6. PICK T : T = Marks(c, i, p)
  OBVIOUS
<1>7. Open(i, p) => Offers(i, p) \subseteq T
  <2>1. \/ /\ Going(T, i, p, "page", old) /\ old.pages # <<>>
           /\ http_retrieve(Head(old.pages)) = None
        \/ /\ Going(T, i, p, "links", old) /\ old.links # <<>>
           /\ Head(old.links).link \in Page /\ ~Head(old.links).sub
           /\ http_retrieve(Head(old.links).link) = None
    BY <1>2, <1>3, <1>6
  <2>2. QED
    BY <1>3, <2>1, Trapped
<1>8. \A d \in Client, l \in PyPi, q \in Package : Open(l, q) => \A a \in Offers(l, q) :
          IsFetching(pc[t], job[t]) /\ KeyOf(t, job[t]) = <<d, l, q>> /\ InHand(job[t], a)
          => a \in Marks(d, l, q) \/ known'[d][l][q] # None
  <2>1. ASSUME NEW d \in Client, NEW l \in PyPi, NEW q \in Package, KeyOf(t, job[t]) = <<d, l, q>>
        PROVE  d = c /\ l = i /\ q = p
    BY <1>1, <1>3, <2>1
  <2>2. QED
    BY <1>6, <1>7, <2>1
<1>9. \A d \in Client, l \in PyPi, q \in Package : known'[d][l][q] = known[d][l][q]
  BY <1>5
<1>10. QED
  BY <1>1, <1>3, <1>5, <1>8, <1>9, FinishBest

\* A server answers, or does not.
LEMMA AskCurdBest ==
    ASSUME Threads, BestInv, NEW t \in Thread, AskCurd(t) \/ (NoAnswer(t) /\ pc[t] = "ask")
    PROVE  BestInv'
<1>1. PICK old, versions :
          /\ old = job[t] /\ job' = [job EXCEPT ![t].top = versions]
          /\ pc[t] = "ask" /\ Here(t) \in Curd /\ pc' = [pc EXCEPT ![t] = "learn"]
          /\ UNCHANGED <<known, seen, answer, raced, visits>> /\ outages \subseteq outages'
  <2>1. CASE AskCurd(t)
    BY <2>1 DEF AskCurd, Learn, At, Goto, history
  <2>2. CASE NoAnswer(t) /\ pc[t] = "ask"
    BY <2>2 DEF NoAnswer, Learn, At, Looking, Goto, sharedVars
  <2>3. QED
    BY <2>1, <2>2
<1>2. PICK j : j = [old EXCEPT !.top = versions]
  OBVIOUS
<1>3. IsJob(old) /\ pc[t] # "idle" /\ Here(t) = Locators[old.at]
  BY <1>1, Whereabouts DEF Here
<1>4. j.at = old.at /\ j.req = old.req
  BY <1>2, <1>3 DEF IsJob
<1>5. job' = [job EXCEPT ![t] = j]
  BY <1>1, <1>2
<1>6. /\ pc'[t] = "learn" /\ job'[t] = j
      /\ \A u \in Thread \ {t} : pc'[u] = pc[u] /\ job'[u] = job[u]
  BY <1>1, <1>5, Changes
<1>7. ~IsFetching(pc[t], job[t]) /\ ~IsFetching(pc'[t], job'[t]) /\ pc'[t] # "ask"
  BY <1>1, <1>3, <1>4, <1>6, LocatorsAssumption DEF IsFetching
<1>8. MarksGrow /\ raced \subseteq raced'
  BY <1>1, TakenStays
<1>9. \A n \in 1 .. job'[t].at - 1 : Locators[n] \in PyPi =>
          Barren(Marks(ClientOf[t], Locators[n], PkgOf[job'[t].req]), Locators[n], job'[t].req)
  BY <1>1, <1>3, <1>4, <1>6 DEF BestInv, Underway
<1>10. /\ \A c \in Client, i \in PyPi, p \in Package : known'[c][i][p] = known[c][i][p]
       /\ \A c \in Client, r \in Requirement : answer'[c][r] = answer[c][r]
       /\ \A c \in Client, i \in PyPi, p \in Package : Open(i, p) => \A a \in Offers(i, p) :
              /\ a \in seen'[c][i] => a \in seen[c][i]
              /\ ~(IsFetching(pc[t], job[t]) /\ KeyOf(t, job[t]) = <<c, i, p>> /\ InHand(job[t], a))
  BY <1>1, <1>7
<1>11. /\ IsFetching(pc'[t], job'[t]) /\ KeyOf(t, job'[t]) \notin raced' =>
              /\ known'[ClientOf[t]][Locators[job'[t].at]][PkgOf[job'[t].req]] = None
              /\ \A u \in Thread \ {t} : IsFetching(pc[u], job[u]) => KeyOf(u, job[u]) # KeyOf(t, job'[t])
       /\ \A c, i, p : IsFetching(pc'[t], job'[t]) /\ KeyOf(t, job'[t]) = <<c, i, p>> =>
              Prosperous(Marks(c, i, p)', i, p, pc'[t], job'[t])
  BY <1>7
<1>12. QED
  BY <1>6, <1>7, <1>8, <1>9, <1>10, <1>11, BestStays

\* A requirement leaves the queue.
LEMMA TakeBest ==
    ASSUME Threads, Answered, BestInv, NEW t \in Thread, NEW r \in Requirement, Take(t, r)
    PROVE  BestInv'
<1>1. /\ pc[t] = "idle" /\ UNCHANGED <<known, seen, raced, outages, visits>>
      /\ answer' = [answer EXCEPT ![ClientOf[t]][r].state = "searching"]
      /\ job' = [job EXCEPT ![t] = [NoJob EXCEPT !.req = r, !.at = 1]]
      /\ pc' = [pc EXCEPT ![t] = "ask"]
  BY DEF Take, At, Goto, sharedVars, history
<1>2. PICK j : j = [NoJob EXCEPT !.req = r, !.at = 1]
  OBVIOUS
<1>3. j.at = 1 /\ EmptyHands(j)
  BY <1>2 DEF NoJob, EmptyHands
<1>4. /\ pc'[t] = "ask" /\ job'[t] = j /\ \A u \in Thread \ {t} : pc'[u] = pc[u] /\ job'[u] = job[u]
  BY <1>1, <1>2 DEF Threads
<1>5. 1 .. job'[t].at - 1 = {}
  BY <1>3, <1>4
<1>6. ~IsFetching(pc[t], job[t]) /\ ~IsFetching(pc'[t], job'[t])
  BY <1>1, <1>4 DEF IsFetching
<1>7. \A c \in Client, q \in Requirement :
          answer'[c][q] = answer[c][q] \/ answer'[c][q].state \notin {"found", "not found"}
  <2>1. ClientOf[t] \in Client /\ answer \in [Client -> [Requirement -> Replies]]
    BY LocatorsAssumption DEF Answered
  <2>2. answer[ClientOf[t]][r] \in Replies
    BY <2>1
  <2>3. PICK reply : reply = [answer[ClientOf[t]][r] EXCEPT !.state = "searching"]
    OBVIOUS
  <2>4. reply.state = "searching"
    BY <2>2, <2>3 DEF Replies
  <2>5. \A c \in Client, q \in Requirement : answer'[c][q] = answer[c][q] \/ answer'[c][q] = reply
    BY <1>1, <2>1, <2>3
  <2>6. QED
    BY <2>4, <2>5
<1>8. MarksGrow /\ raced \subseteq raced'
  BY <1>1, TakenStays
<1>9. /\ \A c \in Client, i \in PyPi, p \in Package : known'[c][i][p] = known[c][i][p]
      /\ \A c \in Client, i \in PyPi, p \in Package : Open(i, p) => \A a \in Offers(i, p) :
             /\ a \in seen'[c][i] => a \in seen[c][i]
             /\ ~(IsFetching(pc[t], job[t]) /\ KeyOf(t, job[t]) = <<c, i, p>> /\ InHand(job[t], a))
      /\ pc'[t] = "ask" => EmptyHands(job'[t])
  BY <1>1, <1>3, <1>4, <1>6
<1>10. /\ IsFetching(pc'[t], job'[t]) /\ KeyOf(t, job'[t]) \notin raced' =>
              /\ known'[ClientOf[t]][Locators[job'[t].at]][PkgOf[job'[t].req]] = None
              /\ \A u \in Thread \ {t} : IsFetching(pc[u], job[u]) => KeyOf(u, job[u]) # KeyOf(t, job'[t])
       /\ \A c, i, p : IsFetching(pc'[t], job'[t]) /\ KeyOf(t, job'[t]) = <<c, i, p>> =>
              Prosperous(Marks(c, i, p)', i, p, pc'[t], job'[t])
       /\ \A n \in 1 .. job'[t].at - 1 : Locators[n] \in PyPi =>
              Barren(Marks(ClientOf[t], Locators[n], PkgOf[job'[t].req]), Locators[n], job'[t].req)
  BY <1>5, <1>6
<1>11. \A c \in Client, q \in Requirement :
           \/ answer'[c][q] = answer[c][q]
           \/ answer'[c][q].state \notin {"found", "not found"}
           \/ \A i \in Asked(answer'[c][q]) \cap PyPi :
                  Bested(Marks(c, i, PkgOf[q]), i, q, answer'[c][q])
  BY <1>7
<1>12. \A u \in Thread \ {t} : pc'[u] = pc[u] /\ job'[u] = job[u]
  BY <1>4
<1>13. QED
  BY <1>8, <1>9, <1>10, <1>11, <1>12, BestStays

\* No version that suits: another search got in the way of every archive that would.
LEMMA NothingElse ==
    ASSUME NEW i \in PyPi, NEW r \in Requirement, NEW T, NEW versions,
           Complete(T, i, PkgOf[r], versions), Suitable(versions, r) = {}
    PROVE  Barren(T, i, r)
BY DEF Complete, Suitable, Barren

\* The newest version that suits is taken.
LEMMA TakesNewest ==
    ASSUME NEW i \in PyPi, NEW r \in Requirement, NEW T, NEW versions \in ListingsOf(PkgOf[r]),
           Complete(T, i, PkgOf[r], versions), Suitable(versions, r) # {},
           NEW reply, reply.locator = i, reply.url = find_packages(versions, r)
    PROVE  Bested(T, i, r, reply)
<1> DEFINE S == Suitable(versions, r)
           v == Max(S)
<1>1. S \subseteq Version /\ S \subseteq Nat /\ IsFiniteSet(S)
  <2>1. S \subseteq Version
    BY LocatorsAssumption DEF Suitable
  <2>2. QED
    BY <2>1, LocatorsAssumption, FS_Subset
<1>2. v \in S /\ \A y \in S : y <= v
  BY <1>1, MaxIsGreatest
<1>3. v \in Version /\ versions[v] # None /\ reply.url = versions[v]
  BY <1>1, <1>2 DEF Suitable, find_packages
<1>4. VersionOf(reply.url) = v
  <2> HIDE DEF v
  <2>1. Describes[versions[v]] = <<PkgOf[r], v>>
    BY <1>3 DEF ListingsOf
  <2>2. QED
    BY <1>3, <2>1 DEF VersionOf
<1>5. ASSUME NEW a \in Offers(i, PkgOf[r]), VersionOf(a) \in Allows[r], a \notin T
      PROVE  ~(VersionOf(a) > VersionOf(reply.url))
  <2>1. VersionOf(a) \in S
    BY <1>5 DEF Complete, Suitable
  <2> HIDE DEF S, v
  <2>2. VersionOf(a) <= v /\ VersionOf(a) \in Nat /\ v \in Nat
    BY <1>1, <1>2, <2>1
  <2>3. QED
    BY <1>4, <2>2
<1>6. QED
  BY <1>5 DEF Bested

\* A locator has answered, with every offer that no other search got in the way of.
LEMMA DecideBest ==
    ASSUME Threads, Answered, BestInv, NEW t \in Thread, pc[t] # "idle",
           UNCHANGED <<seen, raced, outages, visits>>,
           \A c \in Client, i \in PyPi, p \in Package :
               \/ known'[c][i][p] = known[c][i][p]
               \/ /\ IsFetching(pc[t], job[t]) /\ KeyOf(t, job[t]) = <<c, i, p>>
                  /\ known'[c][i][p] # None /\ Complete(Marks(c, i, p), i, p, known'[c][i][p]),
           \A c \in Client, i \in PyPi, p \in Package : Open(i, p) => \A a \in Offers(i, p) :
               IsFetching(pc[t], job[t]) /\ KeyOf(t, job[t]) = <<c, i, p>> /\ InHand(job[t], a)
               => a \in Marks(c, i, p) \/ known'[c][i][p] # None,
           NEW versions \in ListingsOf(Wanted(t)), Decide(t, versions),
           Here(t) \in PyPi =>
               Complete(Marks(ClientOf[t], Here(t), Wanted(t)), Here(t), Wanted(t), versions)
    PROVE  BestInv'
<1>1. PICK c, r, at, here :
          c = ClientOf[t] /\ r = job[t].req /\ at = job[t].at /\ here = Here(t)
  OBVIOUS
<1>2. /\ r \in Requirement /\ at \in 1 .. Len(Locators) /\ Len(Locators) \in Nat
      /\ Wanted(t) = PkgOf[r] /\ here = Locators[at]
  BY <1>1, Whereabouts, LocatorFacts DEF Wanted, Here
<1>3. \A n \in 1 .. at - 1 : Locators[n] \in PyPi =>
          Barren(Marks(c, Locators[n], PkgOf[r]), Locators[n], r)
  BY <1>1 DEF BestInv, Underway
<1>4. here \in PyPi => Complete(Marks(c, here, PkgOf[r]), here, PkgOf[r], versions)
  BY <1>1, <1>2
<1>5. ASSUME Suitable(versions, r) = {}, NEW n \in 1 .. at, Locators[n] \in PyPi
      PROVE  Barren(Marks(c, Locators[n], PkgOf[r]), Locators[n], r)
  <2>1. CASE n = at
    BY <1>2, <1>4, <1>5, <2>1, NothingElse
  <2>2. CASE n # at
    <3>1. n \in 1 .. at - 1
      BY <1>2, <2>2
    <3>2. QED
      BY <1>3, <1>5, <3>1
  <2>3. QED
    BY <2>1, <2>2
<1>6. \A T, i, reply : Barren(T, i, r) => Bested(T, i, r, reply)
  BY DEF Barren, Bested
<1>7. ASSUME NEW reply, Finish(t, reply),
             reply.state \in {"found", "not found"} =>
                 \A i \in Asked(reply) \cap PyPi : Bested(Marks(c, i, PkgOf[r]), i, r, reply)
      PROVE  BestInv'
  BY <1>1, <1>7, FinishBest
<1>8. CASE /\ Suitable(versions, r) # {}
           /\ Finish(t, Reply("found", find_packages(versions, r), here))
  <2>1. PICK reply : reply = Reply("found", find_packages(versions, r), here)
    OBVIOUS
  <2>2. /\ reply.state = "found" /\ reply.locator = here
        /\ reply.url = find_packages(versions, r) /\ Finish(t, reply)
    BY <1>8, <2>1 DEF Reply
  <2>3. ASSUME NEW i \in Asked(reply) \cap PyPi
        PROVE  Bested(Marks(c, i, PkgOf[r]), i, r, reply)
    <3>1. PICK n \in DOMAIN Locators : i = Locators[n] /\ \A k \in 1 .. n - 1 : Locators[k] # here
      BY <2>2 DEF Asked
    <3>2. n \in 1 .. at
      <4>1. n \in 1 .. Len(Locators)
        BY LocatorFacts
      <4>2. at \notin 1 .. n - 1
        BY <1>2, <3>1
      <4>3. QED
        BY <1>2, <4>1, <4>2
    <3>3. CASE n = at
      <4>1. i = here /\ i \in PyPi /\ versions \in ListingsOf(PkgOf[r])
        BY <1>2, <3>1, <3>3
      <4>2. PICK T : T = Marks(c, i, PkgOf[r])
        OBVIOUS
      <4>3. Complete(T, i, PkgOf[r], versions) /\ reply.locator = i
        BY <1>4, <2>2, <4>1, <4>2
      <4>4. Bested(T, i, r, reply)
        BY <1>2, <1>8, <2>2, <4>1, <4>3, TakesNewest
      <4>5. QED
        BY <4>2, <4>4
    <3>4. CASE n # at
      <4>1. n \in 1 .. at - 1
        BY <1>2, <3>2, <3>4
      <4>2. QED
        BY <1>3, <1>6, <3>1, <4>1
    <3>5. QED
      BY <3>3, <3>4
  <2>4. QED
    BY <1>7, <2>2, <2>3
<1>9. CASE Suitable(versions, r) = {} /\ at = Len(Locators) /\ Finish(t, Reply("not found", None, None))
  <2>1. PICK reply : reply = Reply("not found", None, None)
    OBVIOUS
  <2>2. \A i \in Asked(reply) \cap PyPi : Bested(Marks(c, i, PkgOf[r]), i, r, reply)
    <3>1. \A i \in Asked(reply) : \E n \in DOMAIN Locators : i = Locators[n]
      BY DEF Asked
    <3>2. DOMAIN Locators = 1 .. at
      BY <1>9, LocatorFacts
    <3>3. QED
      BY <1>5, <1>6, <1>9, <3>1, <3>2
  <2>3. Finish(t, reply)
    BY <1>9, <2>1
  <2>4. QED
    BY <1>7, <2>2, <2>3
<1>10. CASE /\ Suitable(versions, r) = {}
            /\ job' = [job EXCEPT ![t] = [NoJob EXCEPT !.req = r, !.at = at + 1]]
            /\ Goto(t, "ask") /\ UNCHANGED answer
  <2>1. PICK j : j = [NoJob EXCEPT !.req = r, !.at = at + 1]
    OBVIOUS
  <2>2. j.req = r /\ j.at = at + 1 /\ EmptyHands(j)
    BY <2>1 DEF NoJob, EmptyHands
  <2>3. /\ pc'[t] = "ask" /\ job'[t] = j
        /\ \A u \in Thread \ {t} : pc'[u] = pc[u] /\ job'[u] = job[u]
    BY <1>10, <2>1 DEF Goto, Threads
  <2>4. \A n \in 1 .. job'[t].at - 1 : Locators[n] \in PyPi =>
            Barren(Marks(ClientOf[t], Locators[n], PkgOf[job'[t].req]), Locators[n], job'[t].req)
    <3>1. 1 .. job'[t].at - 1 = 1 .. at
      BY <1>2, <2>2, <2>3
    <3>2. QED
      BY <1>1, <1>5, <1>10, <2>2, <2>3, <3>1
  <2>5. pc'[t] \in {"idle", "ask"} /\ (pc'[t] = "ask" => EmptyHands(job'[t]))
    BY <2>2, <2>3
  <2>6. \A d \in Client, q \in Requirement :
            \/ answer'[d][q] = answer[d][q]
            \/ answer'[d][q].state \notin {"found", "not found"}
            \/ \A i \in Asked(answer'[d][q]) \cap PyPi :
                   Bested(Marks(d, i, PkgOf[q]), i, q, answer'[d][q])
    BY <1>10
  <2>7. QED
    BY <2>3, <2>4, <2>5, <2>6, Leaves
<1>11. QED
  BY <1>1, <1>8, <1>9, <1>10 DEF Decide

\* A listing comes from `_cache', or goes there.
LEMMA DecidesBest ==
    ASSUME Threads, Answered, Shared, BestInv, NEW t \in Thread, Remember(t) \/ Store(t)
    PROVE  BestInv'
<1>1. pc[t] # "idle" /\ UNCHANGED <<seen, raced, outages, visits>>
  BY DEF Remember, Store, At, sharedVars, history
<1>2. /\ ClientOf[t] \in Client /\ Here(t) \in Range(Locators) /\ Wanted(t) \in Package
      /\ job[t].top \in ListingsOf(Wanted(t)) /\ KeyOf(t, job[t]) = <<ClientOf[t], Here(t), Wanted(t)>>
  BY <1>1, Whereabouts DEF KeyOf, Here, Wanted
<1>3. CASE Remember(t)
  <2>1. pc[t] = "ask" /\ Known(t) # None /\ Decide(t, Known(t)) /\ UNCHANGED known
    BY <1>3 DEF Remember, At, sharedVars
  <2>2. Known(t) \in ListingsOf(Wanted(t))
    BY <1>2, <2>1 DEF Shared, Known
  <2>3. PICK versions \in ListingsOf(Wanted(t)) : versions = Known(t)
    BY <2>2
  <2>4. Here(t) \in PyPi =>
            Complete(Marks(ClientOf[t], Here(t), Wanted(t)), Here(t), Wanted(t), versions)
    BY <1>2, <2>1, <2>3 DEF BestInv, Remembered, Known
  <2>5. ~IsFetching(pc[t], job[t])
    BY <2>1 DEF IsFetching
  <2>6. \A c \in Client, i \in PyPi, p \in Package : known'[c][i][p] = known[c][i][p]
    BY <2>1
  <2>7. Decide(t, versions)
    BY <2>1, <2>3
  <2>8. QED
    BY <1>1, <2>4, <2>5, <2>6, <2>7, DecideBest
<1>4. CASE Store(t)
  <2>1. PICK versions \in ListingsOf(Wanted(t)) : versions = job[t].top
    BY <1>2
  <2>2. /\ pc[t] = "learn" /\ Decide(t, versions)
        /\ known' = [known EXCEPT ![ClientOf[t]][Here(t)][Wanted(t)] = versions]
    BY <1>4, <2>1 DEF Store, At
  <2>3. versions # None
    BY LocatorsAssumption DEF ListingsOf
  <2>4. Here(t) \in PyPi => IsFetching(pc[t], job[t])
    BY <2>2 DEF IsFetching, Here
  <2>5. Here(t) \in PyPi =>
            Complete(Marks(ClientOf[t], Here(t), Wanted(t)), Here(t), Wanted(t), versions)
    BY <2>1, <2>2, <2>4 DEF BestInv, Underway, Prosperous, Here, Wanted
  <2>6. \A c \in Client, i \in PyPi, p \in Package :
            \/ known'[c][i][p] = known[c][i][p]
            \/ c = ClientOf[t] /\ i = Here(t) /\ p = Wanted(t) /\ known'[c][i][p] = versions
    <3>1. known \in [Client -> [Range(Locators) -> [Package -> Listing \cup {None}]]]
      BY DEF Shared
    <3>2. PyPi \subseteq Range(Locators)
      BY LocatorFacts
    <3>3. QED
      BY <1>2, <2>2, <3>1, <3>2
  <2>7. \A c \in Client, i \in PyPi, p \in Package :
            \/ known'[c][i][p] = known[c][i][p]
            \/ /\ IsFetching(pc[t], job[t]) /\ KeyOf(t, job[t]) = <<c, i, p>>
               /\ known'[c][i][p] # None /\ Complete(Marks(c, i, p), i, p, known'[c][i][p])
    BY <1>2, <2>3, <2>4, <2>5, <2>6
  <2>8. ASSUME NEW c \in Client, NEW i \in PyPi, NEW p \in Package, KeyOf(t, job[t]) = <<c, i, p>>
        PROVE  known'[c][i][p] # None
    <3>1. c = ClientOf[t] /\ i = Here(t) /\ p = Wanted(t)
      BY <1>2, <2>8
    <3>2. known \in [Client -> [Range(Locators) -> [Package -> Listing \cup {None}]]]
      BY DEF Shared
    <3>3. known'[c][i][p] = versions
      BY <1>2, <2>2, <3>1, <3>2
    <3>4. QED
      BY <2>3, <3>3
  <2>9. QED
    BY <1>1, <2>2, <2>5, <2>7, <2>8, DecideBest
<1>5. QED
  BY <1>3, <1>4

\* Every step of a search keeps what BestInv says.
LEMMA SearchBest ==
    ASSUME Threads, Answered, Shared, BestInv, NEW t \in Thread, Search(t)
    PROVE  BestInv'
<1>1. CASE \E r \in Requirement : Take(t, r)
  BY <1>1, TakeBest
<1>2. CASE Remember(t) \/ Store(t)
  BY <1>2, DecidesBest
<1>3. CASE AskCurd(t)
  BY <1>3, AskCurdBest
<1>4. CASE NoAnswer(t)
  BY <1>4, AskCurdBest, NoAnswerBest
<1>5. CASE AskIndex(t)
  BY <1>5, AskIndexBest
<1>6. CASE Fetch(t)
  <2>1. CASE http_retrieve(Head(job[t].pages)) = None
    <3>1. TooManyRedirects(t)
      BY <1>6, <2>1 DEF Fetch
    <3>2. QED
      BY <1>6, <2>1, <3>1, TooManyRedirectsBest
  <2>2. CASE http_retrieve(Head(job[t].pages)) # None
    BY <1>6, <2>2, FetchBest
  <2>3. QED
    BY <2>1, <2>2
<1>7. CASE Home(t)
  <2>1. CASE http_retrieve(Link(t).link) = None
    <3>1. TooManyRedirects(t)
      BY <1>7, <2>1 DEF Home
    <3>2. QED
      BY <1>7, <2>1, <3>1, TooManyRedirectsBest
  <2>2. CASE http_retrieve(Link(t).link) # None
    BY <1>7, <2>2, HomeBest
  <2>3. QED
    BY <2>1, <2>2
<1>8. CASE NoPage(t)
  BY <1>8, NoPageBest
<1>9. CASE Return(t)
  BY <1>9, ReturnBest
<1>10. CASE Skip(t)
  BY <1>10, SkipBest
<1>11. CASE See(t)
  BY <1>11, SeeBest
<1>12. CASE Visit(t)
  BY <1>12, VisitBest
<1>13. CASE Fetched(t)
  BY <1>13, FetchedBest
<1>14. QED
  BY <1>1, <1>2, <1>3, <1>4, <1>5, <1>6, <1>7, <1>8, <1>9, <1>10, <1>11, <1>12, <1>13 DEF Search

-----------------------------------------------------------------------------
(* Everything else *)

\* No search takes a step.
LEMMA BestStutters ==
    ASSUME BestInv, UNCHANGED <<known, seen, pc, job, outages, visits, raced>>,
           \A c \in Client, r \in Requirement :
               answer'[c][r] = answer[c][r] \/ answer'[c][r].state \notin {"found", "not found"}
    PROVE  BestInv'
<1>1. \A c, i, p : Marks(c, i, p)' = Marks(c, i, p)
  BY MarksStay
<1>2. Alone' /\ Underway' /\ Sighted' /\ Remembered'
  <2>1. Alone'
    BY DEF BestInv, Alone, IsFetching, KeyOf
  <2>2. ASSUME NEW u \in Thread
        PROVE  (pc[u] = "ask" => EmptyHands(job[u]))'
    BY DEF BestInv, Underway, EmptyHands
  <2>3. ASSUME NEW u \in Thread, IsFetching(pc[u], job[u])'
        PROVE  Prosperous(Marks(ClientOf[u], Locators[job[u].at], PkgOf[job[u].req]),
                          Locators[job[u].at], PkgOf[job[u].req], pc[u], job[u])'
    <3>1. PICK c, i, p : c = ClientOf[u] /\ i = Locators[job[u].at] /\ p = PkgOf[job[u].req]
      OBVIOUS
    <3>2. IsFetching(pc[u], job[u])
      BY <2>3 DEF IsFetching
    <3>3. Prosperous(Marks(c, i, p)', i, p, pc'[u], job'[u])
      BY <1>1, <3>1, <3>2 DEF BestInv, Underway
    <3>4. QED
      BY <3>1, <3>3 DEF Marks, Taken, Prosperous, Complete, Going, Prospect, Linked, Paged, Bare
  <2>4. ASSUME NEW u \in Thread, pc'[u] # "idle", NEW n \in 1 .. job'[u].at - 1, Locators[n] \in PyPi
        PROVE  Barren(Marks(ClientOf[u], Locators[n], PkgOf[job[u].req]), Locators[n], job[u].req)'
    <3>1. PICK r : r = job[u].req
      OBVIOUS
    <3>2. Barren(Marks(ClientOf[u], Locators[n], PkgOf[r]), Locators[n], r)
      BY <2>4, <3>1 DEF BestInv, Underway
    <3>3. Barren(Marks(ClientOf[u], Locators[n], PkgOf[r])', Locators[n], r)
      BY <1>1, <3>2
    <3>4. QED
      BY <3>1, <3>3 DEF Marks, Taken, Barren
  <2>5. Underway'
    BY <2>2, <2>3, <2>4 DEF Underway, IsFetching, EmptyHands
  <2>6. ASSUME NEW c \in Client, NEW i \in PyPi, NEW p \in Package, Open(i, p),
               NEW a \in Offers(i, p), a \in seen'[c][i]
        PROVE  a \in Marks(c, i, p)' \/ Kept(c, i, p, a)'
    <3>1. a \in Marks(c, i, p) \/ Kept(c, i, p, a)
      BY <2>6 DEF BestInv, Sighted
    <3>2. Kept(c, i, p, a)' <=> Kept(c, i, p, a)
      BY DEF Kept, IsFetching, KeyOf, InHand
    <3>3. QED
      BY <1>1, <3>1, <3>2
  <2>7. Sighted'
    BY <2>6 DEF Sighted
  <2>8. ASSUME NEW c \in Client, NEW i \in PyPi, NEW p \in Package, known'[c][i][p] # None
        PROVE  Complete(Marks(c, i, p)', i, p, known'[c][i][p])
    BY <1>1, <2>8 DEF BestInv, Remembered
  <2>9. Remembered'
    BY <2>8 DEF Remembered, Complete, Marks, Taken
  <2>10. QED
    BY <2>1, <2>5, <2>7, <2>9
<1>3. Satisfied'
  <2>1. ASSUME NEW c \in Client, NEW r \in Requirement, answer'[c][r].state \in {"found", "not found"},
               NEW i \in Asked(answer'[c][r]) \cap PyPi
        PROVE  Bested(Marks(c, i, PkgOf[r])', i, r, answer'[c][r])
    <3>1. answer'[c][r] = answer[c][r]
      BY <2>1
    <3>2. Bested(Marks(c, i, PkgOf[r]), i, r, answer[c][r])
      BY <2>1, <3>1 DEF BestInv, Satisfied
    <3>3. Marks(c, i, PkgOf[r])' = Marks(c, i, PkgOf[r])
      BY MarksStay
    <3>4. QED
      BY <3>1, <3>2, <3>3
  <2>2. QED
    BY <2>1 DEF Satisfied, Asked, Bested, Marks, Taken
<1>4. QED
  BY <1>2, <1>3 DEF BestInv

\* No answer comes from what clients do but for searching.
LEMMA ClientBest ==
    ASSUME Answered, BestInv, NEW c \in Client, ClientStep(c)
    PROVE  BestInv'
<1>1. UNCHANGED <<known, seen, pc, job, outages, visits, raced>>
  <2>1. CASE Start(c) \/ \E r \in Requirement : DownloadFails(c, r)
    BY <2>1 DEF Start, DownloadFails, sharedVars, history
  <2>2. CASE GiveUp(c) \/ InstallAll(c) \/ Exit(c) \/ \E r \in Requirement : Download(c, r)
    BY <2>2 DEF GiveUp, InstallAll, Exit, Download, locatorVars, sharedVars, history
  <2>3. CASE \E x \in uploads[c] : Send(c, x[1], x[2]) \/ SendFails(c, x[1], x[2])
    BY <2>3 DEF Send, SendFails, sharedVars, history
  <2>4. QED
    BY <2>1, <2>2, <2>3 DEF ClientStep
<1>2. \A d \in Client, r \in Requirement :
          answer'[d][r] = answer[d][r] \/ answer'[d][r].state \in {"queued", "error"}
  <2>1. CASE Start(c)
    <3>1. \A d \in Client, r \in Requirement :
              answer'[d][r] = answer[d][r] \/ answer'[d][r] = Reply("queued", None, None)
      BY <2>1 DEF Start, Answered
    <3>2. Reply("queued", None, None).state = "queued"
      BY DEF Reply
    <3>3. QED
      BY <3>1, <3>2
  <2>2. ASSUME NEW r \in Requirement, DownloadFails(c, r)
        PROVE  \A d \in Client, q \in Requirement :
                   answer'[d][q] = answer[d][q] \/ answer'[d][q].state \in {"queued", "error"}
    <3>1. PICK reply : reply = Reply("error", None, answer[c][r].locator)
      OBVIOUS
    <3>2. reply.state = "error"
      BY <3>1 DEF Reply
    <3>3. \A d \in Client, q \in Requirement : answer'[d][q] = answer[d][q] \/ answer'[d][q] = reply
      BY <2>2, <3>1 DEF DownloadFails, Answered
    <3>4. QED
      BY <3>2, <3>3
  <2>3. CASE GiveUp(c) \/ InstallAll(c) \/ Exit(c) \/ \E r \in Requirement : Download(c, r)
    BY <2>3 DEF GiveUp, InstallAll, Exit, Download, locatorVars
  <2>4. CASE \E x \in uploads[c] : Send(c, x[1], x[2]) \/ SendFails(c, x[1], x[2])
    BY <2>4 DEF Send, SendFails
  <2>5. QED
    BY <2>1, <2>2, <2>3, <2>4 DEF ClientStep
<1>3. \A d \in Client, r \in Requirement :
          answer'[d][r] = answer[d][r] \/ answer'[d][r].state \notin {"found", "not found"}
  BY <1>2
<1>4. QED
  BY <1>1, <1>3, BestStutters

\* At the start nothing was seen, known or answered.
LEMMA BestStarts == Init => BestInv
<1> SUFFICES ASSUME Init
             PROVE  BestInv
  OBVIOUS
<1>1. /\ known = [c \in Client |-> NothingKnown]
      /\ seen = [c \in Client |-> [i \in PyPi |-> {}]]
      /\ answer = [c \in Client |-> [r \in Requirement |-> Reply("unasked", None, None)]]
      /\ pc = [t \in Thread |-> "idle"]
  BY DEF Init, LocatorsInit
<1>2. Alone /\ Underway
  BY <1>1 DEF Alone, Underway, IsFetching
<1>3. Sighted
  BY <1>1 DEF Sighted
<1>4. Remembered
  BY <1>1, LocatorFacts DEF Remembered, NothingKnown
<1>5. Satisfied
  BY <1>1 DEF Satisfied, Reply
<1>6. QED
  BY <1>2, <1>3, <1>4, <1>5 DEF BestInv

\* Every step keeps what BestInv says.
LEMMA BestKeeps == CacheInv /\ BestInv /\ [Next]_vars => BestInv'
<1> SUFFICES ASSUME CacheInv, BestInv, [Next]_vars
             PROVE  BestInv'
  OBVIOUS
<1>1. CASE (\E s \in Curd : Restart(s)) \/ UNCHANGED vars
  <2>1. UNCHANGED <<known, seen, pc, job, outages, visits, raced, answer>>
    BY <1>1 DEF Restart, vars, locatorVars, sharedVars, history
  <2>2. QED
    BY <2>1, BestStutters
<1>2. CASE \E c \in Client : ClientStep(c)
  BY <1>2, ClientBest DEF CacheInv
<1>3. CASE \E t \in Thread : SearchStep(t)
  BY <1>3, SearchBest DEF CacheInv, SearchStep
<1>4. QED
  BY <1>1, <1>2, <1>3 DEF Next

(***************************************************************************)
(* FindsTheBest: an archive that suits a requirement, on the pages of an   *)
(* index that was asked, is no newer than the one that was chosen; however *)
(* the threads of a client, which share what was seen and what is known,   *)
(* take turns at the pages and at their redirections, and whatever servers *)
(* fail to answer.  What is lost is lost to `_seen', as Taken says.        *)
(***************************************************************************)
THEOREM NothingOverlooked == Spec => []FindsTheBest
<1>1. BestInv => FindsTheBest
  BY BestIsFound DEF BestInv
<1>2. QED
  BY <1>1, CacheSound, BestStarts, BestKeeps, PTL DEF Spec
=============================================================================
