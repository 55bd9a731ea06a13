--------------------------- MODULE ParserMainProofs ---------------------------
(***************************************************************************)
(* Theorems about the crawl scheduler, for every number of slots and rows. *)
(***************************************************************************)
EXTENDS ParserMain, SequenceTheorems, TLAPS

-----------------------------------------------------------------------------
(***************************************************************************)
(* Lemmas: what the loops and the sequence operators return.               *)
(***************************************************************************)

\* The loop condition lets through no more than what waits and what fits, and
\* stops early only when every slot is taken.
LEMMA StartedBounds ==
  ASSUME NEW n \in Nat, NEW w \in Int, MaxThreadsCount \in Nat
  PROVE  /\ Started(n, w) \in 0..n
         /\ w <= MaxThreadsCount => w + Started(n, w) <= MaxThreadsCount
         /\ Started(n, w) < n => w + Started(n, w) >= MaxThreadsCount
BY DEF Started

\* What is left in a queue after its first n entries were taken.
LEMMA RestProperties ==
  ASSUME NEW S, NEW q \in Seq(S), NEW n \in 0..Len(q)
  PROVE  Rest(q, n) \in Seq(S) /\ Len(Rest(q, n)) = Len(q) - n
<1>1. \A k \in (n + 1)..Len(q) : q[k] \in S
  BY ElementOfSeq
<1>2. Len(q) \in Nat
  BY LenProperties
<1> QED
  BY <1>1, <1>2, SubSeqProperties DEF Rest

\* Taking one loader out of a sequence of loaders.
LEMMA RemoveAtProperties ==
  ASSUME NEW S, NEW s \in Seq(S), NEW i \in DOMAIN s
  PROVE  RemoveAt(s, i) \in Seq(S) /\ Len(RemoveAt(s, i)) = Len(s) - 1
<1>1. Len(s) \in Nat /\ i \in 1..Len(s)
  BY LenProperties
<1>2. /\ SubSeq(s, 1, i - 1) \in Seq(S)
      /\ Len(SubSeq(s, 1, i - 1)) = i - 1
  BY <1>1, ElementOfSeq, SubSeqProperties
<1>3. /\ SubSeq(s, i + 1, Len(s)) \in Seq(S)
      /\ Len(SubSeq(s, i + 1, Len(s))) = Len(s) - i
  BY <1>1, ElementOfSeq, SubSeqProperties
<1>4. \A a, b \in Seq(S) : a \o b \in Seq(S) /\ Len(a \o b) = Len(a) + Len(b)
  BY ConcatProperties
<1>5. (i - 1) + (Len(s) - i) = Len(s) - 1
  BY <1>1
<1> QED
  BY <1>2, <1>3, <1>4, <1>5 DEF RemoveAt

\* A non-empty sequence is one of positive length.
LEMMA EmptyIsLengthZero ==
  ASSUME NEW S, NEW s \in Seq(S)
  PROVE  Len(s) \in Nat /\ (s = <<>> <=> Len(s) = 0)
BY EmptySeq, LenProperties

\* A function on 1..n with values in S is a sequence of length n.
LEMMA FunctionIsSeq ==
  ASSUME NEW S, NEW n \in Nat, NEW f \in [1..n -> S]
  PROVE  f \in Seq(S) /\ Len(f) = n
OBVIOUS

LEMMA OpenLinksProperties ==
  ASSUME NEW q \in Seq(LinkObject), NEW n \in 0..Len(q)
  PROVE  OpenLinks(q, n) \in Seq(LinkLoader) /\ Len(OpenLinks(q, n)) = n
<1>1. \A k \in 1..n : q[k] \in LinkObject
  BY ElementOfSeq, LenProperties
<1>2. OpenLinks(q, n) \in [1..n -> LinkLoader]
  BY <1>1 DEF OpenLinks, LinkObject, LinkLoader
<1> QED
  BY <1>2, FunctionIsSeq, LenProperties

LEMMA OpenPagesProperties ==
  ASSUME NEW q \in Seq(Row), NEW n \in 0..Len(q)
  PROVE  OpenPages(q, n) \in Seq(PageLoader) /\ Len(OpenPages(q, n)) = n
<1>1. \A k \in 1..n : q[k] \in Row
  BY ElementOfSeq, LenProperties
<1>2. OpenPages(q, n) \in [1..n -> PageLoader]
  BY <1>1 DEF OpenPages, PageLoader
<1> QED
  BY <1>2, FunctionIsSeq, LenProperties

LEMMA LinksOfProperties ==
  ASSUME NEW row \in Row, NEW n \in 0..MaxLinks
  PROVE  LinksOf(row, n) \in Seq(LinkObject) /\ Len(LinksOf(row, n)) = n
<1>1. LinksOf(row, n) \in [1..n -> LinkObject]
  BY CrawlAssumption DEF LinksOf, LinkObject, Link, Row
<1> QED
  BY <1>1, FunctionIsSeq

\* A SELECT delivers at most one window, and nothing only from beyond the last
\* row; a failing one delivers no row and has size -1.
LEMMA QueryProperties ==
  ASSUME NEW offset \in Int, NEW size \in QuerySizes(offset)
  PROVE  /\ size \in Int /\ size >= -1
         /\ offset <= DbRows => offset + size <= DbRows
         /\ size = 0 /\ MaxThreadsCount > 0 => offset >= DbRows
         /\ size <= MaxThreadsCount
BY CrawlAssumption DEF QuerySizes, RowsAvailable

-----------------------------------------------------------------------------
(***************************************************************************)
(* The inductive invariant.                                                *)
(***************************************************************************)

\* Before load() has run, or when it exited, nothing has been read or opened;
\* afterwards the connection is open until the stamp.
Phases ==
  /\ phase # "crawling" => /\ LiveLoaders = 0 /\ ~stamped
                           /\ RowsRead = 0 /\ dbErrors = 0 /\ linksFound = 0
  /\ sitedbOpen <=> phase = "crawling" /\ ~stamped

\* The offset never runs past the table.
OffsetBounded == parserOffset <= DbRows

\* The stamp without interference means that the last window was empty.
StampedAfterLastRow ==
  stamped /\ ~suppressed /\ dbErrors = 0 => parserOffset = DbRows

IInv ==
  /\ TypeOK
  /\ SlotAccounting /\ WorkersBounded
  /\ LinksWaitOnlyWhenFull /\ PagesWaitOnlyWhenFull
  /\ RowsConserved /\ LinksConserved
  /\ NeverStalled /\ StampedMeansIdle
  /\ Phases /\ OffsetBounded /\ StampedAfterLastRow

\* loadPage moves n rows from the queue to new loaders and counts each twice;
\* it leaves a row behind only if paused or if every slot is taken.
LEMMA LoadPageMoves ==
  ASSUME NEW q \in Seq(Row), NEW w \in Int, NEW active \in Int,
         NEW pls \in Seq(PageLoader), disabled \in BOOLEAN,
         LoadPage(q, w, active, pls)
  PROVE  \E n \in 0..Len(q) :
           /\ categoryPages' \in Seq(Row) /\ Len(categoryPages') = Len(q) - n
           /\ pageLoaders' \in Seq(PageLoader)
           /\ Len(pageLoaders') = Len(pls) + n
           /\ workers_count' = w + n /\ pageActiveLoaderCount' = active + n
           /\ disabled => n = 0
           /\ w <= MaxThreadsCount => w + n <= MaxThreadsCount
           /\ ~disabled /\ n < Len(q) => w + n >= MaxThreadsCount
<1> DEFINE n == IF disabled THEN 0 ELSE Started(Len(q), w)
<1>1. Len(q) \in Nat /\ Len(pls) \in Nat
  BY EmptyIsLengthZero
<1>2. /\ n \in 0..Len(q)
      /\ disabled => n = 0
      /\ w <= MaxThreadsCount => w + n <= MaxThreadsCount
      /\ ~disabled /\ n < Len(q) => w + n >= MaxThreadsCount
  <2>1. /\ Started(Len(q), w) \in 0..Len(q)
        /\ w <= MaxThreadsCount => w + Started(Len(q), w) <= MaxThreadsCount
        /\ Started(Len(q), w) < Len(q) => w + Started(Len(q), w) >= MaxThreadsCount
    BY <1>1, StartedBounds, CrawlAssumption
  <2> QED
    BY <1>1, <2>1
<1>3. /\ Rest(q, n) \in Seq(Row) /\ Len(Rest(q, n)) = Len(q) - n
  BY <1>2, RestProperties
<1>4. OpenPages(q, n) \in Seq(PageLoader) /\ Len(OpenPages(q, n)) = n
  BY <1>2, OpenPagesProperties
<1>5. /\ pls \o OpenPages(q, n) \in Seq(PageLoader)
      /\ Len(pls \o OpenPages(q, n)) = Len(pls) + n
  BY <1>4, ConcatProperties
<1>6. /\ categoryPages' = Rest(q, n) /\ pageLoaders' = pls \o OpenPages(q, n)
      /\ workers_count' = w + n /\ pageActiveLoaderCount' = active + n
  BY DEF LoadPage
<1> QED
  BY <1>2, <1>3, <1>5, <1>6

\* The same for the loop that starts waiting links.
LEMMA DrainLinksMoves ==
  ASSUME NEW w \in Int, NEW lls \in Seq(LinkLoader),
         productLinks \in Seq(LinkObject), DrainLinks(w, lls)
  PROVE  \E n \in 0..Len(productLinks) :
           /\ productLinks' \in Seq(LinkObject)
           /\ Len(productLinks') = Len(productLinks) - n
           /\ linkLoaders' \in Seq(LinkLoader)
           /\ Len(linkLoaders') = Len(lls) + n
           /\ workers_count' = w + n
           /\ w <= MaxThreadsCount => w + n <= MaxThreadsCount
           /\ n < Len(productLinks) => w + n >= MaxThreadsCount
<1> DEFINE n == Started(Len(productLinks), w)
<1>1. Len(productLinks) \in Nat /\ Len(lls) \in Nat
  BY EmptyIsLengthZero
<1>2. /\ n \in 0..Len(productLinks)
      /\ w <= MaxThreadsCount => w + n <= MaxThreadsCount
      /\ n < Len(productLinks) => w + n >= MaxThreadsCount
  BY <1>1, StartedBounds, CrawlAssumption
<1>3. /\ Rest(productLinks, n) \in Seq(LinkObject)
      /\ Len(Rest(productLinks, n)) = Len(productLinks) - n
  BY <1>2, RestProperties
<1>4. /\ OpenLinks(productLinks, n) \in Seq(LinkLoader)
      /\ Len(OpenLinks(productLinks, n)) = n
  BY <1>2, OpenLinksProperties
<1>5. /\ lls \o OpenLinks(productLinks, n) \in Seq(LinkLoader)
      /\ Len(lls \o OpenLinks(productLinks, n)) = Len(lls) + n
  BY <1>4, ConcatProperties
<1>6. /\ productLinks' = Rest(productLinks, n)
      /\ linkLoaders' = lls \o OpenLinks(productLinks, n)
      /\ workers_count' = w + n
  BY DEF DrainLinks
<1> QED
  BY <1>2, <1>3, <1>5, <1>6

\* A SELECT adds as many rows to the queue as it moves the offset, a failing
\* one none: offset plus errors grows by exactly the rows added.
LEMMA LoadDbDataAdds ==
  ASSUME NEW q \in Seq(Row), NEW offset \in Int, NEW size \in QuerySizes(offset),
         disabled \in BOOLEAN, dbErrors \in Nat, offset <= DbRows,
         LoadDbData(offset, size)
  PROVE  \E k \in Nat :
           /\ QueueAfterQuery(q, offset, size) \in Seq(Row)
           /\ Len(QueueAfterQuery(q, offset, size)) = Len(q) + k
           /\ parserOffset' \in Int /\ dbErrors' \in Nat
           /\ parserOffset' + dbErrors' = offset + dbErrors + k
           /\ parserOffset' <= DbRows
           /\ k <= MaxThreadsCount
           /\ disabled => k = 0 /\ dbErrors' = dbErrors
           /\ ~disabled /\ dbErrors' = 0 /\ k = 0 /\ MaxThreadsCount > 0
                => parserOffset' >= DbRows
<1> DEFINE k == IF disabled \/ size < 0 THEN 0 ELSE size
<1>1. /\ size \in Int /\ size >= -1 /\ offset + size <= DbRows
      /\ size = 0 /\ MaxThreadsCount > 0 => offset >= DbRows
      /\ size <= MaxThreadsCount
  BY QueryProperties
<1>2. k \in Nat /\ Len(q) \in Nat
  BY <1>1, EmptyIsLengthZero
<1>3. /\ QueueAfterQuery(q, offset, size) \in Seq(Row)
      /\ Len(QueueAfterQuery(q, offset, size)) = Len(q) + k
  <2>1. CASE disabled
    BY <2>1, <1>2 DEF QueueAfterQuery
  <2>2. CASE ~disabled
    <3>1. FetchedRows(offset, size) \in [1..k -> Row]
      BY <2>2, <1>1, CrawlAssumption DEF FetchedRows, Row
    <3>2. FetchedRows(offset, size) \in Seq(Row) /\ Len(FetchedRows(offset, size)) = k
      BY <3>1, <1>2, FunctionIsSeq
    <3>3. QueueAfterQuery(q, offset, size) = q \o FetchedRows(offset, size)
      BY <2>2 DEF QueueAfterQuery
    <3> QED
      BY <3>2, <3>3, ConcatProperties
  <2> QED
    BY <2>1, <2>2
<1>4. /\ parserOffset' \in Int /\ dbErrors' \in Nat
      /\ parserOffset' + dbErrors' = offset + dbErrors + k
      /\ parserOffset' <= DbRows /\ k <= MaxThreadsCount
      /\ disabled => k = 0 /\ dbErrors' = dbErrors
      /\ ~disabled /\ dbErrors' = 0 /\ k = 0 /\ MaxThreadsCount > 0
           => parserOffset' >= DbRows
  BY <1>1, CrawlAssumption DEF LoadDbData
<1> QED
  BY <1>2, <1>3, <1>4

-----------------------------------------------------------------------------
(***************************************************************************)
(* manage_parsers, entered with one slot just freed, re-establishes what    *)
(* the invariant says of the queues, counters and loaders.                 *)
(***************************************************************************)
LEMMA ManageParsersStep ==
  ASSUME IInv, phase = "crawling", phase' = phase, disabled' = disabled,
         NEW pls \in Seq(PageLoader), NEW lls \in Seq(LinkLoader),
         NEW w \in Int, NEW active \in Int,
         ManageParsers(w, active, pls, lls)
  PROVE  w = workers_count - 1 /\ w = Len(pls) + Len(lls) /\ active = Len(pls)
         =>
         /\ categoryPages' \in Seq(Row) /\ productLinks' \in Seq(LinkObject)
         /\ pageLoaders' \in Seq(PageLoader) /\ linkLoaders' \in Seq(LinkLoader)
         /\ parserOffset' \in Int /\ dbErrors' \in Nat
         /\ workers_count' \in Int /\ pageActiveLoaderCount' \in Int
         /\ stamped' \in BOOLEAN /\ sitedbOpen' \in BOOLEAN
         /\ suppressed' \in BOOLEAN
         /\ SlotAccounting' /\ WorkersBounded'
         /\ LinksWaitOnlyWhenFull' /\ PagesWaitOnlyWhenFull'
         /\ NeverStalled' /\ StampedMeansIdle'
         /\ Phases' /\ OffsetBounded' /\ StampedAfterLastRow'
         /\ RowsRead' + Len(categoryPages) + Len(pls)
              = RowsRead + Len(categoryPages') + Len(pageLoaders')
         /\ Len(productLinks') + Len(linkLoaders')
              = Len(productLinks) + Len(lls)
<1>0. HAVE w = workers_count - 1 /\ w = Len(pls) + Len(lls) /\ active = Len(pls)
<1>a. /\ Len(categoryPages) \in Nat /\ (categoryPages = <<>> <=> Len(categoryPages) = 0)
      /\ Len(productLinks) \in Nat /\ (productLinks = <<>> <=> Len(productLinks) = 0)
      /\ Len(pageLoaders) \in Nat /\ Len(linkLoaders) \in Nat
      /\ Len(pls) \in Nat /\ Len(lls) \in Nat
  BY EmptyIsLengthZero DEF IInv, TypeOK
<1>b. \A q \in Seq(Row) : q = <<>> <=> Len(q) = 0
  BY EmptyIsLengthZero
<1>c. \A q \in Seq(LinkObject) : q = <<>> <=> Len(q) = 0
  BY EmptyIsLengthZero
<1>d. w < MaxThreadsCount /\ MaxThreadsCount \in Nat /\ DbRows \in Nat
  BY <1>0, <1>a, CrawlAssumption DEF IInv, SlotAccounting, WorkersBounded, LiveLoaders
<1>e. LiveLoaders > 0
  BY <1>0, <1>a DEF IInv, SlotAccounting, TypeOK, LiveLoaders
<1>f. ~stamped
  BY <1>0, <1>a, <1>e DEF IInv, StampedMeansIdle, LiveLoaders
<1>g. sitedbOpen
  BY <1>f DEF IInv, Phases
<1>h. /\ disabled \in BOOLEAN /\ stamped \in BOOLEAN /\ suppressed \in BOOLEAN
      /\ categoryPages \in Seq(Row) /\ productLinks \in Seq(LinkObject)
      /\ pageLoaders \in Seq(PageLoader) /\ linkLoaders \in Seq(LinkLoader)
      /\ parserOffset \in Int /\ dbErrors \in Nat /\ workers_count \in Int
      /\ sitedbOpen \in BOOLEAN
  BY DEF IInv, TypeOK
<1>i. /\ LinksWaitOnlyWhenFull /\ PagesWaitOnlyWhenFull /\ OffsetBounded
      /\ NeverStalled
  BY DEF IInv
<1>1. CASE productLinks # <<>>
  <2>1. /\ DrainLinks(w, lls)
        /\ pageLoaders' = pls /\ pageActiveLoaderCount' = active
        /\ UNCHANGED <<categoryPages, parserOffset, stamped, sitedbOpen,
                       suppressed, dbErrors>>
    BY <1>1 DEF ManageParsers
  <2>2. PICK n \in 0..Len(productLinks) :
           /\ productLinks' \in Seq(LinkObject)
           /\ Len(productLinks') = Len(productLinks) - n
           /\ linkLoaders' \in Seq(LinkLoader)
           /\ Len(linkLoaders') = Len(lls) + n
           /\ workers_count' = w + n
           /\ w <= MaxThreadsCount => w + n <= MaxThreadsCount
           /\ n < Len(productLinks) => w + n >= MaxThreadsCount
    BY <2>1, <1>h, DrainLinksMoves
  <2>3. n > 0
    BY <1>0, <1>1, <1>a, <1>d, <2>2
  <2>4. LiveLoaders' = w + n
    BY <1>0, <1>a, <2>1, <2>2 DEF LiveLoaders
  <2>5. w + n = MaxThreadsCount
    \* One slot was free and links wait only when all others are taken.
    BY <1>0, <1>1, <1>d, <1>h, <1>i, <2>2, <2>3
       DEF LinksWaitOnlyWhenFull, IInv, SlotAccounting
  <2>6. SlotAccounting' /\ WorkersBounded' /\ LinksWaitOnlyWhenFull' /\ PagesWaitOnlyWhenFull'
    BY <1>0, <1>d, <2>1, <2>2, <2>4, <2>5
       DEF SlotAccounting, WorkersBounded, LinksWaitOnlyWhenFull, PagesWaitOnlyWhenFull
  <2>7. NeverStalled' /\ StampedMeansIdle' /\ Phases' /\ OffsetBounded' /\ StampedAfterLastRow'
    <3>1. NeverStalled'
      BY <1>0, <1>a, <2>2, <2>3, <2>4 DEF NeverStalled
    <3>2. ~stamped' /\ sitedbOpen'
      BY <1>f, <1>g, <2>1
    <3>3. OffsetBounded'
      BY <1>i, <2>1 DEF OffsetBounded
    <3> QED
      BY <3>1, <3>2, <3>3 DEF StampedMeansIdle, Phases, StampedAfterLastRow
  <2>8. /\ RowsRead' + Len(categoryPages) + Len(pls)
              = RowsRead + Len(categoryPages') + Len(pageLoaders')
        /\ Len(productLinks') + Len(linkLoaders') = Len(productLinks) + Len(lls)
    BY <1>a, <2>1, <2>2 DEF RowsRead
  <2>9. /\ categoryPages' \in Seq(Row) /\ productLinks' \in Seq(LinkObject)
        /\ pageLoaders' \in Seq(PageLoader) /\ linkLoaders' \in Seq(LinkLoader)
        /\ parserOffset' \in Int /\ dbErrors' \in Nat
        /\ workers_count' \in Int /\ pageActiveLoaderCount' \in Int
        /\ stamped' \in BOOLEAN /\ sitedbOpen' \in BOOLEAN
        /\ suppressed' \in BOOLEAN
    BY <1>h, <2>1, <2>2
  <2> QED
    BY <2>6, <2>7, <2>8, <2>9
<1>2. CASE productLinks = <<>> /\ categoryPages # <<>>
  <2>1. LoadPage(categoryPages, w, active, pls)
    BY <1>2 DEF ManageParsers
  <2>0. /\ linkLoaders' = lls
        /\ suppressed' = (suppressed \/ disabled)
        /\ UNCHANGED <<productLinks, parserOffset, stamped, sitedbOpen, dbErrors>>
    BY <1>2 DEF ManageParsers
  <2>2. PICK n \in 0..Len(categoryPages) :
           /\ categoryPages' \in Seq(Row)
           /\ Len(categoryPages') = Len(categoryPages) - n
           /\ pageLoaders' \in Seq(PageLoader)
           /\ Len(pageLoaders') = Len(pls) + n
           /\ workers_count' = w + n /\ pageActiveLoaderCount' = active + n
           /\ disabled => n = 0
           /\ w <= MaxThreadsCount => w + n <= MaxThreadsCount
           /\ ~disabled /\ n < Len(categoryPages) => w + n >= MaxThreadsCount
    BY <2>1, <1>h, LoadPageMoves
  <2>3. ~disabled => n > 0
    BY <1>0, <1>2, <1>a, <1>d, <2>2
  <2>4. LiveLoaders' = w + n
    BY <1>0, <1>a, <2>0, <2>2 DEF LiveLoaders
  <2>5. SlotAccounting' /\ WorkersBounded' /\ LinksWaitOnlyWhenFull'
    BY <1>0, <1>2, <1>d, <2>0, <2>2, <2>4
       DEF SlotAccounting, WorkersBounded, LinksWaitOnlyWhenFull
  <2>6. PagesWaitOnlyWhenFull'
    <3>1. CASE disabled
      BY <3>1, <2>0 DEF PagesWaitOnlyWhenFull
    <3>2. CASE ~disabled
      BY <3>2, <1>a, <1>b, <1>d, <2>2, <2>4 DEF PagesWaitOnlyWhenFull
    <3> QED
      BY <3>1, <3>2
  <2>7. NeverStalled'
    <3>1. CASE disabled
      BY <3>1, <2>0 DEF NeverStalled
    <3>2. CASE ~disabled
      BY <3>2, <1>0, <1>a, <2>2, <2>3, <2>4 DEF NeverStalled
    <3> QED
      BY <3>1, <3>2
  <2>8. StampedMeansIdle' /\ Phases' /\ OffsetBounded' /\ StampedAfterLastRow'
    BY <1>f, <1>g, <1>h, <1>i, <2>0
       DEF StampedMeansIdle, Phases, OffsetBounded, StampedAfterLastRow
  <2>9. /\ RowsRead' + Len(categoryPages) + Len(pls)
             = RowsRead + Len(categoryPages') + Len(pageLoaders')
        /\ Len(productLinks') + Len(linkLoaders') = Len(productLinks) + Len(lls)
    BY <1>a, <1>h, <2>0, <2>2 DEF RowsRead
  <2>10. /\ categoryPages' \in Seq(Row) /\ productLinks' \in Seq(LinkObject)
         /\ pageLoaders' \in Seq(PageLoader) /\ linkLoaders' \in Seq(LinkLoader)
         /\ parserOffset' \in Int /\ dbErrors' \in Nat
         /\ workers_count' \in Int /\ pageActiveLoaderCount' \in Int
         /\ stamped' \in BOOLEAN /\ sitedbOpen' \in BOOLEAN
         /\ suppressed' \in BOOLEAN
    BY <1>h, <2>0, <2>2
  <2> QED
    BY <2>5, <2>6, <2>7, <2>8, <2>9, <2>10
<1>3. CASE productLinks = <<>> /\ categoryPages = <<>>
  <2>1. PICK size \in QuerySizes(parserOffset) :
          /\ LoadDbData(parserOffset, size)
          /\ LoadPage(QueueAfterQuery(<<>>, parserOffset, size), w, active, pls)
    BY <1>3 DEF ManageParsers
  <2>0. linkLoaders' = lls /\ productLinks' = <<>>
    BY <1>3 DEF ManageParsers
  <2>2. /\ IF Complete(categoryPages', pageActiveLoaderCount', workers_count')
           THEN stamped' = TRUE /\ sitedbOpen' = FALSE
           ELSE UNCHANGED <<stamped, sitedbOpen>>
        /\ suppressed' = (suppressed \/ disabled)
    BY <1>3 DEF ManageParsers
  <2>3. PICK k \in Nat :
           LET q == QueueAfterQuery(<<>>, parserOffset, size)
           IN  /\ q \in Seq(Row)
               /\ Len(q) = Len(<<>>) + k
               /\ parserOffset' \in Int /\ dbErrors' \in Nat
               /\ parserOffset' + dbErrors' = parserOffset + dbErrors + k
               /\ parserOffset' <= DbRows
               /\ k <= MaxThreadsCount
               /\ disabled => k = 0 /\ dbErrors' = dbErrors
               /\ ~disabled /\ dbErrors' = 0 /\ k = 0 /\ MaxThreadsCount > 0
                  => parserOffset' >= DbRows
    <3>1. <<>> \in Seq(Row)
      OBVIOUS
    <3> QED
      BY <2>1, <3>1, LoadDbDataAdds DEF IInv, TypeOK, OffsetBounded
  <2> DEFINE q == QueueAfterQuery(<<>>, parserOffset, size)
  <2>4. q \in Seq(Row) /\ Len(q) = k
    BY <2>3
  <2>5. PICK n \in 0..Len(q) :
           /\ categoryPages' \in Seq(Row)
           /\ Len(categoryPages') = Len(q) - n
           /\ pageLoaders' \in Seq(PageLoader)
           /\ Len(pageLoaders') = Len(pls) + n
           /\ workers_count' = w + n /\ pageActiveLoaderCount' = active + n
           /\ disabled => n = 0
           /\ w <= MaxThreadsCount => w + n <= MaxThreadsCount
           /\ ~disabled /\ n < Len(q) => w + n >= MaxThreadsCount
    BY <2>1, <2>4, <1>h, LoadPageMoves
  <2> HIDE DEF q
  <2>6. /\ categoryPages' = <<>> <=> Len(categoryPages') = 0
        /\ Len(categoryPages') = k - n
        /\ ~disabled /\ k > 0 => n > 0
        /\ Len(categoryPages') \in Nat
    BY <1>b, <1>d, <2>4, <2>5
  <2>7. LiveLoaders' = w + n /\ w + n \in Nat /\ active + n \in Nat
    <3>1. Len(linkLoaders') = Len(lls) /\ Len(pageLoaders') = Len(pls) + n
      BY <2>0, <2>5
    <3>2. n \in Nat /\ Len(categoryPages') = k - n /\ Len(q) = k
      BY <2>4, <2>5, <2>6
    <3>3. w + n = Len(pls) + n + Len(lls) /\ active + n = Len(pls) + n
      BY <1>0, <1>a, <3>2
    <3> QED
      BY <1>0, <1>a, <3>1, <3>2, <3>3 DEF LiveLoaders
  <2>8. \/ /\ stamped' = TRUE /\ sitedbOpen' = FALSE
           /\ categoryPages' = <<>> /\ w + n = 0
           /\ k = 0 \/ disabled
        \/ /\ stamped' = FALSE /\ sitedbOpen' = TRUE
           /\ Len(categoryPages') > 0 \/ w + n > 0
    <3>1. CASE Complete(categoryPages', pageActiveLoaderCount', workers_count')
      <4>1. stamped' = TRUE /\ sitedbOpen' = FALSE
        BY <3>1, <2>2
      <4>2. categoryPages' = <<>> /\ w + n = 0 /\ n = k
        BY <3>1, <2>4, <2>5, <2>6, <2>7 DEF Complete
      <4>3. k = 0 \/ disabled
        BY <4>2, <2>6, <2>7, <1>0, <1>a
      <4> QED
        BY <4>1, <4>2, <4>3
    <3>2. CASE ~Complete(categoryPages', pageActiveLoaderCount', workers_count')
      <4>1. stamped' = FALSE /\ sitedbOpen' = TRUE
        BY <3>2, <1>f, <1>g, <1>h, <2>2
      <4>2. active + n <= w + n
        BY <1>0, <1>a, <2>5
      <4>3. Len(categoryPages') > 0 \/ w + n > 0
        BY <3>2, <4>2, <2>5, <2>6, <2>7 DEF Complete
      <4> QED
        BY <4>1, <4>3
    <3> QED
      BY <3>1, <3>2
  <2>9. SlotAccounting' /\ WorkersBounded' /\ LinksWaitOnlyWhenFull'
    BY <1>0, <1>d, <2>0, <2>5, <2>7
       DEF SlotAccounting, WorkersBounded, LinksWaitOnlyWhenFull
  <2>10. PagesWaitOnlyWhenFull' /\ NeverStalled'
    <3>1. CASE disabled
      BY <3>1, <2>2 DEF PagesWaitOnlyWhenFull, NeverStalled
    <3>2. CASE ~disabled
      <4>1. PagesWaitOnlyWhenFull'
        BY <3>2, <1>d, <2>4, <2>5, <2>6, <2>7 DEF PagesWaitOnlyWhenFull
      <4>2. stamped' \/ w + n > 0
        BY <3>2, <1>0, <1>a, <2>4, <2>5, <2>6, <2>8
      <4> QED
        BY <4>1, <4>2, <2>7 DEF NeverStalled
    <3> QED
      BY <3>1, <3>2
  <2>11. StampedMeansIdle' /\ Phases' /\ OffsetBounded'
    BY <2>0, <2>3, <2>7, <2>8 DEF StampedMeansIdle, Phases, OffsetBounded
  <2>12. StampedAfterLastRow'
    <3>1. CASE disabled
      BY <3>1, <2>2 DEF StampedAfterLastRow
    <3>2. CASE ~disabled
      BY <3>2, <1>0, <1>a, <1>d, <2>3, <2>8 DEF StampedAfterLastRow
    <3> QED
      BY <3>1, <3>2
  <2>13. /\ RowsRead' + Len(categoryPages) + Len(pls)
              = RowsRead + Len(categoryPages') + Len(pageLoaders')
         /\ Len(productLinks') + Len(linkLoaders') = Len(productLinks) + Len(lls)
    <3>1. Len(categoryPages) = 0
      BY <1>3, <1>a
    <3>a. parserOffset' + dbErrors' = parserOffset + dbErrors + k
      BY <2>3
    <3>2. RowsRead' = RowsRead + k /\ RowsRead \in Int
      BY <1>h, <3>a DEF RowsRead
    <3>3. Len(categoryPages') = k - n /\ Len(pageLoaders') = Len(pls) + n
      BY <2>5, <2>6
    <3>4. productLinks' = productLinks
      BY <1>3, <2>0
    <3> QED
      BY <1>a, <2>0, <3>1, <3>2, <3>3, <3>4
  <2>14. /\ categoryPages' \in Seq(Row) /\ productLinks' \in Seq(LinkObject)
         /\ pageLoaders' \in Seq(PageLoader) /\ linkLoaders' \in Seq(LinkLoader)
         /\ parserOffset' \in Int /\ dbErrors' \in Nat
         /\ workers_count' \in Int /\ pageActiveLoaderCount' \in Int
         /\ stamped' \in BOOLEAN /\ sitedbOpen' \in BOOLEAN
         /\ suppressed' \in BOOLEAN
    <3>1. linkLoaders' \in Seq(LinkLoader) /\ productLinks' \in Seq(LinkObject)
      BY <1>3, <1>h, <2>0
    <3>2. stamped' \in BOOLEAN /\ sitedbOpen' \in BOOLEAN
      BY <2>8
    <3>3. suppressed' \in BOOLEAN
      BY <1>h, <2>2
    <3>4. workers_count' \in Int /\ pageActiveLoaderCount' \in Int
      BY <2>5
    <3> QED
      BY <3>1, <3>2, <3>3, <3>4, <2>3, <2>5
  <2> QED
    BY <2>9, <2>10, <2>11, <2>12, <2>13, <2>14
<1> QED
  BY <1>1, <1>2, <1>3

-----------------------------------------------------------------------------
(***************************************************************************)
(* Every action preserves the invariant.                                   *)
(***************************************************************************)
LEMMA InitIInv == Init => IInv
<1> SUFFICES ASSUME Init PROVE IInv
  OBVIOUS
<1>1. TypeOK
  <2>1. \A S : <<>> \in Seq(S)
    BY EmptySeq
  <2>2. /\ categoryPages \in Seq(Row) /\ productLinks \in Seq(LinkObject)
        /\ pageLoaders \in Seq(PageLoader) /\ linkLoaders \in Seq(LinkLoader)
    BY <2>1 DEF Init
  <2>3. /\ disabled \in BOOLEAN /\ sitedbOpen \in BOOLEAN
        /\ stamped \in BOOLEAN /\ suppressed \in BOOLEAN
    BY DEF Init
  <2> QED
    BY <2>2, <2>3 DEF Init, TypeOK
<1>2. LiveLoaders = 0 /\ RowsRead = 0 /\ Len(pageLoaders) = 0
  BY DEF Init, LiveLoaders, RowsRead
<1>3. SlotAccounting /\ WorkersBounded /\ LinksWaitOnlyWhenFull /\ PagesWaitOnlyWhenFull
  BY <1>2, CrawlAssumption
     DEF Init, SlotAccounting, WorkersBounded, LinksWaitOnlyWhenFull, PagesWaitOnlyWhenFull
<1>4. RowsConserved /\ LinksConserved
  BY <1>2 DEF Init, RowsConserved, LinksConserved
<1>5. NeverStalled /\ StampedMeansIdle /\ Phases /\ StampedAfterLastRow
  BY <1>2 DEF Init, NeverStalled, StampedMeansIdle, Phases, StampedAfterLastRow
<1>6. OffsetBounded
  BY CrawlAssumption DEF Init, OffsetBounded
<1> QED
  BY <1>1, <1>3, <1>4, <1>5, <1>6 DEF IInv

\* Loaders exist only while the crawl is on and not stamped.
LEMMA WorkMeansCrawling ==
  ASSUME IInv, LiveLoaders > 0
  PROVE  phase = "crawling" /\ ~stamped
BY DEF IInv, Phases, StampedMeansIdle

LEMMA NoNextPageStep ==
  ASSUME IInv, NEW i \in DOMAIN pageLoaders, NoNextPage(i)
  PROVE  IInv'
<1>0. PICK pls : pls \in Seq(PageLoader) /\ pls = RemoveAt(pageLoaders, i)
  BY RemoveAtProperties DEF IInv, TypeOK
<1>1. /\ Len(pls) = Len(pageLoaders) - 1 /\ Len(pls) \in Nat
      /\ Len(pageLoaders) \in Nat /\ Len(linkLoaders) \in Nat
  BY <1>0, RemoveAtProperties, EmptyIsLengthZero DEF IInv, TypeOK
<1>2. phase = "crawling"
  BY <1>1, WorkMeansCrawling DEF LiveLoaders
<1>3. /\ rowsDone' = rowsDone + 1
      /\ ManageParsers(workers_count - 1, pageActiveLoaderCount - 1,
                       pls, linkLoaders)
      /\ UNCHANGED <<disabled, phase, linksFound, productsDone>>
  BY <1>0 DEF NoNextPage
<1>4. PICK w, active, lls :
        /\ w \in Int /\ active \in Int /\ lls \in Seq(LinkLoader)
        /\ w = workers_count - 1 /\ active = pageActiveLoaderCount - 1
        /\ lls = linkLoaders
  BY <1>1 DEF IInv, TypeOK
<1>5. ManageParsers(w, active, pls, lls)
  BY <1>3, <1>4
<1>6. w = workers_count - 1 /\ w = Len(pls) + Len(lls) /\ active = Len(pls)
  BY <1>1, <1>4 DEF IInv, TypeOK, SlotAccounting, LiveLoaders
<1>7. phase' = phase /\ disabled' = disabled
  BY <1>3
<1>8. /\ categoryPages' \in Seq(Row) /\ productLinks' \in Seq(LinkObject)
      /\ pageLoaders' \in Seq(PageLoader) /\ linkLoaders' \in Seq(LinkLoader)
      /\ parserOffset' \in Int /\ dbErrors' \in Nat
      /\ workers_count' \in Int /\ pageActiveLoaderCount' \in Int
      /\ stamped' \in BOOLEAN /\ sitedbOpen' \in BOOLEAN
      /\ suppressed' \in BOOLEAN
      /\ SlotAccounting' /\ WorkersBounded'
      /\ LinksWaitOnlyWhenFull' /\ PagesWaitOnlyWhenFull'
      /\ NeverStalled' /\ StampedMeansIdle'
      /\ Phases' /\ OffsetBounded' /\ StampedAfterLastRow'
      /\ RowsRead' + Len(categoryPages) + Len(pls)
           = RowsRead + Len(categoryPages') + Len(pageLoaders')
      /\ Len(productLinks') + Len(linkLoaders') = Len(productLinks) + Len(lls)
  BY <1>0, <1>1, <1>2, <1>4, <1>5, <1>6, <1>7, ManageParsersStep
<1>9. TypeOK'
  BY <1>3, <1>7, <1>8 DEF IInv, TypeOK
<1>10. /\ Len(categoryPages) \in Nat /\ Len(categoryPages') \in Nat
       /\ Len(productLinks) \in Nat /\ Len(productLinks') \in Nat
       /\ Len(pageLoaders') \in Nat /\ Len(linkLoaders') \in Nat
  BY <1>8, EmptyIsLengthZero DEF IInv, TypeOK
<1>11. /\ RowsRead' \in Int /\ RowsRead \in Int
       /\ rowsDone \in Nat /\ productsDone \in Nat /\ linksFound \in Nat
  BY <1>8 DEF IInv, TypeOK, RowsRead
<1>12. RowsConserved'
  <2>1. RowsRead = Len(categoryPages) + Len(pageLoaders) + rowsDone
    BY DEF IInv, RowsConserved
  <2>2. RowsRead' + Len(categoryPages) + Len(pls)
          = RowsRead + Len(categoryPages') + Len(pageLoaders')
    BY <1>8
  <2>3. rowsDone' = rowsDone + 1 /\ Len(pls) = Len(pageLoaders) - 1
    BY <1>1, <1>3
  <2> QED
    <3>1. /\ Len(pls) \in Nat /\ Len(pageLoaders) \in Nat
          /\ Len(categoryPages) \in Nat /\ Len(categoryPages') \in Nat
          /\ Len(pageLoaders') \in Nat
      BY <1>1, <1>10
    <3>2. RowsRead' \in Int /\ RowsRead \in Int /\ rowsDone \in Nat
      BY <1>11
    <3> QED
      BY <2>1, <2>2, <2>3, <3>1, <3>2 DEF RowsConserved
<1>13. LinksConserved'
  <2>1. linksFound = Len(productLinks) + Len(linkLoaders) + productsDone
    BY DEF IInv, LinksConserved
  <2>2. Len(productLinks') + Len(linkLoaders') = Len(productLinks) + Len(lls)
    BY <1>8
  <2>3. linksFound' = linksFound /\ productsDone' = productsDone /\ Len(lls) = Len(linkLoaders)
    BY <1>3, <1>4
  <2> QED
    BY <1>1, <1>10, <1>11, <2>1, <2>2, <2>3 DEF LinksConserved
<1> QED
  BY <1>8, <1>9, <1>12, <1>13 DEF IInv

LEMMA ProductEndStep ==
  ASSUME IInv, NEW i \in DOMAIN linkLoaders, ProductEnd(i)
  PROVE  IInv'
<1>0. PICK lls : lls \in Seq(LinkLoader) /\ lls = RemoveAt(linkLoaders, i)
  BY RemoveAtProperties DEF IInv, TypeOK
<1>1. /\ Len(lls) = Len(linkLoaders) - 1 /\ Len(lls) \in Nat
      /\ Len(pageLoaders) \in Nat /\ Len(linkLoaders) \in Nat
  BY <1>0, RemoveAtProperties, EmptyIsLengthZero DEF IInv, TypeOK
<1>2. phase = "crawling"
  BY <1>1, WorkMeansCrawling DEF LiveLoaders
<1>3. /\ productsDone' = productsDone + 1
      /\ ManageParsers(workers_count - 1, pageActiveLoaderCount,
                       pageLoaders, lls)
      /\ UNCHANGED <<disabled, phase, rowsDone, linksFound>>
  BY <1>0 DEF ProductEnd
<1>4. PICK w, active, pls :
        /\ w \in Int /\ active \in Int /\ pls \in Seq(PageLoader)
        /\ w = workers_count - 1 /\ active = pageActiveLoaderCount
        /\ pls = pageLoaders
  BY <1>1 DEF IInv, TypeOK
<1>5. ManageParsers(w, active, pls, lls)
  BY <1>3, <1>4
<1>6. w = workers_count - 1 /\ w = Len(pls) + Len(lls) /\ active = Len(pls)
  BY <1>1, <1>4 DEF IInv, TypeOK, SlotAccounting, LiveLoaders
<1>7. phase' = phase /\ disabled' = disabled
  BY <1>3
<1>8. /\ categoryPages' \in Seq(Row) /\ productLinks' \in Seq(LinkObject)
      /\ pageLoaders' \in Seq(PageLoader) /\ linkLoaders' \in Seq(LinkLoader)
      /\ parserOffset' \in Int /\ dbErrors' \in Nat
      /\ workers_count' \in Int /\ pageActiveLoaderCount' \in Int
      /\ stamped' \in BOOLEAN /\ sitedbOpen' \in BOOLEAN
      /\ suppressed' \in BOOLEAN
      /\ SlotAccounting' /\ WorkersBounded'
      /\ LinksWaitOnlyWhenFull' /\ PagesWaitOnlyWhenFull'
      /\ NeverStalled' /\ StampedMeansIdle'
      /\ Phases' /\ OffsetBounded' /\ StampedAfterLastRow'
      /\ RowsRead' + Len(categoryPages) + Len(pls)
           = RowsRead + Len(categoryPages') + Len(pageLoaders')
      /\ Len(productLinks') + Len(linkLoaders') = Len(productLinks) + Len(lls)
  BY <1>0, <1>1, <1>2, <1>4, <1>5, <1>6, <1>7, ManageParsersStep
<1>9. TypeOK'
  BY <1>3, <1>7, <1>8 DEF IInv, TypeOK
<1>10. /\ Len(categoryPages) \in Nat /\ Len(categoryPages') \in Nat
       /\ Len(productLinks) \in Nat /\ Len(productLinks') \in Nat
       /\ Len(pageLoaders') \in Nat /\ Len(linkLoaders') \in Nat
  BY <1>8, EmptyIsLengthZero DEF IInv, TypeOK
<1>11. /\ RowsRead' \in Int /\ RowsRead \in Int
       /\ rowsDone \in Nat /\ productsDone \in Nat /\ linksFound \in Nat
  BY <1>8 DEF IInv, TypeOK, RowsRead
<1>12. RowsConserved'
  <2>1. RowsRead = Len(categoryPages) + Len(pageLoaders) + rowsDone
    BY DEF IInv, RowsConserved
  <2>2. RowsRead' + Len(categoryPages) + Len(pls)
          = RowsRead + Len(categoryPages') + Len(pageLoaders')
    BY <1>8
  <2>3. rowsDone' = rowsDone /\ Len(pls) = Len(pageLoaders)
    BY <1>3, <1>4
  <2> QED
    <3>1. /\ Len(pls) \in Nat /\ Len(pageLoaders) \in Nat
          /\ Len(categoryPages) \in Nat /\ Len(categoryPages') \in Nat
          /\ Len(pageLoaders') \in Nat
      BY <1>1, <1>10
    <3>2. RowsRead' \in Int /\ RowsRead \in Int /\ rowsDone \in Nat
      BY <1>11
    <3> QED
      BY <2>1, <2>2, <2>3, <3>1, <3>2 DEF RowsConserved
<1>13. LinksConserved'
  <2>1. linksFound = Len(productLinks) + Len(linkLoaders) + productsDone
    BY DEF IInv, LinksConserved
  <2>2. Len(productLinks') + Len(linkLoaders') = Len(productLinks) + Len(lls)
    BY <1>8
  <2>3. /\ linksFound' = linksFound /\ productsDone' = productsDone + 1
        /\ Len(lls) = Len(linkLoaders) - 1
    BY <1>1, <1>3
  <2> QED
    BY <1>1, <1>10, <1>11, <2>1, <2>2, <2>3 DEF LinksConserved
<1> QED
  BY <1>8, <1>9, <1>12, <1>13 DEF IInv

LEMMA GetedLinkStep ==
  ASSUME IInv, NEW i \in DOMAIN pageLoaders, NEW n \in 0..MaxLinks, GetedLink(i, n)
  PROVE  IInv'
<1> DEFINE row == pageLoaders[i].row
           found == LinksOf(row, n)
           start == Started(n, workers_count)
<1>1. /\ pageLoaders' = [pageLoaders EXCEPT ![i].stage = "linked"]
      /\ workers_count' = workers_count + start
      /\ linkLoaders' = linkLoaders \o OpenLinks(found, start)
      /\ productLinks' = productLinks \o Rest(found, start)
      /\ linksFound' = linksFound + n
  BY DEF GetedLink
<1>2. UNCHANGED <<disabled, phase, sitedbOpen, parserOffset,
                 pageActiveLoaderCount, categoryPages, stamped,
                 suppressed, dbErrors, rowsDone, productsDone>>
  BY DEF GetedLink
<1>3. /\ Len(pageLoaders) \in Nat /\ Len(linkLoaders) \in Nat
      /\ Len(productLinks) \in Nat /\ Len(pageLoaders) > 0
      /\ i \in 1..Len(pageLoaders) /\ n \in Nat
      /\ (productLinks = <<>> <=> Len(productLinks) = 0)
  BY EmptyIsLengthZero, CrawlAssumption DEF IInv, TypeOK
<1>4. pageLoaders[i] \in PageLoader
  BY <1>3, ElementOfSeq DEF IInv, TypeOK
<1>5. row \in Row
  BY <1>4 DEF PageLoader
<1>6. found \in Seq(LinkObject) /\ Len(found) = n
  BY <1>5, LinksOfProperties
<1> HIDE DEF row, found
<1>7. /\ start \in 0..n
      /\ workers_count <= MaxThreadsCount => workers_count + start <= MaxThreadsCount
      /\ start < n => workers_count + start >= MaxThreadsCount
  BY <1>3, StartedBounds, CrawlAssumption DEF IInv, TypeOK
<1> HIDE DEF start
<1>8. /\ linkLoaders' \in Seq(LinkLoader)
      /\ Len(linkLoaders') = Len(linkLoaders) + start
  <2>1. OpenLinks(found, start) \in Seq(LinkLoader) /\ Len(OpenLinks(found, start)) = start
    BY <1>6, <1>7, OpenLinksProperties
  <2> QED
    BY <1>1, <2>1, ConcatProperties DEF IInv, TypeOK
<1>9. /\ productLinks' \in Seq(LinkObject)
      /\ Len(productLinks') + start = Len(productLinks) + n
  <2>1. Rest(found, start) \in Seq(LinkObject) /\ Len(Rest(found, start)) = n - start
    BY <1>6, <1>7, RestProperties
  <2>2. /\ productLinks' \in Seq(LinkObject)
        /\ Len(productLinks') = Len(productLinks) + (n - start)
    BY <1>1, <2>1, ConcatProperties DEF IInv, TypeOK
  <2> QED
    BY <1>3, <1>7, <2>2
<1>10. pageLoaders' \in Seq(PageLoader) /\ Len(pageLoaders') = Len(pageLoaders)
  <2>1. [pageLoaders[i] EXCEPT !.stage = "linked"] \in PageLoader
    BY <1>4 DEF PageLoader
  <2> QED
    BY <1>1, <1>3, <2>1, ExceptSeq DEF IInv, TypeOK
<1>11. TypeOK'
  <2>1. workers_count' \in Int /\ linksFound' \in Nat
    <3>1. workers_count \in Int /\ linksFound \in Nat
      BY DEF IInv, TypeOK
    <3> QED
      BY <1>1, <1>3, <1>7, <3>1
  <2>2. TypeOK
    BY DEF IInv
  <2> QED
    BY <1>2, <1>8, <1>9, <1>10, <2>1, <2>2 DEF TypeOK
<1>12. LiveLoaders' = LiveLoaders + start /\ LiveLoaders \in Nat /\ LiveLoaders > 0
  BY <1>3, <1>7, <1>8, <1>10 DEF LiveLoaders
<1>13. phase = "crawling" /\ ~stamped /\ workers_count = LiveLoaders
  BY <1>12, WorkMeansCrawling DEF IInv, SlotAccounting
<1>14. LiveLoaders <= MaxThreadsCount /\ MaxThreadsCount \in Nat
  BY CrawlAssumption DEF IInv, WorkersBounded
<1>15. SlotAccounting' /\ WorkersBounded'
  BY <1>1, <1>2, <1>7, <1>10, <1>12, <1>13, <1>14 DEF IInv, SlotAccounting, WorkersBounded
<1>16. LinksWaitOnlyWhenFull'
  <2>1. CASE start < n
    BY <2>1, <1>7, <1>12, <1>13, <1>14 DEF LinksWaitOnlyWhenFull
  <2>2. CASE start = n
    <3>1. CASE productLinks # <<>>
      BY <3>1, <1>7, <1>12, <1>13, <1>14 DEF LinksWaitOnlyWhenFull, IInv
    <3>2. CASE productLinks = <<>>
      BY <3>2, <2>2, <1>3, <1>9, EmptyIsLengthZero DEF LinksWaitOnlyWhenFull
    <3> QED
      BY <3>1, <3>2
  <2> QED
    BY <2>1, <2>2, <1>7
<1>17. PagesWaitOnlyWhenFull'
  BY <1>2, <1>7, <1>12, <1>13, <1>14 DEF PagesWaitOnlyWhenFull, IInv
<1>18. RowsConserved'
  BY <1>2, <1>10 DEF RowsConserved, IInv, RowsRead
<1>19. LinksConserved'
  <2>1. linksFound = Len(productLinks) + Len(linkLoaders) + productsDone
        /\ productsDone \in Nat
    BY DEF IInv, LinksConserved, TypeOK
  <2> QED
    <3>1. Len(linkLoaders') \in Nat /\ Len(productLinks') \in Nat
      BY <1>8, <1>9, EmptyIsLengthZero
    <3>2. linksFound' = linksFound + n /\ productsDone' = productsDone
      BY <1>1, <1>2
    <3>3. linksFound' = Len(productLinks') + Len(linkLoaders') + productsDone'
      <4>1. Len(linkLoaders) \in Nat /\ Len(productLinks) \in Nat
        BY <1>3
      <4>2. start \in Nat /\ n \in Nat
        BY <1>3, <1>7
      <4>3. /\ Len(linkLoaders') = Len(linkLoaders) + start
            /\ Len(productLinks') + start = Len(productLinks) + n
        BY <1>8, <1>9
      <4> QED
        BY <2>1, <3>1, <3>2, <4>1, <4>2, <4>3
    <3> QED
      BY <3>3 DEF LinksConserved
<1>20. NeverStalled' /\ StampedMeansIdle' /\ StampedAfterLastRow'
  BY <1>2, <1>7, <1>12, <1>13 DEF NeverStalled, StampedMeansIdle, StampedAfterLastRow
<1>21. Phases' /\ OffsetBounded'
  BY <1>2, <1>13 DEF Phases, OffsetBounded, IInv
<1> QED
  BY <1>11, <1>15, <1>16, <1>17, <1>18, <1>19, <1>20, <1>21 DEF IInv

LEMMA NextPageStep ==
  ASSUME IInv, NEW i \in DOMAIN pageLoaders, NextPage(i)
  PROVE  IInv'
<1>0. PICK pls, q, w, active :
        /\ pls = RemoveAt(pageLoaders, i)
        /\ q = <<[pageLoaders[i].row EXCEPT !.page = @ + 1]>> \o categoryPages
        /\ w = workers_count - 1 /\ active = pageActiveLoaderCount - 1
  OBVIOUS
<1>1. /\ pageLoaders[i].row.page < LastPage
      /\ \/ /\ productLinks # <<>>
            /\ DrainLinks(w, linkLoaders)
            /\ categoryPages' = q
            /\ pageLoaders' = pls
            /\ pageActiveLoaderCount' = active
            /\ UNCHANGED suppressed
         \/ /\ productLinks = <<>>
            /\ LoadPage(q, w, active, pls)
            /\ suppressed' = (suppressed \/ disabled)
            /\ UNCHANGED <<productLinks, linkLoaders>>
  BY <1>0 DEF NextPage
<1>2. UNCHANGED <<disabled, phase, sitedbOpen, parserOffset, stamped,
                 dbErrors, rowsDone, linksFound, productsDone>>
  BY DEF NextPage
<1>3. /\ disabled \in BOOLEAN /\ stamped \in BOOLEAN /\ suppressed \in BOOLEAN
      /\ categoryPages \in Seq(Row) /\ productLinks \in Seq(LinkObject)
      /\ pageLoaders \in Seq(PageLoader) /\ linkLoaders \in Seq(LinkLoader)
      /\ workers_count \in Int /\ pageActiveLoaderCount \in Int
  BY DEF IInv, TypeOK
<1>4. /\ Len(pageLoaders) \in Nat /\ Len(linkLoaders) \in Nat
      /\ Len(productLinks) \in Nat /\ Len(categoryPages) \in Nat
      /\ (productLinks = <<>> <=> Len(productLinks) = 0)
      /\ i \in 1..Len(pageLoaders) /\ Len(pageLoaders) > 0
  BY <1>3, EmptyIsLengthZero
<1>5. pls \in Seq(PageLoader) /\ Len(pls) = Len(pageLoaders) - 1 /\ Len(pls) \in Nat
  BY <1>0, <1>3, <1>4, RemoveAtProperties
<1>6. q \in Seq(Row) /\ Len(q) = Len(categoryPages) + 1
  <2>1. pageLoaders[i].row \in Row
    <3>1. pageLoaders[i] \in PageLoader
      BY <1>3, <1>4, ElementOfSeq
    <3> QED
      BY <3>1 DEF PageLoader
  <2>2. [pageLoaders[i].row EXCEPT !.page = @ + 1] \in Row
    BY <1>1, <2>1, CrawlAssumption DEF Row
  <2>3. \A r \in Row : <<r>> \in Seq(Row) /\ Len(<<r>>) = 1
    OBVIOUS
  <2> QED
    BY <1>0, <1>3, <1>4, <2>2, <2>3, ConcatProperties
<1>7. /\ w \in Int /\ active \in Int
      /\ w = Len(pls) + Len(linkLoaders) /\ active = Len(pls)
      /\ LiveLoaders = Len(pageLoaders) + Len(linkLoaders) /\ LiveLoaders > 0
      /\ w = LiveLoaders - 1
  BY <1>0, <1>3, <1>4, <1>5 DEF IInv, SlotAccounting, LiveLoaders
<1>8. w < MaxThreadsCount /\ MaxThreadsCount \in Nat
  BY <1>4, <1>7, CrawlAssumption DEF IInv, WorkersBounded
<1>9. phase = "crawling" /\ ~stamped /\ sitedbOpen
  BY <1>7, WorkMeansCrawling DEF IInv, Phases
<1>10. Phases' /\ OffsetBounded' /\ StampedMeansIdle' /\ StampedAfterLastRow'
  BY <1>2, <1>9 DEF IInv, Phases, OffsetBounded, StampedMeansIdle, StampedAfterLastRow
<1>11. CASE productLinks # <<>>
  <2>0. suppressed' = suppressed
    BY <1>1, <1>11
  <2>1. /\ categoryPages' = q /\ pageLoaders' = pls
        /\ pageActiveLoaderCount' = active
    BY <1>1, <1>11
  <2>2. PICK n \in 0..Len(productLinks) :
           /\ productLinks' \in Seq(LinkObject)
           /\ Len(productLinks') = Len(productLinks) - n
           /\ linkLoaders' \in Seq(LinkLoader)
           /\ Len(linkLoaders') = Len(linkLoaders) + n
           /\ workers_count' = w + n
           /\ w <= MaxThreadsCount => w + n <= MaxThreadsCount
           /\ n < Len(productLinks) => w + n >= MaxThreadsCount
    BY <1>1, <1>3, <1>7, <1>11, DrainLinksMoves
  <2>3. LiveLoaders' = w + n /\ n > 0
    <3>1. w = Len(pls) + Len(linkLoaders) /\ Len(linkLoaders) \in Nat /\ Len(pls) \in Nat
      BY <1>4, <1>5, <1>7
    <3>2. Len(pageLoaders') = Len(pls) /\ Len(linkLoaders') = Len(linkLoaders) + n
      BY <2>1, <2>2
    <3>3. n > 0
      BY <1>4, <1>7, <1>8, <1>11, <2>2
    <3> QED
      BY <3>1, <3>2, <3>3 DEF LiveLoaders
  <2>4. w + n = MaxThreadsCount
    BY <1>7, <1>8, <1>11, <2>2, <2>3 DEF IInv, LinksWaitOnlyWhenFull
  <2>10. /\ categoryPages' \in Seq(Row) /\ productLinks' \in Seq(LinkObject)
         /\ pageLoaders' \in Seq(PageLoader) /\ linkLoaders' \in Seq(LinkLoader)
         /\ workers_count' \in Int /\ pageActiveLoaderCount' \in Int
         /\ suppressed' \in BOOLEAN
    BY <1>3, <1>5, <1>6, <1>7, <2>0, <2>1, <2>2
  <2>5. SlotAccounting' /\ WorkersBounded'
    <3>1. /\ workers_count' = w + n /\ w + n <= MaxThreadsCount
          /\ pageActiveLoaderCount' = Len(pageLoaders')
      <4>1. pageActiveLoaderCount' = Len(pageLoaders')
        BY <1>7, <2>1
      <4> QED
        BY <2>2, <2>4, <4>1, <1>8
    <3> QED
      BY <2>3, <3>1 DEF SlotAccounting, WorkersBounded
  <2>6. LinksWaitOnlyWhenFull' /\ PagesWaitOnlyWhenFull'
    BY <2>3, <2>4 DEF LinksWaitOnlyWhenFull, PagesWaitOnlyWhenFull
  <2>7. NeverStalled'
    BY <1>4, <1>5, <1>7, <2>2, <2>3 DEF NeverStalled
  <2>8. RowsConserved'
    <3>1. /\ RowsRead' = RowsRead /\ rowsDone' = rowsDone
          /\ RowsRead = Len(categoryPages) + Len(pageLoaders) + rowsDone
          /\ rowsDone \in Nat
      BY <1>2 DEF IInv, TypeOK, RowsConserved, RowsRead
    <3>2. Len(categoryPages') + Len(pageLoaders') = Len(categoryPages) + Len(pageLoaders)
      <4>1. /\ Len(categoryPages') = Len(categoryPages) + 1
            /\ Len(pageLoaders') = Len(pageLoaders) - 1
        BY <1>5, <1>6, <2>1
      <4> QED
        BY <1>4, <4>1
    <3>3. Len(categoryPages') \in Nat /\ Len(pageLoaders') \in Nat
      BY <2>10, EmptyIsLengthZero
    <3> QED
      BY <1>4, <3>1, <3>2, <3>3 DEF RowsConserved
  <2>9. LinksConserved'
    <3>1. /\ linksFound' = linksFound /\ productsDone' = productsDone
          /\ linksFound = Len(productLinks) + Len(linkLoaders) + productsDone
          /\ productsDone \in Nat
      BY <1>2 DEF IInv, TypeOK, LinksConserved
    <3>2. Len(productLinks') + Len(linkLoaders') = Len(productLinks) + Len(linkLoaders)
      BY <1>4, <2>1, <2>2
    <3>3. Len(productLinks') \in Nat /\ Len(linkLoaders') \in Nat
      BY <2>10, EmptyIsLengthZero
    <3> QED
      BY <1>4, <3>1, <3>2, <3>3 DEF LinksConserved
  <2>11. TypeOK'
    <3>1. TypeOK
      BY DEF IInv
    <3> QED
      BY <1>2, <2>10, <3>1 DEF TypeOK
  <2> QED
    BY <1>10, <2>5, <2>6, <2>7, <2>8, <2>9, <2>11 DEF IInv
<1>12. CASE productLinks = <<>>
  <2>0. suppressed' = (suppressed \/ disabled)
    BY <1>1, <1>12
  <2>1. productLinks' = productLinks /\ linkLoaders' = linkLoaders
    BY <1>1, <1>12
  <2>2. PICK n \in 0..Len(q) :
           /\ categoryPages' \in Seq(Row) /\ Len(categoryPages') = Len(q) - n
           /\ pageLoaders' \in Seq(PageLoader)
           /\ Len(pageLoaders') = Len(pls) + n
           /\ workers_count' = w + n /\ pageActiveLoaderCount' = active + n
           /\ disabled => n = 0
           /\ w <= MaxThreadsCount => w + n <= MaxThreadsCount
           /\ ~disabled /\ n < Len(q) => w + n >= MaxThreadsCount
    <3>1. LoadPage(q, w, active, pls)
      BY <1>1, <1>12
    <3> QED
      <4>1. w \in Int /\ active \in Int /\ disabled \in BOOLEAN
        BY <1>3, <1>7
      <4>2. q \in Seq(Row) /\ pls \in Seq(PageLoader)
        BY <1>5, <1>6
      <4> QED
        BY <3>1, <4>1, <4>2, LoadPageMoves
  <2>3. LiveLoaders' = w + n
    BY <1>4, <1>5, <1>7, <2>1, <2>2 DEF LiveLoaders
  <2>4. ~disabled => n > 0
    <3>1. Len(q) > 0 /\ w \in Int /\ Len(q) \in Nat
      BY <1>4, <1>6, <1>7
    <3>2. n \in 0..Len(q) /\ (~disabled /\ n < Len(q) => w + n >= MaxThreadsCount)
      BY <2>2
    <3> QED
      BY <1>8, <3>1, <3>2
  <2>10. /\ categoryPages' \in Seq(Row) /\ productLinks' \in Seq(LinkObject)
         /\ pageLoaders' \in Seq(PageLoader) /\ linkLoaders' \in Seq(LinkLoader)
         /\ workers_count' \in Int /\ pageActiveLoaderCount' \in Int
         /\ suppressed' \in BOOLEAN
    BY <1>3, <1>5, <1>6, <1>7, <2>0, <2>1, <2>2
  <2>5. SlotAccounting' /\ WorkersBounded'
    <3>1. workers_count' = w + n /\ pageActiveLoaderCount' = Len(pageLoaders')
      BY <1>7, <2>2
    <3>2. w + n <= MaxThreadsCount
      BY <1>7, <1>8, <2>2
    <3> QED
      BY <2>3, <3>1, <3>2 DEF SlotAccounting, WorkersBounded
  <2>6. LinksWaitOnlyWhenFull' /\ PagesWaitOnlyWhenFull'
    <3>1. LinksWaitOnlyWhenFull'
      BY <1>12, <2>1 DEF LinksWaitOnlyWhenFull
    <3>2. CASE disabled
      BY <3>1, <3>2, <2>0 DEF PagesWaitOnlyWhenFull
    <3>3. CASE ~disabled
      <4>1. categoryPages' # <<>> => w + n = MaxThreadsCount
        BY <3>3, <1>7, <1>8, <2>2, EmptyIsLengthZero
      <4> QED
        BY <3>1, <4>1, <2>3 DEF PagesWaitOnlyWhenFull
    <3> QED
      BY <3>2, <3>3
  <2>7. NeverStalled'
    <3>1. CASE disabled
      BY <3>1, <2>0 DEF NeverStalled
    <3>2. CASE ~disabled
      BY <3>2, <1>4, <1>5, <1>7, <2>2, <2>3, <2>4 DEF NeverStalled
    <3> QED
      BY <3>1, <3>2
  <2>8. RowsConserved'
    <3>1. /\ RowsRead' = RowsRead /\ rowsDone' = rowsDone
          /\ RowsRead = Len(categoryPages) + Len(pageLoaders) + rowsDone
          /\ rowsDone \in Nat
      BY <1>2 DEF IInv, TypeOK, RowsConserved, RowsRead
    <3>2. Len(categoryPages') + Len(pageLoaders') = Len(categoryPages) + Len(pageLoaders)
      <4>1. /\ Len(categoryPages') = Len(q) - n /\ Len(q) = Len(categoryPages) + 1
            /\ Len(pageLoaders') = Len(pls) + n /\ Len(pls) = Len(pageLoaders) - 1
        BY <1>5, <1>6, <2>2
      <4>2. Len(categoryPages) \in Nat /\ Len(pageLoaders) \in Nat /\ n \in Int
        BY <1>4, <1>6
      <4> QED
        BY <4>1, <4>2
    <3>3. Len(categoryPages') \in Nat /\ Len(pageLoaders') \in Nat
      BY <2>10, EmptyIsLengthZero
    <3> QED
      BY <1>4, <3>1, <3>2, <3>3 DEF RowsConserved
  <2>9. LinksConserved'
    <3>1. /\ linksFound' = linksFound /\ productsDone' = productsDone
          /\ linksFound = Len(productLinks) + Len(linkLoaders) + productsDone
          /\ productsDone \in Nat
      BY <1>2 DEF IInv, TypeOK, LinksConserved
    <3>2. Len(productLinks') + Len(linkLoaders') = Len(productLinks) + Len(linkLoaders)
      BY <1>4, <2>1, <2>2
    <3>3. Len(productLinks') \in Nat /\ Len(linkLoaders') \in Nat
      BY <2>10, EmptyIsLengthZero
    <3> QED
      BY <1>4, <3>1, <3>2, <3>3 DEF LinksConserved
  <2>11. TypeOK'
    <3>1. TypeOK
      BY DEF IInv
    <3> QED
      BY <1>2, <2>10, <3>1 DEF TypeOK
  <2> QED
    BY <1>10, <2>5, <2>6, <2>7, <2>8, <2>9, <2>11 DEF IInv
<1> QED
  BY <1>11, <1>12

LEMMA LoadStep ==
  ASSUME IInv, Load
  PROVE  IInv'
<1>1. /\ phase = "armed" /\ phase' = "crawling" /\ sitedbOpen' = TRUE
      /\ suppressed' = (suppressed \/ disabled)
  BY DEF Load
<1>2. UNCHANGED <<disabled, productLinks, linkLoaders, stamped,
                 rowsDone, linksFound, productsDone>>
  BY DEF Load
<1>3. /\ disabled \in BOOLEAN /\ stamped \in BOOLEAN /\ suppressed \in BOOLEAN
      /\ categoryPages \in Seq(Row) /\ productLinks \in Seq(LinkObject)
      /\ pageLoaders \in Seq(PageLoader) /\ linkLoaders \in Seq(LinkLoader)
      /\ workers_count \in Int /\ pageActiveLoaderCount \in Int
      /\ dbErrors \in Nat /\ rowsDone \in Nat /\ productsDone \in Nat
  BY DEF IInv, TypeOK
<1>4. /\ Len(pageLoaders) \in Nat /\ Len(linkLoaders) \in Nat
      /\ Len(categoryPages) \in Nat /\ Len(productLinks) \in Nat
      /\ (productLinks = <<>> <=> Len(productLinks) = 0)
  BY <1>3, EmptyIsLengthZero
<1>5. /\ LiveLoaders = 0 /\ ~stamped /\ RowsRead = 0 /\ dbErrors = 0
      /\ linksFound = 0
  BY <1>1 DEF IInv, Phases
<1>6. /\ Len(pageLoaders) = 0 /\ Len(linkLoaders) = 0
      /\ workers_count = 0 /\ pageActiveLoaderCount = 0
  BY <1>4, <1>5 DEF IInv, SlotAccounting, LiveLoaders
<1>7. Len(categoryPages) = 0 /\ rowsDone = 0
  BY <1>3, <1>4, <1>5, <1>6 DEF IInv, RowsConserved
<1>8. Len(productLinks) = 0 /\ productsDone = 0 /\ productLinks = <<>>
  BY <1>3, <1>4, <1>5, <1>6 DEF IInv, LinksConserved
<1>a. PICK size \in QuerySizes(0) :
        /\ LoadDbData(0, size)
        /\ LoadPage(QueueAfterQuery(categoryPages, 0, size),
                    workers_count, pageActiveLoaderCount, pageLoaders)
  BY DEF Load
<1>9. PICK q :
        /\ q = QueueAfterQuery(categoryPages, 0, size)
        /\ LoadDbData(0, size)
        /\ LoadPage(q, workers_count, pageActiveLoaderCount, pageLoaders)
  BY <1>a
<1>10. PICK k \in Nat :
         /\ q \in Seq(Row) /\ Len(q) = Len(categoryPages) + k
         /\ parserOffset' \in Int /\ dbErrors' \in Nat
         /\ parserOffset' + dbErrors' = 0 + dbErrors + k
         /\ parserOffset' <= DbRows
         /\ k <= MaxThreadsCount
         /\ disabled => k = 0 /\ dbErrors' = dbErrors
         /\ ~disabled /\ dbErrors' = 0 /\ k = 0 /\ MaxThreadsCount > 0
              => parserOffset' >= DbRows
  <2>1. 0 \in Int /\ 0 <= DbRows
    BY CrawlAssumption
  <2> QED
    BY <1>3, <1>9, <2>1, LoadDbDataAdds
<1>11. PICK n \in 0..Len(q) :
         /\ categoryPages' \in Seq(Row) /\ Len(categoryPages') = Len(q) - n
         /\ pageLoaders' \in Seq(PageLoader)
         /\ Len(pageLoaders') = Len(pageLoaders) + n
         /\ workers_count' = workers_count + n
         /\ pageActiveLoaderCount' = pageActiveLoaderCount + n
         /\ disabled => n = 0
         /\ workers_count <= MaxThreadsCount => workers_count + n <= MaxThreadsCount
         /\ ~disabled /\ n < Len(q) => workers_count + n >= MaxThreadsCount
  BY <1>3, <1>9, <1>10, LoadPageMoves
<1>12. Len(q) = k /\ n \in 0..k /\ MaxThreadsCount \in Nat
  BY <1>7, <1>10, <1>11, CrawlAssumption
<1>13. /\ Len(categoryPages') = k - n /\ Len(pageLoaders') = n
       /\ workers_count' = n /\ pageActiveLoaderCount' = n
       /\ n <= MaxThreadsCount
       /\ disabled => n = 0
       /\ ~disabled => n = k
  BY <1>6, <1>10, <1>11, <1>12
<1>14. LiveLoaders' = n /\ RowsRead' = k
  <2>1. Len(linkLoaders') = 0
    BY <1>2, <1>6
  <2> QED
    <3>1. Len(pageLoaders') = n /\ n \in Int
      BY <1>12, <1>13
    <3>2. parserOffset' + dbErrors' = k
      <4>1. parserOffset' + dbErrors' = 0 + dbErrors + k
        BY <1>10
      <4> QED
        BY <1>5, <4>1
    <3> QED
      BY <2>1, <3>1, <3>2 DEF LiveLoaders, RowsRead
<1>15. SlotAccounting' /\ WorkersBounded'
  BY <1>13, <1>14 DEF SlotAccounting, WorkersBounded
<1>16. LinksWaitOnlyWhenFull'
  BY <1>2, <1>8 DEF LinksWaitOnlyWhenFull
<1>17. PagesWaitOnlyWhenFull' /\ NeverStalled'
  <2>1. CASE disabled
    BY <2>1, <1>1 DEF PagesWaitOnlyWhenFull, NeverStalled
  <2>2. CASE ~disabled
    <3>1. Len(categoryPages') = 0
      BY <2>2, <1>12, <1>13
    <3>2. categoryPages' = <<>>
      BY <3>1, <1>11, EmptyIsLengthZero
    <3>3. RowsRead' > 0 => LiveLoaders' > 0
      BY <2>2, <1>13, <1>14
    <3> QED
      BY <3>2, <3>3 DEF PagesWaitOnlyWhenFull, NeverStalled
  <2> QED
    BY <2>1, <2>2
<1>18. RowsConserved'
  BY <1>2, <1>7, <1>12, <1>13, <1>14 DEF RowsConserved
<1>19. LinksConserved'
  BY <1>2, <1>5, <1>6, <1>8 DEF LinksConserved
<1>20. StampedMeansIdle' /\ Phases' /\ OffsetBounded' /\ StampedAfterLastRow'
  BY <1>1, <1>2, <1>5, <1>10
     DEF StampedMeansIdle, Phases, OffsetBounded, StampedAfterLastRow
<1>21. TypeOK'
  <2>1. TypeOK
    BY DEF IInv
  <2>2. workers_count' \in Int /\ pageActiveLoaderCount' \in Int
    BY <1>12, <1>13
  <2>3. suppressed' \in BOOLEAN
    BY <1>1, <1>3
  <2> QED
    BY <1>1, <1>2, <1>10, <1>11, <2>1, <2>2, <2>3 DEF TypeOK
<1> QED
  BY <1>15, <1>16, <1>17, <1>18, <1>19, <1>20, <1>21 DEF IInv

\* The steps that change no queue, counter or length: pausing, resuming, a page
\* that has finished loading, exit(0) and stuttering.
LEMMA QuietStep ==
  ASSUME IInv,
         UNCHANGED <<sitedbOpen, parserOffset, workers_count,
                     pageActiveLoaderCount, categoryPages, productLinks,
                     stamped, suppressed, dbErrors, rowsDone, linksFound,
                     productsDone>>,
         disabled' \in BOOLEAN,
         \/ phase' = phase
         \/ phase = "armed" /\ phase' = "exited",
         pageLoaders' \in Seq(PageLoader), Len(pageLoaders') = Len(pageLoaders),
         linkLoaders' \in Seq(LinkLoader), Len(linkLoaders') = Len(linkLoaders)
  PROVE  IInv'
<1>1. LiveLoaders' = LiveLoaders /\ RowsRead' = RowsRead
  BY DEF LiveLoaders, RowsRead
<1>2. TypeOK'
  BY DEF IInv, TypeOK
<1>3. /\ SlotAccounting' /\ WorkersBounded' /\ LinksWaitOnlyWhenFull'
      /\ PagesWaitOnlyWhenFull'
  BY <1>1 DEF IInv, SlotAccounting, WorkersBounded, LinksWaitOnlyWhenFull,
              PagesWaitOnlyWhenFull
<1>4. RowsConserved' /\ LinksConserved'
  BY <1>1 DEF IInv, RowsConserved, LinksConserved
<1>5. StampedMeansIdle' /\ StampedAfterLastRow' /\ OffsetBounded'
  BY <1>1 DEF IInv, StampedMeansIdle, StampedAfterLastRow, OffsetBounded
<1>6. Phases' /\ NeverStalled'
  BY <1>1 DEF IInv, Phases, NeverStalled
<1> QED
  BY <1>2, <1>3, <1>4, <1>5, <1>6 DEF IInv

LEMMA PageLoadedStep ==
  ASSUME IInv, NEW i \in DOMAIN pageLoaders, PageLoaded(i)
  PROVE  IInv'
<1>1. pageLoaders \in Seq(PageLoader) /\ i \in 1..Len(pageLoaders)
  BY LenProperties DEF IInv, TypeOK
<1>2. [pageLoaders[i] EXCEPT !.stage = "parsing"] \in PageLoader
  <2>1. pageLoaders[i] \in PageLoader
    BY <1>1, ElementOfSeq
  <2> QED
    BY <2>1 DEF PageLoader
<1>3. pageLoaders' \in Seq(PageLoader) /\ Len(pageLoaders') = Len(pageLoaders)
  BY <1>1, <1>2, ExceptSeq DEF PageLoaded
<1>4. /\ UNCHANGED <<disabled, phase, sitedbOpen, parserOffset, workers_count,
                     pageActiveLoaderCount, categoryPages, productLinks,
                     linkLoaders, stamped, suppressed, dbErrors, rowsDone,
                     linksFound, productsDone>>
      /\ disabled \in BOOLEAN /\ linkLoaders \in Seq(LinkLoader)
  BY DEF PageLoaded, counters, queues, history, IInv, TypeOK
<1> QED
  BY <1>3, <1>4, QuietStep

LEMMA LinkLoadedStep ==
  ASSUME IInv, NEW i \in DOMAIN linkLoaders, LinkLoaded(i)
  PROVE  IInv'
<1>1. linkLoaders \in Seq(LinkLoader) /\ i \in 1..Len(linkLoaders)
  BY LenProperties DEF IInv, TypeOK
<1>2. [linkLoaders[i] EXCEPT !.stage = "parsing"] \in LinkLoader
  <2>1. linkLoaders[i] \in LinkLoader
    BY <1>1, ElementOfSeq
  <2> QED
    BY <2>1 DEF LinkLoader
<1>3. linkLoaders' \in Seq(LinkLoader) /\ Len(linkLoaders') = Len(linkLoaders)
  BY <1>1, <1>2, ExceptSeq DEF LinkLoaded
<1>4. /\ UNCHANGED <<disabled, phase, sitedbOpen, parserOffset, workers_count,
                     pageActiveLoaderCount, categoryPages, productLinks,
                     pageLoaders, stamped, suppressed, dbErrors, rowsDone,
                     linksFound, productsDone>>
      /\ disabled \in BOOLEAN /\ pageLoaders \in Seq(PageLoader)
  BY DEF LinkLoaded, counters, queues, history, IInv, TypeOK
<1> QED
  BY <1>3, <1>4, QuietStep

LEMMA IdleSteps ==
  ASSUME IInv, LoadFails \/ Pause \/ Resume \/ UNCHANGED vars
  PROVE  IInv'
<1>1. /\ UNCHANGED <<sitedbOpen, parserOffset, workers_count,
                     pageActiveLoaderCount, categoryPages, productLinks,
                     pageLoaders, linkLoaders,
                     stamped, suppressed, dbErrors, rowsDone, linksFound,
                     productsDone>>
  BY DEF LoadFails, Pause, Resume, vars, counters, queues, loaders, history
<1>2. \/ phase' = phase
      \/ phase = "armed" /\ phase' = "exited"
  BY DEF LoadFails, Pause, Resume, vars
<1>3. /\ disabled' \in BOOLEAN
      /\ pageLoaders \in Seq(PageLoader) /\ linkLoaders \in Seq(LinkLoader)
  BY DEF LoadFails, Pause, Resume, vars, IInv, TypeOK
<1> QED
  BY <1>1, <1>2, <1>3, QuietStep

LEMMA NextIInv == IInv /\ [Next]_vars => IInv'
<1> SUFFICES ASSUME IInv, [Next]_vars PROVE IInv'
  OBVIOUS
<1>1. CASE LoadFails \/ Pause \/ Resume \/ UNCHANGED vars
  BY <1>1, IdleSteps
<1>2. CASE Load
  BY <1>2, LoadStep
<1>3. ASSUME NEW i \in DOMAIN pageLoaders, PageStep(i) PROVE IInv'
  BY <1>3, PageLoadedStep, GetedLinkStep, NextPageStep, NoNextPageStep DEF PageStep
<1>4. ASSUME NEW i \in DOMAIN linkLoaders, LinkStep(i) PROVE IInv'
  BY <1>4, LinkLoadedStep, ProductEndStep DEF LinkStep
<1> QED
  BY <1>1, <1>2, <1>3, <1>4 DEF Next, JobStep

\* The inductive invariant holds in every reachable state.
THEOREM Invariant == Spec => []IInv
BY InitIInv, NextIInv, PTL DEF Spec

\* What the theorems below need of the invariant in a single state.
LEMMA IInvErrors == ASSUME IInv PROVE ErrorsRepeatRows
<1>1. /\ parserOffset \in Int /\ dbErrors \in Nat /\ rowsDone \in Nat
      /\ Len(categoryPages) \in Nat /\ Len(pageLoaders) \in Nat
      /\ DbRows \in Nat
  BY EmptyIsLengthZero, CrawlAssumption DEF IInv, TypeOK
<1>2. /\ parserOffset + dbErrors = Len(categoryPages) + Len(pageLoaders) + rowsDone
      /\ parserOffset <= DbRows
  BY DEF IInv, RowsConserved, RowsRead, OffsetBounded
<1> QED
  BY <1>1, <1>2 DEF ErrorsRepeatRows

LEMMA IInvStamp == ASSUME IInv PROVE StampedMeansCrawled
<1> SUFFICES ASSUME stamped, ~suppressed, dbErrors = 0
             PROVE  rowsDone = DbRows /\ productsDone = linksFound
  BY DEF StampedMeansCrawled
<1>1. /\ parserOffset = DbRows /\ DbRows \in Nat
      /\ rowsDone \in Nat /\ productsDone \in Nat /\ linksFound \in Nat
  BY CrawlAssumption DEF IInv, StampedAfterLastRow, TypeOK
<1>2. /\ categoryPages = <<>> /\ productLinks = <<>> /\ LiveLoaders = 0
  BY DEF IInv, StampedMeansIdle
<1>3. /\ Len(categoryPages) = 0 /\ Len(productLinks) = 0
      /\ Len(pageLoaders) = 0 /\ Len(linkLoaders) = 0
  BY <1>2, EmptyIsLengthZero DEF IInv, TypeOK, LiveLoaders
<1>4. parserOffset + 0 = 0 + 0 + rowsDone
  BY <1>3 DEF IInv, RowsConserved, RowsRead
<1>5. linksFound = 0 + 0 + productsDone
  BY <1>3 DEF IInv, LinksConserved
<1> QED
  BY <1>1, <1>4, <1>5

\* All that is promised of a single state, for whoever composes the scheduler
\* with other parts.
CrawlIsSafe ==
  /\ SlotsAreExact /\ WaitOnlyWhenFull /\ NothingLost /\ NeverStalled
  /\ StampEndsWork /\ StampedMeansCrawled

LEMMA IInvIsSafe == ASSUME IInv PROVE CrawlIsSafe
<1>1. SlotsAreExact /\ WaitOnlyWhenFull /\ NeverStalled
  BY DEF IInv, SlotsAreExact, WaitOnlyWhenFull
<1>2. NothingLost /\ StampedMeansCrawled
  BY IInvErrors, IInvStamp DEF IInv, NothingLost
<1>3. StampEndsWork
  BY WorkMeansCrawling DEF IInv, Phases, DbOpenWhileWorking, StampEndsWork
<1> QED
  BY <1>1, <1>2, <1>3 DEF CrawlIsSafe

-----------------------------------------------------------------------------
(***************************************************************************)
(* The theorems.                                                           *)
(***************************************************************************)

\* Type correctness of the scheduler.
THEOREM TypeCorrect == Spec => []TypeOK
<1>1. IInv => TypeOK
  BY DEF IInv
<1> QED
  BY <1>1, Invariant, PTL

\* The two counters of ParserMain are exact in every reachable state, and
\* max_threads_count bounds the live pages, in whatever order pages finish.
THEOREM SlotsExact == Spec => []SlotsAreExact
<1>1. IInv => SlotsAreExact
  BY DEF IInv, SlotsAreExact
<1> QED
  BY <1>1, Invariant, PTL

\* Links, and rows that no pause held back, wait only while all slots are taken.
THEOREM WaitingMeansFull == Spec => []WaitOnlyWhenFull
<1>1. IInv => WaitOnlyWhenFull
  BY DEF IInv, WaitOnlyWhenFull
<1> QED
  BY <1>1, Invariant, PTL

\* No row that was read and no link that was found is forgotten, and failing
\* queries repeat at most one row each.
THEOREM NothingIsLost == Spec => []NothingLost
<1>1. IInv => NothingLost
  BY IInvErrors DEF IInv, NothingLost
<1> QED
  BY <1>1, Invariant, PTL

\* A crawl that nobody paused does not stand still before its end.
THEOREM NoStall == Spec => []NeverStalled
<1>1. IInv => NeverStalled
  BY DEF IInv
<1> QED
  BY <1>1, Invariant, PTL

\* date_last_parse is written only by an idle scheduler, and the connection is open
\* whenever a product parser may use it.
THEOREM StampIsLast == Spec => []StampEndsWork
<1>1. IInv => StampEndsWork
  BY WorkMeansCrawling DEF IInv, Phases, DbOpenWhileWorking, StampEndsWork
<1> QED
  BY <1>1, Invariant, PTL

\* Undisturbed, date_last_parse is true of the whole table: from the exact
\* balance of rows and links, an idle scheduler and an empty last window.
THEOREM StampIsTrue == Spec => []StampedMeansCrawled
<1>1. IInv => StampedMeansCrawled
  BY IInvStamp
<1> QED
  BY <1>1, Invariant, PTL

=============================================================================
