------------------------------ MODULE ParserMain ------------------------------
(***************************************************************************)
(* The crawl scheduler of the parser service (parsermain.cpp).             *)
(*                                                                         *)
(* The scheduler reads the table product_parsers in windows of             *)
(* MaxThreadsCount rows, loads the category pages of those rows, collects  *)
(* the product links of every page and loads the product pages.  Every     *)
(* loaded page holds one of MaxThreadsCount worker slots until its parser  *)
(* has ended.  All handlers below run on the main thread, one at a time;   *)
(* what interleaves is the order in which browser pages finish loading,    *)
(* script callbacks arrive, product parsers end and the operator pauses or *)
(* resumes the service.  One action is one whole handler.                  *)
(***************************************************************************)
EXTENDS Integers, Sequences, FiniteSets, SequencesExt

CONSTANTS MaxThreadsCount, \* settings->MaxThreadsCount, the worker slots
          DbRows,          \* rows in the table product_parsers
          LastPage,        \* bound: pages of one category, that a shop has an end
          MaxLinks,        \* bound: product links found on one page
          MaxDbErrors      \* bound: failing SELECTs on product_parsers

ASSUME CrawlAssumption == /\ MaxThreadsCount \in Nat
                          /\ DbRows \in Nat
                          /\ LastPage \in Nat \ {0}
                          /\ MaxLinks \in Nat
                          /\ MaxDbErrors \in Nat

VARIABLES
  disabled,               \* the service is paused
  phase,                  \* "armed": single-shot timer runs; "crawling": load()
                          \* ran, it never runs again; "exited": exit(0)
  sitedbOpen,             \* the connection sitedb is open
  parserOffset,           \* OFFSET of the next SELECT on product_parsers
  workers_count,          \* the counter of slots taken
  pageActiveLoaderCount,  \* the counter of category pages being processed
  categoryPages,          \* rows waiting for their page to be loaded
  productLinks,           \* product links waiting for a slot
  pageLoaders,            \* live category WebPages, with their parser
  linkLoaders,            \* live product WebPages, with their parser
  stamped,                \* date_last_parse of ALL rows has been written
  \* History, read by properties only.
  suppressed,             \* loadPage or loadDbData was skipped: service paused
  dbErrors,               \* SELECTs on product_parsers that failed
  rowsDone,               \* rows whose last page has been parsed
  linksFound,             \* links handed to manage_links
  productsDone            \* product parsers that ended

queues   == <<categoryPages, productLinks>>
loaders  == <<pageLoaders, linkLoaders>>
counters == <<workers_count, pageActiveLoaderCount>>
history  == <<suppressed, dbErrors, rowsDone, linksFound, productsDone>>
vars == <<disabled, phase, sitedbOpen, parserOffset, counters, queues, loaders,
          stamped, history>>

\* A ParserRow: its id and, for category_url, the number of its current page.
Row == [id : Int, page : 1..LastPage]

\* A link names the row and page that it was found on, and its place there.
Link == [row : Int, page : 1..LastPage, k : 1..MaxLinks]

\* A LinkObject, and the WebPages of the two kinds.  A category page is
\* "loading", then "parsing" (its PageParser runs), then "linked" (the script
\* for the links has answered and the one for the next page has not).
LinkObject == [prow : Int, link : Link]
PageLoader == [row : Row, stage : {"loading", "parsing", "linked"}]
LinkLoader == [prow : Int, link : Link, stage : {"loading", "parsing"}]

Init ==
  /\ disabled = FALSE /\ phase = "armed" /\ sitedbOpen = FALSE
  /\ parserOffset = 0 /\ workers_count = 0 /\ pageActiveLoaderCount = 0
  /\ categoryPages = <<>> /\ productLinks = <<>>
  /\ pageLoaders = <<>> /\ linkLoaders = <<>>
  /\ stamped = FALSE /\ suppressed = FALSE
  /\ dbErrors = 0 /\ rowsDone = 0 /\ linksFound = 0 /\ productsDone = 0

-----------------------------------------------------------------------------
(***************************************************************************)
(* The loops of the scheduler.                                             *)
(***************************************************************************)

\* The definitions named <definition>_<Bug> are mutants: <definition> with a
\* plausible bug.  No other definition uses them.

\* "<=" for "<" in the condition of the loops.
Started_OffByOne(n, w) == LET free == MaxThreadsCount + 1 - w
                          IN  IF free <= 0 THEN 0 ELSE IF n < free THEN n ELSE free

\* How many of n waiting entries "while (n > 0 && workers_count < Max)" starts.
Started(n, w) == LET free == MaxThreadsCount - w
                 IN  IF free <= 0 THEN 0 ELSE IF n < free THEN n ELSE free

\* Every WebPage gets the row of the last LinkObject.
OpenLinks_OneRow(q, n) ==
  [k \in 1..n |-> [prow |-> q[Len(q)].prow, link |-> q[k].link, stage |-> "loading"]]

\* The WebPages opened for the first n entries of a queue.
OpenLinks(q, n) ==
  [k \in 1..n |-> [prow |-> q[k].prow, link |-> q[k].link, stage |-> "loading"]]
OpenPages(q, n) == [k \in 1..n |-> [row |-> q[k], stage |-> "loading"]]

\* takeFirst() once too often.
Rest_Loses(q, n) == SubSeq(q, n + 2, Len(q))

\* first() for takeFirst(): the last entry started stays in the queue.
Rest_Keeps(q, n) == IF n = 0 THEN q ELSE SubSeq(q, n, Len(q))

Rest(q, n) == SubSeq(q, n + 1, Len(q))

\* The test of the flag disabled is copied to this loop.
DrainLinks_Paused(w, lls) ==
  LET n == IF disabled THEN 0 ELSE Started(Len(productLinks), w)
  IN  /\ productLinks' = Rest(productLinks, n)
      /\ linkLoaders' = lls \o OpenLinks(productLinks, n)
      /\ workers_count' = w + n

\* The loop that starts waiting links; w slots are taken, lls are live.
DrainLinks(w, lls) ==
  LET n == Started(Len(productLinks), w)
  IN  /\ productLinks' = Rest(productLinks, n)
      /\ linkLoaders' = lls \o OpenLinks(productLinks, n)
      /\ workers_count' = w + n

\* "if" for "while".
LoadPage_Once(q, w, active, pls) ==
  LET n == IF disabled \/ Started(Len(q), w) = 0 THEN 0 ELSE 1
  IN  /\ categoryPages' = Rest(q, n)
      /\ pageLoaders' = pls \o OpenPages(q, n)
      /\ workers_count' = w + n
      /\ pageActiveLoaderCount' = active + n

\* loadPage: rows wait in q, w slots are taken, active pages pls are live.
LoadPage(q, w, active, pls) ==
  LET n == IF disabled THEN 0 ELSE Started(Len(q), w)
  IN  /\ categoryPages' = Rest(q, n)
      /\ pageLoaders' = pls \o OpenPages(q, n)
      /\ workers_count' = w + n
      /\ pageActiveLoaderCount' = active + n

\* SELECT * FROM product_parsers LIMIT offset, MaxThreadsCount: what
\* QSqlQuery::size() can be.  It is -1 when the query fails, which it always
\* does for a negative offset.
RowsAvailable(offset) ==
  IF offset >= DbRows THEN 0
  ELSE IF DbRows - offset < MaxThreadsCount THEN DbRows - offset
  ELSE MaxThreadsCount

QuerySizes(offset) ==
  (IF offset < 0 THEN {-1} ELSE {RowsAvailable(offset)})
     \cup (IF dbErrors < MaxDbErrors THEN {-1} ELSE {})

\* category_url is not read from the row.
FetchedRows_NoUrl(offset, size) ==
  [k \in 1..(IF size < 0 THEN 0 ELSE size) |-> [id |-> offset + k, page |-> 0]]

FetchedRows(offset, size) ==
  [k \in 1..(IF size < 0 THEN 0 ELSE size) |-> [id |-> offset + k, page |-> 1]]

\* The offset is advanced past the window.
LoadDbData_Skips(offset, size) ==
  /\ parserOffset' = IF disabled THEN offset ELSE offset + size + 1
  /\ dbErrors' = IF ~disabled /\ size = -1 THEN dbErrors + 1 ELSE dbErrors

\* loadDbData: rows are appended and the offset advances by size(), -1 or not.
\* A paused service does not query at all.
LoadDbData(offset, size) ==
  /\ parserOffset' = IF disabled THEN offset ELSE offset + size
  /\ dbErrors' = IF ~disabled /\ size = -1 THEN dbErrors + 1 ELSE dbErrors

QueueAfterQuery(q, offset, size) ==
  IF disabled THEN q ELSE q \o FetchedRows(offset, size)

-----------------------------------------------------------------------------
(***************************************************************************)
(* The timer, the operator.                                                *)
(***************************************************************************)

\* load(): the first timeout.  stopAllThread reaches nobody, because no parser
\* exists yet, and setInterval does not restart the expired single-shot timer.
LoadFails ==
  /\ phase = "armed"
  /\ phase' = "exited"
  /\ UNCHANGED <<disabled, sitedbOpen, parserOffset, counters, queues, loaders,
                 stamped, history>>

Load ==
  /\ phase = "armed"
  /\ phase' = "crawling" /\ sitedbOpen' = TRUE
  /\ \E size \in QuerySizes(0) :
       /\ LoadDbData(0, size)
       /\ LoadPage(QueueAfterQuery(categoryPages, 0, size),
                   workers_count, pageActiveLoaderCount, pageLoaders)
  /\ suppressed' = (suppressed \/ disabled)
  /\ UNCHANGED <<disabled, productLinks, linkLoaders, stamped,
                 rowsDone, linksFound, productsDone>>

\* pause() and resume() of the service: nothing but the flag.
Pause ==
  /\ phase # "exited" /\ ~disabled
  /\ disabled' = TRUE
  /\ UNCHANGED <<phase, sitedbOpen, parserOffset, counters, queues, loaders,
                 stamped, history>>

Resume ==
  /\ phase # "exited" /\ disabled
  /\ disabled' = FALSE
  /\ UNCHANGED <<phase, sitedbOpen, parserOffset, counters, queues, loaders,
                 stamped, history>>

-----------------------------------------------------------------------------
(***************************************************************************)
(* wpFinished: a WebPage has finished loading (whether or not it could be  *)
(* loaded) and gets its parser.                                            *)
(***************************************************************************)
PageLoaded(i) ==
  /\ pageLoaders[i].stage = "loading"
  /\ pageLoaders' = [pageLoaders EXCEPT ![i].stage = "parsing"]
  /\ UNCHANGED <<disabled, phase, sitedbOpen, parserOffset, counters, queues,
                 linkLoaders, stamped, history>>

LinkLoaded(i) ==
  /\ linkLoaders[i].stage = "loading"
  /\ linkLoaders' = [linkLoaders EXCEPT ![i].stage = "parsing"]
  /\ UNCHANGED <<disabled, phase, sitedbOpen, parserOffset, counters, queues,
                 pageLoaders, stamped, history>>

-----------------------------------------------------------------------------
(***************************************************************************)
(* The signals of the parsers.                                             *)
(***************************************************************************)

\* The LinkObjects of the n links found on the page of a row.
LinksOf(row, n) ==
  [k \in 1..n |-> [prow |-> row.id,
                   link |-> [row |-> row.id, page |-> row.page, k |-> k]]]

\* PageParser::getedLink -> manage_links: the loop starts a WebPage for each
\* link while a slot is free and queues the rest.
GetedLink(i, n) ==
  LET found == LinksOf(pageLoaders[i].row, n)
      start == Started(n, workers_count)
  IN  /\ pageLoaders[i].stage = "parsing"
      /\ pageLoaders' = [pageLoaders EXCEPT ![i].stage = "linked"]
      /\ workers_count' = workers_count + start
      /\ linkLoaders' = linkLoaders \o OpenLinks(found, start)
      /\ productLinks' = productLinks \o Rest(found, start)
      /\ linksFound' = linksFound + n
      /\ UNCHANGED <<disabled, phase, sitedbOpen, parserOffset,
                     pageActiveLoaderCount, categoryPages, stamped,
                     suppressed, dbErrors, rowsDone, productsDone>>

\* loadPage is called although links wait.
NextPage_PagesFirst(i) ==
  LET row == pageLoaders[i].row
      q   == <<[row EXCEPT !.page = @ + 1]>> \o categoryPages
  IN  /\ pageLoaders[i].stage = "linked" /\ row.page < LastPage
      /\ LoadPage(q, workers_count - 1, pageActiveLoaderCount - 1,
                  RemoveAt(pageLoaders, i))
      /\ suppressed' = (suppressed \/ disabled)
      /\ UNCHANGED <<disabled, phase, sitedbOpen, parserOffset, stamped,
                     productLinks, linkLoaders,
                     dbErrors, rowsDone, linksFound, productsDone>>

\* PageParser::pageParseEnd -> manage_category_page: the category has a next
\* page; its row goes to the head of the queue, waiting links come first.  The code
\* follows any next link; that no shop leads back, so that its pages end with
\* LastPage, is an assumption about the shop.
NextPage(i) ==
  LET row == pageLoaders[i].row
      pls == RemoveAt(pageLoaders, i)
      q   == <<[row EXCEPT !.page = @ + 1]>> \o categoryPages
      w   == workers_count - 1
      active == pageActiveLoaderCount - 1
  IN  /\ pageLoaders[i].stage = "linked" /\ row.page < LastPage
      /\ \/ /\ productLinks # <<>>
            /\ DrainLinks(w, linkLoaders)
            /\ categoryPages' = q
            /\ pageLoaders' = pls
            /\ pageActiveLoaderCount' = active
            /\ UNCHANGED suppressed
         \/ /\ productLinks = <<>>
            /\ LoadPage(q, w, active, pls)
            /\ suppressed' = (suppressed \/ disabled)
            /\ UNCHANGED <<productLinks, linkLoaders>>
      /\ UNCHANGED <<disabled, phase, sitedbOpen, parserOffset, stamped,
                     dbErrors, rowsDone, linksFound, productsDone>>

\* "< 0" for "<= 0".
Complete_Strict(q, active, w) == q = <<>> /\ active < 0 /\ w <= 0

\* The products in flight are forgotten.
Complete_PagesOnly(q, active, w) == q = <<>> /\ active <= 0

\* The test after loadDbData in manage_parsers: nothing waits, nothing runs.
Complete(q, active, w) == q = <<>> /\ active <= 0 /\ w <= 0

\* manage_parsers, after its decrements: w slots are taken, active pages and
\* the loaders pls and lls are still live.
ManageParsers(w, active, pls, lls) ==
  \/ /\ productLinks # <<>>
     /\ DrainLinks(w, lls)
     /\ pageLoaders' = pls /\ pageActiveLoaderCount' = active
     /\ UNCHANGED <<categoryPages, parserOffset, stamped, sitedbOpen,
                    suppressed, dbErrors>>
  \/ /\ productLinks = <<>> /\ categoryPages # <<>>
     /\ LoadPage(categoryPages, w, active, pls)
     /\ linkLoaders' = lls
     /\ suppressed' = (suppressed \/ disabled)
     /\ UNCHANGED <<productLinks, parserOffset, stamped, sitedbOpen, dbErrors>>
  \/ /\ productLinks = <<>> /\ categoryPages = <<>>
     /\ \E size \in QuerySizes(parserOffset) :
          /\ LoadDbData(parserOffset, size)
          /\ LoadPage(QueueAfterQuery(<<>>, parserOffset, size), w, active, pls)
     /\ linkLoaders' = lls
     /\ IF Complete(categoryPages', pageActiveLoaderCount', workers_count')
        THEN stamped' = TRUE /\ sitedbOpen' = FALSE
        ELSE UNCHANGED <<stamped, sitedbOpen>>
     /\ suppressed' = (suppressed \/ disabled)
     /\ UNCHANGED productLinks

\* PageParser::parserEnd: the category has no next page.
NoNextPage(i) ==
  /\ pageLoaders[i].stage = "linked"
  /\ rowsDone' = rowsDone + 1
  /\ ManageParsers(workers_count - 1, pageActiveLoaderCount - 1,
                   RemoveAt(pageLoaders, i), linkLoaders)
  /\ UNCHANGED <<disabled, phase, linksFound, productsDone>>

\* ProductParser::parserEnd: a product is finished.
ProductEnd(i) ==
  /\ linkLoaders[i].stage = "parsing"
  /\ productsDone' = productsDone + 1
  /\ ManageParsers(workers_count - 1, pageActiveLoaderCount,
                   pageLoaders, RemoveAt(linkLoaders, i))
  /\ UNCHANGED <<disabled, phase, rowsDone, linksFound>>

-----------------------------------------------------------------------------
PageStep(i) ==
  \/ PageLoaded(i)
  \/ \E n \in 0..MaxLinks : GetedLink(i, n)
  \/ NextPage(i)
  \/ NoNextPage(i)

LinkStep(i) == LinkLoaded(i) \/ ProductEnd(i)

JobStep == \/ \E i \in DOMAIN pageLoaders : PageStep(i)
           \/ \E i \in DOMAIN linkLoaders : LinkStep(i)

Next == LoadFails \/ Load \/ Pause \/ Resume \/ JobStep

Spec == Init /\ [][Next]_vars

\* The timer expires, pages finish loading, scripts answer and parsers end.
\* Nothing forces the operator to pause or to resume.
Fairness == WF_vars(Load \/ LoadFails) /\ WF_vars(JobStep)

FairSpec == Spec /\ Fairness

-----------------------------------------------------------------------------
(***************************************************************************)
(* Properties.                                                             *)
(***************************************************************************)

\* The type invariant.
TypeOK ==
  /\ disabled \in BOOLEAN /\ sitedbOpen \in BOOLEAN
  /\ stamped \in BOOLEAN /\ suppressed \in BOOLEAN
  /\ phase \in {"armed", "crawling", "exited"}
  /\ parserOffset \in Int
  /\ workers_count \in Int /\ pageActiveLoaderCount \in Int
  /\ categoryPages \in Seq(Row) /\ productLinks \in Seq(LinkObject)
  /\ pageLoaders \in Seq(PageLoader) /\ linkLoaders \in Seq(LinkLoader)
  /\ dbErrors \in Nat /\ rowsDone \in Nat
  /\ linksFound \in Nat /\ productsDone \in Nat

LiveLoaders == Len(pageLoaders) + Len(linkLoaders)

\* Rows that SELECTs have delivered so far, a row read twice counted twice.
RowsRead == parserOffset + dbErrors

SlotAccounting == /\ workers_count = LiveLoaders
                  /\ pageActiveLoaderCount = Len(pageLoaders)
WorkersBounded == LiveLoaders <= MaxThreadsCount

\* The two counters, kept by increments and decrements in five handlers, always
\* equal the pages that are really being processed, and max_threads_count bounds
\* these: no slot leaks, none is freed twice.
SlotsAreExact == SlotAccounting /\ WorkersBounded

LinksWaitOnlyWhenFull == productLinks # <<>> => LiveLoaders = MaxThreadsCount
PagesWaitOnlyWhenFull ==
  categoryPages # <<>> /\ ~suppressed => LiveLoaders = MaxThreadsCount

\* A product link is queued only while every slot is taken, so some parser will
\* end and fetch it; so is a row, unless a pause suppressed its loadPage.
WaitOnlyWhenFull == LinksWaitOnlyWhenFull /\ PagesWaitOnlyWhenFull

RowsConserved == RowsRead = Len(categoryPages) + Len(pageLoaders) + rowsDone
LinksConserved ==
  linksFound = Len(productLinks) + Len(linkLoaders) + productsDone
ErrorsRepeatRows == rowsDone <= DbRows + dbErrors

\* Every row read and every link found is waiting, being parsed or done, whatever
\* order pages end in; and a failing SELECT, which moves the offset back by one
\* (size() is -1), makes the crawl repeat at most one row.
NothingLost == RowsConserved /\ LinksConserved /\ ErrorsRepeatRows

\* Between the first row read and completion some page is always in flight.
\* Every handler is driven by the end of another page, so a state without one
\* is a crawl that stands still for good.
NeverStalled ==
  /\ phase = "crawling" /\ ~stamped /\ ~suppressed
  /\ RowsRead > 0
  => LiveLoaders > 0

StampedMeansIdle ==
  stamped => /\ categoryPages = <<>> /\ productLinks = <<>>
             /\ LiveLoaders = 0 /\ ~sitedbOpen
DbOpenWhileWorking == LiveLoaders > 0 => sitedbOpen

\* date_last_parse is written, and the connection closed, only when nothing waits
\* and nothing runs; ProductParser's constructor queries sitedb, which is open as
\* long as a page is in flight.
StampEndsWork == StampedMeansIdle /\ DbOpenWhileWorking

\* The stamp, which covers every row of the table, is true of every row: all
\* categories were parsed to their last page and all products found were
\* finished (when no pause and no failing SELECT interfered).
StampedMeansCrawled ==
  stamped /\ ~suppressed /\ dbErrors = 0
  => rowsDone = DbRows /\ productsDone = linksFound

RowsInHand == categoryPages \o [i \in DOMAIN pageLoaders |-> pageLoaders[i].row]

\* No category is crawled by two loaders, or loaded while it waits: LIMIT
\* windows do not overlap and a row is prepended only after its page ended.
RowInOnePlace ==
  dbErrors = 0 => \A i, j \in DOMAIN RowsInHand :
                    RowsInHand[i].id = RowsInHand[j].id => i = j

\* What has become of a row of the table.
RowStatus ==
  [r \in 1..DbRows |->
     IF \E i \in DOMAIN RowsInHand : RowsInHand[i].id = r THEN "known"
     ELSE IF r > parserOffset THEN "unread" ELSE "done"]

\* The links that have not been fetched, each for the row whose selectors its
\* product page is parsed with.
OpenLinkSet ==
  {[row |-> productLinks[i].prow, link |-> productLinks[i].link] :
     i \in DOMAIN productLinks}
  \cup {[row |-> linkLoaders[i].prow, link |-> linkLoaders[i].link] :
          i \in DOMAIN linkLoaders}

Promised == INSTANCE Crawl WITH row <- RowStatus, open <- OpenLinkSet,
                                paused <- suppressed, failed <- (dbErrors > 0)

\* The scheduler, with its windows, queues, slots and counters, does what a crawl
\* promises: rows in order and once each; links of a row while it is parsed, and
\* each fetched once and for that row, even after it has waited while the row
\* moved on; the stamp when nothing is left.
ImplementsCrawl == Promised!Spec

OpensPage == \E i \in DOMAIN pageLoaders' :
               /\ pageLoaders'[i].stage = "loading"
               /\ \A j \in DOMAIN pageLoaders : pageLoaders[j] # pageLoaders'[i]

\* Products first: no category page is opened while a product link waits.
LinksBeforePages == [][OpensPage => productLinks = <<>>]_vars

\* What a page of a category still has to do, each a step: it is loaded, its links
\* are told, its next page is told; and what a link has to do: it is loaded, its
\* product is parsed.
PageSteps == [row : 1..DbRows, page : 1..LastPage, step : 1..3]
LinkSteps == [link : [row : 1..DbRows, page : 1..LastPage, k : 1..MaxLinks], step : 1..2]
StepOf == [loading |-> 1, parsing |-> 2, linked |-> 3]

PagesInHand == {[row |-> r, stage |-> "loading"] : r \in Range(categoryPages)}
               \cup Range(pageLoaders)

\* The step s is not behind the page p.
Ahead(s, p) ==
  /\ s.row = p.row.id
  /\ s.page > p.row.page \/ (s.page = p.row.page /\ s.step >= StepOf[p.stage])

\* The steps that are left for the categories, and for the links of every page
\* whose links have not been told, or that wait or are being fetched.
PagesAhead == {s \in PageSteps : s.row > parserOffset \/ \E p \in PagesInHand : Ahead(s, p)}
LinksAhead ==
  {s \in LinkSteps :
     \/ [row |-> s.link.row, page |-> s.link.page, step |-> 2] \in PagesAhead
     \/ \E l \in Range(productLinks) : l.link = s.link
     \/ \E l \in Range(linkLoaders) : l.link = s.link /\ s.step >= StepOf[l.stage]}

WorkLeft == Cardinality(PagesAhead) + Cardinality(LinksAhead)

\* A crawl of shops whose pages end never circles: as long as no SELECT fails,
\* every handler leaves less to do than it found, in whatever order pages end and
\* links are told, and no other step adds to it.  So the handlers run a bounded
\* number of times.
CrawlProgresses ==
  [][dbErrors' = 0 => /\ WorkLeft' <= WorkLeft
                      /\ JobStep => WorkLeft' < WorkLeft]_vars

\* Once load() has read a row the crawl ends with the stamp, unless a pause
\* interferes: every page end triggers enough to reach the last one, if the shops
\* have one.
CrawlCompletes == phase = "crawling" /\ RowsRead > 0 ~> stamped \/ suppressed

\* A service that stays paused becomes idle, and not before the products it
\* knows of are fetched: pausing holds back category pages, not product links.
PausedServiceGoesIdle ==
  <>[]disabled => <>[](LiveLoaders = 0 /\ productLinks = <<>>)

\* What the documentation of pause() and resume() promises: a crawl whose
\* service is not paused for good goes on to its end.
ResumedCrawlContinues ==
  <>[]~disabled /\ <>(phase = "crawling") => <>stamped

=============================================================================
