--------------------------- MODULE CrawlOrderProofs ---------------------------
(***************************************************************************)
(* Theorems about the order in which the crawl scheduler takes things up,  *)
(* on top of the invariant of ParserMainProofs: products come before       *)
(* categories, no row is in two places at once, the scheduler as a whole   *)
(* implements the crawl that module Crawl promises, and it never circles.  *)
(***************************************************************************)
EXTENDS ParserMainProofs, FiniteSetTheorems

-----------------------------------------------------------------------------
(***************************************************************************)
(* What moves in a sequence of loaders.                                    *)
(***************************************************************************)

\* Every entry of s without its i-th was an entry of s, and they keep their order.
LEMMA RemoveAtEntries ==
  ASSUME NEW S, NEW s \in Seq(S), NEW i \in DOMAIN s
  PROVE  /\ DOMAIN RemoveAt(s, i) = 1..(Len(s) - 1)
         /\ \A k \in 1..(Len(s) - 1) :
              RemoveAt(s, i)[k] = s[IF k < i THEN k ELSE k + 1]
<1>1. Len(s) \in Nat /\ i \in 1..Len(s)
  BY LenProperties
<1> DEFINE a == SubSeq(s, 1, i - 1)
           b == SubSeq(s, i + 1, Len(s))
<1>2. /\ a \in Seq(S) /\ Len(a) = i - 1
      /\ \A k \in 1..(i - 1) : a[k] = s[k]
  BY <1>1, ElementOfSeq, SubSeqProperties
<1>3. /\ b \in Seq(S) /\ Len(b) = Len(s) - i
      /\ \A k \in 1..(Len(s) - i) : b[k] = s[i + k]
  <2>1. \A k \in (i + 1)..Len(s) : s[k] \in S
    BY <1>1, ElementOfSeq
  <2>2. /\ b \in Seq(S)
        /\ Len(b) = IF i + 1 <= Len(s) THEN Len(s) - (i + 1) + 1 ELSE 0
        /\ \A k \in 1..(Len(s) - (i + 1) + 1) : b[k] = s[(i + 1) + k - 1]
    BY <1>1, <2>1, SubSeqProperties
  <2>3. \A k \in 1..(Len(s) - i) :
          k \in 1..(Len(s) - (i + 1) + 1) /\ (i + 1) + k - 1 = i + k
    BY <1>1
  <2> QED BY <1>1, <2>2, <2>3
<1>4. RemoveAt(s, i) = a \o b
  BY DEF RemoveAt
<1> HIDE DEF a, b
<1>5. /\ DOMAIN (a \o b) = 1..(Len(s) - 1)
      /\ \A k \in 1..(Len(s) - 1) :
           (a \o b)[k] = IF k <= i - 1 THEN a[k] ELSE b[k - (i - 1)]
  <2>1. /\ a \o b \in Seq(S) /\ Len(a \o b) = Len(a) + Len(b)
        /\ \A k \in 1..(Len(a) + Len(b)) :
             (a \o b)[k] = IF k <= Len(a) THEN a[k] ELSE b[k - Len(a)]
    BY <1>2, <1>3, ConcatProperties
  <2>2. Len(a) + Len(b) = Len(s) - 1
    BY <1>1, <1>2, <1>3
  <2>3. DOMAIN (a \o b) = 1..Len(a \o b)
    BY <2>1, LenProperties
  <2> QED BY <1>2, <2>1, <2>2, <2>3
<1>6. ASSUME NEW k \in 1..(Len(s) - 1)
      PROVE  (a \o b)[k] = s[IF k < i THEN k ELSE k + 1]
  <2>2. CASE k < i
    <3>1. k <= i - 1 /\ k \in 1..(i - 1)
      BY <2>2, <1>1
    <3> QED BY <3>1, <2>2, <1>2, <1>5
  <2>3. CASE ~(k < i)
    <3>1. /\ ~(k <= i - 1) /\ k - (i - 1) \in 1..(Len(s) - i)
          /\ i + (k - (i - 1)) = k + 1
      BY <2>3, <1>1
    <3>2. b[k - (i - 1)] = s[k + 1]
      BY <3>1, <1>3
    <3> QED BY <2>3, <3>1, <3>2, <1>5
  <2> QED BY <2>2, <2>3
<1> QED BY <1>4, <1>5, <1>6

\* The pages that are loading in pls were so in pageLoaders.
NoNewPages(pls) ==
  \A k \in DOMAIN pls : pls[k].stage = "loading"
                          => \E j \in DOMAIN pageLoaders : pageLoaders[j] = pls[k]

LEMMA NoneOpened == ASSUME NoNewPages(pageLoaders') PROVE ~OpensPage
BY DEF NoNewPages, OpensPage

LEMMA RemovedIsOld ==
  ASSUME pageLoaders \in Seq(PageLoader), NEW i \in DOMAIN pageLoaders
  PROVE  NoNewPages(RemoveAt(pageLoaders, i))
<1>1. Len(pageLoaders) \in Nat /\ DOMAIN pageLoaders = 1..Len(pageLoaders)
  BY LenProperties
<1>2. \A k \in 1..(Len(pageLoaders) - 1) :
        (IF k < i THEN k ELSE k + 1) \in DOMAIN pageLoaders
  BY <1>1
<1> QED BY <1>2, RemoveAtEntries DEF NoNewPages

\* A page that is no longer loading is not new.
LEMMA StageMovesOn ==
  ASSUME pageLoaders \in Seq(PageLoader), NEW i \in DOMAIN pageLoaders,
         NEW stage, stage # "loading",
         pageLoaders' = [pageLoaders EXCEPT ![i].stage = stage]
  PROVE  ~OpensPage
<1>1. \A k \in DOMAIN pageLoaders' :
        k \in DOMAIN pageLoaders /\
        (k # i => pageLoaders'[k] = pageLoaders[k])
  OBVIOUS
<1>2. pageLoaders'[i].stage = stage
  <2>1. pageLoaders[i] \in PageLoader
    BY ElementOfSeq, LenProperties
  <2> QED BY <2>1 DEF PageLoader
<1> QED BY <1>1, <1>2 DEF OpensPage

\* A pause keeps loadPage from opening anything.
LEMMA LoadPagePaused ==
  ASSUME disabled, NEW q, NEW w, NEW active, NEW pls \in Seq(PageLoader),
         LoadPage(q, w, active, pls)
  PROVE  pageLoaders' = pls
<1>1. OpenPages(q, 0) = <<>>
  BY DEF OpenPages
<1>2. pageLoaders' = pls \o OpenPages(q, 0)
  BY DEF LoadPage
<1> QED BY <1>1, <1>2, ConcatEmptySeq

-----------------------------------------------------------------------------
(***************************************************************************)
(* When category pages are opened.                                         *)
(***************************************************************************)

\* While a link waits, or during a pause, no handler opens a category page.
LEMMA HandlersOpenNone ==
  ASSUME TypeOK, JobStep, productLinks # <<>> \/ disabled
  PROVE  ~OpensPage
<1>1. pageLoaders \in Seq(PageLoader) /\ linkLoaders \in Seq(LinkLoader)
  BY DEF TypeOK
<1>2. NoNewPages(pageLoaders)
  BY DEF NoNewPages
<1>3. ASSUME NEW w, NEW active, NEW pls \in Seq(PageLoader), NEW lls,
             NoNewPages(pls), ManageParsers(w, active, pls, lls)
      PROVE  ~OpensPage
  <2>1. CASE productLinks # <<>>
    <3>1. pageLoaders' = pls
      BY <1>3, <2>1 DEF ManageParsers
    <3> QED BY <3>1, <1>3, NoneOpened
  <2>2. CASE productLinks = <<>>
    <3>1. PICK q : LoadPage(q, w, active, pls)
      BY <1>3, <2>2 DEF ManageParsers
    <3>2. pageLoaders' = pls
      BY <3>1, <2>2, <1>3, LoadPagePaused
    <3> QED BY <3>2, <1>3, NoneOpened
  <2> QED BY <2>1, <2>2
<1>4. ASSUME NEW i \in DOMAIN pageLoaders, PageStep(i) PROVE ~OpensPage
  <2>0. /\ RemoveAt(pageLoaders, i) \in Seq(PageLoader)
        /\ NoNewPages(RemoveAt(pageLoaders, i))
    BY <1>1, RemoveAtProperties, RemovedIsOld
  <2>1. CASE PageLoaded(i)
    BY <2>1, <1>1, StageMovesOn DEF PageLoaded
  <2>2. ASSUME NEW n \in 0..MaxLinks, GetedLink(i, n) PROVE ~OpensPage
    BY <2>2, <1>1, StageMovesOn DEF GetedLink
  <2>3. CASE NextPage(i)
    <3>1. CASE productLinks # <<>>
      <4>1. pageLoaders' = RemoveAt(pageLoaders, i)
        BY <2>3, <3>1 DEF NextPage
      <4> QED BY <4>1, <2>0, NoneOpened
    <3>2. CASE productLinks = <<>>
      <4>1. PICK q, w, active : LoadPage(q, w, active, RemoveAt(pageLoaders, i))
        BY <2>3, <3>2 DEF NextPage
      <4>2. pageLoaders' = RemoveAt(pageLoaders, i)
        BY <4>1, <3>2, <2>0, LoadPagePaused
      <4> QED BY <4>2, <2>0, NoneOpened
    <3> QED BY <3>1, <3>2
  <2>4. CASE NoNextPage(i)
    BY <2>4, <2>0, <1>3 DEF NoNextPage
  <2> QED BY <1>4, <2>1, <2>2, <2>3, <2>4 DEF PageStep
<1>5. ASSUME NEW i \in DOMAIN linkLoaders, LinkStep(i) PROVE ~OpensPage
  <2>1. CASE LinkLoaded(i)
    <3>1. pageLoaders' = pageLoaders
      BY <2>1 DEF LinkLoaded
    <3> QED BY <3>1, <1>2, NoneOpened
  <2>2. CASE ProductEnd(i)
    BY <2>2, <1>1, <1>2, <1>3 DEF ProductEnd
  <2> QED BY <1>5, <2>1, <2>2 DEF LinkStep
<1> QED BY <1>4, <1>5 DEF JobStep

\* Nor does the timer during a pause.
LEMMA LoadOpensNone == ASSUME TypeOK, Load, disabled PROVE ~OpensPage
<1>1. PICK q, w, active : LoadPage(q, w, active, pageLoaders)
  BY DEF Load
<1>2. pageLoaders' = pageLoaders
  BY <1>1, LoadPagePaused DEF TypeOK
<1> QED BY <1>2 DEF OpensPage

\* So no step opens one during a pause.
LEMMA PausedOpensNone == TypeOK /\ disabled /\ [Next]_vars => ~OpensPage
<1> SUFFICES ASSUME TypeOK, disabled, [Next]_vars PROVE ~OpensPage
  OBVIOUS
<1>1. CASE LoadFails \/ Pause \/ Resume \/ UNCHANGED vars
  <2>1. pageLoaders' = pageLoaders
    BY <1>1 DEF LoadFails, Pause, Resume, loaders, vars
  <2> QED BY <2>1 DEF OpensPage
<1> QED BY <1>1, HandlersOpenNone, LoadOpensNone DEF Next

\* Products first: a category page is opened only when no product link waits.  It
\* needs the invariant only for load(), before which no link can have been found.
THEOREM ProductsFirst == Spec => LinksBeforePages
<1>1. IInv /\ [Next]_vars => [OpensPage => productLinks = <<>>]_vars
  <2> SUFFICES ASSUME IInv, Next, productLinks # <<>> PROVE ~OpensPage
    OBVIOUS
  <2>0. TypeOK
    BY DEF IInv
  <2>1. CASE LoadFails \/ Pause \/ Resume
    <3>1. pageLoaders' = pageLoaders
      BY <2>1 DEF LoadFails, Pause, Resume, loaders
    <3> QED BY <3>1 DEF OpensPage
  <2>2. CASE Load
    <3>1. /\ linksFound = 0 /\ productsDone \in Nat
          /\ Len(linkLoaders) \in Nat /\ Len(productLinks) \in Nat
      BY <2>0, <2>2, EmptyIsLengthZero DEF Load, IInv, Phases, TypeOK
    <3>2. Len(productLinks) = 0
      BY <3>1 DEF IInv, LinksConserved
    <3> QED BY <3>2, <2>0, EmptyIsLengthZero DEF TypeOK
  <2>3. CASE JobStep
    BY <2>0, <2>3, HandlersOpenNone
  <2> QED BY <2>1, <2>2, <2>3 DEF Next
<1> QED BY <1>1, Invariant, PTL DEF Spec, LinksBeforePages, Invariant

-----------------------------------------------------------------------------
(***************************************************************************)
(* A queue and its loaders hold keys: rows have their id, links name       *)
(* themselves.  Whatever moves, no key may be there twice.                 *)
(***************************************************************************)

RowKeys(q) == [i \in 1..Len(q) |-> q[i].id]
PageKeys(pls) == [i \in 1..Len(pls) |-> pls[i].row.id]
LinkKeys(s) == [i \in 1..Len(s) |-> [row |-> s[i].prow, link |-> s[i].link]]

\* No key occurs twice in the queue a and the loaders b.
Apart(a, b) ==
  /\ \A i, j \in DOMAIN a : a[i] = a[j] => i = j
  /\ \A i, j \in DOMAIN b : b[i] = b[j] => i = j
  /\ \A i \in DOMAIN a : \A j \in DOMAIN b : a[i] # b[j]

Together(a, b) == {a[i] : i \in DOMAIN a} \cup {b[j] : j \in DOMAIN b}

\* The first k entries of the queue become loaders.
Moved(a, b, a2, b2, k) ==
  \E m, n \in Nat :
    /\ k \in 0..m
    /\ DOMAIN a = 1..m /\ DOMAIN b = 1..n
    /\ DOMAIN a2 = 1..(m - k) /\ DOMAIN b2 = 1..(n + k)
    /\ \A i \in 1..(m - k) : a2[i] = a[k + i]
    /\ \A j \in 1..(n + k) : b2[j] = IF j <= n THEN b[j] ELSE a[j - n]

LEMMA MovedKeys ==
  ASSUME NEW a, NEW b, NEW a2, NEW b2, NEW k, Moved(a, b, a2, b2, k)
  PROVE  /\ Together(a2, b2) = Together(a, b)
         /\ Apart(a, b) => Apart(a2, b2)
<1>1. PICK m, n \in Nat :
        /\ k \in 0..m
        /\ DOMAIN a = 1..m /\ DOMAIN b = 1..n
        /\ DOMAIN a2 = 1..(m - k) /\ DOMAIN b2 = 1..(n + k)
        /\ \A i \in 1..(m - k) : a2[i] = a[k + i]
        /\ \A j \in 1..(n + k) : b2[j] = IF j <= n THEN b[j] ELSE a[j - n]
  BY DEF Moved
<1>2. Together(a2, b2) \subseteq Together(a, b)
  <2>1. ASSUME NEW i \in 1..(m - k) PROVE k + i \in 1..m
    BY <1>1
  <2>2. ASSUME NEW j \in 1..(n + k)
        PROVE  IF j <= n THEN j \in 1..n ELSE j - n \in 1..m
    BY <1>1
  <2> QED BY <1>1, <2>1, <2>2 DEF Together
<1>3. Together(a, b) \subseteq Together(a2, b2)
  <2>1. ASSUME NEW i \in 1..m PROVE a[i] \in Together(a2, b2)
    <3>1. CASE i <= k
      <4>1. n + i \in 1..(n + k) /\ ~(n + i <= n) /\ (n + i) - n = i
        BY <3>1, <1>1
      <4>2. b2[n + i] = a[i]
        BY <4>1, <1>1
      <4> QED BY <4>1, <4>2, <1>1 DEF Together
    <3>2. CASE ~(i <= k)
      <4>1. i - k \in 1..(m - k) /\ k + (i - k) = i
        BY <3>2, <1>1
      <4>2. a2[i - k] = a[i]
        BY <4>1, <1>1
      <4> QED BY <4>1, <4>2, <1>1 DEF Together
    <3> QED BY <3>1, <3>2
  <2>2. ASSUME NEW j \in 1..n PROVE b[j] \in Together(a2, b2)
    <3>1. j \in 1..(n + k) /\ j <= n
      BY <1>1
    <3>2. b2[j] = b[j]
      BY <3>1, <1>1
    <3> QED BY <3>1, <3>2, <1>1 DEF Together
  <2> QED BY <2>1, <2>2, <1>1 DEF Together
<1>4. ASSUME Apart(a, b) PROVE Apart(a2, b2)
  <2>0. /\ \A i, j \in 1..m : a[i] = a[j] => i = j
        /\ \A i, j \in 1..n : b[i] = b[j] => i = j
        /\ \A i \in 1..m : \A j \in 1..n : a[i] # b[j]
    BY <1>1, <1>4 DEF Apart
  <2>1. ASSUME NEW i \in 1..(m - k), NEW j \in 1..(m - k), a2[i] = a2[j] PROVE i = j
    <3>1. k + i \in 1..m /\ k + j \in 1..m
      BY <1>1
    <3>2. k + i = k + j
      BY <3>1, <2>0, <2>1, <1>1
    <3> QED BY <3>2, <1>1
  <2>2. ASSUME NEW i \in 1..(n + k), NEW j \in 1..(n + k), b2[i] = b2[j] PROVE i = j
    <3>1. /\ IF i <= n THEN i \in 1..n ELSE i - n \in 1..m
          /\ IF j <= n THEN j \in 1..n ELSE j - n \in 1..m
      BY <1>1
    <3>2. (IF i <= n THEN b[i] ELSE a[i - n]) = (IF j <= n THEN b[j] ELSE a[j - n])
      BY <2>2, <1>1
    <3>3. i <= n <=> j <= n
      BY <2>0, <3>1, <3>2
    <3>4. CASE i <= n
      BY <2>0, <3>1, <3>2, <3>3, <3>4
    <3>5. CASE ~(i <= n)
      <4>1. i - n = j - n
        BY <2>0, <3>1, <3>2, <3>3, <3>5
      <4> QED BY <4>1
    <3> QED BY <3>4, <3>5
  <2>3. ASSUME NEW i \in 1..(m - k), NEW j \in 1..(n + k) PROVE a2[i] # b2[j]
    <3>1. k + i \in 1..m /\ a2[i] = a[k + i]
      BY <1>1
    <3>2. CASE j <= n
      <4>1. b2[j] = b[j] /\ j \in 1..n
        BY <3>2, <1>1
      <4> QED BY <4>1, <3>1, <2>0
    <3>3. CASE ~(j <= n)
      <4>1. b2[j] = a[j - n] /\ j - n \in 1..m /\ j - n # k + i
        BY <3>3, <1>1
      <4> QED BY <4>1, <3>1, <2>0
    <3> QED BY <3>2, <3>3
  <2> QED BY <2>1, <2>2, <2>3, <1>1 DEF Apart
<1> QED BY <1>2, <1>3, <1>4

\* The loader i is gone.
Removed(b, b2, i) ==
  \E n \in Nat :
    /\ DOMAIN b = 1..n /\ i \in 1..n /\ DOMAIN b2 = 1..(n - 1)
    /\ \A j \in 1..(n - 1) : b2[j] = b[IF j < i THEN j ELSE j + 1]

LEMMA RemovedKeys ==
  ASSUME NEW a, NEW b, NEW b2, NEW i, Removed(b, b2, i)
  PROVE  /\ \A v : v \in Together(a, b) <=> v \in Together(a, b2) \/ v = b[i]
         /\ Apart(a, b) => Apart(a, b2) /\ b[i] \notin Together(a, b2)
<1>1. PICK n \in Nat :
        /\ DOMAIN b = 1..n /\ i \in 1..n /\ DOMAIN b2 = 1..(n - 1)
        /\ \A j \in 1..(n - 1) : b2[j] = b[IF j < i THEN j ELSE j + 1]
  BY DEF Removed
<1> DEFINE at(j) == IF j < i THEN j ELSE j + 1
<1>2. /\ \A j \in 1..(n - 1) : at(j) \in 1..n /\ at(j) # i /\ b2[j] = b[at(j)]
      /\ \A j, l \in 1..(n - 1) : at(j) = at(l) => j = l
  BY <1>1
<1>3. ASSUME NEW j \in 1..n, j # i PROVE \E l \in 1..(n - 1) : at(l) = j
  <2>1. CASE j < i
    <3>1. j \in 1..(n - 1) /\ at(j) = j
      BY <2>1, <1>1
    <3> QED BY <3>1
  <2>2. CASE ~(j < i)
    <3>1. j - 1 \in 1..(n - 1) /\ at(j - 1) = j
      BY <2>2, <1>1, <1>3
    <3> QED BY <3>1
  <2> QED BY <2>1, <2>2
<1> HIDE DEF at
<1>4. Together(a, b) = Together(a, b2) \cup {b[i]}
  <2>1. {b[j] : j \in 1..n} = {b2[j] : j \in 1..(n - 1)} \cup {b[i]}
    BY <1>1, <1>2, <1>3
  <2> QED BY <2>1, <1>1 DEF Together
<1>5. ASSUME Apart(a, b) PROVE Apart(a, b2) /\ b[i] \notin Together(a, b2)
  BY <1>1, <1>2, <1>5 DEF Apart, Together
<1> QED BY <1>4, <1>5

\* New keys, of the function x, behind the queue.
Appended(a, a2, x) ==
  \E m, n \in Nat :
    /\ DOMAIN a = 1..m /\ DOMAIN x = 1..n /\ DOMAIN a2 = 1..(m + n)
    /\ \A i \in 1..(m + n) : a2[i] = IF i <= m THEN a[i] ELSE x[i - m]

LEMMA AppendedKeys ==
  ASSUME NEW a, NEW a2, NEW x, NEW b, Appended(a, a2, x)
  PROVE  /\ \A v : v \in Together(a2, b)
                   <=> v \in Together(a, b) \/ \E i \in DOMAIN x : v = x[i]
         /\ \A v : v \in Together(b, a2)
                   <=> v \in Together(b, a) \/ \E i \in DOMAIN x : v = x[i]
         /\ /\ \A i, j \in DOMAIN x : x[i] = x[j] => i = j
            /\ \A i \in DOMAIN x : x[i] \notin Together(a, b)
            => /\ Apart(a, b) => Apart(a2, b)
               /\ Apart(b, a) => Apart(b, a2)
<1>1. PICK m, n \in Nat :
        /\ DOMAIN a = 1..m /\ DOMAIN x = 1..n /\ DOMAIN a2 = 1..(m + n)
        /\ \A i \in 1..(m + n) : a2[i] = IF i <= m THEN a[i] ELSE x[i - m]
  BY DEF Appended
<1>2. ASSUME NEW i \in 1..(m + n)
      PROVE  IF i <= m THEN i \in 1..m /\ a2[i] = a[i]
                       ELSE i - m \in 1..n /\ a2[i] = x[i - m]
  BY <1>1
<1>3. ASSUME NEW i \in 1..m PROVE i \in 1..(m + n) /\ a2[i] = a[i]
  BY <1>1
<1>4. ASSUME NEW i \in 1..n PROVE m + i \in 1..(m + n) /\ a2[m + i] = x[i]
  <2>1. m + i \in 1..(m + n) /\ ~(m + i <= m) /\ (m + i) - m = i
    OBVIOUS
  <2> QED BY <2>1, <1>1
<1>5. {a2[i] : i \in 1..(m + n)} = {a[i] : i \in 1..m} \cup {x[i] : i \in 1..n}
  <2>1. {a2[i] : i \in 1..(m + n)} \subseteq {a[i] : i \in 1..m} \cup {x[i] : i \in 1..n}
    BY <1>2
  <2>2. {a[i] : i \in 1..m} \cup {x[i] : i \in 1..n} \subseteq {a2[i] : i \in 1..(m + n)}
    BY <1>3, <1>4
  <2> QED BY <2>1, <2>2
<1>6. /\ Together(a2, b) = Together(a, b) \cup {x[i] : i \in DOMAIN x}
      /\ Together(b, a2) = Together(b, a) \cup {x[i] : i \in DOMAIN x}
  BY <1>1, <1>5 DEF Together
<1>7. ASSUME \A i, j \in DOMAIN x : x[i] = x[j] => i = j,
             \A i \in DOMAIN x : x[i] \notin Together(a, b),
             \A i, j \in DOMAIN a : a[i] = a[j] => i = j,
             NEW i \in DOMAIN a2, NEW j \in DOMAIN a2, a2[i] = a2[j]
      PROVE  i = j
  <2>1. \A k \in 1..m, l \in 1..n : a[k] # x[l]
    BY <1>1, <1>7 DEF Together
  <2>2. i <= m <=> j <= m
    BY <1>1, <1>2, <1>7, <2>1
  <2>3. CASE i <= m
    BY <1>1, <1>2, <1>7, <2>2, <2>3
  <2>4. CASE ~(i <= m)
    <3>1. i - m = j - m
      BY <1>1, <1>2, <1>7, <2>2, <2>4
    <3> QED BY <3>1, <1>1
  <2> QED BY <2>3, <2>4
<1>8. ASSUME \A i \in DOMAIN x : x[i] \notin Together(a, b),
             \A i \in DOMAIN a, j \in DOMAIN b : a[i] # b[j],
             NEW i \in DOMAIN a2, NEW j \in DOMAIN b
      PROVE  a2[i] # b[j]
  BY <1>1, <1>2, <1>8 DEF Together
<1>9. ASSUME \A i, j \in DOMAIN x : x[i] = x[j] => i = j,
             \A i \in DOMAIN x : x[i] \notin Together(a, b)
      PROVE  /\ Apart(a, b) => Apart(a2, b)
             /\ Apart(b, a) => Apart(b, a2)
  BY <1>7, <1>8, <1>9 DEF Apart
<1> QED BY <1>6, <1>9

\* A new key at the head of the queue.
Prepended(a, a2, y) ==
  \E m \in Nat :
    /\ DOMAIN a = 1..m /\ DOMAIN a2 = 1..(m + 1)
    /\ \A i \in 1..(m + 1) : a2[i] = IF i = 1 THEN y ELSE a[i - 1]

LEMMA PrependedKeys ==
  ASSUME NEW a, NEW a2, NEW y, NEW b, Prepended(a, a2, y)
  PROVE  /\ \A v : v \in Together(a2, b) <=> v \in Together(a, b) \/ v = y
         /\ Apart(a, b) /\ y \notin Together(a, b) => Apart(a2, b)
<1>1. PICK m \in Nat :
        /\ DOMAIN a = 1..m /\ DOMAIN a2 = 1..(m + 1)
        /\ \A i \in 1..(m + 1) : a2[i] = IF i = 1 THEN y ELSE a[i - 1]
  BY DEF Prepended
<1>2. ASSUME NEW i \in 1..(m + 1)
      PROVE  IF i = 1 THEN a2[i] = y ELSE i - 1 \in 1..m /\ a2[i] = a[i - 1]
  BY <1>1
<1>3. ASSUME NEW i \in 1..m PROVE i + 1 \in 1..(m + 1) /\ a2[i + 1] = a[i]
  <2>1. i + 1 \in 1..(m + 1) /\ i + 1 # 1 /\ (i + 1) - 1 = i
    OBVIOUS
  <2> QED BY <2>1, <1>1
<1>4. 1 \in 1..(m + 1) /\ a2[1] = y
  BY <1>1
<1>5. {a2[i] : i \in 1..(m + 1)} = {a[i] : i \in 1..m} \cup {y}
  <2>1. {a2[i] : i \in 1..(m + 1)} \subseteq {a[i] : i \in 1..m} \cup {y}
    BY <1>2
  <2>2. {a[i] : i \in 1..m} \cup {y} \subseteq {a2[i] : i \in 1..(m + 1)}
    BY <1>3, <1>4
  <2> QED BY <2>1, <2>2
<1>6. Together(a2, b) = Together(a, b) \cup {y}
  BY <1>1, <1>5 DEF Together
<1>7. ASSUME Apart(a, b), y \notin Together(a, b) PROVE Apart(a2, b)
  <2>1. ASSUME NEW i \in 1..(m + 1), NEW j \in 1..(m + 1), a2[i] = a2[j] PROVE i = j
    <3>1. i = 1 <=> j = 1
      BY <1>1, <1>2, <1>7, <2>1 DEF Together
    <3>2. CASE i = 1
      BY <3>1, <3>2
    <3>3. CASE i # 1
      <4>1. i - 1 = j - 1
        BY <1>1, <1>2, <1>7, <2>1, <3>1, <3>3 DEF Apart
      <4> QED BY <4>1
    <3> QED BY <3>2, <3>3
  <2>2. ASSUME NEW i \in 1..(m + 1), NEW j \in DOMAIN b PROVE a2[i] # b[j]
    BY <1>1, <1>2, <1>7 DEF Apart, Together
  <2> QED BY <1>1, <1>7, <2>1, <2>2 DEF Apart
<1> QED BY <1>6, <1>7

-----------------------------------------------------------------------------
(***************************************************************************)
(* The same of the loops of the scheduler.                                 *)
(***************************************************************************)

\* How far the rows in hand have come, and the links that are not fetched.
QueuedAt(q) == [i \in 1..Len(q) |-> [row |-> q[i], stage |-> "loading"]]
LoadedAt(pls) ==
  [i \in 1..Len(pls) |-> [row |-> pls[i].row, stage |-> pls[i].stage]]
Progress(q, pls) == Together(QueuedAt(q), LoadedAt(pls))
OpenLinksIn(q, lls) == Together(LinkKeys(q), LinkKeys(lls))

RowsApart(q, pls) == Apart(RowKeys(q), PageKeys(pls))
LinksApart(q, lls) == Apart(LinkKeys(q), LinkKeys(lls))

LEMMA RestEntries ==
  ASSUME NEW S, NEW q \in Seq(S), NEW n \in 0..Len(q)
  PROVE  /\ Rest(q, n) \in Seq(S) /\ Len(Rest(q, n)) = Len(q) - n
         /\ \A i \in 1..(Len(q) - n) : Rest(q, n)[i] = q[n + i]
<1>1. Len(q) \in Nat /\ \A k \in (n + 1)..Len(q) : q[k] \in S
  BY ElementOfSeq, LenProperties
<1>2. \A i \in 1..(Len(q) - (n + 1) + 1) :
        SubSeq(q, n + 1, Len(q))[i] = q[(n + 1) + i - 1]
  BY <1>1, SubSeqProperties
<1>3. \A i \in 1..(Len(q) - n) :
        i \in 1..(Len(q) - (n + 1) + 1) /\ (n + 1) + i - 1 = n + i
  BY <1>1
<1> QED BY <1>2, <1>3, RestProperties DEF Rest

LEMMA ConcatEntries ==
  ASSUME NEW S, NEW a \in Seq(S), NEW b \in Seq(S), NEW n, Len(b) = n
  PROVE  /\ a \o b \in Seq(S) /\ Len(a \o b) = Len(a) + n
         /\ \A j \in 1..(Len(a) + n) :
              (a \o b)[j] = IF j <= Len(a) THEN a[j] ELSE b[j - Len(a)]
BY ConcatProperties

LEMMA LoadPageEntries ==
  ASSUME NEW q \in Seq(Row), NEW w \in Int, NEW active,
         NEW pls \in Seq(PageLoader), disabled \in BOOLEAN,
         LoadPage(q, w, active, pls)
  PROVE  \E k \in 0..Len(q) :
           /\ Len(categoryPages') = Len(q) - k
           /\ \A i \in 1..(Len(q) - k) : categoryPages'[i] = q[k + i]
           /\ Len(pageLoaders') = Len(pls) + k
           /\ \A j \in 1..(Len(pls) + k) :
                pageLoaders'[j] = IF j <= Len(pls) THEN pls[j]
                                  ELSE [row |-> q[j - Len(pls)], stage |-> "loading"]
<1> DEFINE k == IF disabled THEN 0 ELSE Started(Len(q), w)
<1>1. Len(q) \in Nat /\ Len(pls) \in Nat
  BY LenProperties
<1>2. k \in 0..Len(q)
  <2>1. Started(Len(q), w) \in 0..Len(q)
    BY <1>1, StartedBounds, CrawlAssumption
  <2> QED BY <1>1, <2>1
<1>3. categoryPages' = Rest(q, k) /\ pageLoaders' = pls \o OpenPages(q, k)
  BY DEF LoadPage
<1> HIDE DEF k
<1>4. /\ Len(categoryPages') = Len(q) - k
      /\ \A i \in 1..(Len(q) - k) : categoryPages'[i] = q[k + i]
  BY <1>2, <1>3, RestEntries
<1>5. /\ OpenPages(q, k) \in Seq(PageLoader) /\ Len(OpenPages(q, k)) = k
      /\ \A j \in 1..k : OpenPages(q, k)[j] = [row |-> q[j], stage |-> "loading"]
  BY <1>2, OpenPagesProperties DEF OpenPages
<1>6. /\ Len(pls \o OpenPages(q, k)) = Len(pls) + k
      /\ \A j \in 1..(Len(pls) + k) :
           (pls \o OpenPages(q, k))[j] = IF j <= Len(pls) THEN pls[j]
                                         ELSE OpenPages(q, k)[j - Len(pls)]
  BY <1>5, ConcatEntries
<1>7. \A j \in 1..(Len(pls) + k) : ~(j <= Len(pls)) => j - Len(pls) \in 1..k
  BY <1>1, <1>2
<1> QED BY <1>2, <1>3, <1>4, <1>5, <1>6, <1>7

\* loadPage moves rows from the queue into loaders, and changes nothing else.
LEMMA LoadPageOrder ==
  ASSUME NEW q \in Seq(Row), NEW w \in Int, NEW active,
         NEW pls \in Seq(PageLoader), disabled \in BOOLEAN,
         LoadPage(q, w, active, pls)
  PROVE  /\ Progress(categoryPages', pageLoaders') = Progress(q, pls)
         /\ RowsApart(q, pls) => RowsApart(categoryPages', pageLoaders')
<1>1. PICK k \in 0..Len(q) :
           /\ Len(categoryPages') = Len(q) - k
           /\ \A i \in 1..(Len(q) - k) : categoryPages'[i] = q[k + i]
           /\ Len(pageLoaders') = Len(pls) + k
           /\ \A j \in 1..(Len(pls) + k) :
                pageLoaders'[j] = IF j <= Len(pls) THEN pls[j]
                                  ELSE [row |-> q[j - Len(pls)], stage |-> "loading"]
  BY LoadPageEntries
<1>2. Len(q) \in Nat /\ Len(pls) \in Nat
  BY LenProperties
<1> DEFINE m == Len(q)  n == Len(pls)
<1>3. /\ \A i \in 1..(m - k) : k + i \in 1..m
      /\ \A j \in 1..(n + k) : IF j <= n THEN j \in 1..n ELSE j - n \in 1..m
  BY <1>1, <1>2
<1>4. Moved(RowKeys(q), PageKeys(pls), RowKeys(categoryPages'), PageKeys(pageLoaders'), k)
  <2>1. /\ DOMAIN RowKeys(q) = 1..m /\ DOMAIN PageKeys(pls) = 1..n
        /\ DOMAIN RowKeys(categoryPages') = 1..(m - k)
        /\ DOMAIN PageKeys(pageLoaders') = 1..(n + k)
    BY <1>1 DEF RowKeys, PageKeys
  <2>2. \A i \in 1..(m - k) : RowKeys(categoryPages')[i] = RowKeys(q)[k + i]
    BY <1>1, <1>3 DEF RowKeys
  <2>3. ASSUME NEW j \in 1..(n + k)
        PROVE  PageKeys(pageLoaders')[j]
                 = IF j <= n THEN PageKeys(pls)[j] ELSE RowKeys(q)[j - n]
    <3>1. PageKeys(pageLoaders')[j] = pageLoaders'[j].row.id
      BY <1>1 DEF PageKeys
    <3>2. CASE j <= n
      BY <3>1, <3>2, <1>1, <1>3 DEF PageKeys
    <3>3. CASE ~(j <= n)
      <4>1. pageLoaders'[j] = [row |-> q[j - n], stage |-> "loading"]
        BY <3>3, <1>1
      <4> QED BY <3>1, <3>3, <4>1, <1>3 DEF RowKeys
    <3> QED BY <3>2, <3>3
  <2> QED BY <1>1, <1>2, <2>1, <2>2, <2>3 DEF Moved
<1>5. Moved(QueuedAt(q), LoadedAt(pls), QueuedAt(categoryPages'), LoadedAt(pageLoaders'), k)
  <2>1. /\ DOMAIN QueuedAt(q) = 1..m /\ DOMAIN LoadedAt(pls) = 1..n
        /\ DOMAIN QueuedAt(categoryPages') = 1..(m - k)
        /\ DOMAIN LoadedAt(pageLoaders') = 1..(n + k)
    BY <1>1 DEF QueuedAt, LoadedAt
  <2>2. \A i \in 1..(m - k) : QueuedAt(categoryPages')[i] = QueuedAt(q)[k + i]
    BY <1>1, <1>3 DEF QueuedAt
  <2>3. ASSUME NEW j \in 1..(n + k)
        PROVE  LoadedAt(pageLoaders')[j]
                 = IF j <= n THEN LoadedAt(pls)[j] ELSE QueuedAt(q)[j - n]
    <3>1. LoadedAt(pageLoaders')[j]
            = [row |-> pageLoaders'[j].row, stage |-> pageLoaders'[j].stage]
      BY <1>1 DEF LoadedAt
    <3>2. CASE j <= n
      BY <3>1, <3>2, <1>1, <1>3 DEF LoadedAt
    <3>3. CASE ~(j <= n)
      <4>1. pageLoaders'[j] = [row |-> q[j - n], stage |-> "loading"]
        BY <3>3, <1>1
      <4>2. pageLoaders'[j].row = q[j - n] /\ pageLoaders'[j].stage = "loading"
        BY <4>1
      <4>3. QueuedAt(q)[j - n] = [row |-> q[j - n], stage |-> "loading"]
        BY <3>3, <1>3 DEF QueuedAt
      <4> QED BY <3>1, <3>3, <4>2, <4>3
    <3> QED BY <3>2, <3>3
  <2> QED BY <1>1, <1>2, <2>1, <2>2, <2>3 DEF Moved
<1> QED BY <1>4, <1>5, MovedKeys DEF Progress, RowsApart

\* The loop that starts waiting links does the same with links.
LEMMA DrainLinksEntries ==
  ASSUME NEW w \in Int, NEW lls \in Seq(LinkLoader),
         productLinks \in Seq(LinkObject), DrainLinks(w, lls)
  PROVE  \E k \in 0..Len(productLinks) :
           /\ Len(productLinks') = Len(productLinks) - k
           /\ \A i \in 1..(Len(productLinks) - k) : productLinks'[i] = productLinks[k + i]
           /\ Len(linkLoaders') = Len(lls) + k
           /\ \A j \in 1..(Len(lls) + k) :
                linkLoaders'[j] = IF j <= Len(lls) THEN lls[j]
                                  ELSE [prow |-> productLinks[j - Len(lls)].prow,
                                        link |-> productLinks[j - Len(lls)].link,
                                        stage |-> "loading"]
<1> DEFINE k == Started(Len(productLinks), w)
           m == Len(productLinks)  n == Len(lls)
<1>1. m \in Nat /\ n \in Nat
  BY LenProperties
<1>2. k \in 0..m
  BY <1>1, StartedBounds, CrawlAssumption
<1>3. /\ productLinks' = Rest(productLinks, k)
      /\ linkLoaders' = lls \o OpenLinks(productLinks, k)
  BY DEF DrainLinks
<1> HIDE DEF k
<1>4. /\ Len(productLinks') = m - k
      /\ \A i \in 1..(m - k) : productLinks'[i] = productLinks[k + i]
  BY <1>2, <1>3, RestEntries
<1>5. /\ OpenLinks(productLinks, k) \in Seq(LinkLoader)
      /\ Len(OpenLinks(productLinks, k)) = k
      /\ \A j \in 1..k : OpenLinks(productLinks, k)[j]
                           = [prow |-> productLinks[j].prow,
                              link |-> productLinks[j].link, stage |-> "loading"]
  BY <1>2, OpenLinksProperties DEF OpenLinks
<1>6. /\ Len(linkLoaders') = n + k
      /\ \A j \in 1..(n + k) :
           linkLoaders'[j] = IF j <= n THEN lls[j]
                             ELSE OpenLinks(productLinks, k)[j - n]
  BY <1>3, <1>5, ConcatEntries
<1>7. \A j \in 1..(n + k) : ~(j <= n) => j - n \in 1..k
  BY <1>1, <1>2
<1> QED BY <1>2, <1>4, <1>5, <1>6, <1>7

\* How far the links have come that are not fetched.
WaitingAt(q) == [i \in 1..Len(q) |-> [link |-> q[i].link, stage |-> "loading"]]
FetchedAt(lls) == [i \in 1..Len(lls) |-> [link |-> lls[i].link, stage |-> lls[i].stage]]
LinkProgress(q, lls) == Together(WaitingAt(q), FetchedAt(lls))

LEMMA DrainLinksOrder ==
  ASSUME NEW w \in Int, NEW lls \in Seq(LinkLoader),
         productLinks \in Seq(LinkObject), DrainLinks(w, lls)
  PROVE  /\ OpenLinksIn(productLinks', linkLoaders') = OpenLinksIn(productLinks, lls)
         /\ LinkProgress(productLinks', linkLoaders') = LinkProgress(productLinks, lls)
         /\ LinksApart(productLinks, lls) => LinksApart(productLinks', linkLoaders')
<1> DEFINE m == Len(productLinks)  n == Len(lls)
<1>1. m \in Nat /\ n \in Nat
  BY LenProperties
<1>2. PICK k \in 0..m :
           /\ Len(productLinks') = m - k
           /\ \A i \in 1..(m - k) : productLinks'[i] = productLinks[k + i]
           /\ Len(linkLoaders') = n + k
           /\ \A j \in 1..(n + k) :
                linkLoaders'[j] = IF j <= n THEN lls[j]
                                  ELSE [prow |-> productLinks[j - n].prow,
                                        link |-> productLinks[j - n].link,
                                        stage |-> "loading"]
  BY DrainLinksEntries
<1>7. /\ \A i \in 1..(m - k) : k + i \in 1..m
      /\ \A j \in 1..(n + k) : IF j <= n THEN j \in 1..n ELSE j - n \in 1..m
  BY <1>1, <1>2
<1>8. Moved(LinkKeys(productLinks), LinkKeys(lls),
            LinkKeys(productLinks'), LinkKeys(linkLoaders'), k)
  <2>1. /\ DOMAIN LinkKeys(productLinks) = 1..m /\ DOMAIN LinkKeys(lls) = 1..n
        /\ DOMAIN LinkKeys(productLinks') = 1..(m - k)
        /\ DOMAIN LinkKeys(linkLoaders') = 1..(n + k)
    BY <1>2 DEF LinkKeys
  <2>2. \A i \in 1..(m - k) : LinkKeys(productLinks')[i] = LinkKeys(productLinks)[k + i]
    BY <1>2, <1>7 DEF LinkKeys
  <2>3. ASSUME NEW j \in 1..(n + k)
        PROVE  LinkKeys(linkLoaders')[j]
                 = IF j <= n THEN LinkKeys(lls)[j] ELSE LinkKeys(productLinks)[j - n]
    BY <1>2, <1>7 DEF LinkKeys
  <2> QED BY <1>1, <1>2, <2>1, <2>2, <2>3 DEF Moved
<1>9. Moved(WaitingAt(productLinks), FetchedAt(lls),
            WaitingAt(productLinks'), FetchedAt(linkLoaders'), k)
  <2>1. /\ DOMAIN WaitingAt(productLinks) = 1..m /\ DOMAIN FetchedAt(lls) = 1..n
        /\ DOMAIN WaitingAt(productLinks') = 1..(m - k)
        /\ DOMAIN FetchedAt(linkLoaders') = 1..(n + k)
    BY <1>2 DEF WaitingAt, FetchedAt
  <2>2. \A i \in 1..(m - k) : WaitingAt(productLinks')[i] = WaitingAt(productLinks)[k + i]
    BY <1>2, <1>7 DEF WaitingAt
  <2>3. ASSUME NEW j \in 1..(n + k)
        PROVE  FetchedAt(linkLoaders')[j]
                 = IF j <= n THEN FetchedAt(lls)[j] ELSE WaitingAt(productLinks)[j - n]
    BY <1>2, <1>7 DEF WaitingAt, FetchedAt
  <2> QED BY <1>1, <1>2, <2>1, <2>2, <2>3 DEF Moved
<1>10. /\ Together(LinkKeys(productLinks'), LinkKeys(linkLoaders'))
            = Together(LinkKeys(productLinks), LinkKeys(lls))
       /\ Apart(LinkKeys(productLinks), LinkKeys(lls))
            => Apart(LinkKeys(productLinks'), LinkKeys(linkLoaders'))
  BY <1>8, MovedKeys
<1>11. Together(WaitingAt(productLinks'), FetchedAt(linkLoaders'))
         = Together(WaitingAt(productLinks), FetchedAt(lls))
  BY <1>9, MovedKeys
<1> QED BY <1>10, <1>11 DEF OpenLinksIn, LinkProgress, LinksApart

\* The rows that a SELECT from offset o to offset o2 has delivered.
NewRows(o, o2) ==
  {[row |-> [id |-> r, page |-> 1], stage |-> "loading"] : r \in (o + 1)..o2}

\* The window that a SELECT delivers is behind every row read before, and in the
\* table; a failing one, or none at all, adds nothing.
LEMMA QueryOrder ==
  ASSUME NEW q \in Seq(Row), NEW pls, NEW offset \in Int,
         NEW size \in QuerySizes(offset),
         disabled \in BOOLEAN, dbErrors \in Nat, LoadDbData(offset, size)
  PROVE  LET q2 == QueueAfterQuery(q, offset, size) IN
         /\ q2 \in Seq(Row)
         /\ Progress(q2, pls) = Progress(q, pls) \cup NewRows(offset, parserOffset')
         /\ (offset + 1)..parserOffset' \subseteq 1..DbRows
         /\ dbErrors' \in Nat /\ dbErrors' >= dbErrors
         /\ dbErrors' = dbErrors => parserOffset' >= offset
         /\ RowsApart(q, pls) /\ (\A p \in Progress(q, pls) : p.row.id <= offset)
            => RowsApart(q2, pls)
<1> DEFINE k == IF disabled \/ size < 0 THEN 0 ELSE size
           q2 == QueueAfterQuery(q, offset, size)
           x == [i \in 1..k |-> [id |-> offset + i, page |-> 1]]
<1>1. /\ size \in Int /\ size >= -1
      /\ size > 0 => offset >= 0 /\ offset + size <= DbRows
  BY CrawlAssumption DEF QuerySizes, RowsAvailable
<1>2. k \in Nat /\ Len(q) \in Nat
  BY <1>1, LenProperties
<1>3. /\ dbErrors' \in Nat /\ dbErrors' >= dbErrors
      /\ dbErrors' = dbErrors => parserOffset' = offset + k
      /\ parserOffset' = offset + k \/ (k = 0 /\ parserOffset' = offset - 1)
      /\ k > 0 => offset >= 0 /\ offset + k <= DbRows
  BY <1>1 DEF LoadDbData
<1>4. (offset + 1)..parserOffset' = (offset + 1)..(offset + k)
  BY <1>2, <1>3
<1>5. x \in Seq(Row) /\ Len(x) = k /\ \A i \in 1..k : x[i] = [id |-> offset + i, page |-> 1]
  <2>1. x \in [1..k -> Row]
    BY CrawlAssumption DEF Row
  <2> QED BY <2>1, <1>2, FunctionIsSeq
<1>6. q2 = q \o x
  <2>1. CASE disabled
    <3>1. k = 0 /\ q2 = q
      BY <2>1 DEF QueueAfterQuery
    <3>2. x = <<>>
      BY <3>1
    <3> QED BY <3>1, <3>2, ConcatEmptySeq
  <2>2. CASE ~disabled
    <3>1. FetchedRows(offset, size) = x
      BY <2>2, <1>1 DEF FetchedRows
    <3> QED BY <3>1, <2>2 DEF QueueAfterQuery
  <2> QED BY <2>1, <2>2
<1> HIDE DEF x, k, q2
<1>7. /\ q2 \in Seq(Row) /\ Len(q2) = Len(q) + k
      /\ \A i \in 1..(Len(q) + k) : q2[i] = IF i <= Len(q) THEN q[i] ELSE x[i - Len(q)]
  BY <1>5, <1>6, ConcatEntries
<1>8. \A i \in 1..(Len(q) + k) : IF i <= Len(q) THEN i \in 1..Len(q)
                                 ELSE i - Len(q) \in 1..k
  BY <1>2
<1> DEFINE y == [i \in 1..k |-> [row |-> x[i], stage |-> "loading"]]
<1>9. Appended(QueuedAt(q), QueuedAt(q2), y)
  <2>1. /\ DOMAIN QueuedAt(q) = 1..Len(q) /\ DOMAIN y = 1..k
        /\ DOMAIN QueuedAt(q2) = 1..(Len(q) + k)
    BY <1>7 DEF QueuedAt
  <2>2. \A i \in 1..(Len(q) + k) :
          QueuedAt(q2)[i] = IF i <= Len(q) THEN QueuedAt(q)[i] ELSE y[i - Len(q)]
    BY <1>7, <1>8 DEF QueuedAt
  <2> QED BY <1>2, <2>1, <2>2 DEF Appended
<1>10. {y[i] : i \in DOMAIN y} = NewRows(offset, parserOffset')
  <2>1. \A i \in 1..k : y[i] = [row |-> [id |-> offset + i, page |-> 1], stage |-> "loading"]
    BY <1>5
  <2>2. DOMAIN y = 1..k
    OBVIOUS
  <2>3. NewRows(offset, parserOffset')
          = {[row |-> [id |-> r, page |-> 1], stage |-> "loading"] :
               r \in (offset + 1)..(offset + k)}
    BY <1>4 DEF NewRows
  <2> HIDE DEF y
  <2>4. ASSUME NEW i \in 1..k PROVE y[i] \in NewRows(offset, parserOffset')
    <3>1. offset + i \in (offset + 1)..(offset + k)
      BY <1>2
    <3> QED BY <3>1, <2>1, <2>3
  <2>5. ASSUME NEW r \in (offset + 1)..(offset + k)
        PROVE  \E i \in 1..k : offset + i = r
    <3> DEFINE i == r - offset
    <3>1. r \in Int /\ r >= offset + 1 /\ r <= offset + k
      BY <1>2
    <3>2. i \in Int /\ 1 <= i /\ i <= k /\ offset + i = r
      BY <3>1, <1>2
    <3> QED BY <3>2, <1>2
  <2>6. ASSUME NEW v \in NewRows(offset, parserOffset') PROVE \E i \in 1..k : v = y[i]
    BY <2>1, <2>3, <2>5
  <2>7. {y[i] : i \in DOMAIN y} \subseteq NewRows(offset, parserOffset')
    BY <2>2, <2>4
  <2>8. NewRows(offset, parserOffset') \subseteq {y[i] : i \in DOMAIN y}
    BY <2>2, <2>6
  <2> QED BY <2>7, <2>8
<1>11. Progress(q2, pls) = Progress(q, pls) \cup NewRows(offset, parserOffset')
  <2> HIDE DEF y
  <2>1. \A v : v \in Together(QueuedAt(q2), LoadedAt(pls))
                 <=> \/ v \in Together(QueuedAt(q), LoadedAt(pls))
                     \/ \E i \in DOMAIN y : v = y[i]
    BY <1>9, AppendedKeys
  <2>2. \A v : v \in Progress(q2, pls)
                 <=> v \in Progress(q, pls) \/ v \in NewRows(offset, parserOffset')
    BY <1>10, <2>1 DEF Progress
  <2> QED BY <2>2
<1>12. ASSUME RowsApart(q, pls), \A p \in Progress(q, pls) : p.row.id <= offset
       PROVE  RowsApart(q2, pls)
  <2> DEFINE z == [i \in 1..k |-> offset + i]
  <2>1. Appended(RowKeys(q), RowKeys(q2), z)
    <3>1. /\ DOMAIN RowKeys(q) = 1..Len(q) /\ DOMAIN z = 1..k
          /\ DOMAIN RowKeys(q2) = 1..(Len(q) + k)
      BY <1>7 DEF RowKeys
    <3>2. \A i \in 1..(Len(q) + k) :
            RowKeys(q2)[i] = IF i <= Len(q) THEN RowKeys(q)[i] ELSE z[i - Len(q)]
      BY <1>5, <1>7, <1>8 DEF RowKeys
    <3> QED BY <1>2, <3>1, <3>2 DEF Appended
  <2>2. \A i, j \in 1..k : z[i] = z[j] => i = j
    BY <1>2
  <2>3. ASSUME NEW key \in Together(RowKeys(q), PageKeys(pls))
        PROVE  \E p \in Progress(q, pls) : p.row.id = key
    <3>1. CASE \E i \in 1..Len(q) : key = q[i].id
      <4>1. PICK i \in 1..Len(q) : key = q[i].id
        BY <3>1
      <4>2. i \in DOMAIN QueuedAt(q) /\ QueuedAt(q)[i].row.id = key
        BY <4>1 DEF QueuedAt
      <4> QED BY <4>2 DEF Progress, Together
    <3>2. CASE \E j \in 1..Len(pls) : key = pls[j].row.id
      <4>1. PICK j \in 1..Len(pls) : key = pls[j].row.id
        BY <3>2
      <4>2. j \in DOMAIN LoadedAt(pls) /\ LoadedAt(pls)[j].row.id = key
        BY <4>1 DEF LoadedAt
      <4> QED BY <4>2 DEF Progress, Together
    <3> QED BY <3>1, <3>2 DEF Together, RowKeys, PageKeys
  <2>4. \A i \in 1..k : z[i] \notin Together(RowKeys(q), PageKeys(pls))
    <3>1. \A key \in Together(RowKeys(q), PageKeys(pls)) : key <= offset
      BY <1>12, <2>3
    <3>2. \A i \in 1..k : ~(offset + i <= offset)
      BY <1>2
    <3> QED BY <3>1, <3>2
  <2>5. DOMAIN z = 1..k
    OBVIOUS
  <2> HIDE DEF z
  <2>6. /\ \A i, j \in DOMAIN z : z[i] = z[j] => i = j
        /\ \A i \in DOMAIN z : z[i] \notin Together(RowKeys(q), PageKeys(pls))
    BY <2>2, <2>4, <2>5
  <2>7. Apart(RowKeys(q), PageKeys(pls)) => Apart(RowKeys(q2), PageKeys(pls))
    BY <2>1, <2>6, AppendedKeys
  <2> QED BY <1>12, <2>7 DEF RowsApart
<1>13. (offset + 1)..parserOffset' \subseteq 1..DbRows
  BY <1>2, <1>3, <1>4, CrawlAssumption
<1>14. dbErrors' = dbErrors => parserOffset' >= offset
  BY <1>2, <1>3
<1> QED BY <1>3, <1>7, <1>11, <1>12, <1>13, <1>14 DEF q2

-----------------------------------------------------------------------------
(***************************************************************************)
(* What a handler does to rows and links, once it has taken its own page   *)
(* out: pls and lls are the loaders that are left, q the queue of rows.    *)
(***************************************************************************)
Continues(q, pls, lls) ==
  /\ Progress(categoryPages', pageLoaders')
       = Progress(q, pls) \cup NewRows(parserOffset, parserOffset')
  /\ OpenLinksIn(productLinks', linkLoaders') = OpenLinksIn(productLinks, lls)
  /\ LinkProgress(productLinks', linkLoaders') = LinkProgress(productLinks, lls)
  /\ (parserOffset + 1)..parserOffset' \subseteq 1..DbRows
  /\ dbErrors' >= dbErrors
  /\ dbErrors' = dbErrors => parserOffset' >= parserOffset
  /\ suppressed => suppressed'
  /\ LinksApart(productLinks, lls) => LinksApart(productLinks', linkLoaders')
  /\ RowsApart(q, pls) /\ (\A p \in Progress(q, pls) : p.row.id <= parserOffset)
       => RowsApart(categoryPages', pageLoaders')

LEMMA NoNewRows == ASSUME NEW o \in Int PROVE (o + 1)..o = {} /\ NewRows(o, o) = {}
<1>1. (o + 1)..o = {}
  OBVIOUS
<1> QED BY <1>1 DEF NewRows

\* The loop over the links, with the queue of rows as it is.
LEMMA DrainContinues ==
  ASSUME TypeOK, NEW q, NEW pls, NEW lls \in Seq(LinkLoader), NEW w \in Int,
         DrainLinks(w, lls), categoryPages' = q, pageLoaders' = pls,
         UNCHANGED <<parserOffset, dbErrors, suppressed>>
  PROVE  Continues(q, pls, lls)
<1>1. /\ OpenLinksIn(productLinks', linkLoaders') = OpenLinksIn(productLinks, lls)
      /\ LinkProgress(productLinks', linkLoaders') = LinkProgress(productLinks, lls)
      /\ LinksApart(productLinks, lls) => LinksApart(productLinks', linkLoaders')
  BY DrainLinksOrder DEF TypeOK
<1>2. /\ (parserOffset + 1)..parserOffset' = {}
      /\ NewRows(parserOffset, parserOffset') = {}
  BY NoNewRows DEF TypeOK
<1>3. dbErrors' >= dbErrors /\ parserOffset' >= parserOffset
  BY DEF TypeOK
<1> QED BY <1>1, <1>2, <1>3 DEF Continues

\* loadPage, with the links as they are.
LEMMA LoadPageContinues ==
  ASSUME TypeOK, NEW q \in Seq(Row), NEW pls \in Seq(PageLoader), NEW lls,
         NEW w \in Int, NEW active, LoadPage(q, w, active, pls),
         linkLoaders' = lls, UNCHANGED <<productLinks, parserOffset, dbErrors>>,
         suppressed => suppressed'
  PROVE  Continues(q, pls, lls)
<1>1. /\ Progress(categoryPages', pageLoaders') = Progress(q, pls)
      /\ RowsApart(q, pls) => RowsApart(categoryPages', pageLoaders')
  BY LoadPageOrder DEF TypeOK
<1>2. /\ (parserOffset + 1)..parserOffset' = {}
      /\ NewRows(parserOffset, parserOffset') = {}
  BY NoNewRows DEF TypeOK
<1>3. dbErrors' >= dbErrors /\ parserOffset' >= parserOffset
  BY DEF TypeOK
<1>4. /\ OpenLinksIn(productLinks', linkLoaders') = OpenLinksIn(productLinks, lls)
      /\ LinkProgress(productLinks', linkLoaders') = LinkProgress(productLinks, lls)
  OBVIOUS
<1> QED BY <1>1, <1>2, <1>3, <1>4 DEF Continues

\* loadDbData and loadPage.
LEMMA QueryContinues ==
  ASSUME TypeOK, NEW q \in Seq(Row), NEW pls \in Seq(PageLoader), NEW lls,
         NEW w \in Int, NEW active, NEW size \in QuerySizes(parserOffset),
         LoadDbData(parserOffset, size),
         LoadPage(QueueAfterQuery(q, parserOffset, size), w, active, pls),
         linkLoaders' = lls, UNCHANGED productLinks, suppressed => suppressed'
  PROVE  Continues(q, pls, lls)
<1> DEFINE q2 == QueueAfterQuery(q, parserOffset, size)
<1>1. /\ q2 \in Seq(Row)
      /\ Progress(q2, pls) = Progress(q, pls) \cup NewRows(parserOffset, parserOffset')
      /\ (parserOffset + 1)..parserOffset' \subseteq 1..DbRows
      /\ dbErrors' \in Nat /\ dbErrors' >= dbErrors
      /\ dbErrors' = dbErrors => parserOffset' >= parserOffset
      /\ RowsApart(q, pls) /\ (\A p \in Progress(q, pls) : p.row.id <= parserOffset)
            => RowsApart(q2, pls)
  BY QueryOrder DEF TypeOK
<1>2. /\ Progress(categoryPages', pageLoaders') = Progress(q2, pls)
      /\ RowsApart(q2, pls) => RowsApart(categoryPages', pageLoaders')
  BY <1>1, LoadPageOrder DEF TypeOK
<1> HIDE DEF q2
<1>3. /\ OpenLinksIn(productLinks', linkLoaders') = OpenLinksIn(productLinks, lls)
      /\ LinkProgress(productLinks', linkLoaders') = LinkProgress(productLinks, lls)
  OBVIOUS
<1> QED BY <1>1, <1>2, <1>3 DEF Continues

LEMMA ManageParsersContinues ==
  ASSUME TypeOK, NEW pls \in Seq(PageLoader), NEW lls \in Seq(LinkLoader),
         NEW w \in Int, NEW active, ManageParsers(w, active, pls, lls)
  PROVE  Continues(categoryPages, pls, lls)
<1>0. categoryPages \in Seq(Row) /\ <<>> \in Seq(Row)
  BY DEF TypeOK
<1>1. CASE productLinks # <<>>
  <2>1. /\ DrainLinks(w, lls) /\ pageLoaders' = pls
        /\ UNCHANGED <<categoryPages, parserOffset, dbErrors, suppressed>>
    BY <1>1 DEF ManageParsers
  <2> QED BY <2>1, DrainContinues
<1>2. CASE productLinks = <<>> /\ categoryPages # <<>>
  <2>1. /\ LoadPage(categoryPages, w, active, pls) /\ linkLoaders' = lls
        /\ UNCHANGED <<productLinks, parserOffset, dbErrors>>
        /\ suppressed => suppressed'
    BY <1>2 DEF ManageParsers
  <2> QED BY <1>0, <2>1, LoadPageContinues
<1>3. CASE productLinks = <<>> /\ categoryPages = <<>>
  <2>1. PICK size \in QuerySizes(parserOffset) :
          /\ LoadDbData(parserOffset, size)
          /\ LoadPage(QueueAfterQuery(<<>>, parserOffset, size), w, active, pls)
    BY <1>3 DEF ManageParsers
  <2>2. linkLoaders' = lls /\ UNCHANGED productLinks /\ (suppressed => suppressed')
    BY <1>3 DEF ManageParsers
  <2> QED BY <1>0, <1>3, <2>1, <2>2, QueryContinues
<1> QED BY <1>1, <1>2, <1>3

-----------------------------------------------------------------------------
(***************************************************************************)
(* The invariant: rows in hand are in one place and have been read; a link *)
(* that is open was found on a page that its row has left behind, or on    *)
(* the one whose links have just been told.                                *)
(***************************************************************************)
Fresh(P, L, o) ==
  /\ \A p \in P : p.row.id <= o
  /\ \A l \in L : /\ l.link.row <= o
                  /\ \A p \in P : l.link.row = p.row.id =>
                       IF p.stage = "linked" THEN l.link.page <= p.row.page
                                   ELSE l.link.page < p.row.page

Ordered(q, pls, links, lls) ==
  LET P == Progress(q, pls)
      L == OpenLinksIn(links, lls)
  IN  /\ \A p \in P : p.row.id \in 1..DbRows
      /\ \A l \in L : l.row = l.link.row /\ l.row \in 1..DbRows
      /\ dbErrors = 0 => /\ RowsApart(q, pls) /\ LinksApart(links, lls)
                         /\ Fresh(P, L, parserOffset)

InOrder == Ordered(categoryPages, pageLoaders, productLinks, linkLoaders)

LEMMA TypedEntries ==
  ASSUME NEW q \in Seq(Row), NEW pls \in Seq(PageLoader),
         NEW links \in Seq(LinkObject), NEW lls \in Seq(LinkLoader)
  PROVE  /\ \A p \in Progress(q, pls) : p \in PageLoader
         /\ \A l \in OpenLinksIn(links, lls) : l \in [row : Int, link : Link]
<1>1. /\ \A i \in 1..Len(q) : q[i] \in Row
      /\ \A i \in 1..Len(pls) : pls[i] \in PageLoader
      /\ \A i \in 1..Len(links) : links[i] \in LinkObject
      /\ \A i \in 1..Len(lls) : lls[i] \in LinkLoader
  BY ElementOfSeq
<1>2. \A i \in 1..Len(q) : QueuedAt(q)[i] \in PageLoader
  BY <1>1 DEF QueuedAt, PageLoader
<1>3. \A i \in 1..Len(pls) : LoadedAt(pls)[i] \in PageLoader
  BY <1>1 DEF LoadedAt, PageLoader
<1>4. \A i \in 1..Len(links) : LinkKeys(links)[i] \in [row : Int, link : Link]
  BY <1>1 DEF LinkKeys, LinkObject
<1>5. \A i \in 1..Len(lls) : LinkKeys(lls)[i] \in [row : Int, link : Link]
  BY <1>1 DEF LinkKeys, LinkLoader
<1>6. /\ DOMAIN QueuedAt(q) = 1..Len(q) /\ DOMAIN LoadedAt(pls) = 1..Len(pls)
      /\ DOMAIN LinkKeys(links) = 1..Len(links) /\ DOMAIN LinkKeys(lls) = 1..Len(lls)
  BY DEF QueuedAt, LoadedAt, LinkKeys
<1> QED BY <1>2, <1>3, <1>4, <1>5, <1>6 DEF Progress, OpenLinksIn, Together

LEMMA ContinuesInOrder ==
  ASSUME TypeOK, dbErrors' \in Nat, parserOffset' \in Int,
         NEW q \in Seq(Row), NEW pls \in Seq(PageLoader), NEW lls \in Seq(LinkLoader),
         Continues(q, pls, lls), Ordered(q, pls, productLinks, lls)
  PROVE  InOrder'
<1> DEFINE P0 == Progress(q, pls)
           L0 == OpenLinksIn(productLinks, lls)
           N  == NewRows(parserOffset, parserOffset')
           P2 == Progress(categoryPages', pageLoaders')
           L2 == OpenLinksIn(productLinks', linkLoaders')
<1>1. /\ P2 = P0 \cup N /\ L2 = L0
      /\ (parserOffset + 1)..parserOffset' \subseteq 1..DbRows
      /\ dbErrors' >= dbErrors
      /\ dbErrors' = dbErrors => parserOffset' >= parserOffset
      /\ LinksApart(productLinks, lls) => LinksApart(productLinks', linkLoaders')
      /\ RowsApart(q, pls) /\ (\A p \in P0 : p.row.id <= parserOffset)
           => RowsApart(categoryPages', pageLoaders')
  BY DEF Continues
<1>2. /\ \A p \in P0 : p.row.id \in 1..DbRows
      /\ \A l \in L0 : l.row = l.link.row /\ l.row \in 1..DbRows
      /\ dbErrors = 0 => /\ RowsApart(q, pls) /\ LinksApart(productLinks, lls)
                         /\ Fresh(P0, L0, parserOffset)
  BY DEF Ordered
<1>3. \A p \in N : p.row.id \in (parserOffset + 1)..parserOffset'
  BY DEF NewRows
<1>4. \A l \in L0 : l.link.row \in Int
  <2>1. \A l \in L0 : l \in [row : Int, link : Link]
    BY TypedEntries DEF TypeOK
  <2> QED BY <2>1 DEF Link
<1>5. parserOffset \in Int /\ dbErrors \in Nat
  BY DEF TypeOK
<1> HIDE DEF P0, L0, N, P2, L2
<1>6. \A p \in P2 : p.row.id \in 1..DbRows
  BY <1>1, <1>2, <1>3
<1>7. ASSUME dbErrors' = 0
      PROVE  /\ RowsApart(categoryPages', pageLoaders')
             /\ LinksApart(productLinks', linkLoaders')
             /\ Fresh(P2, L2, parserOffset')
  <2>1. dbErrors = 0 /\ parserOffset' >= parserOffset
    BY <1>1, <1>5, <1>7
  <2>2. /\ RowsApart(q, pls) /\ LinksApart(productLinks, lls)
        /\ Fresh(P0, L0, parserOffset)
    BY <1>2, <2>1
  <2>3. \A p \in P2 : p.row.id <= parserOffset'
    <3>1. \A p \in P0 : p.row.id <= parserOffset /\ p.row.id \in Int
      BY <1>2, <2>2 DEF Fresh
    <3> QED BY <1>1, <1>3, <1>5, <2>1, <3>1
  <2>4. ASSUME NEW l \in L2
        PROVE  /\ l.link.row <= parserOffset'
               /\ \A p \in P2 : l.link.row = p.row.id =>
                    IF p.stage = "linked" THEN l.link.page <= p.row.page
                                ELSE l.link.page < p.row.page
    <3>1. l \in L0 /\ l.link.row \in Int
      BY <1>1, <1>4
    <3>2. /\ l.link.row <= parserOffset
          /\ \A p \in P0 : l.link.row = p.row.id =>
               IF p.stage = "linked" THEN l.link.page <= p.row.page
                           ELSE l.link.page < p.row.page
      BY <2>2, <3>1 DEF Fresh
    <3>3. \A p \in N : l.link.row # p.row.id
      BY <1>3, <1>5, <3>1, <3>2
    <3>4. l.link.row <= parserOffset'
      BY <1>5, <2>1, <3>1, <3>2
    <3> QED BY <1>1, <3>2, <3>3, <3>4
  <2>5. Fresh(P2, L2, parserOffset')
    BY <2>3, <2>4 DEF Fresh
  <2> QED BY <1>1, <2>2, <2>5 DEF Fresh
<1> QED BY <1>1, <1>2, <1>6, <1>7 DEF InOrder, Ordered, P2, L2

-----------------------------------------------------------------------------
(***************************************************************************)
(* Every handler keeps the order.                                          *)
(***************************************************************************)

OInv == IInv /\ InOrder

\* The invariant of a queue carries over to what is left of the loaders.
LEMMA FewerOrdered ==
  ASSUME NEW q, NEW pls, NEW links, NEW lls, NEW q2, NEW pls2, NEW links2, NEW lls2,
         Ordered(q, pls, links, lls),
         Progress(q2, pls2) \subseteq Progress(q, pls),
         OpenLinksIn(links2, lls2) \subseteq OpenLinksIn(links, lls),
         RowsApart(q, pls) => RowsApart(q2, pls2),
         LinksApart(links, lls) => LinksApart(links2, lls2)
  PROVE  Ordered(q2, pls2, links2, lls2)
<1>1. ASSUME dbErrors = 0
      PROVE  Fresh(Progress(q2, pls2), OpenLinksIn(links2, lls2), parserOffset)
  BY <1>1 DEF Ordered, Fresh
<1> QED BY <1>1 DEF Ordered

\* Taking the page i out of the loaders: its row is in no other place.
LEMMA RemovePage ==
  ASSUME NEW q, NEW pls \in Seq(PageLoader), NEW i \in DOMAIN pls
  PROVE  LET pls2 == RemoveAt(pls, i)
             here == [row |-> pls[i].row, stage |-> pls[i].stage]
         IN  /\ \A p : p \in Progress(q, pls) <=> p \in Progress(q, pls2) \/ p = here
             /\ RowsApart(q, pls) =>
                  /\ RowsApart(q, pls2)
                  /\ pls[i].row.id \notin Together(RowKeys(q), PageKeys(pls2))
<1> DEFINE pls2 == RemoveAt(pls, i)  n == Len(pls)
<1>1. n \in Nat /\ DOMAIN pls = 1..n /\ i \in 1..n
  BY LenProperties
<1>2. /\ DOMAIN pls2 = 1..(n - 1) /\ Len(pls2) = n - 1
      /\ \A k \in 1..(n - 1) : pls2[k] = pls[IF k < i THEN k ELSE k + 1]
  BY RemoveAtEntries, RemoveAtProperties
<1>3. \A k \in 1..(n - 1) : (IF k < i THEN k ELSE k + 1) \in 1..n
  BY <1>1
<1> HIDE DEF pls2
<1>4. Removed(LoadedAt(pls), LoadedAt(pls2), i)
  <2>1. /\ DOMAIN LoadedAt(pls) = 1..n /\ DOMAIN LoadedAt(pls2) = 1..(n - 1)
    BY <1>2 DEF LoadedAt
  <2>2. \A k \in 1..(n - 1) :
          LoadedAt(pls2)[k] = LoadedAt(pls)[IF k < i THEN k ELSE k + 1]
    BY <1>2, <1>3 DEF LoadedAt
  <2> QED BY <1>1, <2>1, <2>2 DEF Removed
<1>5. Removed(PageKeys(pls), PageKeys(pls2), i)
  <2>1. /\ DOMAIN PageKeys(pls) = 1..n /\ DOMAIN PageKeys(pls2) = 1..(n - 1)
    BY <1>2 DEF PageKeys
  <2>2. \A k \in 1..(n - 1) :
          PageKeys(pls2)[k] = PageKeys(pls)[IF k < i THEN k ELSE k + 1]
    BY <1>2, <1>3 DEF PageKeys
  <2> QED BY <1>1, <2>1, <2>2 DEF Removed
<1>6. /\ LoadedAt(pls)[i] = [row |-> pls[i].row, stage |-> pls[i].stage]
      /\ PageKeys(pls)[i] = pls[i].row.id
  BY <1>1 DEF LoadedAt, PageKeys
<1>7. \A p : p \in Progress(q, pls) <=> p \in Progress(q, pls2) \/ p = LoadedAt(pls)[i]
  <2>1. \A v : v \in Together(QueuedAt(q), LoadedAt(pls))
                 <=> v \in Together(QueuedAt(q), LoadedAt(pls2)) \/ v = LoadedAt(pls)[i]
    BY <1>4, RemovedKeys
  <2> QED BY <2>1 DEF Progress
<1>8. RowsApart(q, pls) => /\ RowsApart(q, pls2)
                           /\ PageKeys(pls)[i] \notin Together(RowKeys(q), PageKeys(pls2))
  BY <1>5, RemovedKeys DEF RowsApart
<1> QED BY <1>6, <1>7, <1>8 DEF pls2

\* The same of the link i: it is open in no other place.
LEMMA RemoveLink ==
  ASSUME NEW links, NEW lls \in Seq(LinkLoader), NEW i \in DOMAIN lls
  PROVE  LET lls2 == RemoveAt(lls, i)
             here == [row |-> lls[i].prow, link |-> lls[i].link]
         IN  /\ \A l : l \in OpenLinksIn(links, lls)
                        <=> l \in OpenLinksIn(links, lls2) \/ l = here
             /\ LinksApart(links, lls) =>
                  /\ LinksApart(links, lls2)
                  /\ here \notin OpenLinksIn(links, lls2)
<1> DEFINE lls2 == RemoveAt(lls, i)  n == Len(lls)
<1>1. n \in Nat /\ DOMAIN lls = 1..n /\ i \in 1..n
  BY LenProperties
<1>2. /\ DOMAIN lls2 = 1..(n - 1) /\ Len(lls2) = n - 1
      /\ \A k \in 1..(n - 1) : lls2[k] = lls[IF k < i THEN k ELSE k + 1]
  BY RemoveAtEntries, RemoveAtProperties
<1>3. \A k \in 1..(n - 1) : (IF k < i THEN k ELSE k + 1) \in 1..n
  BY <1>1
<1> HIDE DEF lls2
<1>4. Removed(LinkKeys(lls), LinkKeys(lls2), i)
  <2>1. /\ DOMAIN LinkKeys(lls) = 1..n /\ DOMAIN LinkKeys(lls2) = 1..(n - 1)
    BY <1>2 DEF LinkKeys
  <2>2. \A k \in 1..(n - 1) :
          LinkKeys(lls2)[k] = LinkKeys(lls)[IF k < i THEN k ELSE k + 1]
    BY <1>2, <1>3 DEF LinkKeys
  <2> QED BY <1>1, <2>1, <2>2 DEF Removed
<1>5. LinkKeys(lls)[i] = [row |-> lls[i].prow, link |-> lls[i].link]
  BY <1>1 DEF LinkKeys
<1>6. \A l : l \in OpenLinksIn(links, lls)
              <=> l \in OpenLinksIn(links, lls2) \/ l = LinkKeys(lls)[i]
  <2>1. \A v : v \in Together(LinkKeys(links), LinkKeys(lls))
                 <=> v \in Together(LinkKeys(links), LinkKeys(lls2)) \/ v = LinkKeys(lls)[i]
    BY <1>4, RemovedKeys
  <2> QED BY <2>1 DEF OpenLinksIn
<1>7. LinksApart(links, lls) => /\ LinksApart(links, lls2)
                                /\ LinkKeys(lls)[i] \notin OpenLinksIn(links, lls2)
  BY <1>4, RemovedKeys DEF OpenLinksIn, LinksApart
<1> QED BY <1>5, <1>6, <1>7 DEF lls2

\* The state after a step is typed; the lemmas about handlers need no more of it.
LEMMA NextTyped ==
  ASSUME IInv, Next
  PROVE  /\ IInv' /\ TypeOK /\ TypeOK'
         /\ dbErrors' \in Nat /\ parserOffset' \in Int
BY NextIInv DEF IInv, TypeOK

LEMMA NoNextPageOrder ==
  ASSUME OInv, Next, NEW i \in DOMAIN pageLoaders, NoNextPage(i)
  PROVE  /\ Continues(categoryPages, RemoveAt(pageLoaders, i), linkLoaders)
         /\ InOrder'
<1>1. /\ TypeOK /\ dbErrors' \in Nat /\ parserOffset' \in Int
      /\ categoryPages \in Seq(Row) /\ pageLoaders \in Seq(PageLoader)
      /\ linkLoaders \in Seq(LinkLoader) /\ workers_count \in Int
  BY NextTyped DEF OInv, TypeOK
<1> DEFINE pls == RemoveAt(pageLoaders, i)
<1>2. pls \in Seq(PageLoader)
  BY <1>1, RemoveAtProperties
<1>3. Continues(categoryPages, pls, linkLoaders)
  <2>1. ManageParsers(workers_count - 1, pageActiveLoaderCount - 1, pls, linkLoaders)
    BY DEF NoNextPage
  <2>2. workers_count - 1 \in Int
    BY <1>1
  <2> QED BY <1>1, <1>2, <2>1, <2>2, ManageParsersContinues
<1>4. Ordered(categoryPages, pls, productLinks, linkLoaders)
  <2>1. /\ Progress(categoryPages, pls) \subseteq Progress(categoryPages, pageLoaders)
        /\ RowsApart(categoryPages, pageLoaders) => RowsApart(categoryPages, pls)
    BY <1>1, RemovePage
  <2>2. Ordered(categoryPages, pageLoaders, productLinks, linkLoaders)
    BY DEF OInv, InOrder
  <2> HIDE DEF pls
  <2> QED BY <2>1, <2>2, FewerOrdered
<1> HIDE DEF pls
<1>5. InOrder'
  BY <1>1, <1>2, <1>3, <1>4, ContinuesInOrder
<1> QED BY <1>3, <1>5 DEF pls

LEMMA ProductEndOrder ==
  ASSUME OInv, Next, NEW i \in DOMAIN linkLoaders, ProductEnd(i)
  PROVE  /\ Continues(categoryPages, pageLoaders, RemoveAt(linkLoaders, i))
         /\ InOrder'
<1>1. /\ TypeOK /\ dbErrors' \in Nat /\ parserOffset' \in Int
      /\ categoryPages \in Seq(Row) /\ pageLoaders \in Seq(PageLoader)
      /\ linkLoaders \in Seq(LinkLoader) /\ workers_count \in Int
  BY NextTyped DEF OInv, TypeOK
<1> DEFINE lls == RemoveAt(linkLoaders, i)
<1>2. lls \in Seq(LinkLoader)
  BY <1>1, RemoveAtProperties
<1>3. Continues(categoryPages, pageLoaders, lls)
  <2>1. ManageParsers(workers_count - 1, pageActiveLoaderCount, pageLoaders, lls)
    BY DEF ProductEnd
  <2>2. workers_count - 1 \in Int
    BY <1>1
  <2> QED BY <1>1, <1>2, <2>1, <2>2, ManageParsersContinues
<1>4. Ordered(categoryPages, pageLoaders, productLinks, lls)
  <2>0. /\ \A l : l \in OpenLinksIn(productLinks, lls)
                    => l \in OpenLinksIn(productLinks, linkLoaders)
        /\ LinksApart(productLinks, linkLoaders) => LinksApart(productLinks, lls)
    BY <1>1, RemoveLink
  <2>1. OpenLinksIn(productLinks, lls) \subseteq OpenLinksIn(productLinks, linkLoaders)
    BY <2>0
  <2>2. Ordered(categoryPages, pageLoaders, productLinks, linkLoaders)
    BY DEF OInv, InOrder
  <2> HIDE DEF lls
  <2> QED BY <2>0, <2>1, <2>2, FewerOrdered
<1> HIDE DEF lls
<1>5. InOrder'
  BY <1>1, <1>2, <1>3, <1>4, ContinuesInOrder
<1> QED BY <1>3, <1>5 DEF lls

\* The row of a category that goes on comes back with its next page.
LEMMA PrependedRow ==
  ASSUME NEW q \in Seq(Row), NEW row \in Row, NEW pls
  PROVE  LET q2 == <<row>> \o q
         IN  /\ q2 \in Seq(Row)
             /\ \A p : p \in Progress(q2, pls)
                       <=> p \in Progress(q, pls) \/ p = [row |-> row, stage |-> "loading"]
             /\ RowsApart(q, pls) /\ row.id \notin Together(RowKeys(q), PageKeys(pls))
                  => RowsApart(q2, pls)
<1> DEFINE q2 == <<row>> \o q  m == Len(q)
<1>1. m \in Nat
  BY LenProperties
<1>2. /\ q2 \in Seq(Row) /\ Len(q2) = m + 1
      /\ \A i \in 1..(m + 1) : q2[i] = IF i = 1 THEN row ELSE q[i - 1]
  <2>1. <<row>> \in Seq(Row) /\ Len(<<row>>) = 1 /\ <<row>>[1] = row
    OBVIOUS
  <2>2. /\ q2 \in Seq(Row) /\ Len(q2) = 1 + m
        /\ \A i \in 1..(1 + m) : q2[i] = IF i <= 1 THEN <<row>>[i] ELSE q[i - 1]
    BY <2>1, ConcatEntries
  <2>3. 1..(1 + m) = 1..(m + 1) /\ \A i \in 1..(m + 1) : i <= 1 <=> i = 1
    BY <1>1
  <2> HIDE DEF q2
  <2> QED BY <1>1, <2>1, <2>2, <2>3
<1> HIDE DEF q2
<1>3. \A i \in 1..(m + 1) : i # 1 => i - 1 \in 1..m
  BY <1>1
<1>4. PICK first : /\ first = [row |-> row, stage |-> "loading"]
                   /\ Prepended(QueuedAt(q), QueuedAt(q2), first)
  <2>1. DOMAIN QueuedAt(q) = 1..m /\ DOMAIN QueuedAt(q2) = 1..(m + 1)
    BY <1>2 DEF QueuedAt
  <2>2. \A i \in 1..(m + 1) :
          QueuedAt(q2)[i] = IF i = 1 THEN [row |-> row, stage |-> "loading"]
                            ELSE QueuedAt(q)[i - 1]
    BY <1>2, <1>3 DEF QueuedAt
  <2> QED BY <1>1, <2>1, <2>2 DEF Prepended
<1>5. Prepended(RowKeys(q), RowKeys(q2), row.id)
  <2>1. DOMAIN RowKeys(q) = 1..m /\ DOMAIN RowKeys(q2) = 1..(m + 1)
    BY <1>2 DEF RowKeys
  <2>2. \A i \in 1..(m + 1) :
          RowKeys(q2)[i] = IF i = 1 THEN row.id ELSE RowKeys(q)[i - 1]
    BY <1>2, <1>3 DEF RowKeys
  <2> QED BY <1>1, <2>1, <2>2 DEF Prepended
<1>6. \A p : p \in Progress(q2, pls)
             <=> p \in Progress(q, pls) \/ p = [row |-> row, stage |-> "loading"]
  <2>1. PICK a, a2, b : a = QueuedAt(q) /\ a2 = QueuedAt(q2) /\ b = LoadedAt(pls)
    OBVIOUS
  <2>2. Prepended(a, a2, first)
    BY <1>4, <2>1
  <2>3. \A v : v \in Together(a2, b) <=> v \in Together(a, b) \/ v = first
    BY <2>2, PrependedKeys
  <2> QED BY <1>4, <2>1, <2>3 DEF Progress
<1>7. RowsApart(q, pls) /\ row.id \notin Together(RowKeys(q), PageKeys(pls))
        => RowsApart(q2, pls)
  BY <1>5, PrependedKeys DEF RowsApart
<1> QED BY <1>2, <1>6, <1>7 DEF q2

LEMMA NextPageOrder ==
  ASSUME OInv, Next, NEW i \in DOMAIN pageLoaders, NextPage(i)
  PROVE  /\ Progress(categoryPages', pageLoaders')
              = Progress(<<[pageLoaders[i].row EXCEPT !.page = @ + 1]>> \o categoryPages,
                         RemoveAt(pageLoaders, i))
         /\ OpenLinksIn(productLinks', linkLoaders')
              = OpenLinksIn(productLinks, linkLoaders)
         /\ LinkProgress(productLinks', linkLoaders')
              = LinkProgress(productLinks, linkLoaders)
         /\ UNCHANGED <<parserOffset, dbErrors>> /\ (suppressed => suppressed')
         /\ InOrder'
<1>1. /\ TypeOK /\ dbErrors' \in Nat /\ parserOffset' \in Int
      /\ categoryPages \in Seq(Row) /\ pageLoaders \in Seq(PageLoader)
      /\ linkLoaders \in Seq(LinkLoader) /\ productLinks \in Seq(LinkObject)
      /\ workers_count \in Int /\ parserOffset \in Int /\ dbErrors \in Nat
  BY NextTyped DEF OInv, TypeOK
<1> DEFINE row == pageLoaders[i].row
           row2 == [row EXCEPT !.page = @ + 1]
           pls == RemoveAt(pageLoaders, i)
           q == <<row2>> \o categoryPages
<1>2. pls \in Seq(PageLoader)
  BY <1>1, RemoveAtProperties
<1>3. /\ row \in Row /\ row2 \in Row /\ row2.id = row.id /\ row2.page = row.page + 1
      /\ pageLoaders[i].stage = "linked"
  <2>1. pageLoaders[i] \in PageLoader
    BY <1>1, ElementOfSeq, LenProperties
  <2>2. row.page < LastPage /\ pageLoaders[i].stage = "linked"
    BY DEF NextPage
  <2> QED BY <2>1, <2>2, CrawlAssumption DEF PageLoader, Row
<1>4. /\ q \in Seq(Row)
      /\ \A p : p \in Progress(q, pls)
                <=> p \in Progress(categoryPages, pls) \/ p = [row |-> row2, stage |-> "loading"]
      /\ RowsApart(categoryPages, pls)
           /\ row2.id \notin Together(RowKeys(categoryPages), PageKeys(pls))
           => RowsApart(q, pls)
  <2> HIDE DEF row2, pls
  <2> QED BY <1>1, <1>3, PrependedRow
<1>5. Continues(q, pls, linkLoaders) /\ UNCHANGED <<parserOffset, dbErrors>>
  <2>1. workers_count - 1 \in Int
    BY <1>1
  <2>2. CASE productLinks # <<>>
    <3>1. /\ DrainLinks(workers_count - 1, linkLoaders)
          /\ categoryPages' = q /\ pageLoaders' = pls
          /\ UNCHANGED <<parserOffset, dbErrors, suppressed>>
      BY <2>2 DEF NextPage
    <3> HIDE DEF q, pls
    <3> QED BY <1>1, <2>1, <3>1, DrainContinues
  <2>3. CASE productLinks = <<>>
    <3>1. /\ LoadPage(q, workers_count - 1, pageActiveLoaderCount - 1, pls)
          /\ linkLoaders' = linkLoaders
          /\ UNCHANGED <<productLinks, parserOffset, dbErrors>>
          /\ suppressed => suppressed'
      BY <2>3 DEF NextPage
    <3> HIDE DEF q, pls
    <3> QED BY <1>1, <1>2, <1>4, <2>1, <3>1, LoadPageContinues
  <2> QED BY <2>2, <2>3
<1> DEFINE P == Progress(categoryPages, pageLoaders)
           L == OpenLinksIn(productLinks, linkLoaders)
<1>6. /\ \A p : p \in P <=> p \in Progress(categoryPages, pls)
                            \/ p = [row |-> row, stage |-> "linked"]
      /\ RowsApart(categoryPages, pageLoaders) =>
           /\ RowsApart(categoryPages, pls)
           /\ row.id \notin Together(RowKeys(categoryPages), PageKeys(pls))
  BY <1>1, <1>3, RemovePage
<1>7. /\ \A p \in P : p.row.id \in 1..DbRows
      /\ \A l \in L : l.row = l.link.row /\ l.row \in 1..DbRows
      /\ dbErrors = 0 => /\ RowsApart(categoryPages, pageLoaders)
                         /\ LinksApart(productLinks, linkLoaders)
                         /\ Fresh(P, L, parserOffset)
  BY DEF OInv, InOrder, Ordered
<1>8. \A l \in L : l \in [row : Int, link : Link]
  BY <1>1, TypedEntries
<1> HIDE DEF P, L, q, pls, row2, row
<1> DEFINE here == [row |-> row, stage |-> "linked"]
           next == [row |-> row2, stage |-> "loading"]
<1>8a. /\ here \in P /\ here.row = row /\ here.stage = "linked"
       /\ next.row.id = row.id /\ next.row.page = row.page + 1 /\ next.stage # "linked"
  BY <1>3, <1>6
<1> HIDE DEF here, next
<1>8b. \A p \in Progress(q, pls) : p \in P \/ p = next
  BY <1>4, <1>6 DEF next
<1>9. \A p \in Progress(q, pls) : p.row.id \in 1..DbRows
  BY <1>7, <1>8a, <1>8b
<1>10. ASSUME dbErrors = 0
       PROVE  RowsApart(q, pls) /\ Fresh(Progress(q, pls), L, parserOffset)
  <2>1. RowsApart(q, pls)
    BY <1>3, <1>4, <1>6, <1>7, <1>10
  <2>2. /\ \A p \in P : p.row.id <= parserOffset
        /\ \A l \in L : /\ l.link.row <= parserOffset
                        /\ \A p \in P : l.link.row = p.row.id =>
                             IF p.stage = "linked" THEN l.link.page <= p.row.page
                                         ELSE l.link.page < p.row.page
    BY <1>7, <1>10 DEF Fresh
  <2>3. \A p \in Progress(q, pls) : p.row.id <= parserOffset
    BY <1>8a, <1>8b, <2>2
  <2>4. ASSUME NEW l \in L, NEW p \in Progress(q, pls), l.link.row = p.row.id
        PROVE  IF p.stage = "linked" THEN l.link.page <= p.row.page ELSE l.link.page < p.row.page
    <3>1. CASE p \in P
      BY <3>1, <2>2, <2>4
    <3>2. CASE p = next
      <4>1. l.link.row = here.row.id
        BY <3>2, <2>4, <1>8a
      <4>2. l.link.page <= row.page
        BY <4>1, <1>8a, <2>2
      <4>3. l.link.page \in Int /\ row.page \in Int
        BY <1>3, <1>8 DEF Link, Row
      <4>4. l.link.page < row.page + 1
        BY <4>2, <4>3
      <4> QED BY <3>2, <4>4, <1>8a
    <3> QED BY <3>1, <3>2, <1>8b
  <2>5. Fresh(Progress(q, pls), L, parserOffset)
    BY <2>2, <2>3, <2>4 DEF Fresh
  <2> QED BY <2>1, <2>5
<1>11. Ordered(q, pls, productLinks, linkLoaders)
  BY <1>7, <1>9, <1>10 DEF Ordered, L
<1>12. InOrder'
  BY <1>1, <1>2, <1>4, <1>5, <1>11, ContinuesInOrder
<1>13. Progress(categoryPages', pageLoaders') = Progress(q, pls)
  <2>1. NewRows(parserOffset, parserOffset') = {}
    BY <1>1, <1>5, NoNewRows
  <2> QED BY <1>5, <2>1 DEF Continues
<1> QED BY <1>5, <1>12, <1>13 DEF Continues, q, pls, row2, row

\* The keys of rows are the ids of what is in hand.
LEMMA IdsInHand ==
  ASSUME NEW q, NEW pls
  PROVE  \A key : key \in Together(RowKeys(q), PageKeys(pls))
                  <=> \E p \in Progress(q, pls) : p.row.id = key
<1>1. /\ DOMAIN QueuedAt(q) = 1..Len(q) /\ DOMAIN RowKeys(q) = 1..Len(q)
      /\ DOMAIN LoadedAt(pls) = 1..Len(pls) /\ DOMAIN PageKeys(pls) = 1..Len(pls)
  BY DEF QueuedAt, RowKeys, LoadedAt, PageKeys
<1>2. \A k \in 1..Len(q) : QueuedAt(q)[k].row.id = RowKeys(q)[k]
  BY DEF QueuedAt, RowKeys
<1>3. \A k \in 1..Len(pls) : LoadedAt(pls)[k].row.id = PageKeys(pls)[k]
  BY DEF LoadedAt, PageKeys
<1> QED BY <1>1, <1>2, <1>3 DEF Progress, Together

\* The page i moves on to another stage.
Staged(pls, pls2, i) ==
  /\ Len(pls2) = Len(pls) /\ i \in DOMAIN pls
  /\ \A k \in DOMAIN pls : /\ pls2[k].row = pls[k].row
                           /\ k # i => pls2[k] = pls[k]

LEMMA StageStep ==
  ASSUME pageLoaders \in Seq(PageLoader), NEW i \in DOMAIN pageLoaders, NEW stage,
         pageLoaders' = [pageLoaders EXCEPT ![i].stage = stage]
  PROVE  Staged(pageLoaders, pageLoaders', i) /\ pageLoaders'[i].stage = stage
<1>1. Len(pageLoaders) \in Nat /\ DOMAIN pageLoaders = 1..Len(pageLoaders)
  BY LenProperties
<1>2. \A k \in 1..Len(pageLoaders) : pageLoaders[k] \in PageLoader
  BY ElementOfSeq
<1>3. Len(pageLoaders') = Len(pageLoaders)
  <2>1. pageLoaders' \in [1..Len(pageLoaders) -> {pageLoaders'[k] : k \in 1..Len(pageLoaders)}]
    BY <1>1
  <2> QED BY <2>1, <1>1, FunctionIsSeq
<1> QED BY <1>1, <1>2, <1>3 DEF PageLoader, Staged

\* It keeps its row.
LEMMA StagedPage ==
  ASSUME NEW q, NEW pls \in Seq(PageLoader), NEW pls2, NEW i, Staged(pls, pls2, i)
  PROVE  LET there == [row |-> pls[i].row, stage |-> pls2[i].stage]
             rest == Progress(q, RemoveAt(pls, i))
         IN  /\ \A p : p \in Progress(q, pls2) <=> p \in rest \/ p = there
             /\ PageKeys(pls2) = PageKeys(pls)
             /\ RowsApart(q, pls) => RowsApart(q, pls2)
<1> DEFINE n == Len(pls)  left == RemoveAt(pls, i)
<1>1. n \in Nat /\ DOMAIN pls = 1..n /\ i \in 1..n
  BY LenProperties DEF Staged
<1>2. /\ DOMAIN left = 1..(n - 1) /\ Len(left) = n - 1
      /\ \A k \in 1..(n - 1) : left[k] = pls[IF k < i THEN k ELSE k + 1]
  BY <1>1, RemoveAtEntries, RemoveAtProperties
<1>3. \A k \in 1..(n - 1) : (IF k < i THEN k ELSE k + 1) \in (1..n) \ {i}
  BY <1>1
<1>4. /\ Len(pls2) = n
      /\ \A k \in 1..n : pls2[k].row = pls[k].row
      /\ \A k \in (1..n) \ {i} : pls2[k] = pls[k]
  BY <1>1 DEF Staged
<1> HIDE DEF left
<1>5. PageKeys(pls2) = PageKeys(pls)
  BY <1>4 DEF PageKeys
<1>6. PICK there : /\ there = [row |-> pls[i].row, stage |-> pls2[i].stage]
                   /\ LoadedAt(pls2)[i] = there
  BY <1>1, <1>4 DEF LoadedAt
<1>7. Removed(LoadedAt(pls2), LoadedAt(left), i)
  <2>1. DOMAIN LoadedAt(pls2) = 1..n /\ DOMAIN LoadedAt(left) = 1..(n - 1)
    BY <1>2, <1>4 DEF LoadedAt
  <2>2. \A k \in 1..(n - 1) :
          LoadedAt(left)[k] = LoadedAt(pls2)[IF k < i THEN k ELSE k + 1]
    BY <1>2, <1>3, <1>4 DEF LoadedAt
  <2> QED BY <1>1, <2>1, <2>2 DEF Removed
<1>8. \A p : p \in Progress(q, pls2) <=> p \in Progress(q, left) \/ p = there
  <2>1. PICK a, b, b2 : a = QueuedAt(q) /\ b = LoadedAt(pls2) /\ b2 = LoadedAt(left)
    OBVIOUS
  <2>2. \A p : p \in Together(a, b) <=> p \in Together(a, b2) \/ p = b[i]
    BY <1>7, <2>1, RemovedKeys
  <2> QED BY <1>6, <2>1, <2>2 DEF Progress
<1> QED BY <1>5, <1>6, <1>8 DEF RowsApart, left

\* The handlers that move the page i on: nothing else of the rows in hand changes.
LEMMA PageMovesOn ==
  ASSUME pageLoaders \in Seq(PageLoader), NEW i \in DOMAIN pageLoaders, NEW stage,
         pageLoaders' = [pageLoaders EXCEPT ![i].stage = stage], UNCHANGED categoryPages
  PROVE  LET rest == Progress(categoryPages, RemoveAt(pageLoaders, i))
             row == pageLoaders[i].row
         IN  /\ \A p : p \in Progress(categoryPages, pageLoaders)
                        <=> p \in rest \/ p = [row |-> row, stage |-> pageLoaders[i].stage]
             /\ \A p : p \in Progress(categoryPages', pageLoaders')
                        <=> p \in rest \/ p = [row |-> row, stage |-> stage]
             /\ PageKeys(pageLoaders') = PageKeys(pageLoaders)
             /\ RowsApart(categoryPages, pageLoaders) =>
                  /\ RowsApart(categoryPages', pageLoaders')
                  /\ \A p \in rest : p.row.id # row.id
<1>1. PICK pls2 : /\ pls2 = pageLoaders' /\ Staged(pageLoaders, pls2, i)
                  /\ pls2[i].stage = stage
  BY StageStep
<1>1a. pageLoaders \in Seq(PageLoader) /\ Staged(pageLoaders, pls2, i)
  BY <1>1
<1>2. /\ \A p : p \in Progress(categoryPages, pls2)
                 <=> \/ p \in Progress(categoryPages, RemoveAt(pageLoaders, i))
                     \/ p = [row |-> pageLoaders[i].row, stage |-> pls2[i].stage]
      /\ RowsApart(categoryPages, pageLoaders) => RowsApart(categoryPages, pls2)
  BY <1>1a, StagedPage
<1> DEFINE rest == Progress(categoryPages, RemoveAt(pageLoaders, i))
           row == pageLoaders[i].row
<1>3. PageKeys(pls2) = PageKeys(pageLoaders)
  BY <1>1a, StagedPage
<1>4. /\ \A p : p \in Progress(categoryPages, pageLoaders)
                 <=> p \in rest \/ p = [row |-> row, stage |-> pageLoaders[i].stage]
      /\ RowsApart(categoryPages, pageLoaders) =>
           row.id \notin Together(RowKeys(categoryPages), PageKeys(RemoveAt(pageLoaders, i)))
  BY RemovePage
<1>5. row.id \in Together(RowKeys(categoryPages), PageKeys(RemoveAt(pageLoaders, i)))
        <=> \E p \in rest : p.row.id = row.id
  BY IdsInHand
<1> QED BY <1>1, <1>2, <1>3, <1>4, <1>5

-----------------------------------------------------------------------------
(***************************************************************************)
(* The links of a page.                                                    *)
(***************************************************************************)
FoundOn(row, n) ==
  {[row |-> row.id, link |-> [row |-> row.id, page |-> row.page, k |-> k]] : k \in 1..n}

LEMMA ConcatLinkKeys ==
  ASSUME NEW S, NEW a \in Seq(S), NEW b \in Seq(S)
  PROVE  Appended(LinkKeys(a), LinkKeys(a \o b), LinkKeys(b))
<1> DEFINE m == Len(a)  n == Len(b)  c == a \o b
<1>1. m \in Nat /\ n \in Nat
  BY LenProperties
<1>2. /\ Len(c) = m + n
      /\ \A j \in 1..(m + n) : c[j] = IF j <= m THEN a[j] ELSE b[j - m]
  BY ConcatEntries
<1>3. \A j \in 1..(m + n) : IF j <= m THEN j \in 1..m ELSE j - m \in 1..n
  BY <1>1
<1> HIDE DEF c
<1>4. \A j \in 1..(m + n) :
        LinkKeys(c)[j] = IF j <= m THEN LinkKeys(a)[j] ELSE LinkKeys(b)[j - m]
  BY <1>2, <1>3 DEF LinkKeys
<1>5. /\ DOMAIN LinkKeys(a) = 1..m /\ DOMAIN LinkKeys(b) = 1..n
      /\ DOMAIN LinkKeys(c) = 1..(m + n)
  BY <1>2 DEF LinkKeys
<1> QED BY <1>1, <1>4, <1>5 DEF Appended, c

\* manage_links starts some of the links of a page and queues the others; if none
\* of them is open yet, none is open twice.
LEMMA FoundLinks ==
  ASSUME TypeOK, NEW row \in Row, NEW n \in 0..MaxLinks, NEW start \in 0..n,
         productLinks' = productLinks \o Rest(LinksOf(row, n), start),
         linkLoaders' = linkLoaders \o OpenLinks(LinksOf(row, n), start)
  PROVE  LET before == OpenLinksIn(productLinks, linkLoaders) IN
         /\ \A l : l \in OpenLinksIn(productLinks', linkLoaders')
                   <=> l \in before \/ l \in FoundOn(row, n)
         /\ LinksApart(productLinks, linkLoaders)
              /\ (\A l \in FoundOn(row, n) : l \notin before)
              => LinksApart(productLinks', linkLoaders')
<1> DEFINE found == LinksOf(row, n)
           x == LinkKeys(OpenLinks(found, start))
           y == LinkKeys(Rest(found, start))
           key(k) == [row |-> row.id, link |-> [row |-> row.id, page |-> row.page, k |-> k]]
<1>1. /\ n \in Nat /\ start \in Nat /\ start <= n
      /\ found \in Seq(LinkObject) /\ Len(found) = n
      /\ \A k \in 1..n : found[k].prow = key(k).row /\ found[k].link = key(k).link
  <2>1. n \in Nat /\ start \in Nat /\ start <= n
    BY CrawlAssumption
  <2>2. \A k \in 1..n : found[k].prow = key(k).row /\ found[k].link = key(k).link
    BY DEF LinksOf
  <2> QED BY <2>1, <2>2, LinksOfProperties
<1>2. /\ OpenLinks(found, start) \in Seq(LinkLoader)
      /\ Len(OpenLinks(found, start)) = start
      /\ Rest(found, start) \in Seq(LinkObject)
      /\ Len(Rest(found, start)) = n - start
      /\ \A k \in 1..(n - start) : Rest(found, start)[k] = found[start + k]
  <2>1. start \in 0..Len(found)
    BY <1>1
  <2>2. found \in Seq(LinkObject) /\ Len(found) = n
    BY <1>1
  <2> HIDE DEF found
  <2>3. /\ Rest(found, start) \in Seq(LinkObject)
        /\ Len(Rest(found, start)) = Len(found) - start
        /\ \A k \in 1..(Len(found) - start) : Rest(found, start)[k] = found[start + k]
    BY <2>1, <2>2, RestEntries
  <2>4. /\ OpenLinks(found, start) \in Seq(LinkLoader)
        /\ Len(OpenLinks(found, start)) = start
    BY <2>1, <2>2, OpenLinksProperties
  <2> QED BY <2>2, <2>3, <2>4
<1>3. /\ DOMAIN x = 1..start /\ \A k \in 1..start : x[k] = key(k)
  <2>1. \A k \in 1..start : /\ OpenLinks(found, start)[k].prow = found[k].prow
                            /\ OpenLinks(found, start)[k].link = found[k].link
    BY DEF OpenLinks
  <2>2. \A k \in 1..start : k \in 1..n
    BY <1>1
  <2> HIDE DEF found
  <2> QED BY <1>1, <1>2, <2>1, <2>2 DEF LinkKeys
<1>4. /\ DOMAIN y = 1..(n - start) /\ \A k \in 1..(n - start) : y[k] = key(start + k)
  <2>1. \A k \in 1..(n - start) : start + k \in 1..n
    BY <1>1
  <2> HIDE DEF found
  <2>2. \A k \in 1..(n - start) : /\ Rest(found, start)[k].prow = key(start + k).row
                                  /\ Rest(found, start)[k].link = key(start + k).link
    <3> TAKE k \in 1..(n - start)
    <3>1. Rest(found, start)[k] = found[start + k] /\ start + k \in 1..n
      BY <1>2, <2>1
    <3>2. \A j \in 1..n : found[j].prow = key(j).row /\ found[j].link = key(j).link
      BY <1>1
    <3> HIDE DEF key
    <3> QED BY <3>1, <3>2
  <2>3. y = [k \in 1..(n - start) |-> [row |-> Rest(found, start)[k].prow,
                                       link |-> Rest(found, start)[k].link]]
    BY <1>2 DEF LinkKeys
  <2> HIDE DEF y
  <2> QED BY <2>2, <2>3
<1>5. /\ Appended(LinkKeys(linkLoaders), LinkKeys(linkLoaders'), x)
      /\ Appended(LinkKeys(productLinks), LinkKeys(productLinks'), y)
  BY <1>2, ConcatLinkKeys DEF TypeOK
<1>6. PICK a, a2, b, b2, g, h : /\ a = LinkKeys(productLinks) /\ a2 = LinkKeys(productLinks')
                                /\ b = LinkKeys(linkLoaders) /\ b2 = LinkKeys(linkLoaders')
                                /\ g = x /\ h = y
  OBVIOUS
<1> HIDE DEF x, y, key, found
<1>6a. Appended(b, b2, g) /\ Appended(a, a2, h)
  BY <1>5, <1>6
<1>7. /\ \A v : v \in Together(a, b2) <=> v \in Together(a, b) \/ \E k \in DOMAIN g : v = g[k]
      /\ \A v : v \in Together(a2, b2) <=> v \in Together(a, b2) \/ \E k \in DOMAIN h : v = h[k]
  <2>1. \A v : v \in Together(a, b2) <=> v \in Together(a, b) \/ \E k \in DOMAIN g : v = g[k]
    <3>1. Appended(b, b2, g)
      BY <1>6a
    <3>2. \A v : v \in Together(b2, a) <=> v \in Together(b, a) \/ \E k \in DOMAIN g : v = g[k]
      BY <3>1, AppendedKeys
    <3> QED BY <3>2 DEF Together
  <2>2. \A v : v \in Together(a2, b2) <=> v \in Together(a, b2) \/ \E k \in DOMAIN h : v = h[k]
    BY <1>6a, AppendedKeys
  <2> QED BY <2>1, <2>2
<1>8. \A v : v \in FoundOn(row, n) <=> \E k \in 1..n : v = key(k)
  BY DEF FoundOn, key
<1>9. /\ \A v : (\E k \in DOMAIN g : v = g[k]) <=> \E k \in 1..start : v = key(k)
      /\ \A v : (\E k \in DOMAIN h : v = h[k]) <=> \E k \in 1..(n - start) : v = key(start + k)
  BY <1>3, <1>4, <1>6
<1>10. \A k \in 1..n : k \in 1..start \/ \E j \in 1..(n - start) : k = start + j
  <2> TAKE k \in 1..n
  <2>1. k \in 1..start \/ (k - start \in 1..(n - start) /\ k = start + (k - start))
    BY <1>1
  <2> QED BY <2>1
<1>11. \A k \in 1..start : k \in 1..n
  BY <1>1
<1>12. \A k \in 1..(n - start) : start + k \in 1..n /\ start + k \notin 1..start
  BY <1>1
<1>13. \A v : v \in FoundOn(row, n) <=> \/ \E k \in DOMAIN g : v = g[k]
                                        \/ \E k \in DOMAIN h : v = h[k]
  <2>1. ASSUME NEW k \in 1..n
        PROVE  \/ \E j \in 1..start : key(k) = key(j)
               \/ \E j \in 1..(n - start) : key(k) = key(start + j)
    BY <1>10
  <2>2. ASSUME NEW v, (\E k \in 1..start : v = key(k))
                      \/ (\E k \in 1..(n - start) : v = key(start + k))
        PROVE  \E k \in 1..n : v = key(k)
    BY <2>2, <1>11, <1>12
  <2>3. \A v : (\E k \in 1..n : v = key(k))
               <=> \/ \E k \in 1..start : v = key(k)
                   \/ \E k \in 1..(n - start) : v = key(start + k)
    BY <2>1, <2>2
  <2> QED BY <2>3, <1>8, <1>9
<1>14. \A l : l \in Together(a2, b2) <=> l \in Together(a, b) \/ l \in FoundOn(row, n)
  BY <1>7, <1>13
<1>15. \A j, k \in 1..n : key(j) = key(k) => j = k
  BY DEF key
<1>16. ASSUME Apart(a, b), \A l \in FoundOn(row, n) : l \notin Together(a, b)
       PROVE  Apart(a2, b2)
  <2>1. /\ \A j, k \in DOMAIN g : g[j] = g[k] => j = k
        /\ \A k \in DOMAIN g : g[k] \notin Together(a, b)
    BY <1>3, <1>6, <1>8, <1>11, <1>15, <1>16
  <2>1a. \A k \in DOMAIN g : g[k] \notin Together(b, a)
    BY <2>1 DEF Together
  <2>2. Apart(a, b2)
    BY <1>6a, <1>16, <2>1, <2>1a, AppendedKeys
  <2>3. \A j, k \in DOMAIN h : h[j] = h[k] => j = k
    <3>1. ASSUME NEW j \in 1..(n - start), NEW k \in 1..(n - start), key(start + j) = key(start + k)
          PROVE  j = k
      <4>1. start + j = start + k
        BY <3>1, <1>12, <1>15
      <4> QED BY <4>1, <1>1
    <3>2. DOMAIN h = 1..(n - start) /\ \A k \in 1..(n - start) : h[k] = key(start + k)
      BY <1>4, <1>6
    <3> QED BY <3>1, <3>2
  <2>4. ASSUME NEW k \in 1..(n - start) PROVE h[k] \notin Together(a, b2)
    <3>1. h[k] = key(start + k) /\ h[k] \notin Together(a, b)
      BY <1>4, <1>6, <1>8, <1>12, <1>16
    <3>2. \A j \in 1..start : key(j) # key(start + k)
      BY <1>11, <1>12, <1>15
    <3>3. ~ \E j \in DOMAIN g : h[k] = g[j]
      BY <3>1, <3>2, <1>9
    <3> QED BY <3>1, <3>3, <1>7
  <2>5. \A k \in DOMAIN h : h[k] \notin Together(a, b2)
    BY <2>4, <1>4, <1>6
  <2> QED BY <1>6a, <2>2, <2>3, <2>5, AppendedKeys
<1> QED BY <1>6, <1>14, <1>16 DEF OpenLinksIn, LinksApart

LEMMA GetedLinkOrder ==
  ASSUME OInv, Next, NEW i \in DOMAIN pageLoaders, NEW n \in 0..MaxLinks, GetedLink(i, n)
  PROVE  /\ \A l : l \in OpenLinksIn(productLinks', linkLoaders')
                   <=> \/ l \in OpenLinksIn(productLinks, linkLoaders)
                       \/ l \in FoundOn(pageLoaders[i].row, n)
         /\ Together(RowKeys(categoryPages'), PageKeys(pageLoaders'))
              = Together(RowKeys(categoryPages), PageKeys(pageLoaders))
         /\ pageLoaders[i].row.id \in Together(RowKeys(categoryPages), PageKeys(pageLoaders))
         /\ InOrder'
<1>1. /\ TypeOK
      /\ categoryPages \in Seq(Row) /\ pageLoaders \in Seq(PageLoader)
      /\ linkLoaders \in Seq(LinkLoader) /\ productLinks \in Seq(LinkObject)
      /\ workers_count \in Int
  BY NextTyped DEF OInv, TypeOK
<1> DEFINE row == pageLoaders[i].row  start == Started(n, workers_count)
<1>2. /\ pageLoaders[i].stage = "parsing"
      /\ pageLoaders' = [pageLoaders EXCEPT ![i].stage = "linked"]
      /\ linkLoaders' = linkLoaders \o OpenLinks(LinksOf(row, n), start)
      /\ productLinks' = productLinks \o Rest(LinksOf(row, n), start)
      /\ UNCHANGED <<categoryPages, parserOffset, dbErrors>>
  BY DEF GetedLink
<1>3. row \in Row /\ start \in 0..n
  <2>1. pageLoaders[i] \in PageLoader
    BY <1>1, ElementOfSeq, LenProperties
  <2>2. row \in Row
    BY <2>1 DEF PageLoader
  <2>3. start \in 0..n
    <3>1. n \in Nat
      BY CrawlAssumption
    <3> QED BY <1>1, <3>1, StartedBounds, CrawlAssumption
  <2> QED BY <2>2, <2>3
<1>3a. UNCHANGED categoryPages /\ pageLoaders \in Seq(PageLoader)
  BY <1>1, <1>2
<1> DEFINE P == Progress(categoryPages, pageLoaders)
           P2 == Progress(categoryPages', pageLoaders')
           Q == Progress(categoryPages, RemoveAt(pageLoaders, i))
           L == OpenLinksIn(productLinks, linkLoaders)
           L2 == OpenLinksIn(productLinks', linkLoaders')
           F == FoundOn(row, n)
<1>3b. /\ \A p : p \in P <=> p \in Q \/ p = [row |-> row, stage |-> pageLoaders[i].stage]
       /\ \A p : p \in P2 <=> p \in Q \/ p = [row |-> row, stage |-> "linked"]
       /\ RowsApart(categoryPages, pageLoaders) =>
            /\ RowsApart(categoryPages', pageLoaders')
            /\ \A p \in Q : p.row.id # row.id
  BY <1>2, <1>3a, PageMovesOn
<1>3c. PageKeys(pageLoaders') = PageKeys(pageLoaders)
  BY <1>2, <1>3a, PageMovesOn
<1>4. PICK here : /\ here = [row |-> row, stage |-> "parsing"]
                  /\ \A p : p \in P <=> p \in Q \/ p = here
                  /\ RowsApart(categoryPages, pageLoaders) => \A p \in Q : p.row.id # row.id
  BY <1>2, <1>3b
<1>5. PICK there : /\ there = [row |-> row, stage |-> "linked"]
                   /\ \A p : p \in P2 <=> p \in Q \/ p = there
  BY <1>3b
<1>6. /\ Together(RowKeys(categoryPages'), PageKeys(pageLoaders'))
           = Together(RowKeys(categoryPages), PageKeys(pageLoaders))
      /\ RowsApart(categoryPages, pageLoaders) => RowsApart(categoryPages', pageLoaders')
  BY <1>2, <1>3b, <1>3c
<1>7. /\ \A l : l \in L2 <=> l \in L \/ l \in F
      /\ LinksApart(productLinks, linkLoaders) /\ (\A l \in F : l \notin L)
           => LinksApart(productLinks', linkLoaders')
  <2> HIDE DEF row, start
  <2> QED BY <1>1, <1>2, <1>3, FoundLinks
<1>8. row.id \in Together(RowKeys(categoryPages), PageKeys(pageLoaders))
  <2>1. here \in P /\ here.row.id = row.id
    BY <1>4
  <2> HIDE DEF row
  <2> QED BY <2>1, IdsInHand
<1>9. /\ \A p \in P : p.row.id \in 1..DbRows
      /\ \A l \in L : l.row = l.link.row /\ l.row \in 1..DbRows
      /\ dbErrors = 0 => /\ RowsApart(categoryPages, pageLoaders)
                         /\ LinksApart(productLinks, linkLoaders)
                         /\ Fresh(P, L, parserOffset)
  BY DEF OInv, InOrder, Ordered
<1>10. \A l \in F : l.row = row.id /\ l.link.row = row.id /\ l.link.page = row.page
  BY DEF FoundOn
<1>11. \A l \in L : l.link.page \in Int
  BY <1>1, TypedEntries DEF Link
<1>12. row.page \in Int
  BY <1>3 DEF Row
<1> HIDE DEF P, P2, Q, L, L2, F, row, start
<1>13. /\ here.row = row /\ here \in P /\ here.stage # "linked"
       /\ there.row = row /\ there.stage = "linked"
  BY <1>4, <1>5
<1>14. /\ \A p \in P2 : p.row.id \in 1..DbRows
       /\ \A l \in L2 : l.row = l.link.row /\ l.row \in 1..DbRows
  BY <1>4, <1>5, <1>7, <1>9, <1>10, <1>13
<1>15. ASSUME dbErrors = 0
       PROVE  /\ RowsApart(categoryPages', pageLoaders')
              /\ LinksApart(productLinks', linkLoaders')
              /\ Fresh(P2, L2, parserOffset)
  <2>1. /\ RowsApart(categoryPages, pageLoaders) /\ LinksApart(productLinks, linkLoaders)
        /\ \A p \in Q : p.row.id # row.id
        /\ \A p \in P : p.row.id <= parserOffset
        /\ \A l \in L : /\ l.link.row <= parserOffset
                        /\ \A p \in P : l.link.row = p.row.id =>
                             IF p.stage = "linked" THEN l.link.page <= p.row.page
                                         ELSE l.link.page < p.row.page
    BY <1>4, <1>9, <1>15 DEF Fresh
  <2>2. \A l \in F : l \notin L
    <3>1. \A l \in L : l.link.row = row.id => l.link.page < row.page
      BY <2>1, <1>13
    <3>2. \A l \in L : l.link.row = row.id => l.link.page # row.page
      BY <3>1, <1>11, <1>12
    <3> QED BY <3>2, <1>10
  <2>3. \A p \in P2 : p.row.id <= parserOffset
    BY <2>1, <1>4, <1>5, <1>13
  <2>4. ASSUME NEW l \in L2
        PROVE  /\ l.link.row <= parserOffset
               /\ \A p \in P2 : l.link.row = p.row.id =>
                    IF p.stage = "linked" THEN l.link.page <= p.row.page
                                ELSE l.link.page < p.row.page
    <3>1. CASE l \in L
      <4>1. \A p \in Q : l.link.row = p.row.id =>
              IF p.stage = "linked" THEN l.link.page <= p.row.page ELSE l.link.page < p.row.page
        BY <3>1, <2>1, <1>4
      <4>2. l.link.row = row.id => l.link.page <= row.page
        BY <3>1, <2>1, <1>11, <1>12, <1>13
      <4> QED BY <3>1, <4>1, <4>2, <2>1, <1>5, <1>13
    <3>2. CASE l \in F
      <4>1. \A p \in Q : l.link.row # p.row.id
        BY <3>2, <2>1, <1>10
      <4>2. l.link.page <= there.row.page
        BY <3>2, <1>10, <1>12, <1>13
      <4> QED BY <3>2, <4>1, <4>2, <2>1, <1>5, <1>10, <1>13
    <3> QED BY <3>1, <3>2, <1>7
  <2>5. Fresh(P2, L2, parserOffset)
    BY <2>3, <2>4 DEF Fresh
  <2> QED BY <1>6, <1>7, <2>1, <2>2, <2>5
<1>16. InOrder'
  BY <1>2, <1>14, <1>15 DEF InOrder, Ordered, P2, L2
<1> QED BY <1>6, <1>7, <1>8, <1>16 DEF row, L, L2, F

\* A page that has been loaded goes on with nothing linked yet, as before.
LEMMA PageLoadedOrder ==
  ASSUME OInv, NEW i \in DOMAIN pageLoaders, PageLoaded(i)
  PROVE  /\ Together(RowKeys(categoryPages'), PageKeys(pageLoaders'))
              = Together(RowKeys(categoryPages), PageKeys(pageLoaders))
         /\ OpenLinksIn(productLinks', linkLoaders')
              = OpenLinksIn(productLinks, linkLoaders)
         /\ InOrder'
<1>1. pageLoaders \in Seq(PageLoader)
  BY DEF OInv, IInv, TypeOK
<1>2. /\ pageLoaders[i].stage = "loading"
      /\ pageLoaders' = [pageLoaders EXCEPT ![i].stage = "parsing"]
      /\ UNCHANGED <<categoryPages, productLinks, linkLoaders, parserOffset, dbErrors>>
  BY DEF PageLoaded, queues, history
<1>3. UNCHANGED categoryPages
  BY <1>2
<1> DEFINE P == Progress(categoryPages, pageLoaders)
           P2 == Progress(categoryPages', pageLoaders')
           Q == Progress(categoryPages, RemoveAt(pageLoaders, i))
           row == pageLoaders[i].row
           L == OpenLinksIn(productLinks, linkLoaders)
<1>4. /\ \A p : p \in P <=> p \in Q \/ p = [row |-> row, stage |-> pageLoaders[i].stage]
      /\ \A p : p \in P2 <=> p \in Q \/ p = [row |-> row, stage |-> "parsing"]
      /\ RowsApart(categoryPages, pageLoaders) => RowsApart(categoryPages', pageLoaders')
  BY <1>1, <1>2, <1>3, PageMovesOn
<1>5. PageKeys(pageLoaders') = PageKeys(pageLoaders)
  BY <1>1, <1>2, <1>3, PageMovesOn
<1>6. OpenLinksIn(productLinks', linkLoaders') = L
  BY <1>2
<1>7. /\ \A p \in P : p.row.id \in 1..DbRows
      /\ \A l \in L : l.row = l.link.row /\ l.row \in 1..DbRows
      /\ dbErrors = 0 => /\ RowsApart(categoryPages, pageLoaders)
                         /\ LinksApart(productLinks, linkLoaders)
                         /\ Fresh(P, L, parserOffset)
  BY DEF OInv, InOrder, Ordered
<1> HIDE DEF P, P2, Q, L, row
<1>8. \A p \in P2 : \E p0 \in P : /\ p0.row = p.row
                                  /\ p0.stage = "linked" <=> p.stage = "linked"
  <2> SUFFICES ASSUME NEW p \in P2
               PROVE  \E p0 \in P : /\ p0.row = p.row
                                    /\ p0.stage = "linked" <=> p.stage = "linked"
    OBVIOUS
  <2>1. CASE p \in Q
    BY <2>1, <1>4
  <2>2. CASE p = [row |-> row, stage |-> "parsing"]
    <3>1. PICK p0 : p0 = [row |-> row, stage |-> "loading"]
      OBVIOUS
    <3>2. p0 \in P /\ p0.row = p.row /\ p0.stage # "linked" /\ p.stage # "linked"
      BY <2>2, <3>1, <1>2, <1>4
    <3> QED BY <3>2
  <2> QED BY <2>1, <2>2, <1>4
<1>9. \A p \in P2 : p.row.id \in 1..DbRows
  BY <1>7, <1>8
<1>10. ASSUME dbErrors = 0 PROVE Fresh(P2, L, parserOffset)
  <2>1. Fresh(P, L, parserOffset)
    BY <1>7, <1>10
  <2>2. \A p \in P2 : p.row.id <= parserOffset
    BY <2>1, <1>8 DEF Fresh
  <2>3. ASSUME NEW l \in L, NEW p \in P2, l.link.row = p.row.id
        PROVE  IF p.stage = "linked" THEN l.link.page <= p.row.page
                                     ELSE l.link.page < p.row.page
    BY <2>1, <2>3, <1>8 DEF Fresh
  <2> QED BY <2>1, <2>2, <2>3 DEF Fresh
<1>11. InOrder'
  BY <1>2, <1>4, <1>6, <1>7, <1>9, <1>10 DEF InOrder, Ordered, P2
<1> QED BY <1>2, <1>5, <1>6, <1>11 DEF L

LEMMA LinkLoadedOrder ==
  ASSUME OInv, NEW i \in DOMAIN linkLoaders, LinkLoaded(i)
  PROVE  /\ Progress(categoryPages', pageLoaders') = Progress(categoryPages, pageLoaders)
         /\ OpenLinksIn(productLinks', linkLoaders')
              = OpenLinksIn(productLinks, linkLoaders)
         /\ InOrder'
<1>1. linkLoaders \in Seq(LinkLoader) /\ DOMAIN linkLoaders = 1..Len(linkLoaders)
  BY LenProperties DEF OInv, IInv, TypeOK
<1>2. /\ linkLoaders' = [linkLoaders EXCEPT ![i].stage = "parsing"]
      /\ UNCHANGED <<categoryPages, pageLoaders, productLinks, parserOffset, dbErrors>>
  BY DEF LinkLoaded, queues, history
<1>3. LinkKeys(linkLoaders') = LinkKeys(linkLoaders)
  <2>1. \A k \in 1..Len(linkLoaders) : linkLoaders[k] \in LinkLoader
    BY <1>1, ElementOfSeq
  <2>2. Len(linkLoaders') = Len(linkLoaders)
    <3>1. linkLoaders' \in [1..Len(linkLoaders) -> {linkLoaders'[k] : k \in 1..Len(linkLoaders)}]
      BY <1>1, <1>2
    <3> QED BY <3>1, <1>1, FunctionIsSeq, LenProperties
  <2>3. \A k \in 1..Len(linkLoaders) : /\ linkLoaders'[k].prow = linkLoaders[k].prow
                                       /\ linkLoaders'[k].link = linkLoaders[k].link
    BY <1>1, <1>2, <2>1 DEF LinkLoader
  <2> QED BY <2>2, <2>3 DEF LinkKeys
<1>4. OpenLinksIn(productLinks', linkLoaders') = OpenLinksIn(productLinks, linkLoaders)
  BY <1>2, <1>3 DEF OpenLinksIn
<1>5. LinksApart(productLinks, linkLoaders) => LinksApart(productLinks', linkLoaders')
  BY <1>2, <1>3 DEF LinksApart
<1>6. InOrder'
  BY <1>2, <1>4, <1>5 DEF OInv, InOrder, Ordered
<1> QED BY <1>2, <1>4, <1>6

\* load() reads the first window.
LEMMA LoadOrder ==
  ASSUME OInv, Next, Load
  PROVE  Continues(categoryPages, pageLoaders, linkLoaders) /\ InOrder'
<1>1. /\ TypeOK /\ dbErrors' \in Nat /\ parserOffset' \in Int
      /\ categoryPages \in Seq(Row) /\ pageLoaders \in Seq(PageLoader)
      /\ linkLoaders \in Seq(LinkLoader) /\ workers_count \in Int
      /\ parserOffset \in Int
  BY NextTyped DEF OInv, TypeOK
<1>2. parserOffset = 0
  BY <1>1 DEF OInv, IInv, Load, Phases, RowsRead
<1>3. PICK size \in QuerySizes(parserOffset) :
        /\ LoadDbData(parserOffset, size)
        /\ LoadPage(QueueAfterQuery(categoryPages, parserOffset, size),
                    workers_count, pageActiveLoaderCount, pageLoaders)
  BY <1>2 DEF Load
<1>4. linkLoaders' = linkLoaders /\ UNCHANGED productLinks /\ (suppressed => suppressed')
  BY DEF Load
<1>5. Continues(categoryPages, pageLoaders, linkLoaders)
  BY <1>1, <1>3, <1>4, QueryContinues
<1>6. InOrder'
  BY <1>1, <1>5, ContinuesInOrder DEF OInv, InOrder
<1> QED BY <1>5, <1>6

LEMMA InitInOrder == Init => InOrder
<1> SUFFICES ASSUME Init PROVE InOrder
  OBVIOUS
<1>1. /\ categoryPages = <<>> /\ pageLoaders = <<>>
      /\ productLinks = <<>> /\ linkLoaders = <<>> /\ Len(<<>>) = 0
  BY DEF Init
<1>2. /\ RowKeys(<<>>) = <<>> /\ PageKeys(<<>>) = <<>> /\ LinkKeys(<<>>) = <<>>
      /\ QueuedAt(<<>>) = <<>> /\ LoadedAt(<<>>) = <<>>
  BY DEF RowKeys, PageKeys, LinkKeys, QueuedAt, LoadedAt
<1>3. Together(<<>>, <<>>) = {} /\ Apart(<<>>, <<>>)
  BY DEF Together, Apart
<1> QED BY <1>1, <1>2, <1>3
        DEF InOrder, Ordered, Fresh, Progress, OpenLinksIn, RowsApart, LinksApart

LEMMA NextOInv == OInv /\ [Next]_vars => OInv'
<1> SUFFICES ASSUME OInv, [Next]_vars PROVE InOrder'
  BY NextIInv DEF OInv
<1>1. CASE LoadFails \/ Pause \/ Resume \/ UNCHANGED vars
  <2>1. UNCHANGED <<categoryPages, pageLoaders, productLinks, linkLoaders,
                    parserOffset, dbErrors>>
    BY <1>1 DEF LoadFails, Pause, Resume, vars, queues, loaders, history
  <2> QED BY <2>1 DEF OInv, InOrder, Ordered
<1>2. CASE Next /\ Load
  BY <1>2, LoadOrder
<1>3. ASSUME Next, NEW i \in DOMAIN pageLoaders, PageStep(i) PROVE InOrder'
  BY <1>3, PageLoadedOrder, GetedLinkOrder, NextPageOrder, NoNextPageOrder DEF PageStep
<1>4. ASSUME Next, NEW i \in DOMAIN linkLoaders, LinkStep(i) PROVE InOrder'
  BY <1>4, LinkLoadedOrder, ProductEndOrder DEF LinkStep
<1> QED BY <1>1, <1>2, <1>3, <1>4 DEF Next, JobStep

THEOREM OrderInvariant == Spec => []OInv
<1>1. Init => OInv
  BY InitIInv, InitInOrder DEF OInv
<1> QED BY <1>1, NextOInv, PTL DEF Spec

\* No category is in two places, in the queue or with two loaders: a row comes
\* back only when its page has been taken out, and a SELECT delivers rows behind
\* all that were read before.
THEOREM OnePlace == Spec => []RowInOnePlace
<1>1. ASSUME OInv PROVE RowInOnePlace
  <2> SUFFICES ASSUME dbErrors = 0, NEW i \in DOMAIN RowsInHand, NEW j \in DOMAIN RowsInHand,
                      RowsInHand[i].id = RowsInHand[j].id
               PROVE  i = j
    BY DEF RowInOnePlace
  <2> DEFINE m == Len(categoryPages)  n == Len(pageLoaders)
             rows == [k \in DOMAIN pageLoaders |-> pageLoaders[k].row]
  <2>1. /\ categoryPages \in Seq(Row) /\ pageLoaders \in Seq(PageLoader)
        /\ m \in Nat /\ n \in Nat /\ DOMAIN pageLoaders = 1..n
    BY <1>1, LenProperties DEF OInv, IInv, TypeOK
  <2>2. rows \in Seq(Row) /\ Len(rows) = n
    <3>1. \A k \in 1..n : pageLoaders[k] \in PageLoader
      BY <2>1, ElementOfSeq
    <3>2. rows \in [1..n -> Row]
      BY <2>1, <3>1 DEF PageLoader
    <3> QED BY <2>1, <3>2, FunctionIsSeq
  <2>3. \A k \in 1..n : rows[k] = pageLoaders[k].row
    BY <2>1
  <2>4. RowsInHand = categoryPages \o rows
    BY DEF RowsInHand
  <2> HIDE DEF rows
  <2>5. /\ DOMAIN RowsInHand = 1..(m + n)
        /\ \A k \in 1..(m + n) : RowsInHand[k] = IF k <= m THEN categoryPages[k] ELSE rows[k - m]
    <3>1. /\ categoryPages \o rows \in Seq(Row) /\ Len(categoryPages \o rows) = m + n
          /\ \A k \in 1..(m + n) : (categoryPages \o rows)[k]
                                     = IF k <= m THEN categoryPages[k] ELSE rows[k - m]
      <4>1. PICK q, r, k : q = categoryPages /\ r = rows /\ k = n
        OBVIOUS
      <4>2. q \in Seq(Row) /\ r \in Seq(Row) /\ Len(r) = k
        BY <2>1, <2>2, <4>1
      <4>3. /\ q \o r \in Seq(Row) /\ Len(q \o r) = Len(q) + k
            /\ \A l \in 1..(Len(q) + k) :
                 (q \o r)[l] = IF l <= Len(q) THEN q[l] ELSE r[l - Len(q)]
        BY <4>2, ConcatEntries
      <4> QED BY <4>1, <4>3
    <3>2. DOMAIN (categoryPages \o rows) = 1..Len(categoryPages \o rows)
      BY <3>1, LenProperties
    <3> QED BY <2>4, <3>1, <3>2
  <2>6. /\ \A k, l \in 1..m : categoryPages[k].id = categoryPages[l].id => k = l
        /\ \A k, l \in 1..n : rows[k].id = rows[l].id => k = l
        /\ \A k \in 1..m, l \in 1..n : categoryPages[k].id # rows[l].id
    <3>1. Apart(RowKeys(categoryPages), PageKeys(pageLoaders))
      BY <1>1 DEF OInv, InOrder, Ordered, RowsApart
    <3>2. /\ DOMAIN RowKeys(categoryPages) = 1..m /\ DOMAIN PageKeys(pageLoaders) = 1..n
          /\ \A k \in 1..m : RowKeys(categoryPages)[k] = categoryPages[k].id
          /\ \A k \in 1..n : PageKeys(pageLoaders)[k] = rows[k].id
      BY <2>3 DEF RowKeys, PageKeys
    <3>3. PICK a, b : a = RowKeys(categoryPages) /\ b = PageKeys(pageLoaders)
      OBVIOUS
    <3>4. /\ DOMAIN a = 1..m /\ DOMAIN b = 1..n
          /\ \A k \in 1..m : a[k] = categoryPages[k].id
          /\ \A k \in 1..n : b[k] = rows[k].id
      BY <3>2, <3>3
    <3>5. Apart(a, b)
      BY <3>1, <3>3
    <3> HIDE DEF m, n
    <3>6. \A k, l \in 1..m : a[k] = a[l] => k = l
      BY <3>4, <3>5 DEF Apart
    <3>7. \A k, l \in 1..n : b[k] = b[l] => k = l
      BY <3>4, <3>5 DEF Apart
    <3>8. \A k \in 1..m, l \in 1..n : a[k] # b[l]
      BY <3>4, <3>5 DEF Apart
    <3> QED BY <3>4, <3>6, <3>7, <3>8
  <2>7. m \in Nat /\ n \in Nat /\ i \in 1..(m + n) /\ j \in 1..(m + n)
    BY <2>1, <2>5
  <2> HIDE DEF m, n
  <2>8. \A k \in 1..(m + n) :
          /\ k <= m => k \in 1..m /\ RowsInHand[k] = categoryPages[k]
          /\ ~(k <= m) => k - m \in 1..n /\ RowsInHand[k] = rows[k - m]
    <3> SUFFICES ASSUME NEW k \in 1..(m + n)
                 PROVE  /\ k <= m => k \in 1..m /\ RowsInHand[k] = categoryPages[k]
                        /\ ~(k <= m) => k - m \in 1..n /\ RowsInHand[k] = rows[k - m]
      OBVIOUS
    <3>1. (k <= m => k \in 1..m) /\ (~(k <= m) => k - m \in 1..n)
      BY <2>7
    <3>2. RowsInHand[k] = IF k <= m THEN categoryPages[k] ELSE rows[k - m]
      BY <2>5
    <3> QED BY <3>1, <3>2
  <2>9. CASE i <= m /\ j <= m
    <3>1. /\ i \in 1..m /\ j \in 1..m
          /\ RowsInHand[i] = categoryPages[i] /\ RowsInHand[j] = categoryPages[j]
      BY <2>7, <2>8, <2>9
    <3> QED BY <2>6, <3>1
  <2>10. CASE ~(i <= m) /\ ~(j <= m)
    <3>1. /\ i - m \in 1..n /\ j - m \in 1..n
          /\ RowsInHand[i] = rows[i - m] /\ RowsInHand[j] = rows[j - m]
      BY <2>7, <2>8, <2>10
    <3>2. i - m = j - m
      BY <2>6, <3>1
    <3> QED BY <2>7, <3>2
  <2>11. CASE i <= m /\ ~(j <= m)
    <3>1. /\ i \in 1..m /\ j - m \in 1..n
          /\ RowsInHand[i] = categoryPages[i] /\ RowsInHand[j] = rows[j - m]
      BY <2>7, <2>8, <2>11
    <3> QED BY <2>6, <3>1
  <2>12. CASE ~(i <= m) /\ j <= m
    <3>1. /\ j \in 1..m /\ i - m \in 1..n
          /\ RowsInHand[j] = categoryPages[j] /\ RowsInHand[i] = rows[i - m]
      BY <2>7, <2>8, <2>12
    <3> QED BY <2>6, <3>1
  <2> QED BY <2>9, <2>10, <2>11, <2>12
<1> QED BY <1>1, OrderInvariant, PTL DEF OrderInvariant

-----------------------------------------------------------------------------
(***************************************************************************)
(* The scheduler implements a crawl.                                       *)
(***************************************************************************)

\* What has become of the rows when the first o were read and the set K of them
\* is in hand.
Status(o, K) ==
  [r \in 1..DbRows |-> IF r \in K THEN "known" ELSE IF r > o THEN "unread" ELSE "done"]

Hand(q, pls) == Together(RowKeys(q), PageKeys(pls))

\* The refinement mapping, in the terms of the invariant.
LEMMA StatusOfRows ==
  ASSUME NEW q \in Seq(Row), NEW pls \in Seq(PageLoader)
  PROVE  LET rows == q \o [i \in DOMAIN pls |-> pls[i].row]
         IN  \A r : (\E i \in DOMAIN rows : rows[i].id = r) <=> r \in Hand(q, pls)
<1> DEFINE m == Len(q)  n == Len(pls)
           inPages == [i \in DOMAIN pls |-> pls[i].row]
           rows == q \o inPages
<1>1. m \in Nat /\ n \in Nat /\ DOMAIN pls = 1..n /\ DOMAIN q = 1..m
  BY LenProperties
<1>2. inPages \in Seq(Row) /\ Len(inPages) = n
  <2>1. \A k \in 1..n : pls[k] \in PageLoader
    BY ElementOfSeq
  <2>2. inPages \in [1..n -> Row]
    BY <1>1, <2>1 DEF PageLoader
  <2> QED BY <1>1, <2>2, FunctionIsSeq
<1>3. \A k \in 1..n : inPages[k] = pls[k].row
  BY <1>1
<1> HIDE DEF inPages
<1>4. /\ DOMAIN rows = 1..(m + n)
      /\ \A k \in 1..(m + n) : rows[k] = IF k <= m THEN q[k] ELSE inPages[k - m]
  <2>1. PICK b, k : b = inPages /\ k = n
    OBVIOUS
  <2>2. /\ q \o b \in Seq(Row) /\ Len(q \o b) = Len(q) + k
        /\ \A j \in 1..(Len(q) + k) :
             (q \o b)[j] = IF j <= Len(q) THEN q[j] ELSE b[j - Len(q)]
    BY <1>2, <2>1, ConcatEntries
  <2>3. DOMAIN (q \o b) = 1..Len(q \o b)
    BY <2>2, LenProperties
  <2> QED BY <2>1, <2>2, <2>3
<1> HIDE DEF rows
<1>5. /\ DOMAIN RowKeys(q) = 1..m /\ DOMAIN PageKeys(pls) = 1..n
      /\ \A k \in 1..m : RowKeys(q)[k] = q[k].id
      /\ \A k \in 1..n : PageKeys(pls)[k] = inPages[k].id
  BY <1>3 DEF RowKeys, PageKeys
<1>6. ASSUME NEW i \in 1..(m + n) PROVE rows[i].id \in Hand(q, pls)
  <2>1. IF i <= m THEN i \in 1..m ELSE i - m \in 1..n
    BY <1>1
  <2> QED BY <2>1, <1>4, <1>5 DEF Hand, Together
<1>7. ASSUME NEW r \in Hand(q, pls) PROVE \E i \in 1..(m + n) : rows[i].id = r
  <2>1. CASE \E k \in 1..m : r = q[k].id
    <3>1. PICK k \in 1..m : r = q[k].id
      BY <2>1
    <3>2. k \in 1..(m + n) /\ k <= m
      BY <1>1
    <3> QED BY <3>1, <3>2, <1>4
  <2>2. CASE \E k \in 1..n : r = inPages[k].id
    <3>1. PICK k \in 1..n : r = inPages[k].id
      BY <2>2
    <3>2. m + k \in 1..(m + n) /\ ~(m + k <= m) /\ (m + k) - m = k
      BY <1>1
    <3>3. rows[m + k] = inPages[k]
      BY <3>2, <1>4
    <3> QED BY <3>1, <3>2, <3>3
  <2>3. (\E k \in 1..m : r = RowKeys(q)[k]) \/ (\E k \in 1..n : r = PageKeys(pls)[k])
    BY <1>5 DEF Hand, Together
  <2> QED BY <2>1, <2>2, <2>3, <1>5
<1>8. \A r : (\E i \in DOMAIN rows : rows[i].id = r) <=> r \in Hand(q, pls)
  BY <1>4, <1>6, <1>7
<1> QED BY <1>8 DEF rows, inPages

LEMMA Mapping ==
  TypeOK => /\ RowStatus = Status(parserOffset, Hand(categoryPages, pageLoaders))
            /\ OpenLinkSet = OpenLinksIn(productLinks, linkLoaders)
<1> SUFFICES ASSUME TypeOK
             PROVE  /\ RowStatus = Status(parserOffset, Hand(categoryPages, pageLoaders))
                    /\ OpenLinkSet = OpenLinksIn(productLinks, linkLoaders)
  OBVIOUS
<1>1. categoryPages \in Seq(Row) /\ pageLoaders \in Seq(PageLoader)
  BY DEF TypeOK
<1>2. \A r : (\E i \in DOMAIN RowsInHand : RowsInHand[i].id = r)
             <=> r \in Hand(categoryPages, pageLoaders)
  BY <1>1, StatusOfRows DEF RowsInHand
<1>3. RowStatus = Status(parserOffset, Hand(categoryPages, pageLoaders))
  BY <1>2 DEF RowStatus, Status
<1>4. /\ DOMAIN productLinks = 1..Len(productLinks)
      /\ DOMAIN linkLoaders = 1..Len(linkLoaders)
  BY LenProperties DEF TypeOK
<1>5. OpenLinkSet = OpenLinksIn(productLinks, linkLoaders)
  BY <1>4 DEF OpenLinkSet, OpenLinksIn, Together, LinkKeys
<1> QED BY <1>3, <1>5

\* Reading on from o to o2 turns unread rows into known ones, in order.
LEMMA StatusReadsOn ==
  ASSUME NEW o \in Int, NEW o2 \in Int, o2 >= o, NEW K, NEW K2,
         \A r \in 1..DbRows : r \in K => r <= o,
         \A r \in 1..DbRows : r \in K2 <=> r \in K \/ r \in (o + 1)..o2,
         NEW r \in 1..DbRows
  PROVE  \/ Status(o2, K2)[r] = Status(o, K)[r]
         \/ /\ Status(o, K)[r] = "unread" /\ Status(o2, K2)[r] = "known"
            /\ \A s \in 1..r : Status(o2, K2)[s] # "unread"
<1>1. r \in Int /\ DbRows \in Int
  BY CrawlAssumption
<1>2. CASE r \in K
  BY <1>2 DEF Status
<1>3. CASE r \notin K /\ r <= o
  <2>1. r \notin (o + 1)..o2 /\ ~(r > o) /\ ~(r > o2)
    BY <1>1, <1>3
  <2> QED BY <1>3, <2>1 DEF Status
<1>4. CASE r \notin K /\ r > o2
  <2>1. r \notin (o + 1)..o2 /\ r > o
    BY <1>1, <1>4
  <2> QED BY <1>4, <2>1 DEF Status
<1>5. CASE r \notin K /\ r > o /\ r <= o2
  <2>1. r \in (o + 1)..o2
    BY <1>1, <1>5
  <2>2. Status(o, K)[r] = "unread" /\ Status(o2, K2)[r] = "known"
    BY <1>5, <2>1 DEF Status
  <2>3. \A s \in 1..r : s \in 1..DbRows /\ ~(s > o2)
    BY <1>1, <1>5
  <2>4. \A s \in 1..r : Status(o2, K2)[s] # "unread"
    BY <2>3 DEF Status
  <2> QED BY <2>2, <2>4
<1> QED BY <1>1, <1>2, <1>3, <1>4, <1>5

LEMMA MappingNext ==
  (TypeOK => /\ RowStatus = Status(parserOffset, Hand(categoryPages, pageLoaders))
             /\ OpenLinkSet = OpenLinksIn(productLinks, linkLoaders))'
BY Mapping, PTL

\* Rows in hand are in the table; without failing SELECTs they have been read.
LEMMA HandRead ==
  ASSUME OInv
  PROVE  /\ \A r \in Hand(categoryPages, pageLoaders) : r \in 1..DbRows
         /\ dbErrors = 0 => \A r \in Hand(categoryPages, pageLoaders) : r <= parserOffset
BY IdsInHand DEF OInv, InOrder, Ordered, Fresh, Hand

\* Only a crawl that has nothing left is stamped.
LEMMA StampedIsDone == OInv /\ stamped => Promised!AllDone
<1> SUFFICES ASSUME OInv, stamped PROVE Promised!AllDone
  OBVIOUS
<1>1. /\ TypeOK /\ parserOffset \in Int /\ dbErrors \in Nat
      /\ StampedMeansIdle /\ StampedAfterLastRow
  BY DEF OInv, IInv, TypeOK
<1>2. /\ categoryPages = <<>> /\ productLinks = <<>>
      /\ pageLoaders = <<>> /\ linkLoaders = <<>>
  BY <1>1, EmptyIsLengthZero DEF StampedMeansIdle, LiveLoaders, TypeOK
<1>3. /\ RowKeys(<<>>) = <<>> /\ PageKeys(<<>>) = <<>> /\ LinkKeys(<<>>) = <<>>
      /\ Together(<<>>, <<>>) = {}
  BY DEF RowKeys, PageKeys, LinkKeys, Together
<1>4. OpenLinkSet = {} /\ RowStatus = Status(parserOffset, {})
  BY <1>1, <1>2, <1>3, Mapping DEF Hand, OpenLinksIn
<1>5. \A r \in 1..DbRows : RowStatus[r] # "known"
  BY <1>4 DEF Status
<1>6. suppressed \/ dbErrors > 0 \/ \A r \in 1..DbRows : RowStatus[r] = "done"
  <2> SUFFICES ASSUME ~suppressed, ~(dbErrors > 0), NEW r \in 1..DbRows
               PROVE  RowStatus[r] = "done"
    OBVIOUS
  <2>1. parserOffset = DbRows /\ ~(r > parserOffset)
    BY <1>1, CrawlAssumption DEF StampedAfterLastRow
  <2> QED BY <1>4, <2>1 DEF Status
<1> QED BY <1>4, <1>5, <1>6 DEF Promised!AllDone, Promised!Rows

LEMMA StampedIsDoneNext == (OInv /\ stamped => Promised!AllDone)'
BY StampedIsDone, PTL

\* What a handler has read on from, once its own page is out: pls are the loaders
\* that are left.
LEMMA ContinuesReads ==
  ASSUME OInv, OInv', NEW pls, NEW lls, Continues(categoryPages, pls, lls),
         Hand(categoryPages, pls) \subseteq Hand(categoryPages, pageLoaders)
  PROVE  \/ (dbErrors > 0)'
         \/ Promised!ReadsOn(Status(parserOffset, Hand(categoryPages, pls)))
<1> SUFFICES ASSUME ~(dbErrors > 0)'
             PROVE  Promised!ReadsOn(Status(parserOffset, Hand(categoryPages, pls)))
  OBVIOUS
<1> DEFINE K == Hand(categoryPages, pls)  K2 == Hand(categoryPages', pageLoaders')
<1>1. /\ parserOffset \in Int /\ parserOffset' \in Int
      /\ dbErrors \in Nat /\ dbErrors' \in Nat /\ TypeOK'
  BY DEF OInv, IInv, TypeOK
<1>2. /\ Progress(categoryPages', pageLoaders')
           = Progress(categoryPages, pls) \cup NewRows(parserOffset, parserOffset')
      /\ dbErrors' >= dbErrors /\ (dbErrors' = dbErrors => parserOffset' >= parserOffset)
  BY DEF Continues
<1>3. dbErrors = 0 /\ parserOffset' >= parserOffset
  BY <1>1, <1>2
<1>4. \A r \in 1..DbRows : r \in K => r <= parserOffset
  BY <1>3, HandRead
<1>5. \A r : r \in K2 <=> r \in K \/ r \in (parserOffset + 1)..parserOffset'
  <2>1. /\ \A r : r \in K <=> \E p \in Progress(categoryPages, pls) : p.row.id = r
        /\ \A r : r \in K2 <=> \E p \in Progress(categoryPages', pageLoaders') : p.row.id = r
    BY IdsInHand DEF Hand
  <2>2. \A r : r \in (parserOffset + 1)..parserOffset'
               <=> \E p \in NewRows(parserOffset, parserOffset') : p.row.id = r
    <3>1. ASSUME NEW r \in (parserOffset + 1)..parserOffset'
          PROVE  \E p \in NewRows(parserOffset, parserOffset') : p.row.id = r
      <4>1. [row |-> [id |-> r, page |-> 1], stage |-> "loading"]
              \in NewRows(parserOffset, parserOffset')
        BY DEF NewRows
      <4> QED BY <4>1
    <3>2. ASSUME NEW p \in NewRows(parserOffset, parserOffset')
          PROVE  p.row.id \in (parserOffset + 1)..parserOffset'
      BY DEF NewRows
    <3> QED BY <3>1, <3>2
  <2> HIDE DEF K, K2
  <2> QED BY <1>2, <2>1, <2>2
<1>6. RowStatus' = Status(parserOffset', K2)
  BY <1>1, MappingNext
<1> HIDE DEF K, K2
<1>7. PICK o, o2, k, k2 : o = parserOffset /\ o2 = parserOffset' /\ k = K /\ k2 = K2
  OBVIOUS
<1>8. \A r \in 1..DbRows :
        \/ Status(o2, k2)[r] = Status(o, k)[r]
        \/ /\ Status(o, k)[r] = "unread" /\ Status(o2, k2)[r] = "known"
           /\ \A s \in 1..r : Status(o2, k2)[s] # "unread"
  <2>1. /\ o \in Int /\ o2 \in Int /\ o2 >= o
        /\ \A r \in 1..DbRows : r \in k => r <= o
        /\ \A r \in 1..DbRows : r \in k2 <=> r \in k \/ r \in (o + 1)..o2
    BY <1>1, <1>3, <1>4, <1>5, <1>7
  <2> QED BY <2>1, StatusReadsOn
<1> QED BY <1>6, <1>7, <1>8 DEF Promised!ReadsOn, Promised!Rows, K

\* The steps of the scheduler are steps of a crawl.
Kept == ~stamped /\ (suppressed => suppressed') /\ (dbErrors > 0 => (dbErrors > 0)')

LEMMA LiveNotStamped ==
  ASSUME OInv, DOMAIN pageLoaders # {} \/ DOMAIN linkLoaders # {}
  PROVE  ~stamped
<1>1. /\ Len(pageLoaders) \in Nat /\ Len(linkLoaders) \in Nat
      /\ DOMAIN pageLoaders = 1..Len(pageLoaders) /\ DOMAIN linkLoaders = 1..Len(linkLoaders)
  BY LenProperties DEF OInv, IInv, TypeOK
<1>2. LiveLoaders > 0
  BY <1>1 DEF LiveLoaders
<1> QED BY <1>2, WorkMeansCrawling DEF OInv

LEMMA KeptIsNext ==
  ASSUME OInv', Kept,
         \/ Promised!Read
         \/ \E r \in 1..DbRows : Promised!Find(r) \/ Promised!Finish(r)
         \/ \E l \in OpenLinkSet : Promised!Fetch(l)
  PROVE  Promised!Next
BY StampedIsDoneNext DEF Kept, Promised!Next, Promised!Rows

LEMMA LoadImplements ==
  ASSUME OInv, OInv', Next, Load
  PROVE  Promised!Next
<1>1. Continues(categoryPages, pageLoaders, linkLoaders)
  BY LoadOrder
<1>2. TypeOK /\ TypeOK' /\ dbErrors \in Nat /\ dbErrors' \in Nat
  BY DEF OInv, IInv, TypeOK
<1>3. Kept
  <2>1. ~stamped
    BY DEF OInv, IInv, Phases, Load
  <2> QED BY <1>1, <1>2, <2>1 DEF Kept, Continues
<1>4. (dbErrors > 0)' \/ Promised!ReadsOn(RowStatus)
  BY <1>1, <1>2, ContinuesReads, Mapping
<1>5. OpenLinkSet' = OpenLinkSet
  BY <1>1, <1>2, Mapping, MappingNext DEF Continues
<1>6. Promised!Read
  BY <1>4, <1>5 DEF Promised!Read
<1> QED BY <1>3, <1>6, KeptIsNext

\* The page i is out: what is left, and its row.
LEMMA HandWithout ==
  ASSUME NEW q, NEW pls \in Seq(PageLoader), NEW i \in DOMAIN pls
  PROVE  /\ \A r : r \in Hand(q, pls)
                   <=> r \in Hand(q, RemoveAt(pls, i)) \/ r = pls[i].row.id
         /\ RowsApart(q, pls) => pls[i].row.id \notin Hand(q, RemoveAt(pls, i))
<1> DEFINE left == RemoveAt(pls, i)
<1>1. PICK here : /\ here.row = pls[i].row
                  /\ \A p : p \in Progress(q, pls) <=> p \in Progress(q, left) \/ p = here
  <2>1. PICK here : here = [row |-> pls[i].row, stage |-> pls[i].stage]
    OBVIOUS
  <2>2. \A p : p \in Progress(q, pls) <=> p \in Progress(q, left) \/ p = here
    BY <2>1, RemovePage
  <2> QED BY <2>1, <2>2
<1>2. RowsApart(q, pls) => pls[i].row.id \notin Hand(q, left)
  BY RemovePage DEF Hand
<1> HIDE DEF left
<1>3. /\ \A r : r \in Hand(q, pls) <=> \E p \in Progress(q, pls) : p.row.id = r
      /\ \A r : r \in Hand(q, left) <=> \E p \in Progress(q, left) : p.row.id = r
  BY IdsInHand DEF Hand
<1>4. \A r : r \in Hand(q, pls) <=> r \in Hand(q, left) \/ r = pls[i].row.id
  BY <1>1, <1>3
<1> QED BY <1>2, <1>4 DEF left

LEMMA NoNextPageImplements ==
  ASSUME OInv, OInv', Next, NEW i \in DOMAIN pageLoaders, NoNextPage(i)
  PROVE  Promised!Next
<1> DEFINE pls == RemoveAt(pageLoaders, i)  id == pageLoaders[i].row.id
           K == Hand(categoryPages, pageLoaders)  K0 == Hand(categoryPages, pls)
<1>1. Continues(categoryPages, pls, linkLoaders)
  BY NoNextPageOrder
<1>2. /\ TypeOK /\ TypeOK' /\ dbErrors \in Nat /\ dbErrors' \in Nat
      /\ pageLoaders \in Seq(PageLoader) /\ parserOffset \in Int
  BY DEF OInv, IInv, TypeOK
<1>3. Kept
  <2>1. ~stamped
    BY LiveNotStamped
  <2> QED BY <1>1, <1>2, <2>1 DEF Kept, Continues
<1>4. /\ \A r : r \in K <=> r \in K0 \/ r = id
      /\ RowsApart(categoryPages, pageLoaders) => id \notin K0
  BY <1>2, HandWithout
<1>5. id \in 1..DbRows /\ (dbErrors = 0 => id <= parserOffset)
  BY <1>4, HandRead
<1>6. RowStatus = Status(parserOffset, K)
  BY <1>2, Mapping
<1>7. (dbErrors > 0)' \/ Promised!ReadsOn(Status(parserOffset, K0))
  BY <1>1, <1>4, ContinuesReads
<1>8. dbErrors = 0 => Status(parserOffset, K0) = [RowStatus EXCEPT ![id] = "done"]
  <2> SUFFICES ASSUME dbErrors = 0
               PROVE  Status(parserOffset, K0) = [RowStatus EXCEPT ![id] = "done"]
    OBVIOUS
  <2>1. id \notin K0 /\ ~(id > parserOffset)
    BY <1>2, <1>4, <1>5 DEF OInv, InOrder, Ordered
  <2> HIDE DEF K, K0, id
  <2>2. \A r \in 1..DbRows :
          (IF r \in K0 THEN "known" ELSE IF r > parserOffset THEN "unread" ELSE "done")
            = IF r = id THEN "done"
              ELSE IF r \in K THEN "known" ELSE IF r > parserOffset THEN "unread" ELSE "done"
    BY <1>4, <2>1
  <2> QED BY <1>6, <2>2 DEF Status
<1>9. RowStatus[id] = "known"
  BY <1>4, <1>5, <1>6 DEF Status
<1>10. OpenLinkSet' = OpenLinkSet
  BY <1>1, <1>2, Mapping, MappingNext DEF Continues
<1>11. dbErrors = 0 \/ (dbErrors > 0)'
  BY <1>2, <1>3 DEF Kept
<1> HIDE DEF K, K0, id, pls
<1>12. Promised!Finish(id)
  BY <1>7, <1>8, <1>9, <1>10, <1>11 DEF Promised!Finish
<1> QED BY <1>3, <1>5, <1>12, KeptIsNext

LEMMA ProductEndImplements ==
  ASSUME OInv, OInv', Next, NEW i \in DOMAIN linkLoaders, ProductEnd(i)
  PROVE  Promised!Next
<1> DEFINE lls == RemoveAt(linkLoaders, i)
           L0 == OpenLinksIn(productLinks, lls)
<1>1. Continues(categoryPages, pageLoaders, lls)
  BY ProductEndOrder
<1>2. /\ TypeOK /\ TypeOK' /\ dbErrors \in Nat /\ dbErrors' \in Nat
      /\ linkLoaders \in Seq(LinkLoader)
  BY DEF OInv, IInv, TypeOK
<1>3. Kept
  <2>1. ~stamped
    BY LiveNotStamped
  <2> QED BY <1>1, <1>2, <2>1 DEF Kept, Continues
<1>4. (dbErrors > 0)' \/ Promised!ReadsOn(RowStatus)
  BY <1>1, <1>2, ContinuesReads, Mapping
<1>5. PICK here : /\ \A l : l \in OpenLinksIn(productLinks, linkLoaders)
                            <=> l \in L0 \/ l = here
                  /\ LinksApart(productLinks, linkLoaders) => here \notin L0
  <2>1. PICK here : here = [row |-> linkLoaders[i].prow, link |-> linkLoaders[i].link]
    OBVIOUS
  <2>2. /\ \A l : l \in OpenLinksIn(productLinks, linkLoaders) <=> l \in L0 \/ l = here
        /\ LinksApart(productLinks, linkLoaders) => here \notin L0
    BY <1>2, <2>1, RemoveLink
  <2> QED BY <2>2
<1>6. /\ OpenLinkSet = OpenLinksIn(productLinks, linkLoaders)
      /\ OpenLinkSet' = L0
  BY <1>1, <1>2, Mapping, MappingNext DEF Continues
<1>7. dbErrors = 0 => LinksApart(productLinks, linkLoaders)
  BY DEF OInv, InOrder, Ordered
<1> HIDE DEF L0, lls
<1>8. here \in OpenLinkSet
  BY <1>5, <1>6
<1>9. OpenLinkSet' = OpenLinkSet \ {here} \/ (dbErrors > 0 /\ OpenLinkSet' = OpenLinkSet)
  <2>1. CASE here \notin L0
    BY <2>1, <1>5, <1>6
  <2>2. CASE here \in L0
    <3>1. dbErrors > 0
      BY <2>2, <1>2, <1>5, <1>7
    <3> QED BY <2>2, <3>1, <1>5, <1>6
  <2> QED BY <2>1, <2>2
<1>10. Promised!Fetch(here)
  BY <1>4, <1>9 DEF Promised!Fetch
<1> QED BY <1>3, <1>8, <1>10, KeptIsNext

LEMMA NextPageImplements ==
  ASSUME OInv, OInv', Next, NEW i \in DOMAIN pageLoaders, NextPage(i)
  PROVE  Promised!Next
<1> DEFINE pls == RemoveAt(pageLoaders, i)  row == pageLoaders[i].row
           row2 == [row EXCEPT !.page = @ + 1]
           q == <<row2>> \o categoryPages
<1>1. /\ TypeOK /\ TypeOK' /\ pageLoaders \in Seq(PageLoader) /\ categoryPages \in Seq(Row)
  BY DEF OInv, IInv, TypeOK
<1>2. /\ Progress(categoryPages', pageLoaders') = Progress(q, pls)
      /\ OpenLinksIn(productLinks', linkLoaders') = OpenLinksIn(productLinks, linkLoaders)
      /\ UNCHANGED <<parserOffset, dbErrors>> /\ (suppressed => suppressed')
  BY NextPageOrder
<1>3. Kept
  <2>1. ~stamped
    BY LiveNotStamped
  <2> QED BY <1>2, <2>1 DEF Kept
<1>4. row2 \in Row /\ row2.id = row.id
  <2>1. pageLoaders[i] \in PageLoader
    BY <1>1, ElementOfSeq, LenProperties
  <2>2. row.page < LastPage
    BY DEF NextPage
  <2> QED BY <2>1, <2>2, CrawlAssumption DEF PageLoader, Row
<1>5. \A p : p \in Progress(q, pls)
             <=> p \in Progress(categoryPages, pls) \/ p = [row |-> row2, stage |-> "loading"]
  <2> HIDE DEF row2, pls
  <2> QED BY <1>1, <1>4, PrependedRow
<1>6. \A r : r \in Hand(categoryPages', pageLoaders')
             <=> r \in Hand(categoryPages, pageLoaders)
  <2>1. \A r : r \in Hand(categoryPages, pageLoaders)
               <=> r \in Hand(categoryPages, pls) \/ r = row.id
    BY <1>1, HandWithout
  <2>2. PICK next : next.row.id = row.id
                    /\ \A p : p \in Progress(q, pls)
                              <=> p \in Progress(categoryPages, pls) \/ p = next
    <3>1. PICK next : next = [row |-> row2, stage |-> "loading"]
      OBVIOUS
    <3>2. next.row = row2
      BY <3>1
    <3> HIDE DEF pls, q, row2, row
    <3> QED BY <3>1, <3>2, <1>4, <1>5
  <2>3. /\ \A r : r \in Hand(categoryPages', pageLoaders')
                  <=> \E p \in Progress(categoryPages', pageLoaders') : p.row.id = r
        /\ \A r : r \in Hand(categoryPages, pls)
                  <=> \E p \in Progress(categoryPages, pls) : p.row.id = r
    BY IdsInHand DEF Hand
  <2> HIDE DEF pls, q, row, row2
  <2> QED BY <1>2, <2>1, <2>2, <2>3
<1>7. RowStatus' = RowStatus /\ OpenLinkSet' = OpenLinkSet
  <2>1. Hand(categoryPages', pageLoaders') = Hand(categoryPages, pageLoaders)
    BY <1>6
  <2> QED BY <1>1, <1>2, <2>1, Mapping, MappingNext
<1>8. Promised!Read
  BY <1>7 DEF Promised!Read, Promised!ReadsOn
<1> QED BY <1>3, <1>8, KeptIsNext

LEMMA GetedLinkImplements ==
  ASSUME OInv, OInv', Next, NEW i \in DOMAIN pageLoaders, NEW n \in 0..MaxLinks,
         GetedLink(i, n)
  PROVE  Promised!Next
<1> DEFINE id == pageLoaders[i].row.id
<1>1. TypeOK /\ TypeOK' /\ UNCHANGED <<parserOffset, dbErrors, suppressed>>
  BY DEF OInv, IInv, GetedLink
<1>2. Kept
  BY <1>1, LiveNotStamped DEF Kept
<1>3. /\ \A l : l \in OpenLinksIn(productLinks', linkLoaders')
                <=> \/ l \in OpenLinksIn(productLinks, linkLoaders)
                    \/ l \in FoundOn(pageLoaders[i].row, n)
      /\ Hand(categoryPages', pageLoaders') = Hand(categoryPages, pageLoaders)
      /\ id \in Hand(categoryPages, pageLoaders)
  BY GetedLinkOrder DEF Hand
<1>4. RowStatus' = RowStatus
  BY <1>1, <1>3, Mapping, MappingNext
<1>5. id \in 1..DbRows /\ RowStatus[id] = "known"
  <2>1. id \in 1..DbRows
    BY <1>3, HandRead
  <2> HIDE DEF id
  <2> QED BY <1>1, <1>3, <2>1, Mapping DEF Status
<1>6. \A l \in FoundOn(pageLoaders[i].row, n) : l.row = id
  BY DEF FoundOn
<1>7. OpenLinkSet \subseteq OpenLinkSet' /\ \A l \in OpenLinkSet' \ OpenLinkSet : l.row = id
  <2>1. /\ OpenLinkSet = OpenLinksIn(productLinks, linkLoaders)
        /\ OpenLinkSet' = OpenLinksIn(productLinks', linkLoaders')
    BY <1>1, Mapping, MappingNext
  <2> HIDE DEF id
  <2> QED BY <1>3, <1>6, <2>1
<1> HIDE DEF id
<1>8. Promised!Find(id)
  BY <1>4, <1>5, <1>7 DEF Promised!Find
<1> QED BY <1>2, <1>5, <1>8, KeptIsNext

\* A page that has been loaded, or the operator, changes nothing of this.
LEMMA QuietImplements ==
  ASSUME OInv, OInv', Next,
         \/ LoadFails \/ Pause \/ Resume
         \/ \E i \in DOMAIN pageLoaders : PageLoaded(i)
         \/ \E i \in DOMAIN linkLoaders : LinkLoaded(i)
  PROVE  UNCHANGED Promised!vars
<1>1. TypeOK /\ TypeOK'
  BY DEF OInv, IInv
<1>2. UNCHANGED <<parserOffset, stamped, suppressed, dbErrors>>
  BY DEF LoadFails, Pause, Resume, PageLoaded, LinkLoaded, vars, history
<1>3. /\ Hand(categoryPages', pageLoaders') = Hand(categoryPages, pageLoaders)
      /\ OpenLinksIn(productLinks', linkLoaders') = OpenLinksIn(productLinks, linkLoaders)
  <2>1. CASE LoadFails \/ Pause \/ Resume
    <3>1. UNCHANGED <<categoryPages, pageLoaders, productLinks, linkLoaders>>
      BY <2>1 DEF LoadFails, Pause, Resume, vars, queues, loaders
    <3> QED BY <3>1
  <2>2. ASSUME NEW i \in DOMAIN linkLoaders, LinkLoaded(i)
        PROVE  Hand(categoryPages', pageLoaders') = Hand(categoryPages, pageLoaders)
    BY <2>2 DEF LinkLoaded, queues
  <2> QED BY <2>1, <2>2, PageLoadedOrder, LinkLoadedOrder DEF Hand
<1>5. RowStatus' = RowStatus /\ OpenLinkSet' = OpenLinkSet
  BY <1>1, <1>2, <1>3, Mapping, MappingNext
<1> QED BY <1>2, <1>5 DEF Promised!vars

\* The scheduler implements the abstract crawl: rows in the order of the table and
\* once each, links found only by a row in hand, each fetched once and for its
\* row, the stamp at the end.
THEOREM CrawlImplemented == Spec => ImplementsCrawl
<1>1. Init => Promised!Init
  <2> SUFFICES ASSUME Init PROVE Promised!Init
    OBVIOUS
  <2>1. TypeOK
    BY InitIInv DEF IInv
  <2>2. /\ categoryPages = <<>> /\ pageLoaders = <<>>
        /\ productLinks = <<>> /\ linkLoaders = <<>> /\ parserOffset = 0
        /\ stamped = FALSE /\ suppressed = FALSE /\ dbErrors = 0
    BY DEF Init
  <2>3. /\ RowKeys(<<>>) = <<>> /\ PageKeys(<<>>) = <<>> /\ LinkKeys(<<>>) = <<>>
        /\ Together(<<>>, <<>>) = {}
    BY DEF RowKeys, PageKeys, LinkKeys, Together
  <2>4. OpenLinkSet = {} /\ RowStatus = Status(0, {})
    BY <2>1, <2>2, <2>3, Mapping DEF Hand, OpenLinksIn
  <2>5. \A r \in 1..DbRows : r > 0
    BY CrawlAssumption
  <2>6. RowStatus = [r \in 1..DbRows |-> "unread"]
    BY <2>4, <2>5 DEF Status
  <2> QED BY <2>2, <2>4, <2>6 DEF Promised!Init, Promised!Rows
<1>2. OInv /\ OInv' /\ [Next]_vars => [Promised!Next]_(Promised!vars)
  <2> SUFFICES ASSUME OInv, OInv', [Next]_vars
               PROVE  Promised!Next \/ UNCHANGED Promised!vars
    OBVIOUS
  <2>1. CASE Next
    <3>1. CASE LoadFails \/ Pause \/ Resume
      BY <2>1, <3>1, QuietImplements
    <3>2. CASE Load
      BY <2>1, <3>2, LoadImplements
    <3>3. ASSUME NEW i \in DOMAIN pageLoaders, PageStep(i)
          PROVE  Promised!Next \/ UNCHANGED Promised!vars
      BY <2>1, <3>3, QuietImplements, GetedLinkImplements, NextPageImplements,
         NoNextPageImplements DEF PageStep
    <3>4. ASSUME NEW i \in DOMAIN linkLoaders, LinkStep(i)
          PROVE  Promised!Next \/ UNCHANGED Promised!vars
      BY <2>1, <3>4, QuietImplements, ProductEndImplements DEF LinkStep
    <3> QED BY <2>1, <3>1, <3>2, <3>3, <3>4 DEF Next, JobStep
  <2>2. CASE UNCHANGED vars
    <3>1. TypeOK /\ TypeOK' /\ UNCHANGED <<parserOffset, stamped, suppressed, dbErrors>>
      BY <2>2 DEF OInv, IInv, vars, history
    <3>2. UNCHANGED <<categoryPages, pageLoaders, productLinks, linkLoaders>>
      BY <2>2 DEF vars, queues, loaders
    <3>3. RowStatus' = RowStatus /\ OpenLinkSet' = OpenLinkSet
      BY <3>1, <3>2, Mapping, MappingNext
    <3> QED BY <3>1, <3>3 DEF Promised!vars
  <2> QED BY <2>1, <2>2
<1> QED BY <1>1, <1>2, OrderInvariant, PTL
        DEF Spec, OrderInvariant, ImplementsCrawl, Promised!Spec

-----------------------------------------------------------------------------
(***************************************************************************)
(* A crawl never circles.  Positions of rows and links, and the steps that *)
(* are ahead of them.                                                      *)
(***************************************************************************)
StepsAhead(o, P) == {s \in PageSteps : s.row > o \/ \E p \in P : Ahead(s, p)}

LinkStepsAhead(A, K) ==
  {s \in LinkSteps : \/ [row |-> s.link.row, page |-> s.link.page, step |-> 2] \in A
                     \/ \E l \in K : l.link = s.link /\ s.step >= StepOf[l.stage]}

\* p2 is where the page p comes to in one or more steps.
Later(p, p2) ==
  /\ p2.row.id = p.row.id
  /\ p2.row.page > p.row.page
       \/ (p2.row.page = p.row.page /\ StepOf[p2.stage] > StepOf[p.stage])

LEMMA StepNumbers ==
  /\ StepOf["loading"] = 1 /\ StepOf["parsing"] = 2 /\ StepOf["linked"] = 3
  /\ \A p \in PageLoader : /\ p.row.id \in Int /\ p.row.page \in 1..LastPage
                           /\ p.row.page \in Int /\ StepOf[p.stage] \in 1..3
                           /\ StepOf[p.stage] \in Int
                           /\ StepOf[p.stage] = 3 <=> p.stage = "linked"
<1>1. StepOf["loading"] = 1 /\ StepOf["parsing"] = 2 /\ StepOf["linked"] = 3
  BY DEF StepOf
<1>2. ASSUME NEW p \in PageLoader
      PROVE  /\ p.row.id \in Int /\ p.row.page \in 1..LastPage
             /\ p.row.page \in Int /\ p.stage \in {"loading", "parsing", "linked"}
  BY CrawlAssumption DEF PageLoader, Row
<1> QED BY <1>1, <1>2

LEMMA PageStepTypes ==
  ASSUME NEW s \in PageSteps
  PROVE  s.row \in Int /\ s.page \in Int /\ s.step \in Int
BY CrawlAssumption DEF PageSteps

\* Reading on and moving on leave no step to do that was not there before.
LEMMA FewerSteps ==
  ASSUME NEW o \in Int, NEW o2 \in Int, o2 >= o,
         NEW P \in SUBSET PageLoader, NEW P2 \in SUBSET PageLoader,
         \A p2 \in P2 : p2 \in P \/ p2.row.id > o \/ \E p \in P : Later(p, p2)
  PROVE  StepsAhead(o2, P2) \subseteq StepsAhead(o, P)
<1> SUFFICES ASSUME NEW s \in PageSteps, s.row > o2 \/ \E p \in P2 : Ahead(s, p)
             PROVE  s.row > o \/ \E p \in P : Ahead(s, p)
  BY DEF StepsAhead
<1>1. s.row \in Int /\ s.page \in Int /\ s.step \in Int
  BY PageStepTypes
<1>2. CASE s.row > o2
  BY <1>1, <1>2
<1>3. ASSUME NEW p2 \in P2, Ahead(s, p2) PROVE s.row > o \/ \E p \in P : Ahead(s, p)
  <2>1. CASE p2 \in P
    BY <2>1, <1>3
  <2>2. CASE p2.row.id > o
    BY <2>2, <1>3 DEF Ahead
  <2>3. ASSUME NEW p \in P, Later(p, p2) PROVE Ahead(s, p)
    <3>1. /\ p.row.page \in Int /\ StepOf[p.stage] \in Int
          /\ p2.row.page \in Int /\ StepOf[p2.stage] \in Int
      BY StepNumbers
    <3>2. /\ s.row = p2.row.id
          /\ s.page > p2.row.page \/ (s.page = p2.row.page /\ s.step >= StepOf[p2.stage])
      BY <1>3 DEF Ahead
    <3>3. /\ p2.row.id = p.row.id
          /\ p2.row.page > p.row.page
               \/ (p2.row.page = p.row.page /\ StepOf[p2.stage] > StepOf[p.stage])
      BY <2>3 DEF Later
    <3>4. s.page > p.row.page \/ (s.page = p.row.page /\ s.step >= StepOf[p.stage])
      BY <1>1, <3>1, <3>2, <3>3
    <3> QED BY <3>2, <3>3, <3>4 DEF Ahead
  <2> QED BY <1>3, <2>1, <2>2, <2>3
<1> QED BY <1>2, <1>3

\* Of the pages P the page here moves on, or is done; the others are Q.
OnePageMoves(o, o2, P, P2, Q, here) ==
  /\ o \in Int /\ o2 \in Int /\ o2 >= o
  /\ P \in SUBSET PageLoader /\ P2 \in SUBSET PageLoader
  /\ here \in P /\ here.row.id \in 1..DbRows /\ here.row.id <= o
  /\ \A p \in P : p = here \/ p \in Q
  /\ \A p \in Q : p.row.id # here.row.id
  /\ \A p \in P2 : p \in Q \/ p.row.id > o \/ Later(here, p)

\* The step that the page here makes is behind it.
LEMMA StepDone ==
  ASSUME NEW o, NEW o2, NEW P, NEW P2, NEW Q, NEW here,
         OnePageMoves(o, o2, P, P2, Q, here)
  PROVE  [row |-> here.row.id, page |-> here.row.page, step |-> StepOf[here.stage]]
           \in StepsAhead(o, P) \ StepsAhead(o2, P2)
<1> USE DEF OnePageMoves
<1>1. PICK s : s = [row |-> here.row.id, page |-> here.row.page,
                    step |-> StepOf[here.stage]]
  OBVIOUS
<1>2. /\ here.row.id \in Int /\ here.row.page \in 1..LastPage /\ here.row.page \in Int
      /\ StepOf[here.stage] \in 1..3 /\ StepOf[here.stage] \in Int
  BY StepNumbers
<1>3. /\ s \in PageSteps /\ s.row = here.row.id /\ s.page = here.row.page
      /\ s.step = StepOf[here.stage]
  BY <1>1, <1>2 DEF PageSteps
<1>4. s \in StepsAhead(o, P)
  <2>1. Ahead(s, here)
    BY <1>2, <1>3 DEF Ahead
  <2> QED BY <1>3, <2>1 DEF StepsAhead
<1>5. ~(s.row > o2)
  BY <1>2, <1>3
<1>6. ASSUME NEW p \in P2, Ahead(s, p) PROVE FALSE
  <2>1. /\ p.row.id = here.row.id
        /\ here.row.page > p.row.page
             \/ (here.row.page = p.row.page /\ StepOf[here.stage] >= StepOf[p.stage])
    BY <1>3, <1>6 DEF Ahead
  <2>2. p.row.page \in Int /\ StepOf[p.stage] \in Int
    BY StepNumbers
  <2>3. Later(here, p)
    BY <1>2, <2>1
  <2> QED BY <1>2, <2>1, <2>2, <2>3 DEF Later
<1> QED BY <1>1, <1>4, <1>5, <1>6 DEF StepsAhead

\* No page is going to tell a link that is open.
LEMMA LinkIsTold ==
  ASSUME NEW o \in Int, NEW P \in SUBSET PageLoader, NEW l,
         l.link \in Link, l.link.row <= o,
         \A p \in P : l.link.row = p.row.id =>
            IF p.stage = "linked" THEN l.link.page <= p.row.page
                                  ELSE l.link.page < p.row.page
  PROVE  [row |-> l.link.row, page |-> l.link.page, step |-> 2] \notin StepsAhead(o, P)
<1>1. PICK s : s = [row |-> l.link.row, page |-> l.link.page, step |-> 2]
  OBVIOUS
<1>2. /\ l.link.row \in Int /\ l.link.page \in Int
      /\ s.row = l.link.row /\ s.page = l.link.page /\ s.step = 2
  BY <1>1, CrawlAssumption DEF Link
<1>3. ASSUME NEW p \in P, Ahead(s, p) PROVE FALSE
  <2>1. /\ p.row.page \in Int /\ StepOf[p.stage] \in Int
        /\ StepOf[p.stage] = 3 <=> p.stage = "linked"
    BY StepNumbers
  <2>2. /\ l.link.row = p.row.id
        /\ l.link.page > p.row.page \/ (l.link.page = p.row.page /\ 2 >= StepOf[p.stage])
    BY <1>2, <1>3 DEF Ahead
  <2>3. CASE p.stage = "linked"
    <3>1. l.link.page <= p.row.page
      BY <2>2, <2>3
    <3> QED BY <1>2, <2>1, <2>2, <2>3, <3>1
  <2>4. CASE p.stage # "linked"
    <3>1. l.link.page < p.row.page
      BY <2>2, <2>4
    <3> QED BY <1>2, <2>1, <2>2, <3>1
  <2> QED BY <2>3, <2>4
<1> QED BY <1>1, <1>2, <1>3 DEF StepsAhead

\* Links that move on, or that a page tells whose step this still was, are no new
\* steps either.
LEMMA FewerLinkSteps ==
  ASSUME NEW A, NEW A2, A2 \subseteq A, NEW K, NEW K2,
         \A l2 \in K2 :
           \/ [row |-> l2.link.row, page |-> l2.link.page, step |-> 2] \in A
           \/ \E l \in K : /\ l.link = l2.link
                           /\ \A n \in Int : n >= StepOf[l2.stage] => n >= StepOf[l.stage]
  PROVE  LinkStepsAhead(A2, K2) \subseteq LinkStepsAhead(A, K)
<1> SUFFICES ASSUME NEW s \in LinkSteps,
                    \/ [row |-> s.link.row, page |-> s.link.page, step |-> 2] \in A2
                    \/ \E l \in K2 : l.link = s.link /\ s.step >= StepOf[l.stage]
             PROVE  \/ [row |-> s.link.row, page |-> s.link.page, step |-> 2] \in A
                    \/ \E l \in K : l.link = s.link /\ s.step >= StepOf[l.stage]
  BY DEF LinkStepsAhead
<1>1. s.step \in Int
  BY DEF LinkSteps
<1>2. ASSUME NEW l2 \in K2, l2.link = s.link, s.step >= StepOf[l2.stage]
      PROVE  \/ [row |-> s.link.row, page |-> s.link.page, step |-> 2] \in A
             \/ \E l \in K : l.link = s.link /\ s.step >= StepOf[l.stage]
  BY <1>1, <1>2
<1> QED BY <1>2

\* Of the links K the link here moves on, or is done; the others are R.
OneLinkMoves(A2, K, K2, R, here) ==
  /\ here \in K /\ StepOf[here.stage] \in 1..2
  /\ here.link \in [row : 1..DbRows, page : 1..LastPage, k : 1..MaxLinks]
  /\ [row |-> here.link.row, page |-> here.link.page, step |-> 2] \notin A2
  /\ \A l \in R : l.link # here.link
  /\ \A l \in K2 : l \in R \/ (l.link = here.link /\ ~(StepOf[here.stage] >= StepOf[l.stage]))

\* The step that the link here makes is behind it.
LEMMA LinkStepDone ==
  ASSUME NEW A, NEW A2, NEW K, NEW K2, NEW R, NEW here, OneLinkMoves(A2, K, K2, R, here)
  PROVE  [link |-> here.link, step |-> StepOf[here.stage]]
           \in LinkStepsAhead(A, K) \ LinkStepsAhead(A2, K2)
<1> USE DEF OneLinkMoves
<1>1. PICK s : s = [link |-> here.link, step |-> StepOf[here.stage]]
  OBVIOUS
<1>2. s \in LinkSteps /\ s.link = here.link /\ s.step = StepOf[here.stage] /\ s.step \in Int
  BY <1>1 DEF LinkSteps
<1>3. s \in LinkStepsAhead(A, K)
  <2>1. s.step >= StepOf[here.stage]
    BY <1>2
  <2> QED BY <1>2, <2>1 DEF LinkStepsAhead
<1>4. s \notin LinkStepsAhead(A2, K2)
  <2>1. ASSUME NEW l \in K2, l.link = s.link, s.step >= StepOf[l.stage] PROVE FALSE
    BY <1>2, <2>1
  <2> QED BY <1>2, <2>1 DEF LinkStepsAhead
<1> QED BY <1>1, <1>3, <1>4

\* The two sets, and what is left of them, are finite.
LEMMA StepsFinite ==
  /\ IsFiniteSet(PageSteps) /\ Cardinality(PageSteps) \in Nat
  /\ IsFiniteSet(LinkSteps) /\ Cardinality(LinkSteps) \in Nat
<1> DEFINE rows == 1..DbRows  pages == 1..LastPage
           from == (rows \X pages) \X (1..3)
           to == [x \in from |-> [row |-> x[1][1], page |-> x[1][2], step |-> x[2]]]
           places == (rows \X pages) \X (1..MaxLinks)
           links == [row : rows, page : pages, k : 1..MaxLinks]
           place == [x \in places |-> [row |-> x[1][1], page |-> x[1][2], k |-> x[2]]]
           fetch == [x \in links \X (1..2) |-> [link |-> x[1], step |-> x[2]]]
<1>1. /\ IsFiniteSet(rows) /\ IsFiniteSet(pages) /\ IsFiniteSet(1..3)
      /\ IsFiniteSet(1..MaxLinks) /\ IsFiniteSet(1..2)
  <2>1. \A n \in Int : IsFiniteSet(1..n)
    BY FS_Interval
  <2>2. DbRows \in Int /\ LastPage \in Int /\ MaxLinks \in Int /\ 3 \in Int /\ 2 \in Int
    BY CrawlAssumption
  <2> QED BY <2>1, <2>2
<1>2. IsFiniteSet(from) /\ IsFiniteSet(places)
  BY <1>1, FS_Product
<1> HIDE DEF rows, pages
<1>3. to \in Surjection(from, [row : rows, page : pages, step : 1..3])
  <2>1. to \in [from -> [row : rows, page : pages, step : 1..3]]
    OBVIOUS
  <2>2. ASSUME NEW s \in [row : rows, page : pages, step : 1..3]
        PROVE  \E x \in from : to[x] = s
    <3>1. <<<<s.row, s.page>>, s.step>> \in from
      OBVIOUS
    <3>2. to[<<<<s.row, s.page>>, s.step>>] = s
      BY <3>1
    <3> QED BY <3>1, <3>2
  <2> QED BY <2>1, <2>2 DEF Surjection
<1>4. place \in Surjection(places, links)
  <2>1. place \in [places -> links]
    OBVIOUS
  <2>2. ASSUME NEW s \in links PROVE \E x \in places : place[x] = s
    <3>1. <<<<s.row, s.page>>, s.k>> \in places
      OBVIOUS
    <3>2. place[<<<<s.row, s.page>>, s.k>>] = s
      BY <3>1
    <3> QED BY <3>1, <3>2
  <2> QED BY <2>1, <2>2 DEF Surjection
<1>5. fetch \in Surjection(links \X (1..2), [link : links, step : 1..2])
  <2> HIDE DEF links
  <2>1. fetch \in [links \X (1..2) -> [link : links, step : 1..2]]
    OBVIOUS
  <2>2. ASSUME NEW s \in [link : links, step : 1..2]
        PROVE  \E x \in links \X (1..2) : fetch[x] = s
    <3>1. <<s.link, s.step>> \in links \X (1..2)
      OBVIOUS
    <3>2. fetch[<<s.link, s.step>>] = s
      BY <3>1
    <3> QED BY <3>1, <3>2
  <2> QED BY <2>1, <2>2 DEF Surjection
<1> HIDE DEF from, to, places, place, links, fetch
<1>6. IsFiniteSet([row : rows, page : pages, step : 1..3])
  BY <1>2, <1>3, FS_Surjection
<1>7. IsFiniteSet(links)
  BY <1>2, <1>4, FS_Surjection
<1>8. IsFiniteSet(links \X (1..2))
  BY <1>1, <1>7, FS_Product
<1>9. IsFiniteSet([link : links, step : 1..2])
  BY <1>5, <1>8, FS_Surjection
<1> QED BY <1>6, <1>9, FS_CardinalityType DEF PageSteps, LinkSteps, rows, pages, links

LEMMA WorkIsFinite ==
  /\ IsFiniteSet(PagesAhead) /\ Cardinality(PagesAhead) \in Nat
  /\ IsFiniteSet(LinksAhead) /\ Cardinality(LinksAhead) \in Nat
<1>1. PagesAhead \in SUBSET PageSteps /\ LinksAhead \in SUBSET LinkSteps
  BY DEF PagesAhead, LinksAhead
<1> QED BY <1>1, StepsFinite, FS_Subset, FS_CardinalityType

LEMMA Fewer ==
  ASSUME NEW S, IsFiniteSet(S), NEW T \in SUBSET S
  PROVE  /\ Cardinality(S) \in Nat /\ Cardinality(T) \in Nat
         /\ Cardinality(T) <= Cardinality(S)
         /\ S # T => Cardinality(T) < Cardinality(S)
<1>1. /\ IsFiniteSet(T) /\ Cardinality(T) <= Cardinality(S)
      /\ Cardinality(S) = Cardinality(T) => S = T
  BY FS_Subset
<1>2. Cardinality(S) \in Nat /\ Cardinality(T) \in Nat
  BY <1>1, FS_CardinalityType
<1> QED BY <1>1, <1>2

LEMMA LessWork ==
  ASSUME PagesAhead' \subseteq PagesAhead, LinksAhead' \subseteq LinksAhead
  PROVE  /\ WorkLeft' <= WorkLeft
         /\ PagesAhead' # PagesAhead \/ LinksAhead' # LinksAhead => WorkLeft' < WorkLeft
<1>1. IsFiniteSet(PagesAhead) /\ IsFiniteSet(LinksAhead)
  BY WorkIsFinite
<1>2. PICK P, P2, L, L2 : P = PagesAhead /\ P2 = PagesAhead' /\ L = LinksAhead /\ L2 = LinksAhead'
  OBVIOUS
<1>3. /\ Cardinality(P) \in Nat /\ Cardinality(P2) \in Nat
      /\ Cardinality(P2) <= Cardinality(P)
      /\ P # P2 => Cardinality(P2) < Cardinality(P)
  BY <1>1, <1>2, Fewer
<1>4. /\ Cardinality(L) \in Nat /\ Cardinality(L2) \in Nat
      /\ Cardinality(L2) <= Cardinality(L)
      /\ L # L2 => Cardinality(L2) < Cardinality(L)
  BY <1>1, <1>2, Fewer
<1>5. /\ WorkLeft = Cardinality(P) + Cardinality(L)
      /\ WorkLeft' = Cardinality(P2) + Cardinality(L2)
  BY <1>2 DEF WorkLeft
<1>6. P2 # P \/ L2 # L => Cardinality(P2) + Cardinality(L2) < Cardinality(P) + Cardinality(L)
  BY <1>3, <1>4
<1> QED BY <1>2, <1>3, <1>4, <1>5, <1>6

\* What is left, in the terms of the invariant.
LEMMA WorkOf ==
  TypeOK =>
    /\ PagesAhead = StepsAhead(parserOffset, Progress(categoryPages, pageLoaders))
    /\ LinksAhead = LinkStepsAhead(PagesAhead, LinkProgress(productLinks, linkLoaders))
    /\ Progress(categoryPages, pageLoaders) \in SUBSET PageLoader
<1> SUFFICES ASSUME TypeOK
    PROVE  /\ PagesAhead = StepsAhead(parserOffset, Progress(categoryPages, pageLoaders))
           /\ LinksAhead = LinkStepsAhead(PagesAhead, LinkProgress(productLinks, linkLoaders))
           /\ Progress(categoryPages, pageLoaders) \in SUBSET PageLoader
  OBVIOUS
<1>1. /\ categoryPages \in Seq(Row) /\ pageLoaders \in Seq(PageLoader)
      /\ productLinks \in Seq(LinkObject) /\ linkLoaders \in Seq(LinkLoader)
      /\ DOMAIN categoryPages = 1..Len(categoryPages)
      /\ DOMAIN pageLoaders = 1..Len(pageLoaders)
      /\ DOMAIN productLinks = 1..Len(productLinks)
      /\ DOMAIN linkLoaders = 1..Len(linkLoaders)
  BY LenProperties DEF TypeOK
<1>2. \A k \in DOMAIN pageLoaders :
        LoadedAt(pageLoaders)[k] = pageLoaders[k] /\ pageLoaders[k] \in PageLoader
  <2> TAKE k \in DOMAIN pageLoaders
  <2>1. pageLoaders[k] \in PageLoader
    BY <1>1, ElementOfSeq
  <2>2. LoadedAt(pageLoaders)[k] = [row |-> pageLoaders[k].row, stage |-> pageLoaders[k].stage]
    BY <1>1 DEF LoadedAt
  <2> QED BY <2>1, <2>2 DEF PageLoader
<1>3. Progress(categoryPages, pageLoaders) = PagesInHand
  <2>1. {QueuedAt(categoryPages)[k] : k \in 1..Len(categoryPages)}
          = {[row |-> r, stage |-> "loading"] : r \in {categoryPages[k] : k \in DOMAIN categoryPages}}
    BY <1>1 DEF QueuedAt
  <2>2. {LoadedAt(pageLoaders)[k] : k \in 1..Len(pageLoaders)}
          = {pageLoaders[k] : k \in DOMAIN pageLoaders}
    BY <1>1, <1>2
  <2>3. /\ DOMAIN QueuedAt(categoryPages) = 1..Len(categoryPages)
        /\ DOMAIN LoadedAt(pageLoaders) = 1..Len(pageLoaders)
    BY DEF QueuedAt, LoadedAt
  <2> QED BY <2>1, <2>2, <2>3 DEF Progress, Together, PagesInHand, Range
<1>4. PagesAhead = StepsAhead(parserOffset, Progress(categoryPages, pageLoaders))
  BY <1>3 DEF PagesAhead, StepsAhead
<1>5. Progress(categoryPages, pageLoaders) \in SUBSET PageLoader
  BY <1>1, TypedEntries
<1>6. ASSUME NEW s \in LinkSteps
      PROVE  (\E l \in LinkProgress(productLinks, linkLoaders) :
                 l.link = s.link /\ s.step >= StepOf[l.stage])
             <=> \/ \E l \in Range(productLinks) : l.link = s.link
                 \/ \E l \in Range(linkLoaders) : l.link = s.link /\ s.step >= StepOf[l.stage]
  <2>1. s.step \in Int /\ s.step >= StepOf["loading"]
    BY StepNumbers DEF LinkSteps
  <2>2. /\ DOMAIN WaitingAt(productLinks) = 1..Len(productLinks)
        /\ DOMAIN FetchedAt(linkLoaders) = 1..Len(linkLoaders)
        /\ \A k \in 1..Len(productLinks) :
             /\ WaitingAt(productLinks)[k].link = productLinks[k].link
             /\ WaitingAt(productLinks)[k].stage = "loading"
        /\ \A k \in 1..Len(linkLoaders) :
             /\ FetchedAt(linkLoaders)[k].link = linkLoaders[k].link
             /\ FetchedAt(linkLoaders)[k].stage = linkLoaders[k].stage
    BY DEF WaitingAt, FetchedAt
  <2>3. (\E l \in LinkProgress(productLinks, linkLoaders) :
           l.link = s.link /\ s.step >= StepOf[l.stage])
        <=> \/ \E k \in 1..Len(productLinks) : productLinks[k].link = s.link
            \/ \E k \in 1..Len(linkLoaders) :
                 linkLoaders[k].link = s.link /\ s.step >= StepOf[linkLoaders[k].stage]
    <3>1. PICK a, b : a = WaitingAt(productLinks) /\ b = FetchedAt(linkLoaders)
      OBVIOUS
    <3>2. LinkProgress(productLinks, linkLoaders)
            = {a[k] : k \in 1..Len(productLinks)} \cup {b[k] : k \in 1..Len(linkLoaders)}
      BY <2>2, <3>1 DEF LinkProgress, Together
    <3>3. /\ \A k \in 1..Len(productLinks) :
               a[k].link = productLinks[k].link /\ s.step >= StepOf[a[k].stage]
          /\ \A k \in 1..Len(linkLoaders) :
               b[k].link = linkLoaders[k].link /\ b[k].stage = linkLoaders[k].stage
      BY <2>1, <2>2, <3>1
    <3> QED BY <3>2, <3>3
  <2> QED BY <1>1, <2>3 DEF Range
<1>7. LinksAhead = LinkStepsAhead(PagesAhead, LinkProgress(productLinks, linkLoaders))
  BY <1>6 DEF LinksAhead, LinkStepsAhead
<1> QED BY <1>4, <1>5, <1>7

LEMMA WorkOfNext ==
  (TypeOK =>
    /\ PagesAhead = StepsAhead(parserOffset, Progress(categoryPages, pageLoaders))
    /\ LinksAhead = LinkStepsAhead(PagesAhead, LinkProgress(productLinks, linkLoaders))
    /\ Progress(categoryPages, pageLoaders) \in SUBSET PageLoader)'
BY WorkOf, PTL

-----------------------------------------------------------------------------
(***************************************************************************)
(* What a handler of one page, or of one link, leaves.                     *)
(***************************************************************************)

\* Every link has a place among the open ones.
LEMMA LinksInHand ==
  ASSUME NEW q, NEW lls
  PROVE  \A l \in LinkProgress(q, lls) : \E o \in OpenLinksIn(q, lls) : o.link = l.link
<1>1. /\ DOMAIN WaitingAt(q) = 1..Len(q) /\ DOMAIN LinkKeys(q) = 1..Len(q)
      /\ DOMAIN FetchedAt(lls) = 1..Len(lls) /\ DOMAIN LinkKeys(lls) = 1..Len(lls)
  BY DEF WaitingAt, FetchedAt, LinkKeys
<1>2. \A k \in 1..Len(q) : LinkKeys(q)[k].link = WaitingAt(q)[k].link
  BY DEF WaitingAt, LinkKeys
<1>3. \A k \in 1..Len(lls) : LinkKeys(lls)[k].link = FetchedAt(lls)[k].link
  BY DEF FetchedAt, LinkKeys
<1> QED BY <1>1, <1>2, <1>3 DEF LinkProgress, OpenLinksIn, Together

\* Taking out the link i.
LEMMA RemoveFetch ==
  ASSUME NEW q, NEW lls \in Seq(LinkLoader), NEW i \in DOMAIN lls
  PROVE  \A l : l \in LinkProgress(q, lls)
                <=> \/ l \in LinkProgress(q, RemoveAt(lls, i))
                    \/ l = [link |-> lls[i].link, stage |-> lls[i].stage]
<1> DEFINE lls2 == RemoveAt(lls, i)  n == Len(lls)
<1>1. n \in Nat /\ DOMAIN lls = 1..n /\ i \in 1..n
  BY LenProperties
<1>2. /\ DOMAIN lls2 = 1..(n - 1) /\ Len(lls2) = n - 1
      /\ \A k \in 1..(n - 1) : lls2[k] = lls[IF k < i THEN k ELSE k + 1]
  BY RemoveAtEntries, RemoveAtProperties
<1>3. \A k \in 1..(n - 1) : (IF k < i THEN k ELSE k + 1) \in 1..n
  BY <1>1
<1> HIDE DEF lls2
<1>4. Removed(FetchedAt(lls), FetchedAt(lls2), i)
  <2>1. /\ DOMAIN FetchedAt(lls) = 1..n /\ DOMAIN FetchedAt(lls2) = 1..(n - 1)
    BY <1>2 DEF FetchedAt
  <2>2. \A k \in 1..(n - 1) :
          FetchedAt(lls2)[k] = FetchedAt(lls)[IF k < i THEN k ELSE k + 1]
    BY <1>2, <1>3 DEF FetchedAt
  <2> QED BY <1>1, <2>1, <2>2 DEF Removed
<1>5. FetchedAt(lls)[i] = [link |-> lls[i].link, stage |-> lls[i].stage]
  BY <1>1 DEF FetchedAt
<1>6. \A l : l \in Together(WaitingAt(q), FetchedAt(lls))
              <=> \/ l \in Together(WaitingAt(q), FetchedAt(lls2))
                  \/ l = FetchedAt(lls)[i]
  BY <1>4, RemovedKeys
<1> QED BY <1>5, <1>6 DEF LinkProgress, lls2

\* A link that has been loaded: nothing else of the open links changes.
LEMMA LinkMovesOn ==
  ASSUME linkLoaders \in Seq(LinkLoader), NEW i \in DOMAIN linkLoaders,
         linkLoaders' = [linkLoaders EXCEPT ![i].stage = "parsing"],
         UNCHANGED productLinks
  PROVE  \A l \in LinkProgress(productLinks', linkLoaders') :
           \/ l \in LinkProgress(productLinks, RemoveAt(linkLoaders, i))
           \/ l.link = linkLoaders[i].link /\ l.stage = "parsing"
<1> DEFINE n == Len(linkLoaders)
<1>1. /\ n \in Nat /\ DOMAIN linkLoaders = 1..n /\ i \in 1..n
      /\ \A k \in 1..n : linkLoaders[k] \in LinkLoader
  BY LenProperties, ElementOfSeq
<1>2. PICK lls2 : lls2 = linkLoaders'
  OBVIOUS
<1>3. /\ DOMAIN lls2 = 1..n
      /\ \A k \in 1..n : k # i => lls2[k] = linkLoaders[k]
      /\ lls2[i].link = linkLoaders[i].link /\ lls2[i].stage = "parsing"
      /\ lls2 \in Seq(LinkLoader)
  <2>1. DOMAIN lls2 = 1..n /\ \A k \in 1..n : k # i => lls2[k] = linkLoaders[k]
    BY <1>1, <1>2
  <2>2. /\ lls2[i].link = linkLoaders[i].link /\ lls2[i].stage = "parsing"
        /\ lls2[i] \in LinkLoader
    BY <1>1, <1>2 DEF LinkLoader
  <2>3. lls2 \in [1..n -> LinkLoader]
    <3>1. \A k \in 1..n : lls2[k] \in LinkLoader
      BY <1>1, <2>1, <2>2
    <3>2. lls2 = [k \in 1..n |-> lls2[k]]
      BY <1>1, <1>2
    <3> QED BY <3>1, <3>2
  <2> QED BY <1>1, <2>1, <2>2, <2>3, FunctionIsSeq
<1>4. Len(lls2) = n
  BY <1>1, <1>3, LenProperties
<1>5. FetchedAt(RemoveAt(lls2, i)) = FetchedAt(RemoveAt(linkLoaders, i))
  <2>1. /\ Len(RemoveAt(lls2, i)) = n - 1 /\ Len(RemoveAt(linkLoaders, i)) = n - 1
        /\ \A k \in 1..(n - 1) : RemoveAt(lls2, i)[k] = lls2[IF k < i THEN k ELSE k + 1]
        /\ \A k \in 1..(n - 1) : RemoveAt(linkLoaders, i)[k]
                                   = linkLoaders[IF k < i THEN k ELSE k + 1]
    BY <1>1, <1>3, <1>4, RemoveAtEntries, RemoveAtProperties
  <2>2. \A k \in 1..(n - 1) : /\ (IF k < i THEN k ELSE k + 1) \in 1..n
                              /\ (IF k < i THEN k ELSE k + 1) # i
    BY <1>1
  <2>3. \A k \in 1..(n - 1) : RemoveAt(lls2, i)[k] = RemoveAt(linkLoaders, i)[k]
    BY <1>3, <2>1, <2>2
  <2> QED BY <2>1, <2>3 DEF FetchedAt
<1>6. \A l : l \in LinkProgress(productLinks, lls2)
              <=> \/ l \in LinkProgress(productLinks, RemoveAt(lls2, i))
                  \/ l = [link |-> lls2[i].link, stage |-> lls2[i].stage]
  BY <1>1, <1>3, RemoveFetch
<1>7. LinkProgress(productLinks, RemoveAt(lls2, i))
        = LinkProgress(productLinks, RemoveAt(linkLoaders, i))
  BY <1>5 DEF LinkProgress
<1>8. LinkProgress(productLinks', linkLoaders') = LinkProgress(productLinks, lls2)
  BY <1>2
<1>9. \A l \in LinkProgress(productLinks, lls2) :
        \/ l \in LinkProgress(productLinks, RemoveAt(linkLoaders, i))
        \/ l.link = linkLoaders[i].link /\ l.stage = "parsing"
  BY <1>3, <1>6, <1>7
<1> QED BY <1>8, <1>9

\* Where the entries of a concatenation come from.
LEMMA ConcatFrom ==
  ASSUME NEW S, NEW a \in Seq(S), NEW b \in Seq(S), NEW j \in 1..Len(a \o b)
  PROVE  \/ \E i \in 1..Len(a) : (a \o b)[j] = a[i]
         \/ \E i \in 1..Len(b) : (a \o b)[j] = b[i]
<1>1. /\ Len(a) \in Nat /\ Len(b) \in Nat /\ Len(a \o b) = Len(a) + Len(b)
      /\ \A k \in 1..(Len(a) + Len(b)) :
           (a \o b)[k] = IF k <= Len(a) THEN a[k] ELSE b[k - Len(a)]
  BY ConcatEntries, LenProperties
<1>2. j <= Len(a) => j \in 1..Len(a)
  BY <1>1
<1>3. ~(j <= Len(a)) => j - Len(a) \in 1..Len(b)
  BY <1>1
<1> QED BY <1>1, <1>2, <1>3

\* A page that tells its links adds only these.
LEMMA ToldLinks ==
  ASSUME TypeOK, NEW row \in Row, NEW n \in 0..MaxLinks, NEW start \in 0..n,
         productLinks' = productLinks \o Rest(LinksOf(row, n), start),
         linkLoaders' = linkLoaders \o OpenLinks(LinksOf(row, n), start)
  PROVE  \A l \in LinkProgress(productLinks', linkLoaders') :
           \/ l \in LinkProgress(productLinks, linkLoaders)
           \/ l.link.row = row.id /\ l.link.page = row.page
<1> DEFINE found == LinksOf(row, n)
<1>1. /\ n \in Nat /\ start \in 0..Len(found) /\ found \in Seq(LinkObject) /\ Len(found) = n
      /\ \A k \in 1..n : found[k].link.row = row.id /\ found[k].link.page = row.page
  <2>1. n \in Nat /\ found \in Seq(LinkObject) /\ Len(found) = n
    BY LinksOfProperties, CrawlAssumption
  <2>2. \A k \in 1..n : found[k].link.row = row.id /\ found[k].link.page = row.page
    BY DEF LinksOf
  <2> QED BY <2>1, <2>2
<1>2. /\ productLinks \in Seq(LinkObject) /\ linkLoaders \in Seq(LinkLoader)
  BY DEF TypeOK
<1> HIDE DEF found
<1>3. /\ OpenLinks(found, start) \in Seq(LinkLoader) /\ Len(OpenLinks(found, start)) = start
      /\ Rest(found, start) \in Seq(LinkObject) /\ Len(Rest(found, start)) = n - start
      /\ \A k \in 1..(n - start) : Rest(found, start)[k] = found[start + k]
  <2>1. /\ Rest(found, start) \in Seq(LinkObject) /\ Len(Rest(found, start)) = Len(found) - start
        /\ \A k \in 1..(Len(found) - start) : Rest(found, start)[k] = found[start + k]
    BY <1>1, RestEntries
  <2>2. OpenLinks(found, start) \in Seq(LinkLoader) /\ Len(OpenLinks(found, start)) = start
    BY <1>1, OpenLinksProperties
  <2> QED BY <1>1, <2>1, <2>2
<1>4. \A k \in 1..start : /\ OpenLinks(found, start)[k].link.row = row.id
                          /\ OpenLinks(found, start)[k].link.page = row.page
  <2>1. \A k \in 1..start : OpenLinks(found, start)[k].link = found[k].link /\ k \in 1..n
    BY <1>1 DEF OpenLinks
  <2> QED BY <1>1, <2>1
<1>5. \A k \in 1..(n - start) : /\ Rest(found, start)[k].link.row = row.id
                                /\ Rest(found, start)[k].link.page = row.page
  <2>1. \A k \in 1..(n - start) : start + k \in 1..n
    BY <1>1
  <2> QED BY <1>1, <1>3, <2>1
<1>6. PICK a, b, x, y : /\ a = productLinks /\ b = linkLoaders
                        /\ x = Rest(found, start) /\ y = OpenLinks(found, start)
  OBVIOUS
<1>7. productLinks' = a \o x /\ linkLoaders' = b \o y
  BY <1>6 DEF found
<1>8. /\ a \in Seq(LinkObject) /\ x \in Seq(LinkObject)
      /\ b \in Seq(LinkLoader) /\ y \in Seq(LinkLoader)
      /\ \A k \in 1..Len(x) : x[k].link.row = row.id /\ x[k].link.page = row.page
      /\ \A k \in 1..Len(y) : y[k].link.row = row.id /\ y[k].link.page = row.page
  BY <1>2, <1>3, <1>4, <1>5, <1>6
<1>9. ASSUME NEW k \in 1..Len(a \o x)
      PROVE  \/ WaitingAt(a \o x)[k] \in LinkProgress(a, b)
             \/ /\ WaitingAt(a \o x)[k].link.row = row.id
                /\ WaitingAt(a \o x)[k].link.page = row.page
  <2>1. WaitingAt(a \o x)[k] = [link |-> (a \o x)[k].link, stage |-> "loading"]
    BY DEF WaitingAt
  <2>2. \/ \E i \in 1..Len(a) : (a \o x)[k] = a[i]
        \/ \E i \in 1..Len(x) : (a \o x)[k] = x[i]
    <3>1. a \in Seq(LinkObject) /\ x \in Seq(LinkObject)
      BY <1>8
    <3> QED BY <3>1, ConcatFrom
  <2>3. ASSUME NEW i \in 1..Len(a), (a \o x)[k] = a[i]
        PROVE  WaitingAt(a \o x)[k] \in LinkProgress(a, b)
    <3>1. i \in DOMAIN WaitingAt(a) /\ WaitingAt(a \o x)[k] = WaitingAt(a)[i]
      BY <2>1, <2>3 DEF WaitingAt
    <3> QED BY <3>1 DEF LinkProgress, Together
  <2> QED BY <1>8, <2>1, <2>2, <2>3
<1>10. ASSUME NEW k \in 1..Len(b \o y)
       PROVE  \/ FetchedAt(b \o y)[k] \in LinkProgress(a, b)
              \/ /\ FetchedAt(b \o y)[k].link.row = row.id
                 /\ FetchedAt(b \o y)[k].link.page = row.page
  <2>1. FetchedAt(b \o y)[k] = [link |-> (b \o y)[k].link, stage |-> (b \o y)[k].stage]
    BY DEF FetchedAt
  <2>2. \/ \E i \in 1..Len(b) : (b \o y)[k] = b[i]
        \/ \E i \in 1..Len(y) : (b \o y)[k] = y[i]
    <3>1. b \in Seq(LinkLoader) /\ y \in Seq(LinkLoader)
      BY <1>8
    <3> QED BY <3>1, ConcatFrom
  <2>3. ASSUME NEW i \in 1..Len(b), (b \o y)[k] = b[i]
        PROVE  FetchedAt(b \o y)[k] \in LinkProgress(a, b)
    <3>1. i \in DOMAIN FetchedAt(b) /\ FetchedAt(b \o y)[k] = FetchedAt(b)[i]
      BY <2>1, <2>3 DEF FetchedAt
    <3> QED BY <3>1 DEF LinkProgress, Together
  <2> QED BY <1>8, <2>1, <2>2, <2>3
<1>11. /\ DOMAIN WaitingAt(a \o x) = 1..Len(a \o x)
       /\ DOMAIN FetchedAt(b \o y) = 1..Len(b \o y)
  BY DEF WaitingAt, FetchedAt
<1>12. \A l \in LinkProgress(a \o x, b \o y) :
         l \in LinkProgress(a, b) \/ (l.link.row = row.id /\ l.link.page = row.page)
  <2> DEFINE Ok(l) == l \in LinkProgress(a, b) \/ (l.link.row = row.id /\ l.link.page = row.page)
  <2>1. /\ \A k \in 1..Len(a \o x) : Ok(WaitingAt(a \o x)[k])
        /\ \A k \in 1..Len(b \o y) : Ok(FetchedAt(b \o y)[k])
    BY <1>9, <1>10
  <2> HIDE DEF Ok
  <2>2. \A l \in Together(WaitingAt(a \o x), FetchedAt(b \o y)) : Ok(l)
    BY <1>11, <2>1 DEF Together
  <2> QED BY <2>2 DEF LinkProgress, Ok
<1> QED BY <1>6, <1>7, <1>12

\* What a step of the crawl leaves to do.
Less == /\ PagesAhead' \subseteq PagesAhead /\ LinksAhead' \subseteq LinksAhead
        /\ PagesAhead' # PagesAhead \/ LinksAhead' # LinksAhead

\* A step that reads on and whose links are no new ones leaves no more to do.
LEMMA NoMoreWork ==
  ASSUME OInv, OInv', parserOffset' >= parserOffset,
         \A p2 \in Progress(categoryPages', pageLoaders') :
           \/ p2 \in Progress(categoryPages, pageLoaders)
           \/ p2.row.id > parserOffset
           \/ \E p \in Progress(categoryPages, pageLoaders) : Later(p, p2),
         \A l2 \in LinkProgress(productLinks', linkLoaders') :
           \/ [row |-> l2.link.row, page |-> l2.link.page, step |-> 2] \in PagesAhead
           \/ \E l \in LinkProgress(productLinks, linkLoaders) :
                /\ l.link = l2.link
                /\ \A n \in Int : n >= StepOf[l2.stage] => n >= StepOf[l.stage]
  PROVE  PagesAhead' \subseteq PagesAhead /\ LinksAhead' \subseteq LinksAhead
<1>1. /\ TypeOK /\ TypeOK' /\ parserOffset \in Int /\ parserOffset' \in Int
  BY DEF OInv, IInv, TypeOK
<1>2. PICK o, o2, P, P2, A, A2, K, K2 :
        /\ o = parserOffset /\ o2 = parserOffset'
        /\ P = Progress(categoryPages, pageLoaders)
        /\ P2 = Progress(categoryPages', pageLoaders')
        /\ A = PagesAhead /\ A2 = PagesAhead'
        /\ K = LinkProgress(productLinks, linkLoaders)
        /\ K2 = LinkProgress(productLinks', linkLoaders')
  OBVIOUS
<1>3. /\ A = StepsAhead(o, P) /\ A2 = StepsAhead(o2, P2)
      /\ LinksAhead = LinkStepsAhead(A, K) /\ LinksAhead' = LinkStepsAhead(A2, K2)
      /\ P \in SUBSET PageLoader /\ P2 \in SUBSET PageLoader
  BY <1>1, <1>2, WorkOf, WorkOfNext
<1>4. A2 \subseteq A
  <2>1. /\ o \in Int /\ o2 \in Int /\ o2 >= o
        /\ \A p2 \in P2 : p2 \in P \/ p2.row.id > o \/ \E p \in P : Later(p, p2)
    BY <1>1, <1>2
  <2>2. StepsAhead(o2, P2) \subseteq StepsAhead(o, P)
    BY <1>3, <2>1, FewerSteps
  <2> QED BY <1>3, <2>2
<1>5. LinkStepsAhead(A2, K2) \subseteq LinkStepsAhead(A, K)
  <2>1. \A l2 \in K2 :
           \/ [row |-> l2.link.row, page |-> l2.link.page, step |-> 2] \in A
           \/ \E l \in K : /\ l.link = l2.link
                           /\ \A n \in Int : n >= StepOf[l2.stage] => n >= StepOf[l.stage]
    BY <1>2
  <2> QED BY <1>4, <2>1, FewerLinkSteps
<1> QED BY <1>2, <1>3, <1>4, <1>5

\* The handlers of a category page: the page i itself moves on, or is taken out.
LEMMA PageWork ==
  ASSUME OInv, OInv', dbErrors = 0, parserOffset' >= parserOffset,
         NEW i \in DOMAIN pageLoaders, NEW here, here = pageLoaders[i], NEW Q,
         \A p : p \in Progress(categoryPages, pageLoaders) <=> p \in Q \/ p = here,
         \A p \in Q : p.row.id # here.row.id,
         \A p2 \in Progress(categoryPages', pageLoaders') :
           p2 \in Q \/ p2.row.id > parserOffset \/ Later(here, p2),
         \A l2 \in LinkProgress(productLinks', linkLoaders') :
           \/ /\ l2.link.row = here.row.id /\ l2.link.page = here.row.page
              /\ here.stage = "parsing"
           \/ l2 \in LinkProgress(productLinks, linkLoaders)
  PROVE  Less
<1>1. /\ TypeOK /\ TypeOK' /\ parserOffset \in Int /\ parserOffset' \in Int
  BY DEF OInv, IInv, TypeOK
<1>2. PICK o, o2, P, P2 :
        /\ o = parserOffset /\ o2 = parserOffset'
        /\ P = Progress(categoryPages, pageLoaders)
        /\ P2 = Progress(categoryPages', pageLoaders')
  OBVIOUS
<1>3. /\ PagesAhead = StepsAhead(o, P) /\ PagesAhead' = StepsAhead(o2, P2)
      /\ P \in SUBSET PageLoader /\ P2 \in SUBSET PageLoader
  BY <1>1, <1>2, WorkOf, WorkOfNext
<1>4. /\ here \in P /\ here.row.id \in 1..DbRows /\ here.row.id <= o
  <2>1. here \in P
    BY <1>2
  <2>2. \A p \in P : p.row.id \in 1..DbRows /\ p.row.id <= o
    BY <1>2 DEF OInv, InOrder, Ordered, Fresh
  <2> QED BY <2>1, <2>2
<1>5. [row |-> here.row.id, page |-> here.row.page, step |-> StepOf[here.stage]]
        \in StepsAhead(o, P) \ StepsAhead(o2, P2)
  <2>1. /\ o \in Int /\ o2 \in Int /\ o2 >= o
        /\ \A p \in P : p = here \/ p \in Q
        /\ \A p \in Q : p.row.id # here.row.id
        /\ \A p \in P2 : p \in Q \/ p.row.id > o \/ Later(here, p)
    BY <1>1, <1>2
  <2>2. P \in SUBSET PageLoader /\ P2 \in SUBSET PageLoader
    BY <1>3
  <2>3. OnePageMoves(o, o2, P, P2, Q, here)
    BY <1>4, <2>1, <2>2 DEF OnePageMoves
  <2> QED BY <2>3, StepDone
<1>6. \A p2 \in Progress(categoryPages', pageLoaders') :
        \/ p2 \in Progress(categoryPages, pageLoaders)
        \/ p2.row.id > parserOffset
        \/ \E p \in Progress(categoryPages, pageLoaders) : Later(p, p2)
  BY <1>2, <1>4
<1>7. \A l2 \in LinkProgress(productLinks', linkLoaders') :
        \/ [row |-> l2.link.row, page |-> l2.link.page, step |-> 2] \in PagesAhead
        \/ \E l \in LinkProgress(productLinks, linkLoaders) :
             /\ l.link = l2.link
             /\ \A n \in Int : n >= StepOf[l2.stage] => n >= StepOf[l.stage]
  <2> SUFFICES ASSUME NEW l2 \in LinkProgress(productLinks', linkLoaders')
      PROVE  \/ [row |-> l2.link.row, page |-> l2.link.page, step |-> 2] \in PagesAhead
             \/ \E l \in LinkProgress(productLinks, linkLoaders) :
                  /\ l.link = l2.link
                  /\ \A n \in Int : n >= StepOf[l2.stage] => n >= StepOf[l.stage]
    OBVIOUS
  <2>1. CASE /\ l2.link.row = here.row.id /\ l2.link.page = here.row.page
             /\ here.stage = "parsing"
    <3>1. StepOf[here.stage] = 2
      BY <2>1, StepNumbers
    <3> QED BY <2>1, <3>1, <1>3, <1>5
  <2>2. CASE l2 \in LinkProgress(productLinks, linkLoaders)
    BY <2>2
  <2> QED BY <2>1, <2>2
<1>8. PagesAhead' \subseteq PagesAhead /\ LinksAhead' \subseteq LinksAhead
  BY <1>6, <1>7, NoMoreWork
<1>9. PagesAhead' # PagesAhead
  BY <1>3, <1>5
<1> QED BY <1>8, <1>9 DEF Less

\* The handlers of a product page: the link i moves on, or is taken out.
LEMMA LinkWork ==
  ASSUME OInv, OInv', dbErrors = 0, parserOffset' >= parserOffset,
         NEW i \in DOMAIN linkLoaders, NEW here, here = linkLoaders[i], NEW R,
         R = LinkProgress(productLinks, RemoveAt(linkLoaders, i)),
         \A p2 \in Progress(categoryPages', pageLoaders') :
           p2 \in Progress(categoryPages, pageLoaders) \/ p2.row.id > parserOffset,
         \A l2 \in LinkProgress(productLinks', linkLoaders') :
           \/ l2 \in R
           \/ l2.link = here.link /\ here.stage = "loading" /\ l2.stage = "parsing"
  PROVE  Less
<1>1. /\ TypeOK /\ TypeOK' /\ parserOffset \in Int /\ parserOffset' \in Int
      /\ linkLoaders \in Seq(LinkLoader)
  BY DEF OInv, IInv, TypeOK
<1>2. /\ here \in LinkLoader /\ here.link \in Link /\ here.stage \in {"loading", "parsing"}
      /\ here.prow \in Int
  <2>1. here \in LinkLoader
    BY <1>1, ElementOfSeq, LenProperties
  <2> QED BY <2>1 DEF LinkLoader
<1>3. StepOf[here.stage] \in 1..2
  BY <1>2, StepNumbers
<1>4. PICK at : at = [link |-> here.link, stage |-> here.stage]
  OBVIOUS
<1>5. \A l : l \in LinkProgress(productLinks, linkLoaders) <=> l \in R \/ l = at
  BY <1>1, <1>4, RemoveFetch
<1>6. PICK key : key = [row |-> here.prow, link |-> here.link]
  OBVIOUS
<1>7. /\ \A l : l \in OpenLinksIn(productLinks, linkLoaders)
                 <=> l \in OpenLinksIn(productLinks, RemoveAt(linkLoaders, i)) \/ l = key
      /\ LinksApart(productLinks, linkLoaders)
           => key \notin OpenLinksIn(productLinks, RemoveAt(linkLoaders, i))
  BY <1>1, <1>6, RemoveLink
<1>8. /\ \A l \in OpenLinksIn(productLinks, linkLoaders) :
            l.row = l.link.row /\ l.row \in 1..DbRows /\ l \in [row : Int, link : Link]
      /\ LinksApart(productLinks, linkLoaders)
      /\ Fresh(Progress(categoryPages, pageLoaders),
               OpenLinksIn(productLinks, linkLoaders), parserOffset)
  <2>1. \A l \in OpenLinksIn(productLinks, linkLoaders) : l \in [row : Int, link : Link]
    BY <1>1, TypedEntries DEF TypeOK
  <2> QED BY <2>1 DEF OInv, InOrder, Ordered
<1>9. \A l \in R : l.link # here.link
  <2> SUFFICES ASSUME NEW l \in R, l.link = here.link PROVE FALSE
    OBVIOUS
  <2>1. PICK k \in OpenLinksIn(productLinks, RemoveAt(linkLoaders, i)) : k.link = l.link
    BY LinksInHand
  <2>2. k \in [row : Int, link : Link] /\ k.row = k.link.row /\ here.prow = here.link.row
    BY <1>6, <1>7, <1>8
  <2>3. k = key
    BY <1>6, <2>1, <2>2
  <2> QED BY <1>7, <1>8, <2>3
<1>10. /\ here.link.row \in 1..DbRows /\ here.link.row <= parserOffset
       /\ \A p \in Progress(categoryPages, pageLoaders) : here.link.row = p.row.id =>
            IF p.stage = "linked" THEN here.link.page <= p.row.page
                                  ELSE here.link.page < p.row.page
  <2>1. key \in OpenLinksIn(productLinks, linkLoaders) /\ key.link = here.link
    BY <1>6, <1>7
  <2> QED BY <1>8, <2>1 DEF Fresh
<1>11. here.link \in [row : 1..DbRows, page : 1..LastPage, k : 1..MaxLinks]
  BY <1>2, <1>10 DEF Link
<1>12. PICK o, o2, P, P2, A, A2, K, K2 :
        /\ o = parserOffset /\ o2 = parserOffset'
        /\ P = Progress(categoryPages, pageLoaders)
        /\ P2 = Progress(categoryPages', pageLoaders')
        /\ A = PagesAhead /\ A2 = PagesAhead'
        /\ K = LinkProgress(productLinks, linkLoaders)
        /\ K2 = LinkProgress(productLinks', linkLoaders')
  OBVIOUS
<1>13. /\ A2 = StepsAhead(o2, P2)
       /\ LinksAhead = LinkStepsAhead(A, K) /\ LinksAhead' = LinkStepsAhead(A2, K2)
       /\ P \in SUBSET PageLoader /\ P2 \in SUBSET PageLoader
  BY <1>1, <1>12, WorkOf, WorkOfNext
<1>14. [row |-> here.link.row, page |-> here.link.page, step |-> 2] \notin A2
  <2>1. here.link.row \in Int /\ o \in Int /\ o2 \in Int /\ o2 >= o
    BY <1>1, <1>2, <1>12 DEF Link
  <2>2. here.link.row <= o2
    BY <1>10, <1>12, <2>1
  <2>3. ASSUME NEW p \in P2, here.link.row = p.row.id
        PROVE  IF p.stage = "linked" THEN here.link.page <= p.row.page
                                     ELSE here.link.page < p.row.page
    <3>1. p \in P \/ p.row.id > o
      BY <1>12
    <3>2. ~(p.row.id > o)
      BY <1>10, <1>12, <2>1, <2>3
    <3> QED BY <1>10, <1>12, <2>3, <3>1, <3>2
  <2>4. [row |-> here.link.row, page |-> here.link.page, step |-> 2]
          \notin StepsAhead(o2, P2)
    BY <1>2, <1>13, <2>1, <2>2, <2>3, LinkIsTold
  <2> QED BY <1>13, <2>4
<1>15. [link |-> here.link, step |-> StepOf[here.stage]]
         \in LinkStepsAhead(A, K) \ LinkStepsAhead(A2, K2)
  <2>1. /\ at \in K /\ at.link = here.link /\ at.stage = here.stage
    BY <1>4, <1>5, <1>12
  <2>2. \A l \in K2 : l \in R \/ (l.link = at.link /\ ~(StepOf[at.stage] >= StepOf[l.stage]))
    <3>1. ~(StepOf["loading"] >= StepOf["parsing"])
      BY StepNumbers
    <3> QED BY <1>12, <2>1, <3>1
  <2>3. /\ at.link \in [row : 1..DbRows, page : 1..LastPage, k : 1..MaxLinks]
        /\ StepOf[at.stage] \in 1..2
        /\ [row |-> at.link.row, page |-> at.link.page, step |-> 2] \notin A2
        /\ \A l \in R : l.link # at.link
    BY <1>3, <1>9, <1>11, <1>14, <2>1
  <2>4. [link |-> at.link, step |-> StepOf[at.stage]]
          \in LinkStepsAhead(A, K) \ LinkStepsAhead(A2, K2)
    <3>1. OneLinkMoves(A2, K, K2, R, at)
      BY <2>1, <2>2, <2>3 DEF OneLinkMoves
    <3> QED BY <3>1, LinkStepDone
  <2> QED BY <2>1, <2>4
<1>16. \A l2 \in LinkProgress(productLinks', linkLoaders') :
         \/ [row |-> l2.link.row, page |-> l2.link.page, step |-> 2] \in PagesAhead
         \/ \E l \in LinkProgress(productLinks, linkLoaders) :
              /\ l.link = l2.link
              /\ \A n \in Int : n >= StepOf[l2.stage] => n >= StepOf[l.stage]
  <2> SUFFICES ASSUME NEW l2 \in LinkProgress(productLinks', linkLoaders')
      PROVE  \E l \in LinkProgress(productLinks, linkLoaders) :
               /\ l.link = l2.link
               /\ \A n \in Int : n >= StepOf[l2.stage] => n >= StepOf[l.stage]
    OBVIOUS
  <2>1. CASE l2 \in R
    BY <1>5, <2>1
  <2>2. CASE l2.link = here.link /\ here.stage = "loading" /\ l2.stage = "parsing"
    <3>1. \A n \in Int : n >= StepOf["parsing"] => n >= StepOf["loading"]
      BY StepNumbers
    <3>2. at \in LinkProgress(productLinks, linkLoaders) /\ at.link = l2.link
          /\ at.stage = "loading"
      BY <1>4, <1>5, <2>2
    <3> QED BY <2>2, <3>1, <3>2
  <2> QED BY <2>1, <2>2
<1>17. PagesAhead' \subseteq PagesAhead /\ LinksAhead' \subseteq LinksAhead
  BY <1>16, NoMoreWork
<1>18. LinksAhead' # LinksAhead
  BY <1>13, <1>15
<1> QED BY <1>17, <1>18 DEF Less

\* The page i, and the rows of the others.
LEMMA PageHere ==
  ASSUME OInv, dbErrors = 0, NEW i \in DOMAIN pageLoaders
  PROVE  /\ pageLoaders[i] \in PageLoader
         /\ pageLoaders[i] = [row |-> pageLoaders[i].row, stage |-> pageLoaders[i].stage]
         /\ \A p : p \in Progress(categoryPages, pageLoaders)
                   <=> \/ p \in Progress(categoryPages, RemoveAt(pageLoaders, i))
                       \/ p = pageLoaders[i]
         /\ \A p \in Progress(categoryPages, RemoveAt(pageLoaders, i)) :
              p.row.id # pageLoaders[i].row.id
<1>1. pageLoaders \in Seq(PageLoader) /\ DOMAIN pageLoaders = 1..Len(pageLoaders)
  BY LenProperties DEF OInv, IInv, TypeOK
<1>2. pageLoaders[i] \in PageLoader
  BY <1>1, ElementOfSeq
<1>3. pageLoaders[i] = [row |-> pageLoaders[i].row, stage |-> pageLoaders[i].stage]
  BY <1>2 DEF PageLoader
<1>4. RowsApart(categoryPages, pageLoaders)
  BY DEF OInv, InOrder, Ordered
<1> DEFINE pls == RemoveAt(pageLoaders, i)
<1>5. /\ \A p : p \in Progress(categoryPages, pageLoaders)
                <=> \/ p \in Progress(categoryPages, pls)
                    \/ p = [row |-> pageLoaders[i].row, stage |-> pageLoaders[i].stage]
      /\ pageLoaders[i].row.id \notin Together(RowKeys(categoryPages), PageKeys(pls))
  BY <1>1, <1>4, RemovePage
<1> HIDE DEF pls
<1>6. pageLoaders[i].row.id \in Together(RowKeys(categoryPages), PageKeys(pls))
        <=> \E p \in Progress(categoryPages, pls) : p.row.id = pageLoaders[i].row.id
  BY IdsInHand
<1> QED BY <1>2, <1>3, <1>5, <1>6 DEF pls

\* What a SELECT delivers is behind all that was read.
LEMMA NewRowsAhead ==
  ASSUME NEW o \in Int, NEW o2 \in Int
  PROVE  \A p \in NewRows(o, o2) : p.row.id > o
BY DEF NewRows

\* The handlers run while dbErrors' = 0, so no SELECT has failed before.
LEMMA NoErrorsBefore ==
  ASSUME OInv, dbErrors' >= dbErrors, dbErrors' = 0
  PROVE  dbErrors = 0 /\ dbErrors' = dbErrors
BY DEF OInv, IInv, TypeOK

LEMMA NoNextPageWork ==
  ASSUME OInv, OInv', Next, dbErrors' = 0, NEW i \in DOMAIN pageLoaders, NoNextPage(i)
  PROVE  Less
<1>1. /\ Continues(categoryPages, RemoveAt(pageLoaders, i), linkLoaders)
      /\ parserOffset \in Int /\ parserOffset' \in Int
  BY NoNextPageOrder DEF OInv, IInv, TypeOK
<1>2. dbErrors = 0 /\ parserOffset' >= parserOffset
  BY <1>1, NoErrorsBefore DEF Continues
<1>3. PICK Q, here : /\ Q = Progress(categoryPages, RemoveAt(pageLoaders, i))
                     /\ here = pageLoaders[i]
  OBVIOUS
<1>4. /\ \A p : p \in Progress(categoryPages, pageLoaders) <=> p \in Q \/ p = here
      /\ \A p \in Q : p.row.id # here.row.id
  BY <1>2, <1>3, PageHere
<1>5. \A p2 \in Progress(categoryPages', pageLoaders') :
        p2 \in Q \/ p2.row.id > parserOffset \/ Later(here, p2)
  <2>1. \A p \in NewRows(parserOffset, parserOffset') : p.row.id > parserOffset
    BY <1>1, NewRowsAhead
  <2> QED BY <1>1, <1>3, <2>1 DEF Continues
<1>6. LinkProgress(productLinks', linkLoaders') = LinkProgress(productLinks, linkLoaders)
  BY <1>1 DEF Continues
<1>7. here = pageLoaders[i]
  BY <1>3
<1> QED BY <1>2, <1>4, <1>5, <1>6, <1>7, PageWork

LEMMA NextPageWork ==
  ASSUME OInv, OInv', Next, dbErrors' = 0, NEW i \in DOMAIN pageLoaders, NextPage(i)
  PROVE  Less
<1> DEFINE row2 == [pageLoaders[i].row EXCEPT !.page = @ + 1]
           pls == RemoveAt(pageLoaders, i)
<1>1. /\ Progress(categoryPages', pageLoaders') = Progress(<<row2>> \o categoryPages, pls)
      /\ LinkProgress(productLinks', linkLoaders') = LinkProgress(productLinks, linkLoaders)
      /\ UNCHANGED <<parserOffset, dbErrors>>
      /\ categoryPages \in Seq(Row) /\ parserOffset \in Int
  BY NextPageOrder DEF OInv, IInv, TypeOK
<1>2. dbErrors = 0 /\ parserOffset' >= parserOffset
  BY <1>1
<1>3. PICK Q, here : Q = Progress(categoryPages, pls) /\ here = pageLoaders[i]
  OBVIOUS
<1>4. /\ \A p : p \in Progress(categoryPages, pageLoaders) <=> p \in Q \/ p = here
      /\ \A p \in Q : p.row.id # here.row.id
      /\ here \in PageLoader
  BY <1>2, <1>3, PageHere
<1>5. /\ here.row \in Row /\ row2 \in Row /\ row2.id = here.row.id
      /\ row2.page = here.row.page + 1 /\ here.row.page \in Int
  <2>1. here.row.page < LastPage
    BY <1>3 DEF NextPage
  <2> QED BY <1>3, <1>4, <2>1, CrawlAssumption DEF PageLoader, Row
<1> HIDE DEF row2, pls
<1>6. \A p : p \in Progress(<<row2>> \o categoryPages, pls)
             <=> p \in Progress(categoryPages, pls) \/ p = [row |-> row2, stage |-> "loading"]
  BY <1>1, <1>5, PrependedRow
<1>7. PICK next : next = [row |-> row2, stage |-> "loading"]
  OBVIOUS
<1>8. Later(here, next)
  BY <1>5, <1>7 DEF Later
<1>9. \A p2 \in Progress(categoryPages', pageLoaders') :
        p2 \in Q \/ p2.row.id > parserOffset \/ Later(here, p2)
  BY <1>1, <1>3, <1>6, <1>7, <1>8
<1>10. here = pageLoaders[i]
  BY <1>3
<1> QED BY <1>1, <1>2, <1>4, <1>9, <1>10, PageWork

\* The handlers that move the page i on within its stages.
LEMMA StageWork ==
  ASSUME OInv, OInv', dbErrors = 0, NEW i \in DOMAIN pageLoaders, NEW stage,
         pageLoaders' = [pageLoaders EXCEPT ![i].stage = stage], UNCHANGED categoryPages,
         StepOf[stage] > StepOf[pageLoaders[i].stage], UNCHANGED parserOffset,
         \A l2 \in LinkProgress(productLinks', linkLoaders') :
           \/ /\ l2.link.row = pageLoaders[i].row.id /\ l2.link.page = pageLoaders[i].row.page
              /\ pageLoaders[i].stage = "parsing"
           \/ l2 \in LinkProgress(productLinks, linkLoaders)
  PROVE  Less
<1>1. parserOffset \in Int /\ pageLoaders \in Seq(PageLoader)
  BY DEF OInv, IInv, TypeOK
<1>2. PICK Q, here, there :
        /\ Q = Progress(categoryPages, RemoveAt(pageLoaders, i)) /\ here = pageLoaders[i]
        /\ there = [row |-> here.row, stage |-> stage]
  OBVIOUS
<1>3. /\ \A p : p \in Progress(categoryPages, pageLoaders) <=> p \in Q \/ p = here
      /\ \A p \in Q : p.row.id # here.row.id
      /\ here \in PageLoader
  BY <1>2, PageHere
<1>4. \A p : p \in Progress(categoryPages', pageLoaders') <=> p \in Q \/ p = there
  BY <1>1, <1>2, PageMovesOn
<1>5. Later(here, there)
  BY <1>2 DEF Later
<1>6. \A p2 \in Progress(categoryPages', pageLoaders') :
        p2 \in Q \/ p2.row.id > parserOffset \/ Later(here, p2)
  BY <1>4, <1>5
<1>7. /\ here = pageLoaders[i] /\ parserOffset' >= parserOffset
      /\ \A l2 \in LinkProgress(productLinks', linkLoaders') :
           \/ /\ l2.link.row = here.row.id /\ l2.link.page = here.row.page
              /\ here.stage = "parsing"
           \/ l2 \in LinkProgress(productLinks, linkLoaders)
  BY <1>1, <1>2
<1> QED BY <1>3, <1>6, <1>7, PageWork

LEMMA PageLoadedWork ==
  ASSUME OInv, OInv', dbErrors' = 0, NEW i \in DOMAIN pageLoaders, PageLoaded(i)
  PROVE  Less
<1>1. /\ pageLoaders[i].stage = "loading"
      /\ pageLoaders' = [pageLoaders EXCEPT ![i].stage = "parsing"]
      /\ UNCHANGED <<categoryPages, productLinks, linkLoaders, parserOffset, dbErrors>>
  BY DEF PageLoaded, queues, history
<1>2. /\ dbErrors = 0 /\ UNCHANGED categoryPages /\ UNCHANGED parserOffset
      /\ LinkProgress(productLinks', linkLoaders') = LinkProgress(productLinks, linkLoaders)
  BY <1>1
<1>3. StepOf["parsing"] > StepOf[pageLoaders[i].stage]
  BY <1>1, StepNumbers
<1>4. pageLoaders' = [pageLoaders EXCEPT ![i].stage = "parsing"]
  BY <1>1
<1> QED BY <1>2, <1>3, <1>4, StageWork

LEMMA GetedLinkWork ==
  ASSUME OInv, OInv', dbErrors' = 0, NEW i \in DOMAIN pageLoaders, NEW n \in 0..MaxLinks,
         GetedLink(i, n)
  PROVE  Less
<1> DEFINE row == pageLoaders[i].row  start == Started(n, workers_count)
<1>1. /\ pageLoaders[i].stage = "parsing"
      /\ pageLoaders' = [pageLoaders EXCEPT ![i].stage = "linked"]
      /\ linkLoaders' = linkLoaders \o OpenLinks(LinksOf(row, n), start)
      /\ productLinks' = productLinks \o Rest(LinksOf(row, n), start)
      /\ UNCHANGED <<categoryPages, parserOffset, dbErrors>>
  BY DEF GetedLink
<1>2. TypeOK /\ workers_count \in Int /\ dbErrors = 0
  BY <1>1 DEF OInv, IInv, TypeOK
<1>3. row \in Row /\ start \in 0..n
  <2>1. row \in Row
    BY <1>2, PageHere DEF PageLoader
  <2>2. n \in Nat
    BY CrawlAssumption
  <2> QED BY <1>2, <2>1, <2>2, StartedBounds, CrawlAssumption
<1>4. \A l \in LinkProgress(productLinks', linkLoaders') :
        \/ l \in LinkProgress(productLinks, linkLoaders)
        \/ l.link.row = row.id /\ l.link.page = row.page
  <2> HIDE DEF row, start
  <2> QED BY <1>1, <1>2, <1>3, ToldLinks
<1>5. StepOf["linked"] > StepOf[pageLoaders[i].stage]
  BY <1>1, StepNumbers
<1>6. pageLoaders' = [pageLoaders EXCEPT ![i].stage = "linked"]
  BY <1>1
<1>7. /\ UNCHANGED categoryPages /\ UNCHANGED parserOffset
      /\ \A l2 \in LinkProgress(productLinks', linkLoaders') :
           \/ /\ l2.link.row = pageLoaders[i].row.id /\ l2.link.page = pageLoaders[i].row.page
              /\ pageLoaders[i].stage = "parsing"
           \/ l2 \in LinkProgress(productLinks, linkLoaders)
  BY <1>1, <1>4
<1> QED BY <1>2, <1>5, <1>6, <1>7, StageWork

LEMMA LinkLoadedWork ==
  ASSUME OInv, OInv', dbErrors' = 0, NEW i \in DOMAIN linkLoaders, LinkLoaded(i)
  PROVE  Less
<1>1. /\ linkLoaders[i].stage = "loading"
      /\ linkLoaders' = [linkLoaders EXCEPT ![i].stage = "parsing"]
      /\ UNCHANGED <<categoryPages, pageLoaders, productLinks, parserOffset, dbErrors>>
  BY DEF LinkLoaded, queues, history
<1>2. /\ linkLoaders \in Seq(LinkLoader) /\ parserOffset \in Int /\ UNCHANGED productLinks
      /\ linkLoaders' = [linkLoaders EXCEPT ![i].stage = "parsing"]
  BY <1>1 DEF OInv, IInv, TypeOK
<1>3. PICK R, here : /\ R = LinkProgress(productLinks, RemoveAt(linkLoaders, i))
                     /\ here = linkLoaders[i]
  OBVIOUS
<1>4. \A l \in LinkProgress(productLinks', linkLoaders') :
           l \in R \/ (l.link = here.link /\ l.stage = "parsing")
  BY <1>2, <1>3, LinkMovesOn
<1>5. /\ dbErrors = 0 /\ parserOffset' >= parserOffset /\ here = linkLoaders[i]
      /\ R = LinkProgress(productLinks, RemoveAt(linkLoaders, i))
      /\ Progress(categoryPages', pageLoaders') = Progress(categoryPages, pageLoaders)
      /\ here.stage = "loading"
  BY <1>1, <1>2, <1>3
<1> QED BY <1>4, <1>5, LinkWork

LEMMA ProductEndWork ==
  ASSUME OInv, OInv', Next, dbErrors' = 0, NEW i \in DOMAIN linkLoaders, ProductEnd(i)
  PROVE  Less
<1>1. /\ Continues(categoryPages, pageLoaders, RemoveAt(linkLoaders, i))
      /\ parserOffset \in Int /\ parserOffset' \in Int
  BY ProductEndOrder DEF OInv, IInv, TypeOK
<1>2. dbErrors = 0 /\ parserOffset' >= parserOffset
  BY <1>1, NoErrorsBefore DEF Continues
<1>3. PICK R, here : /\ R = LinkProgress(productLinks, RemoveAt(linkLoaders, i))
                     /\ here = linkLoaders[i]
  OBVIOUS
<1>4. LinkProgress(productLinks', linkLoaders') = R
  BY <1>1, <1>3 DEF Continues
<1>5. \A p2 \in Progress(categoryPages', pageLoaders') :
        p2 \in Progress(categoryPages, pageLoaders) \/ p2.row.id > parserOffset
  <2>1. \A p \in NewRows(parserOffset, parserOffset') : p.row.id > parserOffset
    BY <1>1, NewRowsAhead
  <2> QED BY <1>1, <2>1 DEF Continues
<1>6. here = linkLoaders[i] /\ R = LinkProgress(productLinks, RemoveAt(linkLoaders, i))
  BY <1>3
<1> QED BY <1>2, <1>4, <1>5, <1>6, LinkWork

\* The steps that are no handler of a page.
LEMMA QuietWork ==
  ASSUME OInv, OInv', Next \/ UNCHANGED vars, dbErrors' = 0,
         Load \/ LoadFails \/ Pause \/ Resume \/ UNCHANGED vars
  PROVE  PagesAhead' \subseteq PagesAhead /\ LinksAhead' \subseteq LinksAhead
<1>1. parserOffset \in Int /\ parserOffset' \in Int
  BY DEF OInv, IInv, TypeOK
<1>2. /\ parserOffset' >= parserOffset
      /\ \A p2 \in Progress(categoryPages', pageLoaders') :
           p2 \in Progress(categoryPages, pageLoaders) \/ p2.row.id > parserOffset
      /\ LinkProgress(productLinks', linkLoaders') = LinkProgress(productLinks, linkLoaders)
  <2>1. CASE LoadFails \/ Pause \/ Resume \/ UNCHANGED vars
    <3>1. UNCHANGED <<categoryPages, pageLoaders, productLinks, linkLoaders, parserOffset>>
      BY <2>1 DEF LoadFails, Pause, Resume, vars, queues, loaders
    <3> QED BY <1>1, <3>1
  <2>2. CASE Load
    <3>1. Continues(categoryPages, pageLoaders, linkLoaders)
      BY <2>2, LoadOrder DEF Next
    <3>2. parserOffset' >= parserOffset
      BY <3>1, NoErrorsBefore DEF Continues
    <3>3. \A p \in NewRows(parserOffset, parserOffset') : p.row.id > parserOffset
      BY <1>1, NewRowsAhead
    <3> QED BY <3>1, <3>2, <3>3 DEF Continues
  <2> QED BY <2>1, <2>2
<1>3. \A p2 \in Progress(categoryPages', pageLoaders') :
           \/ p2 \in Progress(categoryPages, pageLoaders)
           \/ p2.row.id > parserOffset
           \/ \E p \in Progress(categoryPages, pageLoaders) : Later(p, p2)
  BY <1>2
<1>4. \A l2 \in LinkProgress(productLinks', linkLoaders') :
           \/ [row |-> l2.link.row, page |-> l2.link.page, step |-> 2] \in PagesAhead
           \/ \E l \in LinkProgress(productLinks, linkLoaders) :
                /\ l.link = l2.link
                /\ \A n \in Int : n >= StepOf[l2.stage] => n >= StepOf[l.stage]
  BY <1>2
<1> QED BY <1>2, <1>3, <1>4, NoMoreWork

LEMMA JobWork == ASSUME OInv, OInv', JobStep, dbErrors' = 0 PROVE Less
<1>1. Next
  BY DEF Next
<1>2. ASSUME NEW i \in DOMAIN pageLoaders, PageStep(i) PROVE Less
  BY <1>1, <1>2, PageLoadedWork, GetedLinkWork, NextPageWork, NoNextPageWork DEF PageStep
<1>3. ASSUME NEW i \in DOMAIN linkLoaders, LinkStep(i) PROVE Less
  BY <1>1, <1>3, LinkLoadedWork, ProductEndWork DEF LinkStep
<1> QED BY <1>2, <1>3 DEF JobStep

\* A crawl never circles: without a failing SELECT every handler of a page, of
\* whichever category or product, leaves fewer steps to do than it found, and
\* nothing else adds to them.  As what is left is a natural number, the handlers
\* run a bounded number of times.
THEOREM CrawlNeverCircles == Spec => CrawlProgresses
<1>1. OInv /\ OInv' /\ [Next]_vars
        => [dbErrors' = 0 => /\ WorkLeft' <= WorkLeft
                             /\ JobStep => WorkLeft' < WorkLeft]_vars
  <2> SUFFICES ASSUME OInv, OInv', [Next]_vars, dbErrors' = 0
               PROVE  WorkLeft' <= WorkLeft /\ (JobStep => WorkLeft' < WorkLeft)
    OBVIOUS
  <2>1. CASE JobStep
    <3>1. Less
      BY <2>1, JobWork
    <3> QED BY <3>1, LessWork DEF Less
  <2>2. CASE ~JobStep
    <3>1. Load \/ LoadFails \/ Pause \/ Resume \/ UNCHANGED vars
      BY <2>2 DEF Next
    <3>2. PagesAhead' \subseteq PagesAhead /\ LinksAhead' \subseteq LinksAhead
      BY <3>1, QuietWork
    <3> QED BY <2>2, <3>2, LessWork
  <2> QED BY <2>1, <2>2
<1> QED BY <1>1, OrderInvariant, PTL DEF Spec, CrawlProgresses

==============================================================================
