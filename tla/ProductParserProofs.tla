------------------------- MODULE ProductParserProofs -------------------------
(***************************************************************************)
(* Theorems about the product page job, for every table of languages and   *)
(* any number of replies that are no translation.                          *)
(***************************************************************************)
EXTENDS ProductParser, FiniteSetTheorems, SequenceTheorems, TLAPS

-----------------------------------------------------------------------------
(***************************************************************************)
(* The inductive invariant.                                                *)
(***************************************************************************)

\* Each title took a reply, so titles and open requests never outnumber the
\* languages.  This is why equal sizes mean that the last reply has come.
Counted ==
  /\ languages \in Seq(Abrvs)
  /\ pending \subseteq DOMAIN languages
  /\ IsFiniteSet(DOMAIN title)
  /\ Cardinality(DOMAIN title) + Cardinality(pending) <= Len(languages)

Ended ==
  /\ ended \in {0, 1}
  /\ ended = 1 => /\ pending = {} /\ stage # "script"
                  /\ Cardinality(DOMAIN title) = Len(languages)

\* Without error replies the titles are exactly those of the replies handled.
Filed ==
  errors = 0 /\ stage # "script" =>
    /\ \A i \in DOMAIN languages \ pending :
         Key(source, languages[i]) \in DOMAIN title
    /\ \A k \in DOMAIN title : \E i \in DOMAIN languages \ pending :
         k = Key(source, languages[i]) /\ title[k] = languages[i]

Unread == stage = "script" => pending = {} /\ title = Empty /\ ended = 0 /\ errors = 0

IInv == Counted /\ Ended /\ Filed /\ Unread /\ errors \in Nat

\* The test for the end follows every reply, so a product that has not ended has
\* not got all its titles.
Tested == stage = "translating" /\ ended = 0 /\ languages # <<>> =>
            Cardinality(DOMAIN title) # Len(languages)

\* A single error reply stands in for the one translation that did not come.
FiledButOne ==
  errors = 1 /\ stage = "translating" =>
    /\ ErrorKey \in DOMAIN title
    /\ \E e \in DOMAIN languages :
         \A i \in DOMAIN languages \ pending :
           i # e => Key(source, languages[i]) \in DOMAIN title

Known == stage = "translating" => source \in Sources

LInv == IInv /\ Tested /\ FiledButOne /\ Known

-----------------------------------------------------------------------------
\* The rows of a table of languages are finitely many, one per place.
LEMMA PlacesFinite ==
  ASSUME NEW s \in Seq(Abrvs)
  PROVE  /\ Len(s) \in Nat /\ DOMAIN s = 1..Len(s)
         /\ IsFiniteSet(DOMAIN s) /\ Cardinality(DOMAIN s) = Len(s)
<1>1. Len(s) \in Nat /\ DOMAIN s = 1..Len(s)
  OBVIOUS
<1>2. IsFiniteSet(1..Len(s))
      /\ Cardinality(1..Len(s)) = IF 1 > Len(s) THEN 0 ELSE Len(s) - 1 + 1
  BY <1>1, FS_Interval
<1> QED
  BY <1>1, <1>2

\* Filing a reply takes one request away and adds at most one title.
LEMMA FileCounts ==
  ASSUME Counted, NEW i \in pending, NEW key, NEW abrv,
         pending' = pending \ {i}, title' = File(key, abrv),
         languages' = languages
  PROVE  /\ Counted'
         /\ DOMAIN title' = DOMAIN title \cup {key}
         /\ Together(title') => pending' = {}
<1>1. DOMAIN title' = DOMAIN title \cup {key}
  BY DEF File
<1>2. /\ IsFiniteSet(DOMAIN title') /\ Cardinality(DOMAIN title') \in Nat
      /\ Cardinality(DOMAIN title) \in Nat
      /\ Cardinality(DOMAIN title') <= Cardinality(DOMAIN title) + 1
  <2> DEFINE D == DOMAIN title
  <2>1. IsFiniteSet(D)
    BY DEF Counted
  <2>2. IsFiniteSet(D \cup {key})
        /\ Cardinality(D \cup {key}) =
             IF key \in D THEN Cardinality(D) ELSE Cardinality(D) + 1
    BY <2>1, FS_AddElement
  <2>3. Cardinality(D) \in Nat /\ Cardinality(D \cup {key}) \in Nat
    BY <2>1, <2>2, FS_CardinalityType
  <2>4. Cardinality(D \cup {key}) <= Cardinality(D) + 1
    BY <2>2, <2>3
  <2> QED
    BY <1>1, <2>2, <2>3, <2>4
<1>3. IsFiniteSet(pending)
  <2>1. pending \in SUBSET DOMAIN languages
    BY DEF Counted
  <2> QED
    BY <2>1, PlacesFinite, FS_Subset DEF Counted
<1>4. /\ IsFiniteSet(pending') /\ Cardinality(pending') \in Nat
      /\ Cardinality(pending) \in Nat
      /\ Cardinality(pending') = Cardinality(pending) - 1
  BY <1>3, FS_RemoveElement, FS_CardinalityType
<1>5. Len(languages) \in Nat
  BY PlacesFinite DEF Counted
<1>6. Cardinality(DOMAIN title') + Cardinality(pending') <= Len(languages)
  BY <1>2, <1>4, <1>5 DEF Counted
<1>7. Together(title') => pending' = {}
  <2>1. ASSUME Together(title') PROVE Cardinality(pending') = 0
    BY <2>1, <1>2, <1>4, <1>5, <1>6 DEF Together
  <2> QED
    BY <2>1, <1>4, FS_EmptySet
<1> QED
  BY <1>1, <1>2, <1>6, <1>7 DEF Counted

LEMMA InitIInv == Init => IInv
<1> SUFFICES ASSUME Init PROVE IInv
  OBVIOUS
<1>1. PICK n \in 0..MaxLanguages : languages \in [1..n -> Abrvs]
  BY DEF Init
<1>2. n \in Nat
  BY BoundsAssumption
<1>3. languages \in Seq(Abrvs)
  BY <1>1, <1>2
<1>4. DOMAIN title = {} /\ pending = {}
  BY DEF Init, Empty
<1>5. Counted
  BY <1>3, <1>4, FS_EmptySet, PlacesFinite DEF Counted
<1> QED
  BY <1>5 DEF Init, IInv, Ended, Filed, Unread

LEMMA NextIInv == IInv /\ [Next]_vars => IInv'
<1> SUFFICES ASSUME IInv, [Next]_vars PROVE IInv'
  OBVIOUS
<1>0. Len(languages) \in Nat /\ DOMAIN languages = 1..Len(languages)
  BY PlacesFinite DEF IInv, Counted
<1>1. CASE Translate
  <2>1. pending' = DOMAIN languages /\ DOMAIN title = {}
    BY <1>0, <1>1 DEF Translate, Requests, IInv, Unread, Empty
  <2>2. /\ Cardinality(pending') = Len(languages) /\ Cardinality(DOMAIN title) = 0
    BY <2>1, PlacesFinite, FS_EmptySet DEF IInv, Counted
  <2>3. Counted'
    BY <1>0, <1>1, <2>1, <2>2 DEF Translate, IInv, Counted
  <2>4. Ended' /\ Unread' /\ errors' \in Nat
    BY <1>1 DEF Translate, IInv, Ended, Unread
  <2>5. Filed'
    BY <1>1, <2>1 DEF Translate, Filed
  <2> QED
    BY <2>3, <2>4, <2>5 DEF IInv
<1>2. ASSUME NEW i \in pending, ProductCreate(i) PROVE IInv'
  <2> DEFINE key == Key(source, languages[i])
  <2>1. /\ Counted' /\ DOMAIN title' = DOMAIN title \cup {key}
        /\ Together(title') => pending' = {}
    BY <1>2, FileCounts DEF ProductCreate, IInv
  <2>2. ended = 0 /\ stage = "translating" /\ stage' = stage
    BY <1>2 DEF ProductCreate, IInv, Ended
  <2>3. Ended'
    BY <1>2, <2>1, <2>2 DEF ProductCreate, Ended, Together
  <2>4. Filed'
    <3> SUFFICES ASSUME errors = 0
                 PROVE  /\ \A j \in DOMAIN languages \ pending' :
                             Key(source, languages[j]) \in DOMAIN title'
                        /\ \A k \in DOMAIN title' :
                             \E j \in DOMAIN languages \ pending' :
                               /\ k = Key(source, languages[j])
                               /\ title'[k] = languages[j]
      BY <1>2 DEF ProductCreate, Filed
    <3>1. /\ i \in DOMAIN languages
          /\ DOMAIN languages \ pending' = (DOMAIN languages \ pending) \cup {i}
      BY <1>2 DEF ProductCreate, IInv, Counted
    <3>2. /\ \A j \in DOMAIN languages \ pending :
               Key(source, languages[j]) \in DOMAIN title
          /\ \A k \in DOMAIN title : \E j \in DOMAIN languages \ pending :
               k = Key(source, languages[j]) /\ title[k] = languages[j]
      BY <2>2 DEF IInv, Filed
    <3>3. title' = [k \in DOMAIN title \cup {key} |->
                      IF k = key THEN languages[i] ELSE title[k]]
      BY <1>2 DEF ProductCreate, File
    <3>4. \A k \in DOMAIN title' : \E j \in DOMAIN languages \ pending' :
            k = Key(source, languages[j]) /\ title'[k] = languages[j]
      <4>1. TAKE k \in DOMAIN title'
      <4>2. CASE k = key
        BY <4>2, <3>1, <3>3
      <4>3. CASE k # key
        BY <4>3, <3>1, <3>2, <3>3
      <4> QED
        BY <4>2, <4>3
    <3> QED
      BY <2>1, <3>1, <3>2, <3>4
  <2>5. Unread' /\ errors' \in Nat
    BY <1>2, <2>2 DEF ProductCreate, IInv, Unread
  <2> QED
    BY <2>1, <2>3, <2>4, <2>5 DEF IInv
<1>3. ASSUME NEW i \in pending, ProductCreateError(i) PROVE IInv'
  <2>1. /\ stage = "translating" /\ ended = 0 /\ languages' = languages
        /\ pending' = pending \ {i} /\ errors' = errors + 1
    BY <1>3 DEF ProductCreateError, IInv, Ended
  <2>2. errors' \in Nat /\ errors' # 0
    BY <2>1 DEF IInv
  <2>3. Filed'
    BY <2>2 DEF Filed
  <2>4. CASE title' = File(ErrorKey, <<>>) /\ stage' = stage
             /\ ended' = IF Together(title') THEN ended + 1 ELSE ended
    <3>1. Counted' /\ (Together(title') => pending' = {})
      BY <2>1, <2>4, FileCounts DEF IInv
    <3> QED
      BY <2>1, <2>2, <2>3, <2>4, <3>1 DEF IInv, Ended, Unread, Together
  <2>5. CASE stage' = "crashed" /\ title' = title /\ ended' = ended
    <3>1. pending \in SUBSET DOMAIN languages /\ IsFiniteSet(DOMAIN languages)
      BY PlacesFinite DEF IInv, Counted
    <3>2. IsFiniteSet(pending) /\ pending' \in SUBSET pending
      BY <2>1, <3>1, FS_Subset
    <3>3. Cardinality(pending') <= Cardinality(pending)
          /\ Cardinality(pending') \in Nat /\ Cardinality(pending) \in Nat
      BY <3>2, FS_Subset, FS_CardinalityType
    <3>4. Cardinality(DOMAIN title) \in Nat
      BY FS_CardinalityType DEF IInv, Counted
    <3>5. Counted'
      BY <1>0, <2>1, <2>5, <3>3, <3>4 DEF IInv, Counted
    <3> QED
      BY <2>1, <2>2, <2>3, <2>5, <3>5 DEF IInv, Ended, Unread
  <2> QED
    BY <1>3, <2>4, <2>5 DEF ProductCreateError
<1>4. CASE UNCHANGED vars
  BY <1>4 DEF vars, IInv, Counted, Ended, Filed, Unread
<1> QED
  BY <1>1, <1>2, <1>3, <1>4 DEF Next

LEMMA Invariant == Spec => []IInv
BY InitIInv, NextIInv, PTL DEF Spec

-----------------------------------------------------------------------------
\* The item is complete exactly when the signal parserEnd is emitted, so
\* productCreate (productparser.cpp:99) emits it at most once and after the
\* last reply, whatever the table of languages holds.
THEOREM EndsOnce == Spec => []EndsOnceOnLastReply
<1>1. IInv => EndsOnceOnLastReply
  BY DEF IInv, Ended, EndsOnceOnLastReply
<1> QED
  BY <1>1, Invariant, PTL

\* As many titles as languages means that no two languages shared a key
\* (productparser.cpp:92-99), so none was overwritten.
THEOREM Translated == Spec => []EndedMeansTranslated
<1>1. ASSUME IInv PROVE EndedMeansTranslated
  <2> SUFFICES ASSUME ended > 0, errors = 0, NEW i \in DOMAIN languages
               PROVE  LET k == Key(source, languages[i])
                      IN  k \in DOMAIN title /\ title[k] = languages[i]
    BY DEF EndedMeansTranslated
  <2> DEFINE f == [j \in DOMAIN languages |-> Key(source, languages[j])]
  <2>1. /\ pending = {} /\ stage # "script"
        /\ Cardinality(DOMAIN title) = Len(languages)
    BY <1>1 DEF IInv, Ended
  <2>2. /\ \A j \in DOMAIN languages : Key(source, languages[j]) \in DOMAIN title
        /\ \A k \in DOMAIN title : \E j \in DOMAIN languages :
             k = Key(source, languages[j]) /\ title[k] = languages[j]
    BY <1>1, <2>1 DEF IInv, Filed
  <2>3. f \in Surjection(DOMAIN languages, DOMAIN title)
    BY <2>2 DEF Surjection
  <2>4. IsFiniteSet(DOMAIN languages)
        /\ Cardinality(DOMAIN languages) = Cardinality(DOMAIN title)
    BY <1>1, <2>1, PlacesFinite DEF IInv, Counted
  <2>5. f \in Injection(DOMAIN languages, DOMAIN title)
    BY <2>3, <2>4, FS_SurjSameCardinalityImpliesInj
  <2>6. PICK j \in DOMAIN languages : /\ f[i] = Key(source, languages[j])
                                      /\ title[f[i]] = languages[j]
    BY <2>2
  <2>7. f[i] = f[j]
    BY <2>6
  <2>8. i = j
    BY <2>5, <2>7 DEF Injection, IsInjective
  <2> QED
    BY <2>2, <2>6, <2>8
<1> QED
  BY <1>1, Invariant, PTL

-----------------------------------------------------------------------------
(***************************************************************************)
(* When a worker slot leaks.                                               *)
(***************************************************************************)

LEMMA OneLetter ==
  ASSUME NEW S, NEW x \in S PROVE <<x>> \in Seq(S) /\ Len(<<x>>) = 1
OBVIOUS

LEMMA MoreLetters == ASSUME NEW S, NEW T, S \subseteq T, NEW s \in Seq(S) PROVE s \in Seq(T)
<1>1. Len(s) \in Nat /\ DOMAIN s = 1..Len(s) /\ \A i \in 1..Len(s) : s[i] \in T
  BY LenProperties, ElementOfSeq
<1>2. s \in [1..Len(s) -> T]
  <2>1. s = [i \in DOMAIN s |-> s[i]]
    OBVIOUS
  <2> QED BY <1>1, <2>1
<1> QED BY <1>1, <1>2

\* A key has as many letters as the source language: it is never empty.
LEMMA KeyIsNoErrorKey ==
  ASSUME NEW src \in Sources, NEW abrv \in Abrvs
  PROVE  Key(src, abrv) # ErrorKey
<1> DEFINE word == src \o <<"-">> \o abrv  n == Len(src)  m == Len(word)
           Letters == STRING \cup {"-"}
<1>1. src \in Seq(Letters) /\ abrv \in Seq(Letters) /\ src # <<>>
  <2>1. src \in Seq(STRING) /\ abrv \in Seq(STRING) /\ src # <<>>
    BY LanguagesAssumption
  <2>2. STRING \subseteq Letters
    OBVIOUS
  <2> HIDE DEF Letters
  <2> QED BY <2>1, <2>2, MoreLetters
<1>2. n \in Nat /\ n > 0 /\ Len(abrv) \in Nat
  <2>1. n \in Nat \ {0} /\ Len(abrv) \in Nat
    BY <1>1, LenProperties, EmptySeq
  <2> QED BY <2>1
<1>3. word \in Seq(Letters) /\ m = n + 1 + Len(abrv)
  <2>1. <<"-">> \in Seq(Letters) /\ Len(<<"-">>) = 1
    BY OneLetter
  <2> HIDE DEF Letters
  <2>2. /\ src \o <<"-">> \in Seq(Letters)
        /\ Len(src \o <<"-">>) = n + 1
    BY <1>1, <2>1, ConcatProperties
  <2> QED BY <1>1, <2>2, ConcatProperties
<1> HIDE DEF word, Letters
<1>4. Key(src, abrv) = SubSeq(word, m - n + 1, m)
  <2>1. ~(n < 0 \/ n >= m)
    BY <1>2, <1>3
  <2>2. Key(src, abrv) = Right(word, n)
    BY DEF Key, word
  <2> QED BY <2>1, <2>2 DEF Right
<1>5. Len(SubSeq(word, m - n + 1, m)) = n
  <2>1. \A k \in (m - n + 1)..m : word[k] \in Letters
    BY <1>2, <1>3, ElementOfSeq
  <2>2. m - n + 1 \in Nat /\ m \in Nat /\ m - n + 1 <= m + 1
    BY <1>2, <1>3
  <2>3. Len(SubSeq(word, m - n + 1, m)) = IF m - n + 1 <= m THEN m - (m - n + 1) + 1 ELSE 0
    BY <2>1, <2>2, SubSeqProperties
  <2> QED BY <1>2, <1>3, <2>3
<1>6. ErrorKey = <<>> /\ Len(<<>>) = 0
  <2>1. -1 < 0
    OBVIOUS
  <2>2. ErrorKey = <<>>
    BY <2>1 DEF ErrorKey, Right
  <2>3. Len(<<>>) = 0
    OBVIOUS
  <2> QED BY <2>2, <2>3
<1>7. SubSeq(word, m - n + 1, m) # <<>>
  <2>1. PICK key : key = SubSeq(word, m - n + 1, m)
    OBVIOUS
  <2>2. Len(key) > 0
    BY <1>2, <1>5, <2>1
  <2>3. Len(<<>>) = 0
    OBVIOUS
  <2>4. key # <<>>
    BY <2>2, <2>3
  <2> QED BY <2>1, <2>4
<1> QED BY <1>4, <1>6, <1>7

LEMMA NextLInv == LInv /\ [Next]_vars => LInv'
<1> SUFFICES ASSUME LInv, [Next]_vars PROVE Tested' /\ FiledButOne' /\ Known'
  BY NextIInv DEF LInv
<1>0. /\ IInv' /\ pending \subseteq DOMAIN languages /\ errors \in Nat
      /\ Len(languages) \in Nat /\ DOMAIN languages = 1..Len(languages)
  BY NextIInv, PlacesFinite DEF LInv, IInv, Counted
<1>1. CASE Translate
  <2>1. /\ DOMAIN title' = {} /\ languages' = languages /\ source' \in Sources
        /\ pending' = DOMAIN languages /\ errors' = errors
    BY <1>0, <1>1 DEF Translate, Requests, LInv, IInv, Unread, Empty
  <2>2. Tested'
    <3>1. Cardinality({}) = 0 /\ (languages # <<>> => Len(languages) # 0)
      BY FS_EmptySet, EmptySeq DEF LInv, IInv, Counted
    <3> QED BY <2>1, <3>1 DEF Tested
  <2>3. FiledButOne'
    <3>1. errors' = 0
      BY <1>1, <2>1 DEF Translate, LInv, IInv, Unread
    <3> QED BY <3>1 DEF FiledButOne
  <2> QED BY <2>1, <2>2, <2>3 DEF Known
<1>2. ASSUME NEW i \in pending, ProductCreate(i) PROVE Tested' /\ FiledButOne' /\ Known'
  <2>1. /\ stage = "translating" /\ stage' = stage
        /\ pending' = pending \ {i} /\ i \in DOMAIN languages
        /\ title' = File(Key(source, languages[i]), languages[i])
        /\ ended' = IF Together(title') THEN ended + 1 ELSE ended
        /\ UNCHANGED <<languages, source, errors>>
    BY <1>0, <1>2 DEF ProductCreate
  <2>2. Tested'
    BY <2>1 DEF LInv, IInv, Ended, Tested, Together
  <2>3. FiledButOne'
    <3> SUFFICES ASSUME errors = 1
                 PROVE  /\ ErrorKey \in DOMAIN title'
                        /\ \E e \in DOMAIN languages :
                             \A j \in DOMAIN languages \ pending' :
                               j # e => Key(source, languages[j]) \in DOMAIN title'
      BY <2>1 DEF FiledButOne
    <3>1. DOMAIN title' = DOMAIN title \cup {Key(source, languages[i])}
      BY <2>1 DEF File
    <3>2. PICK e \in DOMAIN languages :
            \A j \in DOMAIN languages \ pending :
              j # e => Key(source, languages[j]) \in DOMAIN title
      BY <2>1 DEF LInv, FiledButOne
    <3>3. ErrorKey \in DOMAIN title
      BY <2>1 DEF LInv, FiledButOne
    <3>4. \A j \in DOMAIN languages \ pending' :
            j # e => Key(source, languages[j]) \in DOMAIN title'
      BY <2>1, <3>1, <3>2
    <3> QED BY <3>1, <3>3, <3>4
  <2> QED BY <2>1, <2>2, <2>3 DEF LInv, Known
<1>3. ASSUME NEW i \in pending, ProductCreateError(i)
      PROVE  Tested' /\ FiledButOne' /\ Known'
  <2>1. /\ stage = "translating" /\ pending' = pending \ {i} /\ i \in DOMAIN languages
        /\ errors' = errors + 1 /\ languages' = languages /\ source' = source
    BY <1>0, <1>3 DEF ProductCreateError
  <2>2. CASE stage' = "crashed"
    BY <2>2 DEF Tested, FiledButOne, Known
  <2>3. CASE /\ title' = File(ErrorKey, <<>>) /\ stage' = stage
             /\ ended' = IF Together(title') THEN ended + 1 ELSE ended
    <3>1. Tested'
      BY <2>1, <2>3 DEF LInv, IInv, Ended, Tested, Together
    <3>2. FiledButOne'
      <4> SUFFICES ASSUME errors = 0
                   PROVE  /\ ErrorKey \in DOMAIN title'
                          /\ \A j \in DOMAIN languages \ pending' :
                               j # i => Key(source, languages[j]) \in DOMAIN title'
        BY <1>0, <2>1 DEF FiledButOne
      <4>1. DOMAIN title' = DOMAIN title \cup {ErrorKey}
        BY <2>3 DEF File
      <4>2. \A j \in DOMAIN languages \ pending : Key(source, languages[j]) \in DOMAIN title
        BY <2>1 DEF LInv, IInv, Filed
      <4> QED BY <2>1, <4>1, <4>2
    <3> QED BY <2>1, <2>3, <3>1, <3>2 DEF LInv, Known
  <2> QED BY <1>3, <2>2, <2>3 DEF ProductCreateError
<1>4. CASE UNCHANGED vars
  BY <1>4 DEF vars, LInv, Tested, FiledButOne, Known
<1> QED BY <1>1, <1>2, <1>3, <1>4 DEF Next

\* The slot of a product leaks only through the table of languages or through two
\* failed translations: without these every reply files a title of its own, the
\* first error under the empty key.
THEOREM LeaksOnlyIf == Spec => []SlotLeaksOnlyIf
<1>1. Init => LInv
  BY InitIInv DEF Init, LInv, Tested, FiledButOne, Known
<1>2. ASSUME LInv PROVE SlotLeaksOnlyIf
  <2> SUFFICES ASSUME stage = "translating", pending = {}, ended = 0, languages # <<>>,
                      KeysDiffer, ~(errors >= 2)
               PROVE  FALSE
    BY DEF SlotLeaksOnlyIf
  <2>1. errors = 0 \/ errors = 1
    BY <1>2 DEF LInv, IInv
  <2>2. /\ languages \in Seq(Abrvs) /\ IsFiniteSet(DOMAIN title) /\ source \in Sources
        /\ Cardinality(DOMAIN title) + 0 <= Len(languages)
        /\ Cardinality(DOMAIN title) \in Nat /\ Len(languages) \in Nat
    BY <1>2, FS_EmptySet, FS_CardinalityType, PlacesFinite DEF LInv, IInv, Counted, Known
  <2>3. \E g \in [DOMAIN languages -> DOMAIN title] :
          \A i, j \in DOMAIN languages : g[i] = g[j] => i = j
    <3>1. CASE errors = 0
      <4> DEFINE g == [i \in DOMAIN languages |-> Key(source, languages[i])]
      <4>1. g \in [DOMAIN languages -> DOMAIN title]
        BY <1>2, <3>1 DEF LInv, IInv, Filed
      <4>2. \A i, j \in DOMAIN languages : g[i] = g[j] => i = j
        BY DEF KeysDiffer
      <4> QED BY <4>1, <4>2
    <3>2. CASE errors = 1
      <4>1. /\ ErrorKey \in DOMAIN title
            /\ \E e \in DOMAIN languages : \A i \in DOMAIN languages :
                 i # e => Key(source, languages[i]) \in DOMAIN title
        BY <1>2, <3>2 DEF LInv, FiledButOne
      <4>2. PICK e \in DOMAIN languages : \A i \in DOMAIN languages :
                 i # e => Key(source, languages[i]) \in DOMAIN title
        BY <4>1
      <4> DEFINE g == [i \in DOMAIN languages |->
                         IF i = e THEN ErrorKey ELSE Key(source, languages[i])]
      <4>3. g \in [DOMAIN languages -> DOMAIN title]
        BY <4>1, <4>2
      <4>4. \A i \in DOMAIN languages : Key(source, languages[i]) # ErrorKey
        <5>1. \A i \in DOMAIN languages : languages[i] \in Abrvs
          BY <2>2, ElementOfSeq, LenProperties
        <5> QED BY <2>2, <5>1, KeyIsNoErrorKey
      <4>5. \A i, j \in DOMAIN languages : g[i] = g[j] => i = j
        BY <4>4 DEF KeysDiffer
      <4> QED BY <4>3, <4>5
    <3> QED BY <2>1, <3>1, <3>2
  <2>4. PICK g \in Injection(DOMAIN languages, DOMAIN title) : TRUE
    BY <2>3 DEF Injection, IsInjective
  <2>5. Cardinality(DOMAIN languages) <= Cardinality(DOMAIN title)
    BY <2>2, <2>4, FS_Injection
  <2>6. Cardinality(DOMAIN title) = Len(languages)
    BY <2>2, <2>5, PlacesFinite
  <2> QED BY <1>2, <2>6 DEF LInv, Tested
<1> QED BY <1>1, <1>2, NextLInv, PTL DEF Spec

=============================================================================
