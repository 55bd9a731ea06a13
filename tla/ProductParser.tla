---------------------------- MODULE ProductParser ----------------------------
(***************************************************************************)
(* The job of one product page (productparser.cpp): read the product with  *)
(* a script, ask the translation service for one translation per shop      *)
(* language, and end when the translations are together.                   *)
(*                                                                         *)
(* The page keeps its worker slot of ParserMain until parserEnd is         *)
(* emitted, so what matters is when that happens: never too early, never   *)
(* twice, and what keeps it from happening at all.                         *)
(***************************************************************************)
EXTENDS Integers, Sequences, FiniteSets

CONSTANTS Abrvs,         \* the values of avaible_languages.abrv
          Sources,       \* the languages a product may be written in
          MaxLanguages,  \* bound: rows in avaible_languages
          MaxErrors      \* bound: replies that are no translation

\* A language is the sequence of its letters: the code cuts it from a string.
ASSUME LanguagesAssumption ==
  /\ \A a \in Abrvs : a \in Seq(STRING) /\ a # <<>>
  /\ \A s \in Sources : s \in Seq(STRING) /\ s # <<>>
ASSUME BoundsAssumption == MaxLanguages \in Nat /\ MaxErrors \in Nat

VARIABLES
  languages,   \* the rows of avaible_languages, in order
  source,      \* the language of the product's text, <<>> before it is known
  stage,       \* "script": the page is being read; "translating"; "crashed"
  pending,     \* places in languages whose request has no reply yet
  title,       \* product_item.title: key -> the language of the text under it
  ended,       \* how many times parserEnd was emitted
  errors       \* history: replies that were no translation

vars == <<languages, source, stage, pending, title, ended, errors>>

Empty == [k \in {} |-> <<>>]

Init ==
  /\ languages \in UNION {[1..n -> Abrvs] : n \in 0..MaxLanguages}
  /\ source = <<>> /\ stage = "script" /\ pending = {} /\ title = Empty
  /\ ended = 0 /\ errors = 0

-----------------------------------------------------------------------------
\* The definitions named <definition>_<Bug> are mutants: <definition> with a
\* plausible bug.  No other definition uses them.

\* QString::right(n): the whole string for a negative n and for a large one.
Right(s, n) == IF n < 0 \/ n >= Len(s) THEN s ELSE SubSeq(s, Len(s) - n + 1, Len(s))

\* The key under which a translation is filed.  The service answers "ru-en" in
\* the field lang; right(indexOf('-')) keeps as many letters from its end as
\* the SOURCE language has.
Key(src, abrv) == Right(src \o <<"-">> \o abrv, Len(src))

\* An error reply has no field lang: right(-1) of the empty string.
ErrorKey == Right(<<>>, -1)

\* One request too few.
Requests_SkipsLast == 1..(Len(languages) - 1)

\* translate(): one request per row of avaible_languages.
Requests == 1..Len(languages)

\* The script has answered.  The requests are on their way before any reply
\* can be handled.  All are for the same text, so for the same source language.
Translate ==
  /\ stage = "script"
  /\ source' \in Sources
  /\ stage' = "translating" /\ pending' = Requests
  /\ UNCHANGED <<languages, title, ended, errors>>

\* title[key] = text of the reply; a text under the same key is overwritten.
File(key, abrv) == [k \in DOMAIN title \cup {key} |->
                      IF k = key THEN abrv ELSE title[k]]

\* The replies are counted instead of the titles.
Together_CountsReplies(t) == pending' = {}

\* ">=" and one too few.
Together_Early(t) == Cardinality(DOMAIN t) >= Len(languages) - 1

\* ">" for "==".
Together_Strict(t) == Cardinality(DOMAIN t) > Len(languages)

\* languages.size() == product_item.title.size()
Together(t) == Len(languages) = Cardinality(DOMAIN t)

\* productCreate, for the reply to the request for languages[i].
ProductCreate(i) ==
  /\ stage = "translating" /\ i \in pending
  /\ pending' = pending \ {i}
  /\ title' = File(Key(source, languages[i]), languages[i])
  /\ ended' = IF Together(title') THEN ended + 1 ELSE ended
  /\ UNCHANGED <<languages, source, stage, errors>>

\* productCreate, for a reply that is no translation.  text.at(0) reads past
\* the end of an empty list: the process dies or files whatever it finds.
ProductCreateError(i) ==
  /\ stage = "translating" /\ i \in pending
  /\ errors < MaxErrors
  /\ errors' = errors + 1 /\ pending' = pending \ {i}
  /\ \/ /\ title' = File(ErrorKey, <<>>)
        /\ ended' = IF Together(title') THEN ended + 1 ELSE ended
        /\ UNCHANGED stage
     \/ /\ stage' = "crashed"
        /\ UNCHANGED <<title, ended>>
  /\ UNCHANGED <<languages, source>>

Next == Translate \/ \E i \in pending : ProductCreate(i) \/ ProductCreateError(i)

Spec == Init /\ [][Next]_vars

\* The script answers, and so does the translation service, in any order.
FairSpec == Spec /\ WF_vars(Next)

-----------------------------------------------------------------------------
(***************************************************************************)
(* Properties.                                                             *)
(***************************************************************************)

\* The type invariant.
TypeOK ==
  /\ languages \in Seq(Abrvs)
  /\ source \in Sources \cup {<<>>}
  /\ stage \in {"script", "translating", "crashed"}
  /\ pending \subseteq DOMAIN languages
  /\ DOMAIN title \subseteq Seq(STRING)
  /\ ended \in Nat /\ errors \in 0..MaxErrors

\* Two different rows of avaible_languages are filed under different keys.
KeysDiffer ==
  \A i, j \in DOMAIN languages :
    i # j => Key(source, languages[i]) # Key(source, languages[j])

\* parserEnd is emitted once, and by the last reply: ParserMain deletes the page
\* and gives its slot away on that signal, so no reply may follow it.
EndsOnceOnLastReply ==
  /\ ended <= 1
  /\ ended = 1 => stage # "script" /\ pending = {}

\* Unless a reply was no translation, a product that ends has every language,
\* each text under the key of its own language.
EndedMeansTranslated ==
  ended > 0 /\ errors = 0 =>
    \A i \in DOMAIN languages :
      LET key == Key(source, languages[i])
      IN  key \in DOMAIN title /\ title[key] = languages[i]

\* A product whose replies all came and that has not ended holds its worker slot
\* for ever.  That needs an empty table of languages, two of them under one key
\* (a row twice, or "hr" and "mhr" for a source of two letters), or two replies
\* that were no translation: these share one key.
SlotLeaksOnlyIf ==
  stage = "translating" /\ pending = {} /\ ended = 0 =>
    languages = <<>> \/ ~KeysDiffer \/ errors >= 2

\* Otherwise every product ends.
ProductEnds ==
  <>(ended = 1 \/ stage = "crashed" \/ languages = <<>> \/ ~KeysDiffer \/ errors >= 2)

=============================================================================
