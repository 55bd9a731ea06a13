-------------------------------- MODULE Crawl --------------------------------
(***************************************************************************)
(* What a crawl promises, whatever windows, slots and queues it uses: the  *)
(* rows of product_parsers are taken in the order of the table, each one   *)
(* once; links are found only while their row is being parsed, and each is *)
(* fetched once; and the stamp ends a crawl that has nothing left to do.   *)
(*                                                                         *)
(* A pause may hold back rows for good, and a failing SELECT may repeat    *)
(* some: both are inputs, and weaken the promise only where it says so.    *)
(***************************************************************************)
EXTENDS Naturals

CONSTANT DbRows  \* rows in the table product_parsers

VARIABLES
  row,      \* what has become of every row
  open,     \* links that were found and not fetched
  stamped,  \* date_last_parse has been written
  paused,   \* a pause has held something back
  failed    \* a SELECT has failed

vars == <<row, open, stamped, paused, failed>>

Rows == 1..DbRows
States == {"unread", "known", "done"}

TypeOK == /\ row \in [Rows -> States]
          /\ stamped \in BOOLEAN /\ paused \in BOOLEAN /\ failed \in BOOLEAN

Init == /\ row = [r \in Rows |-> "unread"]
        /\ open = {}
        /\ stamped = FALSE /\ paused = FALSE /\ failed = FALSE

\* From before, no or some rows are read, the next ones in order.
ReadsOn(before) ==
  \A r \in Rows :
    \/ row'[r] = before[r]
    \/ /\ before[r] = "unread" /\ row'[r] = "known"
       /\ \A s \in 1..r : row'[s] # "unread"

\* The links of a page of r.
Find(r) ==
  /\ row[r] = "known"
  /\ open \subseteq open' /\ \A l \in open' \ open : l.row = r
  /\ UNCHANGED row

\* A product is finished.  Its link may have been found again by a row that a
\* failing SELECT has repeated.
Fetch(l) ==
  /\ open' = open \ {l} \/ (failed /\ UNCHANGED open)
  /\ ReadsOn(row) \/ failed'

\* The last page of r is finished.
Finish(r) ==
  /\ row[r] = "known"
  /\ ReadsOn([row EXCEPT ![r] = "done"]) \/ failed'
  /\ UNCHANGED open

Read == /\ ReadsOn(row) \/ failed'
        /\ UNCHANGED open

\* Only now may the crawl be stamped.
AllDone == /\ open = {}
           /\ \A r \in Rows : row[r] # "known"
           /\ paused \/ failed \/ \A r \in Rows : row[r] = "done"

Next ==
  /\ ~stamped /\ (stamped' => AllDone')
  /\ (paused => paused') /\ (failed => failed')
  /\ \/ Read
     \/ \E r \in Rows : Find(r) \/ Finish(r)
     \/ \E l \in open : Fetch(l)

Spec == Init /\ [][Next]_vars

=============================================================================
