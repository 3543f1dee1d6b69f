---------------------------- MODULE HistoryPages ----------------------------
(***************************************************************************)
(* The transactions of an account, read page by page from Horizon: the     *)
(* export (src/transaction/exportTransactionHistory.ts), which stops at a  *)
(* date or a number of rows, and the query                                 *)
(* (src/transaction/queryTransactionHistory.ts), which reads as many rows  *)
(* as its page needs and cuts its page out of them.                        *)
(* The filters on types, assets, amounts and the status decide how many    *)
(* operations of a transaction match; each of them is a row. Rows of a     *)
(* query are sorted by date. Transactions are applied meanwhile.           *)
(***************************************************************************)
EXTENDS Integers, SequencesExt

CONSTANTS
  Histories,   \* sequences of [day, matches], in the order of the ledger
  Requests,    \* what is asked for
  PageLimit,   \* HORIZON_PAGE_LIMIT
  MaxRecords,  \* bound: transactions in a history
  None

VARIABLES history, request, reading

vars == <<history, request, reading>>

(* A request is an export or a query with an order and the days from and to which it *)
(* goes, a limit for the export, and for the query a page and the rows of one.       *)
Rows == Nat \X Nat

TypeOK ==
  /\ Len(history) <= MaxRecords
  /\ \A i \in DOMAIN history : history[i].day \in Nat /\ history[i].matches \in Nat
  /\ request \in Requests
  /\ reading.stage \in {"reading", "done", "failed"}
  /\ reading.cursor \in 0 .. MaxRecords
  /\ reading.rows \in Seq(Rows)
  /\ reading.more \in BOOLEAN
  /\ reading.began \in 0 .. MaxRecords

Init ==
  /\ history \in Histories
  /\ request \in Requests
  /\ reading = [stage |-> "reading", cursor |-> 0, rows |-> <<>>, more |-> FALSE, began |-> 0]

-----------------------------------------------------------------------------
Newest(n) == Reverse([i \in 1 .. n |-> i])

\* The transactions behind the cursor, in the order of the request.
Behind(order, n) ==
  IF order = "asc" THEN [i \in 1 .. n - reading.cursor |-> reading.cursor + i]
  ELSE Newest(IF reading.cursor = 0 THEN n ELSE reading.cursor - 1)

\* A page of Horizon.
Page ==
  LET all == Behind(request.order, Len(history))
  IN SubSeq(all, 1, IF Len(all) < PageLimit THEN Len(all) ELSE PageLimit)

TooOld(i) == request.from # None /\ history[i].day < request.from
TooNew(i) == request.to # None /\ history[i].day > request.to

RowsOf(i) == [k \in 1 .. history[i].matches |-> <<i, k>>]

\* The export ends with the first transaction beyond the far end of its range.
BeyondRange(i) ==
  \/ request.order = "desc" /\ TooOld(i)
  \/ request.order = "asc" /\ TooNew(i) /\ ~TooOld(i)

\* Rows are counted after each is added, so that one is there whatever the limit.
ReachesLimit(rows) == request.limit # None /\ Len(rows) >= request.limit /\ rows # <<>>
CutRows(rows)      == SubSeq(rows, 1, IF request.limit = 0 THEN 1 ELSE request.limit)

Export(acc, i) ==
  IF acc.stop THEN acc
  ELSE IF TooOld(i) \/ TooNew(i) THEN [acc EXCEPT !.stop = BeyondRange(i)]
  ELSE LET rows == acc.rows \o RowsOf(i)
       IN IF RowsOf(i) # <<>> /\ ReachesLimit(rows) THEN [rows |-> CutRows(rows), stop |-> TRUE]
          ELSE [acc EXCEPT !.rows = rows]

\* The query looks at the count before each transaction.
Needed == request.page * request.perPage

Query(acc, i) ==
  IF acc.stop THEN acc
  ELSE IF Len(acc.rows) >= Needed THEN [acc EXCEPT !.stop = TRUE]
  ELSE IF TooOld(i) \/ TooNew(i) THEN acc
  ELSE [acc EXCEPT !.rows = @ \o RowsOf(i)]

Read(rows, stop, more, goesOn, page) ==
  reading' = [reading EXCEPT
    !.rows   = rows,
    !.cursor = IF page = <<>> THEN @ ELSE Last(page),
    !.more   = more,
    !.stage  = IF goesOn THEN "reading" ELSE "done",
    !.began  = IF reading.cursor = 0 THEN Len(history) ELSE @]

PageArrives ==
  /\ reading.stage = "reading"
  /\ LET page  == Page
         full  == Len(page) >= PageLimit
         start == [rows |-> reading.rows, stop |-> FALSE]
         got   == IF request.kind = "export" THEN FoldLeft(Export, start, page)
                  ELSE FoldLeft(Query, start, page)
     IN IF request.kind = "export"
        THEN Read(got.rows, got.stop, FALSE, full /\ ~got.stop, page)
        ELSE Read(got.rows, got.stop, reading.more \/ got.stop \/ full,
                  full /\ ~got.stop /\ Len(got.rows) < Needed, page)
  /\ UNCHANGED <<history, request>>

PageFails ==
  /\ reading.stage = "reading"
  /\ reading' = [reading EXCEPT !.stage = "failed"]
  /\ UNCHANGED <<history, request>>

\* A transaction of the account is applied, on the last day or the next.
Apply ==
  /\ reading.stage = "reading" /\ Len(history) < MaxRecords
  /\ \E day \in {0, 1}, matches \in {0, 1} :
       history' = Append(history, [day |-> day + (IF history = <<>> THEN 1 ELSE Last(history).day),
                                   matches |-> matches])
  /\ UNCHANGED <<request, reading>>

Next == PageArrives \/ PageFails \/ Apply

Spec == Init /\ [][Next]_vars

-----------------------------------------------------------------------------
\* The rows of a query, sorted by date; the sort is stable.
Sorted(rows) ==
  LET day(i) == history[rows[i][1]].day
      before(i, j) == \/ IF request.order = "asc" THEN day(i) < day(j) ELSE day(i) > day(j)
                      \/ day(i) = day(j) /\ i < j
      places == SetToSortSeq(DOMAIN rows, before)
  IN [i \in DOMAIN rows |-> rows[places[i]]]

StartIndex == (request.page - 1) * request.perPage

Slice(rows) == SubSeq(rows, StartIndex + 1,
  IF Len(rows) < StartIndex + request.perPage THEN Len(rows) ELSE StartIndex + request.perPage)

HasMore == StartIndex + request.perPage < Len(reading.rows) \/ reading.more

\* What there is to find among the first n transactions.
Wanted(n) ==
  LET places == IF request.order = "asc" THEN [i \in 1 .. n |-> i] ELSE Newest(n)
      inside == SelectSeq(places, LAMBDA i : ~TooOld(i) /\ ~TooNew(i))
  IN FlattenSeq([i \in DOMAIN inside |-> RowsOf(inside[i])])

\* However the pages of Horizon fall and whatever is applied meanwhile, an export
\* has every row of its range, once and in order, up to its limit; a page of a
\* query sorted by date is that part of all rows; and a query that says that there
\* is nothing more is right. All this for the history as it was when the first page
\* came, or, forwards, at some moment since. (hasMore may be true at the end, and a
\* limit of nothing gives one row.)
PagesAreComplete ==
  reading.stage = "done" =>
    \E n \in reading.began .. (IF request.order = "asc" THEN Len(history) ELSE reading.began) :
      LET wanted == Wanted(n) IN
      IF request.kind = "export"
      THEN reading.rows = IF ReachesLimit(wanted) THEN CutRows(wanted) ELSE wanted
      ELSE /\ Slice(Sorted(reading.rows)) = Slice(wanted)
           /\ ~HasMore => StartIndex + request.perPage >= Len(wanted)
=============================================================================
