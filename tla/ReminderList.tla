---------------------------- MODULE ReminderList ----------------------------
(***************************************************************************)
(* Paging through reminders (Store.List, reminder/store.go) while clients  *)
(* and workers insert, move and settle rows between the pages.  A cursor   *)
(* is the (schedule_at, id) of the last row of a page; its encoding keeps  *)
(* both.  Create and RescheduleByKey refuse a zero schedule_at, which      *)
(* decodeCursor would refuse.                                              *)
(***************************************************************************)
EXTENDS Integers, Sequences, FiniteSets

CONSTANTS
  MaxRows, MaxAt,          \* bounds: rows inserted, times they are scheduled at
  DefaultLimit, MaxLimit,  \* 50 and 200 in the code
  Limits                   \* limits asked for

ASSUME LimitAssumption ==
  /\ MaxRows \in Nat /\ MaxAt \in Nat /\ Limits \subseteq Int
  /\ DefaultLimit \in Nat \ {0} /\ MaxLimit \in Nat /\ DefaultLimit <= MaxLimit

VARIABLES
  rows,       \* the table: rows in the order of their ids
  scan,       \* where the client is: more pages, done
  cursor,     \* the cursor it goes on from
  pages,      \* history: the ids of each page it was given
  settled     \* history: rows that were there, matched and have not moved since it began

listVars == <<rows, scan, cursor, pages, settled>>

\* A row is scheduled at a time and matches the filters or not.
Rows == [at : 1 .. MaxAt, match : BOOLEAN]
NoCursor == <<0, 0>>

\* (schedule_at, id) > (?, ?).
\* Mutant: After_At compares the time alone.
After_At(p, q) == p[1] > q[1]
After(p, q) == p[1] > q[1] \/ (p[1] = q[1] /\ p[2] > q[2])
Place(i) == <<rows[i].at, i>>

ListInit ==
  /\ rows \in UNION {[1 .. n -> Rows] : n \in 0 .. MaxRows}
  /\ scan = "more" /\ cursor = NoCursor /\ pages = <<>>
  /\ settled = {i \in DOMAIN rows : rows[i].match}

\* The limit of a query.
limit(l) == IF l <= 0 THEN DefaultLimit ELSE IF l > MaxLimit THEN MaxLimit ELSE l

\* ORDER BY schedule_at, id.
Before(i, j) == rows[i].at < rows[j].at \/ (rows[i].at = rows[j].at /\ i < j)

\* LIMIT n.
FirstRows(S, n) == {i \in S : Cardinality({j \in S : Before(j, i)}) < n}

\* List: one more row than the page has is asked for, and its presence makes a
\* NextCursor of the page's last row.
ListPage(l) ==
  /\ scan = "more"
  /\ LET found == {i \in DOMAIN rows : rows[i].match /\ After(Place(i), cursor)}
         items == FirstRows(found, limit(l) + 1)
         page == FirstRows(items, limit(l))
     IN  /\ pages' = Append(pages, page)
         /\ \/ /\ Cardinality(items) > limit(l)
               /\ \E i \in page : (\A j \in page : ~Before(i, j)) /\ cursor' = Place(i)
               /\ UNCHANGED scan
            \/ /\ Cardinality(items) <= limit(l)
               /\ scan' = "done"
               /\ UNCHANGED cursor
  /\ UNCHANGED <<rows, settled>>

\* A row is inserted.
Insert ==
  /\ scan = "more" /\ Len(rows) < MaxRows
  /\ \E r \in Rows : rows' = Append(rows, r)
  /\ UNCHANGED <<scan, cursor, pages, settled>>

\* A row is rescheduled, or claimed, settled, cancelled or requeued: it moves, or
\* begins or ceases to match.
Change ==
  /\ scan = "more"
  /\ \E i \in DOMAIN rows, r \in Rows :
       /\ rows' = [rows EXCEPT ![i] = r]
       /\ settled' = IF r = rows[i] THEN settled ELSE settled \ {i}
  /\ UNCHANGED <<scan, cursor, pages>>

ListNext == (\E l \in Limits : ListPage(l)) \/ Insert \/ Change

ListSpec == ListInit /\ [][ListNext]_listVars

-----------------------------------------------------------------------------
(* Properties *)

\* A scan is complete and free of repetitions for what did not change under it,
\* whatever happened to other rows and whatever limits its pages had: a row that
\* matched all the time and stayed at its place is listed once, at the end, and never
\* twice before.
StableListedOnce ==
  \A i \in settled :
    /\ \A m, n \in DOMAIN pages : i \in pages[m] /\ i \in pages[n] => m = n
    /\ scan = "done" => \E n \in DOMAIN pages : i \in pages[n]

=============================================================================
