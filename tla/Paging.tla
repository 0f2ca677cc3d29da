------------------------------- MODULE Paging -------------------------------
(***************************************************************************)
(* How the server turns a query into a page of entries: the search of       *)
(* LuceneStorage, the cut of TrsstAdapter.addEntriesFromStorage and the     *)
(* links of addPagingLinks.                                                 *)
(*                                                                          *)
(* An entry is its timestamp, which is its id and its sort key in the       *)
(* index; 0 stands for an absent `after` or `before`.                       *)
(***************************************************************************)
EXTENDS Naturals, FiniteSets

\* NumericRangeFilter: both ends are excluded.
Between(S, after, before) ==
    {e \in S : after < e /\ (before = 0 \/ e < before)}

NewerIn(S, e) == {d \in S : e < d}

\* The n newest of S, sorted by `updated` in reverse.
Newest(S, n) == {e \in S : Cardinality(NewerIn(S, e)) < n}

\* At most `length` ids are asked for, whatever the page.
EntryIds(S, after, before, length) == Newest(Between(S, after, before), length)

\* The page is cut out of these ids.
PageOf(S, after, before, count, page) ==
    LET ids == EntryIds(S, after, before, count)
    IN {e \in ids : /\ page * count <= Cardinality(NewerIn(ids, e))
                    /\ Cardinality(NewerIn(ids, e)) < (page + 1) * count}

\* The total: the ids that were read, or the count when no entries are wanted.
TotalCount(S, after, before, count) ==
    Cardinality(IF count > 0 THEN EntryIds(S, after, before, count)
                ELSE Between(S, after, before))

\* Is there a link to the next page?
HasNext(S, after, before, count, page) ==
    TotalCount(S, after, before, count) > (page + 1) * count

=============================================================================
