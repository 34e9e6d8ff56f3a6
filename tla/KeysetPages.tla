------------------------------ MODULE KeysetPages ------------------------------
(***************************************************************************)
(* Keyset pagination (src/meemee/cursors.py and the list methods of every  *)
(* store): a client walks a list page by page, newest first, with the      *)
(* cursor of the last row it got, while rows are added, changed and        *)
(* deleted between its calls.  A row's key is its sort stamp and its id;   *)
(* stamps may tie.  The lists differ in what a change does to the stamp:   *)
(* jobs are sorted by updated_at, all others by created_at.                *)
(***************************************************************************)
EXTENDS Naturals, FiniteSets

CONSTANTS Rows,          \* ids, numbers so that they are ordered
          MaxStamps,     \* bound on the clock
          PageLimit      \* the limit the client asks for

ASSUME PagesAssumption == /\ Rows \subseteq Nat \ {0} /\ IsFiniteSet(Rows)
                          /\ MaxStamps \in Nat \ {0} /\ PageLimit \in Nat \ {0}

VARIABLES list,          \* the list that is walked: its sort column and filters
          table,         \* per id: its stamp (0: no row) and whether the filters keep it
          stamp,         \* the clock
          walk,          \* the client: its cursor and how often it got each row
          present,       \* rows the filters kept since the walk began
          moved          \* rows deleted or stamped anew since then

pagesVars == <<list, table, stamp, walk, present, moved>>

JobsPage == [sort |-> "updated_at", filters |-> {"status", "before"}]
PgJobsPage == [sort |-> "updated_at", filters |-> {"status", "before"}]
TokensPage == [sort |-> "created_at", filters |-> {"owner", "kind", "revoked", "before"}]
PgTokensPage == [sort |-> "created_at", filters |-> {"owner", "kind", "revoked", "before"}]
RunsPage == [sort |-> "created_at", filters |-> {"before"}]
PgRunsPage == [sort |-> "created_at", filters |-> {"before"}]
SubscriptionsPage == [sort |-> "created_at", filters |-> {}]
PgSubscriptionsPage == [sort |-> "created_at", filters |-> {}]
DeliveriesPage == [sort |-> "created_at", filters |-> {"status", "after"}]
PgDeliveriesPage == [sort |-> "created_at", filters |-> {"status", "after"}]
Lists == {JobsPage, PgJobsPage, TokensPage, PgTokensPage, RunsPage, PgRunsPage,
          SubscriptionsPage, PgSubscriptionsPage, DeliveriesPage, PgDeliveriesPage}

\* Filters a row can pass at one moment and fail at another.
Changeable == {"status", "revoked"}

FirstPage == [stamp |-> MaxStamps + 1, id |-> 0]
NoRow == [stamp |-> 0, kept |-> FALSE]

PagesInit ==
    /\ list \in Lists
    /\ table \in [Rows -> {NoRow} \cup [stamp : {1}, kept : BOOLEAN]]
    /\ stamp = 1
    /\ walk = [cursor |-> FirstPage, got |-> [r \in Rows |-> 0], pc |-> "walking"]
    /\ present = {r \in Rows : table[r].kept}
    /\ moved = {}

\* A new row, with an id never used before; two rows may share a stamp.
InsertRow(r, kept) ==
    /\ table[r] = NoRow /\ r \notin moved
    /\ table' = [table EXCEPT ![r] = [stamp |-> stamp, kept |-> kept]]
    /\ UNCHANGED <<list, stamp, walk, present, moved>>

\* A status change or a revocation; of the sort columns only updated_at moves.
UpdateRow(r, kept) ==
    /\ table[r] # NoRow
    /\ kept # table[r].kept => list.filters \cap Changeable # {}
    /\ table' = [table EXCEPT ![r] = [stamp |-> IF list.sort = "updated_at" THEN stamp ELSE table[r].stamp,
                                     kept |-> kept]]
    /\ present' = IF kept THEN present ELSE present \ {r}
    /\ moved' = IF list.sort = "updated_at" THEN moved \cup {r} ELSE moved
    /\ UNCHANGED <<list, stamp, walk>>

DeleteRow(r) ==
    /\ table[r] # NoRow
    /\ table' = [table EXCEPT ![r] = NoRow]
    /\ present' = present \ {r}
    /\ moved' = moved \cup {r}
    /\ UNCHANGED <<list, stamp, walk>>

PagesTick ==
    /\ stamp < MaxStamps
    /\ stamp' = stamp + 1
    /\ UNCHANGED <<list, table, walk, present, moved>>

\* Mutant: rows with the cursor's stamp are taken for read.
BelowStamp(r, c) == table[r].stamp < c.stamp
\* (sort < cursor OR (sort = cursor AND id < cursor_id))
Below(r, c) == table[r].stamp < c.stamp \/ (table[r].stamp = c.stamp /\ r < c.id)

\* ORDER BY sort DESC, id DESC
Newer(q, r) == table[q].stamp > table[r].stamp \/ (table[q].stamp = table[r].stamp /\ q > r)

\* ORDER BY ... LIMIT: the first PageLimit rows of them.
FirstOf(rows) == {r \in rows : Cardinality({q \in rows : Newer(q, r)}) < PageLimit}
LastOf(items) == CHOOSE r \in items : \A q \in items \ {r} : Newer(q, r)

\* LIMIT page_size + 1 tells whether there is a next page.
FetchPage ==
    LET rows == {r \in Rows : table[r].kept /\ Below(r, walk.cursor)}
        items == FirstOf(rows)
        last == LastOf(items)
        more == Cardinality(rows) > PageLimit
    IN  /\ walk.pc = "walking"
        /\ walk' = [cursor |-> IF more THEN [stamp |-> table[last].stamp, id |-> last] ELSE walk.cursor,
                    got |-> [r \in Rows |-> IF r \in items THEN walk.got[r] + 1 ELSE walk.got[r]],
                    pc |-> IF more THEN "walking" ELSE "done"]
        /\ UNCHANGED <<list, table, stamp, present, moved>>

PagesNext ==
    \/ \E r \in Rows, kept \in BOOLEAN : InsertRow(r, kept) \/ UpdateRow(r, kept)
    \/ \E r \in Rows : DeleteRow(r)
    \/ PagesTick \/ FetchPage

PagesSpec == PagesInit /\ [][PagesNext]_pagesVars

PagesTypeOK ==
    /\ list \in Lists /\ stamp \in 1..MaxStamps /\ present \subseteq Rows /\ moved \subseteq Rows
    /\ table \in [Rows -> [stamp : 0..MaxStamps, kept : BOOLEAN]]
    /\ walk \in [cursor : [stamp : 1..(MaxStamps + 1), id : Rows \cup {0}],
                 got : [Rows -> Nat], pc : {"walking", "done"}]

(***************************************************************************)
(* A finished walk has met every row that was there from its first page to *)
(* its last and kept its place in the order, whatever was added, changed   *)
(* or deleted beside it; and it has met no row twice.                      *)
(***************************************************************************)
WalksMeetEveryRow ==
    /\ walk.pc = "done" => \A r \in present \ moved : walk.got[r] = 1
    /\ \A r \in Rows : walk.got[r] <= 1
=============================================================================
