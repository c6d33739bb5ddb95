----------------------------- MODULE KeysetPages -----------------------------
(***************************************************************************)
(* Reading a table page by page while it changes: the photographer's list,  *)
(* newest first, the client's, oldest first (gallery/pagination.py), and    *)
(* the batches the sweeps and the archive builder read by primary key       *)
(* (gallery/db_batch.py).  The reader keeps only the last key it was given. *)
(***************************************************************************)
EXTENDS Integers, Sequences, FiniteSets

CONSTANTS
    Time,           \* uploaded_at, several photos may share one
    Id,             \* primary keys
    PageSize

ASSUME PageAssumption ==
    /\ PageSize \in Nat \ {0}
    /\ Time \subseteq Int /\ Id \subseteq Int /\ IsFiniteSet(Time) /\ IsFiniteSet(Id)

RowKeys == Time \X Id
Order == {"newest", "oldest", "pk"}

VARIABLES
    order,      \* which of the three readers this is
    rows,       \* keys of the rows it may see, one for an Id
    cursor,     \* the last key of the page before
    given,       \* keys given, in order
    reading,    \* there is a page to come
    steady      \* history: rows there since the first page was read

pageVars == <<order, rows, cursor, given, reading, steady>>

Start == <<"start">>

PageTypeOK ==
    /\ order \in Order
    /\ rows \in SUBSET RowKeys /\ steady \in SUBSET rows
    /\ cursor \in {Start} \cup RowKeys
    /\ given \in Seq(RowKeys)
    /\ reading \in BOOLEAN

OnePerId(S) == \A a \in S, b \in S : a[2] = b[2] => a = b

PageInit ==
    /\ order \in Order
    /\ rows \in {S \in SUBSET RowKeys : OnePerId(S)}
    /\ cursor = Start /\ given = <<>>
    /\ reading = TRUE
    /\ steady = rows

(* a is read before b.                                                      *)
Precedes(a, b) ==
    CASE order = "newest" -> a[1] > b[1] \/ (a[1] = b[1] /\ a[2] > b[2])
      [] order = "oldest" -> a[1] < b[1] \/ (a[1] = b[1] /\ a[2] < b[2])
      [] order = "pk" -> a[2] < b[2]

(* Mutant: the cursor compares uploaded_at alone.                           *)
AfterTime ==
    IF cursor = Start THEN rows
    ELSE {k \in rows : Precedes(cursor, k) /\ (order = "pk" \/ k[1] # cursor[1])}

After == IF cursor = Start THEN rows ELSE {k \in rows : Precedes(cursor, k)}

(* The first n keys of S in the reader's order of time and id.              *)
First(S, n) ==
    LET rank(k) == Cardinality({j \in S : Precedes(j, k)})
    IN  {k \in S : rank(k) < n}
Listed(S) == CHOOSE s \in [1..Cardinality(S) -> S] :
                \A i, j \in 1..Cardinality(S) : i < j => Precedes(s[i], s[j])

(* The lists ask for one row more than a page and stop when it is not       *)
(* there; the batches stop at an empty page.                                *)
ReadPage ==
    LET page == Listed(First(After, PageSize))
    IN  /\ reading
        /\ given' = given \o page
        /\ cursor' = IF page = <<>> THEN cursor ELSE page[Len(page)]
        /\ reading' = IF order = "pk" THEN page # <<>>
                      ELSE Cardinality(After) > PageSize
        /\ UNCHANGED <<order, rows, steady>>

(* A row appears: its time was taken before it was committed.               *)
RowAppears(k) ==
    /\ reading
    /\ OnePerId(rows \cup {k}) /\ k \notin rows
    /\ \A i \in DOMAIN given : given[i][2] = k[2] => given[i] = k
    /\ rows' = rows \cup {k}
    /\ UNCHANGED <<order, cursor, given, reading, steady>>

(* A row is deleted, or the filter no longer lets it through.               *)
RowVanishes(k) ==
    /\ reading /\ k \in rows
    /\ rows' = rows \ {k}
    /\ steady' = steady \ {k}
    /\ UNCHANGED <<order, cursor, given, reading>>

PageNext ==
    \/ ReadPage
    \/ \E k \in RowKeys : RowAppears(k) \/ RowVanishes(k)

PageSpec == PageInit /\ [][PageNext]_pageVars
-----------------------------------------------------------------------------
(* Whatever is inserted and deleted between the pages, nothing is given     *)
(* twice, and a row that is there throughout is not skipped, photos         *)
(* uploaded at one instant included (pagination.py:57-102, db_batch.py:25). *)
SeenOnce ==
    /\ \A i, j \in DOMAIN given : given[i] = given[j] => i = j
    /\ ~reading => \A k \in steady : \E i \in DOMAIN given : given[i] = k
=============================================================================
