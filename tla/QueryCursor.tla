---------------------------- MODULE QueryCursor ----------------------------
(***************************************************************************)
(* A query's cursor in the client the driver inherits: QueryCursor and     *)
(* QueryFieldsCursor over QueryCursorImpl (src/impl/cache/query/           *)
(* query_impl.cpp), the batches it takes from Java, and the rows of a      *)
(* fields query with the columns an application reads from them.           *)
(*                                                                         *)
(* The result has NumRows rows, known by their numbers.  Java is external: *)
(* its iterator hands over the rows in order, in batches of at most        *)
(* MaxBatch and empty only when no row is left; any call may fail, and a   *)
(* batch that fails may have taken rows from the iterator.  The            *)
(* application reads a column of a row only while HasNext of the row says  *)
(* there is one.                                                           *)
(***************************************************************************)
EXTENDS Integers, Sequences

CONSTANTS
    NumRows,   \* the rows of the result
    MaxBatch,  \* the query's page size
    Columns    \* what the columns hold: a value, an array, or a null array

ASSUME CursorAssumption ==
    /\ NumRows \in Nat /\ MaxBatch \in Nat \ {0}
    /\ Columns \in Seq({"value", "array", "null"})

(* What a DocumentDbError holds. *)
NoError == "success"
JavaError == "java"
UsageError == "usage"
NoMoreElements == "no more elements"

NoBatch == [next |-> 1, last |-> 0]

(* QueryFieldsRowImpl: the columns read from the stream, those counted,    *)
(* and two histories: the length of a null array was asked, and the row    *)
(* was read past its end.                                                  *)
NewRow == [used |-> 0, processed |-> 0, asked |-> FALSE, overrun |-> FALSE]

VARIABLES
    fields,       \* a QueryFieldsCursor, or a QueryCursor of entries?
    iterCalled, getAllCalled, endReached,
    batch,        \* QueryBatch: the rows left in it, from next to last
    source,       \* Java's iterator: the last row it handed over
    row,          \* the QueryFieldsRowImpl given last
    err,          \* the error the application's last call came back with
    reply,        \* what that call was told
    given,        \* history: the rows the application was given
    failed        \* history: a call was told an error of Java

cursorVars == <<fields, iterCalled, getAllCalled, endReached, batch, source, row, err,
                reply, given, failed>>

(* QueryCursorImpl::QueryCursorImpl. *)
CursorInit ==
    /\ fields \in BOOLEAN
    /\ iterCalled = FALSE /\ getAllCalled = FALSE /\ endReached = FALSE
    /\ batch = NoBatch /\ source = 0 /\ row = NewRow
    /\ err = NoError /\ reply = "new" /\ given = <<>> /\ failed = FALSE

(* The error a call starts with: a new one in the overloads that throw,    *)
(* that of an earlier call when the application passes it again.           *)
Passed == {NoError, err}

(* QueryBatch::Left. *)
Left == batch.last - batch.next + 1

-----------------------------------------------------------------------------
(* How the search for the next row ends: ok unless a call of Java keeps    *)
(* the cursor from looking, and the state it leaves.                       *)
Found(ok, called, end, b, s, e) ==
    [ok |-> ok, iterCalled |-> called, endReached |-> end, batch |-> b, source |-> s, err |-> e]

(* CreateIteratorIfNeeded fails. *)
IteratorFails == Found(FALSE, FALSE, endReached, batch, source, JavaError)

(* A batch of n rows is there. *)
Batch(n) ==
    Found(TRUE, TRUE, n = 0, [next |-> source + 1, last |-> source + n], source + n, NoError)

Sizes == {n \in 0 .. MaxBatch : source + n <= NumRows}

(* Mutant: a failing IteratorHasNext is taken for the end. *)
FindNextForgets(e) ==
    IF endReached \/ Left > 0
    THEN {Found(TRUE, TRUE, endReached, batch, source, IF iterCalled THEN e ELSE NoError)}
    ELSE {Found(TRUE, TRUE, TRUE, batch, source, NoError)} \cup {Batch(n) : n \in Sizes}

(* CreateIteratorIfNeeded succeeds and GetNextBatchIfNeeded follows:       *)
(* nothing is needed; Java has no more; IteratorHasNext fails, which ends  *)
(* the cursor; OP_GET_BATCH fails, which does not; a batch is there.       *)
FindNext(e) ==
    IF endReached \/ Left > 0
    THEN {Found(TRUE, TRUE, endReached, batch, source, IF iterCalled THEN e ELSE NoError)}
    ELSE (IF source = NumRows THEN {Found(TRUE, TRUE, TRUE, batch, source, NoError)} ELSE {})
         \cup {Found(TRUE, TRUE, TRUE, batch, source, JavaError)}
         \cup {Found(FALSE, TRUE, FALSE, batch, source + n, JavaError) : n \in Sizes}
         \cup {Batch(n) : n \in {m \in Sizes : m = 0 => source = NumRows}}

(* The searches of a call that passes e. *)
Searches(e) == FindNext(e) \cup (IF iterCalled THEN {} ELSE {IteratorFails})

Searched(f, e) ==
    /\ iterCalled' = f.iterCalled /\ endReached' = f.endReached /\ source' = f.source
    /\ err' = e
    /\ failed' = (failed \/ f.err = JavaError)
    /\ UNCHANGED <<fields, getAllCalled>>

(* A method that may not be called any more. *)
Refuse ==
    /\ err' = UsageError /\ reply' = "refused"
    /\ UNCHANGED <<fields, iterCalled, getAllCalled, endReached, batch, source, row, given, failed>>

-----------------------------------------------------------------------------
(* QueryCursorImpl::HasNext. *)
HasNext(e) ==
    \/ getAllCalled /\ Refuse
    \/ /\ ~getAllCalled
       /\ \E f \in Searches(e) :
             /\ Searched(f, f.err) /\ batch' = f.batch
             /\ reply' = IF f.ok /\ ~f.endReached THEN "more" ELSE "no"
       /\ UNCHANGED <<row, given>>

(* "Ensure we do not overwrite possible previous error." *)
EndError(e) == IF e = NoError THEN NoMoreElements ELSE e

(* QueryBatch::GetNext, GetNextRow: a new row from the batch b. *)
TakeRow(b) ==
    /\ batch' = [b EXCEPT !.next = @ + 1]
    /\ given' = Append(given, b.next)
    /\ row' = NewRow

(* QueryCursorImpl::GetNext, and GetNextRow of a fields cursor, which does *)
(* not ask for getAllCalled.                                               *)
GetNext(e) ==
    \/ getAllCalled /\ ~fields /\ Refuse
    \/ /\ ~getAllCalled \/ fields
       /\ \E f \in Searches(e) :
             IF f.ok /\ ~f.endReached
             THEN /\ Searched(f, f.err) /\ TakeRow(f.batch)
                  /\ reply' = "row"
             ELSE /\ Searched(f, IF f.ok THEN EndError(f.err) ELSE f.err)
                  /\ batch' = f.batch /\ reply' = "none"
                  /\ UNCHANGED <<given, row>>

(* QueryCursorImpl::GetAll, both overloads; a QueryFieldsCursor has none. *)
GetAll ==
    /\ ~fields
    /\ \/ (iterCalled \/ getAllCalled) /\ Refuse
       \/ /\ ~iterCalled /\ ~getAllCalled
          /\ \/ /\ getAllCalled' = TRUE /\ source' = NumRows
                /\ given' = [i \in 1 .. NumRows |-> i]
                /\ err' = NoError /\ reply' = "all"
                /\ UNCHANGED failed
             \/ /\ err' = JavaError /\ failed' = TRUE /\ reply' = "none"
                /\ UNCHANGED <<getAllCalled, source, given>>
          /\ UNCHANGED <<fields, iterCalled, endReached, batch, row>>

-----------------------------------------------------------------------------
(* The columns of the row given last.  QueryFieldsRowImpl::HasNext is the  *)
(* guard.                                                                  *)
RowHasNext == fields /\ given # <<>> /\ row.processed < Len(Columns)

Column == Columns[row.used + 1]

ReadColumn(counted, consumed, asked) ==
    /\ row' = [used |-> row.used + consumed, processed |-> row.processed + counted,
               asked |-> row.asked \/ asked,
               overrun |-> row.overrun \/ row.used = Len(Columns)]
    /\ UNCHANGED <<fields, iterCalled, getAllCalled, endReached, batch, source, err, reply,
                   given, failed>>

(* QueryFieldsRowImpl::GetNext. *)
RowGetNext ==
    /\ RowHasNext
    /\ ReadColumn(1, IF row.used < Len(Columns) THEN 1 ELSE 0, FALSE)

(* QueryFieldsRowImpl::GetNextInt8Array with room for the array, or        *)
(* without any, to learn its length: the stream goes back to an array that *)
(* does not fit and stays behind a null one, which only counts when there  *)
(* was a buffer.                                                           *)
RowGetNextInt8Array(fits) ==
    /\ RowHasNext
    /\ row.used < Len(Columns) => Column # "value"
    /\ ReadColumn(IF fits THEN 1 ELSE 0,
                  IF row.used < Len(Columns) /\ (fits \/ Column = "null") THEN 1 ELSE 0,
                  ~fits /\ row.used < Len(Columns) /\ Column = "null")

CursorNext ==
    \/ \E e \in Passed : HasNext(e) \/ GetNext(e)
    \/ GetAll
    \/ RowGetNext
    \/ \E fits \in BOOLEAN : RowGetNextInt8Array(fits)

CursorSpec == CursorInit /\ [][CursorNext]_cursorVars

-----------------------------------------------------------------------------
CursorTypeOK ==
    /\ fields \in BOOLEAN /\ iterCalled \in BOOLEAN /\ getAllCalled \in BOOLEAN
    /\ endReached \in BOOLEAN /\ failed \in BOOLEAN
    /\ source \in 0 .. NumRows
    /\ batch \in [next : Int, last : Int]
    /\ given \in Seq(1 .. NumRows)
    /\ row \in [used : Nat, processed : Nat, asked : BOOLEAN, overrun : BOOLEAN]

(* The application gets every row at most once and in order, and without   *)
(* a gap until it is told an error of Java.                                *)
RowsComeInOrder ==
    /\ \A i, j \in DOMAIN given : i < j => given[i] < given[j]
    /\ ~failed => \A i \in DOMAIN given : given[i] = i

(* The end is told for good only when every row was given, or after an     *)
(* error: a failing IteratorHasNext ends the cursor, and only the call it  *)
(* happens in says why.                                                    *)
EndIsEarned ==
    ~failed /\ (endReached \/ (reply = "no" /\ err = NoError)) => Len(given) = NumRows

(* GetNext and GetAll bring rows or an error, and a cursor that was read   *)
(* at once is not iterated as well.                                        *)
RowsOrError ==
    /\ reply = "none" => err # NoError
    /\ getAllCalled => ~iterCalled /\ Len(given) = NumRows

(* Who reads a row while its HasNext allows stays inside it, and the       *)
(* columns counted are those consumed, unless the length of a null array   *)
(* was asked for, which takes the array without counting it.               *)
RowsAreReadInside ==
    /\ row.overrun => row.asked
    /\ row.used # row.processed => row.asked

(* QueryCursorImpl: what a cursor tells its application is what Java's     *)
(* iterator held.                                                          *)
CursorTellsTheRows ==
    CursorTypeOK /\ RowsComeInOrder /\ EndIsEarned /\ RowsOrError /\ RowsAreReadInside
=============================================================================
