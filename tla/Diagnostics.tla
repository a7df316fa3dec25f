---------------------------- MODULE Diagnostics ----------------------------
(***************************************************************************)
(* The diagnostics of handles (src/diagnostic/) and the calls that read    *)
(* them: SQLGetDiagRec, SQLGetDiagField and SQLError (src/odbc.cpp).       *)
(* Every handle has a header, of which the return code matters here, and   *)
(* status records.  Any other call on the handle replaces them; SQLError   *)
(* marks the record it returns, so that each call returns the next one.    *)
(***************************************************************************)
EXTENDS Integers, Sequences, FiniteSets, Odbc

CONSTANTS
    Handles,     \* the handles in use: an environment, a connection, a statement
    MaxRecords,  \* bound: the most status records a call leaves
    Sizes,       \* the lengths of messages, in bytes
    MaxSmall     \* stands for 2^15 - 1, the largest SQLSMALLINT

ASSUME DiagnosticsAssumption ==
    /\ Handles \subseteq {"ENV", "DBC", "STMT"}
    /\ "STMT" \in Handles
    /\ MaxRecords \in Nat
    /\ Sizes \subseteq Nat
    /\ MaxSmall \in Nat

(* Handles and what is none: a type there is not or, but for               *)
(* SQLGetDiagField, which does not look, a null pointer.                   *)
Arguments == Handles \cup {"NULL"}

Records == [size : Sizes, retrieved : BOOLEAN]

RecordLists == UNION {[1..n -> Records] : n \in 0..MaxRecords}

(* The records a call leaves, none of them retrieved. *)
NewRecordLists == UNION {[1..n -> [size : Sizes, retrieved : {FALSE}]] : n \in 0..MaxRecords}

VARIABLES
    header,    \* result of each handle's DiagnosticRecordStorage
    records,   \* its statusRecords
    given,     \* the numbers of the records SQLError returned since the last call
    answer     \* the last call, its handle, its return code, and whether a
               \* message was copied in full

diagVars == <<header, records, given, answer>>

Answer(call, h, code, whole) == [call |-> call, handle |-> h, code |-> code, whole |-> whole]

DiagInit ==
    /\ header = [h \in Handles |-> "SUCCESS"]
    /\ records = [h \in Handles |-> <<>>]
    /\ given = [h \in Handles |-> <<>>]
    /\ answer = Answer("NONE", "STMT", "SUCCESS", TRUE)

-----------------------------------------------------------------------------
(* DOCUMENTDB_ODBC_API_CALL: Reset, the handler with its AddStatusRecord,  *)
(* SetHeaderRecord.                                                        *)
ApiCall(h, result, added) ==
    /\ header' = [header EXCEPT ![h] = result]
    /\ records' = [records EXCEPT ![h] = added]
    /\ given' = [given EXCEPT ![h] = <<>>]
    /\ answer' = Answer("OTHER", h, result, TRUE)

(* SQLNumParams, given no place for the answer, makes no call on the       *)
(* statement and returns the code of the call before.                      *)
SkippedCall ==
    /\ answer' = Answer("OTHER", "STMT", header["STMT"], TRUE)
    /\ UNCHANGED <<header, records, given>>

(* What reading a diagnostic returns. *)
Read(call, h, code, whole) ==
    /\ answer' = Answer(call, h, code, whole)
    /\ UNCHANGED <<header, records, given>>

(* DiagnosticRecordStorage::GetField: a field of the header, whatever the  *)
(* number, or one of a record, or no field there is.                       *)
GetFieldResult(h, n, field) ==
    IF h \notin Handles THEN "NO_DATA"
    ELSE IF field = "HEADER" THEN "SUCCESS"
    ELSE IF n \notin 1..Len(records[h]) THEN "NO_DATA"
    ELSE IF field = "STATUS" THEN "SUCCESS" ELSE "ERROR"

GetDiagField(h, n, field) == Read("FIELD", h, GetFieldResult(h, n, field), TRUE)

(* The length of the application's buffer, or that there is none.          *)
NoBuffer == -1
Buffers == {NoBuffer} \cup 0..MaxSmall

(* static_cast< SQLSMALLINT >, which wraps around *)
SmallInt(n) == ((n + MaxSmall + 1) % (2 * (MaxSmall + 1))) - (MaxSmall + 1)

(* CopyStringToBuffer copies the whole message and the null after it, at   *)
(* one character a byte.  Assumed: every character can be converted (the   *)
(* copy ends at the first that cannot).                                    *)
CopiedWhole(size, buffer) == buffer # NoBuffer /\ size + 1 <= buffer

(* Mutant: the null after the message is not counted. *)
FoundEnoughNoNull(size, buffer) == buffer # NoBuffer /\ SmallInt(size) <= buffer

(* What SQLGetDiagRec takes for a buffer that is long enough.  A message   *)
(* of MaxSmall bytes or more wraps around.                                 *)
FoundEnough(size, buffer) == buffer # NoBuffer /\ SmallInt(size + 1) <= buffer

(* SQLGetDiagRec of record n: n < 1 stands for a negative length, too.     *)
GetDiagRec(h, n, buffer, hasLen) ==
    IF h \notin Handles THEN Read("REC", h, "INVALID_HANDLE", TRUE)
    ELSE IF n < 1 THEN Read("REC", h, "ERROR", TRUE)
    ELSE IF n > Len(records[h]) THEN Read("REC", h, "NO_DATA", TRUE)
    ELSE LET size == records[h][n].size
             code == IF FoundEnough(size, buffer) THEN "SUCCESS"
                     ELSE IF hasLen THEN "SUCCESS_WITH_INFO" ELSE "ERROR"
         IN  Read("REC", h, code, CopiedWhole(size, buffer))

-----------------------------------------------------------------------------
NotRetrieved(rs) == {n \in 1..Len(rs) : ~rs[n].retrieved}

(* Mutant: the last one, as its name says. *)
GetLastNonRetrievedByName(rs) ==
    IF NotRetrieved(rs) = {} THEN 0
    ELSE CHOOSE n \in NotRetrieved(rs) : \A m \in NotRetrieved(rs) : m <= n

(* DiagnosticRecordStorage::GetLastNonRetrieved, which returns the first.  *)
GetLastNonRetrieved(rs) ==
    IF NotRetrieved(rs) = {} THEN 0
    ELSE CHOOSE n \in NotRetrieved(rs) : \A m \in NotRetrieved(rs) : n <= m

(* Mutant: every record is marked at the first call. *)
MarkRetrievedAll(rs, n) == [k \in DOMAIN rs |-> [rs[k] EXCEPT !.retrieved = TRUE]]

(* DiagnosticRecord::MarkRetrieved, of record n *)
MarkRetrieved(rs, n) == [rs EXCEPT ![n].retrieved = TRUE]

(* Of the handles given, the environment comes first, then the connection. *)
ErrorHandle(handles) ==
    IF "ENV" \in handles THEN "ENV" ELSE IF "DBC" \in handles THEN "DBC" ELSE "STMT"

(* SQLError.  It copies what fits and returns SQL_SUCCESS all the same.    *)
SQLError(handles, buffer) ==
    LET h == ErrorHandle(handles)
        n == GetLastNonRetrieved(records[h])
    IN  IF handles = {} THEN Read("SQLERROR", "NULL", "INVALID_HANDLE", TRUE)
        ELSE IF n = 0 THEN Read("SQLERROR", h, "NO_DATA", TRUE)
        ELSE /\ records' = [records EXCEPT ![h] = MarkRetrieved(@, n)]
             /\ given' = [given EXCEPT ![h] = Append(@, n)]
             /\ answer' = Answer("SQLERROR", h, "SUCCESS",
                                 CopiedWhole(records[h][n].size, buffer))
             /\ UNCHANGED header

-----------------------------------------------------------------------------
DiagNext ==
    \/ \E h \in Handles, result \in SqlResults, added \in NewRecordLists :
          ApiCall(h, result, added)
    \/ SkippedCall
    \/ \E h \in Arguments, n \in 0..(MaxRecords + 1) :
          \/ \E field \in {"HEADER", "STATUS", "UNKNOWN"} : GetDiagField(h, n, field)
          \/ \E buffer \in Buffers, hasLen \in BOOLEAN : GetDiagRec(h, n, buffer, hasLen)
    \/ \E handles \in SUBSET Handles, buffer \in Buffers : SQLError(handles, buffer)

DiagSpec == DiagInit /\ [][DiagNext]_diagVars

(* The answers there are. *)
AnswerTypes ==
    [call : {"NONE", "OTHER", "FIELD", "REC", "SQLERROR"}, handle : Arguments,
     code : SqlResults \cup {"INVALID_HANDLE"}, whole : BOOLEAN]

(***************************************************************************)
(* The states type-correct code can be in.                                 *)
(***************************************************************************)
DiagTypeOK ==
    /\ header \in [Handles -> SqlResults]
    /\ records \in [Handles -> RecordLists]
    /\ given \in [Handles -> Seq(1..MaxRecords)]
    /\ answer \in AnswerTypes

(* SQLError returns the records of a call one after the other, from the    *)
(* first on and none twice, whatever reads them in between and whichever   *)
(* handles are read in turns (GetLastNonRetrieved, MarkRetrieved).         *)
ErrorsInOrder ==
    \A h \in Handles : given[h] = [k \in 1..Len(given[h]) |-> k]

(* When SQLError has no more data, it has returned every record.           *)
NoDataMeansAllGiven ==
    answer.call = "SQLERROR" /\ answer.code = "NO_DATA"
        => Len(given[answer.handle]) = Len(records[answer.handle])

(* SQLGetDiagRec reports a message that it could not copy in full as       *)
(* SQL_SUCCESS only if the message is too long for an SQLSMALLINT to hold  *)
(* its length and the null after it; a shorter one, all of whose           *)
(* characters can be converted, is never cut silently.                     *)
TruncationIsTold ==
    answer.call = "REC" /\ answer.code = "SUCCESS" /\ ~answer.whole
        => \E n \in 1..Len(records[answer.handle]) :
               records[answer.handle][n].size >= MaxSmall

(* A message that does not fit is reported as cut, and every call leaves   *)
(* handles and answer type-correct.                                        *)
TruncationIsToldAlways == DiagTypeOK /\ TruncationIsTold
=============================================================================
