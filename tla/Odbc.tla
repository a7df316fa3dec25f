------------------------------- MODULE Odbc -------------------------------
(***************************************************************************)
(* The vocabulary the driver's components share: operation results, row    *)
(* statuses, the SQLSTATEs of the status records they add, and the two     *)
(* conversions between them.  Messages are left out; a status record is    *)
(* its SQLSTATE.                                                           *)
(***************************************************************************)

(* SqlResult::Type.  TERMINATED is not one of its values: it stands for a  *)
(* call that never returns, because a C++ exception leaves the driver or a *)
(* null pointer is dereferenced.                                           *)
SqlResults ==
    {"SUCCESS", "SUCCESS_WITH_INFO", "ERROR", "NO_DATA", "NEED_DATA"}

CallResults == SqlResults \cup {"TERMINATED"}

SqlStates ==
    {"01004", "01S00", "01S01", "01S02", "01S07", "07009", "08001", "08002", "08003",
     "22002", "22026", "24000", "42000", "HY000", "HY003", "HY008", "HY009", "HY010",
     "HY024", "HY090", "HY092", "HY097", "HY105", "HYC00"}

RowStatuses == {"ROW_SUCCESS", "ROW_SUCCESS_WITH_INFO", "ROW_ERROR", "ROW_NOROW"}

(* Statement::SqlResultToRowResult *)
SqlResultToRowResult(res) ==
    CASE res = "NO_DATA"           -> "ROW_NOROW"
      [] res = "SUCCESS"           -> "ROW_SUCCESS"
      [] res = "SUCCESS_WITH_INFO" -> "ROW_SUCCESS_WITH_INFO"
      [] OTHER                     -> "ROW_ERROR"

(* app::ConversionResult::Type: the outcomes of converting one value into  *)
(* an application buffer.                                                  *)
ConversionResults ==
    {"CONV_SUCCESS", "CONV_NO_DATA", "VARLEN_TRUNCATED", "FRACTIONAL_TRUNCATED",
     "INDICATOR_NEEDED", "UNSUPPORTED", "FAILURE"}

(* DataQuery::ProcessConversionResult: the result it returns, and the      *)
(* status records it adds.                                                 *)
ProcessConversionResult(conv) ==
    CASE conv = "CONV_SUCCESS" -> "SUCCESS"
      [] conv = "CONV_NO_DATA" -> "NO_DATA"
      [] conv = "FAILURE"      -> "ERROR"
      [] OTHER                 -> "SUCCESS_WITH_INFO"

ConversionRecords(conv) ==
    CASE conv = "VARLEN_TRUNCATED"     -> {"01004"}
      [] conv = "FRACTIONAL_TRUNCATED" -> {"01S07"}
      [] conv = "INDICATOR_NEEDED"     -> {"22002"}
      [] conv = "UNSUPPORTED"          -> {"HYC00"}
      [] conv = "FAILURE"              -> {"01S01"}
      [] OTHER                         -> {}
=============================================================================
