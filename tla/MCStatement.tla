---------------------------- MODULE MCStatement ----------------------------
(* Statement on small instances; the other constants are in the .cfg files.*)
EXTENDS Statement

(* A character buffer to be filled at execution with one byte, one of      *)
(* unknown length (SQL_DATA_AT_EXEC), and a number given in advance.       *)
MCShapes ==
    {[dae |-> TRUE, append |-> TRUE, size |-> 1],
     [dae |-> TRUE, append |-> TRUE, size |-> 0],
     [dae |-> FALSE, append |-> FALSE, size |-> 1]}

(* Statement::FetchRow returns whatever its rows do, and an application    *)
(* that goes on fetching gets to the end of the result.                    *)
FetchingEnds == FetchReturns /\ FetchingDrainsResult
=============================================================================
