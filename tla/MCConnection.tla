--------------------------- MODULE MCConnection ---------------------------
(***************************************************************************)
(* Connection with one required setting and two data sources, below a      *)
(* driver manager and linked directly; the other constants are in the .cfg *)
(* files.                                                                  *)
(***************************************************************************)
EXTENDS Connection

CONSTANTS there, elsewhere

MCRequired == {"database"}

MCNames == {there, elsewhere}

(* A data source for one of the two databases, with a login timeout, and   *)
(* one that leaves the timeout open.                                       *)
MCDsns ==
    {[s \in {"database", LoginTimeout} |-> IF s = "database" THEN there ELSE 0],
     [s \in {"database", LoginTimeout} |-> IF s = "database" THEN elsewhere ELSE Unset]}

(* Bound: an application that calls the driver itself uses one timeout. *)
OneTimeout == {config[LoginTimeout], timeoutSet} \subseteq {0, Unset}

MCNext == Next /\ (~managed => OneTimeout')

MCSpec == Init /\ [][MCNext]_vars

ManagedInit == Init /\ managed = TRUE

ManagedSpec == ManagedInit /\ [][Next]_vars
=============================================================================
