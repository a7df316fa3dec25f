--------------------------- MODULE ForwardCursor ---------------------------
(***************************************************************************)
(* What a statement promises its application about result sets: a          *)
(* forward-only cursor (SQLFetchScroll takes SQL_FETCH_NEXT alone).  It    *)
(* opens on a result of some size, delivers rows one after the other and   *)
(* never one twice, and closing it discards the rest.                      *)
(***************************************************************************)
EXTENDS Naturals

CONSTANT MaxRows

VARIABLES
    open,        \* there is a result set to fetch from
    size,        \* the rows it has
    delivered    \* the rows the application has been given

cursor == <<open, size, delivered>>

Init == open = FALSE /\ size = 0 /\ delivered = 0

Open(n) == open' = TRUE /\ size' = n /\ delivered' = 0

Deliver ==
    /\ open
    /\ delivered < size
    /\ delivered' = delivered + 1
    /\ UNCHANGED <<open, size>>

Close == open' = FALSE /\ size' = 0 /\ delivered' = 0

Next == (\E n \in 0..MaxRows : Open(n)) \/ Deliver \/ Close

Spec == Init /\ [][Next]_cursor
=============================================================================
