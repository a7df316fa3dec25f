------------------------------- MODULE Stream -------------------------------
(***************************************************************************)
(* The streams of the client library over a block of memory                *)
(* (src/impl/interop/interop_output_stream.cpp, interop_input_stream.cpp,  *)
(* interop_memory.cpp), as operators on records.                           *)
(*                                                                         *)
(* Memory is a set of cells: cells maps the position of the first byte of  *)
(* a value to its width and the value.  A value written over others        *)
(* removes those it overlaps; a read that does not hit a cell of its width *)
(* gets Garbage.  An exception is the flag err of an input stream, and the *)
(* value of the last read is its field val.                                *)
(***************************************************************************)
EXTENDS Integers, Sequences

Garbage == -9

(* InteropUnpooledMemory of the capacity, and a stream on it. *)
OutputStream(capacity) ==
    [cells |-> <<>>, pos |-> 0, cap |-> capacity, memCap |-> capacity, len |-> 0]

(* InteropUnpooledMemory::Reallocate. *)
Reallocate(s, cap) ==
    [s EXCEPT !.memCap = IF 2 * @ > cap THEN 2 * @ ELSE cap]

EnsureCapacity(s, reqCap) ==
    LET newCap == IF 2 * s.cap < reqCap THEN reqCap ELSE 2 * s.cap
    IN IF reqCap > s.cap THEN [Reallocate(s, newCap) EXCEPT !.cap = newCap] ELSE s

(* The bytes of a value go over whatever was there. *)
Store(cells, p, w, v) ==
    LET kept == {q \in DOMAIN cells : q + cells[q].w <= p \/ q >= p + w}
    IN [q \in kept \cup {p} |-> IF q = p THEN [w |-> w, v |-> v] ELSE cells[q]]

(* WriteInt8, WriteInt16, WriteInt32 and WriteInt64 at a position. *)
WriteAt(s, p, w, v) ==
    LET e == EnsureCapacity(s, p + w)
    IN [e EXCEPT !.cells = Store(@, p, w, v)]

(* The writes at the end: of integers, of a bool, a float or a double      *)
(* through its bits, and of arrays, whose bytes are one value here.        *)
Write(s, w, v) ==
    IF w = 0 THEN s ELSE [WriteAt(s, s.pos, w, v) EXCEPT !.pos = @ + w]

OutPosition(s, p) == [EnsureCapacity(s, p) EXCEPT !.pos = p]

Reserve(s, n) == OutPosition(s, s.pos + n)

Synchronize(s) == [s EXCEPT !.len = s.pos]

(* InteropInputStream on the memory. *)
InputStream(cells, len) ==
    [cells |-> cells, len |-> len, pos |-> 0, val |-> 0, err |-> FALSE]

Throw(i) == [i EXCEPT !.err = TRUE]

EnsureEnoughData(i, cnt) == i.len - i.pos >= cnt

ValueAt(i, p, w) ==
    IF p \in DOMAIN i.cells /\ i.cells[p].w = w THEN i.cells[p].v ELSE Garbage

(* The reads at a position, which leave the position of the stream. *)
ReadAt(i, p, w) ==
    IF p + w - i.pos > 0 /\ ~EnsureEnoughData(i, p + w - i.pos) THEN Throw(i)
    ELSE [i EXCEPT !.val = ValueAt(i, p, w)]

(* The reads that move the position: integers, and the arrays. *)
Read(i, w) ==
    IF i.err \/ w = 0 THEN i
    ELSE IF ~EnsureEnoughData(i, w) THEN Throw(i)
    ELSE [i EXCEPT !.val = ValueAt(i, i.pos, w), !.pos = @ + w]

InPosition(i, p) ==
    IF i.err THEN i
    ELSE IF p <= i.len THEN [i EXCEPT !.pos = p] ELSE Throw(i)

Ignore(i, cnt) == [i EXCEPT !.pos = @ + cnt]

(* InteropStreamPositionGuard: what an expression read, at the old position. *)
Guarded(before, after) == [after EXCEPT !.pos = before.pos]

(* A run of values of the given widths. *)
WriteValues(s, widths, values) ==
    LET t[n \in 0 .. Len(widths)] ==
          IF n = 0 THEN s ELSE Write(t[n - 1], widths[n], values[n])
    IN t[Len(widths)]

(* Reads such a run; the values are those at the n-th position.  *)
ReadValues(i, widths) ==
    LET t[n \in 0 .. Len(widths)] == IF n = 0 THEN i ELSE Read(t[n - 1], widths[n])
    IN [in |-> t[Len(widths)], x |-> [n \in 1 .. Len(widths) |-> t[n].val]]
=============================================================================
