-------------------------------- MODULE Text --------------------------------
(***************************************************************************)
(* Texts in buffers of the application (src/utility.cpp).  A text is its   *)
(* length in characters, each of them one byte in UTF-8; a buffer is None  *)
(* or its length.                                                          *)
(***************************************************************************)
EXTENDS Types

(* A length of 16 bits, and what becomes of it as a size_t. *)
Int16(n) == ((n + 32768) % 65536) - 32768

SizeT(n) == IF n < 0 THEN 2147483647 + n ELSE n

Least(a, b) == IF a < b THEN a ELSE b

CopyUtf8StringToWcharString(length, buffer, bytes) ==
    LET room  == bytes \div WCharSize - 1
        chars == IF buffer = None THEN length ELSE Least(length, room)
    IN  IF buffer # None /\ bytes = 0 THEN [chars |-> 0, truncated |-> FALSE]
        ELSE [chars |-> chars, truncated |-> chars < length]

(* With the length of the buffer in characters, or in bytes; the length    *)
(* returned is in the same unit.                                           *)
CopyStringToBuffer(length, buffer, size, isLenInBytes) ==
    LET copied == CopyUtf8StringToWcharString(length, buffer,
                      IF isLenInBytes THEN size ELSE size * WCharSize)
    IN  [written |-> copied.chars, truncated |-> copied.truncated,
         length |-> IF isLenInBytes THEN copied.chars * WCharSize ELSE copied.chars]
=============================================================================
