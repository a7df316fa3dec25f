-------------------------------- MODULE Jni --------------------------------
(***************************************************************************)
(* A call of JniContext on a Java object (src/jni/java.cpp).  All of them  *)
(* are made alike: the object must be there, the thread is attached, the   *)
(* method is called, and ExceptionCheck turns a Java exception into an     *)
(* error.  They differ in what becomes of the variable for the result.     *)
(***************************************************************************)
EXTENDS Integers, Sequences

(* boost::optional, and a SharedPointer that is valid or not: one value or *)
(* none.                                                                   *)
None == <<>>

Some(v) == <<v>>

(* What can come of Attach and of the Java method. *)
Outcomes == {"DETACHED", "THROWS", "NULL", "VALUE"}

(* Attach, ExceptionCheck: the code a call leaves in errInfo. *)
Attached(outcome) == outcome # "DETACHED"

ExceptionCheck(outcome) == IF outcome = "THROWS" THEN "GENERIC" ELSE "SUCCESS"

CallCode(object, outcome) ==
    CASE object = None      -> "GENERIC"
      [] ~Attached(outcome) -> "JVM_ATTACH"
      [] OTHER              -> ExceptionCheck(outcome)

(* The methods that return an object: without one, or with an exception,   *)
(* the variable is set to nothing, and a null is no error.                 *)
CallObject(object, held, outcome, value) ==
    [code |-> CallCode(object, outcome),
     value |-> IF object = None \/ ~Attached(outcome) THEN held
               ELSE IF outcome = "VALUE" THEN Some(value) ELSE None]

(* ResultSetGetString, CallStringMethod: nothing unless all goes well. *)
CallString(object, held, outcome, value) ==
    [code |-> CallCode(object, outcome),
     value |-> IF object = None THEN held
               ELSE IF outcome = "VALUE" THEN value ELSE None]

(* CallBooleanMethod, CallIntMethod, ResultSetNext, ListSize: the variable *)
(* keeps what it held when the call fails.                                 *)
CallPlain(object, held, outcome, value) ==
    [code |-> CallCode(object, outcome),
     value |-> IF CallCode(object, outcome) = "SUCCESS" THEN value ELSE held]

(* ResultSetWasNull, into a variable that is not initialised. *)
WasNull(outcome, isNull) ==
    IF Attached(outcome) /\ outcome # "THROWS" THEN {isNull} ELSE BOOLEAN

(* ResultSetGetInt: Java gives zero for a null, and ResultSetWasNull tells *)
(* which it is.  The results it can leave.                                 *)
GetInt(object, held, outcome, nullOutcome, value) ==
    IF object = None THEN {held}
    ELSE IF CallCode(object, outcome) # "SUCCESS" THEN {None}
    ELSE {IF wasNull THEN None ELSE IF value = None THEN Some(0) ELSE value :
            wasNull \in WasNull(nullOutcome, value = None)}

(* ResultSet::GetSmallInt, which leaves the variable alone on a null. *)
GetSmallInt(object, held, outcome, nullOutcome, value) ==
    {IF v = None THEN held ELSE v :
        v \in GetInt(object, None, outcome, nullOutcome, value)}
=============================================================================
