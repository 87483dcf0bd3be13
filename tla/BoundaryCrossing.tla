-------------------------- MODULE BoundaryCrossing --------------------------
(***************************************************************************)
(* A number on its way between Java and a script: as an argument of call,  *)
(* a property that is set, or the result of a callback it goes in through  *)
(* toJSValue; as a result, a property that is read, or the argument of a   *)
(* callback it comes out through toJavaObject.  A client that keeps values *)
(* in script objects sends the same number across many times.              *)
(***************************************************************************)
EXTENDS ValueConversion

VARIABLES
    side,       \* "java" or "js": where the number is
    value,      \* what it is there
    origin,     \* history: what it was at the start
    crossings   \* history: how often it came to Java, up to two

crossingVars == <<side, value, origin, crossings>>

CrossingTypeOK ==
    /\ side \in {"java", "js"}
    /\ value \in IF side = "java" THEN JavaNumber ELSE JSNumber
    /\ origin \in JavaNumber \cup JSNumber
    /\ crossings \in 0 .. 2

CrossingInit ==
    /\ \/ side = "java" /\ value \in JavaNumber
       \/ side = "js"   /\ value \in JSNumber
    /\ origin = value
    /\ crossings = 0

PassToScript ==
    /\ side = "java"
    /\ side' = "js"
    /\ value' = toJSValue(value)
    /\ UNCHANGED <<origin, crossings>>

HandToJava ==
    /\ side = "js"
    /\ side' = "java"
    /\ value' \in toJavaObject(value)
    /\ crossings' = IF crossings = 2 THEN 2 ELSE crossings + 1
    /\ UNCHANGED origin

CrossingNext == PassToScript \/ HandToJava

CrossingSpec == CrossingInit /\ [][CrossingNext]_crossingVars

---------------------------------------------------------------------------
(* What the cast to jlong in toJavaObject, or the cut to 64 bits, loses: a *)
(* double that is an integer but no long (the infinities are), and a       *)
(* BigInt of more than 64 bits.                                            *)
OutOfRange(v) ==
    \/ v.kind \in {"infinity", "negativeInfinity"}
    \/ v.kind = "finite" /\ v.half % 2 = 0 /\ v.half \div 2 \notin Int64

(* The number stays the same however often and in whatever roles it        *)
(* crosses, for every int, long, double and BigInt within the range of     *)
(* long: the class may change, the number may not.  (-0 becomes 0.)        *)
NumberSurvives ==
    \/ value.kind = origin.kind /\ value.half = origin.half
    \/ OutOfRange(origin)
    \/ origin.kind = "negativeZero" /\ value = Number(value.tag, 0)

(* The class in which a number arrives in Java depends on the number and   *)
(* not on the class it was sent in: Integer if it fits, Double if it has a *)
(* fraction or is NaN, Long otherwise; a caller that casts the result      *)
(* relies on it.  The exceptions are numbers that a script made: a BigInt  *)
(* or a FLOAT64 that would fit an int arrives as a Long the first time.    *)
ClassByNumber ==
    side = "java" /\ crossings > 0 =>
        \/ value.tag = IF ~IsInteger(value) THEN "Double"
                       ELSE IF value.half \div 2 \in Int32 THEN "Integer"
                       ELSE "Long"
        \/ crossings = 1 /\ origin.tag \in {"BIG_INT", "FLOAT64"} /\ value.tag = "Long"
        \/ crossings = 1 /\ origin.kind = "negativeZero" /\ value.tag = "Long"

(* A value that a script gets back from Java is still of the type it was   *)
(* for the script, number or BigInt, unless it is an integer that changes  *)
(* sides at SafeMax: a number beyond comes back as a BigInt, which no      *)
(* longer mixes with numbers, and a BigInt below as a number.              *)
TypeofKept ==
    side = "js" /\ origin.tag \in {"INT", "FLOAT64", "BIG_INT"} =>
        \/ (value.tag = "BIG_INT") = (origin.tag = "BIG_INT")
        \/ origin.tag = "FLOAT64" /\ (OutOfRange(origin) \/ origin.half \div 2 \notin Safe)
        \/ origin.tag = "BIG_INT" /\ (OutOfRange(origin) \/ origin.half \div 2 \in Safe)
=============================================================================
