-------------------------- MODULE ValueConversion --------------------------
(***************************************************************************)
(* The conversions between Java and JavaScript values at the boundary of   *)
(* the native wrapper (quickjs_wrapper.cpp 313-402 and 616-661): toJSValue *)
(* for what Java passes in, toJavaObject for what scripts hand out.        *)
(*                                                                         *)
(* The numbers keep their classes and their limits; the widths of int,     *)
(* of the integers a double holds exactly and of long are parameters.  A   *)
(* number is counted in halves, so that a double can have a fraction.      *)
(* Strings, booleans and objects take part as one value each: toJSValue    *)
(* and toJavaObject tell them apart by their class alone.                  *)
(***************************************************************************)
EXTENDS Integers

CONSTANTS
    Int32Max,   \* the greatest int                     (2^31 - 1)
    SafeMax,    \* MAX_SAFE_INTEGER                     (2^53 - 1)
    Int64Max,   \* the greatest long                    (2^63 - 1)
    DoubleMax   \* bound: the greatest double considered

ASSUME WidthAssumption ==
    /\ Int32Max \in Nat /\ SafeMax \in Nat /\ Int64Max \in Nat /\ DoubleMax \in Nat
    /\ 0 < Int32Max /\ Int32Max < SafeMax /\ SafeMax < Int64Max
    /\ Int64Max < DoubleMax

Int32 == -(Int32Max + 1) .. Int32Max
Int64 == -(Int64Max + 1) .. Int64Max
Safe  == -SafeMax .. SafeMax

(* The doubles: a fraction only while the format has a bit for it, and     *)
(* beyond SafeMax every other integer.                                     *)
DoubleHalf == {h \in -(2 * DoubleMax) .. 2 * DoubleMax :
                  \/ h \in -(2 * SafeMax) .. 2 * SafeMax
                  \/ h % 4 = 0}

Special == {"nan", "infinity", "negativeInfinity", "negativeZero"}

Number(tag, half) == [tag |-> tag, kind |-> "finite", half |-> half]
NoNumber(tag)     == [tag |-> tag, kind |-> "none", half |-> 0]
SpecialOf(tag, k) == [tag |-> tag, kind |-> k, half |-> 0]

JavaNumber ==
    {Number("Integer", 2 * i) : i \in Int32}
        \cup {Number("Long", 2 * l) : l \in Int64}
        \cup {Number("Double", h) : h \in DoubleHalf}
        \cup {SpecialOf("Double", k) : k \in Special}

JavaOther == {NoNumber(c) : c \in {"null", "String", "Boolean", "JSObject",
                                   "JSCallFunction", "Unsupported"}}

JavaValue == JavaNumber \cup JavaOther

(* The numbers of a script.  An int has the tag INT or, where the engine   *)
(* did not look for it, FLOAT64.  BigInts go beyond 64 bits.               *)
JSNumber ==
    {Number("INT", 2 * i) : i \in Int32}
        \cup {Number("FLOAT64", h) : h \in DoubleHalf}
        \cup {SpecialOf("FLOAT64", k) : k \in Special}
        \cup {Number("BIG_INT", 2 * i) : i \in -DoubleMax .. DoubleMax}

---------------------------------------------------------------------------
(* JS_NewFloat64 compares the bits of d and (double)(int32_t)d, so -0 is   *)
(* not taken for 0, nor a number out of range for what the cast gives.     *)
JS_NewFloat64(v) ==
    IF v.kind = "finite" /\ \E i \in Int32 : v.half = 2 * i
    THEN Number("INT", v.half)
    ELSE [v EXCEPT !.tag = "FLOAT64"]

(* The double next to an integer: beyond SafeMax only even ones have one.   *)
ToDouble(l) == IF l \in Safe THEN 2 * l ELSE 4 * (l \div 2)

JS_NewInt64(l) ==
    IF l \in Int32 THEN Number("INT", 2 * l) ELSE Number("FLOAT64", ToDouble(l))

(* Fault: the test for MAX_SAFE_INTEGER is made on the positive side only. *)
LongToJS_Positive(v) ==
    IF v.half > 2 * SafeMax THEN Number("BIG_INT", v.half)
                            ELSE JS_NewInt64(v.half \div 2)

(* Fault: every long that is not an int becomes a BigInt.                  *)
LongToJS_Int(v) ==
    IF v.half \div 2 \in Int32 THEN Number("INT", v.half) ELSE Number("BIG_INT", v.half)

(* A Long becomes a number while every integer around it is one, and a     *)
(* BigInt beyond.                                                          *)
LongToJS(v) ==
    IF v.half > 2 * SafeMax \/ v.half < -(2 * SafeMax)
    THEN Number("BIG_INT", v.half)
    ELSE JS_NewInt64(v.half \div 2)

(* For an unsupported class IllegalArgumentException becomes pending in    *)
(* the JNI environment, and the JSValue is JS_EXCEPTION.                   *)
toJSValue(v) ==
    CASE v.tag = "null"           -> NoNumber("UNDEFINED")
      [] v.tag = "String"         -> NoNumber("STRING")
      [] v.tag = "Double"         -> JS_NewFloat64(v)
      [] v.tag = "Integer"        -> Number("INT", v.half)
      [] v.tag = "Long"           -> LongToJS(v)
      [] v.tag = "Boolean"        -> NoNumber("BOOL")
      [] v.tag = "JSObject"       -> NoNumber("OBJECT")
      [] v.tag = "JSCallFunction" -> NoNumber("OBJECT")
      [] OTHER                    -> NoNumber("EXCEPTION")

(* JS_ToBigInt64 takes the low 64 bits.                                    *)
Wrap64(i) == ((i + Int64Max + 1) % (2 * (Int64Max + 1))) - (Int64Max + 1)

(* floor(d) == d                                                           *)
IsInteger(v) ==
    \/ v.kind = "finite" /\ v.half % 2 = 0
    \/ v.kind \in {"infinity", "negativeInfinity", "negativeZero"}

(* static_cast<jlong>(d).  Out of range it is undefined: compilers give    *)
(* the least long (cvttsd2si) or the limit that is nearer.                 *)
CastToLong(v) ==
    CASE v.kind = "negativeZero" -> {0}
      [] v.kind = "finite" /\ v.half \div 2 \in Int64 -> {v.half \div 2}
      [] OTHER -> {-(Int64Max + 1), Int64Max}

(* Fault: every number of tag FLOAT64 becomes a Double.                    *)
FloatToJava_Double(v) == {[v EXCEPT !.tag = "Double"]}

FloatToJava(v) ==
    IF IsInteger(v) THEN {Number("Long", 2 * l) : l \in CastToLong(v)}
                    ELSE {[v EXCEPT !.tag = "Double"]}

(* The Java values that toJavaObject may give for a JSValue.               *)
toJavaObject(v) ==
    CASE v.tag = "STRING"  -> {NoNumber("String")}
      [] v.tag = "BOOL"    -> {NoNumber("Boolean")}
      [] v.tag = "INT"     -> {Number("Integer", v.half)}
      [] v.tag = "BIG_INT" -> {Number("Long", 2 * Wrap64(v.half \div 2))}
      [] v.tag = "FLOAT64" -> FloatToJava(v)
      [] v.tag = "OBJECT"  -> {NoNumber("JSObject")}
      [] OTHER             -> {NoNumber("null")}

=============================================================================
