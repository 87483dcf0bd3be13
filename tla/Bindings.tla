------------------------------ MODULE Bindings ------------------------------
(***************************************************************************)
(* The engine scope of J2qjsScriptContext: a map of Java values, and the   *)
(* global object of the script, which setAttribute and setBindings write   *)
(* as well (J2qjsScriptContext.java 75-171).  Nothing is synchronized: the *)
(* put into the map and the native setProperty on the global object are    *)
(* separate steps, and other threads come in between.                      *)
(*                                                                         *)
(* The Bindings object the engine scope was given stays the client's: it   *)
(* may put into it directly, which is also all that ScriptEngine.put does. *)
(* The global object belongs to the scripts: it has names of its own from  *)
(* the start, and a script may define a name so that setProperty does not  *)
(* change what it stands for.  GLOBAL_SCOPE is a second map that no script *)
(* ever sees; it is left out.                                              *)
(***************************************************************************)
EXTENDS ValueConversion, FiniteSets

CONSTANTS
    Name,       \* attribute names
    Thread,     \* threads of the client
    Value,      \* the Java values the client binds to a name
    Missing     \* no value: the name is not there

ASSUME BindingsAssumption ==
    /\ Value \subseteq JavaValue
    /\ Missing \notin JavaValue

VARIABLES
    engineScope,    \* the map behind the Bindings of ENGINE_SCOPE
    globalObj,      \* what a script reads under a name
    fixed,          \* the names that a write to the global object leaves as they are
    op,             \* what each thread is doing
    lost            \* history: the names whose mirror was given up

vars == <<engineScope, globalObj, fixed, op, lost>>

Map      == [Name -> Value \cup {Missing}]
Empty    == [n \in Name |-> Missing]
Bound(f) == {n \in Name : f[n] # Missing}

(* A call in progress.  rest: what it has still to write to the global     *)
(* object; raced: the names of rest that somebody else wrote meanwhile;    *)
(* same: the map that setBindings iterates over is still the engine scope; *)
(* broken: its iterator will throw ConcurrentModificationException.        *)
OpState == [kind : {"idle", "setAttribute", "setBindings"}, rest : Map,
            raced : SUBSET Name, same : BOOLEAN, broken : BOOLEAN]

Op(kind, rest, raced) ==
    [kind |-> kind, rest |-> rest, raced |-> raced,
     same |-> kind = "setBindings", broken |-> FALSE]

Idle == Op("idle", Empty, {})

Rejected(v) == toJSValue(v).tag = "EXCEPTION"

(* What a script can give a name: a value of its own, or none at all.      *)
ScriptValue == {toJSValue(v) : v \in {x \in Value : ~Rejected(x)}} \cup {Missing}

(* The map holds Java values, the global object what they were converted   *)
(* to, and each thread is in one call at most.                             *)
TypeOK ==
    /\ engineScope \in Map
    /\ globalObj \in [Name -> {toJSValue(v) : v \in Value} \cup {Missing}]
    /\ fixed \subseteq Name
    /\ op \in [Thread -> OpState]
    /\ lost \subseteq Name

(* The global object has its built-in names, some of which are read-only   *)
(* (NaN, undefined); the map has none of them.                             *)
Init ==
    /\ engineScope = Empty
    /\ globalObj \in [Name -> ScriptValue]
    /\ fixed \in SUBSET Bound(globalObj)
    /\ op = [t \in Thread |-> Idle]
    /\ lost = Bound(globalObj)

Pending(t) == UNION {Bound(op[u].rest) : u \in Thread \ {t}}

Race(o, N) == [o EXCEPT !.raced = @ \cup (Bound(o.rest) \cap N)]

(* How a put of v under n into the map, or a removal (v is Missing), shows *)
(* in a call in progress.  A loop over the same map comes to the new value;*)
(* a key more or less makes its iterator fail at the next entry.           *)
SeePut(o, n, v) ==
    IF o.same
    THEN [Race(o, {n}) EXCEPT
             !.rest[n] = IF @ # Missing /\ v # Missing THEN v ELSE @,
             !.broken = @ \/ (engineScope[n] = Missing) # (v = Missing)]
    ELSE Race(o, {n})

Put(n, v) == engineScope' = [engineScope EXCEPT ![n] = v]

---------------------------------------------------------------------------
(* Fault: what is mirrored is the value that put returns, the old one.     *)
SetAttribute_Old(t, n, v) ==
    /\ op[t].kind = "idle"
    /\ Put(n, v)
    /\ op' = [u \in Thread |->
                IF u # t THEN SeePut(op[u], n, v)
                ELSE Op("setAttribute",
                        [Empty EXCEPT ![n] = IF engineScope[n] = Missing
                                             THEN v ELSE engineScope[n]],
                        {n} \cap Pending(t))]
    /\ UNCHANGED <<globalObj, fixed, lost>>

(* setAttribute(n, v, ENGINE_SCOPE) up to engineScope.put.                 *)
SetAttribute(t, n, v) ==
    /\ op[t].kind = "idle"
    /\ Put(n, v)
    /\ op' = [u \in Thread |->
                IF u # t THEN SeePut(op[u], n, v)
                ELSE Op("setAttribute", [Empty EXCEPT ![n] = v], {n} \cap Pending(t))]
    /\ UNCHANGED <<globalObj, fixed, lost>>

(* setProperty on the global object.  An unsupported value is stored as    *)
(* JS_EXCEPTION before the Java exception is seen.  Nobody looks at what   *)
(* JS_SetPropertyStr returns: a name that is fixed stays as it is, and     *)
(* Java is not told.                                                       *)
WriteGlobal(t, n) ==
    LET v == op[t].rest[n]
    IN  /\ globalObj' = [globalObj EXCEPT ![n] = IF n \in fixed THEN @ ELSE toJSValue(v)]
        /\ lost' = IF n \in op[t].raced \cup fixed \/ Rejected(v) THEN lost \cup {n}
                                                               ELSE lost \ {n}
        /\ UNCHANGED fixed

(* The rest of setAttribute: getGlobalObject, setProperty, freeValue.      *)
SetAttributeMirror(t, n) ==
    /\ op[t].kind = "setAttribute" /\ n \in Bound(op[t].rest)
    /\ WriteGlobal(t, n)
    /\ op' = [u \in Thread |-> IF u = t THEN Idle ELSE Race(op[u], {n})]
    /\ UNCHANGED engineScope

(* setBindings(b, ENGINE_SCOPE): the scope is replaced at once.  What the  *)
(* old one had and the new one has not stays on the global object.         *)
SetBindings(t, b) ==
    /\ op[t].kind = "idle"
    /\ engineScope' = b
    /\ lost' = lost \cup Bound(engineScope) \cup Bound(b)
    /\ op' = [u \in Thread |->
                IF u # t THEN [Race(op[u], Name) EXCEPT !.same = FALSE]
                ELSE IF b = Empty THEN Idle
                ELSE Op("setBindings", b, Bound(b) \cap Pending(t))]
    /\ UNCHANGED <<globalObj, fixed>>

(* One turn of its loop, in the order of a HashMap.  The exception that a  *)
(* rejected value raises ends the loop.                                    *)
SetBindingsEntry(t, n) ==
    /\ op[t].kind = "setBindings" /\ n \in Bound(op[t].rest)
    /\ ~op[t].broken
    /\ WriteGlobal(t, n)
    /\ LET rest == [op[t].rest EXCEPT ![n] = Missing]
       IN  op' = [u \in Thread |->
                    IF u # t THEN Race(op[u], {n})
                    ELSE IF rest = Empty \/ Rejected(op[t].rest[n]) THEN Idle
                    ELSE [op[u] EXCEPT !.rest = rest, !.raced = @ \ {n}]]
    /\ UNCHANGED engineScope

(* ConcurrentModificationException at the next entry.                      *)
SetBindingsBroken(t) ==
    /\ op[t].kind = "setBindings" /\ op[t].broken
    /\ op' = [op EXCEPT ![t] = Idle]
    /\ UNCHANGED <<engineScope, globalObj, fixed, lost>>

(* removeAttribute(n, ENGINE_SCOPE): the property of the global object     *)
(* stays.                                                                  *)
RemoveAttribute(t, n) ==
    /\ op[t].kind = "idle"
    /\ Put(n, Missing)
    /\ op' = [u \in Thread |-> SeePut(op[u], n, Missing)]
    /\ lost' = lost \cup {n}
    /\ UNCHANGED <<globalObj, fixed>>

(* ScriptEngine.put, or a put on the Bindings of the engine scope.         *)
ClientPut(t, n, v) ==
    /\ op[t].kind = "idle"
    /\ Put(n, v)
    /\ op' = [u \in Thread |-> SeePut(op[u], n, v)]
    /\ lost' = lost \cup {n}
    /\ UNCHANGED <<globalObj, fixed>>

(* A script that a thread evaluates gives a name another meaning: it       *)
(* assigns to it, deletes it, or defines it, and then perhaps so that a    *)
(* write to the global object does not change it (fix): as read-only or    *)
(* with an accessor, or by a let, const or class at its top level, which   *)
(* hides the property; or it freezes the global object.  Which names the   *)
(* engine does not let it define again is left open.                       *)
ScriptDefine(t, n, w, fix) ==
    /\ op[t].kind = "idle"
    /\ globalObj' = [globalObj EXCEPT ![n] = w]
    /\ fixed' = IF fix THEN fixed \cup {n} ELSE fixed \ {n}
    /\ op' = [u \in Thread |-> Race(op[u], {n})]
    /\ lost' = lost \cup {n}
    /\ UNCHANGED engineScope

Next ==
    \E t \in Thread :
        \/ \E n \in Name, v \in Value : SetAttribute(t, n, v) \/ ClientPut(t, n, v)
        \/ \E n \in Name, w \in ScriptValue, fix \in BOOLEAN : ScriptDefine(t, n, w, fix)
        \/ \E n \in Name : \/ SetAttributeMirror(t, n)
                           \/ SetBindingsEntry(t, n)
                           \/ RemoveAttribute(t, n)
        \/ \E b \in Map : SetBindings(t, b)
        \/ SetBindingsBroken(t)

Spec == Init /\ [][Next]_vars

---------------------------------------------------------------------------
(* What a script reads under a name is what getAttribute gives Java, as    *)
(* converted by toJSValue, unless the name was lost: built in, removed,    *)
(* put into the map directly, given another meaning by a script, rejected  *)
(* by toJSValue, dropped with the Bindings that had it, or written by two  *)
(* calls at the same time.  A completed setAttribute that nobody raced     *)
(* with brings a lost name back -- but not a name that the engine or a     *)
(* script has fixed: there the write fails and nobody is told.             *)
Mirrored ==
    \A n \in Name \ lost :
        \/ \E t \in Thread : n \in Bound(op[t].rest)
        \/ engineScope[n] = Missing /\ globalObj[n] = Missing
        \/ /\ engineScope[n] # Missing
           /\ ~Rejected(engineScope[n])
           /\ globalObj[n] = toJSValue(engineScope[n])
=============================================================================
