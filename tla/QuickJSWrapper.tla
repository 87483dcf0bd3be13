--------------------------- MODULE QuickJSWrapper ---------------------------
(***************************************************************************)
(* QuickJSWrapper (src_c++/quickjs_wrapper.cpp) and the Java objects in    *)
(* front of it: which object a JSObject of the client still denotes, and   *)
(* who owns the references that keep it alive.                             *)
(*                                                                         *)
(* Every native method is synchronized on the Java wrapper, so one native  *)
(* call is one action and the threads of the client interleave between     *)
(* calls.  invokeFunction and invokeMethod (J2qjsScriptEngine) are several *)
(* native calls, so they are two actions.  A script that calls a Java      *)
(* callback gives control back to the client in the middle of a native     *)
(* call: JsFuncCall enters the callback and JsFuncReturn leaves it, and    *)
(* every other action between them is a nested call of the same thread.    *)
(*                                                                         *)
(* What happens after the program follows a pointer to freed memory is     *)
(* undefined and is not modelled: an action that takes a handle needs the  *)
(* address to be live.  The address may by then be that of another object. *)
(***************************************************************************)
EXTENDS QuickJSHeap

CONSTANTS
    Handle,      \* the JSObject references the Java client can keep
    Invocation,  \* the invokeFunction/invokeMethod calls in flight at a time
    MaxLost      \* bound: references to one object that the code may leak

ASSUME WrapperAssumption ==
    /\ IsFiniteSet(Handle) /\ IsFiniteSet(Invocation)
    /\ MaxLost \in Nat

VARIABLES
    values,  \* the keys of the map values: objects the wrapper retains once
    lost,    \* per object, references that no code will ever give back
    hnd,     \* the Java handles
    inv,     \* the invocations in flight
    depth,   \* how many callbacks into Java are active
    phase    \* the wrapper's life: "running", then the steps of ~QuickJSWrapper

vars == <<live, refCount, prop, root, values, lost, hnd, inv, depth, phase>>

Phase == {"running", "freeContext", "freeRuntime", "destroyed"}

(* Who keeps the object behind a handle alive: the map values, the frame   *)
(* of the callback it is an argument of, or the context.  Or nobody any    *)
(* more: "client" and "engine" say whose freeValue ended the retention in  *)
(* values, "expired" that the callback returned or the wrapper was         *)
(* destroyed.                                                              *)
Hold == {"none", "values", "frame", "context", "client", "engine", "expired"}

HandleState == [ptr : Value, hold : Hold, level : Frame, same : BOOLEAN]

(* fn: the JSFunction the call looked up.  owned: the receiver the finally *)
(* clause frees too (the global object, for invokeFunction).               *)
InvState == [fn : Value, owned : Value, level : Frame, same : BOOLEAN]

NoHandle == [ptr |-> NoPtr, hold |-> "none", level |-> 0, same |-> FALSE]
NoInv    == [fn |-> NoPtr, owned |-> NoPtr, level |-> 0, same |-> FALSE]

(* same: the memory at the address still is the object the handle was made *)
(* for.  It is what the program cannot see and what correctness is about.  *)
NewHandle(q, how, d) == [ptr |-> q, hold |-> how, level |-> d, same |-> TRUE]

(* The state of the wrapper has the right shape, counts never go negative. *)
TypeOK ==
    /\ HeapTypeOK
    /\ values \subseteq Obj
    /\ lost \in [Ptr -> 0 .. MaxLost]
    /\ hnd \in [Handle -> HandleState]
    /\ inv \in [Invocation -> InvState]
    /\ depth \in Frame
    /\ phase \in Phase

Init ==
    /\ HeapInit
    /\ values = {}
    /\ lost = [p \in Ptr |-> 0]
    /\ hnd = [h \in Handle |-> NoHandle]
    /\ inv = [i \in Invocation |-> NoInv]
    /\ depth = 0
    /\ phase = "running"

---------------------------------------------------------------------------
(* A native call can start: the wrapper exists and no cascade of frees is  *)
(* under way.                                                              *)
Idle == phase = "running" /\ ZeroRefCount = {}

(* The objects a running script can name: all that the global object, the  *)
(* arguments of the active callbacks and the objects in R lead to.         *)
Nameable(R) == Reach(R \cup {Global} \cup {root[d] : d \in 1 .. depth}) \ {Ctx}
ScriptObject == Nameable({})

Unused(h)  == hnd[h].ptr = NoPtr
Usable(h)  == hnd[h].ptr \in live
Fresh(q)   == q \in Obj \ live

(* Faults: a second reference is not given back; or none is ever kept.     *)
toJavaObject_KeepsBoth(rc, q) ==
    /\ values' = values \cup {q}
    /\ refCount' = rc

toJavaObject_KeepsNone(rc, q) ==
    /\ UNCHANGED values
    /\ refCount' = JS_FreeValue(rc, q)

(* toJavaObject for an object q the caller owns one reference to (counted  *)
(* in rc): the first one is kept in values, any other is given back.       *)
toJavaObject(rc, q) ==
    /\ values' = values \cup {q}
    /\ refCount' = IF q \in values THEN JS_FreeValue(rc, q) ELSE rc

(* Fault: the reference is given back without a look at the map.           *)
freeValue_Unchecked(rc, vals, p) == JS_FreeValue(rc, p)

(* freeValue: the counts once p has been dropped from the map vals.        *)
freeValue(rc, vals, p) == IF p \in vals THEN JS_FreeValue(rc, p) ELSE rc

(* The handles once the objects in P are no longer in values.              *)
Released(hs, P, who) ==
    [h \in Handle |-> IF hs[h].hold = "values" /\ hs[h].ptr \in P
                      THEN [hs[h] EXCEPT !.hold = who] ELSE hs[h]]

---------------------------------------------------------------------------
(* Native calls that return an object to Java.                             *)

(* evaluate, evaluateModule, execute: the result is an object of the heap. *)
Evaluate(h, q) ==
    /\ Idle /\ Unused(h)
    /\ toJavaObject(JS_DupValue(refCount, q), q)
    /\ hnd' = [hnd EXCEPT ![h] = NewHandle(q, "values", 0)]
    /\ UNCHANGED <<live, prop, root, lost, inv, depth, phase>>

(* parseJSON (createNewJSObject, createNewJSArray), or a script whose      *)
(* result is a new object.                                                 *)
EvaluateNew(h, q) ==
    /\ Idle /\ Unused(h)
    /\ Fresh(q)
    /\ live' = live \cup {q}
    /\ prop' = NewSlots(prop, q)
    /\ toJavaObject(JS_NewObject(refCount, q), q)
    /\ hnd' = [hnd EXCEPT ![h] = NewHandle(q, "values", 0)]
    /\ UNCHANGED <<root, lost, inv, depth, phase>>

(* A script that throws.  tryToTriggerOnError never frees what the onError *)
(* handler returns (q), nor the global object when both handlers are null. *)
EvaluateThrows(q) ==
    /\ Idle
    /\ lost[q] < MaxLost
    /\ refCount' = JS_DupValue(refCount, q)
    /\ lost' = [lost EXCEPT ![q] = @ + 1]
    /\ UNCHANGED <<live, prop, root, values, hnd, inv, depth, phase>>

(* getProperty of a JSObject, get of a JSArray.                            *)
GetProperty(o, n, h) ==
    /\ Idle /\ Usable(o) /\ Unused(h)
    /\ LET q == prop[<<hnd[o].ptr, n>>]
       IN  /\ q # NoPtr
           /\ toJavaObject(JS_DupValue(refCount, q), q)
           /\ hnd' = [hnd EXCEPT ![h] = NewHandle(q, "values", 0)]
    /\ UNCHANGED <<live, prop, root, lost, inv, depth, phase>>

(* getGlobalObject: the one handle that is made without being retained.    *)
GetGlobalObject(h) ==
    /\ Idle /\ Unused(h)
    /\ refCount' = JS_FreeValue(JS_DupValue(refCount, Global), Global)
    /\ hnd' = [hnd EXCEPT ![h] = NewHandle(Global, "context", 0)]
    /\ UNCHANGED <<live, prop, root, values, lost, inv, depth, phase>>

(* call: a function returns an object that its closure or the global       *)
(* object leads to.                                                        *)
Call(f, q, h) ==
    /\ Idle /\ Usable(f) /\ Unused(h)
    /\ q \in Nameable({hnd[f].ptr})
    /\ toJavaObject(JS_DupValue(refCount, q), q)
    /\ hnd' = [hnd EXCEPT ![h] = NewHandle(q, "values", 0)]
    /\ UNCHANGED <<live, prop, root, lost, inv, depth, phase>>

(* Fault: the arguments that freeArguments lists are never freed.          *)
CallWithCallback_NoFree(f, q, p, n, returned) ==
    /\ Idle /\ Usable(f)
    /\ Fresh(q)
    /\ live' = live \cup {q}
    /\ refCount' = IF p = NoPtr THEN JS_NewObject(refCount, q)
                   ELSE JS_SetPropertyRc(JS_DupValue(JS_NewObject(refCount, q), q), prop, p, n)
    /\ prop' = IF p = NoPtr THEN NewSlots(prop, q)
               ELSE JS_SetProperty(NewSlots(prop, q), p, n, q)
    /\ UNCHANGED <<root, values, lost, hnd, inv, depth, phase>>

(* call with a JSCallFunction argument: toJSValue makes a function q for   *)
(* it, the script stores it in p.n (or not: p = NoPtr), and the caller's   *)
(* reference is freed afterwards -- but only if the function returned      *)
(* normally: the exception path leaves the argument behind.                *)
CallWithCallback(f, q, p, n, returned) ==
    /\ Idle /\ Usable(f)
    /\ Fresh(q)
    /\ returned \/ lost[q] < MaxLost
    /\ live' = live \cup {q}
    /\ LET made   == JS_NewObject(refCount, q)
           stored == IF p = NoPtr THEN made
                     ELSE JS_SetPropertyRc(JS_DupValue(made, q), prop, p, n)
       IN  refCount' = IF returned THEN JS_FreeValue(stored, q) ELSE stored
    /\ prop' = IF p = NoPtr THEN NewSlots(prop, q)
               ELSE JS_SetProperty(NewSlots(prop, q), p, n, q)
    /\ lost' = IF returned THEN lost ELSE [lost EXCEPT ![q] = @ + 1]
    /\ UNCHANGED <<root, values, hnd, inv, depth, phase>>

---------------------------------------------------------------------------
(* Native calls that store into an object.                                 *)

(* setProperty or set with a JSObject (v is its address) or a primitive    *)
(* (v is NoPtr).  An object is duplicated: the slot owns its own reference. *)
SetProperty(o, n, v) ==
    /\ Idle /\ Usable(o)
    /\ v \in ({hnd[h].ptr : h \in Handle} \cap live) \cup {NoPtr}
    /\ prop' = JS_SetProperty(prop, hnd[o].ptr, n, v)
    /\ refCount' = JS_SetPropertyRc(JS_DupValue(refCount, v), prop, hnd[o].ptr, n)
    /\ UNCHANGED <<live, root, values, lost, hnd, inv, depth, phase>>

(* setProperty with a JSCallFunction: the slot takes over the new function. *)
SetPropertyCallback(o, n, q) ==
    /\ Idle /\ Usable(o)
    /\ Fresh(q)
    /\ live' = live \cup {q}
    /\ prop' = JS_SetProperty(NewSlots(prop, q), hnd[o].ptr, n, q)
    /\ refCount' = JS_SetPropertyRc(JS_NewObject(refCount, q), prop, hnd[o].ptr, n)
    /\ UNCHANGED <<root, values, lost, hnd, inv, depth, phase>>

(* JSArray.set with a JSCallFunction: set duplicates every value that is   *)
(* not a string, so the reference the new function was born with is left.  *)
SetElementCallback(o, n, q) ==
    /\ Idle /\ Usable(o)
    /\ Fresh(q)
    /\ lost[q] < MaxLost
    /\ live' = live \cup {q}
    /\ prop' = JS_SetProperty(NewSlots(prop, q), hnd[o].ptr, n, q)
    /\ refCount' = JS_SetPropertyRc(JS_DupValue(JS_NewObject(refCount, q), q),
                                    prop, hnd[o].ptr, n)
    /\ lost' = [lost EXCEPT ![q] = @ + 1]
    /\ UNCHANGED <<root, values, hnd, inv, depth, phase>>

(* JSObject.freeValue by the client.  It acts on the address: every handle *)
(* with this address loses its retention, also one to a later object.      *)
FreeValue(h) ==
    /\ Idle /\ ~Unused(h)
    /\ values' = values \ {hnd[h].ptr}
    /\ refCount' = freeValue(refCount, values, hnd[h].ptr)
    /\ hnd' = Released(hnd, values \cap {hnd[h].ptr}, "client")
    /\ UNCHANGED <<live, prop, root, lost, inv, depth, phase>>

(* The client forgets a handle; the wrapper is not told.                   *)
DropHandle(h) ==
    /\ ~Unused(h)
    /\ hnd' = [hnd EXCEPT ![h] = NoHandle]
    /\ UNCHANGED <<live, refCount, prop, root, values, lost, inv, depth, phase>>

---------------------------------------------------------------------------
(* J2qjsScriptEngine.invokeFunction and invokeMethod.                      *)

(* Look the function up, on the global object (o = NoPtr) or a client's    *)
(* object, and retain it.                                                  *)
InvokeBegin(i, o, n) ==
    /\ Idle /\ inv[i].fn = NoPtr
    /\ o = NoPtr \/ o \in {hnd[h].ptr : h \in Handle} \cap live
    /\ LET f == prop[<<IF o = NoPtr THEN Global ELSE o, n>>]
       IN  /\ f # NoPtr
           /\ toJavaObject(JS_DupValue(refCount, f), f)
           /\ inv' = [inv EXCEPT ![i] =
                        [fn |-> f, owned |-> IF o = NoPtr THEN Global ELSE NoPtr,
                         level |-> depth, same |-> TRUE]]
    /\ UNCHANGED <<live, prop, root, lost, hnd, depth, phase>>

(* Fault: the function's reference is given back even if another call has  *)
(* taken it out of the map.                                                *)
InvokeFinally_Unchecked(i, vals, rc, hs) ==
    LET gone == {inv[i].owned, inv[i].fn}
    IN  /\ values' = vals \ gone
        /\ refCount' = JS_FreeValue(freeValue(rc, vals, inv[i].owned), inv[i].fn)
        /\ hnd' = Released(hs, vals \cap gone, "engine")
        /\ inv' = [inv EXCEPT ![i] = NoInv]

(* The finally clause: freeValue on what was looked up, whoever else has   *)
(* retained it.  vals, rc and hs are the map, the counts and the handles   *)
(* after the call.                                                         *)
InvokeFinally(i, vals, rc, hs) ==
    LET gone == {inv[i].owned, inv[i].fn}
    IN  /\ values' = vals \ gone
        /\ refCount' = freeValue(freeValue(rc, vals, inv[i].owned),
                                 vals \ {inv[i].owned}, inv[i].fn)
        /\ hnd' = Released(hs, vals \cap gone, "engine")
        /\ inv' = [inv EXCEPT ![i] = NoInv]

(* The call returns no object, or throws.  The call and the finally clause *)
(* are one step: what another thread may do between them is a step before  *)
(* or after it, or the freeValue of the client, an action of its own.      *)
InvokeEnd(i) ==
    /\ Idle
    /\ inv[i].fn \in live /\ inv[i].level = depth
    /\ InvokeFinally(i, values, refCount, hnd)
    /\ UNCHANGED <<live, prop, root, lost, depth, phase>>

(* The call returns an object.                                             *)
InvokeEndObject(i, h, q) ==
    /\ Idle /\ Unused(h)
    /\ inv[i].fn \in live /\ inv[i].level = depth
    /\ q \in Nameable({inv[i].fn})
    /\ InvokeFinally(i, values \cup {q},
                     IF q \in values THEN refCount ELSE JS_DupValue(refCount, q),
                     [hnd EXCEPT ![h] = NewHandle(q, "values", 0)])
    /\ UNCHANGED <<live, prop, root, lost, depth, phase>>

---------------------------------------------------------------------------
(* Scripts and callbacks.                                                  *)

(* The running script assigns p.n = v for values it can name, or deletes.  *)
ScriptPut(p, n, v) ==
    /\ Idle
    /\ prop' = JS_SetProperty(prop, p, n, v)
    /\ refCount' = JS_SetPropertyRc(JS_DupValue(refCount, v), prop, p, n)
    /\ UNCHANGED <<live, root, values, lost, hnd, inv, depth, phase>>

(* The running script assigns a new object.                                *)
ScriptNew(p, n, q) ==
    /\ Idle
    /\ Fresh(q)
    /\ live' = live \cup {q}
    /\ prop' = JS_SetProperty(NewSlots(prop, q), p, n, q)
    /\ refCount' = JS_SetPropertyRc(JS_NewObject(refCount, q), prop, p, n)
    /\ UNCHANGED <<root, values, lost, hnd, inv, depth, phase>>

(* jsFuncCall: the script calls a Java callback.  The argument stays on    *)
(* the JS stack; its JSObject (h) is made without retaining it.            *)
JsFuncCall(h, q) ==
    /\ Idle /\ Unused(h) /\ depth < MaxDepth
    /\ \/ /\ q \in ScriptObject
          /\ refCount' = JS_DupValue(refCount, q)
          /\ UNCHANGED <<live, prop>>
       \/ /\ Fresh(q)
          /\ live' = live \cup {q}
          /\ prop' = NewSlots(prop, q)
          /\ refCount' = JS_NewObject(refCount, q)
    /\ depth' = depth + 1
    /\ root' = [root EXCEPT ![depth + 1] = q]
    /\ hnd' = [hnd EXCEPT ![h] = NewHandle(q, "frame", depth + 1)]
    /\ UNCHANGED <<values, lost, inv, phase>>

(* Fault: the result is handed to the script without JS_DupValue.          *)
JsFuncReturn_NoDup(p, n, v) ==
    /\ Idle /\ depth > 0
    /\ \A i \in Invocation : inv[i].fn # NoPtr => inv[i].level < depth
    /\ v \in ({hnd[h].ptr : h \in Handle} \cap live) \cup {NoPtr}
    /\ LET rc == IF v = NoPtr THEN refCount ELSE JS_SetPropertyRc(refCount, prop, p, n)
       IN  refCount' = JS_FreeValue(rc, root[depth])
    /\ prop' = IF v = NoPtr THEN prop ELSE JS_SetProperty(prop, p, n, v)
    /\ root' = [root EXCEPT ![depth] = NoPtr]
    /\ depth' = depth - 1
    /\ hnd' = [h \in Handle |->
                 IF hnd[h].hold = "frame" /\ hnd[h].level = depth
                 THEN [hnd[h] EXCEPT !.hold = "expired"] ELSE hnd[h]]
    /\ UNCHANGED <<live, values, lost, inv, phase>>

(* The callback returns.  An object result v is duplicated for the script, *)
(* which stores it in p.n; a result it ignores leaves nothing (v = NoPtr). *)
JsFuncReturn(p, n, v) ==
    /\ Idle /\ depth > 0
    /\ \A i \in Invocation : inv[i].fn # NoPtr => inv[i].level < depth
    /\ v \in ({hnd[h].ptr : h \in Handle} \cap live) \cup {NoPtr}
    /\ LET rc == IF v = NoPtr THEN refCount
                 ELSE JS_SetPropertyRc(JS_DupValue(refCount, v), prop, p, n)
       IN  refCount' = JS_FreeValue(rc, root[depth])
    /\ prop' = IF v = NoPtr THEN prop ELSE JS_SetProperty(prop, p, n, v)
    /\ root' = [root EXCEPT ![depth] = NoPtr]
    /\ depth' = depth - 1
    /\ hnd' = [h \in Handle |->
                 IF hnd[h].hold = "frame" /\ hnd[h].level = depth
                 THEN [hnd[h] EXCEPT !.hold = "expired"] ELSE hnd[h]]
    /\ UNCHANGED <<live, values, lost, inv, phase>>

---------------------------------------------------------------------------
(* Freeing memory.                                                         *)

(* Handles to the addresses in S now denote freed memory.                  *)
Forget(S) ==
    /\ hnd' = [h \in Handle |-> IF hnd[h].ptr \in S
                                THEN [hnd[h] EXCEPT !.same = FALSE] ELSE hnd[h]]
    /\ inv' = [i \in Invocation |-> IF inv[i].fn \in S
                                    THEN [inv[i] EXCEPT !.same = FALSE] ELSE inv[i]]

(* free_zero_refcount frees one object of the list.                        *)
FreeObject(p) ==
    /\ FreeZeroRefCount(p)
    /\ Forget({p})
    /\ UNCHANGED <<values, lost, depth, phase>>

(* runGC, or an allocation over the threshold (js_trigger_gc).             *)
RunGC ==
    /\ Idle /\ Garbage # {}
    /\ JS_RunGC
    /\ Forget(Garbage)
    /\ UNCHANGED <<values, lost, depth, phase>>

(* ~QuickJSWrapper: free everything in values ...                          *)
Destroy ==
    /\ Idle /\ depth = 0
    /\ refCount' = [p \in Ptr |-> IF p \in values THEN refCount[p] - 1 ELSE refCount[p]]
    /\ values' = {}
    /\ hnd' = [h \in Handle |-> IF Unused(h) THEN hnd[h]
                                ELSE [hnd[h] EXCEPT !.hold = "expired"]]
    /\ phase' = "freeContext"
    /\ UNCHANGED <<live, prop, root, lost, inv, depth>>

(* ... then JS_FreeContext ...                                             *)
FreeContext ==
    /\ phase = "freeContext" /\ ZeroRefCount = {}
    /\ refCount' = JS_FreeValue(refCount, root[0])
    /\ root' = [root EXCEPT ![0] = NoPtr]
    /\ phase' = "freeRuntime"
    /\ UNCHANGED <<live, prop, values, lost, hnd, inv, depth>>

(* Fault: JS_FreeRuntime does not run the cycle collector.                 *)
FreeRuntime_NoGC ==
    /\ phase = "freeRuntime" /\ ZeroRefCount = {}
    /\ phase' = "destroyed"
    /\ UNCHANGED <<live, refCount, prop, root, values, lost, hnd, inv, depth>>

(* ... then JS_FreeRuntime, which collects the cycles.                     *)
FreeRuntime ==
    /\ phase = "freeRuntime" /\ ZeroRefCount = {}
    /\ JS_RunGC
    /\ Forget(Garbage)
    /\ phase' = "destroyed"
    /\ UNCHANGED <<values, lost, depth>>

---------------------------------------------------------------------------
ClientNext ==
    \/ \E h \in Handle : GetGlobalObject(h) \/ FreeValue(h) \/ DropHandle(h)
    \/ \E h \in Handle, q \in Obj : EvaluateNew(h, q) \/ JsFuncCall(h, q)
    \/ \E q \in ScriptObject, h \in Handle : Evaluate(h, q)
    \/ \E q \in ScriptObject : EvaluateThrows(q)
    \/ \E o, h \in Handle, n \in Name : GetProperty(o, n, h)
    \/ \E f, h \in Handle, q \in Obj : Call(f, q, h)
    \/ \E p \in ScriptObject \cup {NoPtr}, n \in Name, f \in Handle, q \in Obj, r \in BOOLEAN :
          CallWithCallback(f, q, p, n, r)
    \/ \E o \in Handle, n \in Name, v \in Obj \cup {NoPtr} : SetProperty(o, n, v)
    \/ \E o \in Handle, n \in Name, q \in Obj :
          SetPropertyCallback(o, n, q) \/ SetElementCallback(o, n, q)
    \/ \E i \in Invocation, o \in Obj \cup {NoPtr}, n \in Name : InvokeBegin(i, o, n)
    \/ \E i \in Invocation : InvokeEnd(i)
    \/ \E i \in Invocation, h \in Handle, q \in Obj : InvokeEndObject(i, h, q)
    \/ \E p \in ScriptObject, n \in Name, v \in ScriptObject \cup {NoPtr} : ScriptPut(p, n, v)
    \/ \E p \in ScriptObject, n \in Name, q \in Obj : ScriptNew(p, n, q)
    \/ \E p \in ScriptObject, n \in Name, v \in Obj \cup {NoPtr} : JsFuncReturn(p, n, v)
    \/ RunGC
    \/ Destroy

(* The steps of the code itself, once it has been entered.                 *)
NativeNext ==
    \/ \E p \in Ptr : FreeObject(p)
    \/ FreeContext
    \/ FreeRuntime

Next == ClientNext \/ NativeNext

Spec == Init /\ [][Next]_vars

(* Native code runs to its end: nothing waits inside it.                   *)
FairSpec == Spec /\ WF_vars(NativeNext)
---------------------------------------------------------------------------
(* What must hold.                                                         *)

(* References to p that some piece of state stands for.                    *)
Owners(p) == Count(prop, p) + Count(root, p) + (IF p \in values THEN 1 ELSE 0) + lost[p]

(* Every reference count is exact: the property slots, the context and the *)
(* callback frames, the one reference of the map values, and the leaks     *)
(* account for all of it.  A path through the wrapper that forgets a       *)
(* JS_FreeValue or does one too many breaks this, many calls before an     *)
(* object is freed too early (gc_decref_child's assertion, quickjs.c 5683) *)
(* or never.                                                               *)
RefBalance == \A p \in Ptr : refCount[p] = Owners(p)

(* A handle denotes the object it was made for as long as something keeps  *)
(* that object for it: an entry of values nobody has freed, the frame of   *)
(* the callback it is an argument of, or the context.                      *)
HeldHandleValid ==
    \A h \in Handle :
        /\ hnd[h].hold = "values"  => hnd[h].same /\ hnd[h].ptr \in values
        /\ hnd[h].hold = "frame"   => hnd[h].same /\ root[hnd[h].level] = hnd[h].ptr
        /\ hnd[h].hold = "context" => hnd[h].same

(* What the outside of the heap holds on to.                               *)
Roots == {root[d] : d \in Frame} \ {NoPtr}
Pinned == Roots \cup values \cup {p \in Ptr : lost[p] > 0}

(* No step frees an object that the context, the argument of an active     *)
(* callback or an entry of values leads to: neither the cascade of frees   *)
(* nor the cycle collector.                                                *)
NeverFreesReachable == [][\A p \in live \ live' : p \notin Reach(Pinned)]_vars

(* If nothing was leaked, ~QuickJSWrapper leaves no object behind, which   *)
(* is what JS_FreeRuntime asserts (quickjs.c 1986).                        *)
DestroyFreesAll ==
    phase = "destroyed" /\ (\A p \in Ptr : lost[p] = 0) => live = {}

(* Every call into native code returns: a cascade of frees comes to its    *)
(* end, and ~QuickJSWrapper gets through all its steps.                    *)
InNative == ZeroRefCount # {} \/ phase \in {"freeContext", "freeRuntime"}
NativeReturns == InNative ~> ~InNative

(* toJavaObject's comment (quickjs_wrapper.cpp 381-385): an object in      *)
(* values that is not released actively is released by destroy.  So a      *)
(* handle on which the client called no freeValue keeps its object.        *)
UnfreedHandleKept ==
    \A h \in Handle :
        hnd[h].hold \in {"values", "engine"} /\ phase = "running" => hnd[h].same

(* README.md 6, "Synchronized every wrapper API": between its native calls *)
(* an invocation still has the function it looked up.                      *)
InvokedFunctionKept ==
    \A i \in Invocation :
        inv[i].fn # NoPtr /\ phase = "running" => inv[i].same

(* The assertion in JS_FreeRuntime (quickjs.c 1986): no object is left.    *)
FreeRuntimeAssert == phase = "destroyed" => live = {}

---------------------------------------------------------------------------
(* The inductive invariant behind the safety properties.                   *)

(* Freed memory is empty, the context refers to the global object, and it  *)
(* is not itself the value of a property.                                  *)
HeapShape ==
    /\ \A p \in Ptr \ live : refCount[p] = 0
    /\ \A x \in Slot : x[1] \notin live => prop[x] = NoPtr
    /\ Ctx \in live => prop[<<Ctx, Intrinsic>>] = Global
    /\ \A p \in Ptr, n \in Name : prop[<<p, n>>] # Ctx

(* The context is owned until JS_FreeContext, the frames of the active     *)
(* callbacks hold their arguments, and the destructor runs in none.        *)
FrameShape ==
    /\ root[0] = IF phase \in {"running", "freeContext"} THEN Ctx ELSE NoPtr
    /\ \A d \in Frame \ {0} : root[d] \in IF d <= depth THEN Obj ELSE {NoPtr}
    /\ phase # "running" => depth = 0 /\ values = {}

(* Held handles belong to a running wrapper and to a callback still active. *)
HandleShape ==
    \A h \in Handle :
        /\ hnd[h].hold \in {"values", "frame", "context"} => phase = "running"
        /\ hnd[h].hold = "frame" => hnd[h].level \in 1 .. depth
        /\ hnd[h].hold = "context" => hnd[h].ptr = Global

IndInv ==
    /\ TypeOK
    /\ RefBalance
    /\ HeapShape
    /\ FrameShape
    /\ HandleShape
    /\ HeldHandleValid
    /\ DestroyFreesAll
=============================================================================
