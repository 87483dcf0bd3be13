---------------------------- MODULE CallFunctions ----------------------------
(***************************************************************************)
(* The registry of Java callbacks: QuickJSWrapper.callFunctionMap, the     *)
(* JS functions toJSValue makes for a JSCallFunction, and the finalizer    *)
(* that takes the callback out of the map again.                           *)
(*                                                                         *)
(* Only the native methods are synchronized.  putCallFunction and destroy  *)
(* touch the map before they enter the monitor of the wrapper, while       *)
(* removeCallFunction and callFunctionBack are called from native code by  *)
(* the thread inside it.  An access to the HashMap is therefore two steps, *)
(* and an update made while another thread is in the map may be lost.      *)
(*                                                                         *)
(* A native call that a callback makes is not kept apart from the call the *)
(* callback runs in: the monitor is reentrant, so what the inner call does *)
(* the outer one may do as well.                                           *)
(***************************************************************************)
EXTENDS Integers

CONSTANTS
    Callback,     \* JSCallFunction objects
    NoCallback,
    Id,           \* values of hashCode()
    Fn,           \* addresses for the JS functions made for callbacks
    Thread,
    NoThread,
    MaxUse        \* bound: how often one callback is passed to scripts

ASSUME CallFunctionsAssumption ==
    /\ NoCallback \notin Callback
    /\ NoThread \notin Thread
    /\ MaxUse \in Nat

VARIABLES
    callFunctionMap,  \* the HashMap: id to callback
    hash,             \* what hashCode() returns; two objects may share it
    fn,               \* the live JS functions
    pc, arg,          \* where each thread is, and the callback it deals with
    monitor,          \* the thread inside the synchronized native methods
    phase,            \* "running", then the steps of destroy
    uses,             \* history: how often each callback was passed
    raced,            \* history: two threads have been in the map at once
    orphan            \* history: entries left by a call that failed

vars == <<callFunctionMap, hash, fn, pc, arg, monitor, phase, uses, raced, orphan>>

MapOp == {"put", "putBack", "remove", "get", "clear"}
Pc    == MapOp \cup {"idle", "enter", "make", "native", "user", "enterDestroy", "free"}

Entry == Callback \cup {NoCallback}

(* made: the callback was put into the map first, which JSArray.set omits. *)
FnState == [cb : Entry, made : BOOLEAN]
NoFn    == [cb |-> NoCallback, made |-> FALSE]

TypeOK ==
    /\ callFunctionMap \in [Id -> Entry]
    /\ hash \in [Callback -> Id]
    /\ fn \in [Fn -> FnState]
    /\ pc \in [Thread -> Pc]
    /\ arg \in [Thread -> Entry]
    /\ monitor \in Thread \cup {NoThread}
    /\ phase \in {"running", "destroying", "destroyed"}
    /\ uses \in [Callback -> 0 .. MaxUse]
    /\ raced \in BOOLEAN
    /\ orphan \subseteq Id

Init ==
    /\ callFunctionMap = [i \in Id |-> NoCallback]
    /\ hash \in [Callback -> Id]
    /\ fn = [f \in Fn |-> NoFn]
    /\ pc = [t \in Thread |-> "idle"]
    /\ arg = [t \in Thread |-> NoCallback]
    /\ monitor = NoThread
    /\ phase = "running"
    /\ uses = [c \in Callback |-> 0]
    /\ raced = FALSE
    /\ orphan = {}

---------------------------------------------------------------------------
Live(f) == fn[f].cb # NoCallback

(* Thread t starts op on the map, for callback c.                          *)
Begin(t, op, c) ==
    /\ pc' = [pc EXCEPT ![t] = op]
    /\ arg' = [arg EXCEPT ![t] = c]
    /\ raced' = (raced \/ \E u \in Thread \ {t} : pc[u] \in MapOp)

(* Thread t ends its update m of the map, and goes on at next.             *)
Commit(t, m, next) ==
    /\ \/ callFunctionMap' = m
       \/ raced /\ UNCHANGED callFunctionMap
    /\ pc' = [pc EXCEPT ![t] = next]

Use(c) ==
    /\ uses[c] < MaxUse
    /\ uses' = [uses EXCEPT ![c] = @ + 1]

(* setProperty and call with a JSCallFunction: putCallFunction ...         *)
Pass(t, c) ==
    /\ pc[t] = "idle" /\ phase = "running"
    /\ Use(c)
    /\ Begin(t, "put", c)
    /\ UNCHANGED <<callFunctionMap, hash, fn, monitor, phase, orphan>>

PutEnd(t) ==
    /\ pc[t] \in {"put", "putBack"}
    /\ Commit(t, [callFunctionMap EXCEPT ![hash[arg[t]]] = arg[t]],
              IF pc[t] = "put" THEN "enter" ELSE "make")
    /\ UNCHANGED <<hash, fn, arg, monitor, phase, uses, raced, orphan>>

(* ... then the native method, where toJSValue makes the function f.       *)
toJSValue(t, f, c, put) ==
    /\ ~Live(f)
    /\ fn' = [fn EXCEPT ![f] = [cb |-> c, made |-> put]]
    /\ pc' = [pc EXCEPT ![t] = "native"]
    /\ monitor' = t

Make(t, f) ==
    /\ \/ pc[t] = "enter" /\ monitor = NoThread /\ phase = "running"
       \/ pc[t] = "make"
    /\ toJSValue(t, f, arg[t], TRUE)
    /\ orphan' = orphan \ {hash[arg[t]]}
    /\ UNCHANGED <<callFunctionMap, hash, arg, phase, uses, raced>>

(* call gives up at an earlier argument of a type toJSValue rejects.       *)
CallFails(t) ==
    /\ pc[t] = "enter" /\ monitor = NoThread /\ phase = "running"
    /\ pc' = [pc EXCEPT ![t] = "idle"]
    /\ orphan' = orphan \cup {hash[arg[t]]}
    /\ UNCHANGED <<callFunctionMap, hash, fn, arg, monitor, phase, uses, raced>>

(* JSArray.set with a JSCallFunction.                                      *)
ArraySet(t, c, f) ==
    /\ pc[t] = "idle" /\ monitor = NoThread /\ phase = "running"
    /\ Use(c)
    /\ toJSValue(t, f, c, FALSE)
    /\ UNCHANGED <<callFunctionMap, hash, arg, phase, raced, orphan>>

(* Any other native method, and the return of each.                        *)
Enter(t) ==
    /\ pc[t] = "idle" /\ monitor = NoThread /\ phase = "running"
    /\ pc' = [pc EXCEPT ![t] = "native"]
    /\ monitor' = t
    /\ UNCHANGED <<callFunctionMap, hash, fn, arg, phase, uses, raced, orphan>>

Leave(t) ==
    /\ pc[t] = "native"
    /\ pc' = [pc EXCEPT ![t] = "idle"]
    /\ monitor' = NoThread
    /\ UNCHANGED <<callFunctionMap, hash, fn, arg, phase, uses, raced, orphan>>

---------------------------------------------------------------------------
(* Native code frees a function: jsFuncCallbackFinalizer calls             *)
(* removeCallFunction with the id.                                         *)
Finalize(t, f) ==
    /\ pc[t] \in {"native", "free"} /\ Live(f)
    /\ fn' = [fn EXCEPT ![f] = NoFn]
    /\ Begin(t, "remove", fn[f].cb)
    /\ UNCHANGED <<callFunctionMap, hash, monitor, phase, uses, orphan>>

(* Fault: the finalizer does not tell the Java side.                       *)
RemoveEnd_KeepsEntry(t) ==
    /\ pc[t] = "remove"
    /\ pc' = [pc EXCEPT ![t] = IF phase = "running" THEN "native" ELSE "free"]
    /\ UNCHANGED <<callFunctionMap, hash, fn, arg, monitor, phase, uses, raced, orphan>>

RemoveEnd(t) ==
    /\ pc[t] = "remove"
    /\ Commit(t, [callFunctionMap EXCEPT ![hash[arg[t]]] = NoCallback],
              IF phase = "running" THEN "native" ELSE "free")
    /\ orphan' = orphan \ {hash[arg[t]]}
    /\ UNCHANGED <<hash, fn, arg, monitor, phase, uses, raced>>

(* A script calls the function: jsFuncCall, callFunctionBack.              *)
JsFuncCall(t, f) ==
    /\ pc[t] = "native" /\ Live(f)
    /\ Begin(t, "get", fn[f].cb)
    /\ UNCHANGED <<callFunctionMap, hash, fn, monitor, phase, uses, orphan>>

(* Fault: a callback can be called once.                                   *)
CallFunctionBack_Once(t) ==
    /\ pc[t] = "get"
    /\ Commit(t, [callFunctionMap EXCEPT ![hash[arg[t]]] = NoCallback], "user")
    /\ UNCHANGED <<hash, fn, arg, monitor, phase, uses, raced, orphan>>

(* Without an entry the call ends in a NullPointerException.               *)
CallFunctionBack(t) ==
    /\ pc[t] = "get"
    /\ LET found == callFunctionMap[hash[arg[t]]] # NoCallback
       IN  pc' \in {[pc EXCEPT ![t] = next] :
                       next \in (IF found THEN {"user"} ELSE {"native"})
                                \cup (IF raced THEN {"native"} ELSE {})}
    /\ UNCHANGED <<callFunctionMap, hash, fn, arg, monitor, phase, uses, raced, orphan>>

(* The callback returns; a JSCallFunction it returns is put into the map.  *)
Return(t) ==
    /\ pc[t] = "user"
    /\ pc' = [pc EXCEPT ![t] = "native"]
    /\ UNCHANGED <<callFunctionMap, hash, fn, arg, monitor, phase, uses, raced, orphan>>

ReturnCallback(t, c) ==
    /\ pc[t] = "user"
    /\ Use(c)
    /\ Begin(t, "putBack", c)
    /\ UNCHANGED <<callFunctionMap, hash, fn, monitor, phase, orphan>>

---------------------------------------------------------------------------
(* destroy: clear the map, then destroyContext frees every function.  It   *)
(* is called once.                                                         *)
Clear(t) ==
    /\ pc[t] = "idle" /\ phase = "running"
    /\ \A u \in Thread : pc[u] \notin {"clear", "enterDestroy"}
    /\ Begin(t, "clear", NoCallback)
    /\ UNCHANGED <<callFunctionMap, hash, fn, monitor, phase, uses, orphan>>

ClearEnd(t) ==
    /\ pc[t] = "clear"
    /\ Commit(t, [i \in Id |-> NoCallback], "enterDestroy")
    /\ orphan' = {}
    /\ UNCHANGED <<hash, fn, arg, monitor, phase, uses, raced>>

DestroyContext(t) ==
    /\ pc[t] = "enterDestroy" /\ monitor = NoThread
    /\ pc' = [pc EXCEPT ![t] = "free"]
    /\ monitor' = t
    /\ phase' = "destroying"
    /\ UNCHANGED <<callFunctionMap, hash, fn, arg, uses, raced, orphan>>

(* Fault: the runtime goes away without running the finalizers.            *)
Destroyed_NoFinalizers(t) ==
    /\ pc[t] = "free"
    /\ pc' = [pc EXCEPT ![t] = "idle"]
    /\ monitor' = NoThread
    /\ phase' = "destroyed"
    /\ UNCHANGED <<callFunctionMap, hash, fn, arg, uses, raced, orphan>>

Destroyed(t) ==
    /\ pc[t] = "free" /\ \A f \in Fn : ~Live(f)
    /\ pc' = [pc EXCEPT ![t] = "idle"]
    /\ monitor' = NoThread
    /\ phase' = "destroyed"
    /\ UNCHANGED <<callFunctionMap, hash, fn, arg, uses, raced, orphan>>

Next ==
    \E t \in Thread :
        \/ PutEnd(t) \/ CallFails(t) \/ Enter(t) \/ Leave(t)
        \/ RemoveEnd(t) \/ CallFunctionBack(t) \/ Return(t)
        \/ Clear(t) \/ ClearEnd(t) \/ DestroyContext(t) \/ Destroyed(t)
        \/ \E c \in Callback : Pass(t, c) \/ ReturnCallback(t, c)
        \/ \E f \in Fn : Make(t, f) \/ Finalize(t, f) \/ JsFuncCall(t, f)
        \/ \E c \in Callback, f \in Fn : ArraySet(t, c, f)

Spec == Init /\ [][Next]_vars

---------------------------------------------------------------------------
Clearing == \E t \in Thread : pc[t] \in {"clear", "enterDestroy"}

(* Nobody else was ever given the id of callback c, and c was passed once. *)
Sole(c) == uses[c] = 1 /\ \A d \in Callback \ {c} : hash[d] = hash[c] => uses[d] = 0

(* A callback that was passed to scripts once, by a call that registers it *)
(* and under an id no other callback has, stays registered as long as its  *)
(* JS function lives: no finalizer, call or failed call of another         *)
(* callback takes it out of callFunctionMap.                               *)
SoleCallbackRegistered ==
    phase = "running" /\ ~Clearing /\ ~raced =>
        \A f \in Fn : Live(f) /\ fn[f].made /\ Sole(fn[f].cb) =>
            callFunctionMap[hash[fn[f].cb]] = fn[f].cb

(* Where an entry of the map may come from.                                *)
Owed(i) ==
    \/ i \in orphan
    \/ \E f \in Fn : Live(f) /\ hash[fn[f].cb] = i
    \/ \E t \in Thread : pc[t] \in {"enter", "make", "remove"} /\ hash[arg[t]] = i

(* callFunctionMap does not grow: each entry has a live JS function, a     *)
(* thread that is about to make or to remove one, or was left by a call    *)
(* that failed.                                                            *)
NoStaleEntry ==
    ~raced => \A i \in Id : callFunctionMap[i] # NoCallback => Owed(i)

(* What is in the map after destroy was put there while destroy was under  *)
(* way, by a call that failed or that still waits for the native method.   *)
DestroyEmptiesMap ==
    phase = "destroyed" /\ ~raced =>
        \A i \in Id : callFunctionMap[i] # NoCallback =>
            i \in orphan \/ \E t \in Thread : pc[t] = "enter" /\ hash[arg[t]] = i

(* callFunctionId identifies the JSCallFunction object (the JavaDoc of     *)
(* callFunctionBack): a live JS function finds the callback it was made    *)
(* for -- also one of several functions made for the same callback.        *)
CallbackIdentified ==
    phase = "running" /\ ~Clearing =>
        \A f \in Fn : Live(f) /\ fn[f].made => callFunctionMap[hash[fn[f].cb]] = fn[f].cb

(* The same, for a function that JSArray.set has made.                     *)
ElementCallbackIdentified ==
    phase = "running" /\ ~Clearing =>
        \A f \in Fn : Live(f) /\ ~fn[f].made => callFunctionMap[hash[fn[f].cb]] = fn[f].cb

(* README.md 6, "Synchronized every wrapper API": one thread at a time is  *)
(* in the HashMap.                                                         *)
MapExclusive ==
    \A t, u \in Thread : pc[t] \in MapOp /\ pc[u] \in MapOp => t = u
=============================================================================
