---------------------------- MODULE QuickJSHeap ----------------------------
(***************************************************************************)
(* The garbage collected heap of a QuickJS runtime as the Java wrapper     *)
(* uses it: objects with a reference count (quickjs.h 643-670), the zero   *)
(* reference count list that frees an object together with the references  *)
(* its properties hold (quickjs.c 5398-5550), and the cycle collector      *)
(* JS_RunGC (quickjs.c 5586-5810).                                         *)
(*                                                                         *)
(* An object is its address.  Addresses are reused: an address that is not *)
(* in live is free memory, and a later allocation may return it again.     *)
(* Values that are not objects (numbers, strings, undefined, ...) are all  *)
(* the one value NoPtr: they take no part in the object graph.             *)
(*                                                                         *)
(* The JSContext is itself a counted gc object (JS_GC_OBJ_TYPE_JS_CONTEXT) *)
(* that owns the global object, and every object leads back to it: through *)
(* the realm of a function, or through a prototype's constructor.  That    *)
(* path through built-in objects is one slot, Intrinsic.  So the heap holds *)
(* a cycle from the beginning, which only the cycle collector can free.    *)
(***************************************************************************)
EXTENDS Integers, FiniteSets

CONSTANTS
    Ptr,        \* the addresses of gc objects
    Ctx,        \* the address of the JSContext
    Global,     \* the address of ctx->global_obj
    NoPtr,      \* any value without a reference count
    Name,       \* property names and array indexes
    Intrinsic,  \* the slot for the built-in references of an object
    MaxDepth    \* bound: how deep Java callbacks nest

ASSUME HeapAssumption ==
    /\ IsFiniteSet(Ptr) /\ IsFiniteSet(Name)
    /\ Ctx \in Ptr /\ Global \in Ptr /\ Ctx # Global
    /\ NoPtr \notin Ptr
    /\ Intrinsic \notin Name
    /\ MaxDepth \in Nat

VARIABLES
    live,       \* the addresses on rt->gc_obj_list or gc_zero_ref_count_list
    refCount,   \* header.ref_count of every address (0 for free memory)
    prop,       \* the value in every property slot
    root        \* root[0]: the JSContext pointer the wrapper owns;
                \* root[d]: the argument on the JS stack below callback d

heapVars == <<live, refCount, prop, root>>

Obj   == Ptr \ {Ctx}
Value == Ptr \cup {NoPtr}
Slot  == Ptr \X (Name \cup {Intrinsic})
Frame == 0 .. MaxDepth

HeapTypeOK ==
    /\ live \subseteq Ptr
    /\ refCount \in [Ptr -> Nat]
    /\ prop \in [Slot -> Value]
    /\ root \in [Frame -> Value]

(* The number of slots of f that hold the value p.                         *)
Count(f, p) == Cardinality({x \in DOMAIN f : f[x] = p})

---------------------------------------------------------------------------
(* Reference counting, on a count function rc so that calls compose.  Both *)
(* do nothing for a value without a reference count.                       *)

JS_DupValue(rc, v)  == IF v = NoPtr THEN rc ELSE [rc EXCEPT ![v] = @ + 1]
JS_FreeValue(rc, v) == IF v = NoPtr THEN rc ELSE [rc EXCEPT ![v] = @ - 1]

(* The object whose count drops to zero goes to gc_zero_ref_count_list,    *)
(* which is emptied before the outermost JS_FreeValue returns.             *)
ZeroRefCount == {p \in live : refCount[p] = 0}

(* A new object owns a reference to the context; its creator owns the new  *)
(* object.                                                                 *)
JS_NewObject(rc, q)  == JS_DupValue(JS_DupValue(rc, Ctx), q)
NewSlots(pr, q)      == [pr EXCEPT ![<<q, Intrinsic>>] = Ctx]

(* JS_SetProperty takes over the caller's reference to v and drops the one *)
(* to the value it replaces: slots and counts after p.n = v.               *)
JS_SetProperty(pr, p, n, v)   == [pr EXCEPT ![<<p, n>>] = v]
JS_SetPropertyRc(rc, pr, p, n) == JS_FreeValue(rc, pr[<<p, n>>])

---------------------------------------------------------------------------
(* Reachability through property slots: the least set that contains R and  *)
(* is closed under following a slot.                                       *)

Closed(S) == \A x \in Slot : x[1] \in S /\ prop[x] # NoPtr => prop[x] \in S

Reach(R) ==
    LET closedSets == {S \in SUBSET Ptr : R \subseteq S /\ Closed(S)}
    IN  {p \in Ptr : \A S \in closedSets : p \in S}

---------------------------------------------------------------------------
(* Free the memory of the objects in S and give up every reference their   *)
(* slots hold.                                                             *)
Free(S) ==
    /\ live' = live \ S
    /\ prop' = [x \in Slot |-> IF x[1] \in S THEN NoPtr ELSE prop[x]]
    /\ refCount' =
          [p \in Ptr |->
              IF p \in S THEN 0
              ELSE refCount[p] - Cardinality({x \in Slot : x[1] \in S /\ prop[x] = p})]
    /\ UNCHANGED root

(* Fault: the object is freed but stays on the list.                       *)
FreeZeroRefCount_StaysListed(p) ==
    /\ p \in ZeroRefCount
    /\ UNCHANGED heapVars

(* One turn of the loop in free_zero_refcount.                             *)
FreeZeroRefCount(p) ==
    /\ p \in ZeroRefCount
    /\ Free({p})

(* gc_decref subtracts from every count the references that come from      *)
(* other gc objects; what is left over is held from outside the heap.      *)
ExternallyHeld == {p \in live : refCount[p] > Count(prop, p)}

(* Fault: gc_scan without the second traversal, which restores the objects *)
(* that the kept ones lead to.                                             *)
Garbage_NoScan == live \ ExternallyHeld

(* gc_scan keeps those objects and all they lead to; gc_free_cycles frees  *)
(* the rest.                                                               *)
Garbage == live \ Reach(ExternallyHeld)

(* A collection: what is garbage is settled before anything is freed.      *)
JS_RunGC == \E S \in {Garbage} : Free(S)

(* A runtime with one context, before any script has run.                  *)
HeapInit ==
    /\ live = {Ctx, Global}
    /\ prop = [x \in Slot |-> CASE x = <<Ctx, Intrinsic>>    -> Global
                                [] x = <<Global, Intrinsic>> -> Ctx
                                [] OTHER                     -> NoPtr]
    /\ root = [d \in Frame |-> IF d = 0 THEN Ctx ELSE NoPtr]
    /\ refCount = [p \in Ptr |-> CASE p = Ctx    -> 2
                                   [] p = Global -> 1
                                   [] OTHER      -> 0]
=============================================================================
