--------------------------- MODULE CycleCollector ---------------------------
(***************************************************************************)
(* JS_RunGC pass by pass (quickjs.c 5586-5810): gc_decref, gc_scan with    *)
(* its two loops, gc_free_cycles with free_object and the memory of the    *)
(* zombies at its end.  QuickJSHeap describes the collector as one step,   *)
(* JS_RunGC; ImplementsRunGC says that this module implements that step.   *)
(*                                                                         *)
(* A gc object is an Obj (a JSObject or the bytecode of a function), which *)
(* the collector frees itself, or one of Other (a JSContext, shape, var    *)
(* ref or async function), which it leaves to the last of the objects that *)
(* refer to it.  The lists are sets and the elements a loop has still to   *)
(* visit are the set todo: the order of a list is the order the program    *)
(* has allocated in, so any order is possible, and nothing may depend on   *)
(* it.                                                                     *)
(***************************************************************************)
EXTENDS Integers, FiniteSets

CONSTANTS
    Ptr,        \* the addresses of gc objects
    Ctx,        \* the address of the JSContext
    Global,     \* the address of ctx->global_obj
    Other,      \* the addresses that are not values: Ctx, shapes, var refs
    NoPtr,      \* any value without a reference count
    Name,       \* property names
    Intrinsic,  \* the one slot of an Other, and the built-in slot of an Obj
    MaxHeld     \* bound: references to one address from outside the heap

ASSUME CollectorAssumption ==
    /\ IsFiniteSet(Ptr) /\ IsFiniteSet(Name)
    /\ Other \subseteq Ptr
    /\ Ctx \in Other /\ Global \in Ptr \ Other
    /\ NoPtr \notin Ptr
    /\ Intrinsic \notin Name
    /\ MaxHeld \in Nat

VARIABLES
    phase,          \* the loop that runs, or "idle"
    todo,           \* what this loop has still to visit
    gc_obj_list,
    tmp_obj_list,
    zero_list,      \* rt->gc_zero_ref_count_list
    memory,         \* the addresses whose memory is allocated
    mark,           \* header.mark
    refCount,       \* header.ref_count
    prop,           \* the value in every slot
    cur             \* the object free_object is working on, or NoPtr

vars == <<phase, todo, gc_obj_list, tmp_obj_list, zero_list, memory, mark,
          refCount, prop, cur>>

Obj   == Ptr \ Other
Value == Ptr \cup {NoPtr}
Slot  == Ptr \X (Name \cup {Intrinsic})

Phase == {"idle", "decref", "scan", "restore", "free", "release"}

(* Every variable has the type of the field it stands for.                 *)
TypeOK ==
    /\ phase \in Phase
    /\ todo \subseteq Ptr
    /\ gc_obj_list \subseteq Ptr
    /\ tmp_obj_list \subseteq Ptr
    /\ zero_list \subseteq Ptr
    /\ memory \subseteq Ptr
    /\ mark \in [Ptr -> {0, 1}]
    /\ refCount \in [Ptr -> Nat]
    /\ prop \in [Slot -> Value]
    /\ cur \in Value

(* mark_children calls its function once for every slot: how often it      *)
(* calls it with q for the children of p.                                  *)
mark_children(p, q) == Cardinality({x \in Slot : x[1] = p /\ prop[x] = q})

(* The slots of the nodes in S that hold p.                                *)
RefsFrom(S, p) == Cardinality({x \in Slot : x[1] \in S /\ prop[x] = p})

---------------------------------------------------------------------------
(* Any object graph that reference counting alone leaves behind: what is   *)
(* allocated has an owner, outside the heap or in a slot.  An Other has    *)
(* one slot, and it holds an object (the prototype of a shape, the value   *)
(* of a var ref, the global object of the context); the shape that the     *)
(* context owns as well, array_shape, is left out.  Outside the heap only  *)
(* values and the context are referred to; the data of an async function   *)
(* that C code holds while it runs is not among the nodes.                 *)
Init ==
    /\ phase = "idle"
    /\ todo = {} /\ tmp_obj_list = {} /\ zero_list = {}
    /\ mark = [p \in Ptr |-> 0]
    /\ cur = NoPtr
    /\ prop \in {f \in [Slot -> Value] :
                    \A x \in Slot : x[1] \in Other =>
                        IF x[2] = Intrinsic THEN f[x] \in Obj \cup {NoPtr}
                                            ELSE f[x] = NoPtr}
    /\ \E held \in [Obj \cup {Ctx} -> 0 .. MaxHeld] :
          refCount = [p \in Ptr |-> RefsFrom(Ptr, p) +
                                      IF p \in DOMAIN held THEN held[p] ELSE 0]
    /\ gc_obj_list = {p \in Ptr : refCount[p] > 0}
    /\ memory = gc_obj_list
    /\ \A x \in Slot : prop[x] # NoPtr => x[1] \in memory
    /\ Ctx \in memory => prop[<<Ctx, Intrinsic>>] = Global

(* JS_RunGC is called: from Java, or by js_trigger_gc in an allocation.    *)
(* gc_decref makes the temporary list empty.                               *)
StartGC ==
    /\ phase = "idle"
    /\ phase' = "decref"
    /\ todo' = gc_obj_list
    /\ tmp_obj_list' = {}
    /\ UNCHANGED <<gc_obj_list, zero_list, memory, mark, refCount, prop, cur>>

(* Fault: a child without references is moved before its own turn.         *)
gc_decref_Unmarked(p) ==
    /\ phase = "decref" /\ p \in todo
    /\ todo' = todo \ {p}
    /\ mark' = [mark EXCEPT ![p] = 1]
    /\ refCount' = [q \in Ptr |-> refCount[q] - mark_children(p, q)]
    /\ LET moved == {q \in gc_obj_list : refCount'[q] = 0}
       IN  /\ gc_obj_list'  = gc_obj_list \ moved
           /\ tmp_obj_list' = tmp_obj_list \cup moved
    /\ UNCHANGED <<phase, zero_list, memory, prop, cur>>

(* One turn of the loop of gc_decref.  gc_decref_child moves a child whose *)
(* count is now zero if its own turn is over (mark is 1); p itself is      *)
(* moved after its children.                                               *)
gc_decref(p) ==
    /\ phase = "decref" /\ p \in todo
    /\ todo' = todo \ {p}
    /\ mark' = [mark EXCEPT ![p] = 1]
    /\ refCount' = [q \in Ptr |-> refCount[q] - mark_children(p, q)]
    /\ LET moved == {q \in gc_obj_list : refCount'[q] = 0 /\ mark'[q] = 1}
       IN  /\ gc_obj_list'  = gc_obj_list \ moved
           /\ tmp_obj_list' = tmp_obj_list \cup moved
    /\ UNCHANGED <<phase, zero_list, memory, prop, cur>>

(* The first loop of gc_scan starts at the head of gc_obj_list.            *)
EndDecref ==
    /\ phase = "decref" /\ todo = {}
    /\ phase' = "scan"
    /\ todo' = gc_obj_list
    /\ UNCHANGED <<gc_obj_list, tmp_obj_list, zero_list, memory, mark,
                   refCount, prop, cur>>

(* Fault: a child that is kept after all stays on the temporary list.      *)
gc_scan_NotMoved(p) ==
    /\ phase = "scan" /\ p \in todo
    /\ refCount' = [q \in Ptr |-> refCount[q] + mark_children(p, q)]
    /\ todo' = todo \ {p}
    /\ mark' = [mark EXCEPT ![p] = 0]
    /\ UNCHANGED <<phase, gc_obj_list, tmp_obj_list, zero_list, memory, prop,
                   cur>>

(* Fault: the mark of a kept object stays set.                             *)
gc_scan_KeepsMark(p) ==
    /\ phase = "scan" /\ p \in todo
    /\ refCount' = [q \in Ptr |-> refCount[q] + mark_children(p, q)]
    /\ LET moved == {q \in Ptr : refCount[q] = 0 /\ mark_children(p, q) > 0}
       IN  /\ gc_obj_list'  = gc_obj_list \cup moved
           /\ tmp_obj_list' = tmp_obj_list \ moved
           /\ todo' = (todo \ {p}) \cup moved
    /\ UNCHANGED <<phase, zero_list, memory, mark, prop, cur>>

(* One turn of the first loop of gc_scan, over what is kept.               *)
(* gc_scan_incref_child moves a child whose count was zero to the end of   *)
(* gc_obj_list, where the loop will come to it.                            *)
gc_scan(p) ==
    /\ phase = "scan" /\ p \in todo
    /\ refCount' = [q \in Ptr |-> refCount[q] + mark_children(p, q)]
    /\ LET moved == {q \in Ptr : refCount[q] = 0 /\ mark_children(p, q) > 0}
       IN  /\ gc_obj_list'  = gc_obj_list \cup moved
           /\ tmp_obj_list' = tmp_obj_list \ moved
           /\ todo' = (todo \ {p}) \cup moved
           /\ mark' = [q \in Ptr |-> IF q \in moved \cup {p} THEN 0 ELSE mark[q]]
    /\ UNCHANGED <<phase, zero_list, memory, prop, cur>>

(* The second loop of gc_scan starts at the head of tmp_obj_list.          *)
EndScan ==
    /\ phase = "scan" /\ todo = {}
    /\ phase' = "restore"
    /\ todo' = tmp_obj_list
    /\ UNCHANGED <<gc_obj_list, tmp_obj_list, zero_list, memory, mark,
                   refCount, prop, cur>>

(* Fault: the counts of the garbage are not restored.                      *)
gc_scan_restore_Skips(p) ==
    /\ phase = "restore" /\ p \in todo
    /\ todo' = todo \ {p}
    /\ UNCHANGED <<phase, gc_obj_list, tmp_obj_list, zero_list, memory, mark,
                   refCount, prop, cur>>

(* One turn of the second loop of gc_scan: gc_scan_incref_child2 only      *)
(* restores the counts, for those who free the garbage.                    *)
gc_scan_restore(p) ==
    /\ phase = "restore" /\ p \in todo
    /\ refCount' = [q \in Ptr |-> refCount[q] + mark_children(p, q)]
    /\ todo' = todo \ {p}
    /\ UNCHANGED <<phase, gc_obj_list, tmp_obj_list, zero_list, memory, mark,
                   prop, cur>>

(* gc_free_cycles sets gc_phase to JS_GC_PHASE_REMOVE_CYCLES.  Its loop    *)
(* takes the head of tmp_obj_list until the list is empty.                 *)
EndRestore ==
    /\ phase = "restore" /\ todo = {}
    /\ phase' = "free"
    /\ UNCHANGED <<todo, gc_obj_list, tmp_obj_list, zero_list, memory, mark,
                   refCount, prop, cur>>

(* free_property for every slot of p.  In this phase __JS_FreeValueRT does *)
(* nothing for an object whose count drops to zero.                        *)
DropSlots(p) ==
    /\ refCount' = [q \in Ptr |-> refCount[q] - mark_children(p, q)]
    /\ prop' = [x \in Slot |-> IF x[1] = p THEN NoPtr ELSE prop[x]]

(* free_object up to the end of its fields.                                *)
FreeFields(p) ==
    /\ phase = "free" /\ cur = NoPtr
    /\ p \in tmp_obj_list \cap Obj
    /\ cur' = p
    /\ DropSlots(p)
    /\ UNCHANGED <<phase, todo, gc_obj_list, tmp_obj_list, zero_list, memory,
                   mark>>

(* An Other whose last reference was among the fields is freed on the spot,*)
(* with what it refers to: free_var_ref, js_free_shape0, JS_FreeContext,   *)
(* js_async_function_free0.  remove_gc_object takes it from its list.      *)
FreeOther(o) ==
    /\ phase = "free" /\ cur # NoPtr
    /\ o \in memory \cap Other /\ refCount[o] = 0
    /\ DropSlots(o)
    /\ memory' = memory \ {o}
    /\ gc_obj_list' = gc_obj_list \ {o}
    /\ tmp_obj_list' = tmp_obj_list \ {o}
    /\ zero_list' = zero_list \ {o}
    /\ UNCHANGED <<phase, todo, mark, cur>>

(* Fault: the memory goes although other garbage still refers to it.       *)
EndFreeObject_Always ==
    /\ phase = "free" /\ cur # NoPtr
    /\ \A o \in memory \cap Other : refCount[o] > 0
    /\ tmp_obj_list' = tmp_obj_list \ {cur}
    /\ memory' = memory \ {cur}
    /\ cur' = NoPtr
    /\ UNCHANGED <<phase, todo, gc_obj_list, zero_list, mark, refCount, prop>>

(* Fault: the object stays on the list the loop takes its head from.       *)
EndFreeObject_Listed ==
    /\ phase = "free" /\ cur # NoPtr
    /\ \A o \in memory \cap Other : refCount[o] > 0
    /\ zero_list' = IF refCount[cur] # 0 THEN zero_list \cup {cur} ELSE zero_list
    /\ cur' = NoPtr
    /\ UNCHANGED <<phase, todo, gc_obj_list, tmp_obj_list, memory, mark, refCount,
                   prop>>

(* Fault: the object leaves its list but its memory stays.                 *)
EndFreeObject_Unlinks ==
    /\ phase = "free" /\ cur # NoPtr
    /\ \A o \in memory \cap Other : refCount[o] > 0
    /\ tmp_obj_list' = tmp_obj_list \ {cur}
    /\ memory' = IF refCount[cur] # 0 THEN memory ELSE memory \ {cur}
    /\ cur' = NoPtr
    /\ UNCHANGED <<phase, todo, gc_obj_list, zero_list, mark, refCount, prop>>

(* The end of free_object: an object that other garbage still refers to    *)
(* stays allocated, without its fields, on the zero reference count list.  *)
EndFreeObject ==
    /\ phase = "free" /\ cur # NoPtr
    /\ \A o \in memory \cap Other : refCount[o] > 0
    /\ tmp_obj_list' = tmp_obj_list \ {cur}
    /\ IF refCount[cur] # 0
       THEN zero_list' = zero_list \cup {cur} /\ UNCHANGED memory
       ELSE memory' = memory \ {cur} /\ UNCHANGED zero_list
    /\ cur' = NoPtr
    /\ UNCHANGED <<phase, todo, gc_obj_list, mark, refCount, prop>>

(* The default case of the loop: an Other is put aside, because an object  *)
(* of the garbage refers to it and will free it.                           *)
SkipOther(o) ==
    /\ phase = "free" /\ cur = NoPtr
    /\ o \in tmp_obj_list \cap Other
    /\ tmp_obj_list' = tmp_obj_list \ {o}
    /\ zero_list' = zero_list \cup {o}
    /\ UNCHANGED <<phase, todo, gc_obj_list, memory, mark, refCount, prop, cur>>

(* The loop is over; gc_phase is JS_GC_PHASE_NONE again.                   *)
EndFree ==
    /\ phase = "free" /\ cur = NoPtr /\ tmp_obj_list = {}
    /\ phase' = "release"
    /\ UNCHANGED <<todo, gc_obj_list, tmp_obj_list, zero_list, memory, mark,
                   refCount, prop, cur>>

(* The last loop of gc_free_cycles, and init_list_head.                    *)
ReleaseZombies ==
    /\ phase = "release"
    /\ phase' = "idle"
    /\ memory' = memory \ zero_list
    /\ refCount' = [p \in Ptr |-> IF p \in zero_list THEN 0 ELSE refCount[p]]
    /\ mark' = [p \in Ptr |-> IF p \in memory' THEN mark[p] ELSE 0]
    /\ zero_list' = {}
    /\ UNCHANGED <<todo, gc_obj_list, tmp_obj_list, prop, cur>>

CollectorStep ==
    \/ \E p \in Ptr : \/ gc_decref(p)
                      \/ gc_scan(p)
                      \/ gc_scan_restore(p)
                      \/ FreeFields(p)
                      \/ FreeOther(p)
                      \/ SkipOther(p)
    \/ EndDecref
    \/ EndScan
    \/ EndRestore
    \/ EndFreeObject
    \/ EndFree
    \/ ReleaseZombies

Next == StartGC \/ CollectorStep

(* JS_RunGC is one C function: once called, it runs to its end.            *)
Spec == Init /\ [][Next]_vars /\ WF_vars(CollectorStep)

---------------------------------------------------------------------------
(* The assertions of the code.  gc_decref: the node it comes to is not     *)
(* marked, and no child's count drops below zero.  gc_scan: what is on     *)
(* gc_obj_list has references.  gc_free_cycles: only objects are left on   *)
(* the zero reference count list, so each Other of the garbage was freed   *)
(* by an object that referred to it.                                       *)
CodeAsserts ==
    /\ phase = "decref" =>
          \A p \in todo : /\ mark[p] = 0
                          /\ \A q \in Ptr : refCount[q] >= mark_children(p, q)
    /\ phase = "scan" => \A p \in gc_obj_list : refCount[p] > 0
    /\ phase = "release" => zero_list \subseteq Obj

(* list_for_each_safe in gc_decref remembers the next element while the    *)
(* children of the current one are moved to another list: an element whose *)
(* turn is still to come must not be moved, or the loop would go on in the *)
(* wrong list and leave references uncounted.                              *)
NextElementStays == phase \in {"decref", "scan"} => todo \subseteq gc_obj_list

(* Garbage is freed object by object, in any order, and its objects refer  *)
(* to each other: free_object must find the memory of whatever a slot that *)
(* is not dropped yet refers to, and a listed object must be allocated.    *)
NoDanglingSlot ==
    /\ \A x \in Slot : prop[x] # NoPtr => {x[1], prop[x]} \subseteq memory
    /\ gc_obj_list \cup tmp_obj_list \cup zero_list \subseteq memory

(* Between two collections every address that is allocated is on           *)
(* gc_obj_list: no zombie is forgotten, for nothing would ever free it.    *)
NothingForgotten == phase = "idle" => memory = gc_obj_list

---------------------------------------------------------------------------
(* The refinement: the passes change nothing that the abstract heap sees   *)
(* until gc_free_cycles begins, and then all the garbage is gone.          *)

(* The nodes whose slots gc_decref has taken off the counts, and gc_scan   *)
(* has not put back.                                                       *)
Decremented ==
    CASE phase = "decref"  -> (gc_obj_list \cup tmp_obj_list) \ todo
      [] phase = "scan"    -> todo \cup tmp_obj_list
      [] phase = "restore" -> todo
      [] OTHER             -> {}

Freeing == phase \in {"free", "release"}

AbstractLive == IF Freeing THEN gc_obj_list ELSE gc_obj_list \cup tmp_obj_list

AbstractProp ==
    [x \in Slot |-> IF x[1] \in AbstractLive THEN prop[x] ELSE NoPtr]

AbstractRefCount ==
    [p \in Ptr |->
        IF p \notin AbstractLive THEN 0
        ELSE refCount[p] + RefsFrom(Decremented, p)
             - (IF Freeing THEN RefsFrom(Ptr \ gc_obj_list, p) ELSE 0)]

Heap == INSTANCE QuickJSHeap
            WITH live <- AbstractLive, prop <- AbstractProp,
                 refCount <- AbstractRefCount, root <- [d \in {0} |-> NoPtr],
                 MaxDepth <- 0

(* The passes together are the one step QuickJSHeap!JS_RunGC: they free    *)
(* exactly what nothing outside the heap leads to, and every count of what *)
(* is kept is what it was, less the references the garbage held.           *)
ImplementsRunGC == [][Heap!JS_RunGC]_<<AbstractLive, AbstractProp, AbstractRefCount>>

(* A collection comes to its end, although gc_scan adds to the list it     *)
(* walks along and gc_free_cycles waits for a list that frees make longer. *)
CollectionEnds == phase # "idle" ~> phase = "idle"
=============================================================================
