------------------------ MODULE QuickJSWrapperProofs ------------------------
(* The safety properties of QuickJSWrapper, for every number of addresses, *)
(* names, handles, invocations and nested callbacks.                       *)
EXTENDS QuickJSWrapper, FiniteSetTheorems, TLAPS

---------------------------------------------------------------------------
(* Facts about the operators of QuickJSHeap.                               *)

(* 1 if the value a is a reference to b, 0 if it is not.                   *)
Is(a, b) == IF a = b THEN 1 ELSE 0

(* Counting the slots that hold p gives a natural number.                  *)
LEMMA CountIsNat ==
    ASSUME NEW D, NEW T, IsFiniteSet(D), NEW f \in [D -> T], NEW p
    PROVE  Count(f, p) \in Nat
  <1>1. IsFiniteSet({x \in DOMAIN f : f[x] = p})
    BY FS_Subset
  <1> QED
    BY <1>1, FS_CardinalityType DEF Count

(* Storing v in one slot moves one reference from the old value to v.      *)
LEMMA CountUpdate ==
    ASSUME NEW D, NEW T, IsFiniteSet(D), NEW f \in [D -> T], NEW g \in [D -> T],
           NEW x \in D, \A y \in D : y # x => g[y] = f[y], NEW p
    PROVE  Count(g, p) = Count(f, p) + Is(g[x], p) - Is(f[x], p)
  <1> DEFINE S == {y \in DOMAIN f : f[y] = p}
             U == {y \in DOMAIN g : g[y] = p}
             v == g[x]
  <1>1. IsFiniteSet(S) /\ IsFiniteSet(U)
    BY FS_Subset
  <1>2. Cardinality(S) \in Nat /\ Cardinality(U) \in Nat
    BY <1>1, FS_CardinalityType
  <1>3. CASE v = p /\ f[x] = p
    <2>1. U = S
      BY <1>3
    <2> QED
      BY <2>1, <1>2, <1>3 DEF Count, Is
  <1>4. CASE v # p /\ f[x] # p
    <2>1. U = S
      BY <1>4
    <2> QED
      BY <2>1, <1>2, <1>4 DEF Count, Is
  <1>5. CASE v = p /\ f[x] # p
    <2>1. U = S \cup {x} /\ x \notin S
      BY <1>5
    <2>2. Cardinality(U) = Cardinality(S) + 1
      BY <2>1, <1>1, FS_AddElement
    <2> QED
      BY <2>2, <1>2, <1>5 DEF Count, Is
  <1>6. CASE v # p /\ f[x] = p
    <2>1. U = S \ {x} /\ x \in S
      BY <1>6
    <2>2. Cardinality(U) = Cardinality(S) - 1
      BY <2>1, <1>1, FS_RemoveElement
    <2> QED
      BY <2>2, <1>2, <1>6 DEF Count, Is
  <1> QED
    BY <1>3, <1>4, <1>5, <1>6

(* JS_DupValue adds one reference to its argument and to nothing else.     *)
LEMMA DupValue ==
    ASSUME NEW rc \in [Ptr -> Int], NEW v \in Value
    PROVE  /\ JS_DupValue(rc, v) \in [Ptr -> Int]
           /\ \A p \in Ptr : JS_DupValue(rc, v)[p] = rc[p] + Is(v, p)
  BY HeapAssumption DEF JS_DupValue, Value, Is

(* JS_FreeValue takes one reference from its argument and nothing else.    *)
LEMMA FreeValueRc ==
    ASSUME NEW rc \in [Ptr -> Int], NEW v \in Value
    PROVE  /\ JS_FreeValue(rc, v) \in [Ptr -> Int]
           /\ \A p \in Ptr : JS_FreeValue(rc, v)[p] = rc[p] - Is(v, p)
  BY HeapAssumption DEF JS_FreeValue, Value, Is

(* Freeing what was just duplicated restores the counts.                   *)
LEMMA DupFree ==
    ASSUME NEW rc \in [Ptr -> Int], NEW v \in Ptr
    PROVE  JS_FreeValue(JS_DupValue(rc, v), v) = rc
  <1> DEFINE up == JS_DupValue(rc, v)
             dn == JS_FreeValue(up, v)
  <1>1. v \in Value
    BY DEF Value
  <1>2. up \in [Ptr -> Int] /\ \A p \in Ptr : up[p] = rc[p] + Is(v, p)
    BY <1>1, DupValue
  <1> HIDE DEF up
  <1>3. dn \in [Ptr -> Int] /\ \A p \in Ptr : dn[p] = up[p] - Is(v, p)
    BY <1>1, <1>2, FreeValueRc
  <1> HIDE DEF dn
  <1>4. \A p \in Ptr : dn[p] = rc[p]
    BY <1>2, <1>3 DEF Is
  <1>5. dn = rc
    BY <1>3, <1>4
  <1> QED
    BY <1>5 DEF dn, up

(* The property slots are finitely many.                                   *)
LEMMA SlotFinite == IsFiniteSet(Slot)
  <1>1. IsFiniteSet(Name \cup {Intrinsic})
    BY HeapAssumption, FS_AddElement
  <1> QED
    BY <1>1, HeapAssumption, FS_Product DEF Slot

(* The frames are finitely many.                                           *)
LEMMA FrameFinite == IsFiniteSet(Frame)
  BY HeapAssumption, FS_Interval DEF Frame

(* Erasing the slots of the objects in S removes exactly the references    *)
(* they held.                                                              *)
LEMMA CountErase ==
    ASSUME NEW f \in [Slot -> Value], NEW S, NEW p \in Ptr
    PROVE  Count([x \in Slot |-> IF x[1] \in S THEN NoPtr ELSE f[x]], p)
             = Count(f, p) - Cardinality({x \in Slot : x[1] \in S /\ f[x] = p})
  <1> DEFINE A == {x \in Slot : f[x] = p}
             B == {x \in Slot : x[1] \in S /\ f[x] = p}
             g == [x \in Slot |-> IF x[1] \in S THEN NoPtr ELSE f[x]]
  <1>1. IsFiniteSet(A) /\ IsFiniteSet(B)
    BY SlotFinite, FS_Subset
  <1>2. {x \in DOMAIN g : g[x] = p} = A \ B
    BY HeapAssumption
  <1>3. {x \in DOMAIN f : f[x] = p} = A
    OBVIOUS
  <1>4. A \cap B = B
    OBVIOUS
  <1>5. Cardinality(A \ B) = Cardinality(A) - Cardinality(A \cap B)
    BY <1>1, FS_Difference
  <1> QED
    BY <1>2, <1>3, <1>4, <1>5 DEF Count

(* Storing a value in one property slot.                                   *)
LEMMA SlotUpdate ==
    ASSUME NEW f \in [Slot -> Value], NEW g \in [Slot -> Value],
           NEW x \in Slot, \A y \in Slot : y # x => g[y] = f[y], NEW p
    PROVE  Count(g, p) = Count(f, p) + Is(g[x], p) - Is(f[x], p)
  BY CountUpdate, SlotFinite

(* The same for the frames.                                                *)
LEMMA FrameUpdate ==
    ASSUME NEW f \in [Frame -> Value], NEW g \in [Frame -> Value],
           NEW x \in Frame, \A y \in Frame : y # x => g[y] = f[y], NEW p
    PROVE  Count(g, p) = Count(f, p) + Is(g[x], p) - Is(f[x], p)
  BY CountUpdate, FrameFinite

(* Storing v in p.n: slots and references afterwards.                      *)
LEMMA SetPropertyCount ==
    ASSUME NEW pr \in [Slot -> Value], NEW o \in Ptr, NEW n \in Name, NEW v \in Value
    PROVE  /\ JS_SetProperty(pr, o, n, v) \in [Slot -> Value]
           /\ <<o, n>> \in Slot
           /\ pr[<<o, n>>] \in Value
           /\ \A x \in Slot : JS_SetProperty(pr, o, n, v)[x] = IF x = <<o, n>> THEN v ELSE pr[x]
           /\ \A p : Count(JS_SetProperty(pr, o, n, v), p)
                       = Count(pr, p) + Is(v, p) - Is(pr[<<o, n>>], p)
  <1> DEFINE g == JS_SetProperty(pr, o, n, v)
             x0 == <<o, n>>
  <1>1. x0 \in Slot
    BY DEF Slot
  <1>2. g \in [Slot -> Value] /\ \A x \in Slot : g[x] = IF x = x0 THEN v ELSE pr[x]
    BY <1>1 DEF JS_SetProperty
  <1>3. ASSUME NEW p
        PROVE  Count(g, p) = Count(pr, p) + Is(v, p) - Is(pr[x0], p)
    <2> HIDE DEF g, x0
    <2>1. g[x0] = v /\ \A x \in Slot : x # x0 => g[x] = pr[x]
      BY <1>1, <1>2
    <2> QED
      BY <1>1, <1>2, <2>1, SlotUpdate
  <1> QED
    BY <1>1, <1>2, <1>3

(* Allocating q: its only slot in use refers to the context.               *)
LEMMA NewObjectCount ==
    ASSUME NEW pr \in [Slot -> Value], NEW rc \in [Ptr -> Int], NEW q \in Ptr,
           pr[<<q, Intrinsic>>] = NoPtr
    PROVE  /\ NewSlots(pr, q) \in [Slot -> Value]
           /\ \A p \in Ptr : Count(NewSlots(pr, q), p) = Count(pr, p) + Is(Ctx, p)
           /\ \A x \in Slot : NewSlots(pr, q)[x] = IF x = <<q, Intrinsic>> THEN Ctx ELSE pr[x]
           /\ JS_NewObject(rc, q) \in [Ptr -> Int]
           /\ \A p \in Ptr : JS_NewObject(rc, q)[p] = rc[p] + Is(Ctx, p) + Is(q, p)
  <1> DEFINE g == NewSlots(pr, q)
             x0 == <<q, Intrinsic>>
  <1>1. x0 \in Slot /\ Ctx \in Value /\ q \in Value
    BY HeapAssumption DEF Slot, Value
  <1>2. g \in [Slot -> Value] /\ \A x \in Slot : g[x] = IF x = x0 THEN Ctx ELSE pr[x]
    BY <1>1 DEF NewSlots
  <1>3. ASSUME NEW p \in Ptr
        PROVE  Count(g, p) = Count(pr, p) + Is(Ctx, p)
    <2>0. pr[x0] = NoPtr
      OBVIOUS
    <2> HIDE DEF g, x0
    <2>1. g[x0] = Ctx /\ \A x \in Slot : x # x0 => g[x] = pr[x]
      BY <1>1, <1>2
    <2>2. Count(g, p) = Count(pr, p) + Is(g[x0], p) - Is(pr[x0], p)
      BY <1>1, <1>2, <2>1, SlotUpdate
    <2>3. Count(pr, p) \in Nat
      BY CountIsNat, SlotFinite
    <2> QED
      BY <2>0, <2>1, <2>2, <2>3, HeapAssumption DEF Is
  <1>4. JS_NewObject(rc, q) \in [Ptr -> Int]
        /\ \A p \in Ptr : JS_NewObject(rc, q)[p] = rc[p] + Is(Ctx, p) + Is(q, p)
    <2>1. JS_DupValue(rc, Ctx) \in [Ptr -> Int]
          /\ \A p \in Ptr : JS_DupValue(rc, Ctx)[p] = rc[p] + Is(Ctx, p)
      BY <1>1, DupValue
    <2> QED
      BY <2>1, <1>1, DupValue DEF JS_NewObject
  <1> QED
    BY <1>2, <1>3, <1>4

(* Reach(R) is the least closed set that contains R.                       *)
LEMMA ReachLeast ==
    ASSUME NEW R \in SUBSET Ptr, NEW S \in SUBSET Ptr, R \subseteq S, Closed(S)
    PROVE  Reach(R) \subseteq S
  BY DEF Reach

(* Reach(R) contains R and is closed under following a slot.               *)
LEMMA ReachClosed ==
    ASSUME HeapTypeOK, NEW R \in SUBSET Ptr
    PROVE  /\ R \subseteq Reach(R)
           /\ Reach(R) \subseteq Ptr
           /\ Closed(Reach(R))
  <1>1. R \subseteq Reach(R) /\ Reach(R) \subseteq Ptr
    BY DEF Reach
  <1>2. SUFFICES ASSUME NEW x \in Slot, x[1] \in Reach(R), prop[x] # NoPtr
                 PROVE  prop[x] \in Reach(R)
    BY <1>1 DEF Closed
  <1>3. prop[x] \in Ptr
    BY <1>2 DEF HeapTypeOK, Value
  <1>4. ASSUME NEW S \in SUBSET Ptr, R \subseteq S, Closed(S)
        PROVE  prop[x] \in S
    <2>1. x[1] \in S
      BY <1>2, <1>4 DEF Reach
    <2> QED
      BY <2>1, <1>2, <1>4 DEF Closed
  <1> QED
    BY <1>1, <1>3, <1>4 DEF Reach

(* What is reachable from reachable objects is reachable.                  *)
LEMMA ReachMonotone ==
    ASSUME HeapTypeOK, NEW Q \in SUBSET Ptr, NEW R \in SUBSET Ptr, Q \subseteq Reach(R)
    PROVE  Reach(Q) \subseteq Reach(R)
  BY ReachClosed, ReachLeast

(* The references to p from outside the heap.                              *)
Excess(p) == refCount[p] - Count(prop, p)

(* Freeing a set of objects that only each other refer to leaves what is   *)
(* held from outside unchanged, and needs no count below zero.             *)
LEMMA FreeExcess ==
    ASSUME HeapTypeOK, NEW S \in SUBSET live, Free(S),
           \A x \in Slot : x[1] \notin S => prop[x] \notin S,
           \A p \in S : Excess(p) = 0
    PROVE  /\ \A p \in Ptr : refCount'[p] - Count(prop', p) = Excess(p)
           /\ prop' \in [Slot -> Value]
           /\ refCount' \in [Ptr -> Int]
  <1>1. prop' \in [Slot -> Value]
    BY DEF Free, HeapTypeOK, Value
  <1>2. \A p \in Ptr : Cardinality({x \in Slot : x[1] \in S /\ prop[x] = p}) \in Nat
    <2> TAKE p \in Ptr
    <2>1. IsFiniteSet({x \in Slot : x[1] \in S /\ prop[x] = p})
      BY SlotFinite, FS_Subset
    <2> QED
      BY <2>1, FS_CardinalityType
  <1>3. refCount' \in [Ptr -> Int]
    BY <1>2 DEF Free, HeapTypeOK
  <1>4. ASSUME NEW p \in Ptr
        PROVE  refCount'[p] - Count(prop', p) = Excess(p)
    <2> DEFINE erased == Cardinality({x \in Slot : x[1] \in S /\ prop[x] = p})
    <2>1. Count(prop', p) = Count(prop, p) - erased
      BY CountErase DEF HeapTypeOK, Free
    <2>2. Count(prop, p) \in Nat /\ erased \in Nat /\ refCount[p] \in Nat
      BY <1>2, CountIsNat, SlotFinite DEF HeapTypeOK
    <2>3. CASE p \notin S
      <3>1. refCount'[p] = refCount[p] - erased
        BY <2>3 DEF Free
      <3> QED
        BY <3>1, <2>1, <2>2 DEF Excess
    <2>4. CASE p \in S
      <3>1. {x \in DOMAIN prop' : prop'[x] = p} = {}
        BY <2>4, HeapAssumption DEF Free, HeapTypeOK
      <3>2. Count(prop', p) = 0
        BY <3>1, FS_EmptySet DEF Count
      <3>3. refCount'[p] = 0
        BY <2>4 DEF Free
      <3> QED
        BY <3>2, <3>3, <2>4
    <2> QED
      BY <2>3, <2>4
  <1> QED
    BY <1>1, <1>3, <1>4

---------------------------------------------------------------------------
(* The ownership of references.                                            *)

(* The references to p that the wrapper and the JS stack own.              *)
Outside(p) == Count(root, p) + (IF p \in values THEN 1 ELSE 0) + lost[p]

(* The parts a reference count is made of are natural numbers.             *)
LEMMA OwnersTypes ==
    ASSUME TypeOK, NEW p \in Ptr
    PROVE  /\ Count(prop, p) \in Nat /\ Count(root, p) \in Nat
           /\ lost[p] \in Nat /\ Owners(p) \in Nat
           /\ Owners(p) = Count(prop, p) + Outside(p)
  <1>1. Count(prop, p) \in Nat
    BY CountIsNat, SlotFinite DEF TypeOK, HeapTypeOK
  <1>2. Count(root, p) \in Nat
    BY CountIsNat, FrameFinite DEF TypeOK, HeapTypeOK
  <1>3. lost[p] \in Nat
    BY WrapperAssumption DEF TypeOK
  <1> QED
    BY <1>1, <1>2, <1>3 DEF Owners, Outside

(* An object in a property slot is counted there.                          *)
LEMMA SlotHeld ==
    ASSUME TypeOK, NEW x \in Slot, NEW p \in Ptr, prop[x] = p
    PROVE  Count(prop, p) >= 1
  <1> DEFINE S == {y \in DOMAIN prop : prop[y] = p}
  <1>1. IsFiniteSet(S)
    BY SlotFinite, FS_Subset DEF TypeOK, HeapTypeOK
  <1>2. S # {}
    BY DEF TypeOK, HeapTypeOK
  <1> QED
    BY <1>1, <1>2, FS_EmptySet, FS_CardinalityType DEF Count

(* An object in a frame is counted there.                                  *)
LEMMA FrameHeld ==
    ASSUME TypeOK, NEW d \in Frame, NEW p \in Ptr, root[d] = p
    PROVE  Count(root, p) >= 1
  <1> DEFINE S == {y \in DOMAIN root : root[y] = p}
  <1>1. IsFiniteSet(S)
    BY FrameFinite, FS_Subset DEF TypeOK, HeapTypeOK
  <1>2. S # {}
    BY DEF TypeOK, HeapTypeOK
  <1> QED
    BY <1>1, <1>2, FS_EmptySet, FS_CardinalityType DEF Count

(* Whatever some piece of state refers to is live.                         *)
LEMMA ReferredIsLive ==
    ASSUME IndInv
    PROVE  /\ \A x \in Slot : prop[x] # NoPtr => prop[x] \in live
           /\ \A d \in Frame : root[d] # NoPtr => root[d] \in live
           /\ values \subseteq live
           /\ phase = "running" => Ctx \in live /\ Global \in live
  <1> USE DEF IndInv
  <1>1. \A p \in Ptr : Owners(p) >= 1 => p \in live
    BY OwnersTypes DEF RefBalance, HeapShape
  <1>2. ASSUME NEW x \in Slot, prop[x] # NoPtr
        PROVE  prop[x] \in live
    <2>1. prop[x] \in Ptr
      BY <1>2 DEF TypeOK, HeapTypeOK, Value
    <2> QED
      BY <2>1, <1>1, SlotHeld, OwnersTypes DEF Outside
  <1>3. ASSUME NEW d \in Frame, root[d] # NoPtr
        PROVE  root[d] \in live
    <2>1. root[d] \in Ptr
      BY <1>3 DEF TypeOK, HeapTypeOK, Value
    <2> QED
      BY <2>1, <1>1, FrameHeld, OwnersTypes DEF Outside
  <1>4. ASSUME NEW p \in values PROVE p \in live
    <2>1. p \in Ptr
      BY DEF TypeOK, Obj
    <2> QED
      BY <2>1, <1>1, OwnersTypes DEF Outside
  <1>5. ASSUME phase = "running" PROVE Ctx \in live /\ Global \in live
    <2>1. 0 \in Frame
      BY HeapAssumption DEF Frame
    <2>2. Ctx \in live
      BY <2>1, <1>3, <1>5, HeapAssumption DEF FrameShape
    <2>3. <<Ctx, Intrinsic>> \in Slot
      BY HeapAssumption DEF Slot
    <2> QED
      BY <2>2, <2>3, <1>2, HeapAssumption DEF HeapShape
  <1> QED
    BY <1>2, <1>3, <1>4, <1>5

(* A script can only name live objects, and never the context itself.      *)
LEMMA NameableLive ==
    ASSUME IndInv, phase = "running", NEW R \in SUBSET live
    PROVE  Nameable(R) \subseteq live \cap Obj
  <1> DEFINE start == R \cup {Global} \cup {root[d] : d \in 1 .. depth}
  <1>1. live \subseteq Ptr
    BY DEF IndInv, TypeOK, HeapTypeOK
  <1>2. \A d \in 1 .. depth : root[d] \in live
    <2> TAKE d \in 1 .. depth
    <2>1. d \in Frame \ {0} /\ d <= depth
      BY HeapAssumption DEF IndInv, TypeOK, Frame
    <2>2. root[d] # NoPtr
      BY <2>1, HeapAssumption DEF IndInv, FrameShape, Obj
    <2> QED
      BY <2>1, <2>2, ReferredIsLive
  <1>3. start \subseteq live
    BY <1>2, ReferredIsLive
  <1>4. Closed(live)
    BY ReferredIsLive DEF Closed
  <1>5. Reach(start) \subseteq live
    BY <1>1, <1>3, <1>4, ReachLeast
  <1> QED
    BY <1>1, <1>5 DEF Nameable, Obj

(* While the wrapper runs, the parts of the invariant that remain to be    *)
(* shown for a step.                                                       *)
LEMMA Assemble ==
    ASSUME phase' = "running",
           live' \subseteq Ptr, prop' \in [Slot -> Value], root' \in [Frame -> Value],
           refCount' \in [Ptr -> Int], RefBalance',
           values' \subseteq Obj, lost' \in [Ptr -> 0 .. MaxLost], depth' \in Frame,
           hnd' \in [Handle -> HandleState], inv' \in [Invocation -> InvState],
           HeapShape', FrameShape', HandleShape', HeldHandleValid'
    PROVE  IndInv'
  <1>1. ASSUME NEW p \in Ptr PROVE refCount'[p] \in Nat
    <2>1. Count(prop', p) \in Nat
      BY CountIsNat, SlotFinite
    <2>2. Count(root', p) \in Nat
      BY CountIsNat, FrameFinite
    <2>3. lost'[p] \in Nat
      BY WrapperAssumption
    <2> QED
      BY <2>1, <2>2, <2>3 DEF RefBalance, Owners
  <1>2. TypeOK'
    BY <1>1 DEF TypeOK, HeapTypeOK, Phase
  <1>3. DestroyFreesAll'
    BY DEF DestroyFreesAll
  <1> QED
    BY <1>2, <1>3 DEF IndInv

(* Steps that change only the object graph and the leaks.                  *)
LEMMA GraphStep ==
    ASSUME IndInv, phase = "running",
           UNCHANGED <<root, values, hnd, inv, depth, phase>>,
           live' \subseteq Ptr, prop' \in [Slot -> Value],
           lost' \in [Ptr -> 0 .. MaxLost],
           refCount' \in [Ptr -> Int], RefBalance', HeapShape'
    PROVE  IndInv'
  <1>1. FrameShape' /\ HandleShape' /\ HeldHandleValid'
    BY DEF IndInv, FrameShape, HandleShape, HeldHandleValid
  <1>2. root' \in [Frame -> Value] /\ values' \subseteq Obj /\ depth' \in Frame
        /\ hnd' \in [Handle -> HandleState] /\ inv' \in [Invocation -> InvState]
        /\ phase' = "running"
    BY DEF IndInv, TypeOK, HeapTypeOK
  <1> QED
    BY <1>1, <1>2, Assemble

(* Steps that retain an object q in values and make a handle of it.        *)
LEMMA RetainStep ==
    ASSUME IndInv, phase = "running", NEW h \in Handle, NEW q \in Obj,
           hnd' = [hnd EXCEPT ![h] = NewHandle(q, "values", 0)],
           values' = values \cup {q},
           UNCHANGED <<root, lost, inv, depth, phase>>,
           live' \subseteq Ptr, prop' \in [Slot -> Value],
           refCount' \in [Ptr -> Int], RefBalance', HeapShape'
    PROVE  IndInv'
  <1>1. NewHandle(q, "values", 0) \in HandleState
    BY HeapAssumption DEF NewHandle, HandleState, Value, Hold, Frame, Obj
  <1>2. root' \in [Frame -> Value] /\ values' \subseteq Obj /\ depth' \in Frame
        /\ hnd' \in [Handle -> HandleState] /\ inv' \in [Invocation -> InvState]
        /\ phase' = "running" /\ lost' \in [Ptr -> 0 .. MaxLost]
    BY <1>1 DEF IndInv, TypeOK, HeapTypeOK
  <1>3. FrameShape'
    BY DEF IndInv, FrameShape
  <1>4. HandleShape' /\ HeldHandleValid'
    BY DEF IndInv, TypeOK, HandleShape, HeldHandleValid, NewHandle
  <1> QED
    BY <1>2, <1>3, <1>4, Assemble

(* evaluate, getProperty and call: a reference to a live object q is       *)
(* duplicated and handed to toJavaObject.                                  *)
LEMMA RetainLive ==
    ASSUME IndInv, phase = "running", NEW h \in Handle, NEW q \in live \cap Obj,
           toJavaObject(JS_DupValue(refCount, q), q),
           hnd' = [hnd EXCEPT ![h] = NewHandle(q, "values", 0)],
           UNCHANGED <<live, prop, root, lost, inv, depth, phase>>
    PROVE  IndInv'
  <1>1. JS_DupValue(refCount, q) \in [Ptr -> Int]
        /\ \A p \in Ptr : JS_DupValue(refCount, q)[p] = refCount[p] + Is(q, p)
    BY DupValue DEF IndInv, TypeOK, HeapTypeOK, Obj, Value
  <1>2. refCount' \in [Ptr -> Int]
        /\ \A p \in Ptr : refCount'[p] =
              refCount[p] + Is(q, p) - (IF p \in values THEN Is(q, p) ELSE 0)
    <2> DEFINE rc == JS_DupValue(refCount, q)
    <2>1. refCount' = IF q \in values THEN JS_FreeValue(rc, q) ELSE rc
      BY DEF toJavaObject
    <2>0. rc \in [Ptr -> Int] /\ \A p \in Ptr : rc[p] = refCount[p] + Is(q, p)
      BY <1>1
    <2> HIDE DEF rc
    <2>2. q \in Value
      BY DEF Obj, Value
    <2>3. JS_FreeValue(rc, q) \in [Ptr -> Int]
          /\ \A p \in Ptr : JS_FreeValue(rc, q)[p] = rc[p] - Is(q, p)
      BY <2>0, <2>2, FreeValueRc
    <2> QED
      BY <2>0, <2>1, <2>3 DEF IndInv, TypeOK, HeapTypeOK, Is
  <1>3. RefBalance'
    BY <1>2, OwnersTypes DEF IndInv, RefBalance, Owners, toJavaObject, Is
  <1>4. HeapShape'
    <2>1. \A p \in Ptr \ live : refCount'[p] = 0
      BY <1>2 DEF IndInv, HeapShape, Is
    <2> QED
      BY <2>1 DEF IndInv, HeapShape
  <1>5. live' \subseteq Ptr /\ prop' \in [Slot -> Value] /\ values' = values \cup {q}
    BY DEF IndInv, TypeOK, HeapTypeOK, toJavaObject
  <1> QED
    BY <1>2, <1>3, <1>4, <1>5, RetainStep

(* evaluate with an object of the heap as its result keeps the invariant.  *)
LEMMA EvaluateInv ==
    ASSUME IndInv, NEW h \in Handle, NEW q \in ScriptObject, Evaluate(h, q)
    PROVE  IndInv'
  BY NameableLive, RetainLive DEF Evaluate, ScriptObject, Idle

(* call with an object result keeps the invariant.                         *)
LEMMA CallInv ==
    ASSUME IndInv, NEW f \in Handle, NEW h \in Handle, NEW q \in Obj, Call(f, q, h)
    PROVE  IndInv'
  BY NameableLive, RetainLive DEF Call, Idle, Usable

(* getProperty keeps the invariant: what a slot holds is live.             *)
LEMMA GetPropertyInv ==
    ASSUME IndInv, NEW o \in Handle, NEW n \in Name, NEW h \in Handle,
           GetProperty(o, n, h)
    PROVE  IndInv'
  <1> DEFINE q == prop[<<hnd[o].ptr, n>>]
  <1>1. <<hnd[o].ptr, n>> \in Slot
    BY DEF GetProperty, Usable, IndInv, TypeOK, HeapTypeOK, Slot
  <1>2. q \in live \cap Obj
    BY <1>1, ReferredIsLive DEF GetProperty, Usable, IndInv, HeapShape, TypeOK, HeapTypeOK, Obj
  <1> QED
    BY <1>2, RetainLive DEF GetProperty, Idle

(* A new address: its count and its slots are empty.                       *)
LEMMA FreshEmpty ==
    ASSUME IndInv, NEW q \in Obj, Fresh(q)
    PROVE  /\ q \in Ptr /\ q # Ctx /\ q \notin live /\ q \notin values
           /\ refCount[q] = 0
           /\ prop[<<q, Intrinsic>>] = NoPtr
           /\ \A x \in Slot : prop[x] # q
           /\ prop \in [Slot -> Value] /\ refCount \in [Ptr -> Int]
           /\ live \subseteq Ptr /\ root \in [Frame -> Value]
           /\ lost \in [Ptr -> 0 .. MaxLost]
  <1>1. q \in Ptr /\ q # Ctx /\ q \notin live
    BY DEF Fresh, Obj
  <1>2. <<q, Intrinsic>> \in Slot
    BY <1>1 DEF Slot
  <1>3. prop[<<q, Intrinsic>>] = NoPtr /\ refCount[q] = 0
    BY <1>1, <1>2 DEF IndInv, HeapShape
  <1>4. \A x \in Slot : prop[x] # q
    BY <1>1, ReferredIsLive, HeapAssumption
  <1>5. q \notin values
    BY <1>1, ReferredIsLive
  <1> QED
    BY <1>1, <1>3, <1>4, <1>5 DEF IndInv, TypeOK, HeapTypeOK

(* The slots and the counts after q has been allocated.                    *)
LEMMA NewFacts ==
    ASSUME IndInv, NEW q \in Obj, Fresh(q)
    PROVE  /\ NewSlots(prop, q) \in [Slot -> Value]
           /\ \A p \in Ptr : Count(NewSlots(prop, q), p) = Count(prop, p) + Is(Ctx, p)
           /\ \A x \in Slot : NewSlots(prop, q)[x] = IF x = <<q, Intrinsic>> THEN Ctx ELSE prop[x]
           /\ JS_NewObject(refCount, q) \in [Ptr -> Int]
           /\ \A p \in Ptr : JS_NewObject(refCount, q)[p] = refCount[p] + Is(Ctx, p) + Is(q, p)
  <1>1. q \in Ptr /\ prop[<<q, Intrinsic>>] = NoPtr
        /\ prop \in [Slot -> Value] /\ refCount \in [Ptr -> Int]
    BY FreshEmpty
  <1> QED
    BY <1>1, NewObjectCount

(* A script or parseJSON that makes an object keeps the invariant.         *)
LEMMA EvaluateNewInv ==
    ASSUME IndInv, NEW h \in Handle, NEW q \in Obj, EvaluateNew(h, q)
    PROVE  IndInv'
  <1>1. Fresh(q) /\ phase = "running"
    BY DEF EvaluateNew, Idle
  <1>2. /\ prop' \in [Slot -> Value]
        /\ \A p \in Ptr : Count(prop', p) = Count(prop, p) + Is(Ctx, p)
        /\ \A x \in Slot : prop'[x] = IF x = <<q, Intrinsic>> THEN Ctx ELSE prop[x]
    BY <1>1, NewFacts DEF EvaluateNew
  <1>3. /\ refCount' \in [Ptr -> Int]
        /\ \A p \in Ptr : refCount'[p] = refCount[p] + Is(Ctx, p) + Is(q, p)
    BY <1>1, FreshEmpty, NewFacts DEF EvaluateNew, toJavaObject
  <1>4. RefBalance'
    <2>1. values' = values \cup {q} /\ UNCHANGED <<root, lost>> /\ q \notin values
      BY <1>1, FreshEmpty DEF EvaluateNew, toJavaObject
    <2> QED
      BY <1>2, <1>3, <2>1, OwnersTypes DEF IndInv, RefBalance, Owners, Is
  <1>5. HeapShape'
    <2>1. \A p \in Ptr \ live' : refCount'[p] = 0
      BY <1>1, <1>3, ReferredIsLive DEF IndInv, HeapShape, EvaluateNew, Is
    <2>2. \A x \in Slot : x[1] \notin live' => prop'[x] = NoPtr
      BY <1>2 DEF IndInv, HeapShape, EvaluateNew
    <2>3. \A p \in Ptr, n \in Name : <<p, n>> \in Slot /\ <<p, n>> # <<q, Intrinsic>>
      BY HeapAssumption DEF Slot
    <2>4. <<Ctx, Intrinsic>> \in Slot /\ <<Ctx, Intrinsic>> # <<q, Intrinsic>>
      BY <1>1, FreshEmpty, HeapAssumption DEF Slot
    <2> QED
      BY <1>1, <1>2, <2>1, <2>2, <2>3, <2>4, ReferredIsLive DEF IndInv, HeapShape
  <1>6. live' \subseteq Ptr /\ values' = values \cup {q}
    BY <1>1, FreshEmpty DEF EvaluateNew, toJavaObject
  <1> QED
    BY <1>1, <1>2, <1>3, <1>4, <1>5, <1>6, RetainStep DEF EvaluateNew

(* A script that throws keeps the invariant: what onError's result leaves  *)
(* behind is counted in lost.                                              *)
LEMMA EvaluateThrowsInv ==
    ASSUME IndInv, NEW q \in ScriptObject, EvaluateThrows(q)
    PROVE  IndInv'
  <1>1. phase = "running" /\ q \in live \cap Obj
    BY NameableLive DEF EvaluateThrows, ScriptObject, Idle
  <1>2. /\ refCount' \in [Ptr -> Int]
        /\ \A p \in Ptr : refCount'[p] = refCount[p] + Is(q, p)
    BY <1>1, DupValue DEF EvaluateThrows, IndInv, TypeOK, HeapTypeOK, Obj, Value
  <1>3. /\ lost' \in [Ptr -> 0 .. MaxLost]
        /\ \A p \in Ptr : lost'[p] = lost[p] + Is(q, p)
    BY <1>1, WrapperAssumption DEF EvaluateThrows, IndInv, TypeOK, Obj, Is
  <1>4. RefBalance'
    BY <1>2, <1>3, OwnersTypes DEF EvaluateThrows, IndInv, RefBalance, Owners, Is
  <1>5. HeapShape'
    <2>1. \A p \in Ptr \ live : refCount'[p] = 0
      BY <1>1, <1>2 DEF IndInv, HeapShape, Is
    <2> QED
      BY <2>1 DEF IndInv, HeapShape, EvaluateThrows
  <1> QED
    BY <1>1, <1>2, <1>3, <1>4, <1>5, GraphStep DEF EvaluateThrows, IndInv, TypeOK, HeapTypeOK

(* getGlobalObject keeps the invariant: the context keeps the object.      *)
LEMMA GetGlobalObjectInv ==
    ASSUME IndInv, NEW h \in Handle, GetGlobalObject(h)
    PROVE  IndInv'
  <1>1. refCount' = refCount
    BY HeapAssumption DEF GetGlobalObject, JS_DupValue, JS_FreeValue, IndInv, TypeOK, HeapTypeOK
  <1>2. NewHandle(Global, "context", 0) \in HandleState
    BY HeapAssumption DEF NewHandle, HandleState, Value, Hold, Frame
  <1>3. HandleShape' /\ HeldHandleValid' /\ hnd' \in [Handle -> HandleState]
    BY <1>2 DEF GetGlobalObject, Idle, IndInv, TypeOK, HandleShape, HeldHandleValid, NewHandle
  <1>4. RefBalance' /\ HeapShape' /\ FrameShape'
    BY <1>1 DEF GetGlobalObject, IndInv, RefBalance, Owners, HeapShape, FrameShape
  <1> QED
    BY <1>1, <1>3, <1>4, Assemble DEF GetGlobalObject, Idle, IndInv, TypeOK, HeapTypeOK

(* Storing a live object or a primitive in a slot of a live object.        *)
LEMMA PutStep ==
    ASSUME IndInv, phase = "running", NEW o \in live, NEW n \in Name,
           NEW v \in (live \cap Obj) \cup {NoPtr},
           prop' = JS_SetProperty(prop, o, n, v),
           refCount' = JS_SetPropertyRc(JS_DupValue(refCount, v), prop, o, n),
           UNCHANGED <<live, root, values, lost, hnd, inv, depth, phase>>
    PROVE  IndInv'
  <1> DEFINE old == prop[<<o, n>>]
  <1>1. /\ o \in Ptr /\ v \in Value /\ v # Ctx
        /\ prop \in [Slot -> Value] /\ refCount \in [Ptr -> Int] /\ live \subseteq Ptr
        /\ lost \in [Ptr -> 0 .. MaxLost]
    BY HeapAssumption DEF IndInv, TypeOK, HeapTypeOK, Value, Obj
  <1>2. /\ prop' \in [Slot -> Value] /\ old \in Value /\ <<o, n>> \in Slot
        /\ \A x \in Slot : prop'[x] = IF x = <<o, n>> THEN v ELSE prop[x]
        /\ \A p : Count(prop', p) = Count(prop, p) + Is(v, p) - Is(old, p)
    BY <1>1, SetPropertyCount
  <1>3. /\ refCount' \in [Ptr -> Int]
        /\ \A p \in Ptr : refCount'[p] = refCount[p] + Is(v, p) - Is(old, p)
    <2> DEFINE rc == JS_DupValue(refCount, v)
    <2>1. rc \in [Ptr -> Int] /\ \A p \in Ptr : rc[p] = refCount[p] + Is(v, p)
      BY <1>1, DupValue
    <2>2. refCount' = JS_FreeValue(rc, old)
      BY DEF JS_SetPropertyRc
    <2>3. old \in Value
      BY <1>2
    <2> HIDE DEF rc, old
    <2>4. refCount' \in [Ptr -> Int] /\ \A p \in Ptr : refCount'[p] = rc[p] - Is(old, p)
      BY <2>1, <2>2, <2>3, FreeValueRc
    <2> QED
      BY <1>1, <2>1, <2>4 DEF Is
  <1>4. RefBalance'
    <2> SUFFICES ASSUME NEW p \in Ptr PROVE refCount'[p] = Owners(p)'
      BY DEF RefBalance
    <2>1. refCount[p] = Owners(p) /\ Owners(p) \in Nat
          /\ Count(prop, p) \in Nat /\ Count(root, p) \in Nat /\ lost[p] \in Nat
      BY OwnersTypes DEF IndInv, RefBalance
    <2> HIDE DEF old
    <2>2. Count(prop', p) = Count(prop, p) + Is(v, p) - Is(old, p)
          /\ refCount'[p] = refCount[p] + Is(v, p) - Is(old, p)
      BY <1>2, <1>3
    <2> QED
      BY <2>1, <2>2 DEF Owners, Is
  <1>5. HeapShape'
    <2>1. \A p \in Ptr \ live : refCount'[p] = 0
      <3>1. old # NoPtr => old \in live
        BY <1>2, ReferredIsLive
      <3> QED
        BY <1>3, <3>1, HeapAssumption DEF IndInv, HeapShape, Is
    <2>2. \A x \in Slot : x[1] \notin live => prop'[x] = NoPtr
      BY <1>2 DEF IndInv, HeapShape
    <2>3. <<Ctx, Intrinsic>> \in Slot /\ <<Ctx, Intrinsic>> # <<o, n>>
      BY HeapAssumption DEF Slot
    <2>4. \A p \in Ptr, m \in Name : <<p, m>> \in Slot
      BY DEF Slot
    <2> QED
      BY <1>1, <1>2, <2>1, <2>2, <2>3, <2>4 DEF IndInv, HeapShape
  <1> QED
    BY <1>1, <1>2, <1>3, <1>4, <1>5, GraphStep

(* Storing a new object q in a slot of a live object, with or without      *)
(* leaking a reference to it.                                              *)
LEMMA PutNewStep ==
    ASSUME IndInv, phase = "running", NEW o \in live, NEW n \in Name,
           NEW q \in Obj, Fresh(q),
           live' = live \cup {q},
           prop' = JS_SetProperty(NewSlots(prop, q), o, n, q),
           lost' \in [Ptr -> 0 .. MaxLost],
           \A p \in Ptr : p # q => lost'[p] = lost[p],
           refCount' \in [Ptr -> Int],
           \A p \in Ptr : refCount'[p] = refCount[p] + Is(Ctx, p) + Is(q, p)
                              - Is(prop[<<o, n>>], p) + lost'[p] - lost[p],
           UNCHANGED <<root, values, hnd, inv, depth, phase>>
    PROVE  IndInv'
  <1> DEFINE old == prop[<<o, n>>]
             pr  == NewSlots(prop, q)
             x0  == <<q, Intrinsic>>
             x1  == <<o, n>>
  <1>1. /\ o \in Ptr /\ q \in Ptr /\ q \in Value /\ q # Ctx /\ q \notin live
        /\ live \subseteq Ptr
    BY FreshEmpty DEF Value
  <1>2. /\ pr \in [Slot -> Value]
        /\ \A p \in Ptr : Count(pr, p) = Count(prop, p) + Is(Ctx, p)
        /\ \A x \in Slot : pr[x] = IF x = x0 THEN Ctx ELSE prop[x]
    BY NewFacts
  <1>3. x0 \in Slot /\ x1 \in Slot /\ x0 # x1
    BY <1>1, HeapAssumption DEF Slot
  <1>4. pr[x1] = old
    BY <1>2, <1>3
  <1>5. /\ prop' \in [Slot -> Value]
        /\ \A x \in Slot : prop'[x] = IF x = x1 THEN q ELSE pr[x]
        /\ \A p : Count(prop', p) = Count(pr, p) + Is(q, p) - Is(pr[x1], p)
    <2> HIDE DEF pr
    <2>1. prop' = JS_SetProperty(pr, o, n, q)
      BY DEF pr
    <2> QED
      BY <1>1, <1>2, <2>1, SetPropertyCount
  <1>6. RefBalance'
    <2>1. \A p \in Ptr : Count(prop', p) = Count(prop, p) + Is(Ctx, p) + Is(q, p) - Is(old, p)
      BY <1>2, <1>4, <1>5
    <2>2. \A p \in Ptr : lost[p] \in Int /\ lost'[p] \in Int
      BY WrapperAssumption DEF IndInv, TypeOK
    <2> SUFFICES ASSUME NEW p \in Ptr PROVE refCount'[p] = Owners(p)'
      BY DEF RefBalance
    <2>3. refCount[p] = Owners(p) /\ Owners(p) \in Nat
          /\ Count(prop, p) \in Nat /\ Count(root, p) \in Nat /\ lost[p] \in Nat
      BY OwnersTypes DEF IndInv, RefBalance
    <2>4. refCount'[p] = refCount[p] + Is(Ctx, p) + Is(q, p) - Is(old, p) + lost'[p] - lost[p]
      OBVIOUS
    <2> HIDE DEF old
    <2> QED
      BY <2>1, <2>2, <2>3, <2>4 DEF Owners, Is
  <1>7. HeapShape'
    <2>1. \A p \in Ptr \ live' : refCount'[p] = 0
      <3>1. old # NoPtr => old \in live
        BY <1>3, ReferredIsLive
      <3>2. \A p \in Ptr : lost[p] \in Int /\ lost'[p] \in Int
        BY WrapperAssumption DEF IndInv, TypeOK
      <3>3. Ctx \in live
        BY ReferredIsLive
      <3> QED
        BY <3>1, <3>2, <3>3, HeapAssumption DEF IndInv, HeapShape, Is
    <2>2. \A x \in Slot : x[1] \notin live' => prop'[x] = NoPtr
      BY <1>2, <1>5 DEF IndInv, HeapShape
    <2>3. <<Ctx, Intrinsic>> \in Slot /\ <<Ctx, Intrinsic>> # x0 /\ <<Ctx, Intrinsic>> # x1
      BY <1>1, HeapAssumption DEF Slot
    <2>4. \A p \in Ptr, m \in Name : <<p, m>> \in Slot /\ <<p, m>> # x0
      BY HeapAssumption DEF Slot
    <2>5. Ctx \in live
      BY ReferredIsLive
    <2> QED
      BY <1>1, <1>2, <1>5, <2>1, <2>2, <2>3, <2>4, <2>5 DEF IndInv, HeapShape
  <1> QED
    BY <1>1, <1>5, <1>6, <1>7, GraphStep

(* An assignment of the script keeps the invariant.                        *)
LEMMA ScriptPutInv ==
    ASSUME IndInv, NEW p \in ScriptObject, NEW n \in Name,
           NEW v \in ScriptObject \cup {NoPtr}, ScriptPut(p, n, v)
    PROVE  IndInv'
  <1>1. phase = "running" /\ p \in live /\ v \in (live \cap Obj) \cup {NoPtr}
    BY NameableLive DEF ScriptPut, ScriptObject, Idle
  <1> QED
    BY <1>1, PutStep DEF ScriptPut

(* setProperty with an object or a primitive keeps the invariant.          *)
LEMMA SetPropertyInv ==
    ASSUME IndInv, NEW o \in Handle, NEW n \in Name, NEW v \in Obj \cup {NoPtr},
           SetProperty(o, n, v)
    PROVE  IndInv'
  <1>1. phase = "running" /\ hnd[o].ptr \in live /\ v \in (live \cap Obj) \cup {NoPtr}
    BY DEF SetProperty, Idle, Usable
  <1> QED
    BY <1>1, PutStep DEF SetProperty

(* The counts when a new object takes the place of the value in p.n.       *)
LEMMA PutNewRc ==
    ASSUME IndInv, NEW q \in Obj, Fresh(q), NEW o \in live, NEW n \in Name,
           NEW rc \in [Ptr -> Int]
    PROVE  /\ JS_SetPropertyRc(rc, prop, o, n) \in [Ptr -> Int]
           /\ \A p \in Ptr : JS_SetPropertyRc(rc, prop, o, n)[p] = rc[p] - Is(prop[<<o, n>>], p)
  <1>1. prop[<<o, n>>] \in Value
    BY SetPropertyCount, FreshEmpty DEF Value
  <1> QED
    BY <1>1, FreeValueRc DEF JS_SetPropertyRc

(* A script that stores a new object keeps the invariant.                  *)
LEMMA ScriptNewInv ==
    ASSUME IndInv, NEW p \in ScriptObject, NEW n \in Name, NEW q \in Obj,
           ScriptNew(p, n, q)
    PROVE  IndInv'
  <1>1. phase = "running" /\ p \in live /\ Fresh(q)
    BY NameableLive DEF ScriptNew, ScriptObject, Idle
  <1>2. /\ refCount' \in [Ptr -> Int]
        /\ \A r \in Ptr : refCount'[r] = JS_NewObject(refCount, q)[r] - Is(prop[<<p, n>>], r)
    BY <1>1, NewFacts, PutNewRc DEF ScriptNew
  <1>3. lost' = lost /\ lost \in [Ptr -> 0 .. MaxLost]
    BY DEF ScriptNew, IndInv, TypeOK
  <1>4. \A r \in Ptr : refCount'[r] = refCount[r] + Is(Ctx, r) + Is(q, r)
                              - Is(prop[<<p, n>>], r) + lost'[r] - lost[r]
    BY <1>1, <1>2, <1>3, NewFacts, WrapperAssumption DEF IndInv, TypeOK, HeapTypeOK, Is
  <1> QED
    BY <1>1, <1>2, <1>3, <1>4, PutNewStep DEF ScriptNew

(* setProperty with a JSCallFunction keeps the invariant.                  *)
LEMMA SetPropertyCallbackInv ==
    ASSUME IndInv, NEW o \in Handle, NEW n \in Name, NEW q \in Obj,
           SetPropertyCallback(o, n, q)
    PROVE  IndInv'
  <1> DEFINE p == hnd[o].ptr
  <1>1. phase = "running" /\ p \in live /\ Fresh(q)
    BY DEF SetPropertyCallback, Idle, Usable
  <1>2. /\ refCount' \in [Ptr -> Int]
        /\ \A r \in Ptr : refCount'[r] = JS_NewObject(refCount, q)[r] - Is(prop[<<p, n>>], r)
    BY <1>1, NewFacts, PutNewRc DEF SetPropertyCallback
  <1>3. lost' = lost /\ lost \in [Ptr -> 0 .. MaxLost]
    BY DEF SetPropertyCallback, IndInv, TypeOK
  <1>4. \A r \in Ptr : refCount'[r] = refCount[r] + Is(Ctx, r) + Is(q, r)
                              - Is(prop[<<p, n>>], r) + lost'[r] - lost[r]
    BY <1>1, <1>2, <1>3, NewFacts, WrapperAssumption DEF IndInv, TypeOK, HeapTypeOK, Is
  <1> QED
    BY <1>1, <1>2, <1>3, <1>4, PutNewStep DEF SetPropertyCallback

(* One more reference to a new object, that nobody will give back.         *)
LEMMA LeakRc ==
    ASSUME IndInv, NEW q \in Obj, Fresh(q), lost[q] < MaxLost
    PROVE  /\ JS_DupValue(JS_NewObject(refCount, q), q) \in [Ptr -> Int]
           /\ \A r \in Ptr : JS_DupValue(JS_NewObject(refCount, q), q)[r]
                                = refCount[r] + Is(Ctx, r) + Is(q, r) + Is(q, r)
           /\ [lost EXCEPT ![q] = @ + 1] \in [Ptr -> 0 .. MaxLost]
           /\ \A r \in Ptr : [lost EXCEPT ![q] = @ + 1][r] = lost[r] + Is(q, r)
  <1>1. q \in Ptr /\ q \in Value /\ lost \in [Ptr -> 0 .. MaxLost]
    BY FreshEmpty DEF Value
  <1>2. /\ JS_NewObject(refCount, q) \in [Ptr -> Int]
        /\ \A r \in Ptr : JS_NewObject(refCount, q)[r] = refCount[r] + Is(Ctx, r) + Is(q, r)
    BY NewFacts
  <1>3. /\ [lost EXCEPT ![q] = @ + 1] \in [Ptr -> 0 .. MaxLost]
        /\ \A r \in Ptr : [lost EXCEPT ![q] = @ + 1][r] = lost[r] + Is(q, r)
    BY <1>1, WrapperAssumption DEF Is
  <1> QED
    BY <1>1, <1>2, <1>3, DupValue

(* JSArray.set with a JSCallFunction keeps the invariant, with one leak.   *)
LEMMA SetElementCallbackInv ==
    ASSUME IndInv, NEW o \in Handle, NEW n \in Name, NEW q \in Obj,
           SetElementCallback(o, n, q)
    PROVE  IndInv'
  <1> DEFINE p == hnd[o].ptr
  <1>1. phase = "running" /\ p \in live /\ Fresh(q) /\ lost[q] < MaxLost
    BY DEF SetElementCallback, Idle, Usable
  <1>2. /\ refCount' \in [Ptr -> Int]
        /\ \A r \in Ptr : refCount'[r] =
              JS_DupValue(JS_NewObject(refCount, q), q)[r] - Is(prop[<<p, n>>], r)
    BY <1>1, LeakRc, PutNewRc DEF SetElementCallback
  <1>3. lost' \in [Ptr -> 0 .. MaxLost] /\ \A r \in Ptr : lost'[r] = lost[r] + Is(q, r)
    BY <1>1, LeakRc DEF SetElementCallback
  <1>4. \A r \in Ptr : refCount'[r] = refCount[r] + Is(Ctx, r) + Is(q, r)
                              - Is(prop[<<p, n>>], r) + lost'[r] - lost[r]
    BY <1>1, <1>2, <1>3, LeakRc, WrapperAssumption DEF IndInv, TypeOK, HeapTypeOK, Is
  <1>5. \A r \in Ptr : r # q => lost'[r] = lost[r]
    BY <1>3, WrapperAssumption DEF IndInv, TypeOK, Is
  <1> QED
    BY <1>1, <1>2, <1>3, <1>4, <1>5, PutNewStep DEF SetElementCallback

(* A new object that is not stored anywhere: its counts are what was       *)
(* leaked of it.                                                           *)
LEMMA NewStep ==
    ASSUME IndInv, phase = "running", NEW q \in Obj, Fresh(q),
           live' = live \cup {q},
           prop' = NewSlots(prop, q),
           lost' \in [Ptr -> 0 .. MaxLost],
           \A p \in Ptr : p # q => lost'[p] = lost[p],
           refCount' \in [Ptr -> Int],
           \A p \in Ptr : refCount'[p] = refCount[p] + Is(Ctx, p) + lost'[p] - lost[p],
           UNCHANGED <<root, values, hnd, inv, depth, phase>>
    PROVE  IndInv'
  <1> DEFINE x0 == <<q, Intrinsic>>
  <1>1. q \in Ptr /\ q # Ctx /\ q \notin live /\ live \subseteq Ptr /\ x0 \in Slot
    BY FreshEmpty DEF Slot
  <1>2. /\ prop' \in [Slot -> Value]
        /\ \A p \in Ptr : Count(prop', p) = Count(prop, p) + Is(Ctx, p)
        /\ \A x \in Slot : prop'[x] = IF x = x0 THEN Ctx ELSE prop[x]
    BY NewFacts
  <1>3. \A p \in Ptr : lost[p] \in Int /\ lost'[p] \in Int
    BY WrapperAssumption DEF IndInv, TypeOK
  <1>4. RefBalance'
    <2> SUFFICES ASSUME NEW p \in Ptr PROVE refCount'[p] = Owners(p)'
      BY DEF RefBalance
    <2>1. refCount[p] = Owners(p) /\ Owners(p) \in Nat
          /\ Count(prop, p) \in Nat /\ Count(root, p) \in Nat /\ lost[p] \in Nat
      BY OwnersTypes DEF IndInv, RefBalance
    <2> QED
      BY <1>2, <1>3, <2>1 DEF Owners, Is
  <1>5. HeapShape'
    <2>1. Ctx \in live
      BY ReferredIsLive
    <2>2. \A p \in Ptr \ live' : refCount'[p] = 0
      BY <1>3, <2>1 DEF IndInv, HeapShape, Is
    <2>3. \A x \in Slot : x[1] \notin live' => prop'[x] = NoPtr
      BY <1>2 DEF IndInv, HeapShape
    <2>4. <<Ctx, Intrinsic>> \in Slot /\ <<Ctx, Intrinsic>> # x0
      BY <1>1, HeapAssumption DEF Slot
    <2>5. \A p \in Ptr, m \in Name : <<p, m>> \in Slot /\ <<p, m>> # x0
      BY HeapAssumption DEF Slot
    <2> QED
      BY <1>2, <2>1, <2>2, <2>3, <2>4, <2>5 DEF IndInv, HeapShape
  <1> QED
    BY <1>1, <1>2, <1>4, <1>5, GraphStep

(* call with a JSCallFunction argument keeps the invariant, whether the    *)
(* function returns or throws.                                             *)
LEMMA CallWithCallbackInv ==
    ASSUME IndInv, NEW p \in ScriptObject \cup {NoPtr}, NEW n \in Name,
           NEW f \in Handle, NEW q \in Obj, NEW returned \in BOOLEAN,
           CallWithCallback(f, q, p, n, returned)
    PROVE  IndInv'
  <1> DEFINE made   == JS_NewObject(refCount, q)
             stored == JS_SetPropertyRc(JS_DupValue(made, q), prop, p, n)
             before == IF p = NoPtr THEN made ELSE stored
             old    == prop[<<p, n>>]
  <1>1. phase = "running" /\ Fresh(q) /\ q \in Ptr /\ q \in Value
        /\ lost \in [Ptr -> 0 .. MaxLost] /\ refCount \in [Ptr -> Int]
    BY FreshEmpty DEF CallWithCallback, Idle, Value, Obj
  <1>2. p # NoPtr => p \in live
    BY <1>1, NameableLive DEF ScriptObject
  <1>3. /\ made \in [Ptr -> Int]
        /\ \A r \in Ptr : made[r] = refCount[r] + Is(Ctx, r) + Is(q, r)
    BY <1>1, NewFacts
  <1>4. /\ JS_DupValue(made, q) \in [Ptr -> Int]
        /\ \A r \in Ptr : JS_DupValue(made, q)[r] = made[r] + Is(q, r)
    <2> HIDE DEF made
    <2> QED
      BY <1>1, <1>3, DupValue
  <1>5. p # NoPtr =>
          /\ stored \in [Ptr -> Int]
          /\ \A r \in Ptr : stored[r] = made[r] + Is(q, r) - Is(old, r)
    <2> DEFINE rc == JS_DupValue(made, q)
    <2> HIDE DEF rc, made
    <2>1. p # NoPtr =>
            /\ JS_SetPropertyRc(rc, prop, p, n) \in [Ptr -> Int]
            /\ \A r \in Ptr : JS_SetPropertyRc(rc, prop, p, n)[r] = rc[r] - Is(old, r)
      BY <1>1, <1>2, <1>4, PutNewRc DEF rc
    <2>2. \A r \in Ptr : rc[r] = made[r] + Is(q, r)
      BY <1>4 DEF rc
    <2>3. stored = JS_SetPropertyRc(rc, prop, p, n)
      BY DEF rc
    <2> HIDE DEF stored, old
    <2> QED
      BY <1>3, <2>1, <2>2, <2>3 DEF Is
  <1>6. before \in [Ptr -> Int]
    BY <1>3, <1>5
  <1>7. /\ refCount' \in [Ptr -> Int]
        /\ \A r \in Ptr : refCount'[r] = before[r] - (IF returned THEN Is(q, r) ELSE 0)
    <2>1. refCount' = IF returned THEN JS_FreeValue(before, q) ELSE before
      BY DEF CallWithCallback
    <2> HIDE DEF before
    <2> QED
      BY <1>1, <1>6, <2>1, FreeValueRc DEF Is
  <1>8. /\ lost' \in [Ptr -> 0 .. MaxLost]
        /\ \A r \in Ptr : lost'[r] = lost[r] + (IF returned THEN 0 ELSE Is(q, r))
        /\ \A r \in Ptr : lost[r] \in Int /\ lost'[r] \in Int
    <2>1. CASE returned
      BY <1>1, <2>1, WrapperAssumption DEF CallWithCallback
    <2>2. CASE ~returned
      BY <1>1, <2>2, WrapperAssumption DEF CallWithCallback, Is
    <2> QED
      BY <2>1, <2>2
  <1>9. \A r \in Ptr : r # q => lost'[r] = lost[r]
    BY <1>8 DEF Is
  <1>10. CASE p = NoPtr
    <2>1. \A r \in Ptr : refCount'[r] = refCount[r] + Is(Ctx, r) + lost'[r] - lost[r]
      <3>1. \A r \in Ptr : before[r] = refCount[r] + Is(Ctx, r) + Is(q, r)
        BY <1>3, <1>10
      <3> HIDE DEF before
      <3> QED
        BY <1>1, <1>7, <1>8, <3>1 DEF Is
    <2>2. prop' = NewSlots(prop, q) /\ live' = live \cup {q}
          /\ UNCHANGED <<root, values, hnd, inv, depth, phase>>
      BY <1>10 DEF CallWithCallback
    <2> QED
      BY <1>1, <1>7, <1>8, <1>9, <2>1, <2>2, NewStep
  <1>11. CASE p # NoPtr
    <2>1. \A r \in Ptr : refCount'[r] = refCount[r] + Is(Ctx, r) + Is(q, r)
                               - Is(old, r) + lost'[r] - lost[r]
      <3>1. \A r \in Ptr : before[r] = refCount[r] + Is(Ctx, r) + Is(q, r) + Is(q, r) - Is(old, r)
        BY <1>3, <1>5, <1>11
      <3> HIDE DEF before, old
      <3> QED
        BY <1>1, <1>7, <1>8, <3>1 DEF Is
    <2>2. prop' = JS_SetProperty(NewSlots(prop, q), p, n, q) /\ live' = live \cup {q}
          /\ UNCHANGED <<root, values, hnd, inv, depth, phase>>
      BY <1>11 DEF CallWithCallback
    <2> QED
      BY <1>1, <1>2, <1>7, <1>8, <1>9, <1>11, <2>1, <2>2, PutNewStep
  <1> QED
    BY <1>10, <1>11

(* Steps that only change what values retains, within live objects: the    *)
(* counts follow the map, and no handle says it is retained when it is not. *)
LEMMA ValuesStep ==
    ASSUME IndInv, phase = "running",
           values' \subseteq live \cap Obj,
           refCount' \in [Ptr -> Int],
           \A p \in Ptr : refCount'[p] = refCount[p] + (IF p \in values' THEN 1 ELSE 0)
                                                     - (IF p \in values THEN 1 ELSE 0),
           hnd' \in [Handle -> HandleState],
           inv' \in [Invocation -> InvState],
           \A h \in Handle :
               /\ hnd'[h].hold = "values" => hnd'[h].same /\ hnd'[h].ptr \in values'
               /\ hnd'[h].hold \in {"frame", "context"} => hnd'[h] = hnd[h],
           UNCHANGED <<live, prop, root, lost, depth, phase>>
    PROVE  IndInv'
  <1>1. RefBalance'
    <2> SUFFICES ASSUME NEW p \in Ptr PROVE refCount'[p] = Owners(p)'
      BY DEF RefBalance
    <2>1. refCount[p] = Owners(p)
          /\ Count(prop, p) \in Nat /\ Count(root, p) \in Nat /\ lost[p] \in Nat
      BY OwnersTypes DEF IndInv, RefBalance
    <2> QED
      BY <2>1 DEF Owners
  <1>2. HeapShape'
    <2>1. \A p \in Ptr \ live : refCount'[p] = 0
      BY ReferredIsLive DEF IndInv, HeapShape
    <2> QED
      BY <2>1 DEF IndInv, HeapShape
  <1>3. FrameShape'
    BY DEF IndInv, FrameShape
  <1>4. HandleShape'
    BY DEF IndInv, HandleShape
  <1>5. HeldHandleValid'
    BY DEF IndInv, HeldHandleValid
  <1> QED
    BY <1>1, <1>2, <1>3, <1>4, <1>5, Assemble DEF IndInv, TypeOK, HeapTypeOK

(* freeValue by the client keeps the invariant.                            *)
LEMMA FreeValueInv ==
    ASSUME IndInv, NEW h \in Handle, FreeValue(h)
    PROVE  IndInv'
  <1> DEFINE p == hnd[h].ptr
  <1>1. phase = "running"
    BY DEF FreeValue, Idle
  <1>2. refCount \in [Ptr -> Int] /\ values \subseteq live /\ values \subseteq Obj
        /\ p \in Value /\ hnd \in [Handle -> HandleState]
    BY ReferredIsLive DEF IndInv, TypeOK, HeapTypeOK, HandleState
  <1>3. values' = values \ {p}
        /\ refCount' = IF p \in values THEN JS_FreeValue(refCount, p) ELSE refCount
    BY DEF FreeValue, freeValue
  <1>4. /\ refCount' \in [Ptr -> Int]
        /\ \A r \in Ptr : refCount'[r] = refCount[r] + (IF r \in values' THEN 1 ELSE 0)
                                                     - (IF r \in values THEN 1 ELSE 0)
    <2> HIDE DEF p
    <2> QED
      BY <1>2, <1>3, FreeValueRc DEF Is
  <1>5. hnd' = Released(hnd, values \cap {p}, "client")
    BY DEF FreeValue
  <1>6. hnd' \in [Handle -> HandleState]
    BY <1>2, <1>5 DEF Released, HandleState, Hold
  <1>7. \A k \in Handle :
            /\ hnd'[k].hold = "values" => hnd'[k].same /\ hnd'[k].ptr \in values'
            /\ hnd'[k].hold \in {"frame", "context"} => hnd'[k] = hnd[k]
    BY <1>2, <1>3, <1>5 DEF Released, HandleState, IndInv, HeldHandleValid
  <1> QED
    BY <1>1, <1>2, <1>3, <1>4, <1>6, <1>7, ValuesStep DEF FreeValue, IndInv, TypeOK

(* Forgetting a handle keeps the invariant.                                *)
LEMMA DropHandleInv ==
    ASSUME IndInv, NEW h \in Handle, DropHandle(h)
    PROVE  IndInv'
  <1>1. NoHandle \in HandleState
    BY HeapAssumption DEF NoHandle, HandleState, Value, Hold, Frame
  <1>2. TypeOK'
    BY <1>1 DEF IndInv, TypeOK, HeapTypeOK, DropHandle
  <1>3. RefBalance' /\ HeapShape' /\ FrameShape' /\ DestroyFreesAll'
    BY DEF IndInv, RefBalance, Owners, HeapShape, FrameShape, DestroyFreesAll, DropHandle
  <1>4. HandleShape' /\ HeldHandleValid'
    BY DEF IndInv, TypeOK, HandleShape, HeldHandleValid, DropHandle, NoHandle
  <1> QED
    BY <1>2, <1>3, <1>4 DEF IndInv

(* The lookup of invokeFunction and invokeMethod keeps the invariant.      *)
LEMMA InvokeBeginInv ==
    ASSUME IndInv, NEW i \in Invocation, NEW o \in Obj \cup {NoPtr}, NEW n \in Name,
           InvokeBegin(i, o, n)
    PROVE  IndInv'
  <1> DEFINE recv == IF o = NoPtr THEN Global ELSE o
             f == prop[<<recv, n>>]
             new == [fn |-> f, owned |-> IF o = NoPtr THEN Global ELSE NoPtr,
                     level |-> depth, same |-> TRUE]
  <1>1. phase = "running" /\ recv \in Ptr /\ f # NoPtr
    BY HeapAssumption DEF InvokeBegin, Idle, Obj
  <1>2. <<recv, n>> \in Slot
    BY <1>1 DEF Slot
  <1>3. f \in live \cap Obj /\ f \in Value
    BY <1>1, <1>2, ReferredIsLive DEF IndInv, HeapShape, TypeOK, HeapTypeOK, Obj, Value
  <1>4. new \in InvState
    BY <1>3, HeapAssumption DEF InvState, IndInv, TypeOK, Value
  <1>5. inv' = [inv EXCEPT ![i] = new]
    BY DEF InvokeBegin
  <1>6. inv' \in [Invocation -> InvState]
    <2> HIDE DEF new
    <2> QED
      BY <1>4, <1>5 DEF IndInv, TypeOK
  <1>7. /\ values' = values \cup {f}
        /\ refCount' = IF f \in values THEN JS_FreeValue(JS_DupValue(refCount, f), f)
                       ELSE JS_DupValue(refCount, f)
        /\ UNCHANGED <<live, prop, root, lost, hnd, depth, phase>>
    BY DEF InvokeBegin, toJavaObject
  <1>8. /\ refCount' \in [Ptr -> Int]
        /\ \A r \in Ptr : refCount'[r] = refCount[r] + (IF r \in values' THEN 1 ELSE 0)
                                                     - (IF r \in values THEN 1 ELSE 0)
    <2> HIDE DEF f
    <2>1. refCount \in [Ptr -> Int] /\ f \in Ptr
      BY <1>3 DEF IndInv, TypeOK, HeapTypeOK
    <2>2. JS_FreeValue(JS_DupValue(refCount, f), f) = refCount
      BY <2>1, DupFree
    <2>3. JS_DupValue(refCount, f) \in [Ptr -> Int]
          /\ \A r \in Ptr : JS_DupValue(refCount, f)[r] = refCount[r] + Is(f, r)
      BY <1>3, <2>1, DupValue
    <2> QED
      BY <1>7, <2>1, <2>2, <2>3 DEF Is
  <1>9. \A h \in Handle :
            /\ hnd'[h].hold = "values" => hnd'[h].same /\ hnd'[h].ptr \in values'
            /\ hnd'[h].hold \in {"frame", "context"} => hnd'[h] = hnd[h]
    BY <1>7 DEF IndInv, HeldHandleValid
  <1>10. values' \subseteq live \cap Obj /\ hnd' \in [Handle -> HandleState]
    BY <1>3, <1>7, ReferredIsLive DEF IndInv, TypeOK
  <1> QED
    BY <1>1, <1>6, <1>7, <1>8, <1>9, <1>10, ValuesStep

(* The finally clause of invocation i, for the map vals, the counts rc and *)
(* the handles hs that its call left behind.                               *)
FinallyOf(i) ==
    \E vals \in SUBSET (live \cap Obj), rc \in [Ptr -> Int], hs \in [Handle -> HandleState] :
        /\ \A p \in Ptr : rc[p] = refCount[p] + (IF p \in vals THEN 1 ELSE 0)
                                            - (IF p \in values THEN 1 ELSE 0)
        /\ \A h \in Handle :
              /\ hs[h].hold = "values" => hs[h].same /\ hs[h].ptr \in vals
              /\ hs[h].hold \in {"frame", "context"} => hs[h] = hnd[h]
        /\ InvokeFinally(i, vals, rc, hs)

(* The finally clause keeps the invariant: it gives back what it drops.    *)
LEMMA InvokeFinallyInv ==
    ASSUME IndInv, phase = "running", NEW i \in Invocation, FinallyOf(i),
           UNCHANGED <<live, prop, root, lost, depth, phase>>
    PROVE  IndInv'
  <1>0. PICK vals \in SUBSET (live \cap Obj), rc \in [Ptr -> Int],
             hs \in [Handle -> HandleState] :
        /\ \A p \in Ptr : rc[p] = refCount[p] + (IF p \in vals THEN 1 ELSE 0)
                                            - (IF p \in values THEN 1 ELSE 0)
        /\ \A h \in Handle :
              /\ hs[h].hold = "values" => hs[h].same /\ hs[h].ptr \in vals
              /\ hs[h].hold \in {"frame", "context"} => hs[h] = hnd[h]
        /\ values' = vals \ {inv[i].owned, inv[i].fn}
        /\ refCount' = freeValue(freeValue(rc, vals, inv[i].owned),
                                 vals \ {inv[i].owned}, inv[i].fn)
        /\ hnd' = Released(hs, vals \cap {inv[i].owned, inv[i].fn}, "engine")
        /\ inv' = [inv EXCEPT ![i] = NoInv]
    BY DEF FinallyOf, InvokeFinally
  <1> DEFINE a == inv[i].owned
             b == inv[i].fn
             rc1 == freeValue(rc, vals, a)
  <1>1. a \in Value /\ b \in Value
    BY DEF IndInv, TypeOK, InvState
  <1>2. NoInv \in InvState
    BY HeapAssumption DEF NoInv, InvState, Value, Frame
  <1>3. inv' \in [Invocation -> InvState]
    BY <1>0, <1>2 DEF IndInv, TypeOK
  <1>4. /\ rc1 \in [Ptr -> Int]
        /\ \A p \in Ptr : rc1[p] = rc[p] - (IF p \in vals /\ p = a THEN 1 ELSE 0)
    <2> HIDE DEF a
    <2> QED
      BY <1>1, FreeValueRc DEF freeValue, Is
  <1>5. /\ refCount' \in [Ptr -> Int]
        /\ \A p \in Ptr : refCount'[p] =
              rc1[p] - (IF p \in vals /\ p # a /\ p = b THEN 1 ELSE 0)
    <2>1. refCount' = freeValue(rc1, vals \ {a}, b)
      BY <1>0
    <2> HIDE DEF a, b, rc1
    <2> QED
      BY <1>1, <1>4, <2>1, FreeValueRc DEF freeValue, Is
  <1>6. \A p \in Ptr : refCount'[p] = refCount[p] + (IF p \in values' THEN 1 ELSE 0)
                                                   - (IF p \in values THEN 1 ELSE 0)
    <2>1. values' = vals \ {a, b}
      BY <1>0
    <2>2. \A p \in Ptr : refCount[p] \in Int
      BY DEF IndInv, TypeOK, HeapTypeOK
    <2> HIDE DEF a, b, rc1
    <2> SUFFICES ASSUME NEW p \in Ptr
                 PROVE  refCount'[p] = refCount[p] + (IF p \in values' THEN 1 ELSE 0)
                                                   - (IF p \in values THEN 1 ELSE 0)
      OBVIOUS
    <2>3. rc[p] \in Int /\ rc[p] = refCount[p] + (IF p \in vals THEN 1 ELSE 0)
                                              - (IF p \in values THEN 1 ELSE 0)
      BY <1>0
    <2>4. rc1[p] = rc[p] - (IF p \in vals /\ p = a THEN 1 ELSE 0)
      BY <1>4
    <2>5. refCount'[p] = rc1[p] - (IF p \in vals /\ p # a /\ p = b THEN 1 ELSE 0)
      BY <1>5
    <2> QED
      BY <2>1, <2>2, <2>3, <2>4, <2>5
  <1>7. hnd' \in [Handle -> HandleState]
    BY <1>0 DEF Released, HandleState, Hold
  <1>8. \A h \in Handle :
            /\ hnd'[h].hold = "values" => hnd'[h].same /\ hnd'[h].ptr \in values'
            /\ hnd'[h].hold \in {"frame", "context"} => hnd'[h] = hnd[h]
    BY <1>0 DEF Released, HandleState
  <1> QED
    BY <1>0, <1>3, <1>5, <1>6, <1>7, <1>8, ValuesStep

(* InvokeEnd keeps the invariant.                                          *)
LEMMA InvokeEndInv ==
    ASSUME IndInv, NEW i \in Invocation, InvokeEnd(i)
    PROVE  IndInv'
  <1>1. /\ values \in SUBSET (live \cap Obj)
        /\ refCount \in [Ptr -> Int]
        /\ hnd \in [Handle -> HandleState]
    BY ReferredIsLive DEF IndInv, TypeOK, HeapTypeOK
  <1>2. \A p \in Ptr : refCount[p] = refCount[p] + (IF p \in values THEN 1 ELSE 0)
                                                  - (IF p \in values THEN 1 ELSE 0)
    BY <1>1
  <1>3. \A h \in Handle :
            /\ hnd[h].hold = "values" => hnd[h].same /\ hnd[h].ptr \in values
            /\ hnd[h].hold \in {"frame", "context"} => hnd[h] = hnd[h]
    BY DEF IndInv, HeldHandleValid
  <1>4. FinallyOf(i)
    <2> SUFFICES
        \E vals \in SUBSET (live \cap Obj), rc \in [Ptr -> Int], hs \in [Handle -> HandleState] :
          /\ \A p \in Ptr : rc[p] = refCount[p] + (IF p \in vals THEN 1 ELSE 0)
                                              - (IF p \in values THEN 1 ELSE 0)
          /\ \A h \in Handle :
                /\ hs[h].hold = "values" => hs[h].same /\ hs[h].ptr \in vals
                /\ hs[h].hold \in {"frame", "context"} => hs[h] = hnd[h]
          /\ InvokeFinally(i, vals, rc, hs)
      BY DEF FinallyOf
    <2> USE <1>1
    <2> WITNESS values \in SUBSET (live \cap Obj), refCount \in [Ptr -> Int],
                hnd \in [Handle -> HandleState]
    <2> QED
      BY <1>2, <1>3 DEF InvokeEnd
  <1> QED
    BY <1>4, InvokeFinallyInv DEF InvokeEnd, Idle

(* InvokeEndObject keeps the invariant: the result is retained before the  *)
(* finally clause runs.                                                    *)
LEMMA InvokeEndObjectInv ==
    ASSUME IndInv, NEW i \in Invocation, NEW h \in Handle, NEW q \in Obj,
           InvokeEndObject(i, h, q)
    PROVE  IndInv'
  <1> DEFINE V == values \cup {q}
             C == IF q \in values THEN refCount ELSE JS_DupValue(refCount, q)
             H == [hnd EXCEPT ![h] = NewHandle(q, "values", 0)]
  <1>1. phase = "running" /\ q \in live /\ q \in Ptr /\ q \in Value
    BY NameableLive DEF InvokeEndObject, Idle, Obj, Value
  <1>2. V \in SUBSET (live \cap Obj)
    BY <1>1, ReferredIsLive DEF IndInv, TypeOK
  <1>3. /\ C \in [Ptr -> Int]
        /\ \A p \in Ptr : C[p] = refCount[p] + (IF p \in V THEN 1 ELSE 0)
                                              - (IF p \in values THEN 1 ELSE 0)
    <2>1. refCount \in [Ptr -> Int]
      BY DEF IndInv, TypeOK, HeapTypeOK
    <2>2. JS_DupValue(refCount, q) \in [Ptr -> Int]
          /\ \A p \in Ptr : JS_DupValue(refCount, q)[p] = refCount[p] + Is(q, p)
      BY <1>1, <2>1, DupValue
    <2> QED
      BY <2>1, <2>2 DEF Is
  <1>4. H \in [Handle -> HandleState]
    <2>1. NewHandle(q, "values", 0) \in HandleState
      BY <1>1, HeapAssumption DEF NewHandle, HandleState, Hold, Frame
    <2> QED
      BY <2>1 DEF IndInv, TypeOK
  <1>5. \A k \in Handle :
            /\ H[k].hold = "values" => H[k].same /\ H[k].ptr \in V
            /\ H[k].hold \in {"frame", "context"} => H[k] = hnd[k]
    BY DEF IndInv, TypeOK, HeldHandleValid, NewHandle
  <1>6. InvokeFinally(i, V, C, H)
    BY DEF InvokeEndObject
  <1>7. FinallyOf(i)
    <2> SUFFICES
        \E vals \in SUBSET (live \cap Obj), rc \in [Ptr -> Int], hs \in [Handle -> HandleState] :
          /\ \A p \in Ptr : rc[p] = refCount[p] + (IF p \in vals THEN 1 ELSE 0)
                                              - (IF p \in values THEN 1 ELSE 0)
          /\ \A k \in Handle :
                /\ hs[k].hold = "values" => hs[k].same /\ hs[k].ptr \in vals
                /\ hs[k].hold \in {"frame", "context"} => hs[k] = hnd[k]
          /\ InvokeFinally(i, vals, rc, hs)
      BY DEF FinallyOf
    <2> HIDE DEF V, C, H
    <2> USE <1>2, <1>3, <1>4
    <2> WITNESS V \in SUBSET (live \cap Obj), C \in [Ptr -> Int],
                H \in [Handle -> HandleState]
    <2> QED
      BY <1>5, <1>6
  <1> QED
    BY <1>1, <1>7, InvokeFinallyInv DEF InvokeEndObject

(* Entering a callback: the frame above the current one holds q, live from *)
(* now on, and a handle says so.                                           *)
LEMMA EnterStep ==
    ASSUME IndInv, phase = "running", depth < MaxDepth, NEW h \in Handle, NEW q \in Obj,
           q \in live', live' \subseteq Ptr, prop' \in [Slot -> Value],
           refCount' \in [Ptr -> Int],
           \A p \in Ptr : refCount'[p] - Count(prop', p) = Excess(p) + Is(q, p),
           HeapShape',
           depth' = depth + 1,
           root' = [root EXCEPT ![depth + 1] = q],
           hnd' = [hnd EXCEPT ![h] = NewHandle(q, "frame", depth + 1)],
           UNCHANGED <<values, lost, inv, phase>>
    PROVE  IndInv'
  <1>1. /\ depth + 1 \in Frame \ {0} /\ depth \in Frame /\ q \in Value
        /\ root \in [Frame -> Value] /\ root[depth + 1] = NoPtr
    BY HeapAssumption DEF IndInv, TypeOK, HeapTypeOK, Frame, FrameShape, Value, Obj
  <1>2. root' \in [Frame -> Value] /\ root'[depth + 1] = q
        /\ \A d \in Frame : d # depth + 1 => root'[d] = root[d]
    BY <1>1
  <1>3. \A p : Count(root', p) = Count(root, p) + Is(q, p) - Is(NoPtr, p)
    <2> DEFINE d == depth + 1
    <2>1. d \in Frame /\ root[d] = NoPtr /\ root'[d] = q
          /\ \A y \in Frame : y # d => root'[y] = root[y]
      BY <1>1, <1>2
    <2> HIDE DEF d
    <2>2. \A p : Count(root', p) = Count(root, p) + Is(root'[d], p) - Is(root[d], p)
      BY <1>1, <1>2, <2>1, FrameUpdate
    <2> QED
      BY <2>1, <2>2
  <1>4. RefBalance'
    <2> SUFFICES ASSUME NEW p \in Ptr PROVE refCount'[p] = Owners(p)'
      BY DEF RefBalance
    <2>1. refCount[p] = Owners(p) /\ refCount[p] \in Int
          /\ Count(prop, p) \in Nat /\ Count(root, p) \in Nat /\ lost[p] \in Nat
      BY OwnersTypes DEF IndInv, RefBalance
    <2>2. Count(prop', p) \in Nat
      BY CountIsNat, SlotFinite
    <2>3. refCount'[p] - Count(prop', p) = refCount[p] - Count(prop, p) + Is(q, p)
      BY DEF Excess
    <2>4. Count(root', p) = Count(root, p) + Is(q, p)
      <3>1. Count(root', p) = Count(root, p) + Is(q, p) - Is(NoPtr, p)
        BY <1>3
      <3>2. Is(NoPtr, p) = 0 /\ Is(q, p) \in Int
        BY HeapAssumption DEF Is
      <3> QED
        BY <2>1, <3>1, <3>2
    <2>5. refCount'[p] \in Int
      OBVIOUS
    <2> QED
      BY <2>1, <2>2, <2>3, <2>4, <2>5 DEF Owners, Is
  <1>5. FrameShape'
    <2>1. root'[0] = root[0] /\ root[0] = Ctx
      BY <1>1, <1>2, HeapAssumption DEF IndInv, FrameShape, Frame
    <2>2. ASSUME NEW d \in Frame \ {0}
          PROVE  root'[d] \in IF d <= depth' THEN Obj ELSE {NoPtr}
      BY <1>1, <1>2, HeapAssumption DEF IndInv, FrameShape, Frame
    <2> QED
      BY <2>1, <2>2 DEF FrameShape
  <1>6. hnd' \in [Handle -> HandleState]
    <2>1. NewHandle(q, "frame", depth + 1) \in HandleState
      BY <1>1 DEF NewHandle, HandleState, Hold
    <2> QED
      BY <2>1 DEF IndInv, TypeOK
  <1>7. HandleShape'
    BY <1>1, HeapAssumption DEF IndInv, TypeOK, HandleShape, NewHandle, Frame
  <1>8. HeldHandleValid'
    <2> SUFFICES ASSUME NEW k \in Handle
                 PROVE  /\ hnd'[k].hold = "values"  => hnd'[k].same /\ hnd'[k].ptr \in values
                        /\ hnd'[k].hold = "frame"   => hnd'[k].same /\ root'[hnd'[k].level] = hnd'[k].ptr
                        /\ hnd'[k].hold = "context" => hnd'[k].same
      BY DEF HeldHandleValid
    <2>1. CASE k = h
      BY <1>2, <2>1 DEF IndInv, TypeOK, NewHandle
    <2>2. CASE k # h
      <3>1. hnd'[k] = hnd[k]
        BY <2>2 DEF IndInv, TypeOK
      <3>2. hnd[k].hold = "frame" => hnd[k].level \in Frame /\ hnd[k].level # depth + 1
        BY <1>1, HeapAssumption DEF IndInv, HandleShape, Frame
      <3> QED
        BY <1>2, <3>1, <3>2 DEF IndInv, HeldHandleValid
    <2> QED
      BY <2>1, <2>2
  <1> QED
    BY <1>1, <1>2, <1>4, <1>5, <1>6, <1>7, <1>8, Assemble DEF IndInv, TypeOK

(* JsFuncCall keeps the invariant: the frame owns the reference that was   *)
(* added, for an argument of the heap and for a new one.                   *)
LEMMA JsFuncCallInv ==
    ASSUME IndInv, NEW h \in Handle, NEW q \in Obj, JsFuncCall(h, q)
    PROVE  IndInv'
  <1>1. phase = "running" /\ depth < MaxDepth /\ q \in Ptr /\ q \in Value
        /\ live \subseteq Ptr /\ prop \in [Slot -> Value] /\ refCount \in [Ptr -> Int]
    BY DEF JsFuncCall, Idle, Obj, Value, IndInv, TypeOK, HeapTypeOK
  <1>2. \A p \in Ptr : Count(prop, p) \in Int
    BY OwnersTypes DEF IndInv
  <1>3. CASE q \in ScriptObject /\ refCount' = JS_DupValue(refCount, q) /\ UNCHANGED <<live, prop>>
    <2>1. q \in live
      BY <1>1, <1>3, NameableLive DEF ScriptObject
    <2>2. refCount' \in [Ptr -> Int] /\ \A p \in Ptr : refCount'[p] = refCount[p] + Is(q, p)
      BY <1>1, <1>3, DupValue
    <2>3. \A p \in Ptr : refCount'[p] - Count(prop', p) = Excess(p) + Is(q, p)
      BY <1>1, <1>2, <1>3, <2>2 DEF Excess, Is
    <2>4. \A p \in Ptr \ live : refCount'[p] = 0
      BY <2>1, <2>2 DEF IndInv, HeapShape, Is
    <2>5. HeapShape'
      BY <1>3, <2>4 DEF IndInv, HeapShape
    <2> QED
      BY <1>1, <1>3, <2>1, <2>2, <2>3, <2>5, EnterStep DEF JsFuncCall
  <1>4. CASE /\ Fresh(q) /\ live' = live \cup {q} /\ prop' = NewSlots(prop, q)
             /\ refCount' = JS_NewObject(refCount, q)
    <2>1. /\ prop' \in [Slot -> Value]
          /\ \A p \in Ptr : Count(prop', p) = Count(prop, p) + Is(Ctx, p)
          /\ \A x \in Slot : prop'[x] = IF x = <<q, Intrinsic>> THEN Ctx ELSE prop[x]
      BY <1>4, NewFacts
    <2>2. /\ refCount' \in [Ptr -> Int]
          /\ \A p \in Ptr : refCount'[p] = refCount[p] + Is(Ctx, p) + Is(q, p)
      BY <1>4, NewFacts
    <2>3. \A p \in Ptr : refCount'[p] - Count(prop', p) = Excess(p) + Is(q, p)
      BY <1>1, <1>2, <2>1, <2>2 DEF Excess, Is
    <2>4. HeapShape'
      <3>1. Ctx \in live
        BY <1>1, ReferredIsLive
      <3>2. \A p \in Ptr \ live' : refCount'[p] = 0
        BY <1>4, <2>2, <3>1 DEF IndInv, HeapShape, Is
      <3>3. \A x \in Slot : x[1] \notin live' => prop'[x] = NoPtr
        BY <1>4, <2>1 DEF IndInv, HeapShape
      <3>4. <<Ctx, Intrinsic>> \in Slot /\ <<Ctx, Intrinsic>> # <<q, Intrinsic>>
        BY HeapAssumption DEF Slot, Obj
      <3>5. \A p \in Ptr, m \in Name : <<p, m>> \in Slot /\ <<p, m>> # <<q, Intrinsic>>
        BY HeapAssumption DEF Slot
      <3> QED
        BY <2>1, <3>1, <3>2, <3>3, <3>4, <3>5 DEF IndInv, HeapShape
    <2> QED
      BY <1>1, <1>4, <2>1, <2>2, <2>3, <2>4, EnterStep DEF JsFuncCall
  <1> QED
    BY <1>3, <1>4 DEF JsFuncCall

(* Leaving a callback: its frame gives its reference back, and the handles *)
(* that only the frame kept expire.                                        *)
LEMMA LeaveStep ==
    ASSUME IndInv, phase = "running", depth > 0,
           live' \subseteq Ptr, prop' \in [Slot -> Value], refCount' \in [Ptr -> Int],
           \A p \in Ptr : refCount'[p] - Count(prop', p) = Excess(p) - Is(root[depth], p),
           HeapShape',
           depth' = depth - 1,
           root' \in [Frame -> Value], root'[depth] = NoPtr,
           \A d \in Frame : d # depth => root'[d] = root[d],
           hnd' = [h \in Handle |->
                     IF hnd[h].hold = "frame" /\ hnd[h].level = depth
                     THEN [hnd[h] EXCEPT !.hold = "expired"] ELSE hnd[h]],
           UNCHANGED <<values, lost, inv, phase>>
    PROVE  IndInv'
  <1>1. /\ depth \in Frame \ {0} /\ depth - 1 \in Frame /\ NoPtr \in Value
        /\ root \in [Frame -> Value] /\ hnd \in [Handle -> HandleState]
    BY HeapAssumption DEF IndInv, TypeOK, HeapTypeOK, Frame, Value
  <1>2. root' \in [Frame -> Value] /\ root'[depth] = NoPtr
        /\ \A d \in Frame : d # depth => root'[d] = root[d]
    BY <1>1
  <1>3. RefBalance'
    <2> SUFFICES ASSUME NEW p \in Ptr PROVE refCount'[p] = Owners(p)'
      BY DEF RefBalance
    <2>1. refCount[p] = Owners(p) /\ refCount[p] \in Int
          /\ Count(prop, p) \in Nat /\ Count(root, p) \in Nat /\ lost[p] \in Nat
      BY OwnersTypes DEF IndInv, RefBalance
    <2>2. Count(prop', p) \in Nat /\ refCount'[p] \in Int
      BY CountIsNat, SlotFinite
    <2>3. refCount'[p] - Count(prop', p) = refCount[p] - Count(prop, p) - Is(root[depth], p)
      BY DEF Excess
    <2>4. Count(root', p) = Count(root, p) + Is(NoPtr, p) - Is(root[depth], p)
      <3>1. Count(root', p) = Count(root, p) + Is(root'[depth], p) - Is(root[depth], p)
        BY <1>1, <1>2, FrameUpdate
      <3> QED
        BY <1>2, <3>1
    <2>5. Is(NoPtr, p) = 0 /\ Is(root[depth], p) \in Int
      BY HeapAssumption DEF Is
    <2>6. Count(root', p) = Count(root, p) - Is(root[depth], p)
      BY <2>1, <2>4, <2>5
    <2> DEFINE e == Is(root[depth], p)
    <2> HIDE DEF e
    <2>7. /\ refCount'[p] - Count(prop', p) = refCount[p] - Count(prop, p) - e
          /\ Count(root', p) = Count(root, p) - e
          /\ e \in Int
      BY <2>3, <2>5, <2>6 DEF e
    <2> QED
      BY <2>1, <2>2, <2>7, SMTT(30) DEF Owners
  <1>4. FrameShape'
    <2>1. root'[0] = root[0] /\ root[0] = Ctx
      BY <1>1, <1>2, HeapAssumption DEF IndInv, FrameShape, Frame
    <2>2. ASSUME NEW d \in Frame \ {0}
          PROVE  root'[d] \in IF d <= depth' THEN Obj ELSE {NoPtr}
      BY <1>1, <1>2, HeapAssumption DEF IndInv, FrameShape, Frame
    <2> QED
      BY <2>1, <2>2 DEF FrameShape
  <1>5. hnd' \in [Handle -> HandleState]
    BY <1>1 DEF HandleState, Hold
  <1>6. \A k \in Handle :
            \/ hnd'[k] = hnd[k] /\ (hnd[k].hold = "frame" => hnd[k].level # depth)
            \/ hnd'[k].hold = "expired"
    BY <1>1 DEF HandleState
  <1>7. HandleShape'
    BY <1>1, <1>6, HeapAssumption DEF IndInv, HandleShape, Frame
  <1>8. HeldHandleValid'
    <2> SUFFICES ASSUME NEW k \in Handle
                 PROVE  /\ hnd'[k].hold = "values"  => hnd'[k].same /\ hnd'[k].ptr \in values
                        /\ hnd'[k].hold = "frame"   => hnd'[k].same /\ root'[hnd'[k].level] = hnd'[k].ptr
                        /\ hnd'[k].hold = "context" => hnd'[k].same
      BY DEF HeldHandleValid
    <2>1. CASE hnd'[k].hold = "expired"
      BY <2>1
    <2>2. CASE hnd'[k] = hnd[k] /\ (hnd[k].hold = "frame" => hnd[k].level # depth)
      <3>1. hnd[k].hold = "frame" => hnd[k].level \in Frame
        BY <1>1, HeapAssumption DEF HandleState
      <3> QED
        BY <1>2, <2>2, <3>1 DEF IndInv, HeldHandleValid
    <2> QED
      BY <1>6, <2>1, <2>2
  <1> QED
    BY <1>1, <1>2, <1>3, <1>4, <1>5, <1>7, <1>8, Assemble DEF IndInv, TypeOK

(* The slots and the counts when a live object takes the place of the      *)
(* value in o.n.                                                           *)
LEMMA PutFacts ==
    ASSUME IndInv, NEW o \in live, NEW n \in Name, NEW v \in live \cap Obj
    PROVE  /\ JS_SetProperty(prop, o, n, v) \in [Slot -> Value]
           /\ \A x \in Slot : JS_SetProperty(prop, o, n, v)[x] = IF x = <<o, n>> THEN v ELSE prop[x]
           /\ JS_SetPropertyRc(JS_DupValue(refCount, v), prop, o, n) \in [Ptr -> Int]
           /\ \A p \in Ptr : JS_SetPropertyRc(JS_DupValue(refCount, v), prop, o, n)[p]
                                = refCount[p] + Is(v, p) - Is(prop[<<o, n>>], p)
           /\ \A p \in Ptr : Count(JS_SetProperty(prop, o, n, v), p)
                                = Count(prop, p) + Is(v, p) - Is(prop[<<o, n>>], p)
  <1> DEFINE old == prop[<<o, n>>]
             rc  == JS_DupValue(refCount, v)
  <1>1. /\ o \in Ptr /\ v \in Value
        /\ prop \in [Slot -> Value] /\ refCount \in [Ptr -> Int]
    BY DEF IndInv, TypeOK, HeapTypeOK, Value, Obj
  <1>2. /\ JS_SetProperty(prop, o, n, v) \in [Slot -> Value] /\ old \in Value
        /\ \A x \in Slot : JS_SetProperty(prop, o, n, v)[x] = IF x = <<o, n>> THEN v ELSE prop[x]
        /\ \A p : Count(JS_SetProperty(prop, o, n, v), p) = Count(prop, p) + Is(v, p) - Is(old, p)
    BY <1>1, SetPropertyCount
  <1>3. rc \in [Ptr -> Int] /\ \A p \in Ptr : rc[p] = refCount[p] + Is(v, p)
    BY <1>1, DupValue
  <1>4. /\ JS_FreeValue(rc, old) \in [Ptr -> Int]
        /\ \A p \in Ptr : JS_FreeValue(rc, old)[p] = rc[p] - Is(old, p)
    <2>1. old \in Value
      BY <1>2
    <2> HIDE DEF rc, old
    <2> QED
      BY <1>3, <2>1, FreeValueRc
  <1>5. \A p \in Ptr : JS_FreeValue(rc, old)[p] = refCount[p] + Is(v, p) - Is(old, p)
    BY <1>1, <1>3, <1>4 DEF Is
  <1> QED
    BY <1>2, <1>4, <1>5 DEF JS_SetPropertyRc

(* JsFuncReturn keeps the invariant, with and without an object result.    *)
LEMMA JsFuncReturnInv ==
    ASSUME IndInv, NEW p \in ScriptObject, NEW n \in Name, NEW v \in Obj \cup {NoPtr},
           JsFuncReturn(p, n, v)
    PROVE  IndInv'
  <1> DEFINE arg == root[depth]
             old == prop[<<p, n>>]
  <1>1. /\ phase = "running" /\ depth > 0 /\ depth \in Frame \ {0} /\ p \in live
        /\ v = NoPtr \/ v \in live \cap Obj
        /\ live \subseteq Ptr /\ prop \in [Slot -> Value] /\ refCount \in [Ptr -> Int]
        /\ root \in [Frame -> Value] /\ arg \in Value
    <2>1. phase = "running" /\ depth > 0 /\ (v = NoPtr \/ v \in live \cap Obj)
      BY DEF JsFuncReturn, Idle
    <2>2. p \in live
      BY <2>1, NameableLive DEF ScriptObject
    <2>3. /\ live \subseteq Ptr /\ prop \in [Slot -> Value] /\ refCount \in [Ptr -> Int]
          /\ root \in [Frame -> Value] /\ depth \in Frame
      BY DEF IndInv, TypeOK, HeapTypeOK
    <2> QED
      BY <2>1, <2>2, <2>3
  <1>2. arg \in live
    BY <1>1, ReferredIsLive, HeapAssumption DEF IndInv, FrameShape, Frame, Obj
  <1>3. /\ root' \in [Frame -> Value] /\ root'[depth] = NoPtr
        /\ \A d \in Frame : d # depth => root'[d] = root[d]
    BY <1>1, HeapAssumption DEF JsFuncReturn, Value
  <1>4. \A r \in Ptr : Count(prop, r) \in Int
    BY OwnersTypes DEF IndInv
  <1>5. /\ prop' \in [Slot -> Value] /\ refCount' \in [Ptr -> Int]
        /\ \A r \in Ptr : refCount'[r] - Count(prop', r) = Excess(r) - Is(arg, r)
        /\ HeapShape'
    <2>1. CASE v = NoPtr
      <3>1. prop' = prop /\ live' = live /\ refCount' = JS_FreeValue(refCount, arg)
        BY <2>1 DEF JsFuncReturn
      <3> HIDE DEF arg
      <3>2. refCount' \in [Ptr -> Int] /\ \A r \in Ptr : refCount'[r] = refCount[r] - Is(arg, r)
        BY <1>1, <3>1, FreeValueRc
      <3>3. \A r \in Ptr : refCount'[r] - Count(prop', r) = Excess(r) - Is(arg, r)
        BY <1>1, <1>4, <3>1, <3>2 DEF Excess, Is
      <3>4. \A r \in Ptr \ live : refCount'[r] = 0
        BY <1>2, <3>2 DEF IndInv, HeapShape, Is
      <3> QED
        BY <1>1, <3>1, <3>2, <3>3, <3>4 DEF IndInv, HeapShape
    <2>2. CASE v \in live \cap Obj
      <3> DEFINE rc == JS_SetPropertyRc(JS_DupValue(refCount, v), prop, p, n)
      <3>1. v # NoPtr
        BY <2>2, HeapAssumption DEF Obj
      <3>2. /\ prop' = JS_SetProperty(prop, p, n, v) /\ live' = live
            /\ refCount' = JS_FreeValue(rc, arg)
        BY <3>1 DEF JsFuncReturn
      <3>3. /\ prop' \in [Slot -> Value]
            /\ \A x \in Slot : prop'[x] = IF x = <<p, n>> THEN v ELSE prop[x]
            /\ rc \in [Ptr -> Int]
            /\ \A r \in Ptr : rc[r] = refCount[r] + Is(v, r) - Is(old, r)
            /\ \A r \in Ptr : Count(prop', r) = Count(prop, r) + Is(v, r) - Is(old, r)
        BY <1>1, <2>2, <3>2, PutFacts
      <3>4. old # NoPtr => old \in live
        BY <1>1, ReferredIsLive DEF Slot
      <3> HIDE DEF rc, arg, old
      <3>5. refCount' \in [Ptr -> Int] /\ \A r \in Ptr : refCount'[r] = rc[r] - Is(arg, r)
        BY <1>1, <3>2, <3>3, FreeValueRc
      <3>6. \A r \in Ptr : refCount'[r] - Count(prop', r) = Excess(r) - Is(arg, r)
        BY <1>1, <1>4, <3>3, <3>5 DEF Excess, Is
      <3>7. HeapShape'
        <4>1. \A r \in Ptr \ live : refCount'[r] = 0
          BY <1>2, <2>2, <3>3, <3>4, <3>5, HeapAssumption DEF IndInv, HeapShape, Is
        <4>2. \A x \in Slot : x[1] \notin live => prop'[x] = NoPtr
          BY <1>1, <3>3 DEF IndInv, HeapShape
        <4>3. <<Ctx, Intrinsic>> \in Slot /\ <<Ctx, Intrinsic>> # <<p, n>>
          BY HeapAssumption DEF Slot
        <4>4. \A r \in Ptr, m \in Name : <<r, m>> \in Slot
          BY DEF Slot
        <4> QED
          BY <2>2, <3>2, <3>3, <4>1, <4>2, <4>3, <4>4 DEF IndInv, HeapShape, Obj
      <3> QED
        BY <3>3, <3>5, <3>6, <3>7
    <2> QED
      BY <1>1, <2>1, <2>2
  <1> QED
    BY <1>1, <1>3, <1>5, LeaveStep DEF JsFuncReturn

(* What is held from outside the heap is what the wrapper and the JS stack *)
(* own.                                                                    *)
LEMMA ExcessIsOutside ==
    ASSUME IndInv, NEW p \in Ptr
    PROVE  Excess(p) = Outside(p) /\ Outside(p) \in Nat
  BY OwnersTypes DEF IndInv, RefBalance, Excess, Outside

(* Objects that only each other refer to can be freed: no count becomes    *)
(* wrong and no handle that something keeps is among them.                 *)
LEMMA FreeStep ==
    ASSUME IndInv, NEW S \in SUBSET live, Free(S), Forget(S),
           \A x \in Slot : x[1] \notin S => prop[x] \notin S,
           \A p \in S : Excess(p) = 0,
           UNCHANGED <<values, lost, depth>>,
           \/ phase' = phase
           \/ phase = "freeRuntime" /\ phase' = "destroyed",
           DestroyFreesAll'
    PROVE  IndInv'
  <1>1. /\ live \subseteq Ptr /\ live' = live \ S /\ root' = root
        /\ refCount \in [Ptr -> Int] /\ prop \in [Slot -> Value] /\ HeapTypeOK
    BY DEF IndInv, TypeOK, HeapTypeOK, Free
  <1>2. /\ prop' \in [Slot -> Value] /\ refCount' \in [Ptr -> Int]
        /\ \A p \in Ptr : refCount'[p] - Count(prop', p) = Excess(p)
    BY <1>1, FreeExcess
  <1>3. RefBalance'
    <2> SUFFICES ASSUME NEW p \in Ptr PROVE refCount'[p] = Owners(p)'
      BY DEF RefBalance
    <2>1. Count(prop', p) \in Nat /\ refCount'[p] \in Int
      BY <1>2, CountIsNat, SlotFinite
    <2>2. Count(root, p) \in Nat /\ lost[p] \in Nat
      BY OwnersTypes DEF IndInv
    <2>3. refCount'[p] - Count(prop', p) = Outside(p)
      BY <1>2, ExcessIsOutside
    <2> QED
      BY <1>1, <2>1, <2>2, <2>3 DEF Owners, Outside
  <1>4. \A p \in Ptr : refCount'[p] \in Nat
    <2> SUFFICES ASSUME NEW p \in Ptr PROVE refCount'[p] \in Nat
      OBVIOUS
    <2>1. Count(prop', p) \in Nat /\ refCount'[p] \in Int
      BY <1>2, CountIsNat, SlotFinite
    <2> QED
      BY <1>2, <2>1, ExcessIsOutside
  <1>5. HeapShape'
    <2>1. \A x \in Slot : prop'[x] = IF x[1] \in S THEN NoPtr ELSE prop[x]
      BY DEF Free
    <2>2. \A p \in Ptr \ live' : refCount'[p] = 0
      <3> SUFFICES ASSUME NEW p \in Ptr, p \notin live' PROVE refCount'[p] = 0
        OBVIOUS
      <3>1. CASE p \in S
        BY <3>1 DEF Free
      <3>2. CASE p \notin live
        <4>1. refCount[p] = 0 /\ p \notin S
          BY <3>2 DEF IndInv, HeapShape
        <4>2. {x \in Slot : x[1] \in S /\ prop[x] = p} = {}
          BY <3>2, ReferredIsLive, HeapAssumption
        <4> QED
          BY <4>1, <4>2, FS_EmptySet DEF Free
      <3> QED
        BY <1>1, <3>1, <3>2
    <2>3. \A x \in Slot : x[1] \notin live' => prop'[x] = NoPtr
      BY <1>1, <2>1 DEF IndInv, HeapShape
    <2>4. <<Ctx, Intrinsic>> \in Slot
      BY HeapAssumption DEF Slot
    <2>5. \A p \in Ptr, m \in Name : <<p, m>> \in Slot
      BY DEF Slot
    <2> QED
      BY <1>1, <2>1, <2>2, <2>3, <2>4, <2>5, HeapAssumption DEF IndInv, HeapShape
  <1>6. FrameShape'
    BY <1>1 DEF IndInv, FrameShape
  <1>7. hnd' \in [Handle -> HandleState] /\ inv' \in [Invocation -> InvState]
    BY DEF IndInv, TypeOK, Forget, HandleState, InvState
  <1>8. \A h \in Handle :
            /\ hnd'[h].hold = hnd[h].hold /\ hnd'[h].ptr = hnd[h].ptr
            /\ hnd'[h].level = hnd[h].level
            /\ hnd[h].ptr \notin S => hnd'[h] = hnd[h]
    BY DEF IndInv, TypeOK, Forget, HandleState
  <1>9. HandleShape'
    BY <1>8 DEF IndInv, HandleShape
  <1>10. HeldHandleValid'
    <2>1. \A p \in values : p \notin S
      <3> SUFFICES ASSUME NEW p \in values, p \in S PROVE FALSE
        OBVIOUS
      <3>1. p \in Ptr
        BY <1>1
      <3>2. Count(root, p) \in Nat /\ lost[p] \in Nat
        BY <3>1, OwnersTypes DEF IndInv
      <3> QED
        BY <3>1, <3>2, ExcessIsOutside DEF Outside
    <2>2. \A d \in Frame : root[d] \notin S
      <3> SUFFICES ASSUME NEW d \in Frame, root[d] \in S PROVE FALSE
        OBVIOUS
      <3>1. root[d] \in Ptr
        BY <1>1
      <3>2. Count(root, root[d]) \in Nat /\ lost[root[d]] \in Nat /\ Count(root, root[d]) >= 1
        BY <3>1, OwnersTypes, FrameHeld DEF IndInv
      <3> QED
        BY <3>1, <3>2, ExcessIsOutside DEF Outside
    <2>3. phase = "running" => Global \notin S
      <3>1. 0 \in Frame /\ <<Ctx, Intrinsic>> \in Slot
        BY HeapAssumption DEF Frame, Slot
      <3>2. phase = "running" => Ctx \notin S /\ prop[<<Ctx, Intrinsic>>] = Global
        BY <2>2, <3>1, ReferredIsLive DEF IndInv, FrameShape, HeapShape
      <3> QED
        BY <3>1, <3>2
    <2> SUFFICES ASSUME NEW h \in Handle
                 PROVE  /\ hnd'[h].hold = "values"  => hnd'[h].same /\ hnd'[h].ptr \in values
                        /\ hnd'[h].hold = "frame"   => hnd'[h].same /\ root[hnd'[h].level] = hnd'[h].ptr
                        /\ hnd'[h].hold = "context" => hnd'[h].same
      BY <1>1 DEF HeldHandleValid
    <2>4. hnd[h].hold \in {"values", "frame", "context"} => hnd[h].ptr \notin S
      <3>1. hnd[h].level \in Frame
        BY DEF IndInv, TypeOK, HandleState
      <3> QED
        BY <2>1, <2>2, <2>3, <3>1 DEF IndInv, HeldHandleValid, HandleShape
    <2> QED
      BY <1>8, <2>4 DEF IndInv, HeldHandleValid
  <1>11. TypeOK'
    BY <1>1, <1>2, <1>4, <1>7 DEF IndInv, TypeOK, HeapTypeOK, Phase
  <1> QED
    BY <1>3, <1>5, <1>6, <1>9, <1>10, <1>11 DEF IndInv

(* FreeObject keeps the invariant: an object with count zero is in no slot *)
(* and nobody outside holds it.                                            *)
LEMMA FreeObjectInv ==
    ASSUME IndInv, NEW p \in Ptr, FreeObject(p)
    PROVE  IndInv'
  <1>1. p \in live /\ refCount[p] = 0 /\ Free({p}) /\ Forget({p})
        /\ UNCHANGED <<values, lost, depth, phase>>
    BY DEF FreeObject, FreeZeroRefCount, ZeroRefCount
  <1>2. Count(prop, p) = 0 /\ Outside(p) = 0
    <2>1. /\ Count(prop, p) \in Nat /\ Count(root, p) \in Nat /\ lost[p] \in Nat
          /\ Count(prop, p) + Outside(p) = 0
      BY <1>1, OwnersTypes DEF IndInv, RefBalance
    <2>2. Outside(p) \in Nat
      BY ExcessIsOutside
    <2> QED
      BY <2>1, <2>2
  <1>3. \A x \in Slot : prop[x] # p
    BY <1>2, SlotHeld DEF IndInv
  <1>4. Excess(p) = 0
    BY <1>2, ExcessIsOutside
  <1>5. DestroyFreesAll'
    BY <1>1 DEF IndInv, DestroyFreesAll, Free
  <1> QED
    BY <1>1, <1>3, <1>4, <1>5, FreeStep

(* What JS_RunGC calls garbage: no survivor refers to it, and nobody       *)
(* outside the heap holds it.                                              *)
LEMMA GarbageFacts ==
    ASSUME IndInv
    PROVE  /\ Garbage \in SUBSET live
           /\ \A x \in Slot : x[1] \notin Garbage => prop[x] \notin Garbage
           /\ \A p \in Garbage : Excess(p) = 0
  <1>1. HeapTypeOK /\ live \subseteq Ptr /\ ExternallyHeld \in SUBSET Ptr
    BY DEF IndInv, TypeOK, HeapTypeOK, ExternallyHeld
  <1>2. ExternallyHeld \subseteq Reach(ExternallyHeld) /\ Closed(Reach(ExternallyHeld))
    BY <1>1, ReachClosed
  <1>3. ASSUME NEW x \in Slot, x[1] \notin Garbage, prop[x] \in Garbage
        PROVE  FALSE
    <2>1. prop[x] # NoPtr /\ prop[x] \notin Reach(ExternallyHeld)
      BY <1>1, <1>3, HeapAssumption DEF Garbage
    <2>2. x[1] \in live
      BY <2>1 DEF IndInv, HeapShape
    <2>3. x[1] \in Reach(ExternallyHeld)
      BY <1>3, <2>2 DEF Garbage
    <2> QED
      BY <1>2, <2>1, <2>3 DEF Closed
  <1>4. ASSUME NEW p \in Garbage
        PROVE  Excess(p) = 0
    <2>1. p \in Ptr /\ p \in live /\ p \notin ExternallyHeld
      BY <1>1, <1>2 DEF Garbage
    <2>2. Excess(p) \in Nat /\ Count(prop, p) \in Nat /\ refCount[p] \in Nat
      BY <2>1, ExcessIsOutside, OwnersTypes DEF IndInv, TypeOK, HeapTypeOK
    <2> QED
      BY <2>1, <2>2 DEF ExternallyHeld, Excess
  <1> QED
    BY <1>3, <1>4 DEF Garbage

(* RunGC keeps the invariant.                                              *)
LEMMA RunGCInv ==
    ASSUME IndInv, RunGC
    PROVE  IndInv'
  <1>1. /\ Free(Garbage) /\ Forget(Garbage) /\ phase = "running"
        /\ UNCHANGED <<values, lost, depth, phase>>
    BY DEF RunGC, JS_RunGC, Idle
  <1>2. DestroyFreesAll'
    BY <1>1 DEF DestroyFreesAll
  <1> HIDE DEF Garbage
  <1> QED
    BY <1>1, <1>2, GarbageFacts, FreeStep

(* FreeRuntime keeps the invariant.  If nothing was leaked, nothing holds  *)
(* any object from outside by now, so all of the heap is garbage.          *)
LEMMA FreeRuntimeInv ==
    ASSUME IndInv, FreeRuntime
    PROVE  IndInv'
  <1>1. /\ Free(Garbage) /\ Forget(Garbage) /\ phase = "freeRuntime"
        /\ phase' = "destroyed" /\ UNCHANGED <<values, lost, depth>>
    BY DEF FreeRuntime, JS_RunGC
  <1>2. values = {} /\ \A d \in Frame : root[d] = NoPtr
    BY <1>1, HeapAssumption DEF IndInv, FrameShape, TypeOK, Frame
  <1>3. ASSUME \A p \in Ptr : lost[p] = 0
        PROVE  live' = {}
    <2>1. ASSUME NEW p \in Ptr PROVE p \notin ExternallyHeld
      <3>1. {d \in DOMAIN root : root[d] = p} = {}
        BY <1>2, HeapAssumption DEF IndInv, TypeOK, HeapTypeOK
      <3>2. Count(root, p) = 0
        BY <3>1, FS_EmptySet DEF Count
      <3>3. Excess(p) = 0
        BY <1>2, <1>3, <3>2, ExcessIsOutside DEF Outside
      <3>4. Count(prop, p) \in Nat /\ refCount[p] \in Nat
        BY OwnersTypes DEF IndInv, TypeOK, HeapTypeOK
      <3> QED
        BY <3>3, <3>4 DEF ExternallyHeld, Excess
    <2>2. ExternallyHeld = {}
      BY <2>1 DEF ExternallyHeld, IndInv, TypeOK, HeapTypeOK
    <2>3. Reach({}) = {}
      <3>1. Closed({})
        BY DEF Closed
      <3> QED
        BY <3>1, ReachLeast
    <2>4. Garbage = live
      BY <2>2, <2>3 DEF Garbage
    <2> QED
      BY <1>1, <2>4 DEF Free
  <1>4. DestroyFreesAll'
    BY <1>1, <1>3 DEF DestroyFreesAll
  <1> HIDE DEF Garbage
  <1> QED
    BY <1>1, <1>4, GarbageFacts, FreeStep

(* Destroy keeps the invariant: one reference for every entry of values.   *)
LEMMA DestroyInv ==
    ASSUME IndInv, Destroy
    PROVE  IndInv'
  <1>1. /\ phase = "running" /\ depth = 0 /\ phase' = "freeContext" /\ values' = {}
        /\ UNCHANGED <<live, prop, root, lost, inv, depth>>
        /\ \A p \in Ptr : refCount'[p] = IF p \in values THEN refCount[p] - 1 ELSE refCount[p]
    BY DEF Destroy, Idle
  <1>2. RefBalance'
    <2> SUFFICES ASSUME NEW p \in Ptr PROVE refCount'[p] = Owners(p)'
      BY DEF RefBalance
    <2>1. refCount[p] = Owners(p) /\ Owners(p) \in Nat
          /\ Count(prop, p) \in Nat /\ Count(root, p) \in Nat /\ lost[p] \in Nat
      BY OwnersTypes DEF IndInv, RefBalance
    <2> QED
      BY <1>1, <2>1 DEF Owners
  <1>3. /\ hnd' \in [Handle -> HandleState]
        /\ \A h \in Handle :
              \/ hnd'[h].hold = "expired"
              \/ hnd[h].ptr = NoPtr /\ hnd'[h] = hnd[h]
    <2>1. hnd \in [Handle -> HandleState]
      BY DEF IndInv, TypeOK
    <2>2. hnd' = [h \in Handle |-> IF hnd[h].ptr = NoPtr THEN hnd[h]
                                   ELSE [hnd[h] EXCEPT !.hold = "expired"]]
      BY DEF Destroy, Unused
    <2>3. ASSUME NEW h \in Handle
          PROVE  /\ hnd'[h] \in HandleState
                 /\ \/ hnd'[h].hold = "expired"
                    \/ hnd[h].ptr = NoPtr /\ hnd'[h] = hnd[h]
      <3>1. CASE hnd[h].ptr = NoPtr
        BY <2>1, <2>2, <3>1
      <3>2. CASE hnd[h].ptr # NoPtr
        <4>1. hnd'[h] = [hnd[h] EXCEPT !.hold = "expired"]
          BY <2>2, <3>2
        <4> QED
          BY <2>1, <4>1 DEF HandleState, Hold
      <3> QED
        BY <3>1, <3>2
    <2>4. hnd' \in [Handle -> HandleState]
      <3>1. hnd' = [h \in Handle |-> hnd'[h]]
        BY <2>2
      <3> QED
        BY <2>3, <3>1, Zenon
    <2> QED
      BY <2>3, <2>4
  <1>4. \A h \in Handle : hnd'[h].hold \notin {"values", "frame", "context"}
    <2> SUFFICES ASSUME NEW h \in Handle, hnd[h].ptr = NoPtr
                 PROVE  hnd[h].hold \notin {"values", "frame", "context"}
      BY <1>3
    <2>1. NoPtr \notin values /\ NoPtr # Global
      BY HeapAssumption DEF IndInv, TypeOK, Obj
    <2>2. hnd[h].hold # "frame"
      BY <1>1 DEF IndInv, HandleShape
    <2> QED
      BY <2>1, <2>2 DEF IndInv, HandleShape, HeldHandleValid
  <1>5. TypeOK'
    <2>1. \A p \in Ptr : refCount'[p] \in Nat
      <3> TAKE p \in Ptr
      <3>1. refCount[p] = Owners(p)
            /\ Count(prop, p) \in Nat /\ Count(root, p) \in Nat /\ lost[p] \in Nat
        BY OwnersTypes DEF IndInv, RefBalance
      <3> QED
        BY <1>1, <3>1 DEF Owners
    <2>2. refCount' \in [Ptr -> Nat]
      BY <2>1 DEF Destroy
    <2> QED
      BY <1>1, <1>3, <2>2 DEF IndInv, TypeOK, HeapTypeOK, Phase
  <1>6. HeapShape'
    BY <1>1, ReferredIsLive DEF IndInv, HeapShape
  <1>7. FrameShape' /\ HandleShape' /\ HeldHandleValid' /\ DestroyFreesAll'
    BY <1>1, <1>4 DEF IndInv, FrameShape, HandleShape, HeldHandleValid, DestroyFreesAll
  <1> QED
    BY <1>2, <1>5, <1>6, <1>7 DEF IndInv

(* FreeContext keeps the invariant.                                        *)
LEMMA FreeContextInv ==
    ASSUME IndInv, FreeContext
    PROVE  IndInv'
  <1>1. /\ phase = "freeContext" /\ phase' = "freeRuntime" /\ root[0] = Ctx /\ 0 \in Frame
        /\ UNCHANGED <<live, prop, values, lost, hnd, inv, depth>>
        /\ Ctx \in Value /\ root \in [Frame -> Value] /\ refCount \in [Ptr -> Int]
    BY HeapAssumption DEF FreeContext, IndInv, FrameShape, Frame, Value, TypeOK, HeapTypeOK
  <1>2. /\ root' \in [Frame -> Value] /\ root'[0] = NoPtr
        /\ \A d \in Frame : d # 0 => root'[d] = root[d]
    BY <1>1 DEF FreeContext, Value
  <1>3. /\ refCount' \in [Ptr -> Int]
        /\ \A p \in Ptr : refCount'[p] = refCount[p] - Is(Ctx, p)
    BY <1>1, FreeValueRc DEF FreeContext
  <1>4. \A p \in Ptr : Count(root', p) = Count(root, p) - Is(Ctx, p)
    <2> TAKE p \in Ptr
    <2>1. Count(root', p) = Count(root, p) + Is(root'[0], p) - Is(root[0], p)
      BY <1>1, <1>2, FrameUpdate
    <2>2. Is(root'[0], p) = 0 /\ Count(root, p) \in Nat /\ Is(Ctx, p) \in Int
      BY <1>2, HeapAssumption, OwnersTypes DEF Is, IndInv
    <2> QED
      BY <1>1, <2>1, <2>2
  <1>5. RefBalance'
    <2> SUFFICES ASSUME NEW p \in Ptr PROVE refCount'[p] = Owners(p)'
      BY DEF RefBalance
    <2>1. refCount[p] = Owners(p) /\ Owners(p) \in Nat
          /\ Count(prop, p) \in Nat /\ Count(root, p) \in Nat /\ lost[p] \in Nat
      BY OwnersTypes DEF IndInv, RefBalance
    <2> QED
      BY <1>1, <1>3, <1>4, <2>1 DEF Owners, Is
  <1>6. TypeOK'
    <2>1. \A p \in Ptr : refCount'[p] \in Nat
      <3> TAKE p \in Ptr
      <3>1. Count(root', p) \in Nat
        BY <1>2, CountIsNat, FrameFinite
      <3>2. Count(prop, p) \in Nat /\ lost[p] \in Nat
        BY OwnersTypes DEF IndInv
      <3> QED
        BY <1>1, <1>5, <3>1, <3>2 DEF RefBalance, Owners
    <2> QED
      BY <1>1, <1>2, <1>3, <2>1 DEF IndInv, TypeOK, HeapTypeOK, Phase
  <1>7. HeapShape'
    <2>1. Ctx \in live
      BY <1>1, ReferredIsLive, HeapAssumption
    <2>2. \A p \in Ptr \ live : refCount'[p] = 0
      BY <1>1, <1>3, <2>1 DEF IndInv, HeapShape, Is
    <2> QED
      BY <1>1, <2>2 DEF IndInv, HeapShape
  <1>8. FrameShape'
    BY <1>1, <1>2 DEF IndInv, FrameShape
  <1>9. HandleShape' /\ HeldHandleValid' /\ DestroyFreesAll'
    BY <1>1 DEF IndInv, HandleShape, HeldHandleValid, DestroyFreesAll
  <1> QED
    BY <1>5, <1>6, <1>7, <1>8, <1>9 DEF IndInv

---------------------------------------------------------------------------
(* The initial state satisfies the invariant: the context is held by the   *)
(* wrapper and by the global object, the global object by the context.     *)
LEMMA InitInv == Init => IndInv
  <1> SUFFICES ASSUME Init PROVE IndInv
    OBVIOUS
  <1> DEFINE x0 == <<Ctx, Intrinsic>>
             x1 == <<Global, Intrinsic>>
  <1>1. x0 \in Slot /\ x1 \in Slot /\ x0 # x1 /\ 0 \in Frame
    BY HeapAssumption DEF Slot, Frame
  <1>2. /\ prop[x0] = Global /\ prop[x1] = Ctx
        /\ \A x \in Slot : x # x0 /\ x # x1 => prop[x] = NoPtr
        /\ DOMAIN prop = Slot /\ DOMAIN root = Frame
        /\ root[0] = Ctx /\ \A d \in Frame : d # 0 => root[d] = NoPtr
    BY <1>1 DEF Init, HeapInit
  <1>3. /\ refCount[Ctx] = 2 /\ refCount[Global] = 1
        /\ \A p \in Ptr : p # Ctx /\ p # Global => refCount[p] = 0
    BY HeapAssumption DEF Init, HeapInit
  <1>4. TypeOK
    <2>1. prop \in [Slot -> Value]
      BY HeapAssumption DEF Init, HeapInit, Value
    <2>2. root \in [Frame -> Value]
      BY HeapAssumption DEF Init, HeapInit, Value
    <2>3. refCount \in [Ptr -> Nat]
      BY DEF Init, HeapInit
    <2>4. NoHandle \in HandleState /\ NoInv \in InvState
      BY <1>1 DEF NoHandle, NoInv, HandleState, InvState, Hold, Value
    <2>5. lost \in [Ptr -> 0 .. MaxLost] /\ hnd \in [Handle -> HandleState]
          /\ inv \in [Invocation -> InvState]
      BY <2>4, WrapperAssumption DEF Init
    <2> QED
      BY <1>1, <2>1, <2>2, <2>3, <2>5, HeapAssumption
         DEF Init, HeapInit, TypeOK, HeapTypeOK, Phase
  <1>5. RefBalance
    <2> SUFFICES ASSUME NEW p \in Ptr PROVE refCount[p] = Owners(p)
      BY DEF RefBalance
    <2>1. values = {} /\ lost[p] = 0
      BY DEF Init
    <2>2. CASE p = Ctx
      <3>1. {x \in DOMAIN prop : prop[x] = Ctx} = {x1}
        BY <1>1, <1>2, HeapAssumption
      <3>2. {d \in DOMAIN root : root[d] = Ctx} = {0}
        BY <1>1, <1>2, HeapAssumption
      <3>3. Cardinality({x1}) = 1 /\ Cardinality({0}) = 1
        BY FS_Singleton
      <3>4. Count(prop, p) = 1 /\ Count(root, p) = 1
        BY <2>2, <3>1, <3>2, <3>3, ZenonT(30) DEF Count
      <3> QED
        BY <1>3, <2>1, <2>2, <3>4, SMTT(30) DEF Owners
    <2>3. CASE p = Global
      <3>1. {x \in DOMAIN prop : prop[x] = Global} = {x0}
        BY <1>1, <1>2, HeapAssumption
      <3>2. {d \in DOMAIN root : root[d] = Global} = {}
        BY <1>1, <1>2, HeapAssumption
      <3>3. Count(prop, p) = 1 /\ Count(root, p) = 0
        BY <2>3, <3>1, <3>2, FS_Singleton, FS_EmptySet DEF Count
      <3> QED
        BY <1>3, <2>1, <2>3, <3>3 DEF Owners
    <2>4. CASE p # Ctx /\ p # Global
      <3>1. {x \in DOMAIN prop : prop[x] = p} = {}
        BY <1>1, <1>2, <2>4, HeapAssumption
      <3>2. {d \in DOMAIN root : root[d] = p} = {}
        BY <1>1, <1>2, <2>4, HeapAssumption
      <3>3. Count(prop, p) = 0 /\ Count(root, p) = 0
        BY <3>1, <3>2, FS_EmptySet DEF Count
      <3> QED
        BY <1>3, <2>1, <2>4, <3>3 DEF Owners
    <2> QED
      BY <2>2, <2>3, <2>4
  <1>6. HeapShape
    <2>1. live = {Ctx, Global}
      BY DEF Init, HeapInit
    <2>2. \A x \in Slot : x[1] \notin live => x # x0 /\ x # x1
      BY <2>1
    <2>3. \A p \in Ptr, n \in Name : <<p, n>> \in Slot /\ <<p, n>> # x0 /\ <<p, n>> # x1
      BY HeapAssumption DEF Slot
    <2> QED
      BY <1>2, <1>3, <2>1, <2>2, <2>3, HeapAssumption DEF HeapShape
  <1>7. FrameShape
    BY <1>1, <1>2 DEF Init, FrameShape, Frame
  <1>8. HandleShape /\ HeldHandleValid /\ DestroyFreesAll
    BY DEF Init, NoHandle, HandleShape, HeldHandleValid, DestroyFreesAll
  <1> QED
    BY <1>4, <1>5, <1>6, <1>7, <1>8 DEF IndInv

(* Every step of the client, of scripts and of native code keeps the       *)
(* invariant.                                                              *)
LEMMA NextInv == IndInv /\ [Next]_vars => IndInv'
  <1> SUFFICES ASSUME IndInv, [Next]_vars PROVE IndInv'
    OBVIOUS
  <1>1. CASE \E h \in Handle : GetGlobalObject(h) \/ FreeValue(h) \/ DropHandle(h)
    BY <1>1, GetGlobalObjectInv, FreeValueInv, DropHandleInv
  <1>2. CASE \E h \in Handle, q \in Obj : EvaluateNew(h, q) \/ JsFuncCall(h, q)
    BY <1>2, EvaluateNewInv, JsFuncCallInv
  <1>3. CASE \E q \in ScriptObject, h \in Handle : Evaluate(h, q)
    BY <1>3, EvaluateInv
  <1>4. CASE \E q \in ScriptObject : EvaluateThrows(q)
    BY <1>4, EvaluateThrowsInv
  <1>5. CASE \E o, h \in Handle, n \in Name : GetProperty(o, n, h)
    BY <1>5, GetPropertyInv
  <1>6. CASE \E f, h \in Handle, q \in Obj : Call(f, q, h)
    BY <1>6, CallInv
  <1>7. CASE \E p \in ScriptObject \cup {NoPtr}, n \in Name, f \in Handle, q \in Obj, r \in BOOLEAN :
                CallWithCallback(f, q, p, n, r)
    BY <1>7, CallWithCallbackInv
  <1>8. CASE \E o \in Handle, n \in Name, v \in Obj \cup {NoPtr} : SetProperty(o, n, v)
    BY <1>8, SetPropertyInv
  <1>9. CASE \E o \in Handle, n \in Name, q \in Obj :
                SetPropertyCallback(o, n, q) \/ SetElementCallback(o, n, q)
    BY <1>9, SetPropertyCallbackInv, SetElementCallbackInv
  <1>10. CASE \E i \in Invocation, o \in Obj \cup {NoPtr}, n \in Name : InvokeBegin(i, o, n)
    BY <1>10, InvokeBeginInv
  <1>11. CASE \E i \in Invocation : InvokeEnd(i)
    BY <1>11, InvokeEndInv
  <1>12. CASE \E i \in Invocation, h \in Handle, q \in Obj : InvokeEndObject(i, h, q)
    BY <1>12, InvokeEndObjectInv
  <1>13. CASE \E p \in ScriptObject, n \in Name, v \in ScriptObject \cup {NoPtr} :
                ScriptPut(p, n, v)
    BY <1>13, ScriptPutInv
  <1>14. CASE \E p \in ScriptObject, n \in Name, q \in Obj : ScriptNew(p, n, q)
    BY <1>14, ScriptNewInv
  <1>15. CASE \E p \in ScriptObject, n \in Name, v \in Obj \cup {NoPtr} : JsFuncReturn(p, n, v)
    BY <1>15, JsFuncReturnInv
  <1>16. CASE RunGC \/ Destroy \/ FreeContext \/ FreeRuntime
    BY <1>16, RunGCInv, DestroyInv, FreeContextInv, FreeRuntimeInv
  <1>17. CASE \E p \in Ptr : FreeObject(p)
    BY <1>17, FreeObjectInv
  <1>18. CASE UNCHANGED vars
    BY <1>18 DEF vars, IndInv, TypeOK, HeapTypeOK, RefBalance, Owners, HeapShape,
                 FrameShape, HandleShape, HeldHandleValid, DestroyFreesAll
  <1> QED
    BY <1>1, <1>2, <1>3, <1>4, <1>5, <1>6, <1>7, <1>8, <1>9, <1>10, <1>11, <1>12,
       <1>13, <1>14, <1>15, <1>16, <1>17, <1>18 DEF Next, ClientNext, NativeNext

(* IndInv is an inductive invariant of the specification.                  *)
THEOREM Invariance == Spec => []IndInv
  BY InitInv, NextInv, PTL DEF Spec

(* The state of the wrapper is well typed: in particular no sequence of    *)
(* calls, callbacks and collections drives a reference count below zero.   *)
THEOREM TypeCorrect == Spec => []TypeOK
  <1>1. IndInv => TypeOK
    BY DEF IndInv
  <1> QED
    BY <1>1, Invariance, PTL

(* The reference counts are exact at every moment: toJavaObject, freeValue *)
(* call, setProperty, the callbacks and the destructor keep the books of   *)
(* quickjs.c.                                                              *)
THEOREM CountsExact == Spec => []RefBalance
  <1>1. IndInv => RefBalance
    BY DEF IndInv
  <1> QED
    BY <1>1, Invariance, PTL

(* A handle that values, a callback frame or the context keeps denotes the *)
(* object it was made for: its address has not been freed and reused.      *)
THEOREM HeldHandlesValid == Spec => []HeldHandleValid
  <1>1. IndInv => HeldHandleValid
    BY DEF IndInv
  <1> QED
    BY <1>1, Invariance, PTL

(* ~QuickJSWrapper satisfies the assertion of JS_FreeRuntime if the client *)
(* met none of the leaking paths.                                          *)
THEOREM DestroyComplete == Spec => []DestroyFreesAll
  <1>1. IndInv => DestroyFreesAll
    BY DEF IndInv
  <1> QED
    BY <1>1, Invariance, PTL

(* What the outside holds on to, the collector's gc_decref phase sees.     *)
LEMMA PinnedHeld ==
    ASSUME IndInv
    PROVE  /\ Pinned \in SUBSET Ptr
           /\ \A p \in Pinned : Excess(p) > 0
           /\ Pinned \subseteq ExternallyHeld
  <1>1. Pinned \in SUBSET Ptr
    BY DEF Pinned, Roots, IndInv, TypeOK, HeapTypeOK, Value, Obj
  <1>2. ASSUME NEW p \in Pinned PROVE Outside(p) >= 1
    <2>1. p \in Ptr
      BY <1>1
    <2>2. Count(root, p) \in Nat /\ lost[p] \in Nat
      BY <2>1, OwnersTypes DEF IndInv
    <2>3. CASE p \in Roots
      <3>1. PICK d \in Frame : root[d] = p
        BY <2>3 DEF Roots
      <3>2. Count(root, p) >= 1
        BY <2>1, <3>1, FrameHeld DEF IndInv
      <3> QED
        BY <2>2, <3>2 DEF Outside
    <2>4. CASE p \in values
      BY <2>2, <2>4 DEF Outside
    <2>5. CASE lost[p] > 0
      BY <2>2, <2>5 DEF Outside
    <2> QED
      BY <2>3, <2>4, <2>5 DEF Pinned
  <1>3. \A p \in Pinned : Excess(p) > 0
    BY <1>1, <1>2, ExcessIsOutside
  <1>4. ASSUME NEW p \in Pinned PROVE p \in ExternallyHeld
    <2>1. p \in Ptr /\ Excess(p) > 0
      BY <1>1, <1>3
    <2>2. Count(prop, p) \in Nat /\ refCount[p] \in Nat
      BY <2>1, OwnersTypes DEF IndInv, TypeOK, HeapTypeOK
    <2>3. p \in live
      BY <2>1, <2>2 DEF IndInv, HeapShape, Excess
    <2> QED
      BY <2>1, <2>2, <2>3 DEF ExternallyHeld, Excess
  <1> QED
    BY <1>1, <1>3, <1>4

(* No step frees what the pinned objects lead to.                          *)
LEMMA FreesOnlyUnreachable ==
    ASSUME IndInv, [Next]_vars
    PROVE  \A p \in live \ live' : p \notin Reach(Pinned)
  <1>1. HeapTypeOK /\ live \subseteq Ptr /\ ExternallyHeld \in SUBSET Ptr
    BY DEF IndInv, TypeOK, HeapTypeOK, ExternallyHeld
  <1>2. CASE Free(Garbage)
    <2>1. Reach(Pinned) \subseteq Reach(ExternallyHeld)
      BY <1>1, PinnedHeld, ReachClosed, ReachMonotone
    <2> QED
      BY <1>2, <2>1 DEF Free, Garbage
  <1>3. CASE \E p \in Ptr : FreeObject(p)
    <2>1. PICK p \in Ptr : FreeObject(p)
      BY <1>3
    <2>2. p \in live /\ refCount[p] = 0 /\ live' = live \ {p}
      BY <2>1 DEF FreeObject, FreeZeroRefCount, ZeroRefCount, Free
    <2>3. Count(prop, p) \in Nat /\ Outside(p) \in Nat /\ Count(prop, p) + Outside(p) = 0
      BY <2>2, OwnersTypes, ExcessIsOutside DEF IndInv, RefBalance
    <2>4. p \notin Pinned
      BY <2>3, PinnedHeld, ExcessIsOutside
    <2>5. \A x \in Slot : prop[x] # p
      BY <2>3, SlotHeld DEF IndInv
    <2>6. Closed(Ptr \ {p})
      BY <2>5 DEF Closed, IndInv, TypeOK, HeapTypeOK, Value
    <2>7. Reach(Pinned) \subseteq Ptr \ {p}
      BY <2>4, <2>6, PinnedHeld, ReachLeast
    <2> QED
      BY <2>2, <2>7
  <1>4. CASE live \subseteq live'
    BY <1>4
  <1>5. Free(Garbage) \/ (\E p \in Ptr : FreeObject(p)) \/ live \subseteq live'
    BY ZenonT(60) DEF Next, ClientNext, NativeNext, vars, GetGlobalObject, FreeValue, DropHandle,
           EvaluateNew, JsFuncCall, Evaluate, EvaluateThrows, GetProperty, Call,
           CallWithCallback, SetProperty, SetPropertyCallback, SetElementCallback,
           InvokeBegin, InvokeEnd, InvokeEndObject, ScriptPut, ScriptNew, JsFuncReturn,
           RunGC, JS_RunGC, Destroy, FreeContext, FreeRuntime
  <1> QED
    BY <1>2, <1>3, <1>4, <1>5

(* Neither the cascade of frees nor the cycle collector ever frees an      *)
(* object that the context, an active callback or values leads to.         *)
THEOREM ReachableKept == Spec => NeverFreesReachable
  <1>1. IndInv /\ [Next]_vars => [\A p \in live \ live' : p \notin Reach(Pinned)]_vars
    BY FreesOnlyUnreachable
  <1> QED
    BY <1>1, Invariance, PTL DEF Spec, NeverFreesReachable
=============================================================================
