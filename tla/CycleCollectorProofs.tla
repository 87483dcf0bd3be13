------------------------ MODULE CycleCollectorProofs ------------------------
(***************************************************************************)
(* Proofs about CycleCollector, for any set of addresses, any graph of     *)
(* references and any order of the lists: the passes keep the assertions   *)
(* of the code, leave no slot that dangles, and together implement the one *)
(* step JS_RunGC of QuickJSHeap.                                           *)
(***************************************************************************)
EXTENDS CycleCollector, FiniteSetTheorems, TLAPS

(* The slots of the nodes in S that hold q, when the slots are pr.         *)
SlotsOf(pr, S, q) == {x \in Slot : x[1] \in S /\ pr[x] = q}
Refs(pr, S, q)    == Cardinality(SlotsOf(pr, S, q))
Kids(pr, p, q)    == Refs(pr, {p}, q)

(* No slot of a node in S leads out of S.                                  *)
ClosedUnder(pr, S) == \A x \in Slot : x[1] \in S /\ pr[x] # NoPtr => pr[x] \in S

(* The count p had when JS_RunGC was called, less what freed garbage held. *)
Total(p) == refCount[p] + Refs(prop, Decremented, p)

(* What something outside the heap refers to.                              *)
Held == {p \in memory : Total(p) > Refs(prop, Ptr, p)}

(* An allocated node is on exactly one list; a slot belongs to a node that *)
(* is allocated and refers to one; an Other refers to objects only.        *)
Lists ==
    /\ memory = gc_obj_list \cup tmp_obj_list \cup zero_list
    /\ gc_obj_list \cap tmp_obj_list = {}
    /\ gc_obj_list \cap zero_list = {}
    /\ tmp_obj_list \cap zero_list = {}
    /\ ~Freeing => zero_list = {}
    /\ phase # "free" => cur = NoPtr

Slots ==
    \A x \in Slot : /\ prop[x] # NoPtr => x[1] \in memory /\ prop[x] \in memory
                    /\ x[1] \in Other => prop[x] \in Obj \cup {NoPtr}

(* A count covers the slots that hold the node, and what is allocated has  *)
(* an owner until the garbage is freed.                                    *)
Counts ==
    /\ \A p \in Ptr : Total(p) >= Refs(prop, Ptr, p)
    /\ \A p \in Ptr \ memory : refCount[p] = 0
    /\ ~Freeing => \A p \in memory : Total(p) > 0

IdleInv ==
    phase = "idle" =>
        /\ tmp_obj_list = {} /\ todo = {}
        /\ \A p \in Ptr : mark[p] = 0

(* gc_decref: a node is marked when its turn is over, and moved when it is *)
(* marked and its count is zero.                                           *)
DecrefInv ==
    phase = "decref" =>
        /\ todo \subseteq gc_obj_list
        /\ \A p \in memory : mark[p] = IF p \in todo THEN 0 ELSE 1
        /\ tmp_obj_list = {p \in memory \ todo : refCount[p] = 0}

(* gc_scan: what has a reference is kept, and is reached from outside.     *)
OnlyReached ==
    \A S \in SUBSET Ptr : Held \subseteq S /\ ClosedUnder(prop, S) => gc_obj_list \subseteq S

ScanInv ==
    phase = "scan" =>
        /\ todo \subseteq gc_obj_list
        /\ \A p \in tmp_obj_list : refCount[p] = 0
        /\ \A p \in gc_obj_list : refCount[p] > 0
        /\ \A p \in gc_obj_list \ todo : mark[p] = 0
        /\ OnlyReached

(* From the end of the first loop of gc_scan on: nothing kept leads to the *)
(* garbage, all references to garbage come from slots, and what is kept    *)
(* has another reference than those from the garbage.                      *)
Split ==
    phase \in {"restore", "free", "release"} =>
        /\ ClosedUnder(prop, gc_obj_list)
        /\ \A p \in gc_obj_list : /\ mark[p] = 0
                                  /\ Total(p) > Refs(prop, Ptr \ gc_obj_list, p)
        /\ \A p \in Ptr \ gc_obj_list : Total(p) = Refs(prop, Ptr, p)

RestoreInv == phase = "restore" => todo \subseteq tmp_obj_list /\ OnlyReached

(* gc_free_cycles: an object that was freed has no field left, and the     *)
(* last reference to an Other is dropped within free_object only.          *)
FreeInv ==
    Freeing =>
        /\ todo = {}
        /\ cur \in (tmp_obj_list \cap Obj) \cup {NoPtr}
        /\ \A x \in Slot : x[1] = cur \/ x[1] \in zero_list \cap Obj => prop[x] = NoPtr
        /\ cur = NoPtr => \A o \in memory \cap Other : refCount[o] > 0

ReleaseInv ==
    phase = "release" => tmp_obj_list = {} /\ zero_list \subseteq Obj

IndInv ==
    /\ TypeOK /\ Lists /\ Slots /\ Counts
    /\ IdleInv /\ DecrefInv /\ ScanInv /\ Split /\ RestoreInv /\ FreeInv /\ ReleaseInv

---------------------------------------------------------------------------
(* Counting slots.                                                         *)
LEMMA SlotFinite == IsFiniteSet(Slot)
<1>1. IsFiniteSet(Name \cup {Intrinsic})
  BY CollectorAssumption, FS_AddElement
<1> QED
  BY <1>1, CollectorAssumption, FS_Product DEF Slot

LEMMA RefsNat ==
    ASSUME NEW pr, NEW S, NEW q
    PROVE  IsFiniteSet(SlotsOf(pr, S, q)) /\ Refs(pr, S, q) \in Nat
<1>1. SlotsOf(pr, S, q) \subseteq Slot
  BY DEF SlotsOf
<1>2. IsFiniteSet(SlotsOf(pr, S, q))
  BY <1>1, SlotFinite, FS_Subset
<1> QED
  BY <1>2, FS_CardinalityType DEF Refs

LEMMA RefsMono ==
    ASSUME NEW pr, NEW S, NEW R, NEW q, S \subseteq R
    PROVE  Refs(pr, S, q) <= Refs(pr, R, q)
<1>1. SlotsOf(pr, S, q) \subseteq SlotsOf(pr, R, q)
  BY DEF SlotsOf
<1> QED
  BY <1>1, RefsNat, FS_Subset DEF Refs

(* The slots of two sets of nodes that have none in common.                *)
LEMMA RefsUnion ==
    ASSUME NEW pr, NEW S, NEW R, NEW q, S \cap R = {}
    PROVE  Refs(pr, S \cup R, q) = Refs(pr, S, q) + Refs(pr, R, q)
<1>1. SlotsOf(pr, S \cup R, q) = SlotsOf(pr, S, q) \cup SlotsOf(pr, R, q)
  BY DEF SlotsOf
<1>2. SlotsOf(pr, S, q) \cap SlotsOf(pr, R, q) = {}
  BY DEF SlotsOf
<1>3. IsFiniteSet(SlotsOf(pr, S, q)) /\ IsFiniteSet(SlotsOf(pr, R, q))
  BY RefsNat
<1>4. Cardinality(SlotsOf(pr, S, q) \cup SlotsOf(pr, R, q)) =
         Refs(pr, S, q) + Refs(pr, R, q)
           - Cardinality(SlotsOf(pr, S, q) \cap SlotsOf(pr, R, q))
  BY <1>3, FS_Union DEF Refs
<1>5. Cardinality(SlotsOf(pr, S, q) \cap SlotsOf(pr, R, q)) = 0
  BY <1>2, FS_EmptySet
<1>6. Refs(pr, S, q) \in Nat /\ Refs(pr, R, q) \in Nat
  BY RefsNat
<1> QED
  BY <1>1, <1>4, <1>5, <1>6 DEF Refs

LEMMA RefsEmpty ==
    ASSUME NEW pr, NEW q
    PROVE  Refs(pr, {}, q) = 0
<1>1. SlotsOf(pr, {}, q) = {}
  BY DEF SlotsOf
<1> QED
  BY <1>1, FS_EmptySet DEF Refs

LEMMA RefsZero ==
    ASSUME NEW pr, NEW S, NEW q
    PROVE  Refs(pr, S, q) = 0 <=> \A x \in Slot : x[1] \in S => pr[x] # q
<1>1. Refs(pr, S, q) = 0 <=> SlotsOf(pr, S, q) = {}
  BY RefsNat, FS_EmptySet DEF Refs
<1> QED
  BY <1>1 DEF SlotsOf

(* Two sets of nodes whose slots hold q in the same places.                *)
LEMMA RefsSame ==
    ASSUME NEW pr, NEW S, NEW f, NEW R, NEW q,
           \A x \in Slot : (x[1] \in S /\ pr[x] = q) <=> (x[1] \in R /\ f[x] = q)
    PROVE  Refs(pr, S, q) = Refs(f, R, q)
<1>1. SlotsOf(pr, S, q) = SlotsOf(f, R, q)
  BY DEF SlotsOf
<1> QED
  BY <1>1 DEF Refs

(* The references of one node more or less.                                *)
LEMMA RefsOne ==
    ASSUME NEW pr, NEW S, NEW p, NEW R, NEW q, p \notin S, R = S \cup {p}
    PROVE  /\ Kids(pr, p, q) \in Nat /\ Refs(pr, S, q) \in Nat /\ Refs(pr, R, q) \in Nat
           /\ Refs(pr, R, q) = Refs(pr, S, q) + Kids(pr, p, q)
  BY RefsUnion, RefsNat DEF Kids

(* What the module says with its own operators.                            *)
LEMMA ChildrenAreRefs ==
    /\ \A p, q : mark_children(p, q) = Kids(prop, p, q)
    /\ \A S, q : RefsFrom(S, q) = Refs(prop, S, q)
  BY DEF mark_children, RefsFrom, Refs, Kids, SlotsOf

(* Only what is allocated has slots, and only that is in one.              *)
LEMMA RefsInMemory ==
    ASSUME TypeOK, Slots
    PROVE  /\ \A S, q : q \in Ptr => Refs(prop, S, q) = Refs(prop, S \cap memory, q)
           /\ \A S, q : q \in Ptr \ memory => Refs(prop, S, q) = 0
<1>1. ASSUME NEW S, NEW q \in Ptr PROVE Refs(prop, S, q) = Refs(prop, S \cap memory, q)
  <2>1. q # NoPtr
    BY CollectorAssumption
  <2>2. \A x \in Slot : (x[1] \in S /\ prop[x] = q) <=> (x[1] \in S \cap memory /\ prop[x] = q)
    BY <2>1 DEF Slots
  <2> QED
    BY <2>2, RefsSame
<1>2. ASSUME NEW S, NEW q \in Ptr \ memory PROVE Refs(prop, S, q) = 0
  <2>1. q # NoPtr
    BY CollectorAssumption
  <2>2. \A x \in Slot : x[1] \in S => prop[x] # q
    BY <2>1 DEF Slots
  <2> QED
    BY <2>2, RefsZero
<1> QED
  BY <1>1, <1>2

---------------------------------------------------------------------------
(* The inductive invariant holds in the beginning ...                      *)
LEMMA InitHolds == Init => IndInv
<1> SUFFICES ASSUME Init PROVE IndInv
  OBVIOUS
<1>1. PICK held \in [Obj \cup {Ctx} -> 0 .. MaxHeld] :
         refCount = [p \in Ptr |-> RefsFrom(Ptr, p) +
                                     IF p \in DOMAIN held THEN held[p] ELSE 0]
  BY DEF Init
<1>2. \A p \in Ptr : refCount[p] \in Nat /\ refCount[p] >= Refs(prop, Ptr, p)
  BY <1>1, ChildrenAreRefs, RefsNat, CollectorAssumption
<1>3. TypeOK
  BY <1>1, <1>2, CollectorAssumption DEF Init, TypeOK, Phase, Value
<1>4. Decremented = {} /\ ~Freeing /\ phase = "idle"
  BY DEF Init, Decremented, Freeing
<1>5. \A p \in Ptr : Total(p) = refCount[p]
  BY <1>2, <1>4, RefsEmpty DEF Total
<1>6. Lists
  BY DEF Init, Lists
<1>7. Slots
  <2> SUFFICES ASSUME NEW x \in Slot
               PROVE  /\ prop[x] # NoPtr => x[1] \in memory /\ prop[x] \in memory
                      /\ x[1] \in Other => prop[x] \in Obj \cup {NoPtr}
    BY DEF Slots
  <2>1. x[1] \in Other => prop[x] \in Obj \cup {NoPtr}
    BY DEF Init
  <2>2. ASSUME prop[x] # NoPtr PROVE x[1] \in memory /\ prop[x] \in memory
    <3>1. x[1] \in memory /\ prop[x] \in Ptr /\ x[1] \in Ptr
      BY <2>2, <1>3 DEF Init, TypeOK, Value
    <3>2. Refs(prop, Ptr, prop[x]) # 0
      BY <3>1, RefsZero
    <3>3. refCount[prop[x]] > 0
      BY <3>1, <3>2, <1>2, RefsNat
    <3> QED
      BY <3>1, <3>3 DEF Init
  <2> QED
    BY <2>1, <2>2
<1>8. Counts
  BY <1>2, <1>4, <1>5 DEF Counts, Init
<1>9. IdleInv
  BY DEF IdleInv, Init
<1>10. DecrefInv /\ ScanInv /\ Split /\ RestoreInv /\ FreeInv /\ ReleaseInv
  BY <1>4 DEF DecrefInv, ScanInv, Split, RestoreInv, FreeInv, ReleaseInv, Freeing
<1> QED
  BY <1>3, <1>6, <1>7, <1>8, <1>9, <1>10 DEF IndInv

---------------------------------------------------------------------------
(* ... and every action keeps it.                                          *)
LEMMA StartGCKeeps ==
    ASSUME IndInv, StartGC
    PROVE  IndInv' /\ \A q \in Ptr : Total(q)' = Total(q)
<1>1. /\ phase = "idle" /\ phase' = "decref" /\ todo' = gc_obj_list /\ tmp_obj_list' = {}
      /\ tmp_obj_list = {} /\ zero_list = {} /\ memory = gc_obj_list
      /\ UNCHANGED <<gc_obj_list, zero_list, memory, mark, refCount, prop, cur>>
  BY DEF StartGC, IndInv, IdleInv, Lists, Freeing
<1>2. TypeOK'
  BY <1>1 DEF IndInv, TypeOK, Phase
<1>3. Decremented = {} /\ Decremented' = {} /\ ~Freeing /\ ~Freeing'
  BY <1>1 DEF Decremented, Freeing
<1>4. Lists' /\ Slots'
  BY <1>1, <1>3 DEF IndInv, Lists, Slots
<1>5. Counts' /\ \A q \in Ptr : Total(q)' = Total(q)
  BY <1>1, <1>3 DEF IndInv, Counts, Total
<1>6. DecrefInv'
  <2>1. \A p \in memory : refCount[p] \in Nat
    BY DEF IndInv, TypeOK
  <2> QED
    BY <1>1, <2>1 DEF IndInv, DecrefInv, IdleInv, TypeOK
<1>7. (IdleInv /\ ScanInv /\ Split /\ RestoreInv /\ FreeInv /\ ReleaseInv)'
  BY <1>1 DEF IdleInv, ScanInv, Split, RestoreInv, FreeInv, ReleaseInv, Freeing
<1> QED
  BY <1>2, <1>4, <1>5, <1>6, <1>7 DEF IndInv

LEMMA gc_decrefKeeps ==
    ASSUME IndInv, NEW p \in Ptr, gc_decref(p)
    PROVE  IndInv' /\ \A q \in Ptr : Total(q)' = Total(q)
<1>1. /\ phase = "decref" /\ phase' = "decref" /\ p \in todo /\ todo' = todo \ {p}
      /\ UNCHANGED <<zero_list, memory, prop, cur>>
      /\ mark' = [mark EXCEPT ![p] = 1]
  BY DEF gc_decref
<1>2. /\ zero_list = {} /\ memory = gc_obj_list \cup tmp_obj_list
      /\ gc_obj_list \cap tmp_obj_list = {}
      /\ memory \subseteq Ptr /\ todo \subseteq gc_obj_list /\ cur = NoPtr
      /\ ~Freeing /\ ~Freeing'
  BY <1>1 DEF IndInv, Lists, Freeing, TypeOK, DecrefInv
<1> DEFINE D == memory \ todo
           E == D \cup {p}
           moved == {q \in gc_obj_list : refCount'[q] = 0 /\ mark'[q] = 1}
<1>3. gc_obj_list' = gc_obj_list \ moved /\ tmp_obj_list' = tmp_obj_list \cup moved
  BY DEF gc_decref
<1>4. Decremented = D /\ Decremented' = E /\ p \notin D /\ E = D \cup {p} /\ E \subseteq Ptr
  BY <1>1, <1>2, <1>3 DEF Decremented
<1> HIDE DEF D, E
<1>5. \A q \in Ptr : /\ refCount'[q] = refCount[q] - Kids(prop, p, q)
                     /\ refCount[q] \in Nat
                     /\ Kids(prop, p, q) \in Nat /\ Refs(prop, D, q) \in Nat
                     /\ Refs(prop, E, q) = Refs(prop, D, q) + Kids(prop, p, q)
  BY <1>4, ChildrenAreRefs, RefsNat, RefsOne DEF gc_decref, IndInv, TypeOK
<1>6. \A q \in Ptr : refCount[q] >= Kids(prop, p, q)
  <2> SUFFICES ASSUME NEW q \in Ptr PROVE refCount[q] >= Kids(prop, p, q)
    OBVIOUS
  <2>1. refCount[q] + Refs(prop, D, q) >= Refs(prop, Ptr, q)
    BY <1>4 DEF IndInv, Counts, Total
  <2>2. E \subseteq Ptr
    BY <1>4
  <2>3. Refs(prop, E, q) <= Refs(prop, Ptr, q) /\ Refs(prop, Ptr, q) \in Nat
    BY <2>2, RefsMono, RefsNat
  <2> QED
    BY <1>5, <2>1, <2>3
<1>7. refCount' \in [Ptr -> Nat]
  <2>1. \A q \in Ptr : refCount'[q] \in Nat
    BY <1>5, <1>6
  <2>2. refCount' = [q \in Ptr |-> refCount'[q]]
    BY DEF gc_decref
  <2> QED
    BY <2>1, <2>2
<1>8. TypeOK'
  BY <1>1, <1>3, <1>7 DEF IndInv, TypeOK
<1>9. \A q \in Ptr : Total(q)' = Total(q)
  <2> SUFFICES ASSUME NEW q \in Ptr PROVE Total(q)' = Total(q)
    OBVIOUS
  <2>1. Total(q) = refCount[q] + Refs(prop, D, q) /\ Total(q)' = refCount'[q] + Refs(prop, E, q)
    BY <1>1, <1>4 DEF Total
  <2> QED
    BY <1>5, <2>1
<1>10. Lists' /\ Slots'
  BY <1>1, <1>2, <1>3 DEF IndInv, Lists, Slots
<1>11. Counts'
  <2>1. \A q \in Ptr : Total(q)' >= Refs(prop', Ptr, q)
    BY <1>1, <1>9 DEF IndInv, Counts
  <2>2. \A q \in Ptr \ memory : refCount'[q] = 0
    BY <1>5, <1>6 DEF IndInv, Counts
  <2>3. \A q \in memory : Total(q)' > 0
    BY <1>2, <1>9 DEF IndInv, Counts
  <2> QED
    BY <1>1, <2>1, <2>2, <2>3 DEF Counts
<1>12. DecrefInv'
  <2>1. todo' \subseteq gc_obj_list'
    BY <1>1, <1>2, <1>3 DEF IndInv, DecrefInv, TypeOK
  <2>2. \A q \in memory : mark'[q] = IF q \in todo' THEN 0 ELSE 1
    BY <1>1, <1>2 DEF IndInv, DecrefInv, TypeOK
  <2>3. \A q \in tmp_obj_list : refCount[q] = 0 /\ refCount'[q] = 0
    BY <1>1, <1>2, <1>5, <1>6 DEF IndInv, DecrefInv
  <2>4. tmp_obj_list' = {q \in memory \ todo' : refCount'[q] = 0}
    BY <1>1, <1>2, <1>3, <2>2, <2>3 DEF IndInv, DecrefInv
  <2> QED
    BY <1>1, <2>1, <2>2, <2>4 DEF DecrefInv
<1>13. (IdleInv /\ ScanInv /\ Split /\ RestoreInv /\ FreeInv /\ ReleaseInv)'
  BY <1>1 DEF IdleInv, ScanInv, Split, RestoreInv, FreeInv, ReleaseInv, Freeing
<1> QED
  BY <1>8, <1>9, <1>10, <1>11, <1>12, <1>13 DEF IndInv

LEMMA EndDecrefKeeps ==
    ASSUME IndInv, EndDecref
    PROVE  IndInv' /\ \A q \in Ptr : Total(q)' = Total(q)
<1>1. /\ phase = "decref" /\ phase' = "scan" /\ todo = {} /\ todo' = gc_obj_list
      /\ UNCHANGED <<gc_obj_list, tmp_obj_list, zero_list, memory, mark, refCount, prop, cur>>
  BY DEF EndDecref
<1>2. /\ zero_list = {} /\ memory = gc_obj_list \cup tmp_obj_list
      /\ gc_obj_list \cap tmp_obj_list = {}
      /\ tmp_obj_list = {p \in memory : refCount[p] = 0}
      /\ memory \subseteq Ptr /\ refCount \in [Ptr -> Nat] /\ ~Freeing /\ ~Freeing'
  BY <1>1 DEF IndInv, Lists, DecrefInv, TypeOK, Freeing
<1>3. Decremented = memory /\ Decremented' = memory
  BY <1>1, <1>2 DEF Decremented
<1>4. TypeOK'
  BY <1>1 DEF IndInv, TypeOK, Phase
<1>5. Lists' /\ Slots'
  BY <1>1, <1>2 DEF IndInv, Lists, Slots
<1>6. Counts' /\ \A q \in Ptr : Total(q)' = Total(q)
  BY <1>1, <1>2, <1>3 DEF IndInv, Counts, Total
<1>7. ASSUME NEW p \in gc_obj_list PROVE refCount[p] > 0
  BY <1>2
<1>8. OnlyReached'
  <2>1. ASSUME NEW p \in gc_obj_list PROVE p \in Held'
    <3>1. p \in Ptr /\ p \in memory'
      BY <1>1, <1>2
    <3>2. Ptr \cap memory = memory
      BY <1>2
    <3>3. Refs(prop, Ptr, p) = Refs(prop, memory, p)
      BY <3>1, <3>2, RefsInMemory DEF IndInv
    <3>4. Total(p)' = refCount[p] + Refs(prop, memory, p)
      BY <1>1, <1>3 DEF Total
    <3>5. Refs(prop, memory, p) \in Nat /\ refCount[p] \in Nat
      BY <1>2, <3>1, RefsNat
    <3>6. Total(p)' > Refs(prop', Ptr, p)
      BY <1>1, <1>7, <3>3, <3>4, <3>5
    <3> QED
      BY <3>1, <3>6 DEF Held
  <2> QED
    BY <1>1, <2>1 DEF OnlyReached
<1>9. ScanInv'
  BY <1>1, <1>2, <1>7, <1>8 DEF ScanInv
<1>10. (IdleInv /\ DecrefInv /\ Split /\ RestoreInv /\ FreeInv /\ ReleaseInv)'
  BY <1>1 DEF IdleInv, DecrefInv, Split, RestoreInv, FreeInv, ReleaseInv, Freeing
<1> QED
  BY <1>4, <1>5, <1>6, <1>9, <1>10 DEF IndInv

(* gc_scan_incref_child and gc_scan_incref_child2 give back the references *)
(* of the slots of p that gc_decref had taken.                             *)
LEMMA PutBack ==
    ASSUME IndInv, NEW p \in Decremented, ~Freeing, ~Freeing',
           refCount' = [q \in Ptr |-> refCount[q] + mark_children(p, q)],
           Decremented' = Decremented \ {p}, prop' = prop, memory' = memory
    PROVE  /\ refCount' \in [Ptr -> Nat]
           /\ \A q \in Ptr : /\ Kids(prop, p, q) \in Nat
                             /\ refCount'[q] = refCount[q] + Kids(prop, p, q)
                             /\ Total(q)' = Total(q)
           /\ Counts' /\ Held' = Held
<1> DEFINE D == Decremented \ {p}
           E == Decremented
<1>1. p \notin D /\ E = D \cup {p} /\ Decremented = E /\ Decremented' = D
  OBVIOUS
<1> HIDE DEF D, E
<1>2. \A q \in Ptr : /\ refCount'[q] = refCount[q] + Kids(prop, p, q)
                     /\ refCount[q] \in Nat
                     /\ Kids(prop, p, q) \in Nat /\ Refs(prop, D, q) \in Nat
                     /\ Refs(prop, E, q) = Refs(prop, D, q) + Kids(prop, p, q)
  BY <1>1, ChildrenAreRefs, RefsNat, RefsOne DEF IndInv, TypeOK
<1>3. refCount' \in [Ptr -> Nat]
  <2>1. \A q \in Ptr : refCount'[q] \in Nat
    BY <1>2
  <2>2. refCount' = [q \in Ptr |-> refCount'[q]]
    OBVIOUS
  <2> QED
    BY <2>1, <2>2
<1>4. \A q \in Ptr : Total(q)' = Total(q)
  <2> SUFFICES ASSUME NEW q \in Ptr PROVE Total(q)' = Total(q)
    OBVIOUS
  <2>1. Total(q) = refCount[q] + Refs(prop, E, q) /\ Total(q)' = refCount'[q] + Refs(prop, D, q)
    BY <1>1 DEF Total
  <2> QED
    BY <1>2, <2>1
<1>5. Counts'
  <2>1. \A q \in Ptr : Total(q)' >= Refs(prop', Ptr, q)
    BY <1>4 DEF IndInv, Counts
  <2>2. \A q \in Ptr \ memory : refCount'[q] = 0
    <3> SUFFICES ASSUME NEW q \in Ptr \ memory PROVE refCount'[q] = 0
      OBVIOUS
    <3>1. Kids(prop, p, q) = 0
      BY RefsInMemory DEF IndInv, Kids
    <3> QED
      BY <1>2, <3>1 DEF IndInv, Counts
  <2>3. \A q \in memory : Total(q)' > 0
    BY <1>4 DEF IndInv, Counts, TypeOK
  <2> QED
    BY <2>1, <2>2, <2>3 DEF Counts
<1>6. Held' = Held
  BY <1>4 DEF Held, IndInv, TypeOK
<1> QED
  BY <1>2, <1>3, <1>4, <1>5, <1>6

LEMMA gc_scanKeeps ==
    ASSUME IndInv, NEW p \in Ptr, gc_scan(p)
    PROVE  IndInv' /\ \A q \in Ptr : Total(q)' = Total(q)
<1> DEFINE moved == {q \in Ptr : refCount[q] = 0 /\ mark_children(p, q) > 0}
<1>1. /\ phase = "scan" /\ phase' = "scan" /\ p \in todo
      /\ refCount' = [q \in Ptr |-> refCount[q] + mark_children(p, q)]
      /\ gc_obj_list' = gc_obj_list \cup moved /\ tmp_obj_list' = tmp_obj_list \ moved
      /\ todo' = (todo \ {p}) \cup moved
      /\ mark' = [q \in Ptr |-> IF q \in moved \cup {p} THEN 0 ELSE mark[q]]
      /\ UNCHANGED <<zero_list, memory, prop, cur>>
  BY DEF gc_scan
<1>2. /\ zero_list = {} /\ memory = gc_obj_list \cup tmp_obj_list
      /\ gc_obj_list \cap tmp_obj_list = {}
      /\ todo \subseteq gc_obj_list /\ p \in gc_obj_list
      /\ \A q \in tmp_obj_list : refCount[q] = 0
      /\ \A q \in gc_obj_list : refCount[q] > 0
      /\ memory \subseteq Ptr /\ refCount \in [Ptr -> Nat] /\ ~Freeing /\ ~Freeing'
  BY <1>1 DEF IndInv, Lists, ScanInv, TypeOK, Freeing
<1>3. moved = {q \in tmp_obj_list : Kids(prop, p, q) > 0}
  <2>1. \A q \in Ptr \ memory : Kids(prop, p, q) = 0
    BY RefsInMemory DEF IndInv, Kids
  <2>2. \A q \in Ptr : Kids(prop, p, q) \in Nat
    BY RefsNat DEF Kids
  <2> QED
    BY <1>2, <2>1, <2>2, ChildrenAreRefs
<1> HIDE DEF moved
<1>4. Decremented' = Decremented \ {p} /\ p \in Decremented
  BY <1>1, <1>2, <1>3 DEF Decremented
<1>5. /\ refCount' \in [Ptr -> Nat] /\ Counts' /\ Held' = Held
      /\ \A q \in Ptr : Kids(prop, p, q) \in Nat /\ refCount'[q] = refCount[q] + Kids(prop, p, q)
      /\ \A q \in Ptr : Total(q)' = Total(q)
  BY <1>1, <1>2, <1>4, PutBack
<1>6. TypeOK'
  <2>1. mark' \in [Ptr -> {0, 1}]
    BY <1>1 DEF IndInv, TypeOK
  <2> QED
    BY <1>1, <1>2, <1>3, <1>5, <2>1 DEF IndInv, TypeOK
<1>7. Lists' /\ Slots'
  BY <1>1, <1>2, <1>3 DEF IndInv, Lists, Slots
<1>8. OnlyReached'
  <2> SUFFICES ASSUME NEW S \in SUBSET Ptr, Held \subseteq S, ClosedUnder(prop, S)
               PROVE  gc_obj_list' \subseteq S
    BY <1>1, <1>5 DEF OnlyReached
  <2>1. gc_obj_list \subseteq S
    BY <1>1 DEF IndInv, ScanInv, OnlyReached
  <2>2. ASSUME NEW q \in moved PROVE q \in S
    <3>1. q \in Ptr /\ q # NoPtr /\ Refs(prop, {p}, q) # 0
      BY <1>2, <1>3, CollectorAssumption DEF Kids
    <3>2. PICK x \in Slot : x[1] = p /\ prop[x] = q
      BY <3>1, RefsZero
    <3> QED
      BY <1>2, <2>1, <3>1, <3>2 DEF ClosedUnder
  <2> QED
    BY <1>1, <2>1, <2>2
<1>9. ScanInv'
  <2>1. todo' \subseteq gc_obj_list'
    BY <1>1, <1>2
  <2>2. \A q \in tmp_obj_list' : refCount'[q] = 0
    BY <1>1, <1>2, <1>3, <1>5
  <2>3. \A q \in gc_obj_list' : refCount'[q] > 0
    BY <1>1, <1>2, <1>3, <1>5
  <2>4. \A q \in gc_obj_list' \ todo' : mark'[q] = 0
    BY <1>1, <1>2, <1>3 DEF IndInv, ScanInv
  <2> QED
    BY <1>1, <1>8, <2>1, <2>2, <2>3, <2>4 DEF ScanInv
<1>10. (IdleInv /\ DecrefInv /\ Split /\ RestoreInv /\ FreeInv /\ ReleaseInv)'
  BY <1>1 DEF IdleInv, DecrefInv, Split, RestoreInv, FreeInv, ReleaseInv, Freeing
<1> QED
  BY <1>5, <1>6, <1>7, <1>9, <1>10 DEF IndInv

LEMMA EndScanKeeps ==
    ASSUME IndInv, EndScan
    PROVE  IndInv' /\ \A q \in Ptr : Total(q)' = Total(q)
<1>1. /\ phase = "scan" /\ phase' = "restore" /\ todo = {} /\ todo' = tmp_obj_list
      /\ UNCHANGED <<gc_obj_list, tmp_obj_list, zero_list, memory, mark, refCount, prop, cur>>
  BY DEF EndScan
<1> DEFINE K == gc_obj_list
           T == tmp_obj_list
           R == Ptr \ K
<1>2. /\ zero_list = {} /\ memory = K \cup T /\ K \cap T = {}
      /\ \A p \in T : refCount[p] = 0
      /\ \A p \in K : refCount[p] > 0 /\ mark[p] = 0
      /\ memory \subseteq Ptr /\ refCount \in [Ptr -> Nat] /\ ~Freeing /\ ~Freeing'
  BY <1>1 DEF IndInv, Lists, ScanInv, TypeOK, Freeing
<1>3. Decremented = T /\ Decremented' = T
  BY <1>1 DEF Decremented
<1>4. TypeOK' /\ Lists' /\ Slots'
  BY <1>1, <1>2 DEF IndInv, TypeOK, Phase, Lists, Slots
<1>5. \A p \in Ptr : /\ Total(p) = refCount[p] + Refs(prop, T, p) /\ Total(p)' = Total(p)
                     /\ Total(p) >= Refs(prop, Ptr, p)
  BY <1>1, <1>3 DEF IndInv, Counts, Total
<1>6. Counts' /\ OnlyReached'
  <2>1. Held' = Held
    BY <1>1, <1>2, <1>5 DEF Held
  <2> QED
    BY <1>1, <1>2, <1>5, <2>1 DEF IndInv, Counts, ScanInv, OnlyReached
<1>7. /\ Ptr \cap memory = K \cup T /\ R \cap memory = T
  BY <1>2
<1> HIDE DEF K, T, R
<1>8. \A p \in Ptr : /\ Refs(prop, K, p) \in Nat /\ Refs(prop, T, p) \in Nat
                     /\ Refs(prop, Ptr, p) = Refs(prop, K, p) + Refs(prop, T, p)
                     /\ Refs(prop, R, p) = Refs(prop, T, p)
  <2> SUFFICES ASSUME NEW p \in Ptr
               PROVE  /\ Refs(prop, K, p) \in Nat /\ Refs(prop, T, p) \in Nat
                      /\ Refs(prop, Ptr, p) = Refs(prop, K, p) + Refs(prop, T, p)
                      /\ Refs(prop, R, p) = Refs(prop, T, p)
    OBVIOUS
  <2>1. Refs(prop, Ptr, p) = Refs(prop, K \cup T, p) /\ Refs(prop, R, p) = Refs(prop, T, p)
    BY <1>7, RefsInMemory DEF IndInv
  <2> QED
    BY <1>2, <2>1, RefsNat, RefsUnion
<1>9. \A p \in Ptr \ K : refCount[p] = 0 /\ Refs(prop, K, p) = 0
  <2> SUFFICES ASSUME NEW p \in Ptr \ K PROVE refCount[p] = 0 /\ Refs(prop, K, p) = 0
    OBVIOUS
  <2>1. refCount[p] = 0
    BY <1>2 DEF IndInv, Counts
  <2> QED
    BY <1>5, <1>8, <2>1
<1>10. ClosedUnder(prop, K)
  <2> SUFFICES ASSUME NEW x \in Slot, x[1] \in K, prop[x] # NoPtr PROVE prop[x] \in K
    BY DEF ClosedUnder
  <2>1. prop[x] \in Ptr /\ Refs(prop, K, prop[x]) # 0
    BY <1>2, RefsZero DEF IndInv, Slots
  <2> QED
    BY <1>9, <2>1
<1>11. \A p \in K : Total(p) > Refs(prop, R, p)
  BY <1>2, <1>5, <1>8
<1>12. \A p \in Ptr \ K : Total(p) = Refs(prop, Ptr, p)
  BY <1>5, <1>8, <1>9
<1>13. Split' /\ RestoreInv'
  BY <1>1, <1>2, <1>5, <1>6, <1>10, <1>11, <1>12 DEF Split, RestoreInv, K, T, R
<1>14. (IdleInv /\ DecrefInv /\ ScanInv /\ FreeInv /\ ReleaseInv)'
  BY <1>1 DEF IdleInv, DecrefInv, ScanInv, FreeInv, ReleaseInv, Freeing
<1> QED
  BY <1>4, <1>5, <1>6, <1>13, <1>14 DEF IndInv

LEMMA gc_scan_restoreKeeps ==
    ASSUME IndInv, NEW p \in Ptr, gc_scan_restore(p)
    PROVE  IndInv' /\ \A q \in Ptr : Total(q)' = Total(q)
<1>1. /\ phase = "restore" /\ phase' = "restore" /\ p \in todo /\ todo' = todo \ {p}
      /\ refCount' = [q \in Ptr |-> refCount[q] + mark_children(p, q)]
      /\ UNCHANGED <<gc_obj_list, tmp_obj_list, zero_list, memory, mark, prop, cur>>
  BY DEF gc_scan_restore
<1>2. ~Freeing /\ ~Freeing' /\ Decremented' = Decremented \ {p} /\ p \in Decremented
  BY <1>1 DEF Freeing, Decremented
<1>3. /\ refCount' \in [Ptr -> Nat] /\ Counts' /\ Held' = Held
      /\ \A q \in Ptr : Total(q)' = Total(q)
  BY <1>1, <1>2, PutBack
<1>4. TypeOK' /\ Lists' /\ Slots'
  BY <1>1, <1>2, <1>3 DEF IndInv, TypeOK, Lists, Slots
<1>5. Split'
  BY <1>1, <1>3 DEF IndInv, TypeOK, Split
<1>6. RestoreInv'
  BY <1>1, <1>3 DEF IndInv, RestoreInv, OnlyReached
<1>7. (IdleInv /\ DecrefInv /\ ScanInv /\ FreeInv /\ ReleaseInv)'
  BY <1>1 DEF IdleInv, DecrefInv, ScanInv, FreeInv, ReleaseInv, Freeing
<1> QED
  BY <1>3, <1>4, <1>5, <1>6, <1>7 DEF IndInv

LEMMA EndRestoreKeeps ==
    ASSUME IndInv, EndRestore
    PROVE  IndInv'
<1>1. /\ phase = "restore" /\ phase' = "free" /\ todo = {}
      /\ UNCHANGED <<todo, gc_obj_list, tmp_obj_list, zero_list, memory, mark, refCount,
                     prop, cur>>
  BY DEF EndRestore
<1>2. /\ ~Freeing /\ Freeing' /\ Decremented = {} /\ Decremented' = {}
      /\ zero_list = {} /\ cur = NoPtr /\ memory \subseteq Ptr /\ refCount \in [Ptr -> Nat]
  BY <1>1 DEF Freeing, Decremented, IndInv, Lists, TypeOK
<1>3. \A p \in Ptr : Total(p)' = Total(p) /\ Total(p) = refCount[p]
  BY <1>1, <1>2, RefsEmpty DEF Total
<1>4. TypeOK' /\ Lists' /\ Slots'
  BY <1>1, <1>2 DEF IndInv, TypeOK, Phase, Lists, Slots
<1>5. Counts' /\ Split'
  BY <1>1, <1>2, <1>3 DEF IndInv, TypeOK, Counts, Split
<1>6. FreeInv'
  <2>1. \A x \in Slot : x[1] # NoPtr
    BY CollectorAssumption DEF Slot
  <2>2. \A o \in memory : refCount[o] > 0
    BY <1>2, <1>3 DEF IndInv, Counts
  <2> QED
    BY <1>1, <1>2, <2>1, <2>2 DEF FreeInv
<1>7. (IdleInv /\ DecrefInv /\ ScanInv /\ RestoreInv /\ ReleaseInv)'
  BY <1>1 DEF IdleInv, DecrefInv, ScanInv, RestoreInv, ReleaseInv
<1> QED
  BY <1>4, <1>5, <1>6, <1>7 DEF IndInv

(* While garbage is freed the counts are those of the program.             *)
LEMMA FreeingCounts ==
    ASSUME IndInv, Freeing
    PROVE  /\ Decremented = {}
           /\ \A p \in Ptr : Total(p) = refCount[p]
           /\ ClosedUnder(prop, gc_obj_list)
           /\ \A p \in gc_obj_list : mark[p] = 0 /\ refCount[p] > Refs(prop, Ptr \ gc_obj_list, p)
           /\ \A p \in Ptr \ gc_obj_list : refCount[p] = Refs(prop, Ptr, p)
           /\ \A p \in Ptr : refCount[p] >= Refs(prop, Ptr, p)
           /\ \A p \in Ptr \ memory : refCount[p] = 0
<1>1. Decremented = {}
  BY DEF Decremented, Freeing
<1>2. \A p \in Ptr : Total(p) = refCount[p]
  BY <1>1, RefsEmpty DEF Total, IndInv, TypeOK
<1> QED
  BY <1>1, <1>2 DEF IndInv, Split, Counts, Freeing, TypeOK

(* Dropping the slots of a node that is garbage.                           *)
LEMMA Dropped ==
    ASSUME IndInv, phase = "free", phase' = "free", NEW p \in Ptr \ gc_obj_list, DropSlots(p),
           gc_obj_list' = gc_obj_list, mark' = mark, memory' \subseteq memory,
           \A q \in memory \ memory' : refCount[q] = 0
    PROVE  /\ prop' \in [Slot -> Value] /\ refCount' \in [Ptr -> Nat]
           /\ \A x \in Slot : prop'[x] = IF x[1] = p THEN NoPtr ELSE prop[x]
           /\ \A q \in Ptr : refCount'[q] - Refs(prop', Ptr \ gc_obj_list, q) =
                             refCount[q] - Refs(prop, Ptr \ gc_obj_list, q)
           /\ Counts' /\ Split'
<1> DEFINE K == gc_obj_list
           G == Ptr \ K
           H == G \ {p}
           Q == Ptr \ {p}
<1>1. Freeing /\ Freeing' /\ Decremented' = {}
  BY DEF Freeing, Decremented
<1>2. /\ ClosedUnder(prop, K)
      /\ \A q \in K : mark[q] = 0 /\ refCount[q] > Refs(prop, G, q)
      /\ \A q \in G : refCount[q] = Refs(prop, Ptr, q)
      /\ \A q \in Ptr : refCount[q] >= Refs(prop, Ptr, q) /\ refCount[q] \in Nat
      /\ \A q \in Ptr \ memory : refCount[q] = 0
  BY <1>1, FreeingCounts DEF IndInv, TypeOK
<1>3. /\ G = H \cup {p} /\ p \notin H /\ Ptr = Q \cup {p} /\ p \notin Q /\ Ptr \ {p} = Q
      /\ G \ {p} = H /\ G \subseteq Ptr /\ K \subseteq Ptr /\ \A q \in Ptr : q \in K \/ q \in G
      /\ gc_obj_list = K /\ Ptr \ gc_obj_list = G
  BY DEF IndInv, TypeOK
<1>4. /\ prop' = [x \in Slot |-> IF x[1] = p THEN NoPtr ELSE prop[x]]
      /\ \A q \in Ptr : refCount'[q] = refCount[q] - Kids(prop, p, q)
      /\ refCount' = [q \in Ptr |-> refCount'[q]]
  BY ChildrenAreRefs DEF DropSlots
<1> HIDE DEF K, G, H, Q
<1>5. /\ prop' \in [Slot -> Value]
      /\ \A x \in Slot : prop'[x] = IF x[1] = p THEN NoPtr ELSE prop[x]
  BY <1>4 DEF IndInv, TypeOK, Value
<1>6. \A q \in Ptr : /\ Kids(prop, p, q) \in Nat /\ Refs(prop, H, q) \in Nat
                     /\ Refs(prop, Q, q) \in Nat
                     /\ Refs(prop, G, q) = Refs(prop, H, q) + Kids(prop, p, q)
                     /\ Refs(prop, Ptr, q) = Refs(prop, Q, q) + Kids(prop, p, q)
                     /\ Refs(prop', G, q) = Refs(prop, H, q)
                     /\ Refs(prop', Ptr, q) = Refs(prop, Q, q)
  <2> SUFFICES ASSUME NEW q \in Ptr
               PROVE  /\ Kids(prop, p, q) \in Nat /\ Refs(prop, H, q) \in Nat
                      /\ Refs(prop, Q, q) \in Nat
                      /\ Refs(prop, G, q) = Refs(prop, H, q) + Kids(prop, p, q)
                      /\ Refs(prop, Ptr, q) = Refs(prop, Q, q) + Kids(prop, p, q)
                      /\ Refs(prop', G, q) = Refs(prop, H, q)
                      /\ Refs(prop', Ptr, q) = Refs(prop, Q, q)
    OBVIOUS
  <2>1. /\ Kids(prop, p, q) \in Nat /\ Refs(prop, H, q) \in Nat
        /\ Refs(prop, G, q) = Refs(prop, H, q) + Kids(prop, p, q)
    BY <1>3, RefsOne
  <2>2. /\ Refs(prop, Q, q) \in Nat
        /\ Refs(prop, Ptr, q) = Refs(prop, Q, q) + Kids(prop, p, q)
    BY <1>3, RefsOne
  <2>3. q # NoPtr
    BY CollectorAssumption
  <2>4. Refs(prop', G, q) = Refs(prop, H, q)
    <3>1. \A x \in Slot : (x[1] \in G /\ prop'[x] = q) <=> (x[1] \in H /\ prop[x] = q)
      BY <1>3, <1>5, <2>3
    <3> QED
      BY <3>1, RefsSame
  <2>5. Refs(prop', Ptr, q) = Refs(prop, Q, q)
    <3>1. \A x \in Slot : (x[1] \in Ptr /\ prop'[x] = q) <=> (x[1] \in Q /\ prop[x] = q)
      BY <1>3, <1>5, <2>3
    <3> QED
      BY <3>1, RefsSame
  <2> QED
    BY <2>1, <2>2, <2>4, <2>5
<1>7. \A q \in Ptr : /\ refCount'[q] \in Nat
                     /\ refCount'[q] >= Refs(prop', Ptr, q)
                     /\ refCount'[q] - Refs(prop', G, q) = refCount[q] - Refs(prop, G, q)
  BY <1>2, <1>4, <1>6
<1>8. refCount' \in [Ptr -> Nat]
  BY <1>4, <1>7
<1>9. \A q \in Ptr : Total(q)' = refCount'[q]
  BY <1>1, <1>7, RefsEmpty DEF Total
<1>10. \A q \in Ptr \ memory' : refCount'[q] = 0
  <2> SUFFICES ASSUME NEW q \in Ptr, q \notin memory' PROVE refCount'[q] = 0
    OBVIOUS
  <2>1. refCount[q] = 0
    BY <1>2
  <2> QED
    BY <1>4, <1>6, <1>7, <2>1
<1>11. Counts'
  BY <1>1, <1>7, <1>9, <1>10 DEF Counts
<1>12. ClosedUnder(prop', K)
  BY <1>2, <1>5 DEF ClosedUnder
<1>13. \A q \in K : mark'[q] = 0 /\ refCount'[q] > Refs(prop', G, q)
  <2> SUFFICES ASSUME NEW q \in K PROVE mark'[q] = 0 /\ refCount'[q] > Refs(prop', G, q)
    OBVIOUS
  <2>1. q \in Ptr /\ mark[q] = 0 /\ refCount[q] > Refs(prop, G, q)
    BY <1>2, <1>3
  <2> QED
    BY <1>2, <1>4, <1>6, <2>1
<1>14. \A q \in G : refCount'[q] = Refs(prop', Ptr, q)
  <2> SUFFICES ASSUME NEW q \in G PROVE refCount'[q] = Refs(prop', Ptr, q)
    OBVIOUS
  <2>1. q \in Ptr /\ refCount[q] = Refs(prop, Ptr, q)
    BY <1>2, <1>3
  <2> QED
    BY <1>4, <1>6, <2>1
<1>15. Split'
  BY <1>3, <1>9, <1>12, <1>13, <1>14, SMTT(30) DEF Split
<1> QED
  BY <1>3, <1>5, <1>7, <1>8, <1>11, <1>15

LEMMA FreeFieldsKeeps ==
    ASSUME IndInv, NEW p \in Ptr, FreeFields(p)
    PROVE  IndInv'
<1>1. /\ phase = "free" /\ phase' = "free" /\ cur = NoPtr /\ cur' = p
      /\ p \in tmp_obj_list \cap Obj /\ DropSlots(p)
      /\ UNCHANGED <<todo, gc_obj_list, tmp_obj_list, zero_list, memory, mark>>
  BY DEF FreeFields
<1>2. Freeing /\ Freeing' /\ p \in Ptr \ gc_obj_list /\ p # NoPtr
  BY <1>1, CollectorAssumption DEF Freeing, IndInv, Lists
<1>3. /\ prop' \in [Slot -> Value] /\ refCount' \in [Ptr -> Nat]
      /\ \A x \in Slot : prop'[x] = IF x[1] = p THEN NoPtr ELSE prop[x]
      /\ Counts' /\ Split'
  BY <1>1, <1>2, Dropped
<1>4. TypeOK'
  BY <1>1, <1>3 DEF IndInv, TypeOK, Value
<1>5. Lists' /\ Slots'
  BY <1>1, <1>2, <1>3 DEF IndInv, Lists, Slots
<1>6. FreeInv'
  BY <1>1, <1>2, <1>3 DEF IndInv, FreeInv
<1>7. (IdleInv /\ DecrefInv /\ ScanInv /\ RestoreInv /\ ReleaseInv)'
  BY <1>1 DEF IdleInv, DecrefInv, ScanInv, RestoreInv, ReleaseInv
<1> QED
  BY <1>3, <1>4, <1>5, <1>6, <1>7 DEF IndInv

(* An Other that is freed is garbage, and no slot holds it any more.       *)
LEMMA FreedOther ==
    ASSUME IndInv, NEW o \in Ptr, FreeOther(o)
    PROVE  /\ phase = "free" /\ o \in Ptr \ gc_obj_list /\ refCount[o] = 0
           /\ \A x \in Slot : prop[x] # o
<1>1. phase = "free" /\ o \in memory \cap Other /\ refCount[o] = 0 /\ Freeing
  BY DEF FreeOther, Freeing
<1>2. o \notin gc_obj_list
  <2> SUFFICES ASSUME o \in gc_obj_list PROVE FALSE
    OBVIOUS
  <2>1. refCount[o] > Refs(prop, Ptr \ gc_obj_list, o)
    BY <1>1, FreeingCounts
  <2>2. Refs(prop, Ptr \ gc_obj_list, o) \in Nat
    BY RefsNat
  <2> QED
    BY <1>1, <2>1, <2>2
<1>3. Refs(prop, Ptr, o) = 0
  BY <1>1, <1>2, FreeingCounts
<1>4. \A x \in Slot : x[1] \in Ptr
  BY DEF Slot
<1> QED
  BY <1>1, <1>2, <1>3, <1>4, RefsZero

LEMMA FreeOtherKeeps ==
    ASSUME IndInv, NEW o \in Ptr, FreeOther(o)
    PROVE  IndInv'
<1>1. /\ phase = "free" /\ phase' = "free" /\ cur # NoPtr /\ cur' = cur
      /\ o \in memory \cap Other /\ DropSlots(o)
      /\ memory' = memory \ {o} /\ gc_obj_list' = gc_obj_list \ {o}
      /\ tmp_obj_list' = tmp_obj_list \ {o} /\ zero_list' = zero_list \ {o}
      /\ UNCHANGED <<todo, mark>>
  BY DEF FreeOther
<1>2. /\ o \in Ptr \ gc_obj_list /\ refCount[o] = 0 /\ gc_obj_list' = gc_obj_list
      /\ \A x \in Slot : prop[x] # o
  BY <1>1, FreedOther
<1>3. Freeing /\ Freeing' /\ memory' \subseteq memory /\ \A q \in memory \ memory' : refCount[q] = 0
  BY <1>1, <1>2 DEF Freeing
<1>4. /\ prop' \in [Slot -> Value] /\ refCount' \in [Ptr -> Nat]
      /\ \A x \in Slot : prop'[x] = IF x[1] = o THEN NoPtr ELSE prop[x]
      /\ Counts' /\ Split'
  BY <1>1, <1>2, <1>3, Dropped
<1>5. TypeOK'
  BY <1>1, <1>4 DEF IndInv, TypeOK
<1>6. Lists'
  BY <1>1, <1>2, <1>3 DEF IndInv, Lists
<1>7. Slots'
  BY <1>1, <1>2, <1>4 DEF IndInv, Slots
<1>8. FreeInv'
  BY <1>1, <1>3, <1>4 DEF IndInv, FreeInv, Obj
<1>9. (IdleInv /\ DecrefInv /\ ScanInv /\ RestoreInv /\ ReleaseInv)'
  BY <1>1 DEF IdleInv, DecrefInv, ScanInv, RestoreInv, ReleaseInv
<1> QED
  BY <1>4, <1>5, <1>6, <1>7, <1>8, <1>9 DEF IndInv

(* The steps of this phase that change no count and no slot.               *)
LEMMA CountsKept ==
    ASSUME IndInv, Freeing, phase' \in {"free", "release"}, gc_obj_list' = gc_obj_list,
           memory' \subseteq memory, \A q \in memory \ memory' : refCount[q] = 0,
           UNCHANGED <<mark, refCount, prop>>
    PROVE  Counts' /\ Split' /\ Freeing'
<1>1. Freeing' /\ Decremented' = {} /\ Decremented = {}
  BY DEF Freeing, Decremented
<1>2. \A p \in Ptr : Total(p)' = Total(p)
  BY <1>1 DEF Total
<1> QED
  BY <1>1, <1>2 DEF IndInv, TypeOK, Counts, Split, Freeing

LEMMA EndFreeObjectKeeps ==
    ASSUME IndInv, EndFreeObject
    PROVE  IndInv'
<1>1. /\ phase = "free" /\ phase' = "free" /\ cur # NoPtr /\ cur' = NoPtr
      /\ \A o \in memory \cap Other : refCount[o] > 0
      /\ tmp_obj_list' = tmp_obj_list \ {cur}
      /\ UNCHANGED <<todo, gc_obj_list, mark, refCount, prop>>
  BY DEF EndFreeObject
<1>2. \/ refCount[cur] # 0 /\ zero_list' = zero_list \cup {cur} /\ memory' = memory
      \/ refCount[cur] = 0 /\ zero_list' = zero_list /\ memory' = memory \ {cur}
  BY DEF EndFreeObject
<1>3. /\ Freeing /\ cur \in tmp_obj_list /\ cur \in Obj /\ cur \in Ptr \ gc_obj_list
      /\ cur \in memory /\ cur \notin zero_list
      /\ \A x \in Slot : x[1] = cur => prop[x] = NoPtr
  BY <1>1 DEF Freeing, IndInv, FreeInv, Lists, Obj
<1>4. Counts' /\ Split' /\ Freeing'
  BY <1>1, <1>2, <1>3, CountsKept
<1>5. TypeOK'
  BY <1>1, <1>2, <1>3 DEF IndInv, TypeOK, Value
<1>6. Lists'
  BY <1>1, <1>2, <1>3 DEF IndInv, Lists, Freeing
<1>7. Slots'
  <2>1. ASSUME refCount[cur] = 0 PROVE \A x \in Slot : prop[x] # cur
    <3>1. Refs(prop, Ptr, cur) = 0
      BY <1>3, <2>1, FreeingCounts
    <3>2. \A x \in Slot : x[1] \in Ptr
      BY DEF Slot
    <3> QED
      BY <3>1, <3>2, RefsZero
  <2> QED
    BY <1>1, <1>2, <1>3, <2>1 DEF IndInv, Slots
<1>8. FreeInv'
  <2>1. \A x \in Slot : x[1] # NoPtr
    BY CollectorAssumption DEF Slot
  <2> QED
    BY <1>1, <1>2, <1>3, <2>1 DEF IndInv, FreeInv
<1>9. (IdleInv /\ DecrefInv /\ ScanInv /\ RestoreInv /\ ReleaseInv)'
  BY <1>1 DEF IdleInv, DecrefInv, ScanInv, RestoreInv, ReleaseInv
<1> QED
  BY <1>4, <1>5, <1>6, <1>7, <1>8, <1>9 DEF IndInv

LEMMA SkipOtherKeeps ==
    ASSUME IndInv, NEW o \in Ptr, SkipOther(o)
    PROVE  IndInv'
<1>1. /\ phase = "free" /\ phase' = "free" /\ cur = NoPtr /\ cur' = cur
      /\ o \in tmp_obj_list \cap Other
      /\ tmp_obj_list' = tmp_obj_list \ {o} /\ zero_list' = zero_list \cup {o}
      /\ UNCHANGED <<todo, gc_obj_list, memory, mark, refCount, prop>>
  BY DEF SkipOther
<1>2. Freeing
  BY <1>1 DEF Freeing
<1>3. Counts' /\ Split' /\ Freeing'
  BY <1>1, <1>2, CountsKept
<1>4. TypeOK' /\ Lists' /\ Slots'
  BY <1>1, <1>2, <1>3 DEF IndInv, TypeOK, Lists, Slots
<1>5. FreeInv'
  BY <1>1, <1>2 DEF IndInv, FreeInv, Obj
<1>6. (IdleInv /\ DecrefInv /\ ScanInv /\ RestoreInv /\ ReleaseInv)'
  BY <1>1 DEF IdleInv, DecrefInv, ScanInv, RestoreInv, ReleaseInv
<1> QED
  BY <1>3, <1>4, <1>5, <1>6 DEF IndInv

(* When the list is empty no slot is left outside of what is kept: only    *)
(* an Other could still have one, and its last owner would be an object.   *)
LEMMA NothingLeft ==
    ASSUME IndInv, Freeing, cur = NoPtr, tmp_obj_list = {}
    PROVE  /\ zero_list \subseteq Obj
           /\ \A x \in Slot : x[1] \notin gc_obj_list => prop[x] = NoPtr
<1>1. /\ zero_list \subseteq Ptr /\ memory = gc_obj_list \cup zero_list
      /\ gc_obj_list \cap zero_list = {}
  BY DEF IndInv, TypeOK, Lists
<1>2. zero_list \subseteq Obj
  <2> SUFFICES ASSUME NEW o \in zero_list, o \in Other PROVE FALSE
    BY <1>1 DEF Obj
  <2>1. refCount[o] > 0 /\ o \in Ptr \ gc_obj_list
    BY <1>1 DEF IndInv, FreeInv
  <2>2. refCount[o] = Refs(prop, Ptr, o)
    BY <2>1, FreeingCounts
  <2>3. PICK x \in Slot : prop[x] = o
    BY <2>1, <2>2, RefsZero
  <2>4. o # NoPtr /\ x[1] \in memory /\ x[1] \in Ptr
    BY <2>1, <2>3, CollectorAssumption DEF IndInv, Slots, TypeOK
  <2>5. x[1] \notin gc_obj_list
    BY <2>1, <2>3, <2>4, FreeingCounts DEF ClosedUnder
  <2>6. x[1] \notin Other
    BY <2>3, <2>4 DEF IndInv, Slots, Obj
  <2>7. x[1] \in zero_list \cap Obj
    BY <1>1, <2>4, <2>5, <2>6 DEF Obj
  <2> QED
    BY <2>3, <2>4, <2>7 DEF IndInv, FreeInv
<1>3. \A x \in Slot : x[1] \notin gc_obj_list => prop[x] = NoPtr
  BY <1>1, <1>2 DEF IndInv, FreeInv, Slots
<1> QED
  BY <1>2, <1>3

LEMMA EndFreeKeeps ==
    ASSUME IndInv, EndFree
    PROVE  IndInv'
<1>1. /\ phase = "free" /\ phase' = "release" /\ cur = NoPtr /\ tmp_obj_list = {}
      /\ UNCHANGED <<todo, gc_obj_list, tmp_obj_list, zero_list, memory, mark, refCount,
                     prop, cur>>
  BY DEF EndFree
<1>2. Freeing
  BY <1>1 DEF Freeing
<1>3. Counts' /\ Split' /\ Freeing'
  BY <1>1, <1>2, CountsKept
<1>4. TypeOK' /\ Lists' /\ Slots'
  BY <1>1, <1>2, <1>3 DEF IndInv, TypeOK, Phase, Lists, Slots
<1>5. FreeInv'
  BY <1>1, <1>2 DEF IndInv, FreeInv
<1>6. ReleaseInv'
  BY <1>1, <1>2, NothingLeft DEF ReleaseInv
<1>7. (IdleInv /\ DecrefInv /\ ScanInv /\ RestoreInv)'
  BY <1>1 DEF IdleInv, DecrefInv, ScanInv, RestoreInv
<1> QED
  BY <1>3, <1>4, <1>5, <1>6, <1>7 DEF IndInv

LEMMA ReleaseZombiesKeeps ==
    ASSUME IndInv, ReleaseZombies
    PROVE  IndInv'
<1>1. /\ phase = "release" /\ phase' = "idle" /\ memory' = memory \ zero_list
      /\ refCount' = [p \in Ptr |-> IF p \in zero_list THEN 0 ELSE refCount[p]]
      /\ mark' = [p \in Ptr |-> IF p \in memory' THEN mark[p] ELSE 0]
      /\ zero_list' = {}
      /\ UNCHANGED <<todo, gc_obj_list, tmp_obj_list, prop, cur>>
  BY DEF ReleaseZombies
<1>2. /\ Freeing /\ ~Freeing' /\ Decremented' = {}
      /\ tmp_obj_list = {} /\ cur = NoPtr /\ todo = {}
      /\ zero_list \subseteq Ptr /\ gc_obj_list \subseteq Ptr
      /\ memory = gc_obj_list \cup zero_list /\ gc_obj_list \cap zero_list = {}
      /\ refCount \in [Ptr -> Nat]
  BY <1>1 DEF Freeing, Decremented, IndInv, ReleaseInv, FreeInv, Lists, TypeOK
<1>3. memory' = gc_obj_list
  BY <1>1, <1>2
<1>4. /\ \A p \in gc_obj_list : mark[p] = 0 /\ refCount[p] > Refs(prop, Ptr \ gc_obj_list, p)
      /\ \A p \in Ptr : refCount[p] >= Refs(prop, Ptr, p)
      /\ \A p \in Ptr \ memory : refCount[p] = 0
  BY <1>2, FreeingCounts
<1>5. \A x \in Slot : prop[x] # NoPtr => x[1] \in gc_obj_list /\ prop[x] \in gc_obj_list
  BY <1>2, NothingLeft, FreeingCounts DEF ClosedUnder
<1>6. TypeOK'
  <2>1. refCount' \in [Ptr -> Nat] /\ mark' \in [Ptr -> {0, 1}]
    BY <1>1, <1>2 DEF IndInv, TypeOK
  <2> QED
    BY <1>1, <1>2, <1>3, <2>1 DEF IndInv, TypeOK, Phase
<1>7. Lists' /\ Slots'
  BY <1>1, <1>2, <1>3, <1>5 DEF IndInv, Lists, Slots
<1>8. Counts'
  <2>1. \A p \in Ptr : Total(p)' = refCount'[p] /\ refCount'[p] \in Nat
    BY <1>1, <1>2, RefsEmpty DEF Total
  <2>2. \A p \in zero_list : Refs(prop, Ptr, p) = 0
    <3> SUFFICES ASSUME NEW p \in zero_list PROVE Refs(prop, Ptr, p) = 0
      OBVIOUS
    <3>1. \A x \in Slot : prop[x] # p
      BY <1>2, <1>5, CollectorAssumption
    <3> QED
      BY <3>1, RefsZero
  <2>3. \A p \in Ptr : refCount'[p] >= Refs(prop, Ptr, p)
    BY <1>1, <1>4, <2>2
  <2>4. \A p \in gc_obj_list : refCount'[p] > 0
    <3> SUFFICES ASSUME NEW p \in gc_obj_list PROVE refCount'[p] > 0
      OBVIOUS
    <3>1. refCount[p] > Refs(prop, Ptr \ gc_obj_list, p) /\ Refs(prop, Ptr \ gc_obj_list, p) \in Nat
      BY <1>4, RefsNat
    <3>2. refCount'[p] = refCount[p] /\ refCount[p] \in Nat
      BY <1>1, <1>2
    <3> QED
      BY <3>1, <3>2
  <2>5. \A p \in Ptr \ gc_obj_list : refCount'[p] = 0
    BY <1>1, <1>2, <1>4
  <2> QED
    BY <1>1, <1>2, <1>3, <2>1, <2>3, <2>4, <2>5 DEF Counts
<1>9. IdleInv'
  BY <1>1, <1>2, <1>3, <1>4 DEF IdleInv
<1>10. (DecrefInv /\ ScanInv /\ Split /\ RestoreInv /\ FreeInv /\ ReleaseInv)'
  BY <1>1, <1>2 DEF DecrefInv, ScanInv, Split, RestoreInv, FreeInv, ReleaseInv
<1> QED
  BY <1>6, <1>7, <1>8, <1>9, <1>10 DEF IndInv

LEMMA StutterKeeps ==
    ASSUME IndInv, UNCHANGED vars
    PROVE  IndInv'
<1>1. Decremented' = Decremented /\ Freeing' = Freeing
  BY DEF vars, Decremented, Freeing
<1>2. \A p \in Ptr : Total(p)' = Total(p)
  BY <1>1 DEF vars, Total
<1>3. Held' = Held
  BY <1>2 DEF vars, Held, IndInv, TypeOK
<1>4. (TypeOK /\ Lists /\ Slots /\ Counts)'
  BY <1>1, <1>2 DEF vars, IndInv, TypeOK, Lists, Slots, Counts
<1>5. (IdleInv /\ DecrefInv)'
  BY <1>1 DEF vars, IndInv, IdleInv, DecrefInv
<1>6. ScanInv'
  BY <1>1, <1>2, <1>3 DEF vars, IndInv, TypeOK, ScanInv, OnlyReached
<1>7. Split'
  <2>1. phase' = phase /\ gc_obj_list' = gc_obj_list /\ prop' = prop /\ mark' = mark
    BY DEF vars
  <2>2. gc_obj_list \subseteq Ptr /\ Split
    BY DEF IndInv, TypeOK
  <2> QED
    BY <1>2, <2>1, <2>2 DEF Split
<1>8. RestoreInv'
  BY <1>3 DEF vars, IndInv, RestoreInv, OnlyReached
<1>9. (FreeInv /\ ReleaseInv)'
  BY <1>1 DEF vars, IndInv, FreeInv, ReleaseInv
<1> QED
  BY <1>4, <1>5, <1>6, <1>7, <1>8, <1>9 DEF IndInv

LEMMA StepKeeps == IndInv /\ [Next]_vars => IndInv'
  BY StartGCKeeps, gc_decrefKeeps, EndDecrefKeeps, gc_scanKeeps, EndScanKeeps,
     gc_scan_restoreKeeps, EndRestoreKeeps, FreeFieldsKeeps, FreeOtherKeeps,
     EndFreeObjectKeeps, SkipOtherKeeps, EndFreeKeeps, ReleaseZombiesKeeps, StutterKeeps
     DEF Next, CollectorStep

(* So it always holds.                                                     *)
THEOREM Invariance == Spec => []IndInv
  BY InitHolds, StepKeeps, PTL DEF Spec

(* Every variable keeps its type; in particular no count drops below zero. *)
THEOREM TypeCorrect == Spec => []TypeOK
<1>1. IndInv => TypeOK
  BY DEF IndInv
<1> QED
  BY <1>1, Invariance, PTL

(* No assertion of gc_decref, gc_scan or gc_free_cycles fails.             *)
THEOREM AssertsHold == Spec => []CodeAsserts
<1>1. IndInv => CodeAsserts
  <2> SUFFICES ASSUME IndInv PROVE CodeAsserts
    OBVIOUS
  <2>1. ASSUME phase = "decref", NEW p \in todo
        PROVE  mark[p] = 0 /\ \A q \in Ptr : refCount[q] >= mark_children(p, q)
    <3> DEFINE D == (gc_obj_list \cup tmp_obj_list) \ todo
               E == D \cup {p}
    <3>1. mark[p] = 0 /\ Decremented = D /\ p \notin D /\ E = D \cup {p} /\ E \subseteq Ptr
      BY <2>1 DEF IndInv, DecrefInv, Lists, TypeOK, Decremented
    <3> HIDE DEF D, E
    <3>2. ASSUME NEW q \in Ptr PROVE refCount[q] >= mark_children(p, q)
      <4>1. /\ Kids(prop, p, q) \in Nat /\ Refs(prop, D, q) \in Nat /\ Refs(prop, Ptr, q) \in Nat
            /\ Refs(prop, E, q) = Refs(prop, D, q) + Kids(prop, p, q)
        BY <3>1, RefsOne, RefsNat
      <4>2. Refs(prop, E, q) <= Refs(prop, Ptr, q)
        BY <3>1, RefsMono
      <4>3. refCount[q] + Refs(prop, D, q) >= Refs(prop, Ptr, q) /\ refCount[q] \in Nat
        BY <3>1 DEF IndInv, Counts, Total, TypeOK
      <4>4. refCount[q] >= Kids(prop, p, q)
        BY <4>1, <4>2, <4>3
      <4> QED
        BY <4>4, ChildrenAreRefs
    <3> QED
      BY <3>1, <3>2
  <2>2. phase = "scan" => \A p \in gc_obj_list : refCount[p] > 0
    BY DEF IndInv, ScanInv
  <2>3. phase = "release" => zero_list \subseteq Obj
    BY DEF IndInv, ReleaseInv
  <2> QED
    BY <2>1, <2>2, <2>3 DEF CodeAsserts
<1> QED
  BY <1>1, Invariance, PTL

(* The list a loop walks along keeps the elements that are still to come.  *)
THEOREM WalkedListKept == Spec => []NextElementStays
<1>1. IndInv => NextElementStays
  BY DEF IndInv, DecrefInv, ScanInv, NextElementStays
<1> QED
  BY <1>1, Invariance, PTL

(* No slot and no list leads to memory that was given back.                *)
THEOREM NeverDangling == Spec => []NoDanglingSlot
<1>1. IndInv => NoDanglingSlot
  BY DEF IndInv, Slots, Lists, NoDanglingSlot
<1> QED
  BY <1>1, Invariance, PTL

(* A collection leaves nothing allocated that the next one will not see.   *)
THEOREM NothingIsForgotten == Spec => []NothingForgotten
<1>1. IndInv => NothingForgotten
  BY DEF IndInv, Lists, IdleInv, NothingForgotten, Freeing
<1> QED
  BY <1>1, Invariance, PTL

---------------------------------------------------------------------------
(* The refinement.  What QuickJSHeap sees before the garbage is freed ...  *)
ViewBefore ==
    /\ AbstractLive = memory
    /\ AbstractProp = prop
    /\ AbstractRefCount = [p \in Ptr |-> IF p \in memory THEN Total(p) ELSE 0]

(* ... and while it is.                                                    *)
ViewFreeing ==
    /\ AbstractLive = gc_obj_list
    /\ AbstractProp = [x \in Slot |-> IF x[1] \in gc_obj_list THEN prop[x] ELSE NoPtr]
    /\ AbstractRefCount =
          [p \in Ptr |-> IF p \in gc_obj_list
                         THEN refCount[p] - Refs(prop, Ptr \ gc_obj_list, p) ELSE 0]

LEMMA SeenBefore == IndInv /\ ~Freeing => ViewBefore
<1> SUFFICES ASSUME IndInv, ~Freeing PROVE ViewBefore
  OBVIOUS
<1>1. AbstractLive = memory
  BY DEF AbstractLive, IndInv, Lists
<1>2. AbstractProp = prop
  BY <1>1 DEF AbstractProp, IndInv, Slots, TypeOK
<1>3. ASSUME NEW p \in Ptr
      PROVE  refCount[p] + RefsFrom(Decremented, p) - 0 = Total(p)
  <2>1. RefsFrom(Decremented, p) = Refs(prop, Decremented, p)
    BY ChildrenAreRefs
  <2>2. Refs(prop, Decremented, p) \in Nat /\ refCount[p] \in Nat
    BY RefsNat DEF IndInv, TypeOK
  <2> QED
    BY <2>1, <2>2 DEF Total
<1>4. AbstractRefCount = [p \in Ptr |-> IF p \in memory THEN Total(p) ELSE 0]
  BY <1>1, <1>3 DEF AbstractRefCount
<1> QED
  BY <1>1, <1>2, <1>4 DEF ViewBefore

LEMMA SeenFreeing == IndInv /\ Freeing => ViewFreeing
<1> SUFFICES ASSUME IndInv, Freeing PROVE ViewFreeing
  OBVIOUS
<1>1. AbstractLive = gc_obj_list
  BY DEF AbstractLive
<1>2. AbstractProp = [x \in Slot |-> IF x[1] \in gc_obj_list THEN prop[x] ELSE NoPtr]
  BY <1>1 DEF AbstractProp
<1>3. ASSUME NEW p \in Ptr
      PROVE  refCount[p] + RefsFrom(Decremented, p) - RefsFrom(Ptr \ gc_obj_list, p) =
             refCount[p] - Refs(prop, Ptr \ gc_obj_list, p)
  <2>1. /\ RefsFrom(Decremented, p) = 0
        /\ RefsFrom(Ptr \ gc_obj_list, p) = Refs(prop, Ptr \ gc_obj_list, p)
    BY ChildrenAreRefs, FreeingCounts, RefsEmpty
  <2>2. Refs(prop, Ptr \ gc_obj_list, p) \in Nat /\ refCount[p] \in Nat
    BY RefsNat DEF IndInv, TypeOK
  <2> QED
    BY <2>1, <2>2
<1>4. AbstractRefCount =
         [p \in Ptr |-> IF p \in gc_obj_list
                        THEN refCount[p] - Refs(prop, Ptr \ gc_obj_list, p) ELSE 0]
  BY <1>1, <1>3 DEF AbstractRefCount
<1> QED
  BY <1>1, <1>2, <1>4 DEF ViewFreeing

LEMMA SeenNext == (IndInv /\ ~Freeing => ViewBefore)' /\ (IndInv /\ Freeing => ViewFreeing)'
  BY SeenBefore, SeenFreeing, PTL

Unseen == UNCHANGED <<AbstractLive, AbstractProp, AbstractRefCount>>

(* The passes before gc_free_cycles only move counts between the header    *)
(* and the list they are on.                                               *)
LEMMA UnseenBefore ==
    ASSUME IndInv, IndInv', ~Freeing, ~Freeing', memory' = memory, prop' = prop,
           \A q \in Ptr : Total(q)' = Total(q)
    PROVE  Unseen
<1>1. ViewBefore /\ ViewBefore'
  BY SeenBefore, SeenNext
<1> QED
  BY <1>1 DEF Unseen, ViewBefore

LEMMA UnseenFreeing ==
    ASSUME IndInv, IndInv', Freeing, Freeing', gc_obj_list' = gc_obj_list,
           \A x \in Slot : x[1] \in gc_obj_list => prop'[x] = prop[x],
           \A q \in Ptr : refCount'[q] - Refs(prop', Ptr \ gc_obj_list, q) =
                          refCount[q] - Refs(prop, Ptr \ gc_obj_list, q)
    PROVE  Unseen
<1>1. ViewFreeing /\ ViewFreeing'
  BY SeenFreeing, SeenNext
<1> QED
  BY <1>1 DEF Unseen, ViewFreeing

(* The steps of the first three passes, and what they leave alone.         *)
LEMMA PassesUnseen ==
    ASSUME IndInv, IndInv',
           \/ StartGC \/ EndDecref \/ EndScan
           \/ \E p \in Ptr : gc_decref(p) \/ gc_scan(p) \/ gc_scan_restore(p)
    PROVE  Unseen
<1>1. \A q \in Ptr : Total(q)' = Total(q)
  BY StartGCKeeps, EndDecrefKeeps, EndScanKeeps, gc_decrefKeeps, gc_scanKeeps, gc_scan_restoreKeeps
<1>2. ~Freeing /\ ~Freeing' /\ memory' = memory /\ prop' = prop
  BY DEF StartGC, EndDecref, EndScan, gc_decref, gc_scan, gc_scan_restore, Freeing
<1> QED
  BY <1>1, <1>2, UnseenBefore

(* gc_free_cycles takes apart only what QuickJSHeap has freed already.     *)
LEMMA FreeingUnseen ==
    ASSUME IndInv, IndInv',
           \/ EndFreeObject \/ EndFree
           \/ \E p \in Ptr : FreeFields(p) \/ FreeOther(p) \/ SkipOther(p)
    PROVE  Unseen
<1>1. ASSUME EndFreeObject \/ EndFree \/ \E p \in Ptr : SkipOther(p)
      PROVE  Unseen
  <2>1. Freeing /\ Freeing' /\ UNCHANGED <<gc_obj_list, prop, refCount>>
    BY <1>1 DEF EndFreeObject, EndFree, SkipOther, Freeing
  <2> QED
    BY <2>1, UnseenFreeing
<1>2. ASSUME NEW p \in Ptr, FreeFields(p) \/ FreeOther(p)
      PROVE  Unseen
  <2>1. /\ phase = "free" /\ phase' = "free" /\ DropSlots(p) /\ mark' = mark
        /\ Freeing /\ Freeing'
    BY <1>2 DEF FreeFields, FreeOther, Freeing
  <2>2. /\ p \in Ptr \ gc_obj_list /\ gc_obj_list' = gc_obj_list /\ memory' \subseteq memory
        /\ \A q \in memory \ memory' : refCount[q] = 0
    <3>1. CASE FreeFields(p)
      BY <3>1 DEF FreeFields, IndInv, Lists
    <3>2. CASE FreeOther(p)
      <4>1. p \notin gc_obj_list /\ refCount[p] = 0
        BY <3>2, FreedOther
      <4> QED
        BY <3>2, <4>1 DEF FreeOther
    <3> QED
      BY <1>2, <3>1, <3>2
  <2>3. /\ \A x \in Slot : prop'[x] = IF x[1] = p THEN NoPtr ELSE prop[x]
        /\ \A q \in Ptr : refCount'[q] - Refs(prop', Ptr \ gc_obj_list, q) =
                          refCount[q] - Refs(prop, Ptr \ gc_obj_list, q)
    BY <2>1, <2>2, Dropped
  <2>4. \A x \in Slot : x[1] \in gc_obj_list => prop'[x] = prop[x]
    BY <2>2, <2>3
  <2> QED
    BY <2>1, <2>2, <2>3, <2>4, UnseenFreeing
<1> QED
  BY <1>1, <1>2

(* The memory of the zombies was free for QuickJSHeap all the time.        *)
LEMMA ReleaseUnseen ==
    ASSUME IndInv, IndInv', ReleaseZombies
    PROVE  Unseen
<1>1. /\ Freeing /\ ~Freeing' /\ cur = NoPtr /\ tmp_obj_list = {} /\ zero_list \subseteq Ptr
      /\ memory = gc_obj_list \cup zero_list /\ gc_obj_list \cap zero_list = {}
      /\ memory' = memory \ zero_list /\ prop' = prop /\ Decremented' = {}
      /\ refCount' = [p \in Ptr |-> IF p \in zero_list THEN 0 ELSE refCount[p]]
      /\ refCount \in [Ptr -> Nat] /\ prop \in [Slot -> Value]
  BY DEF ReleaseZombies, Freeing, Decremented, IndInv, ReleaseInv, Lists, TypeOK
<1>2. ViewFreeing /\ ViewBefore' /\ memory' = gc_obj_list
  BY <1>1, SeenFreeing, SeenNext
<1>3. \A x \in Slot : x[1] \notin gc_obj_list => prop[x] = NoPtr
  BY <1>1, NothingLeft
<1>4. ASSUME NEW p \in gc_obj_list, p \in Ptr
      PROVE  Total(p)' = refCount[p] - Refs(prop, Ptr \ gc_obj_list, p)
  <2>1. \A x \in Slot : x[1] \in Ptr \ gc_obj_list => prop[x] # p
    BY <1>3, <1>4, CollectorAssumption
  <2>2. Refs(prop, Ptr \ gc_obj_list, p) = 0
    BY <2>1, RefsZero
  <2>3. Total(p)' = refCount'[p] + 0
    BY <1>1, RefsEmpty DEF Total
  <2>4. refCount'[p] = refCount[p] /\ refCount[p] \in Nat
    BY <1>1, <1>4
  <2> QED
    BY <2>2, <2>3, <2>4
<1>5. AbstractLive' = AbstractLive
  BY <1>2 DEF ViewBefore, ViewFreeing
<1>6. AbstractProp' = AbstractProp
  BY <1>1, <1>2, <1>3 DEF ViewBefore, ViewFreeing
<1>7. AbstractRefCount' = AbstractRefCount
  BY <1>2, <1>4 DEF ViewBefore, ViewFreeing
<1> QED
  BY <1>5, <1>6, <1>7 DEF Unseen

(* The beginning of gc_free_cycles is the step JS_RunGC: what is left on   *)
(* the temporary list is what nothing outside the heap leads to.           *)
LEMMA EndRestoreIsRunGC ==
    ASSUME IndInv, IndInv', EndRestore
    PROVE  Heap!JS_RunGC
<1> DEFINE K == gc_obj_list
           T == tmp_obj_list
<1>1. /\ phase = "restore" /\ phase' = "free" /\ todo = {}
      /\ UNCHANGED <<gc_obj_list, tmp_obj_list, memory, refCount, prop>>
  BY DEF EndRestore
<1>2. /\ ~Freeing /\ Freeing' /\ Decremented = {}
      /\ memory = K \cup T /\ K \cap T = {} /\ memory \subseteq Ptr
      /\ refCount \in [Ptr -> Nat] /\ prop \in [Slot -> Value]
  BY <1>1 DEF Freeing, Decremented, IndInv, Lists, TypeOK
<1>3. ViewBefore /\ ViewFreeing'
  BY <1>2, SeenBefore, SeenNext
<1>4. \A p \in Ptr : Total(p) = refCount[p]
  BY <1>2, RefsEmpty DEF Total
<1>5. Heap!Slot = Slot /\ \A S : Heap!Cardinality(S) = Cardinality(S)
  <2>1. \A S : Heap!Cardinality(S) = Cardinality(S)
    BY DEF Heap!Cardinality, Cardinality
  <2> QED
    BY <2>1 DEF Heap!Slot, Slot
<1>6. \A p \in Ptr : Heap!Count(AbstractProp, p) = Refs(prop, Ptr, p)
  <2> SUFFICES ASSUME NEW p \in Ptr
               PROVE  Heap!Count(AbstractProp, p) = Refs(prop, Ptr, p)
    OBVIOUS
  <2>1. AbstractProp = prop /\ DOMAIN prop = Slot
    BY <1>2, <1>3 DEF ViewBefore
  <2>2. {x \in DOMAIN AbstractProp : AbstractProp[x] = p} = SlotsOf(prop, Ptr, p)
    BY <2>1 DEF SlotsOf, Slot
  <2> QED
    BY <1>5, <2>2 DEF Heap!Count, Refs
<1>7. Heap!ExternallyHeld = Held
  BY <1>2, <1>3, <1>6 DEF Heap!ExternallyHeld, Held, ViewBefore
<1>8. \A S : Heap!Closed(S) <=> ClosedUnder(prop, S)
  BY <1>3, <1>5 DEF Heap!Closed, ClosedUnder, ViewBefore
<1>9. Held \subseteq K /\ ClosedUnder(prop, K)
  BY <1>1, <1>2, <1>4 DEF IndInv, Split, Held
<1>10. Heap!Reach(Held) = K
  <2>1. K \in SUBSET Ptr
    BY <1>2
  <2>2. \A S \in SUBSET Ptr : Held \subseteq S /\ ClosedUnder(prop, S) => K \subseteq S
    BY <1>1 DEF IndInv, RestoreInv, OnlyReached
  <2> QED
    BY <1>8, <1>9, <2>1, <2>2 DEF Heap!Reach
<1>11. Heap!Garbage = T
  BY <1>2, <1>3, <1>7, <1>10 DEF Heap!Garbage, ViewBefore
<1>12. AbstractLive' = AbstractLive \ T
  BY <1>1, <1>2, <1>3 DEF ViewBefore, ViewFreeing
<1>13. AbstractProp' = [x \in Slot |-> IF x[1] \in T THEN NoPtr ELSE AbstractProp[x]]
  <2>1. \A x \in Slot : x[1] \notin K => prop[x] = NoPtr \/ x[1] \in T
    BY <1>2 DEF IndInv, Slots
  <2> QED
    BY <1>1, <1>2, <1>3, <2>1 DEF ViewBefore, ViewFreeing
<1>14. AbstractRefCount' =
          [p \in Ptr |->
              IF p \in T THEN 0
              ELSE AbstractRefCount[p]
                     - Cardinality({x \in Slot : x[1] \in T /\ AbstractProp[x] = p})]
  <2> DEFINE R == Ptr \ K
  <2>1. \A p \in Ptr :
           Cardinality({x \in Slot : x[1] \in T /\ AbstractProp[x] = p}) = Refs(prop, T, p)
    BY <1>3 DEF ViewBefore, Refs, SlotsOf
  <2>2. R \cap memory = T
    BY <1>2
  <2>3. \A p \in Ptr : Refs(prop, R, p) = Refs(prop, T, p)
    BY <2>2, RefsInMemory DEF IndInv
  <2>4. \A p \in Ptr \ memory : Refs(prop, T, p) = 0
    BY RefsInMemory DEF IndInv
  <2>5. AbstractRefCount' =
           [p \in Ptr |-> IF p \in K THEN refCount[p] - Refs(prop, R, p) ELSE 0]
    BY <1>1, <1>3 DEF ViewFreeing
  <2>6. AbstractRefCount = [p \in Ptr |-> IF p \in memory THEN refCount[p] ELSE 0]
    BY <1>3, <1>4 DEF ViewBefore
  <2> HIDE DEF R
  <2>7. ASSUME NEW p \in Ptr
        PROVE  (IF p \in K THEN refCount[p] - Refs(prop, R, p) ELSE 0) =
               (IF p \in T THEN 0 ELSE AbstractRefCount[p] - Refs(prop, T, p))
    <3>1. CASE p \in K
      BY <1>2, <2>3, <2>6, <3>1
    <3>2. CASE p \in T
      BY <1>2, <3>2
    <3>3. CASE p \notin memory
      <4>1. AbstractRefCount[p] = 0 /\ Refs(prop, T, p) = 0
        BY <2>4, <2>6, <3>3
      <4> QED
        BY <1>2, <3>3, <4>1
    <3> QED
      BY <1>2, <3>1, <3>2, <3>3
  <2> QED
    BY <2>1, <2>5, <2>7
<1>15. Heap!Free(T)
  BY <1>5, <1>12, <1>13, <1>14 DEF Heap!Free
<1> QED
  BY <1>11, <1>15 DEF Heap!JS_RunGC

(* The passes of the collector implement the one step JS_RunGC of          *)
(* QuickJSHeap, for every heap.                                            *)
THEOREM RunGCImplemented == Spec => ImplementsRunGC
<1>1. IndInv /\ IndInv' /\ [Next]_vars
         => [Heap!JS_RunGC]_<<AbstractLive, AbstractProp, AbstractRefCount>>
  <2> SUFFICES ASSUME IndInv, IndInv', [Next]_vars
               PROVE  Heap!JS_RunGC \/ Unseen
    BY DEF Unseen
  <2>1. CASE UNCHANGED vars
    BY <2>1 DEF vars, Unseen, AbstractLive, AbstractProp, AbstractRefCount, Decremented,
                Freeing, RefsFrom
  <2>2. CASE Next
    BY <2>2, PassesUnseen, FreeingUnseen, ReleaseUnseen, EndRestoreIsRunGC
       DEF Next, CollectorStep
  <2> QED
    BY <2>1, <2>2
<1> QED
  BY <1>1, Invariance, PTL DEF Spec, ImplementsRunGC
=============================================================================
