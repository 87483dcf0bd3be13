---------------------------- MODULE ValuesProofs ----------------------------
(***************************************************************************)
(* What Java and a script see of each other's values.  The attributes and  *)
(* bindings of the script context are mirrored in the global object, for   *)
(* any number of threads, names and values (Bindings); and a number keeps  *)
(* its value, its class in Java and its type in the script however often   *)
(* it crosses, for every width of int, long and the integers of a double   *)
(* (BoundaryCrossing).                                                     *)
(***************************************************************************)
EXTENDS Bindings, BoundaryCrossing, TLAPS

(* What a thread has still to write, and nobody wrote meanwhile, is what   *)
(* the map holds.                                                          *)
RestIsCurrent ==
    \A t \in Thread : \A n \in Bound(op[t].rest) \ op[t].raced : engineScope[n] = op[t].rest[n]

(* A name that two threads have still to write is raced in both.           *)
RacesSeen ==
    \A t, u \in Thread : t # u => Bound(op[t].rest) \cap Bound(op[u].rest) \subseteq op[t].raced

(* setAttribute writes one name, and no call writes none.                  *)
RestByKind ==
    \A t \in Thread :
        /\ op[t].kind = "idle" => Bound(op[t].rest) = {}
        /\ op[t].kind = "setAttribute" => \A m, n \in Bound(op[t].rest) : m = n

(* setBindings has given up the mirror of its names before it writes them, *)
(* and nobody brings it back: its loop may end at any of them.             *)
LoopNamesLost ==
    \A t \in Thread : op[t].kind = "setBindings" => Bound(op[t].rest) \subseteq lost

IndInv ==
    /\ TypeOK
    /\ RestIsCurrent
    /\ RacesSeen
    /\ RestByKind
    /\ LoopNamesLost
    /\ Mirrored

---------------------------------------------------------------------------
(* What the operators that make and change a call in progress do.          *)
LEMMA MissingIsNoValue == Missing \notin Value
  BY BindingsAssumption

LEMMA FreshOp ==
    ASSUME NEW kind \in {"idle", "setAttribute", "setBindings"}, NEW rest \in Map,
           NEW raced \in SUBSET Name
    PROVE  /\ Op(kind, rest, raced) \in OpState
           /\ Op(kind, rest, raced).kind = kind
           /\ Op(kind, rest, raced).rest = rest
           /\ Op(kind, rest, raced).raced = raced
  BY DEF Op, OpState

LEMMA EmptyMap == Empty \in Map /\ Bound(Empty) = {}
  BY DEF Empty, Map, Bound

LEMMA IdleOp == Idle \in OpState /\ Idle.kind = "idle" /\ Bound(Idle.rest) = {}
<1>1. Idle \in OpState /\ Idle.kind = "idle" /\ Idle.rest = Empty
  BY EmptyMap, FreshOp DEF Idle
<1> QED
  BY <1>1, EmptyMap

LEMMA Raced ==
    ASSUME NEW o \in OpState, NEW N \in SUBSET Name
    PROVE  /\ Race(o, N) \in OpState
           /\ Race(o, N).kind = o.kind
           /\ Race(o, N).rest = o.rest
           /\ Race(o, N).raced = o.raced \cup (Bound(o.rest) \cap N)
           /\ Race(o, N).same = o.same
           /\ Race(o, N).broken = o.broken
  BY DEF Race, OpState

LEMMA SeenPut ==
    ASSUME NEW o \in OpState, NEW n \in Name, NEW v \in Value \cup {Missing}
    PROVE  /\ SeePut(o, n, v) \in OpState
           /\ SeePut(o, n, v).kind = o.kind
           /\ Bound(SeePut(o, n, v).rest) = Bound(o.rest)
           /\ \A m \in Name : m # n => SeePut(o, n, v).rest[m] = o.rest[m]
           /\ SeePut(o, n, v).raced = o.raced \cup (Bound(o.rest) \cap {n})
<1> DEFINE r == Race(o, {n})
<1>1. /\ r \in OpState /\ r.kind = o.kind /\ r.rest = o.rest
      /\ r.raced = o.raced \cup (Bound(o.rest) \cap {n})
  BY Raced
<1>2. CASE ~o.same
  BY <1>1, <1>2 DEF SeePut
<1>3. CASE o.same
  <2> DEFINE w == IF o.rest[n] # Missing /\ v # Missing THEN v ELSE o.rest[n]
             rest == [o.rest EXCEPT ![n] = w]
             broken == r.broken \/ (engineScope[n] = Missing) # (v = Missing)
  <2>1. o.rest \in Map
    BY DEF OpState
  <2>2. rest \in Map /\ \A m \in Name : rest[m] = IF m = n THEN w ELSE o.rest[m]
    BY <2>1 DEF Map
  <2>3. Bound(rest) = Bound(o.rest)
    BY <2>2 DEF Bound
  <2>4. SeePut(o, n, v) = [r EXCEPT !.rest = rest, !.broken = broken]
    BY <1>1, <1>3 DEF SeePut, OpState
  <2>5. broken \in BOOLEAN
    BY DEF OpState
  <2> HIDE DEF r, w, rest, broken
  <2>6. /\ SeePut(o, n, v) \in OpState /\ SeePut(o, n, v).kind = r.kind
        /\ SeePut(o, n, v).rest = rest /\ SeePut(o, n, v).raced = r.raced
    BY <1>1, <2>2, <2>4, <2>5 DEF OpState
  <2> QED
    BY <1>1, <2>2, <2>3, <2>6
<1> QED
  BY <1>2, <1>3

---------------------------------------------------------------------------
(* The inductive invariant holds in the beginning ...                      *)
LEMMA InitHolds == Init => IndInv
<1> SUFFICES ASSUME Init PROVE IndInv
  OBVIOUS
<1>1. op \in [Thread -> OpState] /\ \A t \in Thread : op[t].kind = "idle" /\ Bound(op[t].rest) = {}
  BY IdleOp DEF Init
<1>5. globalObj \in [Name -> {toJSValue(v) : v \in Value} \cup {Missing}]
  BY DEF Init, ScriptValue
<1>2. TypeOK
  BY <1>1, <1>5, EmptyMap DEF Init, TypeOK, Bound
<1>3. RestIsCurrent /\ RacesSeen /\ RestByKind /\ LoopNamesLost
  BY <1>1 DEF RestIsCurrent, RacesSeen, RestByKind, LoopNamesLost
<1>4. Mirrored
  BY DEF Init, Mirrored, Empty, Bound
<1> QED
  BY <1>2, <1>3, <1>4 DEF IndInv

---------------------------------------------------------------------------
(* ... and every action keeps it.                                          *)

(* The other threads of a put, and of a write to the global object.        *)
OthersSeePut(T, n, v) ==
    \A u \in T :
        /\ op'[u] \in OpState /\ op'[u].kind = op[u].kind
        /\ Bound(op'[u].rest) = Bound(op[u].rest)
        /\ \A m \in Name : m # n => op'[u].rest[m] = op[u].rest[m]
        /\ op'[u].raced = op[u].raced \cup (Bound(op[u].rest) \cap {n})

OthersRace(T, N) ==
    \A u \in T :
        /\ op'[u] \in OpState /\ op'[u].kind = op[u].kind
        /\ op'[u].rest = op[u].rest
        /\ op'[u].raced = op[u].raced \cup (Bound(op[u].rest) \cap N)

LEMMA SetAttributeKeeps ==
    ASSUME IndInv, NEW t \in Thread, NEW n \in Name, NEW v \in Value, SetAttribute(t, n, v)
    PROVE  IndInv'
<1> DEFINE rest == [Empty EXCEPT ![n] = v]
           raced == {n} \cap Pending(t)
<1>1. rest \in Map /\ Bound(rest) = {n} /\ rest[n] = v /\ v # Missing /\ raced \in SUBSET Name
  BY MissingIsNoValue DEF Empty, Map, Bound
<1> HIDE DEF rest
<1>2. /\ globalObj' = globalObj /\ fixed' = fixed /\ lost' = lost
      /\ engineScope' = [engineScope EXCEPT ![n] = v]
      /\ op' = [u \in Thread |-> IF u # t THEN SeePut(op[u], n, v)
                                 ELSE Op("setAttribute", rest, raced)]
  BY DEF SetAttribute, Put, rest
<1>3. op \in [Thread -> OpState] /\ engineScope \in Map
  BY DEF IndInv, TypeOK
<1>4. op' \in [Thread -> OpState] /\ OthersSeePut(Thread \ {t}, n, v)
  BY <1>1, <1>2, <1>3, SeenPut, FreshOp DEF OthersSeePut
<1>5. op'[t].kind = "setAttribute" /\ op'[t].rest = rest /\ op'[t].raced = raced
  BY <1>1, <1>2, FreshOp
<1>6. engineScope' \in Map /\ \A m \in Name : engineScope'[m] = IF m = n THEN v ELSE engineScope[m]
  BY <1>2, <1>3 DEF Map
<1>7. TypeOK'
  BY <1>2, <1>4, <1>6 DEF IndInv, TypeOK
<1>8. RestIsCurrent'
  BY <1>1, <1>3, <1>4, <1>5, <1>6 DEF IndInv, RestIsCurrent, OthersSeePut, Bound
<1>9. RacesSeen'
  BY <1>1, <1>3, <1>4, <1>5 DEF IndInv, RacesSeen, OthersSeePut, Pending
<1>10. RestByKind'
  <2> SUFFICES ASSUME NEW u \in Thread
               PROVE  /\ op'[u].kind = "idle" => Bound(op'[u].rest) = {}
                      /\ op'[u].kind = "setAttribute" => \A j, k \in Bound(op'[u].rest) : j = k
    BY DEF RestByKind, Bound
  <2>1. CASE u = t
    BY <1>1, <1>5, <2>1
  <2>2. CASE u # t
    <3>1. op'[u].kind = op[u].kind /\ Bound(op'[u].rest) = Bound(op[u].rest)
      BY <1>4, <2>2 DEF OthersSeePut
    <3> QED
      BY <3>1 DEF IndInv, RestByKind
  <2> QED
    BY <2>1, <2>2
<1>11. LoopNamesLost'
  <2>1. lost' = lost
    BY <1>2
  <2> QED
    BY <1>4, <1>5, <2>1 DEF IndInv, LoopNamesLost, OthersSeePut
<1>12. Mirrored'
  <2>1. lost' = lost /\ globalObj' = globalObj
    BY <1>2
  <2> SUFFICES ASSUME NEW m \in Name \ lost
               PROVE  \/ \E u \in Thread : m \in Bound(op'[u].rest)
                      \/ engineScope'[m] = Missing /\ globalObj[m] = Missing
                      \/ /\ engineScope'[m] # Missing
                         /\ ~Rejected(engineScope'[m])
                         /\ globalObj[m] = toJSValue(engineScope'[m])
    BY <2>1 DEF Mirrored, Rejected
  <2>2. CASE m = n
    BY <1>1, <1>5, <2>2
  <2>3. CASE m # n /\ \E u \in Thread : m \in Bound(op[u].rest)
    <3>1. PICK u \in Thread : m \in Bound(op[u].rest)
      BY <2>3
    <3>2. u # t
      BY <3>1 DEF IndInv, RestByKind, SetAttribute
    <3> QED
      BY <3>1, <3>2, <1>4 DEF OthersSeePut
  <2>4. CASE m # n /\ ~\E u \in Thread : m \in Bound(op[u].rest)
    BY <2>4, <1>6 DEF IndInv, Mirrored
  <2> QED
    BY <2>2, <2>3, <2>4
<1> QED
  BY <1>7, <1>8, <1>9, <1>10, <1>11, <1>12 DEF IndInv

LEMMA IdlePutKeeps ==
    ASSUME IndInv, NEW n \in Name, NEW v \in Value \cup {Missing}, Put(n, v),
           op' = [u \in Thread |-> SeePut(op[u], n, v)], lost' = lost \cup {n},
           globalObj' = globalObj, fixed' = fixed
    PROVE  IndInv'
<1>1. op \in [Thread -> OpState] /\ engineScope \in Map
  BY DEF IndInv, TypeOK
<1>2. op' \in [Thread -> OpState] /\ OthersSeePut(Thread, n, v)
  BY <1>1, SeenPut DEF OthersSeePut
<1>3. engineScope' \in Map /\ \A m \in Name : engineScope'[m] = IF m = n THEN v ELSE engineScope[m]
  BY <1>1 DEF Map, Put
<1>4. TypeOK'
  BY <1>2, <1>3 DEF IndInv, TypeOK
<1>5. RestIsCurrent'
  BY <1>1, <1>2, <1>3 DEF IndInv, RestIsCurrent, OthersSeePut, Bound
<1>6. RacesSeen'
  BY <1>1, <1>2 DEF IndInv, RacesSeen, OthersSeePut
<1>7. RestByKind'
  <2> SUFFICES ASSUME NEW u \in Thread
               PROVE  /\ op'[u].kind = "idle" => Bound(op'[u].rest) = {}
                      /\ op'[u].kind = "setAttribute" => \A j, k \in Bound(op'[u].rest) : j = k
    BY DEF RestByKind, Bound
  <2>1. op'[u].kind = op[u].kind /\ Bound(op'[u].rest) = Bound(op[u].rest)
    BY <1>2 DEF OthersSeePut
  <2> QED
    BY <2>1 DEF IndInv, RestByKind
<1>9. LoopNamesLost'
  BY <1>2 DEF IndInv, LoopNamesLost, OthersSeePut
<1>8. Mirrored'
  BY <1>1, <1>2, <1>3 DEF IndInv, Mirrored, OthersSeePut
<1> QED
  BY <1>4, <1>5, <1>6, <1>7, <1>8, <1>9 DEF IndInv

LEMMA ScriptDefineKeeps ==
    ASSUME IndInv, NEW t \in Thread, NEW n \in Name, NEW w \in ScriptValue, NEW fix \in BOOLEAN,
           ScriptDefine(t, n, w, fix)
    PROVE  IndInv'
<1>1. /\ op' = [u \in Thread |-> Race(op[u], {n})] /\ lost' = lost \cup {n}
      /\ engineScope' = engineScope /\ globalObj' = [globalObj EXCEPT ![n] = w]
  BY DEF ScriptDefine
<1>10. fixed' \subseteq Name
  BY DEF ScriptDefine, IndInv, TypeOK
<1>11. w \in {toJSValue(v) : v \in Value} \cup {Missing}
  BY DEF ScriptValue
<1>2. op \in [Thread -> OpState]
  BY DEF IndInv, TypeOK
<1>3. op' \in [Thread -> OpState] /\ OthersRace(Thread, {n})
  BY <1>1, <1>2, Raced DEF OthersRace
<1>4. TypeOK'
  BY <1>1, <1>3, <1>10, <1>11 DEF IndInv, TypeOK
<1>5. RestIsCurrent'
  <2> SUFFICES ASSUME NEW u \in Thread, NEW m \in Bound(op'[u].rest) \ op'[u].raced
               PROVE  engineScope[m] = op'[u].rest[m]
    BY <1>1 DEF RestIsCurrent, Bound
  <2>1. op'[u].rest = op[u].rest /\ m \in Bound(op[u].rest) \ op[u].raced
    BY <1>3 DEF OthersRace
  <2> QED
    BY <2>1 DEF IndInv, RestIsCurrent
<1>6. RacesSeen'
  BY <1>3 DEF IndInv, RacesSeen, OthersRace
<1>7. RestByKind'
  BY <1>3 DEF IndInv, RestByKind, OthersRace
<1>8. LoopNamesLost'
  <2>1. lost' = lost \cup {n}
    BY <1>1
  <2> QED
    BY <1>3, <2>1 DEF IndInv, LoopNamesLost, OthersRace
<1>9. Mirrored'
  BY <1>1, <1>2, <1>3 DEF IndInv, TypeOK, Mirrored, OthersRace
<1> QED
  BY <1>4, <1>5, <1>6, <1>7, <1>8, <1>9 DEF IndInv

LEMMA SetBindingsKeeps ==
    ASSUME IndInv, NEW t \in Thread, NEW b \in Map, SetBindings(t, b)
    PROVE  IndInv'
<1> DEFINE raced == Bound(b) \cap Pending(t)
           mine  == IF b = Empty THEN Idle ELSE Op("setBindings", b, raced)
<1>1. /\ globalObj' = globalObj /\ fixed' = fixed /\ engineScope' = b
      /\ lost' = lost \cup Bound(engineScope) \cup Bound(b)
      /\ op' = [u \in Thread |-> IF u # t THEN [Race(op[u], Name) EXCEPT !.same = FALSE]
                                 ELSE mine]
  BY DEF SetBindings
<1>2. /\ mine \in OpState /\ mine.kind \in {"idle", "setBindings"}
      /\ mine.kind = "idle" => Bound(mine.rest) = {}
      /\ Bound(mine.rest) \subseteq Bound(b)
      /\ \A n \in Bound(mine.rest) : mine.rest[n] = b[n]
      /\ Bound(mine.rest) \cap Pending(t) \subseteq mine.raced
  <2>1. raced \in SUBSET Name
    BY DEF Bound
  <2>2. CASE b = Empty
    BY <2>2, IdleOp
  <2>3. CASE b # Empty
    BY <2>1, <2>3, FreshOp
  <2> QED
    BY <2>2, <2>3
<1> HIDE DEF mine
<1>3. op \in [Thread -> OpState] /\ op[t].kind = "idle"
  BY DEF IndInv, TypeOK, SetBindings
<1>4. OthersRace(Thread \ {t}, Name) /\ op' \in [Thread -> OpState] /\ op'[t] = mine
  <2>1. ASSUME NEW u \in Thread \ {t}
        PROVE  /\ op'[u] \in OpState /\ op'[u].kind = op[u].kind
               /\ op'[u].rest = op[u].rest
               /\ op'[u].raced = op[u].raced \cup (Bound(op[u].rest) \cap Name)
    <3> DEFINE r == Race(op[u], Name)
    <3>1. /\ r \in OpState /\ r.kind = op[u].kind /\ r.rest = op[u].rest
          /\ r.raced = op[u].raced \cup (Bound(op[u].rest) \cap Name)
      BY <1>3, Raced
    <3>2. op'[u] = [r EXCEPT !.same = FALSE]
      BY <1>1
    <3> HIDE DEF r
    <3> QED
      BY <3>1, <3>2 DEF OpState
  <2> QED
    BY <1>1, <1>2, <2>1 DEF OthersRace
<1>5. TypeOK'
  BY <1>1, <1>4 DEF IndInv, TypeOK, Bound
<1>6. RestIsCurrent'
  <2> SUFFICES ASSUME NEW u \in Thread, NEW n \in Bound(op'[u].rest) \ op'[u].raced
               PROVE  b[n] = op'[u].rest[n]
    BY <1>1 DEF RestIsCurrent, Bound
  <2>1. u = t
    BY <1>4 DEF OthersRace, Bound
  <2> QED
    BY <1>2, <1>4, <2>1
<1>7. RacesSeen'
  <2> SUFFICES ASSUME NEW u \in Thread, NEW w \in Thread, u # w,
                      NEW n \in Bound(op'[u].rest) \cap Bound(op'[w].rest)
               PROVE  n \in op'[u].raced
    BY DEF RacesSeen, Bound
  <2>1. CASE u = t
    <3>1. n \in Bound(op[w].rest) /\ w \in Thread \ {t}
      BY <1>4, <2>1 DEF OthersRace
    <3> QED
      BY <1>2, <1>4, <2>1, <3>1 DEF Pending
  <2>2. CASE u # t
    BY <1>4, <2>2 DEF OthersRace, Bound
  <2> QED
    BY <2>1, <2>2
<1>8. RestByKind'
  <2>1. ASSUME NEW u \in Thread
        PROVE  /\ op'[u].kind = "idle" => Bound(op'[u].rest) = {}
               /\ op'[u].kind = "setAttribute" => \A m, n \in Bound(op'[u].rest) : m = n
    <3>1. CASE u = t
      BY <3>1, <1>2, <1>4
    <3>2. CASE u # t
      <4>1. op'[u].kind = op[u].kind /\ op'[u].rest = op[u].rest
        BY <3>2, <1>4 DEF OthersRace
      <4> QED
        BY <4>1 DEF IndInv, RestByKind
    <3> QED
      BY <3>1, <3>2
  <2> QED
    BY <2>1 DEF RestByKind, Bound
<1>9. LoopNamesLost'
  BY <1>1, <1>2, <1>4 DEF IndInv, LoopNamesLost, OthersRace
<1>10. Mirrored'
  <2> SUFFICES ASSUME NEW n \in Name \ lost'
               PROVE  \/ \E u \in Thread : n \in Bound(op'[u].rest)
                      \/ b[n] = Missing /\ globalObj[n] = Missing
    BY <1>1 DEF Mirrored, Bound
  <2>1. n \in Name \ lost /\ engineScope[n] = Missing /\ b[n] = Missing
    BY <1>1 DEF Bound
  <2>2. CASE \E u \in Thread : n \in Bound(op[u].rest)
    <3>1. PICK u \in Thread : n \in Bound(op[u].rest)
      BY <2>2
    <3>2. u # t
      BY <1>3, <3>1 DEF IndInv, RestByKind
    <3> QED
      BY <1>4, <3>1, <3>2 DEF OthersRace
  <2>3. CASE ~\E u \in Thread : n \in Bound(op[u].rest)
    BY <2>1, <2>3 DEF IndInv, Mirrored
  <2> QED
    BY <2>2, <2>3
<1> QED
  BY <1>5, <1>6, <1>7, <1>8, <1>9, <1>10 DEF IndInv

(* A write to the global object by t.  What t has still to write then is a *)
(* part of what it had, unless its call is over, and then the rest of its  *)
(* names was lost before.                                                  *)
LEMMA WriteGlobalKeeps ==
    ASSUME IndInv, NEW t \in Thread, NEW n \in Bound(op[t].rest), WriteGlobal(t, n),
           op' \in [Thread -> OpState], OthersRace(Thread \ {t}, {n}), engineScope' = engineScope,
           op'[t].kind \in {"idle", op[t].kind},
           op'[t].kind = "idle" =>
               /\ Bound(op'[t].rest) = {}
               /\ op[t].kind = "setBindings" \/ \A m \in Bound(op[t].rest) : m = n,
           op'[t].kind # "idle" =>
               /\ op[t].kind = "setBindings"
               /\ Bound(op'[t].rest) = Bound(op[t].rest) \ {n}
               /\ \A m \in Bound(op'[t].rest) : op'[t].rest[m] = op[t].rest[m]
               /\ op'[t].raced = op[t].raced \ {n}
    PROVE  IndInv'
<1> DEFINE v == op[t].rest[n]
<1>1. n \in Name /\ op[t].rest \in Map /\ v \in Value /\ v # Missing
      /\ op[t].kind # "idle" /\ op[t].kind \in {"setAttribute", "setBindings"}
  BY DEF IndInv, TypeOK, OpState, Map, Bound, RestByKind
<1>2. /\ globalObj' = [globalObj EXCEPT ![n] = IF n \in fixed THEN globalObj[n] ELSE toJSValue(v)]
      /\ lost' = IF n \in op[t].raced \cup fixed \/ Rejected(v) THEN lost \cup {n} ELSE lost \ {n}
      /\ fixed' = fixed
  BY DEF WriteGlobal
<1> HIDE DEF v
<1>3. TypeOK'
  BY <1>1, <1>2 DEF IndInv, TypeOK
<1>4. Bound(op'[t].rest) \subseteq Bound(op[t].rest) \ {n}
  OBVIOUS
<1>5. ASSUME NEW u \in Thread PROVE Bound(op'[u].rest) \subseteq Bound(op[u].rest)
  BY <1>4 DEF OthersRace
<1>6. RestIsCurrent'
  <2> SUFFICES ASSUME NEW u \in Thread, NEW m \in Bound(op'[u].rest) \ op'[u].raced
               PROVE  engineScope[m] = op'[u].rest[m]
    BY DEF RestIsCurrent, Bound
  <2>1. CASE u = t
    BY <1>4, <2>1 DEF IndInv, RestIsCurrent
  <2>2. CASE u # t
    BY <2>2 DEF IndInv, RestIsCurrent, OthersRace
  <2> QED
    BY <2>1, <2>2
<1>7. RacesSeen'
  <2> SUFFICES ASSUME NEW u \in Thread, NEW w \in Thread, u # w,
                      NEW m \in Bound(op'[u].rest) \cap Bound(op'[w].rest)
               PROVE  m \in op'[u].raced
    BY DEF RacesSeen, Bound
  <2>1. m \in op[u].raced
    BY <1>5 DEF IndInv, RacesSeen
  <2>2. CASE u = t
    BY <1>4, <2>1, <2>2
  <2>3. CASE u # t
    BY <2>1, <2>3 DEF OthersRace
  <2> QED
    BY <2>2, <2>3
<1>8. RestByKind'
  <2> SUFFICES ASSUME NEW u \in Thread
               PROVE  /\ op'[u].kind = "idle" => Bound(op'[u].rest) = {}
                      /\ op'[u].kind = "setAttribute" => \A j, k \in Bound(op'[u].rest) : j = k
    BY DEF RestByKind, Bound
  <2>1. CASE u = t
    BY <2>1
  <2>2. CASE u # t
    BY <2>2 DEF IndInv, RestByKind, OthersRace
  <2> QED
    BY <2>1, <2>2
<1>9. LoopNamesLost'
  <2> SUFFICES ASSUME NEW u \in Thread, op'[u].kind = "setBindings", NEW m \in Bound(op'[u].rest)
               PROVE  m \in lost'
    BY DEF LoopNamesLost, Bound
  <2>1. CASE u = t
    BY <1>2, <1>4, <2>1 DEF IndInv, LoopNamesLost
  <2>2. CASE u # t
    <3>1. m \in Bound(op[u].rest) /\ m \in lost
      BY <2>2 DEF IndInv, LoopNamesLost, OthersRace
    <3>2. m = n => n \in op[t].raced
      BY <2>2, <3>1 DEF IndInv, RacesSeen
    <3> QED
      BY <1>2, <3>1, <3>2
  <2> QED
    BY <2>1, <2>2
<1>10. Mirrored'
  <2> SUFFICES ASSUME NEW m \in Name \ lost'
               PROVE  \/ \E u \in Thread : m \in Bound(op'[u].rest)
                      \/ engineScope[m] = Missing /\ globalObj'[m] = Missing
                      \/ /\ engineScope[m] # Missing
                         /\ ~Rejected(engineScope[m])
                         /\ globalObj'[m] = toJSValue(engineScope[m])
    BY DEF Mirrored, Bound, Rejected
  <2>1. CASE m = n
    <3>1. n \notin op[t].raced /\ n \notin fixed /\ ~Rejected(v)
      BY <1>2, <2>1
    <3>2. engineScope[n] = v
      BY <3>1 DEF IndInv, RestIsCurrent, v
    <3>3. globalObj'[n] = toJSValue(v)
      BY <1>1, <1>2, <3>1 DEF IndInv, TypeOK
    <3> QED
      BY <1>1, <2>1, <3>1, <3>2, <3>3
  <2>2. CASE m # n
    <3>1. m \in Name \ lost /\ globalObj'[m] = globalObj[m]
      BY <1>2, <2>2 DEF IndInv, TypeOK
    <3>2. ASSUME NEW u \in Thread, m \in Bound(op[u].rest)
          PROVE  m \in Bound(op'[u].rest)
      <4>1. CASE u = t
        BY <2>2, <3>1, <3>2, <4>1 DEF IndInv, LoopNamesLost
      <4>2. CASE u # t
        BY <3>2, <4>2 DEF OthersRace
      <4> QED
        BY <4>1, <4>2
    <3> QED
      BY <3>1, <3>2 DEF IndInv, Mirrored
  <2> QED
    BY <2>1, <2>2
<1> QED
  BY <1>3, <1>6, <1>7, <1>8, <1>9, <1>10 DEF IndInv

LEMMA SetAttributeMirrorKeeps ==
    ASSUME IndInv, NEW t \in Thread, NEW n \in Name, SetAttributeMirror(t, n)
    PROVE  IndInv'
<1>1. /\ op[t].kind = "setAttribute" /\ n \in Bound(op[t].rest) /\ WriteGlobal(t, n)
      /\ op' = [u \in Thread |-> IF u = t THEN Idle ELSE Race(op[u], {n})]
      /\ engineScope' = engineScope
  BY DEF SetAttributeMirror
<1>2. op \in [Thread -> OpState]
  BY DEF IndInv, TypeOK
<1>3. op' \in [Thread -> OpState] /\ OthersRace(Thread \ {t}, {n})
  BY <1>1, <1>2, Raced, IdleOp DEF OthersRace
<1>4. op'[t].kind = "idle" /\ Bound(op'[t].rest) = {}
  BY <1>1, IdleOp
<1>5. \A m \in Bound(op[t].rest) : m = n
  BY <1>1 DEF IndInv, RestByKind
<1> QED
  BY <1>1, <1>3, <1>4, <1>5, WriteGlobalKeeps

LEMMA SetBindingsEntryKeeps ==
    ASSUME IndInv, NEW t \in Thread, NEW n \in Name, SetBindingsEntry(t, n)
    PROVE  IndInv'
<1> DEFINE rest == [op[t].rest EXCEPT ![n] = Missing]
           over == rest = Empty \/ Rejected(op[t].rest[n])
           left == [op[t] EXCEPT !.rest = rest, !.raced = @ \ {n}]
<1>1. /\ op[t].kind = "setBindings" /\ n \in Bound(op[t].rest) /\ WriteGlobal(t, n)
      /\ op' = [u \in Thread |-> IF u # t THEN Race(op[u], {n})
                                 ELSE IF over THEN Idle ELSE left]
      /\ engineScope' = engineScope
  BY DEF SetBindingsEntry
<1>2. op \in [Thread -> OpState] /\ op[t] \in OpState /\ op[t].rest \in Map
  BY DEF IndInv, TypeOK, OpState
<1>3. /\ rest \in Map /\ Bound(rest) = Bound(op[t].rest) \ {n}
      /\ \A m \in Bound(rest) : rest[m] = op[t].rest[m]
  BY <1>2 DEF Map, Bound
<1> HIDE DEF rest, over
<1>4. /\ left \in OpState /\ left.kind = op[t].kind /\ left.rest = rest
      /\ left.raced = op[t].raced \ {n}
  BY <1>2, <1>3 DEF OpState
<1> HIDE DEF left
<1>5. op' \in [Thread -> OpState] /\ OthersRace(Thread \ {t}, {n})
  BY <1>1, <1>2, <1>4, Raced, IdleOp DEF OthersRace
<1>6. CASE over
  <2>1. op'[t].kind = "idle" /\ Bound(op'[t].rest) = {}
    BY <1>1, <1>6, IdleOp
  <2> QED
    BY <1>1, <1>5, <2>1, WriteGlobalKeeps
<1>7. CASE ~over
  <2>1. op'[t] = left
    BY <1>1, <1>7
  <2> QED
    BY <1>1, <1>3, <1>4, <1>5, <2>1, WriteGlobalKeeps
<1> QED
  BY <1>6, <1>7

LEMMA SetBindingsBrokenKeeps ==
    ASSUME IndInv, NEW t \in Thread, SetBindingsBroken(t)
    PROVE  IndInv'
<1>1. /\ op[t].kind = "setBindings" /\ UNCHANGED <<engineScope, globalObj, fixed, lost>>
      /\ op' = [op EXCEPT ![t] = Idle]
  BY DEF SetBindingsBroken
<1>2. op \in [Thread -> OpState]
  BY DEF IndInv, TypeOK
<1>3. /\ op' \in [Thread -> OpState] /\ op'[t].kind = "idle" /\ Bound(op'[t].rest) = {}
      /\ \A u \in Thread \ {t} : op'[u] = op[u]
  BY <1>1, <1>2, IdleOp
<1>4. TypeOK'
  BY <1>1, <1>3 DEF IndInv, TypeOK
<1>5. RestIsCurrent'
  BY <1>1, <1>3 DEF IndInv, RestIsCurrent
<1>6. RacesSeen'
  BY <1>3 DEF IndInv, RacesSeen
<1>7. RestByKind'
  BY <1>3 DEF IndInv, RestByKind
<1>8. LoopNamesLost'
  BY <1>1, <1>3 DEF IndInv, LoopNamesLost
<1>9. Mirrored'
  BY <1>1, <1>3 DEF IndInv, Mirrored, LoopNamesLost, Rejected
<1> QED
  BY <1>4, <1>5, <1>6, <1>7, <1>8, <1>9 DEF IndInv

LEMMA StepKeeps == IndInv /\ [Next]_vars => IndInv'
<1>1. ASSUME IndInv, UNCHANGED vars PROVE IndInv'
  BY <1>1 DEF vars, IndInv, TypeOK, RestIsCurrent, RacesSeen, RestByKind, LoopNamesLost, Mirrored
<1>2. ASSUME IndInv, NEW t \in Thread, NEW n \in Name, RemoveAttribute(t, n)
      PROVE  IndInv'
  BY <1>2, IdlePutKeeps DEF RemoveAttribute
<1>3. ASSUME IndInv, NEW t \in Thread, NEW n \in Name, NEW v \in Value, ClientPut(t, n, v)
      PROVE  IndInv'
  BY <1>3, IdlePutKeeps DEF ClientPut
<1> QED
  BY <1>1, <1>2, <1>3, SetAttributeKeeps, ScriptDefineKeeps, SetAttributeMirrorKeeps,
     SetBindingsEntryKeeps, SetBindingsKeeps, SetBindingsBrokenKeeps DEF Next

(* So it always holds.                                                     *)
THEOREM Invariance == Spec => []IndInv
  BY InitHolds, StepKeeps, PTL DEF Spec

(* A name that was not given up shows the script what it shows Java,       *)
(* however many threads change attributes and bindings at the same time,   *)
(* and whatever scripts do to the global object meanwhile.                 *)
THEOREM AttributesMirrored == Spec => []Mirrored
<1>1. IndInv => Mirrored
  BY DEF IndInv
<1> QED
  BY <1>1, Invariance, PTL

---------------------------------------------------------------------------
(* From here on it is about BoundaryCrossing.                              *)

(* The integer a number is, if it is one, belongs to S.                    *)
IntegerIn(v, S) == v.kind = "finite" /\ v.half % 2 = 0 /\ v.half \div 2 \in S

(* What a script can get from Java when the value came from a script       *)
(* before: an int only with the tag INT, a FLOAT64 with a fraction or an   *)
(* integer that is exact, a BigInt beyond those and within long.           *)
Canonical(v) ==
    \/ v.tag = "INT"
    \/ v.tag = "FLOAT64" /\ ~IsInteger(v)
    \/ v.tag = "FLOAT64" /\ IntegerIn(v, Safe) /\ ~IntegerIn(v, Int32)
    \/ v.tag = "BIG_INT" /\ IntegerIn(v, Int64) /\ ~IntegerIn(v, Safe)

(* Before the number has reached Java once it is what it was at the start, *)
(* or what toJSValue makes of that.                                        *)
Underway ==
    crossings = 0 =>
        \/ value = origin
        \/ side = "js" /\ origin \in JavaNumber /\ value = toJSValue(origin)

(* From then on a Double is no integer, and a script gets it canonically.  *)
Settled ==
    crossings > 0 =>
        /\ side = "java" => ~(value.tag = "Double" /\ IsInteger(value))
        /\ side = "js" => Canonical(value)

CrossingInv == CrossingTypeOK /\ NumberSurvives /\ ClassByNumber /\ Underway /\ Settled

---------------------------------------------------------------------------
(* Int lies within the exact integers, and these within long.              *)
LEMMA Widths ==
    /\ Int32 \subseteq Safe /\ Safe \subseteq Int64 /\ Int64 \subseteq -DoubleMax .. DoubleMax
    /\ Int64 \subseteq Int /\ 0 \in Int32
    /\ -(Int64Max + 1) \in Int64 \ Int32 /\ Int64Max \in Int64 \ Int32
  BY WidthAssumption DEF Int32, Int64, Safe

(* An even number of halves is an integer.                                 *)
LEMMA Halves ==
    /\ \A i \in Int : (2 * i) % 2 = 0 /\ (2 * i) \div 2 = i /\ 2 * i \in Int
    /\ \A h \in Int : h % 2 = 0 => h = 2 * (h \div 2) /\ h \div 2 \in Int
  OBVIOUS

LEMMA NumberFields ==
    ASSUME NEW tag, NEW half
    PROVE  /\ Number(tag, half).tag = tag
           /\ Number(tag, half).kind = "finite"
           /\ Number(tag, half).half = half
  BY DEF Number

(* What a Java number can be, by its class.                                *)
LEMMA JavaFields ==
    ASSUME NEW v \in JavaNumber
    PROVE  /\ v.half \in Int
           /\ \/ v.tag = "Integer" /\ IntegerIn(v, Int32)
              \/ v.tag = "Long" /\ IntegerIn(v, Int64)
              \/ v.tag = "Double" /\ v.kind = "finite" /\ v.half \in DoubleHalf
              \/ v.tag = "Double" /\ v.kind \in Special /\ v.half = 0
<1>1. CASE \E i \in Int32 : v = Number("Integer", 2 * i)
  BY <1>1, Halves, Widths DEF Number, IntegerIn
<1>2. CASE \E l \in Int64 : v = Number("Long", 2 * l)
  BY <1>2, Halves, Widths DEF Number, IntegerIn
<1>3. CASE \E h \in DoubleHalf : v = Number("Double", h)
  BY <1>3, WidthAssumption DEF Number, DoubleHalf
<1>4. CASE \E k \in Special : v = SpecialOf("Double", k)
  BY <1>4 DEF SpecialOf
<1> QED
  BY <1>1, <1>2, <1>3, <1>4 DEF JavaNumber

(* What a number of a script can be, by its tag.                           *)
LEMMA JSFields ==
    ASSUME NEW v \in JSNumber
    PROVE  /\ v.half \in Int
           /\ \/ v.tag = "INT" /\ IntegerIn(v, Int32)
              \/ v.tag = "FLOAT64" /\ v.kind = "finite" /\ v.half \in DoubleHalf
              \/ v.tag = "FLOAT64" /\ v.kind \in Special /\ v.half = 0
              \/ v.tag = "BIG_INT" /\ IntegerIn(v, -DoubleMax .. DoubleMax)
<1>1. CASE \E i \in Int32 : v = Number("INT", 2 * i)
  BY <1>1, Halves, Widths DEF Number, IntegerIn
<1>2. CASE \E i \in -DoubleMax .. DoubleMax : v = Number("BIG_INT", 2 * i)
  BY <1>2, Halves, WidthAssumption DEF Number, IntegerIn
<1>3. CASE \E h \in DoubleHalf : v = Number("FLOAT64", h)
  BY <1>3, WidthAssumption DEF Number, DoubleHalf
<1>4. CASE \E k \in Special : v = SpecialOf("FLOAT64", k)
  BY <1>4 DEF SpecialOf
<1> QED
  BY <1>1, <1>2, <1>3, <1>4 DEF JSNumber

(* The double of an exact integer is that integer.                         *)
LEMMA SafeIsDouble ==
    ASSUME NEW l \in Safe
    PROVE  2 * l \in DoubleHalf /\ ToDouble(l) = 2 * l
  BY WidthAssumption DEF Safe, DoubleHalf, ToDouble

(* The low 64 bits of a long are the long.                                 *)
LEMMA WrapOfLong ==
    ASSUME NEW l \in Int64
    PROVE  Wrap64(l) = l
<1> DEFINE m == Int64Max + 1
<1>1. m \in Int /\ m > 0 /\ l \in Int /\ -m <= l /\ l < m
  BY WidthAssumption DEF Int64
<1>2. \A x, n \in Int : n > 0 /\ 0 <= x /\ x < n => x % n = x
  BY SMT
<1>3. (l + m) % (2 * m) = l + m
  <2> HIDE DEF m
  <2> QED
    BY <1>1, <1>2
<1> QED
  BY <1>1, <1>3, WidthAssumption DEF Wrap64

(* The low 64 bits of any integer are a long.                              *)
LEMMA WrapInRange ==
    ASSUME NEW i \in Int
    PROVE  Wrap64(i) \in Int64
<1> DEFINE m == Int64Max + 1
<1>1. m \in Int /\ m > 0
  BY WidthAssumption
<1>2. \A x, n \in Int : n > 0 => x % n \in Int /\ 0 <= x % n /\ x % n < n
  BY SMT
<1>3. (i + m) % (2 * m) \in Int /\ 0 <= (i + m) % (2 * m) /\ (i + m) % (2 * m) < 2 * m
  <2> HIDE DEF m
  <2> QED
    BY <1>1, <1>2
<1> QED
  BY <1>1, <1>3, WidthAssumption DEF Wrap64, Int64

---------------------------------------------------------------------------
(* toJSValue changes the class of a number and never the number.  The tag  *)
(* is INT for what fits an int; a Long beyond the exact integers is a      *)
(* BigInt, every other number a FLOAT64.                                   *)
LEMMA IntoScript ==
    ASSUME NEW v \in JavaNumber
    PROVE  /\ toJSValue(v) \in JSNumber
           /\ toJSValue(v).kind = v.kind
           /\ toJSValue(v).half = v.half
           /\ toJSValue(v).tag = IF IntegerIn(v, Int32) THEN "INT"
                                 ELSE IF v.tag = "Long" /\ ~IntegerIn(v, Safe) THEN "BIG_INT"
                                 ELSE "FLOAT64"
<1> DEFINE w == toJSValue(v)
<1>1. CASE v.tag = "Integer"
  <2>1. IntegerIn(v, Int32) /\ v.half \in Int
    BY <1>1, JavaFields
  <2>2. w = Number("INT", v.half)
    BY <1>1 DEF toJSValue
  <2>3. Number("INT", v.half) \in JSNumber
    BY <2>1, Halves DEF JSNumber, IntegerIn
  <2> QED
    BY <2>1, <2>2, <2>3, NumberFields DEF IntegerIn
<1>2. CASE v.tag = "Long"
  <2>1. IntegerIn(v, Int64) /\ v.half \in Int
    BY <1>2, JavaFields
  <2> DEFINE l == v.half \div 2
  <2>2. l \in Int64 /\ l \in Int /\ v.half = 2 * l /\ v.kind = "finite" /\ v.half % 2 = 0
    BY <2>1, Halves, Widths DEF IntegerIn
  <2>3. w = LongToJS(v)
    BY <1>2 DEF toJSValue
  <2> HIDE DEF l, w
  <2>4. l \notin Safe <=> v.half > 2 * SafeMax \/ v.half < -(2 * SafeMax)
    BY <2>2, WidthAssumption DEF Safe
  <2>5. CASE l \notin Safe
    <3>1. w = Number("BIG_INT", 2 * l)
      BY <2>2, <2>3, <2>4, <2>5 DEF LongToJS
    <3>2. w \in JSNumber
      BY <3>1, <2>2, Widths DEF JSNumber
    <3>3. ~IntegerIn(v, Safe) /\ ~IntegerIn(v, Int32)
      BY <2>5, Widths DEF IntegerIn, l
    <3> QED
      BY <3>1, <3>2, <3>3, <2>2, <1>2, NumberFields DEF w
  <2>6. CASE l \in Int32
    <3>1. w = Number("INT", 2 * l)
      BY <2>2, <2>3, <2>4, <2>6, Widths DEF LongToJS, JS_NewInt64, l
    <3>2. w \in JSNumber
      BY <3>1, <2>6 DEF JSNumber
    <3>3. IntegerIn(v, Int32)
      BY <2>2, <2>6 DEF IntegerIn, l
    <3> QED
      BY <3>1, <3>2, <3>3, <2>2, NumberFields DEF w
  <2>7. CASE l \in Safe /\ l \notin Int32
    <3>1. w = Number("FLOAT64", 2 * l)
      BY <2>2, <2>3, <2>4, <2>7, SafeIsDouble DEF LongToJS, JS_NewInt64, l
    <3>2. w \in JSNumber
      BY <3>1, <2>7, SafeIsDouble DEF JSNumber
    <3>3. ~IntegerIn(v, Int32) /\ IntegerIn(v, Safe)
      BY <2>2, <2>7 DEF IntegerIn, l
    <3> QED
      BY <3>1, <3>2, <3>3, <2>2, NumberFields DEF w
  <2> QED
    BY <2>5, <2>6, <2>7
<1>3. CASE v.tag = "Double" /\ v.kind = "finite" /\ v.half \in DoubleHalf
  <2>1. PICK h \in DoubleHalf : v = Number("Double", h)
    BY <1>3 DEF JavaNumber, Number, SpecialOf, Special
  <2>2. w = JS_NewFloat64(v) /\ h \in Int /\ v.half = h
    BY <1>3, <2>1, NumberFields, JavaFields DEF toJSValue
  <2>3. IntegerIn(v, Int32) <=> \E i \in Int32 : v.half = 2 * i
    BY <1>3, <2>2, Halves, Widths DEF IntegerIn
  <2>4. CASE IntegerIn(v, Int32)
    <3>1. w = Number("INT", v.half)
      BY <1>3, <2>2, <2>3, <2>4 DEF JS_NewFloat64
    <3>2. w \in JSNumber
      BY <3>1, <2>3, <2>4 DEF JSNumber
    <3> QED
      BY <3>1, <3>2, <2>4, <1>3, NumberFields
  <2>5. CASE ~IntegerIn(v, Int32)
    <3>1. w = Number("FLOAT64", h)
      BY <2>1, <2>2, <2>3, <2>5 DEF JS_NewFloat64, Number
    <3>2. w \in JSNumber
      BY <3>1 DEF JSNumber
    <3> QED
      BY <3>1, <3>2, <2>2, <2>5, <1>3, NumberFields
  <2> QED
    BY <2>4, <2>5
<1>4. CASE v.tag = "Double" /\ v.kind \in Special
  <2>1. PICK k \in Special : v = SpecialOf("Double", k)
    BY <1>4 DEF JavaNumber, Number, SpecialOf, Special
  <2>2. w = SpecialOf("FLOAT64", k)
    BY <1>4, <2>1 DEF toJSValue, JS_NewFloat64, SpecialOf, Special
  <2>3. w \in JSNumber
    BY <2>2 DEF JSNumber
  <2>4. ~IntegerIn(v, Int32)
    BY <1>4 DEF IntegerIn, Special
  <2> QED
    BY <2>1, <2>2, <2>3, <2>4, <1>4 DEF SpecialOf
<1> QED
  BY <1>1, <1>2, <1>3, <1>4, JavaFields

(* toJavaObject gives a Java number, which is the number of the script     *)
(* unless the cast or the cut to 64 bits loses it or it is -0.  Its class  *)
(* is Integer for the tag INT, Double for what is no integer, else Long.   *)
LEMMA OutToJava ==
    ASSUME NEW v \in JSNumber, NEW w \in toJavaObject(v)
    PROVE  /\ w \in JavaNumber
           /\ w.tag = IF v.tag = "INT" THEN "Integer"
                      ELSE IF v.tag = "FLOAT64" /\ ~IsInteger(v) THEN "Double"
                      ELSE "Long"
           /\ \/ w.kind = v.kind /\ w.half = v.half
              \/ v.kind = "negativeZero" /\ w = Number("Long", 0)
              \/ v.tag = "FLOAT64" /\ OutOfRange(v) /\ ~IntegerIn(w, Int32)
              \/ v.tag = "BIG_INT" /\ OutOfRange(v)
<1>1. CASE v.tag = "INT"
  <2>1. w = Number("Integer", v.half) /\ IntegerIn(v, Int32) /\ v.half \in Int
    BY <1>1, JSFields DEF toJavaObject
  <2>2. w \in JavaNumber
    BY <2>1, Halves DEF JavaNumber, IntegerIn
  <2> QED
    BY <1>1, <2>1, <2>2, NumberFields DEF IntegerIn
<1>2. CASE v.tag = "BIG_INT"
  <2> DEFINE i == v.half \div 2
  <2>1. w = Number("Long", 2 * Wrap64(i)) /\ v.half \in Int /\ v.half % 2 = 0 /\ v.kind = "finite"
    BY <1>2, JSFields DEF toJavaObject, IntegerIn
  <2>2. i \in Int /\ v.half = 2 * i
    BY <2>1, Halves
  <2>3. w \in JavaNumber
    BY <2>1, <2>2, WrapInRange DEF JavaNumber
  <2>4. i \in Int64 \/ OutOfRange(v)
    BY <2>1 DEF OutOfRange
  <2> HIDE DEF i
  <2> QED
    BY <1>2, <2>1, <2>2, <2>3, <2>4, WrapOfLong, NumberFields
<1>3. CASE v.tag = "FLOAT64" /\ ~IsInteger(v)
  <2>1. w = [v EXCEPT !.tag = "Double"]
    BY <1>3 DEF toJavaObject, FloatToJava
  <2>2. \/ \E h \in DoubleHalf : v = Number("FLOAT64", h)
        \/ \E k \in Special : v = SpecialOf("FLOAT64", k)
    BY <1>3 DEF JSNumber, Number
  <2>3. \/ \E h \in DoubleHalf : w = Number("Double", h) /\ v = Number("FLOAT64", h)
        \/ \E k \in Special : w = SpecialOf("Double", k) /\ v = SpecialOf("FLOAT64", k)
    BY <2>1, <2>2 DEF Number, SpecialOf
  <2>4. w \in JavaNumber
    BY <2>3 DEF JavaNumber
  <2>5. w.tag = "Double" /\ w.kind = v.kind /\ w.half = v.half
    BY <2>3 DEF Number, SpecialOf
  <2> QED
    BY <1>3, <2>4, <2>5
<1>4. CASE v.tag = "FLOAT64" /\ IsInteger(v)
  <2>1. PICK l \in CastToLong(v) : w = Number("Long", 2 * l)
    BY <1>4 DEF toJavaObject, FloatToJava
  <2>2. CASE v.kind = "negativeZero"
    <3>1. l = 0
      BY <2>1, <2>2 DEF CastToLong
    <3>2. w = Number("Long", 0) /\ w = Number("Long", 2 * 0)
      BY <2>1, <3>1
    <3>3. w \in JavaNumber
      BY <3>2, Widths DEF JavaNumber
    <3> QED
      BY <1>4, <2>2, <3>2, <3>3, NumberFields
  <2>3. CASE v.kind = "finite" /\ v.half \div 2 \in Int64
    <3>1. l = v.half \div 2
      BY <2>1, <2>3 DEF CastToLong
    <3>2. 2 * l = v.half
      BY <1>4, <2>3, <3>1, JSFields, Halves DEF IsInteger
    <3>3. w \in JavaNumber
      BY <2>1, <2>3, <3>1 DEF JavaNumber
    <3> QED
      BY <1>4, <2>1, <2>3, <3>2, <3>3, NumberFields
  <2>4. CASE v.kind # "negativeZero" /\ ~(v.kind = "finite" /\ v.half \div 2 \in Int64)
    <3>1. l \in {-(Int64Max + 1), Int64Max}
      BY <2>1, <2>4 DEF CastToLong
    <3>2. l \in Int64 /\ l \notin Int32 /\ l \in Int
      BY <3>1, Widths
    <3>3. w \in JavaNumber
      BY <2>1, <3>2 DEF JavaNumber
    <3>4. OutOfRange(v)
      BY <1>4, <2>4 DEF IsInteger, OutOfRange
    <3>5. ~IntegerIn(w, Int32)
      BY <2>1, <3>2, NumberFields, Halves DEF IntegerIn
    <3> QED
      BY <1>4, <2>1, <3>3, <3>4, <3>5, NumberFields
  <2> QED
    BY <2>2, <2>3, <2>4
<1> QED
  BY <1>1, <1>2, <1>3, <1>4, JSFields

---------------------------------------------------------------------------
LEMMA FiniteNumber ==
    ASSUME NEW v \in JavaNumber \cup JSNumber, v.kind = "finite"
    PROVE  v = Number(v.tag, v.half)
  BY DEF JavaNumber, JSNumber, Number, SpecialOf, Special

(* Being an integer, of which range, and being lost by the cast depend on  *)
(* the number alone.                                                       *)
LEMMA SameNumber ==
    ASSUME NEW v, NEW w, v.kind = w.kind, v.half = w.half
    PROVE  /\ IsInteger(v) <=> IsInteger(w)
           /\ OutOfRange(v) <=> OutOfRange(w)
           /\ \A S : IntegerIn(v, S) <=> IntegerIn(w, S)
  BY DEF IsInteger, OutOfRange, IntegerIn

(* A long is an integer that the cast keeps.                               *)
LEMMA LongKept ==
    ASSUME NEW v, IntegerIn(v, Int64)
    PROVE  IsInteger(v) /\ ~OutOfRange(v) /\ v.kind # "negativeZero"
  BY DEF IntegerIn, IsInteger, OutOfRange

LEMMA InitInvariant == CrossingInit => CrossingInv
<1> SUFFICES ASSUME CrossingInit PROVE CrossingInv
  OBVIOUS
<1>1. CrossingTypeOK
  BY DEF CrossingInit, CrossingTypeOK
<1>2. NumberSurvives /\ Underway
  BY DEF CrossingInit, NumberSurvives, Underway
<1>3. ClassByNumber /\ Settled
  BY DEF CrossingInit, ClassByNumber, Settled
<1> QED
  BY <1>1, <1>2, <1>3 DEF CrossingInv

LEMMA PassToScriptInvariant == CrossingInv /\ PassToScript => CrossingInv'
<1> SUFFICES ASSUME CrossingInv, PassToScript PROVE CrossingInv'
  OBVIOUS
<1>1. value \in JavaNumber /\ side = "java" /\ side' = "js"
  BY DEF CrossingInv, CrossingTypeOK, PassToScript
<1>2. value' = toJSValue(value) /\ origin' = origin /\ crossings' = crossings
  BY DEF PassToScript
<1>3. /\ value' \in JSNumber /\ value'.kind = value.kind /\ value'.half = value.half
      /\ value'.tag = IF IntegerIn(value, Int32) THEN "INT"
                      ELSE IF value.tag = "Long" /\ ~IntegerIn(value, Safe) THEN "BIG_INT"
                      ELSE "FLOAT64"
  BY <1>1, <1>2, IntoScript
<1>4. CrossingTypeOK'
  BY <1>1, <1>2, <1>3 DEF CrossingInv, CrossingTypeOK
<1>5. NumberSurvives'
  <2>1. CASE value.kind = origin.kind /\ value.half = origin.half
    BY <2>1, <1>2, <1>3 DEF NumberSurvives
  <2>2. CASE OutOfRange(origin)
    BY <2>2, <1>2 DEF NumberSurvives
  <2>3. CASE origin.kind = "negativeZero" /\ value = Number(value.tag, 0)
    <3>1. value'.kind = "finite" /\ value'.half = 0
      BY <2>3, <1>3, NumberFields
    <3>2. value' = Number(value'.tag, 0)
      BY <3>1, <1>3, FiniteNumber
    <3> QED
      BY <2>3, <3>2, <1>2 DEF NumberSurvives
  <2> QED
    BY <2>1, <2>2, <2>3 DEF CrossingInv, NumberSurvives
<1>6. ClassByNumber'
  BY <1>1 DEF ClassByNumber
<1>7. Underway'
  BY <1>1, <1>2 DEF CrossingInv, Underway
<1>8. Settled'
  <2> SUFFICES ASSUME crossings > 0 PROVE Canonical(value')
    BY <1>1, <1>2 DEF Settled
  <2>1. ~(value.tag = "Double" /\ IsInteger(value))
    BY <1>1 DEF CrossingInv, Settled
  <2>2. /\ IsInteger(value) <=> IsInteger(value')
        /\ \A S : IntegerIn(value, S) <=> IntegerIn(value', S)
    BY <1>3, SameNumber
  <2>3. CASE value.tag = "Integer"
    BY <2>3, <1>1, <1>3, JavaFields DEF Canonical
  <2>4. CASE value.tag = "Long"
    BY <2>2, <2>4, <1>1, <1>3, JavaFields DEF Canonical
  <2>5. CASE value.tag = "Double"
    BY <2>1, <2>2, <2>5, <1>3 DEF Canonical
  <2> QED
    BY <2>3, <2>4, <2>5, <1>1, JavaFields
<1> QED
  BY <1>4, <1>5, <1>6, <1>7, <1>8 DEF CrossingInv

LEMMA HandToJavaInvariant == CrossingInv /\ HandToJava => CrossingInv'
<1> SUFFICES ASSUME CrossingInv, HandToJava PROVE CrossingInv'
  OBVIOUS
<1>1. value \in JSNumber /\ side = "js" /\ side' = "java" /\ crossings \in 0 .. 2
  BY DEF CrossingInv, CrossingTypeOK, HandToJava
<1>2. /\ value' \in toJavaObject(value) /\ origin' = origin
      /\ crossings' = IF crossings = 2 THEN 2 ELSE crossings + 1
  BY DEF HandToJava
<1>3. /\ value' \in JavaNumber
      /\ value'.tag = IF value.tag = "INT" THEN "Integer"
                      ELSE IF value.tag = "FLOAT64" /\ ~IsInteger(value) THEN "Double"
                      ELSE "Long"
      /\ \/ value'.kind = value.kind /\ value'.half = value.half
         \/ value.kind = "negativeZero" /\ value' = Number("Long", 0)
         \/ value.tag = "FLOAT64" /\ OutOfRange(value) /\ ~IntegerIn(value', Int32)
         \/ value.tag = "BIG_INT" /\ OutOfRange(value)
  BY <1>1, <1>2, OutToJava
<1>4. crossings' \in 1 .. 2 /\ (crossings' = 1 <=> crossings = 0)
  BY <1>1, <1>2
<1>5. CrossingTypeOK'
  BY <1>1, <1>2, <1>3, <1>4 DEF CrossingInv, CrossingTypeOK
<1>6. NumberSurvives'
  <2>1. CASE value.kind = origin.kind /\ value.half = origin.half
    <3>1. OutOfRange(value) <=> OutOfRange(origin)
      BY <2>1, SameNumber
    <3>2. value' = Number("Long", 0) => value' = Number(value'.tag, 0)
      BY NumberFields
    <3> QED
      BY <2>1, <3>1, <3>2, <1>2, <1>3 DEF NumberSurvives
  <2>2. CASE OutOfRange(origin)
    BY <2>2, <1>2 DEF NumberSurvives
  <2>3. CASE origin.kind = "negativeZero" /\ value = Number(value.tag, 0)
    <3>1. value.kind = "finite" /\ value.half = 0
      BY <2>3, NumberFields
    <3>2. IntegerIn(value, Int64)
      BY <3>1, Widths DEF IntegerIn
    <3>3. value'.kind = "finite" /\ value'.half = 0
      BY <3>1, <3>2, <1>3, LongKept
    <3>4. value' = Number(value'.tag, 0)
      BY <3>3, <1>3, FiniteNumber
    <3> QED
      BY <2>3, <3>4, <1>2 DEF NumberSurvives
  <2> QED
    BY <2>1, <2>2, <2>3 DEF CrossingInv, NumberSurvives
<1>7. ClassByNumber'
  <2>1. CASE value.tag = "INT"
    <3>1. IntegerIn(value, Int32) /\ IntegerIn(value, Int64)
      BY <2>1, <1>1, JSFields, Widths DEF IntegerIn
    <3>2. value'.kind = value.kind /\ value'.half = value.half
      BY <2>1, <3>1, <1>3, LongKept
    <3>3. IsInteger(value') /\ value'.half \div 2 \in Int32
      BY <3>1, <3>2, LongKept, SameNumber DEF IntegerIn
    <3> QED
      BY <2>1, <3>3, <1>3 DEF ClassByNumber
  <2>2. CASE value.tag = "FLOAT64" /\ ~IsInteger(value)
    <3>1. ~OutOfRange(value) /\ value.kind # "negativeZero"
      BY <2>2 DEF IsInteger, OutOfRange
    <3>2. value'.kind = value.kind /\ value'.half = value.half
      BY <2>2, <3>1, <1>3
    <3>3. ~IsInteger(value')
      BY <2>2, <3>2, SameNumber
    <3> QED
      BY <2>2, <3>3, <1>3 DEF ClassByNumber
  <2>3. CASE value.tag # "INT" /\ ~(value.tag = "FLOAT64" /\ ~IsInteger(value))
    <3>1. value'.tag = "Long" /\ IntegerIn(value', Int64) /\ IsInteger(value')
      BY <2>3, <1>3, JavaFields, LongKept
    <3>2. CASE ~IntegerIn(value', Int32)
      BY <3>1, <3>2 DEF ClassByNumber, IntegerIn
    <3>3. CASE crossings = 0 /\ value = origin
      <4>1. origin'.tag \in {"BIG_INT", "FLOAT64"} /\ crossings' = 1
        BY <2>3, <3>3, <1>1, <1>2, <1>4, JSFields
      <4> QED
        BY <3>1, <4>1 DEF ClassByNumber
    <3>4. CASE IntegerIn(value', Int32) /\ origin \in JavaNumber /\ value = toJSValue(origin)
                 /\ crossings = 0
      <4>1. /\ value.kind = origin.kind /\ value.half = origin.half
            /\ value.tag = IF IntegerIn(origin, Int32) THEN "INT"
                           ELSE IF origin.tag = "Long" /\ ~IntegerIn(origin, Safe) THEN "BIG_INT"
                           ELSE "FLOAT64"
        BY <3>4, IntoScript
      <4>2. ~IntegerIn(value, Int32)
        BY <2>3, <4>1, SameNumber
      <4>3. ~(value'.kind = value.kind /\ value'.half = value.half)
        BY <3>4, <4>2, SameNumber
      <4>4. value.tag = "BIG_INT" => ~OutOfRange(value)
        BY <3>4, <4>1, JavaFields, LongKept, SameNumber
      <4>5. origin'.kind = "negativeZero" /\ crossings' = 1
        BY <3>4, <4>1, <4>3, <4>4, <1>2, <1>3, <1>4
      <4> QED
        BY <3>1, <4>5 DEF ClassByNumber
    <3>5. CASE crossings > 0
      <4>1. Canonical(value)
        BY <3>5, <1>1 DEF CrossingInv, Settled
      <4>2. IntegerIn(value, Int64) /\ ~IntegerIn(value, Int32)
        BY <2>3, <4>1, Widths DEF Canonical, IntegerIn
      <4>3. value'.kind = value.kind /\ value'.half = value.half
        BY <4>2, <1>3, LongKept
      <4>4. ~IntegerIn(value', Int32)
        BY <4>2, <4>3, SameNumber
      <4> QED
        BY <3>2, <4>4
    <3> QED
      BY <3>2, <3>3, <3>4, <3>5, <1>1 DEF CrossingInv, Underway
  <2> QED
    BY <2>1, <2>2, <2>3
<1>8. Underway'
  BY <1>4 DEF Underway
<1>9. Settled'
  <2> SUFFICES ASSUME value'.tag = "Double" PROVE ~IsInteger(value')
    BY <1>1 DEF Settled
  <2>1. value.tag = "FLOAT64" /\ ~IsInteger(value)
    BY <1>3
  <2>2. ~OutOfRange(value) /\ value.kind # "negativeZero"
    BY <2>1 DEF IsInteger, OutOfRange
  <2> QED
    BY <2>1, <2>2, <1>3, SameNumber
<1> QED
  BY <1>5, <1>6, <1>7, <1>8, <1>9 DEF CrossingInv

LEMMA StutterInvariant == CrossingInv /\ UNCHANGED crossingVars => CrossingInv'
<1> SUFFICES ASSUME CrossingInv, UNCHANGED crossingVars PROVE CrossingInv'
  OBVIOUS
<1>1. CrossingTypeOK' /\ NumberSurvives'
  BY DEF CrossingInv, crossingVars, CrossingTypeOK, NumberSurvives
<1>2. ClassByNumber' /\ Underway' /\ Settled'
  BY DEF CrossingInv, crossingVars, ClassByNumber, Underway, Settled
<1> QED
  BY <1>1, <1>2 DEF CrossingInv

(* The invariant holds in every behaviour.                                 *)
THEOREM CrossingInvariance == CrossingSpec => []CrossingInv
<1>1. CrossingInv /\ [CrossingNext]_crossingVars => CrossingInv'
  BY PassToScriptInvariant, HandToJavaInvariant, StutterInvariant DEF CrossingNext
<1> QED
  BY <1>1, InitInvariant, PTL DEF CrossingSpec

(* A number is the same however often toJSValue and toJavaObject take it   *)
(* across, for every width of int, long and double.                        *)
THEOREM NumbersSurvive == CrossingSpec => []NumberSurvives
<1>1. CrossingInv => NumberSurvives
  BY DEF CrossingInv
<1> QED
  BY <1>1, CrossingInvariance, PTL

(* The class that toJavaObject gives a number follows from the number.     *)
THEOREM ClassFollowsNumber == CrossingSpec => []ClassByNumber
<1>1. CrossingInv => ClassByNumber
  BY DEF CrossingInv
<1> QED
  BY <1>1, CrossingInvariance, PTL

(* A script gets a number back as a number and a BigInt as a BigInt, but   *)
(* for the integers that change sides at MAX_SAFE_INTEGER.                 *)
THEOREM TypesKept == CrossingSpec => []TypeofKept
<1>1. CrossingInv => TypeofKept
  <2> SUFFICES ASSUME CrossingInv, side = "js", origin.tag \in {"INT", "FLOAT64", "BIG_INT"}
               PROVE  \/ (value.tag = "BIG_INT") = (origin.tag = "BIG_INT")
                      \/ origin.tag = "FLOAT64"
                            /\ (OutOfRange(origin) \/ origin.half \div 2 \notin Safe)
                      \/ origin.tag = "BIG_INT"
                            /\ (OutOfRange(origin) \/ origin.half \div 2 \in Safe)
    BY DEF TypeofKept
  <2>1. value \in JSNumber /\ origin \in JSNumber /\ crossings \in 0 .. 2
    <3>1. origin \notin JavaNumber
      BY JavaFields
    <3> QED
      BY <3>1 DEF CrossingInv, CrossingTypeOK
  <2>2. CASE crossings = 0
    <3>1. origin \notin JavaNumber
      BY JavaFields
    <3> QED
      BY <2>2, <3>1 DEF CrossingInv, Underway
  <2>3. CASE OutOfRange(origin)
    <3>1. origin.tag # "INT"
      BY <2>1, <2>3, JSFields, Widths, LongKept DEF IntegerIn
    <3> QED
      BY <2>3, <3>1
  <2>4. CASE crossings > 0 /\ ~OutOfRange(origin)
    <3>1. Canonical(value)
      BY <2>4 DEF CrossingInv, Settled
    <3>2. value.half = origin.half /\ origin.half \in Int
      BY <2>1, <2>4, NumberFields, JSFields DEF CrossingInv, NumberSurvives, IntegerIn, Special
    <3>3. CASE origin.tag = "BIG_INT"
      <4>1. IntegerIn(origin, -DoubleMax .. DoubleMax) /\ value.kind = "finite"
        BY <2>1, <2>4, <3>3, JSFields DEF CrossingInv, NumberSurvives, IntegerIn
      <4>2. origin.half \div 2 \notin Safe => value.tag = "BIG_INT"
        BY <2>1, <3>1, <3>2, <4>1, JSFields, Widths DEF Canonical, IntegerIn, IsInteger
      <4> QED
        BY <3>3, <4>2
    <3>4. CASE origin.tag # "BIG_INT"
      <4>1. value.tag = "BIG_INT" => origin.half \div 2 \notin Safe
        BY <3>1, <3>2 DEF Canonical, IntegerIn
      <4>2. origin.tag = "INT" => origin.half \div 2 \in Safe
        BY <2>1, JSFields, Widths DEF IntegerIn
      <4> QED
        BY <3>4, <4>1, <4>2
    <3> QED
      BY <3>3, <3>4
  <2> QED
    BY <2>1, <2>2, <2>3, <2>4
<1> QED
  BY <1>1, CrossingInvariance, PTL

=============================================================================
