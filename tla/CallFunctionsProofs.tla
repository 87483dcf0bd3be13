------------------------- MODULE CallFunctionsProofs -------------------------
(* Proofs about CallFunctions, for any number of threads, callbacks, ids   *)
(* and functions: the registry is right for callbacks that are alone under *)
(* their id, and does not grow.                                            *)
EXTENDS CallFunctions, TLAPS

(* The thread inside the monitor is at one of these places.                *)
Inside == {"native", "make", "putBack", "remove", "get", "user", "free"}

(* A thread at one of these places deals with the callback arg.            *)
HasArg == {"put", "putBack", "enter", "make", "remove", "get"}

ArgIsCallback == \A t \in Thread : pc[t] \in HasArg => arg[t] \in Callback

MonitorHeld == \A t \in Thread : pc[t] \in Inside <=> monitor = t

(* Native calls belong to the running wrapper; destroy is called once, and *)
(* it leaves no function behind.                                           *)
PhaseOfCalls ==
    /\ \A t \in Thread :
          /\ pc[t] \in {"native", "make", "putBack", "get", "user", "clear", "enterDestroy"}
                => phase = "running"
          /\ pc[t] = "free" => phase = "destroying"
          /\ pc[t] = "remove" => phase # "destroyed"
    /\ \A t, u \in Thread :
          pc[t] \in {"clear", "enterDestroy"} /\ pc[u] \in {"clear", "enterDestroy"} => t = u
    /\ phase = "destroyed" => \A f \in Fn : ~Live(f)

AloneInMap ==
    ~raced => \A t, u \in Thread : pc[t] \in MapOp /\ pc[u] \in MapOp => t = u

(* Each use of a callback is a thread that will make a function for it, or *)
(* such a function, or a thread that takes the freed one out of the map.   *)
Deals(t, c) == pc[t] \in {"put", "putBack", "enter", "make", "remove"} /\ arg[t] = c

UsesCounted ==
    \A c \in Callback :
        /\ uses[c] = 0 => /\ \A f \in Fn : fn[f].cb # c
                          /\ \A t \in Thread : ~Deals(t, c)
        /\ uses[c] = 1 => /\ \A f, g \in Fn : fn[f].cb = c /\ fn[g].cb = c => f = g
                          /\ \A t, u \in Thread : Deals(t, c) /\ Deals(u, c) => t = u
                          /\ \A f \in Fn, t \in Thread : ~(fn[f].cb = c /\ Deals(t, c))

(* A sole callback is in the map from the end of its put on.               *)
Registered(c) ==
    Sole(c) =>
        /\ \A f \in Fn : fn[f].cb = c /\ fn[f].made => callFunctionMap[hash[c]] = c
        /\ \A t \in Thread :
              pc[t] \in {"enter", "make"} /\ arg[t] = c => callFunctionMap[hash[c]] = c

SolesRegistered ==
    phase = "running" /\ ~Clearing /\ ~raced => \A c \in Callback : Registered(c)

IndInv ==
    /\ TypeOK
    /\ ArgIsCallback
    /\ MonitorHeld
    /\ PhaseOfCalls
    /\ AloneInMap
    /\ UsesCounted
    /\ SolesRegistered
    /\ NoStaleEntry

---------------------------------------------------------------------------
(* putCallFunction begins: one use more of c, and a thread that deals with it.*)
LEMMA PassKeeps ==
    ASSUME IndInv, NEW t \in Thread, NEW c \in Callback, Pass(t, c)
    PROVE  IndInv'
<1>1. TypeOK'
  BY CallFunctionsAssumption DEF IndInv, Pass, Use, Begin, TypeOK,  Pc, MapOp, Entry, FnState, NoFn
<1>2. ArgIsCallback'
  BY CallFunctionsAssumption DEF IndInv, Pass, Use, Begin, ArgIsCallback, HasArg, MapOp,
     Live, FnState, Entry, NoFn, TypeOK
<1>3. MonitorHeld'
  BY CallFunctionsAssumption DEF IndInv, Pass, Use, Begin, MonitorHeld, Inside, TypeOK, MapOp
<1>4. PhaseOfCalls'
  BY CallFunctionsAssumption DEF IndInv, Pass, Use, Begin, PhaseOfCalls, Live, TypeOK,
     MonitorHeld, Inside, NoFn
<1>5. AloneInMap'
  BY CallFunctionsAssumption DEF IndInv, Pass, Use, Begin, AloneInMap, TypeOK, MapOp,
     MonitorHeld, Inside
<1>6. UsesCounted'
  <2> SUFFICES ASSUME NEW d \in Callback
               PROVE  /\ uses'[d] = 0 => /\ \A g \in Fn : fn'[g].cb # d
                                         /\ \A u \in Thread : ~Deals(u, d)'
                      /\ uses'[d] = 1 => /\ \A g, h \in Fn : fn'[g].cb = d /\ fn'[h].cb = d => g = h
                                         /\ \A u, v \in Thread : Deals(u, d)' /\ Deals(v, d)' => u = v
                                         /\ \A g \in Fn, u \in Thread : ~(fn'[g].cb = d /\ Deals(u, d)')
    BY DEF UsesCounted
  <2>1. fn' = fn /\ \A u \in Thread : Deals(u, d)' => IF u = t THEN d = c ELSE Deals(u, d)
    BY DEF IndInv, TypeOK, Pass, Begin, Deals
  <2>2. uses[d] \in Nat /\ uses'[d] = IF d = c THEN uses[d] + 1 ELSE uses[d]
    BY CallFunctionsAssumption DEF IndInv, TypeOK, Pass, Use
  <2>3. ~Deals(t, d)
    BY DEF Pass, Deals
  <2> QED
    BY <2>1, <2>2, <2>3 DEF IndInv, UsesCounted
<1>7. SolesRegistered'
  BY CallFunctionsAssumption DEF IndInv, Pass, Use, Begin, SolesRegistered, Registered,
     Sole, Deals, UsesCounted, TypeOK, Clearing, Live, NoFn, ArgIsCallback, HasArg,
     AloneInMap, PhaseOfCalls
<1>8. NoStaleEntry'
  BY CallFunctionsAssumption DEF IndInv, Pass, Use, Begin, NoStaleEntry, Owed, TypeOK,
     Live, NoFn, ArgIsCallback, HasArg, AloneInMap, MapOp
<1> QED
  BY <1>1, <1>2, <1>3, <1>4, <1>5, <1>6, <1>7, <1>8 DEF IndInv

(* The put ends: c is in the map, and the thread goes on to make a function.*)
LEMMA PutEndKeeps ==
    ASSUME IndInv, NEW t \in Thread, PutEnd(t)
    PROVE  IndInv'
<1>1. TypeOK'
  BY CallFunctionsAssumption DEF IndInv, PutEnd, Commit, TypeOK,  Pc, MapOp, Entry, FnState, NoFn
<1>2. ArgIsCallback'
  BY CallFunctionsAssumption DEF IndInv, PutEnd, Commit, ArgIsCallback, HasArg, MapOp,
     Live, FnState, Entry, NoFn, TypeOK
<1>3. MonitorHeld'
  BY CallFunctionsAssumption DEF IndInv, PutEnd, Commit, MonitorHeld, Inside, TypeOK, MapOp
<1>4. PhaseOfCalls'
  BY CallFunctionsAssumption DEF IndInv, PutEnd, Commit, PhaseOfCalls, Live, TypeOK,
     MonitorHeld, Inside, NoFn
<1>5. AloneInMap'
  BY CallFunctionsAssumption DEF IndInv, PutEnd, Commit, AloneInMap, TypeOK, MapOp,
     MonitorHeld, Inside
<1>6. UsesCounted'
  BY CallFunctionsAssumption DEF IndInv, PutEnd, Commit, UsesCounted, Deals, TypeOK, Live,
     NoFn, FnState, Entry, ArgIsCallback, HasArg
<1>7. SolesRegistered'
  BY CallFunctionsAssumption DEF IndInv, PutEnd, Commit, SolesRegistered, Registered, Sole,
     Deals, UsesCounted, TypeOK, Clearing, Live, NoFn, ArgIsCallback, HasArg, AloneInMap,
     PhaseOfCalls
<1>8. NoStaleEntry'
  BY CallFunctionsAssumption DEF IndInv, PutEnd, Commit, NoStaleEntry, Owed, TypeOK, Live,
     NoFn, ArgIsCallback, HasArg, AloneInMap, MapOp
<1> QED
  BY <1>1, <1>2, <1>3, <1>4, <1>5, <1>6, <1>7, <1>8 DEF IndInv

(* toJSValue makes the function the thread has registered the callback for.*)
LEMMA MakeKeeps ==
    ASSUME IndInv, NEW t \in Thread, NEW f \in Fn, Make(t, f)
    PROVE  IndInv'
<1>1. TypeOK'
  BY CallFunctionsAssumption DEF IndInv, Make, toJSValue, TypeOK,  Pc, MapOp, Entry, FnState, NoFn
<1>2. ArgIsCallback'
  BY CallFunctionsAssumption DEF IndInv, Make, toJSValue, ArgIsCallback, HasArg, MapOp,
     Live, FnState, Entry, NoFn, TypeOK
<1>3. MonitorHeld'
  BY CallFunctionsAssumption DEF IndInv, Make, toJSValue, MonitorHeld, Inside, TypeOK, MapOp
<1>4. PhaseOfCalls'
  BY CallFunctionsAssumption DEF IndInv, Make, toJSValue, PhaseOfCalls, Live, TypeOK,
     MonitorHeld, Inside, NoFn
<1>5. AloneInMap'
  BY CallFunctionsAssumption DEF IndInv, Make, toJSValue, AloneInMap, TypeOK, MapOp,
     MonitorHeld, Inside
<1>6. UsesCounted'
  BY CallFunctionsAssumption DEF IndInv, Make, toJSValue, UsesCounted, Deals, TypeOK, Live,
     NoFn, FnState, Entry, ArgIsCallback, HasArg
<1>7. SolesRegistered'
  BY CallFunctionsAssumption DEF IndInv, Make, toJSValue, SolesRegistered, Registered,
     Sole, Deals, UsesCounted, TypeOK, Clearing, Live, NoFn, ArgIsCallback, HasArg,
     AloneInMap, PhaseOfCalls
<1>8. NoStaleEntry'
  BY CallFunctionsAssumption DEF IndInv, Make, toJSValue, NoStaleEntry, Owed, TypeOK, Live,
     NoFn, ArgIsCallback, HasArg, AloneInMap, MapOp
<1> QED
  BY <1>1, <1>2, <1>3, <1>4, <1>5, <1>6, <1>7, <1>8 DEF IndInv

(* The call fails before it comes to the callback, which stays in the map. *)
LEMMA CallFailsKeeps ==
    ASSUME IndInv, NEW t \in Thread, CallFails(t)
    PROVE  IndInv'
<1>1. TypeOK'
  BY CallFunctionsAssumption DEF IndInv, CallFails, TypeOK, Pc, MapOp, Entry, FnState,
     NoFn, ArgIsCallback, HasArg
<1>2. ArgIsCallback'
  BY CallFunctionsAssumption DEF IndInv, CallFails, ArgIsCallback, HasArg, MapOp, Live,
     FnState, Entry, NoFn, TypeOK
<1>3. MonitorHeld'
  BY CallFunctionsAssumption DEF IndInv, CallFails, MonitorHeld, Inside, TypeOK, MapOp
<1>4. PhaseOfCalls'
  BY CallFunctionsAssumption DEF IndInv, CallFails, PhaseOfCalls, Live, TypeOK,
     MonitorHeld, Inside, NoFn
<1>5. AloneInMap'
  BY CallFunctionsAssumption DEF IndInv, CallFails, AloneInMap, TypeOK, MapOp, MonitorHeld, Inside
<1>6. UsesCounted'
  BY CallFunctionsAssumption DEF IndInv, CallFails, UsesCounted, Deals, TypeOK, Live, NoFn,
     FnState, Entry, ArgIsCallback, HasArg
<1>7. SolesRegistered'
  BY CallFunctionsAssumption DEF IndInv, CallFails, SolesRegistered, Registered, Sole,
     Deals, UsesCounted, TypeOK, Clearing, Live, NoFn, ArgIsCallback, HasArg, AloneInMap,
     PhaseOfCalls
<1>8. NoStaleEntry'
  BY CallFunctionsAssumption DEF IndInv, CallFails, NoStaleEntry, Owed, TypeOK, Live, NoFn,
     ArgIsCallback, HasArg, AloneInMap, MapOp
<1> QED
  BY <1>1, <1>2, <1>3, <1>4, <1>5, <1>6, <1>7, <1>8 DEF IndInv

(* JSArray.set makes a function and does not put the callback into the map.*)
LEMMA ArraySetKeeps ==
    ASSUME IndInv, NEW t \in Thread, NEW c \in Callback, NEW f \in Fn, ArraySet(t, c, f)
    PROVE  IndInv'
<1>1. TypeOK'
  BY CallFunctionsAssumption DEF IndInv, ArraySet, Use, toJSValue, TypeOK,  Pc, MapOp,
     Entry, FnState, NoFn
<1>2. ArgIsCallback'
  BY CallFunctionsAssumption DEF IndInv, ArraySet, Use, toJSValue, ArgIsCallback, HasArg,
     MapOp, Live, FnState, Entry, NoFn, TypeOK
<1>3. MonitorHeld'
  BY CallFunctionsAssumption DEF IndInv, ArraySet, Use, toJSValue, MonitorHeld, Inside,
     TypeOK, MapOp
<1>4. PhaseOfCalls'
  BY CallFunctionsAssumption DEF IndInv, ArraySet, Use, toJSValue, PhaseOfCalls, Live,
     TypeOK, MonitorHeld, Inside, NoFn
<1>5. AloneInMap'
  BY CallFunctionsAssumption DEF IndInv, ArraySet, Use, toJSValue, AloneInMap, TypeOK,
     MapOp, MonitorHeld, Inside
<1>6. UsesCounted'
  <2> SUFFICES ASSUME NEW d \in Callback
               PROVE  /\ uses'[d] = 0 => /\ \A g \in Fn : fn'[g].cb # d
                                         /\ \A u \in Thread : ~Deals(u, d)'
                      /\ uses'[d] = 1 => /\ \A g, h \in Fn : fn'[g].cb = d /\ fn'[h].cb = d => g = h
                                         /\ \A u, v \in Thread : Deals(u, d)' /\ Deals(v, d)' => u = v
                                         /\ \A g \in Fn, u \in Thread : ~(fn'[g].cb = d /\ Deals(u, d)')
    BY DEF UsesCounted
  <2>1. \A u \in Thread : Deals(u, d)' => Deals(u, d)
    BY DEF IndInv, TypeOK, ArraySet, toJSValue, Deals
  <2>2. \A g \in Fn : fn'[g].cb = IF g = f THEN c ELSE fn[g].cb
    BY DEF IndInv, TypeOK, ArraySet, toJSValue
  <2>3. uses[d] \in Nat /\ uses'[d] = IF d = c THEN uses[d] + 1 ELSE uses[d]
    BY CallFunctionsAssumption DEF IndInv, TypeOK, ArraySet, Use
  <2>4. fn[f].cb # d
    BY CallFunctionsAssumption DEF ArraySet, toJSValue, Live
  <2> QED
    BY <2>1, <2>2, <2>3, <2>4 DEF IndInv, UsesCounted
<1>7. SolesRegistered'
  <2> SUFFICES ASSUME phase = "running", ~Clearing, ~raced, NEW d \in Callback, Sole(d)'
               PROVE  Registered(d)'
    BY DEF SolesRegistered, Registered, Clearing, ArraySet, toJSValue, IndInv, TypeOK
  <2>1. \A u \in Thread : pc'[u] \in {"enter", "make"} => pc[u] \in {"enter", "make"}
    BY DEF IndInv, TypeOK, ArraySet, toJSValue
  <2>2. \A g \in Fn : fn'[g].made => g # f /\ fn'[g] = fn[g]
    BY DEF IndInv, TypeOK, ArraySet, toJSValue
  <2>3. \A e \in Callback : uses[e] \in Nat /\ uses'[e] = IF e = c THEN uses[e] + 1 ELSE uses[e]
    BY CallFunctionsAssumption DEF IndInv, TypeOK, ArraySet, Use
  <2>4. arg' = arg /\ callFunctionMap' = callFunctionMap /\ hash' = hash
    BY DEF ArraySet
  <2>5. CASE d # c
    <3>1. Sole(d)
      BY <2>3, <2>4, <2>5 DEF Sole
    <3> QED
      BY <3>1, <2>1, <2>2, <2>4 DEF IndInv, SolesRegistered, Registered
  <2>6. CASE d = c
    <3>1. uses[d] = 0
      BY <2>3, <2>6 DEF Sole
    <3>2. /\ \A g \in Fn : fn[g].cb # d
          /\ \A u \in Thread : ~Deals(u, d)
      BY <3>1 DEF IndInv, UsesCounted
    <3> QED
      BY <3>2, <2>1, <2>2, <2>4 DEF Registered, Deals
  <2> QED
    BY <2>5, <2>6
<1>8. NoStaleEntry'
  BY CallFunctionsAssumption DEF IndInv, ArraySet, Use, toJSValue, NoStaleEntry, Owed,
     TypeOK, Live, NoFn, ArgIsCallback, HasArg, AloneInMap, MapOp
<1> QED
  BY <1>1, <1>2, <1>3, <1>4, <1>5, <1>6, <1>7, <1>8 DEF IndInv

(* A native method is entered.                                             *)
LEMMA EnterKeeps ==
    ASSUME IndInv, NEW t \in Thread, Enter(t)
    PROVE  IndInv'
<1>1. TypeOK'
  BY CallFunctionsAssumption DEF IndInv, Enter, TypeOK,  Pc, MapOp, Entry, FnState, NoFn
<1>2. ArgIsCallback'
  BY CallFunctionsAssumption DEF IndInv, Enter, ArgIsCallback, HasArg, MapOp, Live,
     FnState, Entry, NoFn, TypeOK
<1>3. MonitorHeld'
  BY CallFunctionsAssumption DEF IndInv, Enter, MonitorHeld, Inside, TypeOK, MapOp
<1>4. PhaseOfCalls'
  BY CallFunctionsAssumption DEF IndInv, Enter, PhaseOfCalls, Live, TypeOK, MonitorHeld,
     Inside, NoFn
<1>5. AloneInMap'
  BY CallFunctionsAssumption DEF IndInv, Enter, AloneInMap, TypeOK, MapOp, MonitorHeld, Inside
<1>6. UsesCounted'
  BY CallFunctionsAssumption DEF IndInv, Enter, UsesCounted, Deals, TypeOK, Live, NoFn,
     FnState, Entry, ArgIsCallback, HasArg
<1>7. SolesRegistered'
  BY CallFunctionsAssumption DEF IndInv, Enter, SolesRegistered, Registered, Sole, Deals,
     UsesCounted, TypeOK, Clearing, Live, NoFn, ArgIsCallback, HasArg, AloneInMap, PhaseOfCalls
<1>8. NoStaleEntry'
  BY CallFunctionsAssumption DEF IndInv, Enter, NoStaleEntry, Owed, TypeOK, Live, NoFn,
     ArgIsCallback, HasArg, AloneInMap, MapOp
<1> QED
  BY <1>1, <1>2, <1>3, <1>4, <1>5, <1>6, <1>7, <1>8 DEF IndInv

(* It returns.                                                             *)
LEMMA LeaveKeeps ==
    ASSUME IndInv, NEW t \in Thread, Leave(t)
    PROVE  IndInv'
<1>1. TypeOK'
  BY CallFunctionsAssumption DEF IndInv, Leave, TypeOK,  Pc, MapOp, Entry, FnState, NoFn
<1>2. ArgIsCallback'
  BY CallFunctionsAssumption DEF IndInv, Leave, ArgIsCallback, HasArg, MapOp, Live,
     FnState, Entry, NoFn, TypeOK
<1>3. MonitorHeld'
  BY CallFunctionsAssumption DEF IndInv, Leave, MonitorHeld, Inside, TypeOK, MapOp
<1>4. PhaseOfCalls'
  BY CallFunctionsAssumption DEF IndInv, Leave, PhaseOfCalls, Live, TypeOK, MonitorHeld,
     Inside, NoFn
<1>5. AloneInMap'
  BY CallFunctionsAssumption DEF IndInv, Leave, AloneInMap, TypeOK, MapOp, MonitorHeld, Inside
<1>6. UsesCounted'
  BY CallFunctionsAssumption DEF IndInv, Leave, UsesCounted, Deals, TypeOK, Live, NoFn,
     FnState, Entry, ArgIsCallback, HasArg
<1>7. SolesRegistered'
  BY CallFunctionsAssumption DEF IndInv, Leave, SolesRegistered, Registered, Sole, Deals,
     UsesCounted, TypeOK, Clearing, Live, NoFn, ArgIsCallback, HasArg, AloneInMap, PhaseOfCalls
<1>8. NoStaleEntry'
  BY CallFunctionsAssumption DEF IndInv, Leave, NoStaleEntry, Owed, TypeOK, Live, NoFn,
     ArgIsCallback, HasArg, AloneInMap, MapOp
<1> QED
  BY <1>1, <1>2, <1>3, <1>4, <1>5, <1>6, <1>7, <1>8 DEF IndInv

(* The function is freed; the thread has still to remove the callback.     *)
LEMMA FinalizeKeeps ==
    ASSUME IndInv, NEW t \in Thread, NEW f \in Fn, Finalize(t, f)
    PROVE  IndInv'
<1>1. TypeOK'
  BY CallFunctionsAssumption DEF IndInv, Finalize, Begin, TypeOK,  Pc, MapOp, Entry, FnState, NoFn
<1>2. ArgIsCallback'
  BY CallFunctionsAssumption DEF IndInv, Finalize, Begin, ArgIsCallback, HasArg, MapOp,
     Live, FnState, Entry, NoFn, TypeOK
<1>3. MonitorHeld'
  BY CallFunctionsAssumption DEF IndInv, Finalize, Begin, MonitorHeld, Inside, TypeOK, MapOp
<1>4. PhaseOfCalls'
  BY CallFunctionsAssumption DEF IndInv, Finalize, Begin, PhaseOfCalls, Live, TypeOK,
     MonitorHeld, Inside, NoFn
<1>5. AloneInMap'
  BY CallFunctionsAssumption DEF IndInv, Finalize, Begin, AloneInMap, TypeOK, MapOp,
     MonitorHeld, Inside
<1>6. UsesCounted'
  BY CallFunctionsAssumption DEF IndInv, Finalize, Begin, UsesCounted, Deals, TypeOK, Live,
     NoFn, FnState, Entry, ArgIsCallback, HasArg
<1>7. SolesRegistered'
  BY CallFunctionsAssumption DEF IndInv, Finalize, Begin, SolesRegistered, Registered,
     Sole, Deals, UsesCounted, TypeOK, Clearing, Live, NoFn, ArgIsCallback, HasArg,
     AloneInMap, PhaseOfCalls
<1>8. NoStaleEntry'
  BY CallFunctionsAssumption DEF IndInv, Finalize, Begin, NoStaleEntry, Owed, TypeOK, Live,
     NoFn, ArgIsCallback, HasArg, AloneInMap, MapOp
<1> QED
  BY <1>1, <1>2, <1>3, <1>4, <1>5, <1>6, <1>7, <1>8 DEF IndInv

(* It is removed: no function of a sole callback can be left.              *)
LEMMA RemoveEndKeeps ==
    ASSUME IndInv, NEW t \in Thread, RemoveEnd(t)
    PROVE  IndInv'
<1>1. TypeOK'
  BY CallFunctionsAssumption DEF IndInv, RemoveEnd, Commit, TypeOK,  Pc, MapOp, Entry, FnState, NoFn
<1>2. ArgIsCallback'
  BY CallFunctionsAssumption DEF IndInv, RemoveEnd, Commit, ArgIsCallback, HasArg, MapOp,
     Live, FnState, Entry, NoFn, TypeOK
<1>3. MonitorHeld'
  BY CallFunctionsAssumption DEF IndInv, RemoveEnd, Commit, MonitorHeld, Inside, TypeOK, MapOp
<1>4. PhaseOfCalls'
  BY CallFunctionsAssumption DEF IndInv, RemoveEnd, Commit, PhaseOfCalls, Live, TypeOK,
     MonitorHeld, Inside, NoFn
<1>5. AloneInMap'
  BY CallFunctionsAssumption DEF IndInv, RemoveEnd, Commit, AloneInMap, TypeOK, MapOp,
     MonitorHeld, Inside
<1>6. UsesCounted'
  BY CallFunctionsAssumption DEF IndInv, RemoveEnd, Commit, UsesCounted, Deals, TypeOK,
     Live, NoFn, FnState, Entry, ArgIsCallback, HasArg
<1>7. SolesRegistered'
  BY CallFunctionsAssumption DEF IndInv, RemoveEnd, Commit, SolesRegistered, Registered,
     Sole, Deals, UsesCounted, TypeOK, Clearing, Live, NoFn, ArgIsCallback, HasArg,
     AloneInMap, PhaseOfCalls
<1>8. NoStaleEntry'
  BY CallFunctionsAssumption DEF IndInv, RemoveEnd, Commit, NoStaleEntry, Owed, TypeOK,
     Live, NoFn, ArgIsCallback, HasArg, AloneInMap, MapOp
<1> QED
  BY <1>1, <1>2, <1>3, <1>4, <1>5, <1>6, <1>7, <1>8 DEF IndInv

(* A script calls a function.                                              *)
LEMMA JsFuncCallKeeps ==
    ASSUME IndInv, NEW t \in Thread, NEW f \in Fn, JsFuncCall(t, f)
    PROVE  IndInv'
<1>1. TypeOK'
  BY CallFunctionsAssumption DEF IndInv, JsFuncCall, Begin, TypeOK,  Pc, MapOp, Entry, FnState, NoFn
<1>2. ArgIsCallback'
  BY CallFunctionsAssumption DEF IndInv, JsFuncCall, Begin, ArgIsCallback, HasArg, MapOp,
     Live, FnState, Entry, NoFn, TypeOK
<1>3. MonitorHeld'
  BY CallFunctionsAssumption DEF IndInv, JsFuncCall, Begin, MonitorHeld, Inside, TypeOK, MapOp
<1>4. PhaseOfCalls'
  BY CallFunctionsAssumption DEF IndInv, JsFuncCall, Begin, PhaseOfCalls, Live, TypeOK,
     MonitorHeld, Inside, NoFn
<1>5. AloneInMap'
  BY CallFunctionsAssumption DEF IndInv, JsFuncCall, Begin, AloneInMap, TypeOK, MapOp,
     MonitorHeld, Inside
<1>6. UsesCounted'
  BY CallFunctionsAssumption DEF IndInv, JsFuncCall, Begin, UsesCounted, Deals, TypeOK,
     Live, NoFn, FnState, Entry, ArgIsCallback, HasArg
<1>7. SolesRegistered'
  BY CallFunctionsAssumption DEF IndInv, JsFuncCall, Begin, SolesRegistered, Registered,
     Sole, Deals, UsesCounted, TypeOK, Clearing, Live, NoFn, ArgIsCallback, HasArg,
     AloneInMap, PhaseOfCalls
<1>8. NoStaleEntry'
  BY CallFunctionsAssumption DEF IndInv, JsFuncCall, Begin, NoStaleEntry, Owed, TypeOK,
     Live, NoFn, ArgIsCallback, HasArg, AloneInMap, MapOp
<1> QED
  BY <1>1, <1>2, <1>3, <1>4, <1>5, <1>6, <1>7, <1>8 DEF IndInv

(* The callback is looked up.                                              *)
LEMMA CallFunctionBackKeeps ==
    ASSUME IndInv, NEW t \in Thread, CallFunctionBack(t)
    PROVE  IndInv'
<1>1. TypeOK'
  BY CallFunctionsAssumption DEF IndInv, CallFunctionBack, TypeOK,  Pc, MapOp, Entry, FnState, NoFn
<1>2. ArgIsCallback'
  BY CallFunctionsAssumption DEF IndInv, CallFunctionBack, ArgIsCallback, HasArg, MapOp,
     Live, FnState, Entry, NoFn, TypeOK
<1>3. MonitorHeld'
  BY CallFunctionsAssumption DEF IndInv, CallFunctionBack, MonitorHeld, Inside, TypeOK, MapOp
<1>4. PhaseOfCalls'
  BY CallFunctionsAssumption DEF IndInv, CallFunctionBack, PhaseOfCalls, Live, TypeOK,
     MonitorHeld, Inside, NoFn
<1>5. AloneInMap'
  BY CallFunctionsAssumption DEF IndInv, CallFunctionBack, AloneInMap, TypeOK, MapOp,
     MonitorHeld, Inside
<1>6. UsesCounted'
  BY CallFunctionsAssumption DEF IndInv, CallFunctionBack, UsesCounted, Deals, TypeOK,
     Live, NoFn, FnState, Entry, ArgIsCallback, HasArg
<1>7. SolesRegistered'
  BY CallFunctionsAssumption DEF IndInv, CallFunctionBack, SolesRegistered, Registered,
     Sole, Deals, UsesCounted, TypeOK, Clearing, Live, NoFn, ArgIsCallback, HasArg,
     AloneInMap, PhaseOfCalls
<1>8. NoStaleEntry'
  BY CallFunctionsAssumption DEF IndInv, CallFunctionBack, NoStaleEntry, Owed, TypeOK,
     Live, NoFn, ArgIsCallback, HasArg, AloneInMap, MapOp
<1> QED
  BY <1>1, <1>2, <1>3, <1>4, <1>5, <1>6, <1>7, <1>8 DEF IndInv

(* The callback returns.                                                   *)
LEMMA ReturnKeeps ==
    ASSUME IndInv, NEW t \in Thread, Return(t)
    PROVE  IndInv'
<1>1. TypeOK'
  BY CallFunctionsAssumption DEF IndInv, Return, TypeOK,  Pc, MapOp, Entry, FnState, NoFn
<1>2. ArgIsCallback'
  BY CallFunctionsAssumption DEF IndInv, Return, ArgIsCallback, HasArg, MapOp, Live,
     FnState, Entry, NoFn, TypeOK
<1>3. MonitorHeld'
  BY CallFunctionsAssumption DEF IndInv, Return, MonitorHeld, Inside, TypeOK, MapOp
<1>4. PhaseOfCalls'
  BY CallFunctionsAssumption DEF IndInv, Return, PhaseOfCalls, Live, TypeOK, MonitorHeld,
     Inside, NoFn
<1>5. AloneInMap'
  BY CallFunctionsAssumption DEF IndInv, Return, AloneInMap, TypeOK, MapOp, MonitorHeld, Inside
<1>6. UsesCounted'
  BY CallFunctionsAssumption DEF IndInv, Return, UsesCounted, Deals, TypeOK, Live, NoFn,
     FnState, Entry, ArgIsCallback, HasArg
<1>7. SolesRegistered'
  BY CallFunctionsAssumption DEF IndInv, Return, SolesRegistered, Registered, Sole, Deals,
     UsesCounted, TypeOK, Clearing, Live, NoFn, ArgIsCallback, HasArg, AloneInMap, PhaseOfCalls
<1>8. NoStaleEntry'
  BY CallFunctionsAssumption DEF IndInv, Return, NoStaleEntry, Owed, TypeOK, Live, NoFn,
     ArgIsCallback, HasArg, AloneInMap, MapOp
<1> QED
  BY <1>1, <1>2, <1>3, <1>4, <1>5, <1>6, <1>7, <1>8 DEF IndInv

(* It returns a callback, which is put into the map.                       *)
LEMMA ReturnCallbackKeeps ==
    ASSUME IndInv, NEW t \in Thread, NEW c \in Callback, ReturnCallback(t, c)
    PROVE  IndInv'
<1>1. TypeOK'
  BY CallFunctionsAssumption DEF IndInv, ReturnCallback, Use, Begin, TypeOK,  Pc, MapOp,
     Entry, FnState, NoFn
<1>2. ArgIsCallback'
  BY CallFunctionsAssumption DEF IndInv, ReturnCallback, Use, Begin, ArgIsCallback, HasArg,
     MapOp, Live, FnState, Entry, NoFn, TypeOK
<1>3. MonitorHeld'
  BY CallFunctionsAssumption DEF IndInv, ReturnCallback, Use, Begin, MonitorHeld, Inside,
     TypeOK, MapOp
<1>4. PhaseOfCalls'
  BY CallFunctionsAssumption DEF IndInv, ReturnCallback, Use, Begin, PhaseOfCalls, Live,
     TypeOK, MonitorHeld, Inside, NoFn
<1>5. AloneInMap'
  BY CallFunctionsAssumption DEF IndInv, ReturnCallback, Use, Begin, AloneInMap, TypeOK,
     MapOp, MonitorHeld, Inside
<1>6. UsesCounted'
  BY CallFunctionsAssumption DEF IndInv, ReturnCallback, Use, Begin, UsesCounted, Deals,
     TypeOK, Live, NoFn, FnState, Entry, ArgIsCallback, HasArg
<1>7. SolesRegistered'
  BY CallFunctionsAssumption DEF IndInv, ReturnCallback, Use, Begin, SolesRegistered,
     Registered, Sole, Deals, UsesCounted, TypeOK, Clearing, Live, NoFn, ArgIsCallback,
     HasArg, AloneInMap, PhaseOfCalls
<1>8. NoStaleEntry'
  BY CallFunctionsAssumption DEF IndInv, ReturnCallback, Use, Begin, NoStaleEntry, Owed,
     TypeOK, Live, NoFn, ArgIsCallback, HasArg, AloneInMap, MapOp
<1> QED
  BY <1>1, <1>2, <1>3, <1>4, <1>5, <1>6, <1>7, <1>8 DEF IndInv

(* destroy begins.                                                         *)
LEMMA ClearKeeps ==
    ASSUME IndInv, NEW t \in Thread, Clear(t)
    PROVE  IndInv'
<1>1. TypeOK'
  BY CallFunctionsAssumption DEF IndInv, Clear, Begin, TypeOK,  Pc, MapOp, Entry, FnState, NoFn
<1>2. ArgIsCallback'
  BY CallFunctionsAssumption DEF IndInv, Clear, Begin, ArgIsCallback, HasArg, MapOp, Live,
     FnState, Entry, NoFn, TypeOK
<1>3. MonitorHeld'
  BY CallFunctionsAssumption DEF IndInv, Clear, Begin, MonitorHeld, Inside, TypeOK, MapOp
<1>4. PhaseOfCalls'
  BY CallFunctionsAssumption DEF IndInv, Clear, Begin, PhaseOfCalls, Live, TypeOK,
     MonitorHeld, Inside, NoFn
<1>5. AloneInMap'
  BY CallFunctionsAssumption DEF IndInv, Clear, Begin, AloneInMap, TypeOK, MapOp,
     MonitorHeld, Inside
<1>6. UsesCounted'
  BY CallFunctionsAssumption DEF IndInv, Clear, Begin, UsesCounted, Deals, TypeOK, Live,
     NoFn, FnState, Entry, ArgIsCallback, HasArg
<1>7. SolesRegistered'
  BY CallFunctionsAssumption DEF IndInv, Clear, Begin, SolesRegistered, Registered, Sole,
     Deals, UsesCounted, TypeOK, Clearing, Live, NoFn, ArgIsCallback, HasArg, AloneInMap,
     PhaseOfCalls
<1>8. NoStaleEntry'
  BY CallFunctionsAssumption DEF IndInv, Clear, Begin, NoStaleEntry, Owed, TypeOK, Live,
     NoFn, ArgIsCallback, HasArg, AloneInMap, MapOp
<1> QED
  BY <1>1, <1>2, <1>3, <1>4, <1>5, <1>6, <1>7, <1>8 DEF IndInv

(* The map is empty.                                                       *)
LEMMA ClearEndKeeps ==
    ASSUME IndInv, NEW t \in Thread, ClearEnd(t)
    PROVE  IndInv'
<1>1. TypeOK'
  BY CallFunctionsAssumption DEF IndInv, ClearEnd, Commit, TypeOK,  Pc, MapOp, Entry, FnState, NoFn
<1>2. ArgIsCallback'
  BY CallFunctionsAssumption DEF IndInv, ClearEnd, Commit, ArgIsCallback, HasArg, MapOp,
     Live, FnState, Entry, NoFn, TypeOK
<1>3. MonitorHeld'
  BY CallFunctionsAssumption DEF IndInv, ClearEnd, Commit, MonitorHeld, Inside, TypeOK, MapOp
<1>4. PhaseOfCalls'
  BY CallFunctionsAssumption DEF IndInv, ClearEnd, Commit, PhaseOfCalls, Live, TypeOK,
     MonitorHeld, Inside, NoFn
<1>5. AloneInMap'
  BY CallFunctionsAssumption DEF IndInv, ClearEnd, Commit, AloneInMap, TypeOK, MapOp,
     MonitorHeld, Inside
<1>6. UsesCounted'
  BY CallFunctionsAssumption DEF IndInv, ClearEnd, Commit, UsesCounted, Deals, TypeOK,
     Live, NoFn, FnState, Entry, ArgIsCallback, HasArg
<1>7. SolesRegistered'
  BY CallFunctionsAssumption DEF IndInv, ClearEnd, Commit, SolesRegistered, Registered,
     Sole, Deals, UsesCounted, TypeOK, Clearing, Live, NoFn, ArgIsCallback, HasArg,
     AloneInMap, PhaseOfCalls
<1>8. NoStaleEntry'
  BY CallFunctionsAssumption DEF IndInv, ClearEnd, Commit, NoStaleEntry, Owed, TypeOK,
     Live, NoFn, ArgIsCallback, HasArg, AloneInMap, MapOp
<1> QED
  BY <1>1, <1>2, <1>3, <1>4, <1>5, <1>6, <1>7, <1>8 DEF IndInv

(* destroyContext is entered.                                              *)
LEMMA DestroyContextKeeps ==
    ASSUME IndInv, NEW t \in Thread, DestroyContext(t)
    PROVE  IndInv'
<1>1. TypeOK'
  BY CallFunctionsAssumption DEF IndInv, DestroyContext, TypeOK,  Pc, MapOp, Entry, FnState, NoFn
<1>2. ArgIsCallback'
  BY CallFunctionsAssumption DEF IndInv, DestroyContext, ArgIsCallback, HasArg, MapOp,
     Live, FnState, Entry, NoFn, TypeOK
<1>3. MonitorHeld'
  BY CallFunctionsAssumption DEF IndInv, DestroyContext, MonitorHeld, Inside, TypeOK, MapOp
<1>4. PhaseOfCalls'
  BY CallFunctionsAssumption DEF IndInv, DestroyContext, PhaseOfCalls, Live, TypeOK,
     MonitorHeld, Inside, NoFn
<1>5. AloneInMap'
  BY CallFunctionsAssumption DEF IndInv, DestroyContext, AloneInMap, TypeOK, MapOp,
     MonitorHeld, Inside
<1>6. UsesCounted'
  BY CallFunctionsAssumption DEF IndInv, DestroyContext, UsesCounted, Deals, TypeOK, Live,
     NoFn, FnState, Entry, ArgIsCallback, HasArg
<1>7. SolesRegistered'
  BY CallFunctionsAssumption DEF IndInv, DestroyContext, SolesRegistered, Registered, Sole,
     Deals, UsesCounted, TypeOK, Clearing, Live, NoFn, ArgIsCallback, HasArg, AloneInMap,
     PhaseOfCalls
<1>8. NoStaleEntry'
  BY CallFunctionsAssumption DEF IndInv, DestroyContext, NoStaleEntry, Owed, TypeOK, Live,
     NoFn, ArgIsCallback, HasArg, AloneInMap, MapOp
<1> QED
  BY <1>1, <1>2, <1>3, <1>4, <1>5, <1>6, <1>7, <1>8 DEF IndInv

(* It has freed every function.                                            *)
LEMMA DestroyedKeeps ==
    ASSUME IndInv, NEW t \in Thread, Destroyed(t)
    PROVE  IndInv'
<1>1. TypeOK'
  BY CallFunctionsAssumption DEF IndInv, Destroyed, TypeOK,  Pc, MapOp, Entry, FnState, NoFn
<1>2. ArgIsCallback'
  BY CallFunctionsAssumption DEF IndInv, Destroyed, ArgIsCallback, HasArg, MapOp, Live,
     FnState, Entry, NoFn, TypeOK
<1>3. MonitorHeld'
  BY CallFunctionsAssumption DEF IndInv, Destroyed, MonitorHeld, Inside, TypeOK, MapOp
<1>4. PhaseOfCalls'
  BY CallFunctionsAssumption DEF IndInv, Destroyed, PhaseOfCalls, Live, TypeOK,
     MonitorHeld, Inside, NoFn
<1>5. AloneInMap'
  BY CallFunctionsAssumption DEF IndInv, Destroyed, AloneInMap, TypeOK, MapOp, MonitorHeld, Inside
<1>6. UsesCounted'
  BY CallFunctionsAssumption DEF IndInv, Destroyed, UsesCounted, Deals, TypeOK, Live, NoFn,
     FnState, Entry, ArgIsCallback, HasArg
<1>7. SolesRegistered'
  BY CallFunctionsAssumption DEF IndInv, Destroyed, SolesRegistered, Registered, Sole,
     Deals, UsesCounted, TypeOK, Clearing, Live, NoFn, ArgIsCallback, HasArg, AloneInMap,
     PhaseOfCalls
<1>8. NoStaleEntry'
  BY CallFunctionsAssumption DEF IndInv, Destroyed, NoStaleEntry, Owed, TypeOK, Live, NoFn,
     ArgIsCallback, HasArg, AloneInMap, MapOp
<1> QED
  BY <1>1, <1>2, <1>3, <1>4, <1>5, <1>6, <1>7, <1>8 DEF IndInv

---------------------------------------------------------------------------
(* The inductive invariant holds in the beginning ...                      *)
LEMMA InitHolds == Init => IndInv
<1> SUFFICES ASSUME Init PROVE IndInv
  OBVIOUS
<1>1. TypeOK
  <2>1. 0 \in 0 .. MaxUse
    BY CallFunctionsAssumption
  <2>2. NoFn \in FnState
    BY DEF NoFn, FnState, Entry
  <2> QED
    BY <2>1, <2>2 DEF Init, TypeOK, Pc, MapOp, Entry
<1>2. ArgIsCallback /\ MonitorHeld /\ PhaseOfCalls /\ AloneInMap
  BY CallFunctionsAssumption
     DEF Init, ArgIsCallback, HasArg, MonitorHeld, Inside, PhaseOfCalls, AloneInMap, MapOp
<1>3. UsesCounted /\ SolesRegistered
  BY CallFunctionsAssumption
     DEF Init, UsesCounted, Deals, NoFn, SolesRegistered, Registered
<1>4. NoStaleEntry
  BY DEF Init, NoStaleEntry
<1> QED
  BY <1>1, <1>2, <1>3, <1>4 DEF IndInv

(* ... and every step keeps it.                                            *)
LEMMA StepKeeps == IndInv /\ [Next]_vars => IndInv'
<1>1. ASSUME IndInv, UNCHANGED vars PROVE IndInv'
  <2> USE <1>1 DEF vars, IndInv
  <2>1. TypeOK' /\ ArgIsCallback' /\ MonitorHeld' /\ AloneInMap'
    BY DEF TypeOK, ArgIsCallback, MonitorHeld, AloneInMap
  <2>2. PhaseOfCalls'
    BY DEF PhaseOfCalls, Live
  <2>3. UsesCounted'
    BY DEF UsesCounted, Deals
  <2>4. SolesRegistered'
    BY DEF SolesRegistered, Registered, Sole, Clearing
  <2>5. NoStaleEntry'
    BY DEF NoStaleEntry, Owed, Live
  <2> QED
    BY <2>1, <2>2, <2>3, <2>4, <2>5
<1>2. ASSUME IndInv, Next PROVE IndInv'
  BY <1>2, PassKeeps, PutEndKeeps, MakeKeeps, CallFailsKeeps, ArraySetKeeps, EnterKeeps,
     LeaveKeeps, FinalizeKeeps, RemoveEndKeeps, JsFuncCallKeeps, CallFunctionBackKeeps,
     ReturnKeeps, ReturnCallbackKeeps, ClearKeeps, ClearEndKeeps, DestroyContextKeeps,
     DestroyedKeeps DEF Next
<1> QED
  BY <1>1, <1>2

(* So it always holds.                                                     *)
THEOREM Invariance == Spec => []IndInv
  BY InitHolds, StepKeeps, PTL DEF Spec

(* Every variable always has its type.                                     *)
THEOREM TypeCorrect == Spec => []TypeOK
<1>1. IndInv => TypeOK
  BY DEF IndInv
<1> QED
  BY <1>1, Invariance, PTL

(* Whatever other threads and callbacks do, a callback that was passed to  *)
(* scripts once, under an id of its own, is found in callFunctionMap as    *)
(* long as its function lives.                                             *)
THEOREM SoleCallbacksFound == Spec => []SoleCallbackRegistered
<1>1. IndInv => SoleCallbackRegistered
  <2> SUFFICES ASSUME IndInv, phase = "running", ~Clearing, ~raced,
                      NEW f \in Fn, Live(f), fn[f].made, Sole(fn[f].cb)
               PROVE  callFunctionMap[hash[fn[f].cb]] = fn[f].cb
    BY DEF SoleCallbackRegistered
  <2>1. fn[f].cb \in Callback
    BY DEF IndInv, TypeOK, FnState, Entry, Live
  <2> QED
    BY <2>1 DEF IndInv, SolesRegistered, Registered
<1> QED
  BY <1>1, Invariance, PTL

(* Every entry of callFunctionMap has somebody who will remove it, or was  *)
(* left by a call that failed.                                             *)
THEOREM EntriesAccountedFor == Spec => []NoStaleEntry
<1>1. IndInv => NoStaleEntry
  BY DEF IndInv
<1> QED
  BY <1>1, Invariance, PTL

(* After destroy the map holds nothing but what calls that overlapped it   *)
(* have put there.                                                         *)
THEOREM MapEmptied == Spec => []DestroyEmptiesMap
<1>1. IndInv => DestroyEmptiesMap
  <2> SUFFICES ASSUME IndInv, phase = "destroyed", ~raced,
                      NEW i \in Id, callFunctionMap[i] # NoCallback
               PROVE  i \in orphan \/ \E t \in Thread : pc[t] = "enter" /\ hash[arg[t]] = i
    BY DEF DestroyEmptiesMap
  <2>1. Owed(i)
    BY DEF IndInv, NoStaleEntry
  <2>2. \A f \in Fn : ~Live(f)
    BY DEF IndInv, PhaseOfCalls
  <2>3. \A t \in Thread : pc[t] \notin {"make", "remove"}
    BY DEF IndInv, PhaseOfCalls
  <2> QED
    BY <2>1, <2>2, <2>3 DEF Owed
<1> QED
  BY <1>1, Invariance, PTL
=============================================================================
