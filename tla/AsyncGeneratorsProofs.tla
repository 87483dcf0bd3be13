------------------------ MODULE AsyncGeneratorsProofs ------------------------
(* Proofs about AsyncGenerators, for any number of requests.               *)
EXTENDS AsyncGenerators, SequenceTheorems, TLAPS

Generator == [state : State, queue : Seq(Request), freed : Nat, answers : Seq(Answer)]
Kind      == {"value", "done", "reject"}
Carriers  == [{"body", "await", "return"} -> Nat]

(* The requests up to c are those that were answered and those queued, in  *)
(* this order; and no value comes after the end.                           *)
InOrder(g, c) ==
    /\ Len(g.queue) = c - Len(g.answers)
    /\ \A i \in 1 .. Len(g.queue) : g.queue[i].id = Len(g.answers) + i
    /\ \A i \in 1 .. Len(g.answers) : g.answers[i].id = i
    /\ \A i \in 1 .. Len(g.answers) - 1 :
          g.answers[i].kind # "value" => g.answers[i + 1].kind # "value"

Ended(g) == g.state \in {"COMPLETED", "AWAITING_RETURN"}

(* A generator that gave anything but a value has come to its end.         *)
LastMeansEnd(g) ==
    Len(g.answers) > 0 /\ g.answers[Len(g.answers)].kind # "value" => Ended(g)

FreedAtEnd(g) == g.freed = IF Ended(g) THEN 1 ELSE 0

Good(g, c) == g \in Generator /\ InOrder(g, c) /\ LastMeansEnd(g) /\ FreedAtEnd(g)

(* A generator whose js_promise_resolve failed stays where it was.         *)
LostIsStuck == lost => gen.state \in {"EXECUTING", "AWAITING_RETURN"}

IndInv ==
    /\ TypeOK
    /\ Good(gen, count)
    /\ OneCarrier
    /\ LostIsStuck

---------------------------------------------------------------------------
(* js_async_generator_resolve_or_reject takes the oldest request from the  *)
(* queue and answers it.                                                   *)
LEMMA AnsweredInOrder ==
    ASSUME NEW g \in Generator, NEW c \in 0 .. MaxRequests, InOrder(g, c), g.queue # <<>>,
           NEW kind \in Kind,
           kind = "value" =>
               (Len(g.answers) > 0 => g.answers[Len(g.answers)].kind = "value")
    PROVE  /\ Answered(g, kind) \in Generator
           /\ InOrder(Answered(g, kind), c)
           /\ Answered(g, kind).state = g.state
           /\ Answered(g, kind).freed = g.freed
           /\ Len(Answered(g, kind).answers) > 0
           /\ Answered(g, kind).answers[Len(Answered(g, kind).answers)].kind = kind
<1> DEFINE a == [id |-> Head(g.queue).id, kind |-> kind]
           q == Tail(g.queue)
           s == Append(g.answers, a)
           n == Len(g.answers)
<1>1. g.queue \in Seq(Request) /\ g.answers \in Seq(Answer) /\ g.state \in State /\ g.freed \in Nat
  BY DEF Generator
<1>2. n \in Nat /\ Len(g.queue) \in Nat /\ Len(g.queue) > 0
  BY <1>1
<1>3. g.queue[1] \in Request /\ a = [id |-> n + 1, kind |-> kind]
  BY <1>1, <1>2 DEF InOrder
<1>4. a \in Answer
  BY <1>3 DEF Request, Answer, Kind
<1>5. /\ q \in Seq(Request) /\ Len(q) = Len(g.queue) - 1
      /\ \A i \in 1 .. Len(q) : q[i] = g.queue[i + 1]
  BY <1>1, <1>2
<1>6. /\ s \in Seq(Answer) /\ Len(s) = n + 1 /\ s[n + 1] = a
      /\ \A i \in 1 .. n : s[i] = g.answers[i]
  BY <1>1, <1>4
<1> DEFINE h == Answered(g, kind)
<1>7. h.queue = q /\ h.answers = s /\ h.state = g.state /\ h.freed = g.freed
  BY DEF Answered, Generator
<1>8. h \in Generator
  BY <1>5, <1>6 DEF Answered, Generator
<1> HIDE DEF a, q, s, n, h
<1>0. c \in Nat /\ Len(g.queue) = c - n
  BY MaxRequestsAssumption DEF InOrder, n
<1>9. Len(h.queue) = c - Len(h.answers)
  BY <1>0, <1>2, <1>5, <1>6, <1>7
<1>10. \A i \in 1 .. Len(h.queue) : h.queue[i].id = Len(h.answers) + i
  <2> SUFFICES ASSUME NEW i \in 1 .. Len(q)
               PROVE  q[i].id = n + 1 + i
    BY <1>6, <1>7
  <2>1. i + 1 \in 1 .. Len(g.queue)
    BY <1>2, <1>5
  <2>2. g.queue[i + 1].id = n + (i + 1)
    BY <2>1 DEF InOrder, n
  <2> QED
    BY <2>2, <1>2, <1>5
<1>11. \A i \in 1 .. Len(h.answers) : h.answers[i].id = i
  BY <1>2, <1>3, <1>6, <1>7, SMTT(30) DEF InOrder, n
<1>12. \A i \in 1 .. Len(h.answers) - 1 :
          h.answers[i].kind # "value" => h.answers[i + 1].kind # "value"
  <2> SUFFICES ASSUME NEW i \in 1 .. n, s[i].kind # "value"
               PROVE  s[i + 1].kind # "value"
    BY <1>2, <1>6, <1>7
  <2>1. CASE i = n
    BY <2>1, <1>2, <1>3, <1>6 DEF n
  <2>2. CASE i # n
    <3>1. i \in 1 .. n - 1 /\ i + 1 \in 1 .. n
      BY <2>2, <1>2
    <3> QED
      BY <3>1, <1>6 DEF InOrder, n
  <2> QED
    BY <2>1, <2>2
<1>13. InOrder(h, c)
  BY <1>9, <1>10, <1>11, <1>12 DEF InOrder
<1>14. Len(h.answers) > 0 /\ h.answers[Len(h.answers)].kind = kind
  BY <1>2, <1>3, <1>6, <1>7
<1> QED
  BY <1>7, <1>8, <1>13, <1>14 DEF h

(* A request that comes in is the last of the queue.                       *)
LEMMA QueuedInOrder ==
    ASSUME NEW g \in Generator, NEW c \in 0 .. MaxRequests, c < MaxRequests, Good(g, c),
           NEW type \in {"next", "return", "throw"}
    PROVE  LET h == [g EXCEPT !.queue = Append(@, [id |-> c + 1, type |-> type])]
           IN  Good(h, c + 1) /\ h.queue # <<>> /\ h.state = g.state
<1> DEFINE r == [id |-> c + 1, type |-> type]
           q == Append(g.queue, r)
           n == Len(g.answers)
           m == Len(g.queue)
           h == [g EXCEPT !.queue = q]
<1>1. g.queue \in Seq(Request) /\ g.answers \in Seq(Answer) /\ g.state \in State /\ g.freed \in Nat
  BY DEF Generator
<1>2. n \in Nat /\ m \in Nat /\ m = c - n /\ c \in Nat
  <2>1. n \in Nat /\ m \in Nat
    BY <1>1
  <2>2. c \in Nat
    BY MaxRequestsAssumption
  <2> QED
    BY <2>1, <2>2 DEF Good, InOrder
<1>3. r \in Request /\ r.id = c + 1
  BY MaxRequestsAssumption DEF Request
<1>4. /\ q \in Seq(Request) /\ Len(q) = m + 1 /\ q[m + 1] = r
      /\ \A i \in 1 .. m : q[i] = g.queue[i]
  BY <1>1, <1>3
<1>6. h \in Generator
  BY <1>4 DEF Generator
<1>7. h.queue = q /\ h.answers = g.answers /\ h.state = g.state /\ h.freed = g.freed
  BY DEF Generator
<1> HIDE DEF r, q, n, m, h
<1>8. Len(h.queue) = c + 1 - Len(h.answers)
  BY <1>2, <1>4, <1>7 DEF n
<1>9. \A i \in 1 .. Len(h.queue) : h.queue[i].id = Len(h.answers) + i
  <2> SUFFICES ASSUME NEW i \in 1 .. m + 1
               PROVE  q[i].id = n + i
    BY <1>4, <1>7 DEF n
  <2>1. CASE i = m + 1
    BY <2>1, <1>2, <1>3, <1>4
  <2>2. CASE i # m + 1
    <3>1. i \in 1 .. m
      BY <2>2, <1>2
    <3> QED
      BY <3>1, <1>4 DEF Good, InOrder, m, n
  <2> QED
    BY <2>1, <2>2
<1>10. InOrder(h, c + 1)
  BY <1>7, <1>8, <1>9 DEF Good, InOrder
<1>11. LastMeansEnd(h) /\ FreedAtEnd(h)
  BY <1>7 DEF Good, LastMeansEnd, FreedAtEnd, Ended
<1>12. h.queue # <<>>
  BY <1>2, <1>4, <1>7
<1> QED
  BY <1>6, <1>7, <1>10, <1>11, <1>12 DEF Good, h, q, r

(* js_async_generator_complete frees the frame unless that was done.       *)
LEMMA CompleteIsGood ==
    ASSUME NEW g, NEW c, Good(g, c), g.state # "AWAITING_RETURN"
    PROVE  /\ Good(Complete(g), c)
           /\ Complete(g).state = "COMPLETED"
           /\ Complete(g).queue = g.queue
           /\ Complete(g).answers = g.answers
           /\ Complete(g).freed = 1
<1>1. g \in Generator /\ g.freed \in Nat
  BY DEF Good, Generator
<1>2. CASE g.state = "COMPLETED"
  BY <1>2 DEF Complete, Good, FreedAtEnd, Ended
<1>3. CASE g.state # "COMPLETED"
  <2> DEFINE h == [g EXCEPT !.state = "COMPLETED", !.freed = @ + 1]
  <2>1. Complete(g) = h
    BY <1>3 DEF Complete
  <2>2. g.freed = 0
    BY <1>3 DEF Good, FreedAtEnd, Ended
  <2>3. /\ h.state = "COMPLETED" /\ h.queue = g.queue
        /\ h.answers = g.answers /\ h.freed = 1
    BY <1>1, <2>2 DEF Generator
  <2>4. h \in Generator
    <3>1. "COMPLETED" \in State /\ g.freed + 1 \in Nat
      BY <1>1 DEF State
    <3> QED
      BY <1>1, <3>1 DEF Generator
  <2> HIDE DEF h
  <2>5. InOrder(h, c) /\ LastMeansEnd(h) /\ FreedAtEnd(h)
    BY <2>3 DEF Good, InOrder, LastMeansEnd, FreedAtEnd, Ended
  <2> QED
    BY <2>1, <2>3, <2>4, <2>5 DEF Good
<1> QED
  BY <1>2, <1>3

(* An ended generator that answers its oldest request is still good.       *)
LEMMA AnsweredIsGood ==
    ASSUME NEW g, NEW c \in 0 .. MaxRequests, Good(g, c), g.queue # <<>>,
           NEW kind \in Kind,
           IF kind = "value" THEN ~Ended(g) ELSE Ended(g)
    PROVE  /\ Good(Answered(g, kind), c)
           /\ Answered(g, kind).state = g.state
<1> DEFINE h == Answered(g, kind)
<1>1. g \in Generator /\ InOrder(g, c)
  BY DEF Good
<1>2. kind = "value" =>
         (Len(g.answers) > 0 => g.answers[Len(g.answers)].kind = "value")
  BY DEF Good, LastMeansEnd
<1>3. /\ h \in Generator /\ InOrder(h, c)
      /\ h.state = g.state /\ h.freed = g.freed
      /\ h.answers[Len(h.answers)].kind = kind
  BY <1>1, <1>2, AnsweredInOrder
<1> HIDE DEF h
<1>4. LastMeansEnd(h) /\ FreedAtEnd(h)
  BY <1>3 DEF Good, LastMeansEnd, FreedAtEnd, Ended
<1> QED
  BY <1>3, <1>4 DEF Good, h

(* Another state that is an end if and only if the old one is one changes  *)
(* nothing else.                                                           *)
LEMMA OtherStateIsGood ==
    ASSUME NEW g, NEW c, Good(g, c), NEW st \in State,
           st \in {"COMPLETED", "AWAITING_RETURN"} <=> Ended(g)
    PROVE  LET h == [g EXCEPT !.state = st]
           IN  Good(h, c) /\ h.state = st /\ h.queue = g.queue
<1> DEFINE h == [g EXCEPT !.state = st]
<1>1. g \in Generator
  BY DEF Good
<1>2. h \in Generator /\ h.state = st /\ h.queue = g.queue /\ h.answers = g.answers /\ h.freed = g.freed
  BY <1>1 DEF Generator
<1> HIDE DEF h
<1>3. InOrder(h, c) /\ LastMeansEnd(h) /\ FreedAtEnd(h)
  BY <1>2 DEF Good, InOrder, LastMeansEnd, FreedAtEnd, Ended
<1> QED
  BY <1>2, <1>3 DEF Good, h

(* What js_async_generator_resume_next needs of the generator it is called *)
(* for: nothing carries it on yet, or it waits for the value of a return.  *)
Ready(g, cs) ==
    /\ cs \in Carriers /\ cs["body"] = 0 /\ cs["await"] = 0
    /\ g.state = "EXECUTING" => g.queue # <<>>
    /\ IF g.state = "AWAITING_RETURN"
       THEN g.queue # <<>> /\ cs["return"] = IF lost THEN 0 ELSE 1
       ELSE ~lost /\ cs["return"] = 0

(* It leaves the generator as the invariant wants it.                      *)
LEMMA ResumeKeeps ==
    ASSUME NEW g, NEW c \in 0 .. MaxRequests, NEW cs, lost \in BOOLEAN,
           Good(g, c), Ready(g, cs), resume_next(g, cs)
    PROVE  /\ Good(gen', c) /\ carriers' \in Carriers /\ lost' \in BOOLEAN
           /\ OneCarrier' /\ LostIsStuck'
<1>1. g \in Generator /\ g.state \in State /\ g.queue \in Seq(Request)
  BY DEF Good, Generator
<1>2. CASE g.queue = <<>> \/ g.state = "AWAITING_RETURN"
  <2>1. gen' = g /\ carriers' = cs /\ lost' = lost
    BY <1>2 DEF resume_next
  <2> QED
    BY <1>2, <2>1 DEF Ready, OneCarrier, LostIsStuck, Carriers
<1>3. CASE g.queue # <<>> /\ g.state # "AWAITING_RETURN" /\ Runs(g)
  <2>1. RunHead(g, cs)
    BY <1>3 DEF resume_next
  <2>2. ~Ended(g)
    BY <1>3 DEF Runs, Ended
  <2>3. Good(gen', c) /\ gen'.state = "EXECUTING" /\ gen'.queue = g.queue
    BY <2>1, <2>2, OtherStateIsGood DEF RunHead, State
  <2>4. /\ carriers' \in Carriers /\ carriers'["body"] = 1
        /\ carriers'["await"] = 0 /\ carriers'["return"] = 0 /\ lost' = lost /\ ~lost
    BY <1>3, <2>1 DEF RunHead, More, Ready, Carriers
  <2> QED
    BY <1>3, <2>3, <2>4 DEF OneCarrier, LostIsStuck
<1>4. CASE g.queue # <<>> /\ g.state # "AWAITING_RETURN" /\ ~Runs(g)
  <2> DEFINE type == Head(g.queue).type
             d    == Complete(g)
  <2>1. ServeCompleted(g, cs)
    BY <1>4 DEF resume_next
  <2>2. /\ Good(d, c) /\ d.state = "COMPLETED" /\ d.queue = g.queue
    BY <1>4, CompleteIsGood
  <2>3. ~lost /\ cs["body"] = 0 /\ cs["await"] = 0 /\ cs["return"] = 0 /\ cs \in Carriers
    BY <1>4 DEF Ready
  <2>4. CASE type = "return"
    <3>1. gen' = [d EXCEPT !.state = "AWAITING_RETURN"] /\ WaitFor(cs, "return")
      BY <2>1, <2>4 DEF ServeCompleted
    <3> HIDE DEF d
    <3>2. Good(gen', c) /\ gen'.state = "AWAITING_RETURN" /\ gen'.queue = d.queue
      BY <3>1, <2>2, OtherStateIsGood DEF Ended, State
    <3>3. /\ carriers' \in Carriers /\ carriers'["body"] = 0 /\ carriers'["await"] = 0
          /\ lost' \in BOOLEAN /\ carriers'["return"] = IF lost' THEN 0 ELSE 1
      <4>1. CASE carriers' = More(cs, "return") /\ lost' = lost
        BY <4>1, <2>3 DEF More, Carriers
      <4>2. CASE carriers' = cs /\ lost' = TRUE
        BY <4>2, <2>3
      <4> QED
        BY <3>1, <4>1, <4>2 DEF WaitFor
    <3> QED
      BY <1>4, <2>2, <3>2, <3>3 DEF OneCarrier, LostIsStuck
  <2>5. CASE type # "return"
    <3> DEFINE kind == IF type = "next" THEN "done" ELSE "reject"
    <3>1. gen' = Answered(d, kind) /\ carriers' = cs /\ lost' = lost
      BY <2>1, <2>5 DEF ServeCompleted
    <3>2. kind \in Kind /\ kind # "value"
      BY DEF Kind
    <3> HIDE DEF d, kind
    <3>3. Good(gen', c) /\ gen'.state = "COMPLETED"
      BY <1>4, <2>2, <3>1, <3>2, AnsweredIsGood DEF Ended
    <3> QED
      BY <2>3, <3>1, <3>3 DEF OneCarrier, LostIsStuck
  <2> QED
    BY <2>4, <2>5
<1> QED
  BY <1>2, <1>3, <1>4 DEF resume_next

---------------------------------------------------------------------------
(* Less takes one carrier away.                                            *)
LEMMA OneLess ==
    ASSUME OneCarrier, carriers \in Carriers, lost \in BOOLEAN,
           NEW k \in {"body", "await", "return"}, carriers[k] > 0
    PROVE  /\ ~lost /\ gen.queue # <<>>
           /\ gen.state = IF k = "return" THEN "AWAITING_RETURN" ELSE "EXECUTING"
           /\ Less(carriers, k) \in Carriers
           /\ \A j \in {"body", "await", "return"} : Less(carriers, k)[j] = 0
<1>1. ~lost
  BY DEF OneCarrier, Carriers
<1>2. gen.state = IF k = "return" THEN "AWAITING_RETURN" ELSE "EXECUTING"
  BY <1>1 DEF OneCarrier, Carriers
<1>3. carriers[k] = 1 /\ \A j \in {"body", "await", "return"} \ {k} : carriers[j] = 0
  BY <1>1, <1>2 DEF OneCarrier, Carriers
<1>4. Less(carriers, k) \in Carriers /\ \A j \in {"body", "await", "return"} : Less(carriers, k)[j] = 0
  BY <1>3 DEF Less, Carriers
<1> QED
  BY <1>1, <1>2, <1>4 DEF OneCarrier

(* A request is queued, and served if the generator is idle.               *)
LEMMA NextKeeps ==
    ASSUME IndInv, NEW type \in {"next", "return", "throw"}, js_async_generator_next(type)
    PROVE  Good(gen', count') /\ count' \in 0 .. MaxRequests
           /\ carriers' \in Carriers /\ lost' \in BOOLEAN /\ OneCarrier' /\ LostIsStuck'
<1> DEFINE g == [gen EXCEPT !.queue = Append(@, [id |-> count + 1, type |-> type])]
<1>1. /\ gen \in Generator /\ count \in 0 .. MaxRequests /\ count < MaxRequests
      /\ carriers \in Carriers /\ lost \in BOOLEAN
  BY DEF IndInv, TypeOK, Generator, Carriers, js_async_generator_next
<1>2. count' = count + 1 /\ count + 1 \in 0 .. MaxRequests
  BY <1>1, MaxRequestsAssumption DEF js_async_generator_next
<1>3. Good(g, count + 1) /\ g.queue # <<>> /\ g.state = gen.state
  BY <1>1, QueuedInOrder DEF IndInv
<1>4. CASE gen.state = "EXECUTING"
  <2>1. gen' = g /\ carriers' = carriers /\ lost' = lost
    BY <1>4 DEF js_async_generator_next
  <2> HIDE DEF g
  <2> QED
    BY <1>1, <1>2, <1>3, <1>4, <2>1 DEF IndInv, OneCarrier, LostIsStuck
<1>5. CASE gen.state # "EXECUTING"
  <2>1. resume_next(g, carriers)
    BY <1>5 DEF js_async_generator_next
  <2> HIDE DEF g
  <2>2. Ready(g, carriers)
    BY <1>1, <1>3, <1>5 DEF Ready, IndInv, OneCarrier, LostIsStuck, Carriers
  <2> QED
    BY <1>1, <1>2, <1>3, <2>1, <2>2, ResumeKeeps
<1> QED
  BY <1>4, <1>5

(* The body yields: its request gets the value, and the next one makes it  *)
(* go on.                                                                  *)
LEMMA BodyYieldsKeeps ==
    ASSUME IndInv, NEW st \in {"SUSPENDED_YIELD", "SUSPENDED_YIELD_STAR"}, BodyYields(st)
    PROVE  Good(gen', count) /\ carriers' \in Carriers /\ lost' \in BOOLEAN
           /\ OneCarrier' /\ LostIsStuck'
<1> DEFINE a == Answered(gen, "value")
           g == [a EXCEPT !.state = st]
           cs == Less(carriers, "body")
<1>1. /\ count \in 0 .. MaxRequests /\ carriers \in Carriers /\ lost \in BOOLEAN
      /\ Good(gen, count) /\ OneCarrier /\ carriers["body"] > 0
  BY DEF IndInv, TypeOK, Carriers, BodyYields
<1>2. ~lost /\ gen.queue # <<>> /\ gen.state = "EXECUTING" /\ cs \in Carriers
      /\ cs["body"] = 0 /\ cs["await"] = 0 /\ cs["return"] = 0
  BY <1>1, OneLess
<1>3. Good(a, count) /\ a.state = "EXECUTING"
  BY <1>1, <1>2, AnsweredIsGood DEF Kind, Ended
<1> HIDE DEF a, cs
<1>4. Good(g, count) /\ g.state = st
  BY <1>3, OtherStateIsGood DEF Ended, State
<1>5. Ready(g, cs)
  BY <1>2, <1>4 DEF Ready
<1>6. resume_next(g, cs)
  BY DEF BodyYields, a, cs
<1> HIDE DEF g
<1> QED
  BY <1>1, <1>4, <1>5, <1>6, ResumeKeeps

(* The body ends: the generator completes and its request is answered.     *)
LEMMA BodyEndsKeeps ==
    ASSUME IndInv, NEW kind \in {"done", "reject"}, BodyEnds(kind)
    PROVE  Good(gen', count) /\ carriers' \in Carriers /\ lost' \in BOOLEAN
           /\ OneCarrier' /\ LostIsStuck'
<1> DEFINE d == Complete(gen)
           g == Answered(d, kind)
           cs == Less(carriers, "body")
<1>1. /\ count \in 0 .. MaxRequests /\ carriers \in Carriers /\ lost \in BOOLEAN
      /\ Good(gen, count) /\ OneCarrier /\ carriers["body"] > 0
  BY DEF IndInv, TypeOK, Carriers, BodyEnds
<1>2. ~lost /\ gen.queue # <<>> /\ gen.state = "EXECUTING" /\ cs \in Carriers
      /\ cs["body"] = 0 /\ cs["await"] = 0 /\ cs["return"] = 0
  BY <1>1, OneLess
<1>3. Good(d, count) /\ d.state = "COMPLETED" /\ d.queue # <<>>
  BY <1>1, <1>2, CompleteIsGood
<1> HIDE DEF d, cs
<1>4. Good(g, count) /\ g.state = "COMPLETED"
  BY <1>1, <1>3, AnsweredIsGood DEF Kind, Ended
<1>5. Ready(g, cs)
  BY <1>2, <1>4 DEF Ready
<1>6. resume_next(g, cs)
  BY DEF BodyEnds, d, cs
<1> HIDE DEF g
<1> QED
  BY <1>1, <1>4, <1>5, <1>6, ResumeKeeps

(* An await ends, and the body goes on.                                    *)
LEMMA AwaitJobKeeps ==
    ASSUME IndInv, AwaitJob
    PROVE  Good(gen', count) /\ carriers' \in Carriers /\ lost' \in BOOLEAN
           /\ OneCarrier' /\ LostIsStuck'
<1> DEFINE cs == Less(carriers, "await")
<1>1. /\ count \in 0 .. MaxRequests /\ carriers \in Carriers /\ lost \in BOOLEAN
      /\ Good(gen, count) /\ OneCarrier /\ carriers["await"] > 0
  BY DEF IndInv, TypeOK, Carriers, AwaitJob
<1>2. ~lost /\ gen.queue # <<>> /\ gen.state = "EXECUTING" /\ cs \in Carriers
      /\ cs["body"] = 0 /\ cs["await"] = 0 /\ cs["return"] = 0
  BY <1>1, OneLess
<1>3. resume_next(gen, cs)
  BY DEF AwaitJob
<1> HIDE DEF cs
<1>4. Ready(gen, cs)
  BY <1>2 DEF Ready
<1> QED
  BY <1>1, <1>3, <1>4, ResumeKeeps

(* The body begins to wait, or js_promise_resolve fails and nothing is     *)
(* left to carry it on.                                                    *)
LEMMA BodyAwaitsKeeps ==
    ASSUME IndInv, BodyAwaits
    PROVE  Good(gen', count) /\ carriers' \in Carriers /\ lost' \in BOOLEAN
           /\ OneCarrier' /\ LostIsStuck'
<1> DEFINE cs == Less(carriers, "body")
<1>1. /\ carriers \in Carriers /\ lost \in BOOLEAN
      /\ Good(gen, count) /\ OneCarrier /\ carriers["body"] > 0
  BY DEF IndInv, TypeOK, Carriers, BodyAwaits
<1>2. ~lost /\ gen.queue # <<>> /\ gen.state = "EXECUTING" /\ cs \in Carriers
      /\ cs["body"] = 0 /\ cs["await"] = 0 /\ cs["return"] = 0
  BY <1>1, OneLess
<1>3. gen' = gen /\ WaitFor(cs, "await")
  BY DEF BodyAwaits
<1> HIDE DEF cs
<1>4. CASE carriers' = More(cs, "await") /\ lost' = lost
  <2>1. /\ carriers' \in Carriers /\ carriers'["body"] = 0
        /\ carriers'["await"] = 1 /\ carriers'["return"] = 0
    BY <1>2, <1>4 DEF More, Carriers
  <2> QED
    BY <1>1, <1>2, <1>3, <1>4, <2>1 DEF OneCarrier, LostIsStuck
<1>5. CASE carriers' = cs /\ lost' = TRUE
  BY <1>1, <1>2, <1>3, <1>5 DEF OneCarrier, LostIsStuck
<1> QED
  BY <1>3, <1>4, <1>5 DEF WaitFor

(* The value of a return is there: the oldest request gets it.             *)
LEMMA ReturnJobKeeps ==
    ASSUME IndInv, NEW kind \in {"done", "reject"}, ReturnJob(kind)
    PROVE  Good(gen', count) /\ carriers' \in Carriers /\ lost' \in BOOLEAN
           /\ OneCarrier' /\ LostIsStuck'
<1> DEFINE d == [gen EXCEPT !.state = "COMPLETED"]
           cs == Less(carriers, "return")
<1>1. /\ count \in 0 .. MaxRequests /\ carriers \in Carriers /\ lost \in BOOLEAN
      /\ Good(gen, count) /\ OneCarrier /\ carriers["return"] > 0
  BY DEF IndInv, TypeOK, Carriers, ReturnJob
<1>2. ~lost /\ gen.queue # <<>> /\ gen.state = "AWAITING_RETURN" /\ cs \in Carriers
      /\ cs["body"] = 0 /\ cs["await"] = 0 /\ cs["return"] = 0
  BY <1>1, OneLess
<1>3. Good(d, count) /\ d.state = "COMPLETED" /\ d.queue # <<>>
  BY <1>1, <1>2, OtherStateIsGood DEF Ended, State
<1>4. gen' = Answered(d, kind) /\ carriers' = cs /\ lost' = lost
  BY DEF ReturnJob
<1> HIDE DEF d, cs
<1>5. Good(gen', count) /\ gen'.state = "COMPLETED"
  BY <1>1, <1>3, <1>4, AnsweredIsGood DEF Kind, Ended
<1> QED
  BY <1>1, <1>2, <1>4, <1>5 DEF OneCarrier, LostIsStuck

---------------------------------------------------------------------------
(* The inductive invariant holds in the beginning ...                      *)
LEMMA InitHolds == Init => IndInv
<1> SUFFICES ASSUME Init PROVE IndInv
  OBVIOUS
<1>1. gen \in Generator /\ gen.queue = <<>> /\ gen.answers = <<>> /\ gen.freed = 0
      /\ gen.state = "SUSPENDED_START"
  BY DEF Init, Generator, State
<1>2. count = 0 /\ 0 \in 0 .. MaxRequests
  BY MaxRequestsAssumption DEF Init
<1>3. Len(gen.queue) = 0 /\ Len(gen.answers) = 0
  BY <1>1
<1>4. InOrder(gen, count)
  BY <1>2, <1>3 DEF InOrder
<1>5. LastMeansEnd(gen)
  BY <1>3 DEF LastMeansEnd
<1>6. FreedAtEnd(gen)
  BY <1>1 DEF FreedAtEnd, Ended
<1>7. Good(gen, count)
  BY <1>1, <1>4, <1>5, <1>6 DEF Good
<1>8. carriers \in Carriers /\ carriers["body"] = 0 /\ carriers["await"] = 0
      /\ carriers["return"] = 0
  BY DEF Init, Carriers
<1>9. lost \in BOOLEAN /\ ~lost
  BY Zenon DEF Init
<1>10. TypeOK
  BY <1>1, <1>2, <1>8, <1>9 DEF TypeOK, Generator, Carriers
<1>11. OneCarrier
  BY <1>1, <1>8, <1>9 DEF OneCarrier
<1> QED
  BY <1>7, <1>9, <1>10, <1>11 DEF IndInv, LostIsStuck

(* ... and every step keeps it.                                            *)
LEMMA StepKeeps == IndInv /\ [Next]_vars => IndInv'
<1>1. ASSUME IndInv, UNCHANGED vars PROVE IndInv'
  BY <1>1 DEF vars, IndInv, TypeOK, Good, InOrder, LastMeansEnd, FreedAtEnd, Ended,
              OneCarrier, LostIsStuck
<1>2. ASSUME Good(gen', count'), count' \in 0 .. MaxRequests, carriers' \in Carriers,
             lost' \in BOOLEAN, OneCarrier', LostIsStuck'
      PROVE  IndInv'
  BY <1>2 DEF IndInv, TypeOK, Good, Generator, Carriers
<1>3. ASSUME IndInv, Next PROVE IndInv'
  <2>1. ASSUME NEW type \in {"next", "return", "throw"}, js_async_generator_next(type)
        PROVE  IndInv'
    BY <1>2, <1>3, <2>1, NextKeeps
  <2>2. ASSUME Carry PROVE count' = count /\ count' \in 0 .. MaxRequests
    BY <1>3, <2>2 DEF Carry, BodyYields, BodyEnds, ReturnJob, BodyAwaits, AwaitJob, IndInv, TypeOK
  <2>3. ASSUME Carry PROVE IndInv'
    BY <1>2, <1>3, <2>2, <2>3, BodyYieldsKeeps, BodyEndsKeeps, ReturnJobKeeps,
       BodyAwaitsKeeps, AwaitJobKeeps DEF Carry
  <2> QED
    BY <1>3, <2>1, <2>3 DEF Next
<1> QED
  BY <1>1, <1>3

(* So it always holds.                                                     *)
THEOREM Invariance == Spec => []IndInv
  BY InitHolds, StepKeeps, PTL DEF Spec

(* A generator at work is carried on by exactly one thing, unless a        *)
(* js_promise_resolve failed, and it has a request to answer.              *)
THEOREM CarriedByOne == Spec => []OneCarrier
<1>1. IndInv => OneCarrier
  BY DEF IndInv
<1> QED
  BY <1>1, Invariance, PTL

(* The requests are answered in their order, each once, with no value      *)
(* after the end.                                                          *)
THEOREM AnsweredOnceInOrder == Spec => []AnswersInOrder
<1>1. IndInv => AnswersInOrder
  <2> SUFFICES ASSUME IndInv PROVE AnswersInOrder
    OBVIOUS
  <2> DEFINE n == Len(gen.answers)
  <2>1. InOrder(gen, count) /\ gen \in Generator
    BY DEF IndInv, Good
  <2>2. DOMAIN gen.queue = 1 .. Len(gen.queue) /\ Len(gen.queue) = count - n
    BY <2>1 DEF InOrder, Generator
  <2>3. [i \in DOMAIN gen.queue |-> gen.queue[i].id] = [i \in 1 .. count - n |-> n + i]
    BY <2>1, <2>2 DEF InOrder
  <2> QED
    BY <2>1, <2>3 DEF AnswersInOrder, InOrder
<1> QED
  BY <1>1, Invariance, PTL

(* The frame of the function is freed exactly once, at the end.            *)
THEOREM FreedExactlyOnce == Spec => []FrameFreedOnce
<1>1. IndInv => FrameFreedOnce
  BY DEF IndInv, Good, FreedAtEnd, Ended, FrameFreedOnce
<1> QED
  BY <1>1, Invariance, PTL
=============================================================================
