--------------------------- MODULE AsyncGenerators ---------------------------
(***************************************************************************)
(* An async generator object of QuickJS (quickjs.c 19345-19770).  Calls of *)
(* next, return and throw put a request into the queue of the generator,   *)
(* and js_async_generator_resume_next serves the queue, as far as the      *)
(* state of the generator lets it.  A request may be made by anybody: by   *)
(* the body of the generator itself, by a job, or by Java code that the    *)
(* body calls and that calls the engine again.                             *)
(*                                                                         *)
(* Three things carry a generator on that is neither suspended nor         *)
(* complete: its body runs, it waits for a promise (await), or it waits    *)
(* for the value of a return after its end.  The promise it waits for      *)
(* calls js_async_generator_resolve_function from a job.                   *)
(***************************************************************************)
EXTENDS Integers, Sequences

CONSTANT
    MaxRequests     \* bound: requests made in a run

ASSUME MaxRequestsAssumption == MaxRequests \in Nat \ {0}

VARIABLES
    gen,        \* the JSAsyncGeneratorData: its state; its queue, the number and
                \* the completion type of each request; how often func_state was
                \* freed; and, as history, how the requests were answered
    count,      \* the number of requests so far
    carriers,   \* how many of each kind carry the generator on
    lost        \* whether a js_promise_resolve has failed

vars == <<gen, count, carriers, lost>>

State == {"SUSPENDED_START", "SUSPENDED_YIELD", "SUSPENDED_YIELD_STAR",
          "EXECUTING", "AWAITING_RETURN", "COMPLETED"}

Request == [id : 1 .. MaxRequests, type : {"next", "return", "throw"}]

(* An answer is the resolution with an iterator result, done or not, or a  *)
(* rejection.                                                              *)
Answer == [id : 1 .. MaxRequests, kind : {"value", "done", "reject"}]

(* Every variable has its type, and a request that is answered exists.     *)
TypeOK ==
    /\ gen \in [state : State, queue : Seq(Request), freed : Nat, answers : Seq(Answer)]
    /\ count \in 0 .. MaxRequests
    /\ carriers \in [{"body", "await", "return"} -> Nat]
    /\ lost \in BOOLEAN

(* js_async_generator_function_call                                        *)
Init ==
    /\ gen = [state |-> "SUSPENDED_START", queue |-> <<>>, freed |-> 0, answers |-> <<>>]
    /\ count = 0
    /\ carriers = [c \in {"body", "await", "return"} |-> 0]
    /\ lost = FALSE

---------------------------------------------------------------------------
(* The building blocks: functions of the generator, so that they compose.  *)

(* js_async_generator_resolve_or_reject: the oldest request is answered.   *)
(* The answer is an object of the engine; that its then is looked up, by   *)
(* which a getter on Object.prototype could run a script, is left out.     *)
Answered(g, kind) ==
    [g EXCEPT !.queue = Tail(@),
              !.answers = Append(@, [id |-> Head(g.queue).id, kind |-> kind])]

(* Fault: the frame is freed, and the state not set.                       *)
Complete_NoState(g) == [g EXCEPT !.freed = @ + 1]

(* js_async_generator_complete                                             *)
Complete(g) ==
    IF g.state = "COMPLETED" THEN g ELSE [g EXCEPT !.state = "COMPLETED", !.freed = @ + 1]

More(cs, c) == [cs EXCEPT ![c] = @ + 1]
Less(cs, c) == [cs EXCEPT ![c] = @ - 1]

(* A promise is waited for; when js_promise_resolve throws instead, nobody *)
(* takes notice.                                                           *)
WaitFor(cs, c) ==
    \/ carriers' = More(cs, c) /\ UNCHANGED lost
    \/ carriers' = cs /\ lost' = TRUE

(* The loop of js_async_generator_resume_next, from generator g on.  The   *)
(* head of the queue makes a suspended generator run, and so does the end  *)
(* of an await.                                                            *)
Runs(g) ==
    \/ g.state \in {"SUSPENDED_YIELD", "SUSPENDED_YIELD_STAR", "EXECUTING"}
    \/ g.state = "SUSPENDED_START" /\ Head(g.queue).type = "next"

RunHead(g, cs) ==
    /\ gen' = [g EXCEPT !.state = "EXECUTING"]
    /\ carriers' = More(cs, "body")
    /\ UNCHANGED lost

(* A generator that is complete, or completes because it is not asked for  *)
(* a first value, answers the head of the queue and no other request       *)
(* (goto done), or waits for the value of a return.                        *)
ServeCompleted(g, cs) ==
    LET type == Head(g.queue).type
    IN  \/ /\ type = "return"
           /\ gen' = [Complete(g) EXCEPT !.state = "AWAITING_RETURN"]
           /\ WaitFor(cs, "return")
        \/ /\ type # "return"
           /\ gen' = Answered(Complete(g), IF type = "next" THEN "done" ELSE "reject")
           /\ carriers' = cs /\ UNCHANGED lost

(* Fault: a generator that waits for the value of a return is taken for    *)
(* one that is complete.                                                   *)
resume_next_NotWaiting(g, cs) ==
    IF g.queue = <<>>
    THEN gen' = g /\ carriers' = cs /\ UNCHANGED lost
    ELSE IF Runs(g) THEN RunHead(g, cs) ELSE ServeCompleted(g, cs)

resume_next(g, cs) ==
    IF g.queue = <<>> \/ g.state = "AWAITING_RETURN"
    THEN gen' = g /\ carriers' = cs /\ UNCHANGED lost
    ELSE IF Runs(g) THEN RunHead(g, cs) ELSE ServeCompleted(g, cs)

---------------------------------------------------------------------------
(* A call of next, return or throw.  While the generator executes, or      *)
(* awaits, the request is only queued.                                     *)
js_async_generator_next(type) ==
    /\ count < MaxRequests
    /\ count' = count + 1
    /\ LET g == [gen EXCEPT !.queue = Append(@, [id |-> count + 1, type |-> type])]
       IN  IF gen.state = "EXECUTING"
           THEN gen' = g /\ UNCHANGED <<carriers, lost>>
           ELSE resume_next(g, carriers)

(* The body comes to a yield or a yield*; the next request makes it go on  *)
(* at once.                                                                *)
BodyYields(st) ==
    /\ carriers["body"] > 0
    /\ resume_next([Answered(gen, "value") EXCEPT !.state = st], Less(carriers, "body"))
    /\ UNCHANGED count

(* Fault: a function that throws is left as one that has yielded.          *)
BodyEnds_Suspended(kind) ==
    /\ carriers["body"] > 0
    /\ resume_next([Answered(gen, kind) EXCEPT !.state = "SUSPENDED_YIELD"],
                   Less(carriers, "body"))
    /\ UNCHANGED count

(* The body returns or throws.  Of the requests that wait, one is served.  *)
BodyEnds(kind) ==
    /\ carriers["body"] > 0
    /\ resume_next(Answered(Complete(gen), kind), Less(carriers, "body"))
    /\ UNCHANGED count

(* The body awaits a value: js_async_generator_await.                      *)
BodyAwaits ==
    /\ carriers["body"] > 0
    /\ WaitFor(Less(carriers, "body"), "await")
    /\ UNCHANGED <<gen, count>>

(* Fault: an await that ends while further requests wait is dropped.       *)
AwaitJob_Dropped ==
    /\ carriers["await"] > 0
    /\ IF Len(gen.queue) = 1
       THEN resume_next(gen, Less(carriers, "await"))
       ELSE carriers' = Less(carriers, "await") /\ UNCHANGED <<gen, lost>>
    /\ UNCHANGED count

(* js_async_generator_resolve_function, called by the promise: the body    *)
(* goes on, provided that there is a request.                              *)
AwaitJob ==
    /\ carriers["await"] > 0
    /\ resume_next(gen, Less(carriers, "await"))
    /\ UNCHANGED count

(* ... and for the value of a return: the oldest request is answered, and  *)
(* the queue is not looked at again.                                       *)
ReturnJob(kind) ==
    /\ carriers["return"] > 0
    /\ gen' = Answered([gen EXCEPT !.state = "COMPLETED"], kind)
    /\ carriers' = Less(carriers, "return")
    /\ UNCHANGED <<count, lost>>

Carry ==
    \/ \E st \in {"SUSPENDED_YIELD", "SUSPENDED_YIELD_STAR"} : BodyYields(st)
    \/ \E kind \in {"done", "reject"} : BodyEnds(kind) \/ ReturnJob(kind)
    \/ BodyAwaits
    \/ AwaitJob

Next == Carry \/ \E type \in {"next", "return", "throw"} : js_async_generator_next(type)

(* What the body does takes a finite time, the promises it waits for get   *)
(* settled, and it does not await for ever.                                *)
Spec ==
    /\ Init /\ [][Next]_vars
    /\ WF_vars(Carry)
    /\ SF_vars(\/ \E st \in {"SUSPENDED_YIELD", "SUSPENDED_YIELD_STAR"} : BodyYields(st)
               \/ \E kind \in {"done", "reject"} : BodyEnds(kind))

---------------------------------------------------------------------------
(* What the assertions of js_async_generator_resolve_function rest on: a   *)
(* generator that executes is carried on by its body or by one await, one  *)
(* that waits for the value of a return by one job, any other by nothing   *)
(* (or it has lost it in a failing js_promise_resolve); and while it is    *)
(* carried on it has a request, which js_async_generator_resolve_or_reject *)
(* takes from the queue without a look.                                    *)
OneCarrier ==
    /\ carriers["body"] + carriers["await"] =
          IF gen.state = "EXECUTING" /\ ~lost THEN 1 ELSE 0
    /\ carriers["return"] = IF gen.state = "AWAITING_RETURN" /\ ~lost THEN 1 ELSE 0
    /\ gen.state \in {"EXECUTING", "AWAITING_RETURN"} => gen.queue # <<>>

(* The requests are answered in the order in which they were made, each    *)
(* once, however the calls nest; and once one was told that the generator  *)
(* is done, or was rejected, no later one gets a value.                    *)
AnswersInOrder ==
    LET n == Len(gen.answers)
    IN  /\ \A i \in 1 .. n : gen.answers[i].id = i
        /\ [i \in DOMAIN gen.queue |-> gen.queue[i].id] = [i \in 1 .. count - n |-> n + i]
        /\ \A i \in 1 .. n - 1 :
              gen.answers[i].kind # "value" => gen.answers[i + 1].kind # "value"

(* The frame of the function is freed once, when the generator completes:  *)
(* the finalizer, which looks at the state only, neither frees it again    *)
(* nor leaves it, and a body never goes on in a freed frame.               *)
FrameFreedOnce ==
    gen.freed = IF gen.state \in {"COMPLETED", "AWAITING_RETURN"} THEN 1 ELSE 0

(* The request that a generator is at work on is answered: it does not get *)
(* stuck unless js_promise_resolve failed, and neither nested calls nor    *)
(* requests that come in between hold it up.                               *)
HeadAnswered ==
    \A n \in 1 .. MaxRequests :
        /\ gen.state \in {"EXECUTING", "AWAITING_RETURN"}
        /\ Head(gen.queue).id = n
        ~> lost \/ Len(gen.answers) >= n

(* Every request is answered, as the comment of                            *)
(* js_async_generator_resolve_function says of its first case, "resume     *)
(* next case in AWAITING_RETURN state".  The code does not do that.        *)
EveryRequestAnswered ==
    \A n \in 1 .. MaxRequests : count >= n ~> lost \/ Len(gen.answers) >= n
=============================================================================
