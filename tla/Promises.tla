------------------------------ MODULE Promises ------------------------------
(***************************************************************************)
(* The promises of a QuickJS runtime and the jobs that drive them          *)
(* (quickjs.c 46290-47170, async functions 19159-19345), under the job     *)
(* loop of the Java wrapper: a handler that calls back into Java, which    *)
(* calls into the engine again, lets the next jobs run before it has come  *)
(* to its end (executePendingJobLoop of the inner call), so the handlers   *)
(* in progress form a stack.                                               *)
(*                                                                         *)
(* A pair of resolving functions is <<p, g>>: the g-th pair made for       *)
(* promise p.  Pair 0 is made with the promise; every job that waits for   *)
(* another thenable makes one more.  Each pair shares one already_resolved *)
(* flag; it is in open while the flag is not set.  The values of scripts   *)
(* are promises, other objects with a then method (Thenable), and the rest *)
(* (Plain).  A reaction is the pair of records that perform_promise_then   *)
(* makes, one for each of the two lists, which are always changed together.*)
(***************************************************************************)
EXTENDS Integers, Sequences, FiniteSets

CONSTANTS
    Promise,    \* the promises that get made
    Plain,      \* values without a then method
    Thenable,   \* another object with a then method
    Own,        \* the promises that have a then method of their own
    NoValue,    \* no result yet
    TypeErr,    \* the error of a promise that is resolved with itself
    Array,      \* the array or the error a combinator collects its values in
    Combinator, \* which of Promise.all, allSettled, any and race are used
    MaxThens,   \* bound: reactions registered with one promise
    MaxAsync,   \* bound: calls of async functions
    MaxGen,     \* bound: pairs of resolving functions of one promise, less one
    MaxDepth    \* bound: handlers in progress at a time

ASSUME PromisesAssumption ==
    /\ IsFiniteSet(Promise) /\ IsFiniteSet(Plain) /\ Own \subseteq Promise
    /\ Thenable \notin Promise /\ Thenable \notin Plain
    /\ NoValue \notin Promise \cup Plain \cup {Thenable}
    /\ Promise \cap Plain = {}
    /\ Cardinality({TypeErr, Array, NoValue, Thenable}) = 4
    /\ {TypeErr, Array} \cap (Promise \cup Plain) = {}
    /\ Combinator \subseteq {"all", "allSettled", "any", "race"}
    /\ MaxThens \in Nat /\ MaxAsync \in Nat /\ MaxGen \in Nat \ {0} /\ MaxDepth \in Nat \ {0}

VARIABLES
    promise,    \* the JSPromiseData of every promise, and how many reactions
                \* it was given so far
    pairs,      \* how many pairs of resolving functions were made for it
    open,       \* the pairs whose already_resolved is FALSE
    exposed,    \* the pairs that scripts hold
    jobs,       \* rt->job_list
    started,    \* history: how many reactions of a promise were started
    stack,      \* the jobs whose handlers are in progress, the inner one last
    async,      \* the state of the async function behind a promise
    allOf       \* the environment of the combinator behind a promise

vars == <<promise, pairs, open, exposed, jobs, started, stack, async, allOf>>

Value   == Promise \cup Plain \cup {Thenable}
Result  == Value \cup {TypeErr, Array}
Pair    == Promise \X (0 .. MaxGen)
Settled == {"fulfilled", "rejected"}

(* The handlers of a reaction: a script's own, or none, and then the pair  *)
(* of the promise that then returned gets what they give (then); the       *)
(* resolving functions of a pair (adopt); those and the element functions  *)
(* of a combinator; the resumption of an async function (await).  to and   *)
(* gen name the pair or the function; id counts the reactions of a promise.*)
Reaction == [kind : {"then", "adopt", "await"} \cup Combinator, to : Promise,
             gen : 0 .. MaxGen, onFulfilled : BOOLEAN, onRejected : BOOLEAN,
             id : Nat]

PromiseData == [state : {"none", "pending"} \cup Settled,
                result : Result \cup {NoValue},
                reactions : Seq(Reaction),
                count : Nat]

(* A job: a reaction that its promise src has triggered, or the call of    *)
(* then on the value arg, with which the promise to was resolved.          *)
Job == [type : {"reaction"}, src : Promise, rx : Reaction,
        reject : BOOLEAN, arg : Result]
       \cup [type : {"thenable"}, to : Promise, arg : Promise \cup {Thenable}]

(* What a call of a combinator keeps: the elements of its list, the        *)
(* functions <<p, reject>> made for them whose alreadyCalled is TRUE,      *)
(* remainingElementsCount, the array of the values, and whether an error   *)
(* ended the walk over the list.  Other promises have none of it.          *)
Environment ==
    {a \in [kind : Combinator \cup {"none"}, of : SUBSET Promise,
            called : SUBSET (Promise \X BOOLEAN), remaining : Int,
            values : [Promise -> Result \cup {NoValue}], failed : BOOLEAN] :
        a.kind = "none" => a.of = {}}

(* Every variable has its type.                                            *)
TypeOK ==
    /\ promise \in [Promise -> PromiseData]
    /\ pairs \in [Promise -> 0 .. MaxGen + 1]
    /\ open \subseteq Pair /\ exposed \subseteq Pair
    /\ jobs \in Seq(Job)
    /\ started \in [Promise -> Nat]
    /\ stack \in Seq(Job)
    /\ async \in [Promise -> {"none", "running", "suspended", "done"}]
    /\ allOf \in [Promise -> Environment]

NoData == [state |-> "none", result |-> NoValue, reactions |-> <<>>, count |-> 0]
NoAll  == [kind |-> "none", of |-> {}, called |-> {}, remaining |-> 0,
           values |-> [p \in Promise |-> NoValue], failed |-> FALSE]

Init ==
    /\ promise = [p \in Promise |-> NoData]
    /\ pairs = [p \in Promise |-> 0]
    /\ open = {} /\ exposed = {}
    /\ jobs = <<>> /\ stack = <<>>
    /\ started = [p \in Promise |-> 0]
    /\ async = [p \in Promise |-> "none"]
    /\ allOf = [p \in Promise |-> NoAll]

New     == {p \in Promise : promise[p].state = "none"}
Exists(p) == p \notin New
CanThen(p) == Exists(p) /\ promise[p].count < MaxThens

---------------------------------------------------------------------------
(* The building blocks: functions of the promises, so that they compose.   *)

(* A pending promise.                                                      *)
Create(ps, q) == [ps EXCEPT ![q].state = "pending"]

(* The job of reaction rx once p is settled.                               *)
JobOf(ps, p, rx) ==
    [type |-> "reaction", src |-> p, rx |-> rx,
     reject |-> ps[p].state = "rejected", arg |-> ps[p].result]

(* fulfill_or_reject_promise: the promise and the jobs it queues.  It does *)
(* nothing for a promise that is settled ("should never happen").          *)
Settle(ps, p, v, reject) ==
    IF ps[p].state # "pending" THEN ps
    ELSE [ps EXCEPT ![p] = [@ EXCEPT !.state = IF reject THEN "rejected" ELSE "fulfilled",
                                     !.result = v, !.reactions = <<>>]]

(* Fault: the last reaction is queued first.                               *)
SettleJobs_Reversed(ps, p, v, reject) ==
    IF ps[p].state # "pending" THEN <<>>
    ELSE [i \in DOMAIN ps[p].reactions |->
             JobOf(Settle(ps, p, v, reject), p,
                   ps[p].reactions[Len(ps[p].reactions) + 1 - i])]

SettleJobs(ps, p, v, reject) ==
    IF ps[p].state # "pending" THEN <<>>
    ELSE [i \in DOMAIN ps[p].reactions |->
             JobOf(Settle(ps, p, v, reject), p, ps[p].reactions[i])]

(* perform_promise_then: a pending promise keeps the reaction, a settled   *)
(* one queues its job.                                                     *)
Numbered(ps, p, rx) == [rx EXCEPT !.id = ps[p].count + 1]

AddReaction(ps, p, rx) ==
    [ps EXCEPT ![p].count = @ + 1,
               ![p].reactions = IF ps[p].state = "pending"
                                THEN Append(@, Numbered(ps, p, rx)) ELSE @]

(* Fault: a promise that is settled already only counts the reaction.      *)
ThenJobs_None(ps, p, rx) == <<>>

ThenJobs(ps, p, rx) ==
    IF ps[p].state = "pending" THEN <<>> ELSE <<JobOf(ps, p, Numbered(ps, p, rx))>>

(* Fault: the flag is looked at but not set.                               *)
CallResolving_NotSet(ps, op, jb, p, g, reject, v) ==
    /\ open' = op
    /\ IF <<p, g>> \notin op THEN promise' = ps /\ jobs' = jb
       ELSE IF reject \/ v \notin (Promise \cup {Thenable}) \ {p}
       THEN /\ promise' = Settle(ps, p, v, reject)
            /\ jobs' = jb \o SettleJobs(ps, p, v, reject)
       ELSE /\ promise' = ps
            /\ jobs' = Append(jb, [type |-> "thenable", to |-> p, arg |-> v])

(* js_promise_resolve_function_call for the pair <<p, g>>, with the        *)
(* promises ps, the open pairs op and the jobs jb as they are by then.     *)
(* Resolving a promise with itself rejects it; resolving it with a         *)
(* thenable queues a job.  That a getter of then may run a script, between *)
(* the flag and the job, is left out; one that throws is a rejection.      *)
CallResolving(ps, op, jb, p, g, reject, v) ==
    /\ open' = op \ {<<p, g>>}
    /\ IF <<p, g>> \notin op THEN promise' = ps /\ jobs' = jb
       ELSE IF reject \/ v \notin Promise \cup {Thenable}
       THEN /\ promise' = Settle(ps, p, v, reject)
            /\ jobs' = jb \o SettleJobs(ps, p, v, reject)
       ELSE IF v = p
       THEN /\ promise' = Settle(ps, p, TypeErr, TRUE)
            /\ jobs' = jb \o SettleJobs(ps, p, TypeErr, TRUE)
       ELSE /\ promise' = ps
            /\ jobs' = Append(jb, [type |-> "thenable", to |-> p, arg |-> v])

React(kind, to, gen, f, r) ==
    [kind |-> kind, to |-> to, gen |-> gen, onFulfilled |-> f, onRejected |-> r, id |-> 0]

(* js_new_promise_capability for a new promise q: its pair stays inside.   *)
(* Which of the unused names q is makes no difference.                     *)
NewCapability(q) ==
    /\ q \in New /\ q = CHOOSE x \in New : TRUE
    /\ pairs' = [pairs EXCEPT ![q] = 1]

---------------------------------------------------------------------------
(* What scripts do, at the top or in a handler.                            *)

(* new Promise: the executor may hand its two functions to anybody.        *)
NewPromise(q) ==
    /\ NewCapability(q)
    /\ promise' = Create(promise, q)
    /\ open' = open \cup {<<q, 0>>}
    /\ exposed' = exposed \cup {<<q, 0>>}
    /\ UNCHANGED <<jobs, started, stack, async, allOf>>

(* A script calls one of the functions it holds, perhaps not for the first *)
(* time.                                                                   *)
ScriptSettle(p, g, reject, v) ==
    /\ <<p, g>> \in exposed
    /\ v \in Promise => Exists(v)
    /\ g = MaxGen => reject \/ v \in Plain
    /\ CallResolving(promise, open, jobs, p, g, reject, v)
    /\ UNCHANGED <<pairs, exposed, started, stack, async, allOf>>

(* q = p.then(f, r), where f or r may be missing.                          *)
Then(p, q, f, r) ==
    /\ NewCapability(q) /\ CanThen(p)
    /\ open' = open \cup {<<q, 0>>}
    /\ LET rx == React("then", q, 0, f, r)
       IN  /\ promise' = AddReaction(Create(promise, q), p, rx)
           /\ jobs' = jobs \o ThenJobs(promise, p, rx)
    /\ UNCHANGED <<exposed, started, stack, async, allOf>>

(* Promise.all, allSettled, any and race over an empty list: the end of it *)
(* takes the one off that remainingElementsCount starts with, and settles  *)
(* the promise; that of race stays pending.                                *)
CombineNone(q, kind) ==
    /\ NewCapability(q)
    /\ allOf' = [allOf EXCEPT ![q].kind = kind]
    /\ IF kind = "race"
       THEN /\ promise' = Create(promise, q)
            /\ open' = open \cup {<<q, 0>>}
            /\ UNCHANGED jobs
       ELSE CallResolving(Create(promise, q), open \cup {<<q, 0>>}, jobs, q, 0,
                          kind = "any", Array)
    /\ UNCHANGED <<exposed, started, stack, async>>

(* then is called on the element p of a list, with the functions made for  *)
(* it: the promises and the jobs after it.  A then method of its own hands *)
(* the functions to scripts (ScriptElement) and registers nothing.         *)
ListThen(ps, p, rx) == IF p \in Own THEN ps ELSE AddReaction(ps, p, rx)
ListJobs(ps, p, rx) == IF p \in Own THEN <<>> ELSE ThenJobs(ps, p, rx)

(* The same over two promises: both are counted, on top of the one for the *)
(* walk, which its end takes off again.  A then method of its own may      *)
(* throw: that ends the walk, and the promise is rejected (fail_reject1);  *)
(* here it is the second one, when both elements are counted.              *)
(* The scripts that such methods run act as if after the walk: while it    *)
(* goes on its own one keeps the count above zero, unless both functions   *)
(* of an element of allSettled are called.                                 *)
CombineTwo(q, kind, p1, p2, throws, e) ==
    /\ NewCapability(q) /\ CanThen(p1) /\ CanThen(p2) /\ p1 # p2
    /\ throws => p2 \in Own
    /\ allOf' = [allOf EXCEPT ![q] = [@ EXCEPT !.kind = kind, !.of = {p1, p2},
                                               !.remaining = IF throws THEN 3 ELSE 2,
                                               !.failed = throws]]
    /\ LET rx == React(kind, q, 0, TRUE, TRUE)
           ps == ListThen(ListThen(Create(promise, q), p1, rx), p2, rx)
           jb == jobs \o ListJobs(promise, p1, rx) \o ListJobs(promise, p2, rx)
       IN  IF throws
           THEN CallResolving(ps, open \cup {<<q, 0>>}, jb, q, 0, TRUE, e)
           ELSE promise' = ps /\ open' = open \cup {<<q, 0>>} /\ jobs' = jb
    /\ UNCHANGED <<exposed, started, stack, async>>

(* js_promise_all_resolve_element takes the place of resolve (all,         *)
(* allSettled) or reject (allSettled, any).                                *)
IsElement(kind, reject) ==
    \/ kind = "allSettled"
    \/ kind = "all" /\ ~reject
    \/ kind = "any" /\ reject

(* Fault: alreadyCalled is not looked at.                                  *)
CallElement_Again(r, p, reject, v, jb) ==
    IF ~IsElement(allOf[r].kind, reject)
    THEN /\ CallResolving(promise, open, jb, r, 0, reject, v)
         /\ UNCHANGED allOf
    ELSE /\ allOf' = [allOf EXCEPT ![r].called = @ \cup {<<p, reject>>},
                                  ![r].values[p] = v, ![r].remaining = @ - 1]
         /\ IF allOf[r].remaining = 1
            THEN CallResolving(promise, open, jb, r, 0, allOf[r].kind = "any", Array)
            ELSE jobs' = jb /\ UNCHANGED <<promise, open>>

(* A call of one of the two functions made for element p of r, with the    *)
(* jobs jb as they are by then.  Each element function has an              *)
(* alreadyCalled of its own, the two of allSettled too; the last element   *)
(* settles r.  The others are the resolving functions of r: the first      *)
(* rejection settles all, the first fulfilment settles any.                *)
CallElement(r, p, reject, v, jb) ==
    IF ~IsElement(allOf[r].kind, reject)
    THEN /\ CallResolving(promise, open, jb, r, 0, reject, v)
         /\ UNCHANGED allOf
    ELSE IF <<p, reject>> \in allOf[r].called
    THEN jobs' = jb /\ UNCHANGED <<promise, open, allOf>>
    ELSE /\ allOf' = [allOf EXCEPT ![r].called = @ \cup {<<p, reject>>},
                                  ![r].values[p] = v, ![r].remaining = @ - 1]
         /\ IF allOf[r].remaining = 1
            THEN CallResolving(promise, open, jb, r, 0, allOf[r].kind = "any", Array)
            ELSE jobs' = jb /\ UNCHANGED <<promise, open>>

(* A script that got them from the then method of p calls one of them, at  *)
(* any time and perhaps again, with a plain value.                         *)
ScriptElement(r, p, reject, v) ==
    /\ p \in allOf[r].of \cap Own
    /\ CallElement(r, p, reject, v, jobs)
    /\ UNCHANGED <<pairs, exposed, started, stack, async>>

(* The call of an async function, whose promise is q.                      *)
AsyncCall(q) ==
    /\ NewCapability(q)
    /\ Cardinality({p \in Promise : async[p] # "none"}) < MaxAsync
    /\ promise' = Create(promise, q)
    /\ open' = open \cup {<<q, 0>>}
    /\ async' = [async EXCEPT ![q] = "running"]
    /\ UNCHANGED <<exposed, jobs, started, stack, allOf>>

(* Fault: a function that awaits a settled promise goes on at once, but    *)
(* its reaction is registered all the same.                                *)
Await_GoesOn(q, p) ==
    /\ async[q] = "running" /\ CanThen(p)
    /\ async' = [async EXCEPT ![q] = IF promise[p].state \in Settled THEN "running"
                                     ELSE "suspended"]
    /\ LET rx == React("await", q, 0, TRUE, TRUE)
       IN  /\ promise' = AddReaction(promise, p, rx)
           /\ jobs' = jobs \o ThenJobs(promise, p, rx)
    /\ UNCHANGED <<pairs, open, exposed, started, stack, allOf>>

(* It awaits promise p; any other value is put into a promise first.       *)
Await(q, p) ==
    /\ async[q] = "running" /\ CanThen(p)
    /\ async' = [async EXCEPT ![q] = "suspended"]
    /\ LET rx == React("await", q, 0, TRUE, TRUE)
       IN  /\ promise' = AddReaction(promise, p, rx)
           /\ jobs' = jobs \o ThenJobs(promise, p, rx)
    /\ UNCHANGED <<pairs, open, exposed, started, stack, allOf>>

(* It returns or throws: the end of js_async_function_resume, and          *)
(* js_async_function_terminate.                                            *)
AsyncEnd(q, reject, v) ==
    /\ async[q] = "running"
    /\ v \in Promise => Exists(v)
    /\ async' = [async EXCEPT ![q] = "done"]
    /\ CallResolving(promise, open, jobs, q, 0, reject, v)
    /\ UNCHANGED <<pairs, exposed, started, stack, allOf>>

---------------------------------------------------------------------------
(* The jobs.  The loop of an outer call waits while a handler is in        *)
(* progress; the loop of a call that the handler makes does not.           *)

JobReady(type) ==
    /\ jobs # <<>> /\ Head(jobs).type = type
    /\ Len(stack) < MaxDepth

ReactionReady(kinds) == JobReady("reaction") /\ Head(jobs).rx.kind \in kinds

StartReaction == started' = [started EXCEPT ![Head(jobs).src] = @ + 1]

(* js_promise_resolve_thenable_job: the call of then with a new pair.  A   *)
(* promise takes a reaction; the promise that its then returns is dropped. *)
ThenableJob ==
    /\ JobReady("thenable")
    /\ LET j == Head(jobs)
           g == pairs[j.to]
           rx == React("adopt", j.to, g, TRUE, TRUE)
       IN  /\ j.arg \in Promise \ Own
           /\ pairs' = [pairs EXCEPT ![j.to] = @ + 1]
           /\ open' = open \cup {<<j.to, g>>}
           /\ promise' = AddReaction(promise, j.arg, rx)
           /\ jobs' = Tail(jobs) \o ThenJobs(promise, j.arg, rx)
    /\ UNCHANGED <<exposed, started, stack, async, allOf>>

(* The then method of any other object, and a promise's own one: it may    *)
(* keep the pair for later, and it may throw, which rejects the promise.   *)
ForeignThenJob(throws, e) ==
    /\ JobReady("thenable")
    /\ LET j == Head(jobs)
           g == pairs[j.to]
       IN  /\ j.arg \in {Thenable} \cup Own
           /\ pairs' = [pairs EXCEPT ![j.to] = @ + 1]
           /\ exposed' = exposed \cup {<<j.to, g>>}
           /\ IF throws
              THEN CallResolving(promise, open \cup {<<j.to, g>>}, Tail(jobs), j.to, g, TRUE, e)
              ELSE /\ open' = open \cup {<<j.to, g>>}
                   /\ jobs' = Tail(jobs)
                   /\ UNCHANGED promise
    /\ UNCHANGED <<started, stack, async, allOf>>

HasHandler(j) == IF j.reject THEN j.rx.onRejected ELSE j.rx.onFulfilled

(* promise_reaction_job without a handler: the result is passed on.  So do *)
(* the resolving functions of a pair, as handlers.                         *)
PassOn ==
    /\ ReactionReady({"then", "adopt", "race"})
    /\ LET j == Head(jobs)
       IN  /\ j.rx.kind = "then" => ~HasHandler(j)
           /\ CallResolving(promise, open, Tail(jobs), j.rx.to, j.rx.gen, j.reject, j.arg)
    /\ StartReaction
    /\ UNCHANGED <<pairs, exposed, stack, async, allOf>>

(* promise_reaction_job calls the handler of a script.                     *)
StartHandler ==
    /\ ReactionReady({"then"}) /\ HasHandler(Head(jobs))
    /\ stack' = Append(stack, Head(jobs))
    /\ jobs' = Tail(jobs)
    /\ StartReaction
    /\ UNCHANGED <<promise, pairs, open, exposed, async, allOf>>

(* The handler returns v or throws it; the promise that then returned      *)
(* gets it.                                                                *)
EndHandler(reject, v) ==
    /\ stack # <<>>
    /\ v \in Promise => Exists(v)
    /\ stack' = SubSeq(stack, 1, Len(stack) - 1)
    /\ CallResolving(promise, open, jobs, stack[Len(stack)].rx.to, 0, reject, v)
    /\ UNCHANGED <<pairs, exposed, started, async, allOf>>

(* It calls one of the functions made for an element of a combinator.      *)
ElementJob ==
    /\ ReactionReady({"all", "allSettled", "any"})
    /\ LET j == Head(jobs)
       IN  CallElement(j.rx.to, j.src, j.reject, j.arg, Tail(jobs))
    /\ StartReaction
    /\ UNCHANGED <<pairs, exposed, stack, async>>

(* js_async_function_resolve_call: the function goes on behind its await.  *)
ResumeJob ==
    /\ ReactionReady({"await"})
    /\ async' = [async EXCEPT ![Head(jobs).rx.to] = "running"]
    /\ jobs' = Tail(jobs)
    /\ StartReaction
    /\ UNCHANGED <<promise, pairs, open, exposed, stack, allOf>>

JobStep ==
    \/ ThenableJob
    \/ \E throws \in BOOLEAN, e \in Plain : ForeignThenJob(throws, e)
    \/ PassOn
    \/ StartHandler
    \/ ElementJob
    \/ ResumeJob

(* What a function comes to: it returns a value, or throws one.  Among the *)
(* thrown ones no promises: what is thrown is handed on and not looked at. *)
Completion == ({FALSE} \X Value) \cup ({TRUE} \X Plain)

HandlerEnds == \E c \in Completion : EndHandler(c[1], c[2])

ScriptStep ==
    \/ \E q \in Promise : \/ NewPromise(q)
                          \/ AsyncCall(q)
                          \/ \E p \in Promise : Await(q, p)
    \/ \E p, q \in Promise, f \in BOOLEAN : Then(p, q, f, ~f)
    \/ \E q \in Promise, kind \in Combinator :
          \/ CombineNone(q, kind)
          \/ \E p1, p2 \in Promise, throws \in BOOLEAN, e \in Plain :
                CombineTwo(q, kind, p1, p2, throws, e)
    \/ \E r, p \in Promise, reject \in BOOLEAN, v \in Plain : ScriptElement(r, p, reject, v)
    \/ \E p \in Promise, g \in 0 .. MaxGen, c \in Completion :
          ScriptSettle(p, g, c[1], c[2])
    \/ \E q \in Promise, c \in Completion : AsyncEnd(q, c[1], c[2])

Next == ScriptStep \/ JobStep \/ HandlerEnds

(* executePendingJobLoop runs as long as there are jobs, and handlers come *)
(* to an end: a script that loops for ever holds up everything.            *)
Spec == Init /\ [][Next]_vars /\ WF_vars(JobStep) /\ WF_vars(HandlerEnds)

---------------------------------------------------------------------------
JobsFor(p) == {i \in DOMAIN jobs : jobs[i].type = "thenable" /\ jobs[i].to = p}

(* fulfill_or_reject_promise says of a promise that is settled already     *)
(* "should never happen" and returns: it would drop a result.  While a     *)
(* promise can still be settled there is one way to do it, an open pair or *)
(* a job that will make one, and the promise is pending, however many      *)
(* pairs were made for it and however often scripts call them.             *)
OneResolver ==
    \A p \in Promise :
        LET ways == Cardinality({g \in 0 .. MaxGen : <<p, g>> \in open})
                    + Cardinality(JobsFor(p))
        IN  ways = IF promise[p].state = "pending" THEN 1 ELSE 0

(* Every reaction of a promise becomes one job, in the order in which the  *)
(* reactions were registered, before or after the promise was settled: the *)
(* ones that were started, the ones queued and the ones still kept by the  *)
(* promise are all there are.  A queued job has the result of its promise. *)
ReactionsInOrder ==
    \A p \in Promise :
        LET mine == {i \in DOMAIN jobs : jobs[i].type = "reaction" /\ jobs[i].src = p}
            kept == promise[p].reactions
            last == promise[p].count - Len(kept)
        IN  /\ {jobs[i].rx.id : i \in mine} = started[p] + 1 .. last
            /\ \A i, k \in mine : i < k => jobs[i].rx.id < jobs[k].rx.id
            /\ \A i \in DOMAIN kept : kept[i].id = last + i
            /\ promise[p].state = "pending" => mine = {}
            /\ promise[p].state # "pending" => kept = <<>>
            /\ \A i \in mine : /\ jobs[i].reject = (promise[p].state = "rejected")
                               /\ jobs[i].arg = promise[p].result

(* An async function is resumed once for every await, and not while it     *)
(* runs: exactly the functions that wait have a reaction or a job, and     *)
(* they have one.                                                          *)
ResumedOnce ==
    \A q \in Promise :
        LET awaits(rx) == rx.kind = "await" /\ rx.to = q
            queued == {i \in DOMAIN jobs : jobs[i].type = "reaction" /\ awaits(jobs[i].rx)}
            kept == {x \in UNION {{p} \X DOMAIN promise[p].reactions : p \in Promise} :
                        awaits(promise[x[1]].reactions[x[2]])}
        IN  Cardinality(queued) + Cardinality(kept) = IF async[q] = "suspended" THEN 1 ELSE 0

(* A then method of its own got both functions of allSettled called.       *)
Twice(a) ==
    /\ a.kind = "allSettled"
    /\ \E p \in a.of \cap Own : <<p, FALSE>> \in a.called /\ <<p, TRUE>> \in a.called

(* Promise.all, allSettled and any give their array only when the last     *)
(* element is there, however often scripts call the functions that a then  *)
(* method of its own was given, and with the result of every other element *)
(* in its place.  When no such method is in the list, all rejects with the *)
(* reason of an element that was rejected, any fulfils with the value of   *)
(* one that was fulfilled.  The code does not let the two functions of an  *)
(* element of allSettled share alreadyCalled: after a call of both the     *)
(* count is one too few and the array comes early, so those calls of       *)
(* allSettled (Twice) are left out.                                        *)
CombinatorComplete ==
    \A r \in Promise : allOf[r].kind \in {"all", "allSettled", "any"} =>
        LET a == allOf[r]
            good == IF a.kind = "any" THEN "rejected" ELSE "fulfilled"
        IN  /\ promise[r].result = Array /\ promise[r].state = good /\ ~Twice(a) =>
                  /\ ~a.failed
                  /\ \A p \in a.of : a.values[p] # NoValue
                  /\ \A p \in a.of \ Own :
                        /\ promise[p].state \in Settled
                        /\ a.kind # "allSettled" => promise[p].state = good
                        /\ a.values[p] = promise[p].result
            /\ promise[r].state \in Settled \ {good} /\ a.of \cap Own = {} =>
                  \E p \in a.of : /\ promise[p].state = promise[r].state
                                  /\ promise[p].result = promise[r].result

(* p was resolved with the promise x and waits for it.                     *)
Follows(p, x) ==
    \/ \E i \in JobsFor(p) : jobs[i].arg = x
    \/ \E i \in DOMAIN promise[x].reactions : /\ promise[x].reactions[i].kind = "adopt"
                                              /\ promise[x].reactions[i].to = p

(* A promise that was resolved with another one ends as that one does, and *)
(* as soon as the jobs are done: the job, the new pair and the reaction    *)
(* between the two are never left hanging (what becomes of the pair that a *)
(* then method of its own gets is up to scripts).                          *)
Adoption ==
    \A p \in Promise : \A x \in Promise \ ({p} \cup Own) :
        Follows(p, x) /\ promise[x].state \in Settled ~>
            promise[p].state = promise[x].state /\ promise[p].result = promise[x].result
=============================================================================
