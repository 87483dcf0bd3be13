# A TLA+ model of j2qjs

j2qjs embeds the QuickJS engine in Java.  A Java program gets `JSObject`s that
are nothing but the address of a QuickJS object, the native wrapper keeps the
objects behind them alive with one reference each, and scripts can call back
into Java.  The questions worth asking of such a program are about ownership:
who holds a reference, who gives it back, and does an address still denote the
object it was handed out for after other threads, callbacks, exceptions and the
garbage collector have had their turn.  Tests hardly reach them, because the
mistake and its effect (a freed object in use, an assertion in `destroy`) are
many calls apart.  This project models those parts, checks them with TLC on
small instances, and proves the central facts with TLAPS for instances of any
size.

## The system

| component | state | operations |
|---|---|---|
| heap of the QuickJS runtime (`quickjs.c`, `quickjs.h`) | objects with a reference count, property values, `gc_obj_list`, `gc_zero_ref_count_list` | `JS_DupValue`, `JS_FreeValue`, `set_value`, `free_zero_refcount`, `JS_RunGC` |
| native wrapper (`quickjs_wrapper.cpp`) | `values`: one retained `JSValue` per address; `context`, `runtime` | one method per native call; the destructor |
| JNI layer (`quickjs_context_jni.cpp`) | none | forwards each `native synchronized` method |
| Java object model (`JSObject`, `JSArray`, `JSFunction`) | an address; for a function also the receiver's address | `getProperty`, `setProperty`, `call`, `freeValue`, ... |
| callback registry (`QuickJSWrapper.java`) | `callFunctionMap`: hash code to `JSCallFunction` | `putCallFunction`, `removeCallFunction`, `callFunctionBack`, `destroy` |
| script engine (`J2qjsScriptEngine`) | the engine's context | `eval`, `compile`, `invokeFunction`, `invokeMethod` |
| script context (`J2qjsScriptContext`) | `engineScope`, `globalScope`, a mirror of the first on the global object | `setAttribute`, `setBindings`, ... |
| job loop (`executePendingJobLoop`) | the runtime's queue of promise jobs, the pending Java exception | run at the end of `evaluate`, `execute`, `call` |
| promises and async functions (`quickjs.c`) | state, result and reactions of a promise, `already_resolved` flags, suspended functions | `then`, resolving functions, `await`, the combinators, the jobs |
| async generators (`quickjs.c`) | state, queue of requests, the frame of the body | `next`, `return`, `throw`, the jobs of its promises |
| module loader (`quickjs.c`, `js_module_loader`, `std.loadModule`, `std.evalModule`) | `loaded_modules`, the flags of every `JSModuleDef` | compile, resolve, link, evaluate, free |
| value conversion (`toJavaObject`, `toJSValue`) | none | numbers, booleans, strings, objects, callbacks |
| factory (`J2qjsScriptEngineFactory`) | none | string building |
| parser, interpreter, `std`/`os` modules, libbf, libregexp, libunicode | third-party | |

How they interact.  A client thread calls a Java method, which enters a
`native synchronized` method: one thread at a time is inside QuickJS.  Native
code frees objects as a side effect of almost anything, in a cascade; the
finalizer of a callback's function calls `removeCallFunction` in Java.  A script
that calls a callback goes `jsFnCallback` → `jsFuncCall` → `callFunctionBack`
→ the client's code, which may use the whole API again, nested in the native
call it was called from.

What is hard here:

* an object returned to Java several times is retained once, and `freeValue`
  acts on addresses, which are reused;
* `invokeFunction`/`invokeMethod` are several native calls, so other threads act
  between the lookup and the call (and, in the code, before the `finally` clause frees:
  the model takes the call and that clause as one step, and has the `freeValue` of the
  client, which goes by the address as well, as a step of its own);
* arguments of callbacks are lent, not retained;
* exception paths return early, with references in hand;
* the map of callbacks is used outside the monitor, and its keys are hash codes;
* promise jobs run in loops that nest, since a handler may call Java and Java the
  engine again;
* a module that fails to load, link or run has to leave the list of modules as if
  it had never been there, while others that are in progress refer to it;
* `destroy` has to get rid of a heap in which every object leads back to the
  context, and QuickJS asserts that it has.

`PROJECT.json` lists these as hazards, each at its line.

## The modules

### QuickJSHeap

The heap.  An object is its address (`Ptr`); `live` are the addresses on
QuickJS's lists, `refCount` the header's count, `prop` the value of every
property slot, `root` the references that C code owns: the context pointer of
the wrapper (`root[0]`) and the argument of every active callback.  All values
without a reference count are the one value `NoPtr`.

Every function leads to the `JSContext` through its realm, and every ordinary
object through its prototype's constructor; the context is itself a counted gc
object and owns the global object.  One slot per object, `Intrinsic`, stands for
those paths.  So the heap contains a cycle from the start, as in QuickJS, and
freeing the context pointer frees nothing: only the cycle collector does.

`FreeZeroRefCount(p)` is one turn of the loop in `free_zero_refcount`, hence a
cascade is a sequence of steps.  `JS_RunGC` is one step: `ExternallyHeld` is what
`gc_decref` leaves with a positive count, `Reach` closes it under
`mark_children` as `gc_scan` does, and the rest is freed.

### CycleCollector

`JS_RunGC` pass by pass: `gc_decref`, the two loops of `gc_scan`, `gc_free_cycles` with
`free_object`, and the release of the zombies, one object a step.  The lists are sets,
and `todo` is what the loop that runs has still to visit: the order of a list is the
order of allocation, so any order is possible.  An object that is freed in a cycle
while others still refer to it becomes a zombie, whose memory goes at the end.  Other
gc objects (the context, shapes, var refs) are skipped by the last pass; the last
object that refers to one frees it.  `Init` is any graph that reference counting alone
leaves behind.  An `Other` has one slot, which holds an object, and of the `Other`s only
the context is held from outside: the `array_shape` that a context owns as well, and the
data of an async function that C code holds while it runs, are left out.

`Heap` is `QuickJSHeap` under a refinement mapping: `AbstractLive`, `AbstractProp` and
`AbstractRefCount` undo what the passes have done so far to lists and counts.
`ImplementsRunGC` says that a collection, seen through the mapping, is the single step
`JS_RunGC` that the wrapper's model and its proofs use.

### QuickJSWrapper (extends QuickJSHeap)

The native wrapper, the Java handles and the script engine's invocations.

| variable | in the code |
|---|---|
| `values` | the keys of `QuickJSWrapper::values` |
| `hnd[h]` | a `JSObject` in the client's hands: address, and who keeps its object alive |
| `inv[i]` | a running `invokeFunction`/`invokeMethod`: the `JSFunction` it looked up |
| `depth`, `root[1..depth]` | the callbacks on the stack and their arguments |
| `phase` | how far `~QuickJSWrapper` has got |
| `lost` | references that an early return drops without giving them back |
| `same` (in `hnd`, `inv`) | ghost: the memory is still the object the handle was made for |

One native call is one action, since the methods are synchronized and nothing
else runs until they return; what it frees is freed by the `FreeObject` steps
that follow, and no other call starts before they are done (`Idle`).  The order
of frees inside one call is the cascade's, so nothing the client can observe
falls between them except callbacks, and those are actions of their own:
`JsFuncCall` enters one, `JsFuncReturn` leaves it, and all that happens between
them is a nested call.  A script is what it can do to the graph: `ScriptPut`,
`ScriptNew`, a call of a callback, or an exception (`EvaluateThrows`).  A
function that a callback returns to the script is a new object the script
stores, `ScriptNew`.

Three exception paths lose references, and the model keeps them:
`CallWithCallback(.., FALSE)` (the early return at `quickjs_wrapper.cpp` 486),
`SetElementCallback` (the extra `JS_DupValue` at 549) and `EvaluateThrows` (what
`tryToTriggerOnError` does not free, 36-41).  `lost` counts them up to `MaxLost`.

An action that uses a handle requires that its address is live: what a program
does after it followed a pointer to free memory is undefined.  The address may
meanwhile be that of another object, and the model lets the program go on with
it, as the code does.

### CallFunctions

The callback registry with several threads.  `callFunctionMap` is a plain
`HashMap`; `putCallFunction` and `destroy`'s `clear` run before the synchronized
native method is entered.  Hence an access of the map is two steps, and once two
threads have been in it at the same time (`raced`) an update may be lost and a
lookup may miss.  `hash` is chosen in `Init` without any restriction: two
callbacks may share a hash code.  `fn` are the JS functions made for callbacks.
`uses`, `raced` and `orphan` are history variables of the properties.

### JobLoop

Promise jobs and exceptions.  The monitor leaves one thread in QuickJS, so there
is one `stack`: the client's code, native calls, jobs that the loop of the call
below them runs, and callbacks, which may make native calls that run jobs again.
A frame's `at` says where it is: for `evaluate` the script, then the loop or the
report of an error.  `jobList` and `current_exception` are the runtime's,
`javaException` is what `ExceptionCheck` sees.

| kind of frame | native calls | after the script |
|---|---|---|
| `evaluate` | `evaluate`, `evaluateModule`, `call` | an error is reported at once; otherwise the jobs run |
| `execute` | `execute` | the jobs run first, then an error is reported |
| `getProperty` | `getProperty`, `length`, `stringify` (accessors, `toJSON`) | an error is reported; no jobs run |
| `setProperty` | `setProperty`, `set`, `get` | an error stays in the runtime; no jobs run |

Jobs and errors are numbered.  `started` is the history of the jobs run; `raised`
and `got` of a frame are the error it ended with and the one `JS_GetException`
gave it.  A callback called while a Java exception is pending is entered or not,
since JNI does not say; after it throws, the script goes on with `undefined`, for
`jsFuncCall` does not look.  `unhandledRejections` is left out because nothing
ever fills it: the tracker that is installed is the one of quickjs-libc, which
prints.  Timers are left out because nothing polls them.

### Promises

The promises of one runtime.  A pair of resolving functions is `<<p, g>>`; a
promise gets its first pair when it is made and another one for each thenable it
is resolved with, and a pair is in `open` while its `already_resolved` is not set.
`perform_promise_then` puts one reaction into each of two lists, which are always
changed together, so the model has one.  `jobs` is `rt->job_list`; `stack` are the
handlers in progress, as an inner call's loop runs jobs before an outer handler has
ended.  Scripts do what they like in between: make promises, call functions they
hold again, register reactions, call async functions, and combine none or two promises
(`CombineNone` is the end of the list that settles the promise at once, `CombineTwo`
the loop that calls `then` on one element after the other).  A value is a promise, an
object with a `then` of its own, or something else.

The promises in `Own` have a `then` method of their own.  A promise that is resolved with
one of them hands its pair to that method, which may keep it or throw (`ForeignThenJob`), and
a combinator hands it the two functions made for the element, which scripts may then call
at any time, again, and both (`ScriptElement`).  `called` are the element functions whose
`alreadyCalled` is set; those of `allSettled` have one each.

What is simplified: the walk of a combinator over its list is one step, so what scripts do in
a `then` of its own comes after it (until then the one that the count starts with keeps it
above zero); scripts call element functions with plain values; `p.then` of a script is
`Promise.prototype.then` for every `p`; and the lookup of `then` in
`js_promise_resolve_function_call` runs no script.

### AsyncGenerators

One generator object and the requests made of it.  `js_async_generator_resume_next`
is modelled as a function of the generator, because `next`, the end of an await and
every turn of its loop go through it.  `carriers` counts what keeps a generator
going that is neither suspended nor complete: its body, a promise it awaits, or the
promise of a `return`.  When `js_promise_resolve` fails nobody looks (`lost`).  An answer
is one step: the resolving function looks up `then` on the iterator result, and a getter on
`Object.prototype` that calls `next` there is left out.

### Modules

The loader's functions call each other recursively, and the body of a module may
call the loader again; `stack` holds the calls in progress, and a step is what
happens between two calls.  A `JSModuleDef` is made whenever a file is compiled, so
several may have the same name; the loader takes the first.  A definition that is
freed leaves `loaded`; if a body ends whose module was freed, or linking follows a
requirement that is NULL or freed, `wild` is set and nothing more happens, since the code's
behaviour is undefined.  `js_evaluate_module` does not check its pointers either; its actions
carry the conditions `Valid` and `IsLoaded`, which `LinkedBeforeRun` shows to be always true.
No script runs while modules are linked, so linking is one step.

`loaded` is the list as a function from places to definitions: a new module gets a place
behind all others, and freeing one leaves its place empty, so the order of the list is that
of the places.  What linking comes to from a module (`Reached`) is the least set that holds
the module and, for each of its members that is not linked yet, the requirements.

`MCModules` enumerates the files: every graph of up to three requirements over three names,
one of which perhaps cannot be loaded or linked.

### Bindings

`J2qjsScriptContext` with two threads: `engineScope` is a client-visible map, and
its mirror is the global object.  `setAttribute` puts, then makes the native call;
`setBindings` walks over a `HashMap` whose iterator fails fast.  Values cross the
boundary through the conversion, and some are rejected.  The global object belongs to the
scripts: it has its built-in names from the start, and a script assigns, deletes and defines
names.  `fixed` are the names that `setProperty` does not change, because they are read-only,
have an accessor or are hidden by a `let`, `const` or `class`; nobody looks at the result of
`JS_SetPropertyStr`.  `lost` records the names whose mirror was given up, and `Mirrored` says
that the ways listed there are all there are.

### ValueConversion, BoundaryCrossing

`toJavaObject` and `toJSValue` for numbers, as operators over scaled-down widths:
int32, the integers a double can hold, and int64 keep their order and their overlaps,
`% 2^w` and the casts are kept.  `BoundaryCrossing` sends a number back and forth,
starting on either side.

### MC modules

`MCQuickJSWrapper`, `MCCallFunctions` and `MCBindings` add the symmetry sets.  Ordinary
addresses, handles, invocations, callbacks, ids, functions and threads are
interchangeable: no definition names a particular one.  Runs with a
liveness property use no symmetry.  The other modules need no MC module: their
constants are given in the `.cfg`.

Definitions whose name has a suffix after an underscore and whose comment begins
with *Fault* are wrong versions of the definition that follows them.  Nothing uses
them; each shows that a property would notice that mistake.

## What is checked

Runs that pass:

| run | instance | shows |
|---|---|---|
| `Handles` | 2 objects besides context and global object, 1 property, 2 handles, 1 invocation | `RefBalance`, `HeldHandleValid`, `DestroyFreesAll`, `NeverFreesReachable` |
| `Destroy` | 2 objects besides context and global object, 1 property, 1 handle, callbacks 1 deep, 1 lost reference per object, fair native code | `TypeOK`, `RefBalance`, `HeldHandleValid`, `NativeReturns` |
| `Registry` | 2 threads, 2 callbacks used twice each, 2 ids, 2 functions | `SoleCallbackRegistered`, `NoStaleEntry`, `DestroyEmptiesMap` |
| `Jobs` | 3 jobs, 2 errors, 5 frames | `JobsInOrder`, `ResultMeansDrained`, `CallbackExceptionKept` |
| `Collector` | every graph over 2 objects with 2 slots, a var ref and the context, collected twice | `CodeAsserts`, `NextElementStays`, `NoDanglingSlot`, `NothingForgotten`, `ImplementsRunGC`, `CollectionEnds` |
| `Bindings` | 2 threads, 2 names | `Mirrored` |
| `Conversion` | all numbers of the scaled-down widths | `NumberSurvives`, `ClassByNumber`, `TypeofKept` |
| `Promises` | 3 promises, one of them with its own `then`, 1 plain value, 1 thenable, all combinators, 1 async function, handlers 2 deep | `OneResolver`, `ReactionsInOrder`, `ResumedOnce`, `CombinatorComplete`, `Adoption` |
| `AsyncGenerators` | 5 requests | `OneCarrier`, `AnswersInOrder`, `FrameFreedOnce`, `HeadAnswered` |
| `Modules` | all graphs of up to 3 requirements over 3 files, 3 definitions, 2 calls from outside at a time | `BodyOnce`, `MarksMatchStack`, `LinkedBeforeRun`, `SuccessMeansEvaluated`, `CallsEnd` |

`Collector` and `Modules` also check the `TypeOK` of their module; in `Bindings`,
`BoundaryCrossing`, `Promises` and `AsyncGenerators` it documents the types.

* `RefBalance`: each count is the number of slots, roots, `values` entries and
  lost references that stand for it.  A missing or superfluous `JS_FreeValue`
  anywhere breaks it at once.
* `HeldHandleValid`: while `values`, an active callback's frame or the context
  keeps the object of a handle, the handle denotes that very object.
* `NeverFreesReachable`: no step frees what something outside the heap leads to.
* `DestroyFreesAll`: with nothing lost, destroy leaves nothing, which is what
  `JS_FreeRuntime` asserts.
* `NativeReturns`: a cascade and the destructor come to their end.
* `SoleCallbackRegistered`: a callback that was passed once, under an id of its
  own, is found as long as its function lives.
* `NoStaleEntry`: no entry of the map outlives what it is for, except those a
  failed call leaves (`orphan`).
* `DestroyEmptiesMap`: after destroy, only calls that overlapped it have entries.
* `JobsInOrder`: jobs start once each and in the order they were queued, although
  a job may start while an earlier one is still running (its callback made a call),
  a failing job ends the loop, and a pending Java exception skips it.
* `ResultMeansDrained`: a call that ran a script and gives Java a result leaves no
  job queued, also none of those that failed calls or accessors left behind.
* `CallbackExceptionKept`: what a callback threw stays pending until Java code sees
  it; errors of the script, of jobs and of `onError` do not replace it.

* `CodeAsserts`, `NextElementStays`: the assertions in the collector's passes hold,
  and the element a pass has saved as its next one is still in its list.
* `NoDanglingSlot`, `NothingForgotten`: no slot of a live object refers to memory that
  was given back, and every object that was freed gives its memory back.
* `CollectionEnds`: a collection ends, whatever the graph.
* `Mirrored`: what a script reads under a name is what Java has bound to it, converted,
  unless the mirror of the name was given up in one of the ways listed there.  The next
  `setAttribute` brings it back, but not when the name is fixed.  So it does not say that the
  code keeps the two in step, which it does not: a removed attribute, a direct `put`, a
  value that is rejected, a loop that breaks off and a failing write all lose a name.
* `ImplementsRunGC`: the passes free exactly what nothing outside the heap leads to, and
  leave every other count as it was, less the references of the garbage.
* `NumberSurvives`: which numbers come back as the number they were; `ClassByNumber`:
  the class in which one arrives in Java depends on nothing but its value;
  `TypeofKept`: where `typeof` changes from number to bigint.
* `OneResolver`: a promise has exactly one way to be settled while it is pending and
  none afterwards; the "should never happen" of `fulfill_or_reject_promise` is true.
* `ReactionsInOrder`: every reaction runs once, in the order of registration, with the
  result of its promise.
* `ResumedOnce`: an async function has one reaction or job exactly while it waits.
* `CombinatorComplete`: `all`, `allSettled` and `any` give their array with every element
  in it, however often scripts call the element functions, and otherwise the result of an
  element.  One case is left out (`Twice`), because the code gets it wrong: the two functions
  of an element of `allSettled` do not share `alreadyCalled` (`quickjs.c` 46941-46952), so when
  a `then` method calls both the count is one too few and the array comes with a hole.
  TLC shows it in seconds when `~Twice(a)` is taken out.
* `Adoption`: a promise resolved with another one ends as that one does.
* `OneCarrier`: the assertions of `js_async_generator_resolve_function`, and that its queue
  is not empty when it answers.  `AnswersInOrder`, `FrameFreedOnce`, `HeadAnswered`:
  requests are answered in order and once, the frame is freed once, and the request at
  work is answered.
* `BodyOnce`: a module's body runs once.  `MarksMatchStack`: `eval_mark` is set for modules
  in progress and no others, while calls are in progress (after a failed call nobody would see
  a mark, since what is not evaluated is freed at once).  `LinkedBeforeRun`: nothing runs that is not linked,
  and `js_evaluate_module` never goes on with a module that was freed.
  `SuccessMeansEvaluated`: a call succeeds only for a module that was evaluated without an
  error or is in progress.  `CallsEnd`: every call of the loader ends.

Runs that show a disagreement between the code and what it or its comments say
(`findings` in `PROJECT.json` quotes the lines):

| run | property | what happens |
|---|---|---|
| `FreeRuntime` | `FreeRuntimeAssert` | a lost reference makes the assertion in `JS_FreeRuntime` fail |
| `ModuleList` | `RequirementsLoaded` | `execute` reads a module, resolving it fails because a file is missing; the module stays in the list, resolved, with a NULL requirement |

The modules state some more properties that do not hold.  No run is kept for them;
each is found violated in seconds when it is put as the only invariant (the last one
as the property) into the configuration named:

| property | configuration | what happens |
|---|---|---|
| `UnfreedHandleKept` | `Handles` | the client holds a function; `invokeFunction` on it releases the shared `values` entry; a script drops its own reference; the client's handle dangles |
| `InvokedFunctionKept` | `Handles` with two invocations and one handle | two threads invoke one function; the first one's `finally` frees it between the second one's lookup and call |
| `CallbackIdentified` | `Registry` | a callback passed twice: when the first function dies, the second one's id is gone |
| `ElementCallbackIdentified` | `Registry` | `JSArray.set` does not register the callback |
| `MapExclusive` | `Registry` | two threads are in the `HashMap` at once |
| `ReportsOwnError` | `Jobs` | a compiled script fails; `execute` runs a pending job, which catches an error of its own; `JS_GetException` then has nothing to report |
| `EveryRequestAnswered` | `AsyncGenerators` | two requests wait when the body ends; a completed generator answers one and leaves the loop |

### Bounds, and why they are enough

Two ordinary addresses are the least that allow a cycle of two, a cascade, an
address that is reused while another object lives, and a victim next to a
culprit.  One property name gives every object one outgoing reference besides
`Intrinsic`; an object can still be kept by one path and dropped by another, and
graphs that branch more are covered by the proofs of `NeverFreesReachable` and `RunGCImplemented`.  Two handles and an
invocation are two `JSObject`s of the same object and a third that frees what they rely
on, a stale handle next to a valid one at the same address, and a receiver and a value.
`MaxDepth = 1` in `Destroy` nests the whole API in a callback; deeper nesting adds
frames that do not interact except through `values`, and the proofs cover it.  Its two
ordinary objects are what a cascade needs: when one is the only owner of the other, freeing the
first makes the second one due.  The context and the global object lie on a built-in cycle
and are never part of a cascade.  `NativeReturns` is only checked there, so longer cascades are not
covered; every turn of the loop frees an object and makes none.
`MaxLost` bounds the leaks per object.  `MaxUse = 2` lets a callback have two
functions, which is where the registry gets it wrong.  Three jobs are one that
runs, one that it queues and one that was there before; five frames are the
client, a call, its job, the job's callback and a call of that; with two errors
one can meet another.  In `Collector` two slots per object make all
shapes of sharing and of cycles between two objects, and a second collection finds
what the first has left wrong.  Three promises are one to wait for, one that waits and
one that is made meanwhile, a chain of two adoptions, and a combinator over one that has its own
`then` and one that has not; `MaxThens` lets a reaction be
registered before and another after the promise is settled; the one call of an async function that
`MaxAsync` allows awaits again and again, up to `MaxThens` times for each promise; `MaxGen` bounds how often a
promise is resolved with a thenable that is resolved with one.  Five requests are more
than any state of a generator tells apart.  Three files make all circles, a diamond less
one edge, and a failure that two others depend on; two calls nest one loader in the body
of a module that another is evaluating.  The theorems hold for any
value of the constants of their modules; TLC's runs are the check that the definitions mean what
they should and that nothing holds because it never happens: the fault
definitions and the violations above depend on those cases.

Runs allow a state without successor where the system stops for good: when the wrapper is
destroyed, when all promises or requests of the instance are made and served, or when a
module call has followed an invalid pointer.  `Jobs`, `Collector` and `Conversion` check for
deadlock.

### Fairness

`FairSpec` assumes weak fairness of `NativeNext` only: the frees of a cascade and
the phases of the destructor are straight-line code and loops over in-memory
lists that wait for nothing.  Nothing is assumed of the client or of scripts.

`CycleCollector` assumes the same of the collector's steps.  `Promises` assumes weak
fairness of the jobs, for the loop runs until there are none (the client has to make
another call when a failing job has ended a loop), and of the end of handlers.
`AsyncGenerators` assumes that bodies, jobs and promises go on, and strong fairness of
what ends an execution: a body does not await for ever.  `Modules` assumes that the loader
goes on, and strong fairness of the end of a body: it may call the loader again and again,
but not for ever.  A script that never ends holds up the runtime in the code as well.

## What is proved

`JobLoopProofs` proves three theorems for any number of jobs, errors and frames,
from `JobLoopAssumption` (the bounds are natural numbers):

| theorem | statement |
|---|---|
| `JobsRunInOrder` | `Spec => []JobsInOrder` |
| `ResultsAreDrained` | `Spec => ResultMeansDrained` |
| `CallbackExceptionsKept` | `Spec => CallbackExceptionKept` |

Their inductive invariant adds to `JobsInOrder` the types and `StackShape`: the
client's frame is at the bottom and nowhere else, and below a job is a call that
is in its loop.  Without it a job that fails could hand its error to a frame that
is not in the loop, and a step might pop the client.  `ResultMeansDrained` follows
because of all steps that pop such a frame without an exception only `LoopEnd` is
left, and it requires an empty list.

`QuickJSWrapperProofs` begins with lemmas about the operators of `QuickJSHeap`: counting
slots (what one assignment does to the number of slots that hold a value), reference
counts and reachability.  The theorems on ownership rest on them:

| theorem | statement |
|---|---|
| `Invariance` | `Spec => []IndInv` |
| `TypeCorrect` | `Spec => []TypeOK` |
| `CountsExact` | `Spec => []RefBalance` |
| `HeldHandlesValid` | `Spec => []HeldHandleValid` |
| `DestroyComplete` | `Spec => []DestroyFreesAll` |
| `ReachableKept` | `Spec => NeverFreesReachable` |

They assume `HeapAssumption` and `WrapperAssumption`: the sets are finite, the
context and the global object are two different addresses, `NoPtr` is no address,
`Intrinsic` is no property name, the bounds are natural numbers.

The argument.  `RefBalance` is nearly inductive: every action moves references
between owners, and the counting lemmas say by how much a slot assignment changes
the number of slots that hold each object.  It needs `HeapShape`, because an
allocation counts on free memory being empty and unreferenced, and because the
context must not be the value of an ordinary property for its count to be what the
constructor and destructor think.  A handle that is held by `values`, a frame or
the context then is an owner of its object, so the object's count is positive and
`FreeZeroRefCount` cannot pick it; and the collector cannot either, since an owner
outside the slots makes the count exceed `Count(prop, p)`, which puts the object
in `ExternallyHeld`.  For a frame this needs `FrameShape` (the argument stays in
`root` until that callback returns), for the context handle `HandleShape` (it
denotes the global object, which the live context's `Intrinsic` slot owns), and
both need that a held handle implies a running wrapper.  `NeverFreesReachable` is
the same argument for everything `Reach` adds: an object a kept object leads to
has a slot as owner, so its count is not zero, and `Reach` is monotone, so the
collector keeps it.  `DestroyFreesAll` follows in the last step: `root` and
`values` are empty, nothing is lost, so no object is `ExternallyHeld`.

`CycleCollectorProofs` is about the passes of `JS_RunGC`, for any addresses, any object
graph and any order of the lists (`CollectorAssumption`: the sets are finite, the context
is one of the nodes that are no objects, `NoPtr` and `Intrinsic` are no members of them):

| theorem | statement |
|---|---|
| `TypeCorrect` | `Spec => []TypeOK` |
| `AssertsHold` | `Spec => []CodeAsserts` |
| `WalkedListKept` | `Spec => []NextElementStays` |
| `NeverDangling` | `Spec => []NoDanglingSlot` |
| `NothingIsForgotten` | `Spec => []NothingForgotten` |
| `RunGCImplemented` | `Spec => ImplementsRunGC` |

The invariant has one part per pass and rests on `Total`, the count a node had when the
collection began: what is left of the count, and what the slots of the nodes took off that
`gc_decref` or the freeing has been through.  `Total` at least covers the slots that hold
the node (`Counts`); the difference is what something outside the heap holds (`Held`).  In
`gc_decref` a node is on the temporary list exactly if its turn is over and nothing is left
of its count (`DecrefInv`), which is why `NextElementStays`.  In `gc_scan` everything kept
lies in each closed set that contains `Held` (`OnlyReached`); when it has ended, nothing kept
leads to the garbage (`Split`), so the kept nodes are the least such set, which is the one
the step of `QuickJSHeap` keeps.  The end of the second loop is that step, and all others
change nothing that the abstract heap sees.  `gc_free_cycles` needs `FreeInv`: an object that
was freed has no slot left, and outside `free_object` every var ref among the garbage has a
reference, so that only objects get to the zero reference count list.  With `RunGCImplemented` the
ownership theorems above, which take the collector as one step, hold of its passes.

`CallFunctionsProofs`, for any threads, callbacks, ids and functions
(`CallFunctionsAssumption`: `NoCallback` and `NoThread` are none, the bound is a number):

| theorem | statement |
|---|---|
| `TypeCorrect` | `Spec => []TypeOK` |
| `SoleCallbacksFound` | `Spec => []SoleCallbackRegistered` |
| `EntriesAccountedFor` | `Spec => []NoStaleEntry` |
| `MapEmptied` | `Spec => []DestroyEmptiesMap` |

The invariant has to follow a use of a callback from thread to function to thread:
`UsesCounted` says that a callback used once is at one of these places only, `SolesRegistered`
that it is in the map from the end of its `put` on.  `MonitorHeld` and `AloneInMap` say where the threads
can be together, `PhaseOfCalls` that `destroy` finds no native call in progress.

`AsyncGeneratorsProofs`, for any number of requests:

| theorem | statement |
|---|---|
| `CarriedByOne` | `Spec => []OneCarrier` |
| `AnsweredOnceInOrder` | `Spec => []AnswersInOrder` |
| `FreedExactlyOnce` | `Spec => []FrameFreedOnce` |

What makes them inductive: a last answer that was no value means that the generator has
ended (`LastMeansEnd`), the frame was freed exactly if it has (`FreedAtEnd`), and a generator whose
`js_promise_resolve` failed stays where it was (`LostIsStuck`).  `OneCarrier` is needed for the others:
without it a body could go on after the end.

`ValuesProofs` is about `Bindings` and `BoundaryCrossing`.  For any threads, names and
values: `AttributesMirrored`, `Spec => []Mirrored`.  A call that is between its write of the map and its write of the
global object must still hold what the map has (`RestIsCurrent`), unless another thread's
write has made it a race, which both must know (`RacesSeen`).  A write to a fixed name loses it,
so nothing has to be known of `fixed`.

And for every width of `int`, `long` and the exact integers of a double (`WidthAssumption`: they are in that order), so also for 2^31, 2^53 and 2^63:

| theorem | statement |
|---|---|
| `NumbersSurvive` | `CrossingSpec => []NumberSurvives` |
| `ClassFollowsNumber` | `CrossingSpec => []ClassByNumber` |
| `TypesKept` | `CrossingSpec => []TypeofKept` |

The lemmas `IntoScript` and `OutToJava` say what one conversion does.  The invariant adds that
what has been in Java before comes to a script in one form only (`Canonical`): an `int` as
INT, another exact integer as FLOAT64, a `long` beyond as a BigInt of at most 64 bits.

`PromisesProofs`, for any promises and values, any number of reactions, of pairs of resolving
functions and of handlers in progress (`PromisesAssumption`: the kinds of values are
different, and at least one thenable can be waited for):

| theorem | statement |
|---|---|
| `TypeCorrect` | `Spec => []TypeOK` |
| `SettledOnce` | `Spec => []OneResolver` |
| `ReactionsStartInOrder` | `Spec => []ReactionsInOrder` |
| `AwaitsResumeOnce` | `Spec => []ResumedOnce` |
| `CombinatorsComplete` | `Spec => []CombinatorComplete` |

The actions put several changes of the promises and the jobs together, so the parts of the
invariant are operators of these, and each building block has a lemma of its own: what
`Create`, `Settle`, `AddReaction` and the first job that starts do to the order of the
reactions (`Good`), to the ways a promise can be settled (`Ways`), and to the set of
reactions that are registered and not started (`Waits`).  Settling a promise makes no
difference to that set: its reactions only move from the promise into the list of jobs.  It is
what the rest of the invariant is about.  `Roles` says that the pairs of a combinator's
promise and those of an ordinary one are called by reactions of different kinds, so that
nobody but its elements settles the promise of a combinator; `OneAwait` that
one reaction of the set resumes a function that is suspended.  `Complete` has four parts: only
an element whose value is missing, and whose `then` is not its own, has a reaction in the set,
and one at most (`Linked`); the values that are there are those of the functions called, and
`remaining` counts the missing ones, plus one when an error ended the walk, unless both functions
of an element of `allSettled` were called (`Booked`); a value is the result of its element
(`Placed`); and what the property says of the end (`EndOf`).
Without `Ways`, which says which pair may be open (the last one made) and that a queued call
of `then` stands for it, a second result could reach a promise and be dropped.

`ModulesProofs`, for any files and whatever they require of each other, any number of
definitions and of calls (`ModulesAssumption`: there are finitely many names and
definitions, and each file has its requirements and at most one fault):

| theorem | statement |
|---|---|
| `Invariance` | `Spec => []IndInv` |
| `PlacementInvariance` | `Spec => []Placement` |
| `TypeCorrect` | `Spec => []TypeOK` |
| `BodiesRunOnce` | `Spec => []BodyOnce` |
| `MarksKept` | `Spec => []MarksMatchStack` |
| `LinkedWhenRun` | `Spec => []LinkedBeforeRun` |
| `SuccessReported` | `Spec => SuccessMeansEvaluated` |

The stack is the difficulty: what a call may rely on was established by calls that have
returned, and any body in between may have loaded, run and freed modules.  The invariant has
two halves.

* `Loads`.  A definition that is not resolved is the one the innermost call has just
  compiled or begins to resolve (`ResolvedAtOnce`), and a frame of the loader calls only the
  loader (`Innermost`): no script sees a module whose requirements are not known yet.  So what
  is linked is resolved, its requirements no longer change, and all of them that are in the
  list are linked too (`LinkedIsWhole`).  That nothing runs unlinked follows, for a frame that
  evaluates is about a linked module (`About`).  Linking keeps it because `Reached` is closed
  (`ReachedClosed`): whatever it stops at was linked before.
* `Evaluations`.  At most one frame evaluates a module (`InProgressOnce`), the mark says
  whether there is one (`MarkedInProgress`), and then the module was not evaluated before
  (`NotYetEvaluated`); so its body has started once if it was evaluated or still runs
  and never otherwise (`RunsCounted`).  The requirements that an evaluation has passed were
  evaluated without an error or are in progress in a frame further out
  (`RequirementsFulfilled`), and a call that has returned "ok" says so of its module
  (`OkMeansFulfilled`), which needs to know who called whom (`Chained`).

A second invariant, `Placement`, rests on the first and shows the other part of
`LinkedBeforeRun`: whenever `js_evaluate_module` is the innermost call, its module and all that
this requires are still in the list, although the bodies it has run may have made calls that
failed and freed modules.  An evaluation does anything but evaluate only in a body (`Ordered`),
so between an evaluation and a call that frees something there is a body.
`JS_EvalFunctionInternal` frees what is not evaluated, hence the module of that body as well:
the evaluation below will not be returned to (`Listed`), because the body ends with an invalid
pointer.  A module that is freed because it could not be resolved is not linked (`Unlinked`),
so no evaluation is about it, and no linked module requires it.  `Whole` says that the
requirements of a linked module stay in the list until it is evaluated; afterwards they may go.

Three lemmas say what adding, replacing and removing the innermost frame does to the stack.
A step that evaluates nothing keeps `Evaluations` as a whole (`QuietEvaluations`), which
covers all actions but those of `js_evaluate_module`.

The properties are about definitions: two that were compiled from the same file are two modules,
and each may run.  `RequirementsLoaded` does not hold (run `ModuleList`), so what
`LinkedBeforeRun` and `SuccessMeansEvaluated` say of every frame and every call they say of the
requirements that are still in the list.

All inductive invariants were checked with TLC on the instances of the runs before they
were proved.

Only model-checked: the liveness properties `NativeReturns`, `CollectionEnds`, `Adoption`,
`HeadAnswered` and `CallsEnd`.  Liveness under fairness is out of the prover's reach.  Every
invariant and every action property that a passing run checks is also proved.

## What is not modelled

* Destroying the wrapper from inside a callback or twice, and anything after a
  dangling pointer was followed: undefined from that step on.
* References to strings and BigInts, the arguments of pending jobs and
  `current_exception`.
* Calls without a net effect on the object graph: `jsonStringify`, `length`,
  `compile`, and an `evaluate` whose result is dropped because a job failed.
* The receiver a `JSFunction` keeps as an unretained address.
* Scripts that run inside a lookup of `then`, and between the calls of `then` on the elements
  of a combinator.
* The `JNIEnv` of the creating thread being used by others.
* `GLOBAL_SCOPE`, readers and writers of the script context; the contents of strings; the
  string building of the factory.
* `Promise.prototype.finally`, the rejection tracker (it prints), combinators over values
  that are no promises (they are put into promises first).
* Which export an import finds, module namespaces, `import.meta`, modules written in C:
  linking a module succeeds or fails.
* The parser, the byte code compiler and the interpreter, libbf, libregexp, libunicode and
  the `std` and `os` modules.  They are most of the lines of the repository, are third-party
  and sequential, and have no state that the parts above share; a script is what it can do
  to the modelled state.

## Plan

1. The receiver of a `JSFunction` in `QuickJSWrapper`.
2. An abstract specification of what the API promises a client (a handle denotes one
   object until it is freed), implemented by `QuickJSWrapper` for clients that do not share
   objects between handles.
3. The resolution of exports with its cycle check, and the factory's `quote`.
