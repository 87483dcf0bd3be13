------------------------------- MODULE JobLoop -------------------------------
(***************************************************************************)
(* Pending jobs and exceptions: the calls of one thread into QuickJS, the  *)
(* promise jobs they queue and run (executePendingJobLoop), and the two    *)
(* exceptions that can be pending, one of the runtime (current_exception)  *)
(* and one of the Java thread.                                             *)
(*                                                                         *)
(* The monitor of the wrapper lets one thread at a time into QuickJS, so   *)
(* there is one stack.  On top of the client's own code its frames are     *)
(* native calls, jobs that the loop of the call below runs, and Java       *)
(* callbacks that a script or a job has called; a callback may make native *)
(* calls again, which run jobs as well.                                    *)
(*                                                                         *)
(* Jobs are numbered in the order they are queued, errors in the order     *)
(* they are thrown; error 0 stands for none.                               *)
(***************************************************************************)
EXTENDS Integers, Sequences

CONSTANTS
    MaxJobs,    \* bound: jobs that are ever queued
    MaxErrors,  \* bound: errors that are ever thrown and not caught
    MaxDepth    \* bound: frames on the stack when Java and scripts call each other

ASSUME JobLoopAssumption == MaxJobs \in Nat /\ MaxErrors \in Nat /\ MaxDepth \in Nat

VARIABLES
    jobList,           \* rt->job_list
    current_exception, \* rt->current_exception
    javaException,     \* the exception pending in the JNI environment
    stack,             \* the frames, innermost last
    enqueued,          \* how many jobs have been queued
    errors,            \* how many errors have been thrown
    started            \* history: the jobs that were started, in order

vars == <<jobList, current_exception, javaException, stack, enqueued, errors, started>>

(* evaluate stands for evaluate, evaluateModule and call.  The other two   *)
(* may run an accessor or a toJSON but no jobs: getProperty, length and    *)
(* stringify report its error; setProperty, set and get do not look.       *)
RunsJobs == {"evaluate", "execute"}
Native   == RunsJobs \cup {"getProperty", "setProperty"}
Kind   == Native \cup {"client", "job", "callback"}

(* resolve: execute reads the bytecode and resolves its module; script:    *)
(* JS code runs; loop: in executePendingJobLoop; report: in                *)
(* throwJSException, where the script's onError handler runs; java,        *)
(* unchecked: Java code, entered without or with an exception pending.     *)
At == {"resolve", "script", "loop", "report", "java", "unchecked"}

Error == 0 .. MaxErrors

(* raised: the error the call ended with; got: the one JS_GetException     *)
(* returned when it was to be reported.                                    *)
Frame == [kind : Kind, at : At, raised : Error, got : Error]

NewFrame(k, a) == [kind |-> k, at |-> a, raised |-> 0, got |-> 0]

TypeOK ==
    /\ jobList \in Seq(1 .. MaxJobs)
    /\ current_exception \in Error
    /\ javaException \in {"none", "js", "callback"}
    /\ stack \in Seq(Frame)
    /\ enqueued \in 0 .. MaxJobs
    /\ errors \in Error
    /\ started \in Seq(1 .. MaxJobs)

Init ==
    /\ jobList = <<>>
    /\ current_exception = 0
    /\ javaException = "none"
    /\ stack = <<NewFrame("client", "java")>>
    /\ enqueued = 0
    /\ errors = 0
    /\ started = <<>>

---------------------------------------------------------------------------
Top == stack[Len(stack)]

Push(f) == stack' = Append(stack, f)
Below   == SubSeq(stack, 1, Len(stack) - 1)
Pop     == stack' = Below
Goto(f) == stack' = [stack EXCEPT ![Len(stack)] = f]

JavaRuns   == Top.kind \in {"client", "callback"}
ScriptRuns == Top.at \in {"script", "report"}

NewError == errors < MaxErrors /\ errors' = errors + 1

(* Java code calls a native method.                                        *)
Enter(k) ==
    /\ JavaRuns /\ Len(stack) < MaxDepth
    /\ javaException = "none" \/ Top.at = "unchecked"
    /\ Push(NewFrame(k, IF k = "execute" THEN "resolve" ELSE "script"))
    /\ UNCHANGED <<jobList, current_exception, javaException, enqueued, errors, started>>

(* An argument is null where it must not be, or of a type toJSValue does   *)
(* not know: the call is not made, except that setProperty and set go on   *)
(* with a bad value while the Java exception is pending.                   *)
ArgumentRejected(k) ==
    /\ JavaRuns /\ Len(stack) < MaxDepth
    /\ javaException = "none"
    /\ javaException' = "js"
    /\ IF k = "setProperty" THEN Push(NewFrame(k, "script")) ELSE UNCHANGED stack
    /\ UNCHANGED <<jobList, current_exception, enqueued, errors, started>>

(* JS_ReadObject fails: the error is reported at once.                     *)
ReadFails ==
    /\ Top.at = "resolve"
    /\ NewError
    /\ current_exception' = 0
    /\ Goto([Top EXCEPT !.at = "report", !.raised = errors + 1, !.got = errors + 1])
    /\ UNCHANGED <<jobList, javaException, enqueued, started>>

(* JS_ResolveModule: a failure is not reported to Java, and the exception  *)
(* stays in the runtime.                                                   *)
Resolve ==
    /\ Top.at = "resolve"
    /\ Goto([Top EXCEPT !.at = "script"])
    /\ UNCHANGED <<jobList, current_exception, javaException, enqueued, errors, started>>

ResolveFails ==
    /\ Top.at = "resolve"
    /\ NewError
    /\ current_exception' = errors + 1
    /\ Pop
    /\ UNCHANGED <<jobList, javaException, enqueued, started>>

---------------------------------------------------------------------------
(* What running JS code does.                                              *)

(* A promise is settled or resolved: JS_EnqueueJob.                        *)
EnqueueJob ==
    /\ ScriptRuns
    /\ enqueued < MaxJobs
    /\ enqueued' = enqueued + 1
    /\ jobList' = Append(jobList, enqueued + 1)
    /\ UNCHANGED <<current_exception, javaException, stack, errors, started>>

(* An error is thrown and caught, by a catch clause or by the job that     *)
(* rejects a promise with it.  Nothing is left in current_exception.       *)
CatchError ==
    /\ ScriptRuns
    /\ current_exception # 0
    /\ current_exception' = 0
    /\ UNCHANGED <<jobList, javaException, stack, enqueued, errors, started>>

(* A callback is called.  With a Java exception pending JNI leaves open    *)
(* what the call does: nothing, which is no step, or it is entered.        *)
JsFuncCall ==
    /\ ScriptRuns /\ Len(stack) < MaxDepth
    /\ Push(NewFrame("callback", IF javaException = "none" THEN "java" ELSE "unchecked"))
    /\ UNCHANGED <<jobList, current_exception, javaException, enqueued, errors, started>>

(* It returns, or throws, also what a nested call has thrown.  jsFuncCall  *)
(* does not look: the script goes on with undefined as the result.  A      *)
(* result of an unknown type is a throw that the script's own end follows. *)
CallbackReturn(throws) ==
    /\ Top.kind = "callback"
    /\ javaException' = IF throws \/ javaException # "none" THEN "callback" ELSE "none"
    /\ Pop
    /\ UNCHANGED <<jobList, current_exception, enqueued, errors, started>>

(* Java code catches the exception a native call has raised.               *)
JavaCatch ==
    /\ JavaRuns
    /\ javaException # "none"
    /\ javaException' = "none"
    /\ UNCHANGED <<jobList, current_exception, stack, enqueued, errors, started>>

---------------------------------------------------------------------------
(* The end of the script of a native call.                                 *)

(* executePendingJobLoop does nothing if a Java exception is pending.      *)
ScriptReturn ==
    /\ Top.kind \in Native /\ Top.at = "script"
    /\ IF Top.kind \in RunsJobs /\ javaException = "none"
       THEN Goto([Top EXCEPT !.at = "loop"]) ELSE Pop
    /\ UNCHANGED <<jobList, current_exception, javaException, enqueued, errors, started>>

(* evaluate, call and getProperty report the error at once, execute runs   *)
(* the jobs first, and setProperty leaves it in the runtime.               *)
ScriptThrow ==
    /\ Top.kind \in Native /\ Top.at = "script"
    /\ NewError
    /\ LET e == errors + 1
       IN  IF Top.kind \in {"execute", "setProperty"}
           THEN /\ current_exception' = e
                /\ IF Top.kind = "execute" /\ javaException = "none"
                   THEN Goto([Top EXCEPT !.at = "loop", !.raised = e]) ELSE Pop
           ELSE /\ current_exception' = 0
                /\ Goto([Top EXCEPT !.at = "report", !.raised = e, !.got = e])
    /\ UNCHANGED <<jobList, javaException, enqueued, started>>

---------------------------------------------------------------------------
(* executePendingJobLoop.                                                  *)

(* Fault: the job is taken off the list when it is done, not before.       *)
StartJob_KeepsQueued ==
    /\ Top.at = "loop"
    /\ jobList # <<>>
    /\ Len(started) < MaxJobs
    /\ started' = Append(started, Head(jobList))
    /\ Push(NewFrame("job", "script"))
    /\ UNCHANGED <<jobList, current_exception, javaException, enqueued, errors>>

(* JS_ExecutePendingJob takes the first job off the list and runs it.      *)
StartJob ==
    /\ Top.at = "loop"
    /\ jobList # <<>>
    /\ jobList' = Tail(jobList)
    /\ started' = Append(started, Head(jobList))
    /\ Push(NewFrame("job", "script"))
    /\ UNCHANGED <<current_exception, javaException, enqueued, errors>>

JobReturn ==
    /\ Top.kind = "job"
    /\ Pop
    /\ UNCHANGED <<jobList, current_exception, javaException, enqueued, errors, started>>

(* The loop stops at a job that fails; the later ones stay queued.         *)
JobThrow ==
    /\ Top.kind = "job"
    /\ NewError
    /\ current_exception' = 0
    /\ LET e == errors + 1
       IN  stack' = [Below EXCEPT ![Len(stack) - 1] =
                        [@ EXCEPT !.at = "report", !.raised = e, !.got = e]]
    /\ UNCHANGED <<jobList, javaException, enqueued, started>>

(* Fault: one job per call.                                                *)
LoopEnd_OneJob ==
    /\ Top.at = "loop"
    /\ Pop
    /\ UNCHANGED <<jobList, current_exception, javaException, enqueued, errors, started>>

(* No job is left.  evaluate and call return their result; execute looks   *)
(* only now whether its script has failed, and reports current_exception.  *)
LoopEnd ==
    /\ Top.at = "loop"
    /\ jobList = <<>>
    /\ IF Top.raised = 0
       THEN Pop /\ UNCHANGED current_exception
       ELSE /\ Goto([Top EXCEPT !.at = "report", !.got = current_exception])
            /\ current_exception' = 0
    /\ UNCHANGED <<jobList, javaException, enqueued, errors, started>>

(* Fault: the error replaces the exception that is pending.                *)
ThrowJSException_Replaces(threw) ==
    /\ Top.at = "report"
    /\ IF threw THEN NewError /\ current_exception' = errors + 1
                ELSE UNCHANGED <<errors, current_exception>>
    /\ javaException' = "js"
    /\ Pop
    /\ UNCHANGED <<jobList, enqueued, started>>

(* throwJSException, once onError is done: an error the handler threw      *)
(* stays in the runtime, and the Java exception of a callback comes first. *)
ThrowJSException(threw) ==
    /\ Top.at = "report"
    /\ IF threw THEN NewError /\ current_exception' = errors + 1
                ELSE UNCHANGED <<errors, current_exception>>
    /\ javaException' = IF javaException = "none" THEN "js" ELSE javaException
    /\ Pop
    /\ UNCHANGED <<jobList, enqueued, started>>

Next ==
    \/ \E k \in Native : Enter(k)
    \/ \E k \in {"evaluate", "setProperty"} : ArgumentRejected(k)
    \/ Resolve \/ ReadFails \/ ResolveFails
    \/ EnqueueJob \/ CatchError \/ JsFuncCall \/ JavaCatch
    \/ \E b \in BOOLEAN : CallbackReturn(b) \/ ThrowJSException(b)
    \/ ScriptReturn \/ ScriptThrow
    \/ StartJob \/ JobReturn \/ JobThrow \/ LoopEnd

Spec == Init /\ [][Next]_vars

---------------------------------------------------------------------------
(* The client's code is at the bottom of the stack and nowhere else, and   *)
(* below a job is the call whose loop runs it.                             *)
StackShape ==
    /\ Len(stack) > 0
    /\ stack[1] = NewFrame("client", "java")
    /\ \A i \in 2 .. Len(stack) :
          /\ stack[i].kind # "client"
          /\ stack[i].kind = "job" => stack[i - 1].at = "loop"

(* What must hold.                                                         *)

(* Every job is started once, in the order the jobs were queued, and none  *)
(* is lost: also when a callback of one job makes a call that runs the     *)
(* others, when a job fails, when the loop is skipped because of a Java    *)
(* exception, or when a call that runs no jobs has queued some.            *)
JobsInOrder ==
    /\ enqueued = Len(started) + Len(jobList)
    /\ \A i \in 1 .. Len(started) : started[i] = i
    /\ \A i \in 1 .. Len(jobList) : jobList[i] = Len(started) + i

(* A native call that has run a script for Java and gives it a result, not *)
(* an exception, leaves no job behind: not those queued by the script, by  *)
(* other jobs, or by the calls before it that ran none or failed.          *)
ResultMeansDrained ==
    [][/\ Len(stack') < Len(stack)
       /\ Top.kind \in RunsJobs /\ Top.at # "resolve"
       /\ javaException' = "none"
       => jobList' = <<>>]_vars

(* The exception a callback has thrown reaches Java code: no error that    *)
(* the script, a later job or onError throws meanwhile takes its place.    *)
CallbackExceptionKept ==
    [][javaException = "callback" /\ ~JavaRuns => javaException' = "callback"]_vars

(* JS_GetException returns "the pending exception (cannot be called        *)
(* twice)" (quickjs.c 6339): what a call reports is what it ended with.    *)
ReportsOwnError ==
    \A i \in 1 .. Len(stack) : stack[i].at = "report" => stack[i].got = stack[i].raised
=============================================================================
