---------------------------- MODULE JobLoopProofs ----------------------------
(* Proofs about JobLoop, for any number of jobs, errors and frames.        *)
EXTENDS JobLoop, SequenceTheorems, TLAPS

IndInv == TypeOK /\ StackShape /\ JobsInOrder

---------------------------------------------------------------------------
(* Pushing a frame of a call, a job or a callback keeps the stack's shape. *)
LEMMA PushKeepsShape ==
    ASSUME stack \in Seq(Frame), StackShape,
           NEW f \in Frame, f.kind # "client", f.kind = "job" => Top.at = "loop", Push(f)
    PROVE  stack' \in Seq(Frame) /\ StackShape'
  BY DEF StackShape, Push, Top

(* A frame that is not the client's is not the only one.                   *)
LEMMA NotAlone ==
    ASSUME stack \in Seq(Frame), StackShape,
           Top.kind # "client" \/ Top.at # "java"
    PROVE  Len(stack) \in Nat /\ Len(stack) > 1 /\ Top \in Frame /\ Top.kind # "client"
<1>1. Len(stack) \in Nat /\ Len(stack) > 0
  BY DEF StackShape
<1>2. Len(stack) # 1
  BY DEF StackShape, Top, NewFrame
<1>3. Len(stack) \in 2 .. Len(stack)
  <2> DEFINE n == Len(stack)
  <2>1. n \in Nat /\ n > 0 /\ n # 1
    BY <1>1, <1>2
  <2> HIDE DEF n
  <2>2. n \in 2 .. n
    BY <2>1
  <2> QED
    BY <2>2 DEF n
<1>4. Top \in Frame
  BY <1>1 DEF Top
<1>5. Top.kind # "client"
  BY <1>3 DEF StackShape, Top
<1> QED
  BY <1>1, <1>3, <1>4, <1>5

(* Popping such a frame keeps the stack's shape.                           *)
LEMMA PopKeepsShape ==
    ASSUME stack \in Seq(Frame), StackShape, Len(stack) > 1, Pop
    PROVE  stack' \in Seq(Frame) /\ StackShape' /\ Len(stack') = Len(stack) - 1
  BY DEF StackShape, Pop, Below

(* So does moving it to another place.                                     *)
LEMMA GotoKeepsShape ==
    ASSUME stack \in Seq(Frame), StackShape, Len(stack) > 1,
           NEW f \in Frame, f.kind = Top.kind, Goto(f)
    PROVE  stack' \in Seq(Frame) /\ StackShape' /\ Len(stack') = Len(stack)
  BY DEF StackShape, Goto, Top

(* The error a step throws is one of the numbered errors.                  *)
LEMMA NewErrorType ==
    ASSUME errors \in Error, NewError
    PROVE  errors' \in Error /\ errors + 1 \in Error
  BY JobLoopAssumption DEF Error, NewError

---------------------------------------------------------------------------
(* The stack after each kind of step: it is typed and has its shape.  Every *)
(* step that leaves a frame or moves in one is a step of a frame above the *)
(* client's.                                                               *)
LEMMA StackKept ==
    ASSUME IndInv, Next
    PROVE  stack' \in Seq(Frame) /\ StackShape'
<1> USE DEF IndInv, TypeOK
<1>1. ASSUME NEW k \in Native, Enter(k) PROVE stack' \in Seq(Frame) /\ StackShape'
  <2> DEFINE f == NewFrame(k, IF k = "execute" THEN "resolve" ELSE "script")
  <2>1. f \in Frame /\ f.kind \notin {"client", "job"}
    BY JobLoopAssumption DEF NewFrame, Frame, Kind, At, Native, RunsJobs, Error
  <2>2. Push(f)
    BY <1>1 DEF Enter
  <2> QED
    BY <2>1, <2>2, PushKeepsShape
<1>2. CASE Resolve
  <2>1. Len(stack) > 1 /\ Top \in Frame /\ Top.kind # "client"
    BY <1>2, NotAlone DEF Resolve
  <2> DEFINE f == [Top EXCEPT !.at = "script"]
  <2>2. f \in Frame /\ f.kind = Top.kind
    BY <2>1 DEF Frame, At
  <2>3. Goto(f)
    BY <1>2 DEF Resolve
  <2> QED
    BY <2>1, <2>2, <2>3, GotoKeepsShape
<1>3. CASE ResolveFails
  <2>1. Len(stack) > 1
    BY <1>3, NotAlone DEF ResolveFails
  <2> QED
    BY <1>3, <2>1, PopKeepsShape DEF ResolveFails
<1>0. ASSUME NEW k \in {"evaluate", "setProperty"}, ArgumentRejected(k)
      PROVE  stack' \in Seq(Frame) /\ StackShape'
  <2> DEFINE f == NewFrame(k, "script")
  <2>1. f \in Frame /\ f.kind \notin {"client", "job"}
    BY JobLoopAssumption DEF NewFrame, Frame, Kind, At, Native, RunsJobs, Error
  <2>2. CASE Push(f)
    BY <2>1, <2>2, PushKeepsShape
  <2>3. CASE stack' = stack
    BY <2>3 DEF StackShape
  <2> QED
    BY <1>0, <2>2, <2>3 DEF ArgumentRejected
<1>14. CASE ReadFails
  <2>1. Len(stack) > 1 /\ Top \in Frame /\ Top.kind # "client"
    BY <1>14, NotAlone DEF ReadFails
  <2>2. errors + 1 \in Error
    BY <1>14, NewErrorType DEF ReadFails
  <2> DEFINE f == [Top EXCEPT !.at = "report", !.raised = errors + 1, !.got = errors + 1]
  <2>3. f \in Frame /\ f.kind = Top.kind
    BY <2>1, <2>2 DEF Frame, At
  <2>4. Goto(f)
    BY <1>14 DEF ReadFails
  <2> QED
    BY <2>1, <2>3, <2>4, GotoKeepsShape
<1>4. CASE EnqueueJob \/ CatchError \/ JavaCatch
  BY <1>4 DEF EnqueueJob, CatchError, JavaCatch, StackShape
<1>5. CASE JsFuncCall
  <2> DEFINE f == NewFrame("callback", IF javaException = "none" THEN "java" ELSE "unchecked")
  <2>1. f \in Frame /\ f.kind \notin {"client", "job"}
    BY JobLoopAssumption DEF NewFrame, Frame, Kind, At, Native, RunsJobs, Error
  <2>2. Push(f)
    BY <1>5 DEF JsFuncCall
  <2> QED
    BY <2>1, <2>2, PushKeepsShape
<1>6. ASSUME NEW b \in BOOLEAN, CallbackReturn(b) PROVE stack' \in Seq(Frame) /\ StackShape'
  <2>1. Len(stack) > 1
    BY <1>6, NotAlone DEF CallbackReturn
  <2> QED
    BY <1>6, <2>1, PopKeepsShape DEF CallbackReturn
<1>7. ASSUME NEW b \in BOOLEAN, ThrowJSException(b) PROVE stack' \in Seq(Frame) /\ StackShape'
  <2>1. Len(stack) > 1
    BY <1>7, NotAlone DEF ThrowJSException
  <2> QED
    BY <1>7, <2>1, PopKeepsShape DEF ThrowJSException
<1>8. CASE ScriptReturn
  <2>1. Len(stack) > 1 /\ Top \in Frame /\ Top.kind # "client"
    BY <1>8, NotAlone DEF ScriptReturn
  <2> DEFINE f == [Top EXCEPT !.at = "loop"]
  <2>2. f \in Frame /\ f.kind = Top.kind
    BY <2>1 DEF Frame, At
  <2>3. Goto(f) \/ Pop
    BY <1>8 DEF ScriptReturn
  <2> QED
    BY <2>1, <2>2, <2>3, GotoKeepsShape, PopKeepsShape
<1>9. CASE ScriptThrow
  <2>1. Len(stack) > 1 /\ Top \in Frame /\ Top.kind # "client"
    BY <1>9, NotAlone DEF ScriptThrow
  <2>2. errors + 1 \in Error
    BY <1>9, NewErrorType DEF ScriptThrow
  <2> DEFINE f == [Top EXCEPT !.at = "loop", !.raised = errors + 1]
             g == [Top EXCEPT !.at = "report", !.raised = errors + 1, !.got = errors + 1]
  <2>3. f \in Frame /\ f.kind = Top.kind /\ g \in Frame /\ g.kind = Top.kind
    BY <2>1, <2>2 DEF Frame, At
  <2>4. Goto(f) \/ Goto(g) \/ Pop
    BY <1>9 DEF ScriptThrow
  <2> QED
    BY <2>1, <2>3, <2>4, GotoKeepsShape, PopKeepsShape
<1>10. CASE StartJob
  <2> DEFINE f == NewFrame("job", "script")
  <2>1. f \in Frame /\ f.kind # "client"
    BY JobLoopAssumption DEF NewFrame, Frame, Kind, At, Native, RunsJobs, Error
  <2>2. Push(f)
    BY <1>10 DEF StartJob
  <2> QED
    BY <1>10, <2>1, <2>2, PushKeepsShape DEF StartJob
<1>11. CASE JobReturn
  <2>1. Len(stack) > 1
    BY <1>11, NotAlone DEF JobReturn
  <2> QED
    BY <1>11, <2>1, PopKeepsShape DEF JobReturn
<1>12. CASE JobThrow
  <2> DEFINE n == Len(stack) - 1
             f == [stack[n] EXCEPT !.at = "report", !.raised = errors + 1, !.got = errors + 1]
  <2>1. Len(stack) \in Nat /\ Len(stack) > 1
    BY <1>12, NotAlone DEF JobThrow
  <2>2. stack[n].at = "loop"
    BY <1>12, <2>1, SMTT(30) DEF JobThrow, Top, StackShape
  <2>3. n > 1
    BY <2>1, <2>2, SMTT(30) DEF StackShape, NewFrame
  <2>4. stack[n] \in Frame /\ stack[n].kind # "client"
    BY <2>1, <2>3 DEF StackShape
  <2>5. errors + 1 \in Error
    BY <1>12, NewErrorType DEF JobThrow
  <2>6. f \in Frame /\ f.kind = stack[n].kind
    BY <2>4, <2>5 DEF Frame, At
  <2>7. Below \in Seq(Frame) /\ Len(Below) = n /\ \A i \in 1 .. n : Below[i] = stack[i]
    BY <2>1 DEF Below
  <2>8. stack' = [Below EXCEPT ![n] = f]
    <3>1. stack' = [Below EXCEPT ![n] = [Below[n] EXCEPT !.at = "report",
                                            !.raised = errors + 1, !.got = errors + 1]]
      BY <1>12 DEF JobThrow
    <3>2. Below[n] = stack[n]
      BY <2>1, <2>3, <2>7
    <3> QED
      BY <3>1, <3>2
  <2>9. stack' \in Seq(Frame) /\ Len(stack') = n
    BY <2>1, <2>3, <2>6, <2>7, <2>8
  <2>10. \A i \in 1 .. n : stack'[i] = IF i = n THEN f ELSE stack[i]
    BY <2>1, <2>3, <2>7, <2>8
  <2>11. stack'[1] = stack[1]
    BY <2>1, <2>3, <2>10
  <2>12. ASSUME NEW i \in 2 .. n
         PROVE  stack'[i].kind # "client" /\ (stack'[i].kind = "job" => stack'[i - 1].at = "loop")
    <3>1. stack'[i].kind = stack[i].kind /\ stack'[i - 1] = stack[i - 1]
      <4>1. i \in 1 .. n /\ i - 1 \in 1 .. n /\ i - 1 # n
        BY <2>1
      <4>2. stack'[i - 1] = stack[i - 1]
        BY <2>10, <4>1
      <4>3. stack'[i] = IF i = n THEN f ELSE stack[i]
        BY <2>10, <4>1
      <4> QED
        BY <2>6, <4>2, <4>3
    <3>2. i \in 2 .. Len(stack)
      BY <2>1
    <3> QED
      BY <3>1, <3>2 DEF StackShape
  <2> QED
    BY <2>3, <2>9, <2>11, <2>12 DEF StackShape
<1>13. CASE LoopEnd
  <2>1. Len(stack) > 1 /\ Top \in Frame /\ Top.kind # "client"
    BY <1>13, NotAlone DEF LoopEnd
  <2> DEFINE f == [Top EXCEPT !.at = "report", !.got = current_exception]
  <2>2. f \in Frame /\ f.kind = Top.kind
    BY <2>1 DEF Frame, At
  <2>3. Goto(f) \/ Pop
    BY <1>13 DEF LoopEnd
  <2> QED
    BY <2>1, <2>2, <2>3, GotoKeepsShape, PopKeepsShape
<1> QED
  BY <1>0, <1>1, <1>2, <1>3, <1>4, <1>5, <1>6, <1>7, <1>8, <1>9, <1>10, <1>11, <1>12, <1>13,
     <1>14 DEF Next

---------------------------------------------------------------------------
(* The jobs after each step.  Only two steps touch the list: one appends   *)
(* the next number, the other moves the first element to started.          *)
LEMMA JobsKept ==
    ASSUME IndInv, Next
    PROVE  /\ jobList' \in Seq(1 .. MaxJobs) /\ started' \in Seq(1 .. MaxJobs)
           /\ enqueued' \in 0 .. MaxJobs
           /\ JobsInOrder'
<1> USE DEF IndInv, TypeOK
<1>1. CASE UNCHANGED <<jobList, started, enqueued>>
  BY <1>1 DEF JobsInOrder
<1>2. CASE EnqueueJob
  <2>1. /\ enqueued < MaxJobs /\ enqueued' = enqueued + 1
        /\ jobList' = Append(jobList, enqueued + 1) /\ started' = started
    BY <1>2 DEF EnqueueJob
  <2>2. enqueued + 1 \in 1 .. MaxJobs
    BY <2>1, JobLoopAssumption
  <2> DEFINE n == Len(jobList)
             s == Len(started)
  <2>3. n \in Nat /\ s \in Nat /\ enqueued = s + n /\ enqueued + 1 = s + n + 1
    BY DEF JobsInOrder
  <2>4. /\ jobList' \in Seq(1 .. MaxJobs) /\ Len(jobList') = n + 1
        /\ \A i \in 1 .. n : jobList'[i] = jobList[i]
        /\ jobList'[n + 1] = enqueued + 1
    BY <2>1, <2>2
  <2>5. ASSUME NEW i \in 1 .. n + 1 PROVE jobList'[i] = s + i
    <3>1. CASE i = n + 1
      BY <2>3, <2>4, <3>1
    <3>2. CASE i # n + 1
      <4>1. i \in 1 .. n
        BY <2>3, <3>2
      <4> QED
        BY <2>4, <4>1 DEF JobsInOrder
    <3> QED
      BY <3>1, <3>2
  <2>6. \A i \in 1 .. Len(jobList') : jobList'[i] = Len(started') + i
    BY <2>1, <2>4, <2>5
  <2>7. enqueued' = Len(started') + Len(jobList')
    BY <2>1, <2>3, <2>4
  <2>8. \A i \in 1 .. Len(started') : started'[i] = i
    BY <2>1 DEF JobsInOrder
  <2> QED
    BY <2>1, <2>2, <2>4, <2>6, <2>7, <2>8, JobLoopAssumption DEF JobsInOrder
<1>3. CASE StartJob
  <2>1. /\ jobList # <<>> /\ jobList' = Tail(jobList)
        /\ started' = Append(started, Head(jobList)) /\ enqueued' = enqueued
    BY <1>3 DEF StartJob
  <2>2. Len(jobList) > 0 /\ Head(jobList) = jobList[1] /\ Head(jobList) \in 1 .. MaxJobs
    <3>1. Len(jobList) \in Nat /\ Len(jobList) # 0
      BY <2>1, EmptySeq
    <3>2. 1 \in 1 .. Len(jobList)
      BY <3>1
    <3>3. jobList[1] \in 1 .. MaxJobs
      BY <3>2, ElementOfSeq
    <3> QED
      BY <2>1, <3>1, <3>3
  <2>3. Head(jobList) = Len(started) + 1
    BY <2>2 DEF JobsInOrder
  <2> QED
    BY <2>1, <2>2, <2>3 DEF JobsInOrder
<1>4. EnqueueJob \/ StartJob \/ UNCHANGED <<jobList, started, enqueued>>
  BY DEF Next, Enter, ArgumentRejected, Resolve, ReadFails, ResolveFails, CatchError,
     JsFuncCall, JavaCatch, CallbackReturn,
         ThrowJSException, ScriptReturn, ScriptThrow, JobReturn, JobThrow, LoopEnd
<1> QED
  BY <1>1, <1>2, <1>3, <1>4

(* Errors and exceptions keep their types.                                 *)
LEMMA ErrorsKept ==
    ASSUME IndInv, Next
    PROVE  /\ current_exception' \in Error /\ errors' \in Error
           /\ javaException' \in {"none", "js", "callback"}
<1> USE DEF IndInv, TypeOK
<1>1. 0 \in Error
  BY JobLoopAssumption DEF Error
<1>2. errors' = errors \/ NewError
  BY DEF Next, Enter, ArgumentRejected, Resolve, ReadFails, ResolveFails, EnqueueJob,
     CatchError, JsFuncCall, JavaCatch,
         CallbackReturn, ThrowJSException, ScriptReturn, ScriptThrow, StartJob, JobReturn,
         JobThrow, LoopEnd
<1>3. current_exception' \in {current_exception, 0} \/ (NewError /\ current_exception' = errors + 1)
  BY DEF Next, Enter, ArgumentRejected, Resolve, ReadFails, ResolveFails, EnqueueJob,
     CatchError, JsFuncCall, JavaCatch,
         CallbackReturn, ThrowJSException, ScriptReturn, ScriptThrow, StartJob, JobReturn,
         JobThrow, LoopEnd
<1>4. javaException' \in {javaException, "none", "js", "callback"}
  BY DEF Next, Enter, ArgumentRejected, Resolve, ReadFails, ResolveFails, EnqueueJob,
     CatchError, JsFuncCall, JavaCatch,
         CallbackReturn, ThrowJSException, ScriptReturn, ScriptThrow, StartJob, JobReturn,
         JobThrow, LoopEnd
<1> QED
  BY <1>1, <1>2, <1>3, <1>4, NewErrorType

(* The inductive invariant holds throughout.                               *)
THEOREM Invariance == Spec => []IndInv
<1>1. Init => IndInv
  <2>1. NewFrame("client", "java") \in Frame
    BY JobLoopAssumption DEF NewFrame, Frame, Kind, At, Error
  <2> QED
    BY <2>1, JobLoopAssumption DEF Init, IndInv, TypeOK, StackShape, JobsInOrder, Error
<1>2. IndInv /\ [Next]_vars => IndInv'
  <2> SUFFICES ASSUME IndInv, [Next]_vars PROVE IndInv'
    OBVIOUS
  <2>1. CASE Next
    BY <2>1, StackKept, JobsKept, ErrorsKept DEF IndInv, TypeOK
  <2>2. CASE UNCHANGED vars
    BY <2>2 DEF vars, IndInv, TypeOK, StackShape, JobsInOrder
  <2> QED
    BY <2>1, <2>2
<1> QED
  BY <1>1, <1>2, PTL DEF Spec

(* Every job is started once and in order, for any number of jobs, nested  *)
(* calls and errors.                                                       *)
THEOREM JobsRunInOrder == Spec => []JobsInOrder
<1>1. IndInv => JobsInOrder
  BY DEF IndInv
<1> QED
  BY <1>1, Invariance, PTL

(* A call that gives Java a result has emptied the list of jobs.           *)
THEOREM ResultsAreDrained == Spec => ResultMeansDrained
<1>1. ASSUME IndInv, [Next]_vars,
             Len(stack') < Len(stack),
             Top.kind \in RunsJobs, Top.at # "resolve",
             javaException' = "none"
      PROVE  jobList' = <<>>
  <2> USE <1>1 DEF IndInv, TypeOK
  <2>1. Len(stack) \in Nat /\ Len(stack) > 1 /\ Top \in Frame
    BY NotAlone DEF RunsJobs
  <2>2. ASSUME NEW f, Push(f) PROVE FALSE
    BY <2>1, <2>2 DEF Push
  <2>3. ASSUME NEW f, Goto(f) PROVE FALSE
    BY <2>1, <2>3 DEF Goto
  <2>4. stack' # stack
    BY <2>1
  <2>5. Top.kind \notin {"client", "callback", "job"}
    BY DEF RunsJobs
  <2>6. LoopEnd
    <3>1. Next
      BY <2>4 DEF vars
    <3>2. ~ScriptReturn
      <4> DEFINE f == [Top EXCEPT !.at = "loop"]
      <4>1. ~Goto(f)
        BY <2>3
      <4>2. ScriptReturn => javaException = "none" /\ Goto(f)
        BY DEF ScriptReturn
      <4> QED
        BY <4>1, <4>2
    <3>3. ~ScriptThrow
      BY <2>3 DEF ScriptThrow, RunsJobs
    <3>4. ~(\E b \in BOOLEAN : CallbackReturn(b) \/ ThrowJSException(b))
      BY <2>5 DEF CallbackReturn, ThrowJSException
    <3>5. ~(\E k \in Native : Enter(k)) /\ ~(\E k \in {"evaluate", "setProperty"} : ArgumentRejected(k))
      BY <2>5 DEF Enter, ArgumentRejected, JavaRuns
    <3>6. ~Resolve /\ ~ReadFails /\ ~ResolveFails
      BY DEF Resolve, ReadFails, ResolveFails
    <3>7. ~EnqueueJob /\ ~CatchError /\ ~JsFuncCall /\ ~JavaCatch
      BY <2>2, <2>4 DEF EnqueueJob, CatchError, JsFuncCall, JavaCatch
    <3>8. ~StartJob /\ ~JobReturn /\ ~JobThrow
      BY <2>2, <2>5 DEF StartJob, JobReturn, JobThrow
    <3> QED
      BY <3>1, <3>2, <3>3, <3>4, <3>5, <3>6, <3>7, <3>8 DEF Next
  <2> QED
    BY <2>6 DEF LoopEnd
<1> QED
  BY <1>1, Invariance, PTL DEF Spec, ResultMeansDrained

(* A callback's exception stays pending until Java code sees it.           *)
THEOREM CallbackExceptionsKept == Spec => CallbackExceptionKept
<1>1. ASSUME [Next]_vars, javaException = "callback", ~JavaRuns
      PROVE  javaException' = "callback"
  BY <1>1 DEF vars, Next, Enter, ArgumentRejected, Resolve, ReadFails, ResolveFails,
     EnqueueJob, CatchError, JsFuncCall,
         JavaCatch, CallbackReturn, ThrowJSException, ScriptReturn, ScriptThrow, StartJob,
         JobReturn, JobThrow, LoopEnd
<1> QED
  BY <1>1, PTL DEF Spec, CallbackExceptionKept

=============================================================================
