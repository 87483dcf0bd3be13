---------------------------- MODULE ModulesProofs ----------------------------
(***************************************************************************)
(* The body of a module runs once, only when it and what it requires is    *)
(* linked and has been run, and no error leaves a mark behind: for any     *)
(* number of files, definitions and calls, in whatever circles the files   *)
(* require each other.                                                     *)
(*                                                                         *)
(* Three facts carry the argument.  A definition is not resolved only      *)
(* while the innermost call is the one that compiles it or begins to       *)
(* resolve it, and loader frames are innermost: so whatever is linked is   *)
(* resolved, and its requirements no longer change.  A module has at most  *)
(* one frame that evaluates it, which is what its mark says.  And a call   *)
(* that frees modules lies in a body, which it frees too, or frees one     *)
(* that is not linked: no evaluation goes on with a module that was freed. *)
(***************************************************************************)
EXTENDS Modules, FiniteSetTheorems, SequenceTheorems, TLAPS

Loading    == {"load", "resolve"}
Compiling  == {"load", "compile", "JS_Eval", "execute"}
Evaluating == {"evaluate", "body"}

(* The requirements of a definition correspond to those of its file, and   *)
(* are definitions that were made, or not known yet.                       *)
Indexed ==
    \A d \in made : /\ DOMAIN def[d].req = DOMAIN source[def[d].name].requires
                    /\ RequirementsOf(d) \subseteq made \cup {NoDef}

(* What a call has returned is about a definition that was made.           *)
Returned(r, M) == r \in Ret /\ r.m \in M \cup {NoDef}

(* A loader frame of s makes no calls but to the loader.                   *)
Innermost(s) ==
    \A j, k \in DOMAIN s : j < k /\ s[j].op \in Loading => s[k].op \in Loading

(* A definition that is not resolved is about to be.                       *)
ResolvedAtOnce ==
    \A d \in made :
        \/ def[d].resolved
        \/ Top.m = d /\ Top.i = 0 /\ Top.op \in Compiling \cup {"resolve"}

(* What is linked is resolved, can be linked, and requires what is linked. *)
LinkedIsWhole ==
    \A d \in made : def[d].linked =>
        /\ def[d].resolved
        /\ source[def[d].name].fault # "link"
        /\ \A x \in RequirementsOf(d) : IsLoaded(x) => def[x].linked

(* The frames of s are about definitions that were made.  A module whose   *)
(* requirements are being resolved is not linked, and one that is          *)
(* evaluated is.  M is made and D is def.                                  *)
Sound(f, M, D) ==
    /\ f.m \in M
    /\ f.op = "resolve" /\ f.i > 0 => ~D[f.m].linked
    /\ f.op \in Evaluating => D[f.m].linked

About(s, M, D) == \A k \in DOMAIN s : Sound(s[k], M, D)

(* Frame k of s evaluates x; it runs the body of x.                        *)
Evaluates(s, k, x) == k \in DOMAIN s /\ s[k].m = x /\ InProgress(s[k])
RunsBody(s, k, x)  == k \in DOMAIN s /\ s[k].m = x /\ s[k].op = "body"

InProgressOnce ==
    \A x \in made : \A j, k \in Nat :
        Evaluates(stack, j, x) /\ Evaluates(stack, k, x) => j = k

MarkedInProgress ==
    \A x \in made : def[x].mark <=> \E k \in Nat : Evaluates(stack, k, x)

NotYetEvaluated ==
    \A x \in made : (\E k \in Nat : Evaluates(stack, k, x)) => ~def[x].evaluated

(* The body of a module has started once if the module was evaluated or    *)
(* the body still runs, and never otherwise.                               *)
RunsCounted ==
    /\ \A x \in Def \ made : runs[x] = 0
    /\ \A x \in made :
          IF def[x].evaluated \/ \E k \in Nat : RunsBody(stack, k, x)
          THEN runs[x] = 1 ELSE runs[x] = 0

(* Who calls whom: JS_EvalFunction evaluates its module, and the           *)
(* evaluation of a module that of one of its requirements.  D is def.      *)
Caller(f, g, D) ==
    /\ f.op = "JS_EvalFunction" => g.op \in Evaluating /\ g.m = f.m
    /\ f.op = "evaluate" => /\ g.op \in Evaluating
                            /\ f.i \in DOMAIN D[f.m].req
                            /\ g.m = D[f.m].req[f.i]

Chained(s, D) == \A k \in 1 .. Len(s) - 1 : Caller(s[k], s[k + 1], D)

(* x was evaluated without an error, or one of the first k frames of s     *)
(* still evaluates it.  M is made and D is def.                            *)
Fulfilled(s, M, D, k, x) ==
    /\ x \in M
    /\ \/ D[x].evaluated /\ ~D[x].failed
       \/ \E p \in 1 .. k : Evaluates(s, p, x)

(* The requirements that an evaluation has passed are fulfilled, and so is *)
(* one whose evaluation has just ended well.                               *)
RequirementsFulfilled ==
    \A k \in DOMAIN stack : stack[k].op = "evaluate" =>
        \A j \in DOMAIN def[stack[k].m].req :
            j < stack[k].i => Fulfilled(stack, made, def, k, def[stack[k].m].req[j])

OkMeansFulfilled ==
    ret.st = "ok" =>
        /\ Top.op = "JS_EvalFunction" /\ Top.i = 1 =>
              Fulfilled(stack, made, def, Len(stack), Top.m)
        /\ Top.op = "evaluate" /\ Top.i \in DOMAIN def[Top.m].req =>
              Fulfilled(stack, made, def, Len(stack), def[Top.m].req[Top.i])

(* What only the stack has to do with.                                     *)
Good(s, M, D) == About(s, M, D) /\ Innermost(s) /\ Chained(s, D)

Loads == /\ TypeOK /\ Indexed /\ Returned(ret, made) /\ ResolvedAtOnce /\ LinkedIsWhole
         /\ Good(stack, made, def)

Evaluations == /\ InProgressOnce /\ MarkedInProgress /\ NotYetEvaluated /\ RunsCounted
               /\ RequirementsFulfilled /\ OkMeansFulfilled

IndInv == Loads /\ Evaluations

---------------------------------------------------------------------------
(* The three things a step does to the stack: it adds a frame, replaces or *)
(* removes the innermost one.                                              *)
Pop(s)       == SubSeq(s, 1, Len(s) - 1)
SetTop(s, g) == Append(Pop(s), g)

LEMMA AppendShape ==
    ASSUME NEW s \in Seq(Frame), NEW f \in Frame
    PROVE  /\ Append(s, f) \in Seq(Frame)
           /\ Len(s) \in Nat /\ DOMAIN s = 1 .. Len(s)
           /\ Len(Append(s, f)) = Len(s) + 1
           /\ DOMAIN Append(s, f) = 1 .. Len(s) + 1
           /\ \A k \in 1 .. Len(s) : Append(s, f)[k] = s[k]
           /\ Append(s, f)[Len(s) + 1] = f
  OBVIOUS

LEMMA PopShape ==
    ASSUME NEW s \in Seq(Frame), s # <<>>
    PROVE  /\ Pop(s) \in Seq(Frame)
           /\ Len(s) \in Nat \ {0} /\ DOMAIN s = 1 .. Len(s)
           /\ Len(Pop(s)) = Len(s) - 1
           /\ DOMAIN Pop(s) = 1 .. Len(s) - 1
           /\ \A k \in 1 .. Len(s) - 1 : Pop(s)[k] = s[k]
<1>1. Len(s) \in Nat \ {0} /\ DOMAIN s = 1 .. Len(s)
  OBVIOUS
<1>2. Pop(s) \in Seq(Frame) /\ Len(Pop(s)) = Len(s) - 1
  BY <1>1 DEF Pop
<1>3. DOMAIN Pop(s) = 1 .. Len(s) - 1
  BY <1>2
<1>4. \A k \in 1 .. Len(s) - 1 : Pop(s)[k] = s[k]
  BY <1>1 DEF Pop
<1> QED
  BY <1>1, <1>2, <1>3, <1>4

LEMMA SetTopShape ==
    ASSUME NEW s \in Seq(Frame), s # <<>>, NEW g \in Frame
    PROVE  /\ SetTop(s, g) \in Seq(Frame)
           /\ Len(s) \in Nat \ {0} /\ DOMAIN s = 1 .. Len(s)
           /\ Len(SetTop(s, g)) = Len(s)
           /\ DOMAIN SetTop(s, g) = 1 .. Len(s)
           /\ \A k \in 1 .. Len(s) - 1 : SetTop(s, g)[k] = s[k]
           /\ SetTop(s, g)[Len(s)] = g
<1>1. Pop(s) \in Seq(Frame) /\ Len(s) \in Nat \ {0} /\ DOMAIN s = 1 .. Len(s)
      /\ Len(Pop(s)) = Len(s) - 1 /\ \A k \in 1 .. Len(s) - 1 : Pop(s)[k] = s[k]
  BY PopShape
<1> DEFINE p == Pop(s)
           t == Append(p, g)
<1> HIDE DEF p
<1>2. /\ t \in Seq(Frame) /\ Len(t) = Len(p) + 1 /\ DOMAIN t = 1 .. Len(p) + 1
      /\ \A k \in 1 .. Len(p) : t[k] = p[k]
      /\ t[Len(p) + 1] = g
  BY <1>1, AppendShape DEF p
<1>3. SetTop(s, g) = t
  BY DEF SetTop, p
<1> HIDE DEF t
<1>4. Len(p) = Len(s) - 1 /\ Len(s) - 1 + 1 = Len(s)
  BY <1>1 DEF p
<1>5. t \in Seq(Frame) /\ Len(t) = Len(s) /\ DOMAIN t = 1 .. Len(s) /\ t[Len(s)] = g
  BY <1>2, <1>4
<1>6. \A k \in 1 .. Len(s) - 1 : t[k] = s[k]
  BY <1>1, <1>2, <1>4 DEF p
<1> QED
  BY <1>1, <1>3, <1>5, <1>6

Pushed(s, t, f) ==
    /\ t \in Seq(Frame) /\ f \in Frame /\ Len(t) = Len(s) + 1
    /\ \A k \in 1 .. Len(s) : t[k] = s[k]
    /\ t[Len(s) + 1] = f

Popped(s, t) ==
    /\ t \in Seq(Frame) /\ Len(s) > 0 /\ Len(t) = Len(s) - 1
    /\ \A k \in 1 .. Len(s) - 1 : t[k] = s[k]

Replaced(s, t, g) ==
    /\ t \in Seq(Frame) /\ g \in Frame /\ Len(s) > 0 /\ Len(t) = Len(s)
    /\ \A k \in 1 .. Len(s) - 1 : t[k] = s[k]
    /\ t[Len(s)] = g

LEMMA AppendPushes ==
    ASSUME NEW s \in Seq(Frame), NEW f \in Frame
    PROVE  Pushed(s, Append(s, f), f)
  BY AppendShape DEF Pushed

LEMMA PopPops ==
    ASSUME NEW s \in Seq(Frame), s # <<>>
    PROVE  Popped(s, Pop(s))
  BY PopShape DEF Popped

LEMMA SetTopReplaces ==
    ASSUME NEW s \in Seq(Frame), s # <<>>, NEW g \in Frame
    PROVE  Replaced(s, SetTop(s, g), g)
<1> DEFINE t == SetTop(s, g)
<1>1. /\ t \in Seq(Frame) /\ Len(s) \in Nat \ {0} /\ Len(t) = Len(s)
      /\ \A k \in 1 .. Len(s) - 1 : t[k] = s[k]
      /\ t[Len(s)] = g
  BY SetTopShape
<1> HIDE DEF t
<1>2. Len(s) > 0
  BY <1>1
<1>3. Replaced(s, t, g)
  BY <1>1, <1>2 DEF Replaced
<1> QED
  BY <1>3 DEF t

(* What these do to the three properties of the stack alone.               *)
LEMMA PushKeeps ==
    ASSUME NEW s \in Seq(Frame), NEW t, NEW f, NEW M, NEW D, Pushed(s, t, f),
           Good(s, M, D), Sound(f, M, D),
           s # <<>> => /\ Caller(s[Len(s)], f, D)
                       /\ s[Len(s)].op \in Loading => f.op \in Loading
    PROVE  Good(t, M, D)
<1>1. /\ Len(s) \in Nat /\ DOMAIN s = 1 .. Len(s) /\ t \in Seq(Frame)
      /\ DOMAIN t = 1 .. Len(s) + 1 /\ Len(t) = Len(s) + 1
      /\ \A k \in 1 .. Len(s) : t[k] = s[k]
      /\ t[Len(s) + 1] = f
  BY DEF Pushed
<1>2. About(t, M, D)
  BY <1>1 DEF Good, About
<1>3. Innermost(t)
  <2> SUFFICES ASSUME NEW j \in 1 .. Len(s) + 1, NEW k \in 1 .. Len(s) + 1,
                      j < k, t[j].op \in Loading
               PROVE  t[k].op \in Loading
    BY <1>1 DEF Good, Innermost
  <2>1. CASE k \in 1 .. Len(s)
    BY <2>1, <1>1 DEF Good, Innermost
  <2>2. CASE k = Len(s) + 1
    <3>1. j \in 1 .. Len(s) /\ s # <<>> /\ s[j].op \in Loading
      BY <2>2, <1>1
    <3>2. s[Len(s)].op \in Loading
      BY <3>1, <1>1 DEF Good, Innermost
    <3> QED
      BY <3>1, <3>2, <2>2, <1>1
  <2> QED
    BY <2>1, <2>2, <1>1
<1>4. Chained(t, D)
  <2> SUFFICES ASSUME NEW k \in 1 .. Len(s) PROVE Caller(t[k], t[k + 1], D)
    BY <1>1 DEF Good, Chained
  <2>1. CASE k \in 1 .. Len(s) - 1
    <3>1. t[k] = s[k] /\ t[k + 1] = s[k + 1] /\ Caller(s[k], s[k + 1], D)
      BY <2>1, <1>1 DEF Good, Chained
    <3> QED
      BY <3>1
  <2>2. CASE k = Len(s)
    <3>1. t[k] = s[Len(s)] /\ t[k + 1] = f /\ s # <<>>
      BY <2>2, <1>1
    <3> QED
      BY <3>1
  <2> QED
    <3>1. Len(s) \in Nat /\ k \in 1 .. Len(s)
      BY <1>1
    <3>2. k \in 1 .. Len(s) - 1 \/ k = Len(s)
      BY <3>1
    <3> QED
      BY <3>2, <2>1, <2>2
<1> QED
  BY <1>2, <1>3, <1>4 DEF Good

LEMMA PopKeeps ==
    ASSUME NEW s \in Seq(Frame), NEW t, NEW M, NEW D, Popped(s, t),
           Good(s, M, D)
    PROVE  Good(t, M, D)
<1>1. /\ Len(s) \in Nat \ {0} /\ DOMAIN s = 1 .. Len(s) /\ t \in Seq(Frame)
      /\ DOMAIN t = 1 .. Len(s) - 1 /\ Len(t) = Len(s) - 1
      /\ \A k \in 1 .. Len(s) - 1 : t[k] = s[k]
  BY DEF Popped
<1>2. About(t, M, D) /\ Innermost(t)
  BY <1>1 DEF Good, About, Innermost
<1>3. Chained(t, D)
  <2> SUFFICES ASSUME NEW k \in 1 .. Len(s) - 2 PROVE Caller(t[k], t[k + 1], D)
    BY <1>1 DEF Good, Chained
  <2>1. t[k] = s[k] /\ t[k + 1] = s[k + 1] /\ Caller(s[k], s[k + 1], D)
    BY <1>1 DEF Good, Chained
  <2> QED
    BY <2>1
<1> QED
  BY <1>2, <1>3 DEF Good

LEMMA ReplaceKeeps ==
    ASSUME NEW s \in Seq(Frame), NEW t, NEW g, NEW M, NEW D, Replaced(s, t, g),
           Good(s, M, D), Sound(g, M, D), g.m = s[Len(s)].m,
           g.op \in Loading <=> s[Len(s)].op \in Loading,
           s[Len(s)].op \in Evaluating => g.op \in Evaluating
    PROVE  Good(t, M, D)
<1>1. /\ Len(s) \in Nat \ {0} /\ DOMAIN s = 1 .. Len(s) /\ t \in Seq(Frame)
      /\ DOMAIN t = 1 .. Len(s) /\ Len(t) = Len(s)
      /\ \A k \in 1 .. Len(s) - 1 : t[k] = s[k]
      /\ t[Len(s)] = g
  BY DEF Replaced
<1>2. About(t, M, D)
  BY <1>1 DEF Good, About
<1>3. Innermost(t)
  <2>1. \A k \in 1 .. Len(s) : t[k].op \in Loading <=> s[k].op \in Loading
    BY <1>1
  <2> QED
    BY <2>1, <1>1 DEF Good, Innermost
<1>4. Chained(t, D)
  <2> SUFFICES ASSUME NEW k \in 1 .. Len(s) - 1 PROVE Caller(t[k], t[k + 1], D)
    BY <1>1 DEF Good, Chained
  <2>1. t[k] = s[k] /\ Caller(s[k], s[k + 1], D)
    BY <1>1 DEF Good, Chained
  <2>2. t[k + 1].m = s[k + 1].m /\ (s[k + 1].op \in Evaluating => t[k + 1].op \in Evaluating)
    <3>1. CASE k + 1 \in 1 .. Len(s) - 1
      BY <3>1, <1>1
    <3>2. CASE k + 1 = Len(s)
      BY <3>2, <1>1
    <3>3. Len(s) \in Nat /\ k \in 1 .. Len(s) - 1
      BY <1>1
    <3>4. k + 1 \in 1 .. Len(s) - 1 \/ k + 1 = Len(s)
      BY <3>3
    <3> QED
      BY <3>1, <3>2, <3>4
  <2> QED
    BY <2>1, <2>2 DEF Caller
<1> QED
  BY <1>2, <1>3, <1>4 DEF Good

(* How def and made change in a step that links nothing, and in one that   *)
(* evaluates nothing.                                                      *)
SameLinks(M, D, N, E) ==
    /\ M \subseteq N
    /\ \A x \in M : /\ E[x].name = D[x].name /\ E[x].linked = D[x].linked
                    /\ D[x].resolved => E[x].resolved
                    /\ D[x].linked => E[x].req = D[x].req
    /\ \A x \in N \ M : ~E[x].linked

SameRuns(M, D, N, E) ==
    /\ M \subseteq N
    /\ \A x \in M : /\ E[x].mark = D[x].mark /\ E[x].evaluated = D[x].evaluated
                    /\ E[x].failed = D[x].failed
                    /\ D[x].linked => E[x].req = D[x].req
    /\ \A x \in N \ M : ~E[x].mark /\ ~E[x].evaluated

Grows(M, D, N, E) == SameLinks(M, D, N, E) /\ SameRuns(M, D, N, E)

LEMMA GoodGrows ==
    ASSUME NEW s \in Seq(Frame), NEW M, NEW D, NEW N, NEW E, Good(s, M, D), SameLinks(M, D, N, E)
    PROVE  Good(s, N, E)
<1>1. ASSUME NEW k \in DOMAIN s PROVE Sound(s[k], N, E)
  <2>1. Sound(s[k], M, D)
    BY DEF Good, About
  <2>2. s[k].m \in M /\ s[k].m \in N /\ E[s[k].m].linked = D[s[k].m].linked
    BY <2>1 DEF Sound, SameLinks
  <2> QED
    BY <2>1, <2>2 DEF Sound
<1>2. ASSUME NEW k \in 1 .. Len(s) - 1 PROVE Caller(s[k], s[k + 1], E)
  <2>1. k \in DOMAIN s /\ Caller(s[k], s[k + 1], D) /\ Sound(s[k], M, D)
    BY DEF Good, About, Chained
  <2>2. s[k].op = "evaluate" => E[s[k].m].req = D[s[k].m].req
    BY <2>1 DEF Sound, SameLinks, Evaluating
  <2> QED
    BY <2>1, <2>2 DEF Caller
<1> QED
  BY <1>1, <1>2 DEF Good, About, Chained

(* A step that evaluates nothing: the same frames evaluate the same        *)
(* modules, and get no further.                                            *)
Quiet(s, t) ==
    /\ \A k \in Nat, x \in Def : /\ Evaluates(t, k, x) <=> Evaluates(s, k, x)
                                 /\ RunsBody(t, k, x) <=> RunsBody(s, k, x)
    /\ \A k \in DOMAIN t : t[k].op = "evaluate" =>
          t[k].i = 0 \/ (k \in DOMAIN s /\ t[k] = s[k])

LEMMA QuietPush ==
    ASSUME NEW s \in Seq(Frame), NEW t, NEW f, Pushed(s, t, f), ~InProgress(f)
    PROVE  Quiet(s, t)
<1>1. /\ Len(s) \in Nat /\ DOMAIN s = 1 .. Len(s) /\ DOMAIN t = 1 .. Len(s) + 1
      /\ \A k \in 1 .. Len(s) : t[k] = s[k]
      /\ t[Len(s) + 1] = f /\ f.i \in Nat
  BY DEF Pushed, Frame
<1>2. f.op # "body" /\ (f.op = "evaluate" => f.i = 0)
  BY <1>1 DEF InProgress
<1>3. ASSUME NEW k \in Nat, NEW x \in Def
      PROVE  /\ Evaluates(t, k, x) <=> Evaluates(s, k, x)
             /\ RunsBody(t, k, x) <=> RunsBody(s, k, x)
  <2>1. CASE k \in 1 .. Len(s)
    BY <2>1, <1>1 DEF Evaluates, RunsBody
  <2>2. CASE k = Len(s) + 1
    <3>1. k \notin DOMAIN s /\ t[k] = f
      BY <2>2, <1>1
    <3> QED
      BY <3>1, <1>2 DEF Evaluates, RunsBody
  <2>3. CASE k \notin 1 .. Len(s) + 1
    <3>1. k \notin DOMAIN s /\ k \notin DOMAIN t
      BY <2>3, <1>1
    <3> QED
      BY <3>1 DEF Evaluates, RunsBody
  <2>4. k \in 1 .. Len(s) \/ k = Len(s) + 1 \/ k \notin 1 .. Len(s) + 1
    <3>1. Len(s) \in Nat
      BY <1>1
    <3> QED
      BY <3>1
  <2> QED
    BY <2>1, <2>2, <2>3, <2>4
<1>4. ASSUME NEW k \in DOMAIN t, t[k].op = "evaluate"
      PROVE  t[k].i = 0 \/ (k \in DOMAIN s /\ t[k] = s[k])
  BY <1>4, <1>1, <1>2
<1> QED
  BY <1>3, <1>4 DEF Quiet

LEMMA QuietPop ==
    ASSUME NEW s \in Seq(Frame), NEW t, Popped(s, t), ~InProgress(s[Len(s)])
    PROVE  Quiet(s, t)
<1>1. /\ Len(s) \in Nat \ {0} /\ DOMAIN s = 1 .. Len(s) /\ DOMAIN t = 1 .. Len(s) - 1
      /\ \A k \in 1 .. Len(s) - 1 : t[k] = s[k]
  BY DEF Popped
<1>2. s[Len(s)].op # "body"
  BY <1>1 DEF InProgress
<1>3. ASSUME NEW k \in Nat, NEW x \in Def
      PROVE  /\ Evaluates(t, k, x) <=> Evaluates(s, k, x)
             /\ RunsBody(t, k, x) <=> RunsBody(s, k, x)
  <2>1. CASE k \in 1 .. Len(s) - 1
    BY <2>1, <1>1 DEF Evaluates, RunsBody
  <2>2. CASE k = Len(s)
    <3>1. k \notin DOMAIN t
      BY <2>2, <1>1
    <3> QED
      BY <3>1, <2>2, <1>2 DEF Evaluates, RunsBody
  <2>3. CASE k \notin 1 .. Len(s)
    <3>1. k \notin DOMAIN s /\ k \notin DOMAIN t
      BY <2>3, <1>1
    <3> QED
      BY <3>1 DEF Evaluates, RunsBody
  <2>4. k \in 1 .. Len(s) - 1 \/ k = Len(s) \/ k \notin 1 .. Len(s)
    <3>1. Len(s) \in Nat
      BY <1>1
    <3> QED
      BY <3>1
  <2> QED
    BY <2>1, <2>2, <2>3, <2>4
<1>4. \A k \in DOMAIN t : k \in DOMAIN s /\ t[k] = s[k]
  BY <1>1
<1> QED
  BY <1>3, <1>4 DEF Quiet

LEMMA QuietReplace ==
    ASSUME NEW s \in Seq(Frame), NEW t, NEW g, Replaced(s, t, g),
           ~InProgress(s[Len(s)]), ~InProgress(g)
    PROVE  Quiet(s, t)
<1>1. /\ Len(s) \in Nat \ {0} /\ DOMAIN s = 1 .. Len(s) /\ DOMAIN t = 1 .. Len(s)
      /\ \A k \in 1 .. Len(s) - 1 : t[k] = s[k]
      /\ t[Len(s)] = g /\ g.i \in Nat
  BY DEF Replaced, Frame
<1>2. s[Len(s)].op # "body" /\ g.op # "body" /\ (g.op = "evaluate" => g.i = 0)
  BY <1>1 DEF InProgress
<1>3. ASSUME NEW k \in Nat, NEW x \in Def
      PROVE  /\ Evaluates(t, k, x) <=> Evaluates(s, k, x)
             /\ RunsBody(t, k, x) <=> RunsBody(s, k, x)
  <2>1. CASE k \in 1 .. Len(s) - 1
    BY <2>1, <1>1 DEF Evaluates, RunsBody
  <2>2. CASE k = Len(s)
    <3>1. t[k] = g
      BY <2>2, <1>1
    <3> QED
      BY <3>1, <2>2, <1>2 DEF Evaluates, RunsBody
  <2>3. CASE k \notin 1 .. Len(s)
    <3>1. k \notin DOMAIN s /\ k \notin DOMAIN t
      BY <2>3, <1>1
    <3> QED
      BY <3>1 DEF Evaluates, RunsBody
  <2>4. k \in 1 .. Len(s) - 1 \/ k = Len(s) \/ k \notin 1 .. Len(s)
    <3>1. Len(s) \in Nat
      BY <1>1
    <3> QED
      BY <3>1
  <2> QED
    BY <2>1, <2>2, <2>3, <2>4
<1>4. ASSUME NEW k \in DOMAIN t, t[k].op = "evaluate"
      PROVE  t[k].i = 0 \/ (k \in DOMAIN s /\ t[k] = s[k])
  BY <1>4, <1>1, <1>2
<1> QED
  BY <1>3, <1>4 DEF Quiet

LEMMA QuietTwice ==
    ASSUME NEW s, NEW t, NEW u, Quiet(s, t), Quiet(t, u)
    PROVE  Quiet(s, u)
<1>1. ASSUME NEW k \in Nat, NEW x \in Def
      PROVE  /\ Evaluates(u, k, x) <=> Evaluates(s, k, x)
             /\ RunsBody(u, k, x) <=> RunsBody(s, k, x)
  BY DEF Quiet
<1>2. ASSUME NEW k \in DOMAIN u, u[k].op = "evaluate"
      PROVE  u[k].i = 0 \/ (k \in DOMAIN s /\ u[k] = s[k])
  BY <1>2 DEF Quiet
<1> QED
  BY <1>1, <1>2 DEF Quiet

---------------------------------------------------------------------------
(* A step that evaluates nothing keeps what concerns evaluations.          *)
LEMMA QuietEvaluations ==
    ASSUME TypeOK, Good(stack, made, def), Evaluations, TypeOK', runs' = runs,
           SameRuns(made, def, made', def'), Quiet(stack, stack'),
           Good(stack', made', def'), OkMeansFulfilled'
    PROVE  Evaluations'
<1>1. /\ made \subseteq Def /\ made' \subseteq Def /\ made \subseteq made'
      /\ stack \in Seq(Frame) /\ stack' \in Seq(Frame)
  BY DEF TypeOK, SameRuns
<1>2. ASSUME NEW x \in Def, NEW k \in Nat, Evaluates(stack, k, x) \/ RunsBody(stack, k, x)
      PROVE  x \in made
  BY <1>2, <1>1 DEF Evaluates, RunsBody, Good, About, Sound
<1>3. ASSUME NEW x \in Def, NEW k \in Nat
      PROVE  /\ Evaluates(stack', k, x) <=> Evaluates(stack, k, x)
             /\ RunsBody(stack', k, x) <=> RunsBody(stack, k, x)
  BY DEF Quiet
<1>4. ASSUME NEW x \in made
      PROVE  /\ def'[x].mark = def[x].mark /\ def'[x].evaluated = def[x].evaluated
             /\ def'[x].failed = def[x].failed
  BY DEF SameRuns
<1>5. ASSUME NEW x \in made', x \notin made
      PROVE  ~def'[x].mark /\ ~def'[x].evaluated
  BY <1>5 DEF SameRuns
<1>6. InProgressOnce'
  BY <1>1, <1>2, <1>3 DEF Evaluations, InProgressOnce
<1>7. MarkedInProgress'
  <2> SUFFICES ASSUME NEW x \in made'
               PROVE  def'[x].mark <=> \E k \in Nat : Evaluates(stack', k, x)
    BY DEF MarkedInProgress
  <2>1. CASE x \in made
    BY <2>1, <1>1, <1>3, <1>4 DEF Evaluations, MarkedInProgress
  <2>2. CASE x \notin made
    BY <2>2, <1>1, <1>2, <1>3, <1>5
  <2> QED
    BY <2>1, <2>2
<1>8. NotYetEvaluated'
  <2> SUFFICES ASSUME NEW x \in made', NEW k \in Nat, Evaluates(stack', k, x)
               PROVE  ~def'[x].evaluated
    BY DEF NotYetEvaluated
  <2>1. x \in made /\ Evaluates(stack, k, x)
    BY <1>1, <1>2, <1>3
  <2> QED
    BY <2>1, <1>4 DEF Evaluations, NotYetEvaluated
<1>9. RunsCounted'
  <2>1. ASSUME NEW x \in Def \ made' PROVE runs'[x] = 0
    BY <1>1 DEF Evaluations, RunsCounted
  <2>2. ASSUME NEW x \in made'
        PROVE  IF def'[x].evaluated \/ \E k \in Nat : RunsBody(stack', k, x)
               THEN runs'[x] = 1 ELSE runs'[x] = 0
    <3>1. (\E k \in Nat : RunsBody(stack', k, x)) <=> (\E k \in Nat : RunsBody(stack, k, x))
      BY <1>1, <1>3
    <3>2. CASE x \in made
      BY <3>1, <3>2, <1>4 DEF Evaluations, RunsCounted
    <3>3. CASE x \notin made
      <4>1. runs'[x] = 0 /\ ~def'[x].evaluated /\ ~\E k \in Nat : RunsBody(stack, k, x)
        BY <3>3, <1>1, <1>2, <1>5 DEF Evaluations, RunsCounted
      <4> QED
        BY <4>1, <3>1
    <3> QED
      BY <3>2, <3>3
  <2> QED
    BY <2>1, <2>2 DEF RunsCounted
<1>10. ASSUME NEW k \in Nat, NEW x, Fulfilled(stack, made, def, k, x)
       PROVE  Fulfilled(stack', made', def', k, x)
  <2>1. x \in made /\ x \in Def /\ x \in made'
    BY <1>10, <1>1 DEF Fulfilled
  <2>2. \A p \in 1 .. k : Evaluates(stack, p, x) => Evaluates(stack', p, x)
    BY <2>1, <1>3
  <2> QED
    BY <2>1, <2>2, <1>4, <1>10 DEF Fulfilled
<1>11. RequirementsFulfilled'
  <2> SUFFICES ASSUME NEW k \in DOMAIN stack', stack'[k].op = "evaluate",
                      NEW j \in DOMAIN def'[stack'[k].m].req, j < stack'[k].i
               PROVE  Fulfilled(stack', made', def', k, def'[stack'[k].m].req[j])
    BY DEF RequirementsFulfilled
  <2>1. j \in Nat \ {0} /\ k \in Nat /\ Sound(stack'[k], made', def')
    BY <1>1 DEF TypeOK, Definition, Good, About, Sound
  <2>2. k \in DOMAIN stack /\ stack'[k] = stack[k]
    BY <2>1 DEF Quiet
  <2>3. Sound(stack[k], made, def) /\ def'[stack[k].m].req = def[stack[k].m].req
    BY <2>2 DEF Good, About, Sound, Evaluating, SameRuns
  <2>4. Fulfilled(stack, made, def, k, def[stack[k].m].req[j])
    BY <2>1, <2>2, <2>3 DEF Evaluations, RequirementsFulfilled
  <2> QED
    BY <2>1, <2>2, <2>3, <2>4, <1>10
<1> QED
  BY <1>6, <1>7, <1>8, <1>9, <1>11 DEF Evaluations

(* If no more is loaded than before it keeps what is linked.               *)
LEMMA LinkedKept ==
    ASSUME TypeOK, Indexed, LinkedIsWhole, TypeOK', source' = source,
           SameLinks(made, def, made', def'),
           \A x \in made : IsLoaded(x)' => IsLoaded(x)
    PROVE  LinkedIsWhole'
<1> SUFFICES ASSUME NEW d \in made', def'[d].linked
             PROVE  /\ def'[d].resolved
                    /\ source'[def'[d].name].fault # "link"
                    /\ \A x \in RequirementsOf(d)' : IsLoaded(x)' => def'[x].linked
  BY DEF LinkedIsWhole
<1>1. /\ d \in made /\ def[d].linked /\ def'[d].resolved
      /\ source'[def'[d].name].fault # "link" /\ def'[d].req = def[d].req
  BY DEF SameLinks, LinkedIsWhole
<1>2. ASSUME NEW x \in RequirementsOf(d)', IsLoaded(x)' PROVE def'[x].linked
  <2>1. x \in RequirementsOf(d) /\ x \in made \cup {NoDef}
    BY <1>1 DEF RequirementsOf, Indexed
  <2>2. x # NoDef
    BY <1>2, ModulesAssumption DEF IsLoaded, TypeOK
  <2>3. def[x].linked
    BY <2>1, <2>2, <1>1, <1>2 DEF LinkedIsWhole
  <2> QED
    BY <2>1, <2>2, <2>3 DEF SameLinks
<1> QED
  BY <1>1, <1>2

LEMMA QuietStep ==
    ASSUME IndInv, TypeOK', Indexed', Returned(ret', made'), source' = source, runs' = runs,
           Grows(made, def, made', def'),
           \A x \in made : IsLoaded(x)' => IsLoaded(x),
           Quiet(stack, stack'), Good(stack', made', def'),
           ResolvedAtOnce', OkMeansFulfilled'
    PROVE  IndInv'
<1>1. Evaluations'
  BY QuietEvaluations DEF IndInv, Loads, Grows
<1>2. LinkedIsWhole'
  BY LinkedKept DEF IndInv, Loads, Grows
<1> QED
  BY <1>1, <1>2 DEF IndInv, Loads

---------------------------------------------------------------------------
(* The innermost call.                                                     *)
LEMMA TopFrame ==
    ASSUME stack \in Seq(Frame), Top.op # "outside"
    PROVE  /\ stack # <<>> /\ Len(stack) \in Nat \ {0} /\ Len(stack) \in DOMAIN stack
           /\ Top = stack[Len(stack)] /\ Top \in Frame
           /\ Top.m \in Def \cup {NoDef} /\ Top.i \in Nat
<1>1. stack # <<>>
  BY DEF Top, Call
<1>2. Len(stack) \in Nat \ {0} /\ Len(stack) \in DOMAIN stack
  BY <1>1
<1>3. Top = stack[Len(stack)] /\ Top \in Frame
  BY <1>1, <1>2 DEF Top
<1> QED
  BY <1>1, <1>2, <1>3 DEF Frame

LEMMA TopSound ==
    ASSUME stack \in Seq(Frame), Top.op # "outside", NEW M, NEW D, About(stack, M, D)
    PROVE  Sound(Top, M, D) /\ Top.m \in M
  BY TopFrame DEF About, Sound

(* A frame that goes on.                                                   *)
LEMMA MovedFrame ==
    ASSUME NEW f \in Frame, NEW i \in Nat
    PROVE  /\ [f EXCEPT !.i = i] \in Frame
           /\ [f EXCEPT !.i = i].op = f.op
           /\ [f EXCEPT !.i = i].m = f.m
           /\ [f EXCEPT !.i = i].i = i
  BY DEF Frame

LEMMA NewCall ==
    ASSUME NEW op \in Outer \cup {"load", "resolve", "JS_EvalFunction", "evaluate", "body"},
           NEW m \in Def
    PROVE  /\ Call(op, m) \in Frame
           /\ Call(op, m).op = op /\ Call(op, m).m = m /\ Call(op, m).i = 0
           /\ op # "body" => ~InProgress(Call(op, m))
  BY DEF Call, Frame, InProgress

(* The stack after a step that evaluates nothing, from s to t.             *)
Steps(s, t, M, D) == t \in Seq(Frame) /\ Good(t, M, D) /\ Quiet(s, t)

LEMMA QuietPushes ==
    ASSUME stack \in Seq(Frame), NEW M, NEW D, Good(stack, M, D),
           NEW f \in Frame, Sound(f, M, D), ~InProgress(f),
           Top.op # "outside" =>
              Caller(Top, f, D) /\ (Top.op \in Loading => f.op \in Loading),
           stack' = Append(stack, f)
    PROVE  Steps(stack, stack', M, D) /\ Top' = f
<1>1. Pushed(stack, stack', f)
  BY AppendPushes
<1>2. stack # <<>> => Top.op # "outside" /\ Top = stack[Len(stack)]
  <2> SUFFICES ASSUME stack # <<>> PROVE Top.op # "outside" /\ Top = stack[Len(stack)]
    OBVIOUS
  <2>1. Top = stack[Len(stack)] /\ Top \in Frame
    BY DEF Top
  <2> QED
    BY <2>1 DEF Frame, Outer
<1>3. Good(stack', M, D)
  BY <1>1, <1>2, PushKeeps
<1>4. Quiet(stack, stack')
  BY <1>1, QuietPush
<1>5. stack' \in Seq(Frame) /\ Top' = f
  BY <1>1 DEF Pushed, Top
<1> QED
  BY <1>3, <1>4, <1>5 DEF Steps

LEMMA QuietCalls ==
    ASSUME stack \in Seq(Frame), NEW M, NEW D, Good(stack, M, D),
           Top.op \notin Evaluating \cup {"outside"},
           NEW i \in Nat, NEW g, g = [Top EXCEPT !.i = i], Sound(g, M, D),
           NEW f \in Frame, Sound(f, M, D), ~InProgress(f), Caller(g, f, D),
           Top.op \in Loading => f.op \in Loading,
           Calls(i, f)
    PROVE  Steps(stack, stack', M, D) /\ Top' = f
<1>1. /\ stack # <<>> /\ Top = stack[Len(stack)] /\ Top \in Frame
      /\ Len(stack) \in Nat \ {0}
  BY TopFrame
<1>2. g \in Frame /\ g.op = Top.op /\ g.m = Top.m
  BY <1>1, MovedFrame
<1>3. ~InProgress(Top) /\ ~InProgress(g)
  BY <1>2 DEF InProgress, Evaluating
<1>4. PICK u : u = SetTop(stack, g)
  OBVIOUS
<1>5. Replaced(stack, u, g)
  BY <1>1, <1>2, <1>4, SetTopReplaces
<1>6. stack' = Append(u, f)
  BY <1>4 DEF Calls, SetTop, Pop, Below
<1>7. u \in Seq(Frame) /\ Len(u) = Len(stack) /\ u[Len(u)] = g
  BY <1>5 DEF Replaced
<1>8. Pushed(u, stack', f)
  BY <1>6, <1>7, AppendPushes
<1>9. Good(u, M, D)
  BY <1>1, <1>2, <1>5, ReplaceKeeps
<1>10. Good(stack', M, D)
  <2>1. u # <<>> => Caller(u[Len(u)], f, D) /\ (u[Len(u)].op \in Loading => f.op \in Loading)
    BY <1>2, <1>7
  <2> QED
    BY <2>1, <1>7, <1>8, <1>9, PushKeeps
<1>11. Quiet(stack, u)
  BY <1>1, <1>3, <1>5, QuietReplace
<1>12. Quiet(u, stack')
  BY <1>7, <1>8, QuietPush
<1>13. Quiet(stack, stack')
  BY <1>11, <1>12, QuietTwice
<1>14. stack' \in Seq(Frame) /\ Top' = f
  BY <1>7, <1>8 DEF Pushed, Top
<1> QED
  BY <1>10, <1>13, <1>14 DEF Steps

LEMMA QuietGoesOn ==
    ASSUME stack \in Seq(Frame), NEW M, NEW D, Good(stack, M, D),
           Top.op \notin Evaluating \cup {"outside"},
           NEW i \in Nat, NEW g, g = [Top EXCEPT !.i = i], Sound(g, M, D),
           GoesOn(i)
    PROVE  Steps(stack, stack', M, D) /\ Top' = g
<1>1. /\ stack # <<>> /\ Top = stack[Len(stack)] /\ Top \in Frame
      /\ Len(stack) \in Nat \ {0}
  BY TopFrame
<1>2. g \in Frame /\ g.op = Top.op /\ g.m = Top.m
  BY <1>1, MovedFrame
<1>3. ~InProgress(Top) /\ ~InProgress(g)
  BY <1>2 DEF InProgress, Evaluating
<1>4. stack' = SetTop(stack, g)
  BY DEF GoesOn, SetTop, Pop, Below
<1>5. Replaced(stack, stack', g)
  BY <1>1, <1>2, <1>4, SetTopReplaces
<1>6. Good(stack', M, D)
  BY <1>1, <1>2, <1>5, ReplaceKeeps
<1>7. Quiet(stack, stack')
  BY <1>1, <1>3, <1>5, QuietReplace
<1>8. stack' \in Seq(Frame) /\ Top' = g
  BY <1>1, <1>5 DEF Replaced, Top
<1> QED
  BY <1>6, <1>7, <1>8 DEF Steps

(* Nobody who evaluates waits for a call that does not.                    *)
LEMMA QuietReturns ==
    ASSUME stack \in Seq(Frame), NEW M, NEW D, Good(stack, M, D),
           Top.op \notin Evaluating \cup {"outside"}, NEW st, Returns(st)
    PROVE  Steps(stack, stack', M, D) /\ Top'.op \notin {"JS_EvalFunction", "evaluate"}
<1>1. /\ stack # <<>> /\ Top = stack[Len(stack)] /\ Top \in Frame
      /\ Len(stack) \in Nat \ {0}
  BY TopFrame
<1>2. ~InProgress(Top)
  BY DEF InProgress, Evaluating
<1>3. Popped(stack, stack')
  BY <1>1, PopPops DEF Returns, Pop, Below
<1>4. Good(stack', M, D)
  BY <1>3, PopKeeps
<1>5. Quiet(stack, stack')
  BY <1>1, <1>2, <1>3, QuietPop
<1>6. Top'.op \notin {"JS_EvalFunction", "evaluate"}
  <2>1. CASE Len(stack) = 1
    BY <2>1, <1>3 DEF Popped, Top, Call
  <2>2. CASE Len(stack) # 1
    <3>1. /\ Len(stack) - 1 \in 1 .. Len(stack) - 1 /\ Len(stack') = Len(stack) - 1
          /\ stack' # <<>> /\ stack'[Len(stack) - 1] = stack[Len(stack) - 1]
      BY <2>2, <1>1, <1>3 DEF Popped
    <3>2. Top' = stack[Len(stack) - 1]
      BY <3>1 DEF Top
    <3>3. Caller(stack[Len(stack) - 1], Top, D)
      BY <3>1, <1>1 DEF Good, Chained
    <3> QED
      BY <3>2, <3>3 DEF Caller
  <2> QED
    BY <2>1, <2>2
<1> QED
  BY <1>3, <1>4, <1>5, <1>6 DEF Steps, Popped

---------------------------------------------------------------------------
(* Steps that do not change any definition.                                *)
SameDefs == UNCHANGED <<source, def, made, runs, wild>>

LEMMA NothingGrows == Grows(made, def, made, def)
  BY DEF Grows, SameLinks, SameRuns

(* A list that gets no longer.                                             *)
LEMMA ListShrinks ==
    ASSUME TypeOK, made' = made, NEW P, UNCHANGED loaded \/ Unlink(P)
    PROVE  /\ DOMAIN loaded' \subseteq 1 .. Cardinality(made')
           /\ \A k \in DOMAIN loaded' : loaded'[k] \in made'
           /\ \A j, k \in DOMAIN loaded' : loaded'[j] = loaded'[k] => j = k
           /\ \A x \in made : IsLoaded(x)' => IsLoaded(x)
<1>1. DOMAIN loaded' \subseteq DOMAIN loaded /\ \A k \in DOMAIN loaded' : loaded'[k] = loaded[k]
  BY DEF Unlink
<1>2. \A x \in made : IsLoaded(x)' => IsLoaded(x)
  BY <1>1 DEF IsLoaded
<1> QED
  BY <1>1, <1>2 DEF TypeOK

(* All is resolved, unless the innermost call has just begun.              *)
AllResolved == \A x \in made : def[x].resolved

LEMMA Underway ==
    ASSUME IndInv, Top.i # 0 \/ Top.op \notin Compiling \cup {"resolve"}
    PROVE  AllResolved
  BY DEF AllResolved, ResolvedAtOnce, IndInv, Loads

LEMMA SameDefsStep ==
    ASSUME IndInv, SameDefs, NEW P, UNCHANGED loaded \/ Unlink(P),
           Steps(stack, stack', made, def), Returned(ret', made), OkMeansFulfilled',
           AllResolved \/ (Top'.m = Top.m /\ Top'.i = 0 /\ Top'.op = "resolve")
    PROVE  IndInv'
<1>1. /\ source' = source /\ def' = def /\ made' = made /\ runs' = runs /\ wild' = wild
      /\ TypeOK /\ Indexed
  BY DEF SameDefs, IndInv, Loads
<1>2. /\ DOMAIN loaded' \subseteq 1 .. Cardinality(made')
      /\ \A k \in DOMAIN loaded' : loaded'[k] \in made'
      /\ \A j, k \in DOMAIN loaded' : loaded'[j] = loaded'[k] => j = k
      /\ \A x \in made : IsLoaded(x)' => IsLoaded(x)
  BY <1>1, ListShrinks
<1>3. stack' \in Seq(Frame) /\ Good(stack', made', def') /\ Quiet(stack, stack')
  BY <1>1 DEF Steps
<1>4. TypeOK' /\ Returned(ret', made')
  BY <1>1, <1>2, <1>3 DEF TypeOK, Returned
<1>5. Indexed'
  BY <1>1 DEF Indexed, RequirementsOf
<1>6. Grows(made, def, made', def')
  BY <1>1, NothingGrows
<1>7. ResolvedAtOnce'
  <2>1. CASE AllResolved
    BY <2>1, <1>1 DEF ResolvedAtOnce, AllResolved
  <2>2. CASE Top'.m = Top.m /\ Top'.i = 0 /\ Top'.op = "resolve"
    BY <2>2, <1>1 DEF ResolvedAtOnce, IndInv, Loads
  <2> QED
    BY <2>1, <2>2
<1> QED
  BY <1>1, <1>2, <1>3, <1>4, <1>5, <1>6, <1>7, QuietStep

LEMMA PlainStep ==
    ASSUME IndInv, SameDefs, NEW P, UNCHANGED loaded \/ Unlink(P),
           Steps(stack, stack', made, def), Returned(ret', made),
           ret'.st = "ok" => Top'.op \notin {"JS_EvalFunction", "evaluate"},
           AllResolved \/ (Top'.m = Top.m /\ Top'.i = 0 /\ Top'.op = "resolve")
    PROVE  IndInv'
<1>1. OkMeansFulfilled'
  BY DEF OkMeansFulfilled
<1> QED
  BY <1>1, SameDefsStep

LEMMA PlainReturns ==
    ASSUME IndInv, SameDefs, NEW P, UNCHANGED loaded \/ Unlink(P), AllResolved,
           Top.op \notin Evaluating \cup {"outside"},
           NEW st \in {"none", "ok", "throw"}, Returns(st)
    PROVE  IndInv'
<1>1. stack \in Seq(Frame) /\ Good(stack, made, def)
  BY DEF IndInv, Loads, TypeOK
<1>2. Steps(stack, stack', made, def) /\ Top'.op \notin {"JS_EvalFunction", "evaluate"}
  BY <1>1, QuietReturns
<1>3. Returned(ret', made)
  <2>1. Top.m \in made /\ Top.m \in Def
    BY <1>1, TopSound DEF Good, IndInv, Loads, TypeOK
  <2> QED
    BY <2>1 DEF Returns, Ret, Returned
<1> QED
  BY <1>2, <1>3, PlainStep

LEMMA PlainCalls ==
    ASSUME IndInv, SameDefs, UNCHANGED loaded,
           Top.op \notin Evaluating \cup {"outside", "JS_EvalFunction", "resolve"},
           NEW i \in Nat, NEW op \in {"resolve", "JS_EvalFunction"}, Calls(i, Call(op, Top.m)),
           op = "resolve" \/ (AllResolved /\ Top.op # "load")
    PROVE  IndInv'
<1>1. stack \in Seq(Frame) /\ Good(stack, made, def) /\ made \subseteq Def
  BY DEF IndInv, Loads, TypeOK
<1>2. Top \in Frame /\ Top.m \in made
  BY <1>1, TopFrame, TopSound DEF Good
<1>3. PICK g : g = [Top EXCEPT !.i = i]
  OBVIOUS
<1>4. g.op = Top.op /\ g.m = Top.m
  BY <1>2, <1>3, MovedFrame
<1>5. PICK f : f = Call(op, Top.m)
  OBVIOUS
<1>6. f \in Frame /\ f.op = op /\ f.m = Top.m /\ f.i = 0 /\ ~InProgress(f)
  BY <1>1, <1>2, <1>5, NewCall
<1>7. Sound(g, made, def) /\ Sound(f, made, def)
  BY <1>2, <1>4, <1>6 DEF Sound, Evaluating
<1>8. Caller(g, f, def)
  BY <1>4 DEF Caller, Evaluating
<1>9. Top.op \in Loading => f.op \in Loading
  BY <1>6 DEF Loading
<1>10. Steps(stack, stack', made, def) /\ Top' = f
  BY <1>1, <1>3, <1>5, <1>6, <1>7, <1>8, <1>9, QuietCalls
<1>11. ret' = Nothing /\ Returned(ret', made) /\ Nothing.st # "ok"
  BY DEF Calls, Nothing, Ret, Returned
<1> QED
  BY <1>6, <1>10, <1>11, PlainStep

LEMMA PlainGoesOn ==
    ASSUME IndInv, SameDefs, UNCHANGED loaded, AllResolved,
           Top.op \notin Evaluating \cup {"outside", "resolve"},
           NEW i \in Nat, GoesOn(i)
    PROVE  IndInv'
<1>1. stack \in Seq(Frame) /\ Good(stack, made, def)
  BY DEF IndInv, Loads, TypeOK
<1>2. Top \in Frame /\ Top.m \in made
  BY <1>1, TopFrame, TopSound DEF Good
<1>3. PICK g : g = [Top EXCEPT !.i = i]
  OBVIOUS
<1>4. g.op = Top.op /\ g.m = Top.m
  BY <1>2, <1>3, MovedFrame
<1>5. Sound(g, made, def)
  BY <1>2, <1>4 DEF Sound
<1>6. Steps(stack, stack', made, def)
  BY <1>1, <1>3, <1>5, QuietGoesOn
<1>7. ret' = Nothing /\ Returned(ret', made) /\ Nothing.st # "ok"
  BY DEF GoesOn, Nothing, Ret, Returned
<1> QED
  BY <1>6, <1>7, PlainStep

---------------------------------------------------------------------------
(* The actions that change no definition.                                  *)
LEMMA FoundLoaded ==
    ASSUME TypeOK, NEW n, NEW d \in Found(n)
    PROVE  d \in made /\ d \in Def /\ IsLoaded(d)
  BY DEF TypeOK, Found, Named, IsLoaded

LEMMA ImportFoundKeeps ==
    ASSUME IndInv, NEW n \in Name, ImportFound(n)
    PROVE  IndInv'
<1>1. stack \in Seq(Frame) /\ Good(stack, made, def) /\ TypeOK
  BY DEF IndInv, Loads, TypeOK
<1>2. PICK d \in Found(n) : stack' = Append(stack, [Call("JS_RunModule", d) EXCEPT !.i = 1])
  BY DEF ImportFound
<1>3. d \in made /\ d \in Def
  BY <1>1, FoundLoaded
<1>4. PICK f : f = [Call("JS_RunModule", d) EXCEPT !.i = 1]
  OBVIOUS
<1>5. f \in Frame /\ f.op = "JS_RunModule" /\ f.m = d /\ f.i = 1
  <2>1. PICK c : c = Call("JS_RunModule", d)
    OBVIOUS
  <2>2. c \in Frame /\ c.op = "JS_RunModule" /\ c.m = d
    BY <2>1, <1>3, NewCall DEF Outer
  <2> QED
    BY <2>1, <2>2, <1>4, MovedFrame
<1>6. Sound(f, made, def) /\ ~InProgress(f)
  BY <1>3, <1>5 DEF Sound, InProgress, Evaluating
<1>7. Top.op \in {"outside", "body"}
  BY DEF ImportFound, ScriptRuns
<1>8. Top.op # "outside" =>
         Caller(Top, f, def) /\ (Top.op \in Loading => f.op \in Loading)
  BY <1>7 DEF Caller, Loading
<1>9. Steps(stack, stack', made, def)
  BY <1>1, <1>2, <1>4, <1>5, <1>6, <1>8, QuietPushes
<1>10. Returned(ret', made) /\ ret'.st # "ok" /\ SameDefs /\ UNCHANGED loaded
  BY DEF ImportFound, Nothing, Ret, SameDefs, Returned
<1>11. AllResolved
  BY <1>7, Underway DEF Compiling
<1> QED
  BY <1>9, <1>10, <1>11, PlainStep

LEMMA CompiledKeeps ==
    ASSUME IndInv, NEW op, Compiled(op)
    PROVE  IndInv'
  BY PlainCalls DEF Compiled, At, SameDefs, Evaluating

LEMMA ResolveFailedKeeps ==
    ASSUME IndInv, NEW op, ResolveFailed(op)
    PROVE  IndInv'
<1>1. PICK P : Unlink(P)
  BY DEF ResolveFailed, FreeNotResolved, Free
<1>2. AllResolved /\ SameDefs /\ Top.op \notin Evaluating \cup {"outside"}
  BY Underway DEF ResolveFailed, At, SameDefs, Evaluating
<1> QED
  BY <1>1, <1>2, PlainReturns DEF ResolveFailed

LEMMA ResolveDoneKeeps ==
    ASSUME IndInv, NEW op, ResolveDone(op)
    PROVE  IndInv'
<1>1. /\ AllResolved /\ SameDefs /\ UNCHANGED loaded
      /\ Top.op \in {"load", "compile", "JS_Eval", "execute"}
  BY Underway DEF ResolveDone, At, SameDefs
<1>2. CASE op \in {"load", "compile"} /\ Returns("ok")
  BY <1>1, <1>2, PlainReturns DEF Evaluating
<1>3. CASE op \in {"JS_Eval", "execute"} /\ Calls(2, Call("JS_EvalFunction", Top.m))
  <2>1. Top.op \in {"JS_Eval", "execute"}
    BY <1>3 DEF ResolveDone, At
  <2> QED
    BY <2>1, <1>1, <1>3, PlainCalls DEF Evaluating
<1> QED
  BY <1>2, <1>3 DEF ResolveDone

LEMMA RunLoadedKeeps ==
    ASSUME IndInv, RunLoaded
    PROVE  IndInv'
<1>1. /\ AllResolved /\ SameDefs /\ UNCHANGED loaded /\ Top.op = "JS_RunModule"
  BY Underway DEF RunLoaded, At, SameDefs, Compiling
<1>2. CASE GoesOn(1)
  BY <1>1, <1>2, PlainGoesOn DEF Evaluating
<1>3. CASE Returns("throw")
  BY <1>1, <1>3, PlainReturns DEF Evaluating
<1> QED
  BY <1>2, <1>3 DEF RunLoaded

LEMMA RunResolvesKeeps ==
    ASSUME IndInv, RunResolves
    PROVE  IndInv'
  BY PlainCalls DEF RunResolves, At, SameDefs, Evaluating

LEMMA RunResolvedKeeps ==
    ASSUME IndInv, RunResolved
    PROVE  IndInv'
<1>1. AllResolved /\ SameDefs /\ Top.op = "JS_RunModule"
  BY Underway DEF RunResolved, At, SameDefs, Compiling
<1>2. CASE Calls(2, Call("JS_EvalFunction", Top.m)) /\ UNCHANGED loaded
  BY <1>1, <1>2, PlainCalls DEF Evaluating
<1>3. CASE FreeNotResolved /\ Returns("throw")
  <2>1. PICK P : Unlink(P)
    BY <1>3 DEF FreeNotResolved
  <2> QED
    BY <2>1, <1>1, <1>3, PlainReturns DEF Evaluating
<1> QED
  BY <1>2, <1>3 DEF RunResolved

LEMMA CallDoneKeeps ==
    ASSUME IndInv, NEW op \in Outer, CallDone(op)
    PROVE  IndInv'
<1>1. /\ AllResolved /\ SameDefs /\ UNCHANGED loaded /\ Top.op \in Outer
  BY Underway DEF CallDone, At, SameDefs
<1>2. ret.st \in {"none", "ok", "throw"} /\ Returns(ret.st)
  BY DEF CallDone, IndInv, Loads, TypeOK, Ret
<1> QED
  BY <1>1, <1>2, PlainReturns DEF Evaluating, Outer

---------------------------------------------------------------------------
(* The actions of js_resolve_module.                                       *)

(* A step that changes one definition, which is being resolved.            *)
LEMMA ResolvingStep ==
    ASSUME IndInv, NEW m \in made, NEW r \in Definition, def' = [def EXCEPT ![m] = r],
           UNCHANGED <<source, made, loaded, runs, wild>>,
           ~def[m].linked, r.resolved, \A x \in made \ {m} : def[x].resolved,
           r.name = def[m].name, r.linked = def[m].linked, r.mark = def[m].mark,
           r.evaluated = def[m].evaluated, r.failed = def[m].failed,
           DOMAIN r.req = DOMAIN def[m].req,
           \A i \in DOMAIN r.req : r.req[i] \in made \cup {NoDef},
           Steps(stack, stack', made, def'), Returned(ret', made), ret'.st # "ok"
    PROVE  IndInv'
<1>1. /\ TypeOK /\ Indexed /\ made \subseteq Def /\ made' = made /\ loaded' = loaded
      /\ source' = source /\ runs' = runs
      /\ def \in [Def -> Definition \cup {NoDef}]
  BY DEF IndInv, Loads, TypeOK
<1>2. def'[m] = r /\ \A x \in made \ {m} : def'[x] = def[x]
  BY <1>1
<1>3. def' \in [Def -> Definition \cup {NoDef}] /\ \A x \in made : def'[x] \in Definition
  <2>1. def' \in [Def -> Definition \cup {NoDef}]
    BY <1>1
  <2>2. \A x \in made : def'[x] \in Definition
    BY <1>1, <1>2 DEF TypeOK
  <2> QED
    BY <2>1, <2>2
<1>4. TypeOK' /\ Returned(ret', made')
  BY <1>1, <1>3 DEF TypeOK, Steps, Returned
<1>5. Indexed'
  <2> SUFFICES ASSUME NEW x \in made
               PROVE  /\ DOMAIN def'[x].req = DOMAIN source[def'[x].name].requires
                      /\ \A i \in DOMAIN def'[x].req : def'[x].req[i] \in made \cup {NoDef}
    BY <1>1 DEF Indexed, RequirementsOf
  <2>1. CASE x = m
    BY <2>1, <1>1, <1>2 DEF Indexed
  <2>2. CASE x # m
    BY <2>2, <1>1, <1>2 DEF Indexed, RequirementsOf
  <2> QED
    BY <2>1, <2>2
<1>6. Grows(made, def, made', def')
  <2> SUFFICES ASSUME NEW x \in made
               PROVE  /\ def'[x].name = def[x].name
                      /\ def'[x].linked = def[x].linked /\ def'[x].mark = def[x].mark
                      /\ def'[x].evaluated = def[x].evaluated
                      /\ def'[x].failed = def[x].failed
                      /\ def[x].resolved => def'[x].resolved
                      /\ def[x].linked => def'[x].req = def[x].req
    BY <1>1 DEF Grows, SameLinks, SameRuns
  <2>1. CASE x = m
    BY <2>1, <1>2
  <2>2. CASE x # m
    BY <2>2, <1>2
  <2> QED
    BY <2>1, <2>2
<1>7. ResolvedAtOnce'
  BY <1>1, <1>2 DEF ResolvedAtOnce
<1>8. \A x \in made : IsLoaded(x)' => IsLoaded(x)
  BY <1>1 DEF IsLoaded
<1>9. Quiet(stack, stack') /\ Good(stack', made', def')
  BY <1>1 DEF Steps
<1>10. OkMeansFulfilled'
  BY DEF OkMeansFulfilled
<1> QED
  BY <1>1, <1>4, <1>5, <1>6, <1>7, <1>8, <1>9, <1>10, QuietStep

(* Such a step leaves the stack as good as it was.                         *)
LEMMA ResolvingGood ==
    ASSUME IndInv, NEW m \in made, NEW r \in Definition, def' = [def EXCEPT ![m] = r],
           ~def[m].linked, def[m].resolved => r.resolved,
           r.name = def[m].name, r.linked = def[m].linked, r.mark = def[m].mark,
           r.evaluated = def[m].evaluated, r.failed = def[m].failed
    PROVE  /\ stack \in Seq(Frame) /\ Good(stack, made, def') /\ Grows(made, def, made, def')
           /\ \A x \in made : def'[x].linked = def[x].linked
<1>1. /\ def \in [Def -> Definition \cup {NoDef}] /\ made \subseteq Def
      /\ stack \in Seq(Frame) /\ Good(stack, made, def)
  BY DEF IndInv, Loads, TypeOK
<1>2. def'[m] = r /\ \A x \in made \ {m} : def'[x] = def[x]
  BY <1>1
<1>3. Grows(made, def, made, def')
  <2> SUFFICES ASSUME NEW x \in made
               PROVE  /\ def'[x].name = def[x].name
                      /\ def'[x].linked = def[x].linked /\ def'[x].mark = def[x].mark
                      /\ def'[x].evaluated = def[x].evaluated
                      /\ def'[x].failed = def[x].failed
                      /\ def[x].resolved => def'[x].resolved
                      /\ def[x].linked => def'[x].req = def[x].req
    BY DEF Grows, SameLinks, SameRuns
  <2>1. CASE x = m
    BY <2>1, <1>2
  <2>2. CASE x # m
    BY <2>2, <1>2
  <2> QED
    BY <2>1, <2>2
<1>4. Good(stack, made, def')
  BY <1>1, <1>3, GoodGrows DEF Grows
<1> QED
  BY <1>1, <1>3, <1>4 DEF Grows, SameLinks, SameRuns

LEMMA ResolveBeginKeeps ==
    ASSUME IndInv, ResolveBegin
    PROVE  IndInv'
<1>1. /\ stack \in Seq(Frame) /\ Good(stack, made, def) /\ made \subseteq Def
      /\ Top.op = "resolve" /\ Top.i = 0
  BY DEF IndInv, Loads, TypeOK, ResolveBegin, At
<1>2. Top \in Frame /\ Top.m \in made
  BY <1>1, TopFrame, TopSound DEF Good
<1>3. \A x \in made \ {Top.m} : def[x].resolved
  BY DEF IndInv, Loads, ResolvedAtOnce
<1>4. CASE def[Top.m].resolved
  <2>1. AllResolved
    BY <1>3, <1>4 DEF AllResolved
  <2>2. Returns("ok") /\ SameDefs /\ UNCHANGED loaded
    BY <1>4 DEF ResolveBegin, SameDefs
  <2> QED
    BY <2>1, <2>2, <1>1, PlainReturns DEF Evaluating
<1>5. CASE ~def[Top.m].resolved
  <2>1. PICK m : m = Top.m
    OBVIOUS
  <2>2. m \in made /\ def[m] \in Definition /\ ~def[m].resolved
    BY <2>1, <1>2, <1>5 DEF IndInv, Loads, TypeOK
  <2>3. PICK r : r = [def[m] EXCEPT !.resolved = TRUE]
    OBVIOUS
  <2>4. /\ r \in Definition /\ r.resolved /\ r.name = def[m].name /\ r.req = def[m].req
        /\ r.linked = def[m].linked /\ r.mark = def[m].mark
        /\ r.evaluated = def[m].evaluated /\ r.failed = def[m].failed
    BY <2>2, <2>3 DEF Definition
  <2>5. /\ def' = [def EXCEPT ![m] = r] /\ GoesOn(1)
        /\ UNCHANGED <<source, made, loaded, runs, wild>>
    BY <2>1, <2>3, <1>5 DEF ResolveBegin
  <2>6. ~def[m].linked
    BY <2>2 DEF IndInv, Loads, LinkedIsWhole
  <2>7. Good(stack, made, def') /\ ~def'[m].linked
    BY <2>2, <2>4, <2>5, <2>6, ResolvingGood
  <2>8. PICK g : g = [Top EXCEPT !.i = 1]
    OBVIOUS
  <2>9. g.op = "resolve" /\ g.m = m
    BY <2>1, <2>8, <1>1, <1>2, MovedFrame
  <2>10. Sound(g, made, def')
    BY <2>2, <2>7, <2>9 DEF Sound, Evaluating
  <2>11. Steps(stack, stack', made, def')
    BY <2>5, <2>7, <2>8, <2>10, <1>1, QuietGoesOn DEF Evaluating
  <2>12. Returned(ret', made) /\ ret'.st # "ok"
    BY <2>5 DEF GoesOn, Nothing, Ret, Returned
  <2>13. \A i \in DOMAIN r.req : r.req[i] \in made \cup {NoDef}
    BY <2>2, <2>4 DEF IndInv, Loads, Indexed, RequirementsOf
  <2>14. \A x \in made \ {m} : def[x].resolved
    BY <2>1, <1>3
  <2> QED
    BY <2>2, <2>4, <2>5, <2>6, <2>11, <2>12, <2>13, <2>14, ResolvingStep
<1> QED
  BY <1>4, <1>5

(* r is the definition q with d entered as its requirement i.              *)
Entered(q, i, d, r) ==
    /\ r \in Definition /\ r.name = q.name /\ r.resolved = q.resolved
    /\ r.linked = q.linked /\ r.mark = q.mark
    /\ r.evaluated = q.evaluated /\ r.failed = q.failed
    /\ DOMAIN r.req = DOMAIN q.req /\ r.req[i] = d
    /\ \A j \in DOMAIN q.req \ {i} : r.req[j] = q.req[j]

LEMMA Enter ==
    ASSUME NEW q \in Definition, NEW i \in DOMAIN q.req, NEW d \in Def \cup {NoDef}
    PROVE  Entered(q, i, d, [q EXCEPT !.req = [q.req EXCEPT ![i] = d]])
<1> DEFINE r == [q EXCEPT !.req = [q.req EXCEPT ![i] = d]]
<1>1. PICK s : s = [q.req EXCEPT ![i] = d]
  OBVIOUS
<1>2. q.req \in Seq(Def \cup {NoDef})
  BY DEF Definition
<1>3. s \in Seq(Def \cup {NoDef})
  BY <1>1, <1>2, ExceptSeq
<1>4. DOMAIN s = DOMAIN q.req /\ s[i] = d /\ \A j \in DOMAIN q.req \ {i} : s[j] = q.req[j]
  BY <1>1, <1>2
<1>5. r = [q EXCEPT !.req = s]
  BY <1>1
<1>6. /\ r \in Definition /\ r.name = q.name /\ r.resolved = q.resolved
      /\ r.linked = q.linked /\ r.mark = q.mark
      /\ r.evaluated = q.evaluated /\ r.failed = q.failed /\ r.req = s
  BY <1>3, <1>5 DEF Definition
<1> QED
  BY <1>4, <1>6 DEF Entered

(* Where js_resolve_module is when it looks at a requirement.              *)
LEMMA ResolvingTop ==
    ASSUME IndInv, NEW st, AtRequirement("resolve", st) \/ AtEnd("resolve")
    PROVE  /\ Top.op = "resolve" /\ Top \in Frame /\ Top.i \in Nat \ {0}
           /\ Top.m \in made /\ Top.m \in Def /\ def[Top.m] \in Definition
           /\ ~def[Top.m].linked /\ AllResolved
           /\ stack \in Seq(Frame) /\ Good(stack, made, def)
<1>1. /\ stack \in Seq(Frame) /\ Good(stack, made, def) /\ made \subseteq Def
      /\ Top.op = "resolve"
  BY DEF IndInv, Loads, TypeOK, AtRequirement, AtEnd
<1>2. Top \in Frame /\ Top.m \in made /\ Sound(Top, made, def) /\ Top.i \in Nat
  BY <1>1, TopFrame, TopSound DEF Good
<1>3. def[Top.m] \in Definition
  BY <1>2 DEF IndInv, Loads, TypeOK
<1>4. def[Top.m].req \in Seq(Def \cup {NoDef})
  BY <1>3 DEF Definition
<1>5. Top.i # 0
  BY <1>4, <1>2 DEF AtRequirement, AtEnd
<1>6. ~def[Top.m].linked
  BY <1>1, <1>2, <1>5 DEF Sound
<1>7. AllResolved
  BY <1>5, Underway
<1> QED
  BY <1>1, <1>2, <1>3, <1>5, <1>6, <1>7

LEMMA ResolveEnterKeeps ==
    ASSUME IndInv, NEW st, AtRequirement("resolve", st),
           NEW d \in made \cup {NoDef},
           def' = [def EXCEPT ![Top.m].req[Top.i] = d],
           UNCHANGED <<source, made, loaded, runs, wild>>,
           NEW i \in Nat,
           \/ d \in made /\ Calls(i, Call("resolve", d))
           \/ GoesOn(i)
    PROVE  IndInv'
<1>1. /\ Top.op = "resolve" /\ Top \in Frame /\ Top.i \in Nat \ {0}
      /\ Top.m \in made /\ def[Top.m] \in Definition
      /\ ~def[Top.m].linked /\ AllResolved
      /\ stack \in Seq(Frame) /\ Good(stack, made, def)
  BY ResolvingTop
<1>2. PICK m, n : m = Top.m /\ n = Top.i
  OBVIOUS
<1>3. /\ m \in made /\ def[m] \in Definition /\ ~def[m].linked
      /\ n \in DOMAIN def[m].req /\ d \in Def \cup {NoDef}
      /\ def \in [Def -> Definition \cup {NoDef}] /\ made \subseteq Def
  BY <1>1, <1>2 DEF AtRequirement, IndInv, Loads, TypeOK
<1>4. PICK r : r = [def[m] EXCEPT !.req = [def[m].req EXCEPT ![n] = d]]
  OBVIOUS
<1>5. /\ r \in Definition /\ r.name = def[m].name /\ r.resolved = def[m].resolved
      /\ r.linked = def[m].linked /\ r.mark = def[m].mark
      /\ r.evaluated = def[m].evaluated /\ r.failed = def[m].failed
      /\ DOMAIN r.req = DOMAIN def[m].req /\ r.req[n] = d
      /\ \A j \in DOMAIN def[m].req \ {n} : r.req[j] = def[m].req[j]
  <2>1. Entered(def[m], n, d, r)
    BY <1>3, <1>4, Enter
  <2> QED
    BY <2>1 DEF Entered
<1>6. def' = [def EXCEPT ![m] = r]
  BY <1>2, <1>4
<1>7. Good(stack, made, def') /\ ~def'[m].linked
  BY <1>3, <1>5, <1>6, ResolvingGood
<1>8. PICK g : g = [Top EXCEPT !.i = i]
  OBVIOUS
<1>9. g.op = "resolve" /\ g.m = m
  BY <1>1, <1>2, <1>8, MovedFrame
<1>10. Sound(g, made, def')
  BY <1>3, <1>7, <1>9 DEF Sound, Evaluating
<1>11. Steps(stack, stack', made, def') /\ ret' = Nothing
  <2>1. CASE GoesOn(i)
    <3>1. ret' = Nothing
      BY <2>1 DEF GoesOn
    <3> QED
      BY <3>1, <2>1, <1>1, <1>7, <1>8, <1>10, QuietGoesOn DEF Evaluating
  <2>2. CASE d \in made /\ Calls(i, Call("resolve", d))
    <3>1. PICK f : f = Call("resolve", d)
      OBVIOUS
    <3>2. f \in Frame /\ f.op = "resolve" /\ f.m = d /\ f.i = 0 /\ ~InProgress(f)
      BY <3>1, <2>2, <1>3, NewCall
    <3>3. Sound(f, made, def') /\ Caller(g, f, def')
      BY <3>2, <2>2, <1>9 DEF Sound, Caller, Evaluating
    <3>4. (Top.op \in Loading => f.op \in Loading) /\ Calls(i, f)
      BY <3>1, <3>2, <2>2 DEF Loading
    <3>5. ret' = Nothing
      BY <2>2 DEF Calls
    <3>6. Top.op \notin Evaluating \cup {"outside"}
      BY <1>1 DEF Evaluating
    <3> QED
      BY <3>2, <3>3, <3>4, <3>5, <3>6, <1>1, <1>7, <1>8, <1>10, QuietCalls
  <2> QED
    BY <2>1, <2>2
<1>12. Returned(ret', made) /\ ret'.st # "ok"
  BY <1>11 DEF Nothing, Ret, Returned
<1>13. \A j \in DOMAIN r.req : r.req[j] \in made \cup {NoDef}
  <2>1. \A j \in DOMAIN def[m].req : def[m].req[j] \in made \cup {NoDef}
    BY <1>3 DEF IndInv, Loads, Indexed, RequirementsOf
  <2> QED
    BY <2>1, <1>5
<1>14. r.resolved /\ \A x \in made \ {m} : def[x].resolved
  BY <1>1, <1>3, <1>5 DEF AllResolved
<1> QED
  BY <1>3, <1>5, <1>6, <1>11, <1>12, <1>13, <1>14, ResolvingStep

LEMMA ResolveFoundKeeps ==
    ASSUME IndInv, ResolveFound
    PROVE  IndInv'
<1>1. PICK d \in Found(Required(Top)) :
         /\ def' = [def EXCEPT ![Top.m].req[Top.i] = d]
         /\ Calls(Top.i, Call("resolve", d))
  BY DEF ResolveFound
<1>2. d \in made
  BY FoundLoaded DEF IndInv, Loads
<1>3. AtRequirement("resolve", "none") /\ UNCHANGED <<source, made, loaded, runs, wild>>
  BY DEF ResolveFound
<1>4. Top.i \in Nat
  BY <1>3, ResolvingTop
<1> QED
  BY <1>1, <1>2, <1>3, <1>4, ResolveEnterKeeps

LEMMA ResolveNextKeeps ==
    ASSUME IndInv, ResolveNext
    PROVE  IndInv'
<1>1. /\ AtRequirement("resolve", "ok") /\ UNCHANGED <<source, made, loaded, runs, wild>>
      /\ def' = [def EXCEPT ![Top.m].req[Top.i] = ret.m] /\ GoesOn(Top.i + 1)
  BY DEF ResolveNext
<1>2. Top.i + 1 \in Nat
  BY <1>1, ResolvingTop
<1>3. ret.m \in made \cup {NoDef}
  BY DEF IndInv, Loads, Returned
<1> QED
  BY <1>1, <1>2, <1>3, ResolveEnterKeeps

LEMMA ResolveOthersKeep ==
    ASSUME IndInv, ResolveNotFound \/ ResolveThrows \/ ResolveEnds
    PROVE  IndInv'
<1>1. \E st : AtRequirement("resolve", st) \/ AtEnd("resolve")
  BY DEF ResolveNotFound, ResolveThrows, ResolveEnds
<1>2. Top.op = "resolve" /\ AllResolved
  BY <1>1, ResolvingTop
<1>3. SameDefs /\ UNCHANGED loaded /\ \E st \in {"none", "ok", "throw"} : Returns(st)
  BY DEF ResolveNotFound, ResolveThrows, ResolveEnds, SameDefs
<1> QED
  BY <1>2, <1>3, PlainReturns DEF Evaluating

---------------------------------------------------------------------------
(* The actions that make a definition.                                     *)
LEMMA MakeShape ==
    ASSUME IndInv, NEW n \in Name, NEW d \in Def, Make(n, d), source' = source
    PROVE  /\ d \notin made /\ made' = made \cup {d} /\ Grows(made, def, made', def')
           /\ def' \in [Def -> Definition \cup {NoDef}]
           /\ \A x \in made' : def'[x] \in Definition
           /\ Indexed'
<1>1. /\ d \notin made /\ made' = made \cup {d} /\ def' = [def EXCEPT ![d] = NewDef(n)]
      /\ def \in [Def -> Definition \cup {NoDef}] /\ made \subseteq Def
      /\ \A x \in made : def[x] \in Definition
      /\ source[n] \in Source
  BY DEF Make, IndInv, Loads, TypeOK
<1>2. PICK r : r = NewDef(n)
  OBVIOUS
<1>3. PICK s : s = source[n].requires
  OBVIOUS
<1>4. s \in Seq(Name)
  BY <1>1, <1>3 DEF Source
<1>5. PICK q : q = [i \in DOMAIN s |-> NoDef]
  OBVIOUS
<1>6. q \in Seq(Def \cup {NoDef}) /\ DOMAIN q = DOMAIN s /\ \A i \in DOMAIN q : q[i] = NoDef
  <2>1. Len(s) \in Nat /\ DOMAIN s = 1 .. Len(s)
    BY <1>4
  <2>2. \A i \in 1 .. Len(s) : NoDef \in Def \cup {NoDef}
    OBVIOUS
  <2>3. [i \in 1 .. Len(s) |-> NoDef] \in Seq(Def \cup {NoDef})
    BY <2>1, <2>2, IsASeq
  <2> QED
    BY <2>1, <2>3, <1>5
<1>7. /\ r \in Definition /\ r.req = q /\ r.name = n
      /\ ~r.resolved /\ ~r.linked /\ ~r.mark /\ ~r.evaluated
  BY <1>2, <1>3, <1>5, <1>6 DEF NewDef, Definition
<1>8. def'[d] = r /\ \A x \in made : def'[x] = def[x]
  BY <1>1, <1>2
<1>9. def' \in [Def -> Definition \cup {NoDef}] /\ \A x \in made' : def'[x] \in Definition
  BY <1>1, <1>2, <1>7, <1>8
<1>10. Grows(made, def, made', def')
  BY <1>1, <1>7, <1>8 DEF Grows, SameLinks, SameRuns
<1>11. Indexed'
  <2> SUFFICES ASSUME NEW x \in made'
               PROVE  /\ DOMAIN def'[x].req = DOMAIN source[def'[x].name].requires
                      /\ \A i \in DOMAIN def'[x].req : def'[x].req[i] \in made' \cup {NoDef}
    BY DEF Indexed, RequirementsOf
  <2>1. CASE x \in made
    <3>1. /\ DOMAIN def[x].req = DOMAIN source[def[x].name].requires
          /\ \A i \in DOMAIN def[x].req : def[x].req[i] \in made \cup {NoDef}
      BY <2>1 DEF IndInv, Loads, Indexed, RequirementsOf
    <3> QED
      BY <3>1, <2>1, <1>1, <1>8
  <2>2. CASE x = d
    BY <2>2, <1>3, <1>6, <1>7, <1>8
  <2> QED
    BY <2>1, <2>2, <1>1
<1> QED
  BY <1>1, <1>9, <1>10, <1>11

LEMMA AddTailShape ==
    ASSUME TypeOK, NEW d \in Def, d \notin made, made' = made \cup {d}, AddTail(d)
    PROVE  /\ DOMAIN loaded' \subseteq 1 .. Cardinality(made')
           /\ \A k \in DOMAIN loaded' : loaded'[k] \in made'
           /\ \A j, k \in DOMAIN loaded' : loaded'[j] = loaded'[k] => j = k
           /\ \A x \in made : IsLoaded(x)' <=> IsLoaded(x)
<1>1. IsFiniteSet(made)
  BY ModulesAssumption, FS_Subset DEF TypeOK
<1>2. Cardinality(made) \in Nat /\ Cardinality(made') = Cardinality(made) + 1
  BY <1>1, FS_AddElement, FS_CardinalityType
<1>3. PICK c : c = Cardinality(made)
  OBVIOUS
<1>4. /\ DOMAIN loaded' = DOMAIN loaded \cup {c + 1} /\ loaded'[c + 1] = d
      /\ DOMAIN loaded \subseteq 1 .. c /\ c \in Nat
      /\ \A k \in DOMAIN loaded : loaded'[k] = loaded[k] /\ loaded[k] \in made
  <2>1. loaded' = [k \in DOMAIN loaded \cup {c + 1} |-> IF k = c + 1 THEN d ELSE loaded[k]]
    BY <1>3 DEF AddTail
  <2>2. DOMAIN loaded \subseteq 1 .. c /\ c \in Nat /\ \A k \in DOMAIN loaded : loaded[k] \in made
    BY <1>2, <1>3 DEF TypeOK
  <2> QED
    BY <2>1, <2>2
<1>5. DOMAIN loaded' \subseteq 1 .. Cardinality(made')
  BY <1>2, <1>3, <1>4
<1>6. \A k \in DOMAIN loaded' : loaded'[k] \in made'
  BY <1>4
<1>7. ASSUME NEW j \in DOMAIN loaded', NEW k \in DOMAIN loaded', loaded'[j] = loaded'[k]
      PROVE  j = k
  BY <1>4, <1>7 DEF TypeOK
<1>8. \A x \in made : IsLoaded(x)' <=> IsLoaded(x)
  <2>1. c + 1 \notin DOMAIN loaded
    BY <1>4
  <2> QED
    BY <2>1, <1>4 DEF IsLoaded
<1> QED
  BY <1>5, <1>6, <1>7, <1>8

LEMMA MakeStep ==
    ASSUME IndInv, NEW n \in Name, NEW d \in Def, Make(n, d),
           UNCHANGED <<source, runs, wild>>, AllResolved, ret' = Nothing,
           Steps(stack, stack', made', def'),
           Top'.m = d, Top'.i = 0, Top'.op \in Compiling
    PROVE  IndInv'
<1>1. /\ d \notin made /\ made' = made \cup {d} /\ Grows(made, def, made', def')
      /\ def' \in [Def -> Definition \cup {NoDef}]
      /\ \A x \in made' : def'[x] \in Definition
      /\ Indexed'
  BY MakeShape
<1>2. /\ DOMAIN loaded' \subseteq 1 .. Cardinality(made')
      /\ \A k \in DOMAIN loaded' : loaded'[k] \in made'
      /\ \A j, k \in DOMAIN loaded' : loaded'[j] = loaded'[k] => j = k
      /\ \A x \in made : IsLoaded(x)' => IsLoaded(x)
  <2>1. TypeOK /\ AddTail(d)
    BY DEF Make, IndInv, Loads
  <2> QED
    BY <2>1, <1>1, AddTailShape
<1>3. Returned(ret', made') /\ ret'.st # "ok" /\ ret' \in Ret
  BY DEF Nothing, Ret, Returned
<1>4. made' \subseteq Def /\ stack' \in Seq(Frame) /\ TypeOK
  BY <1>1 DEF IndInv, Loads, TypeOK, Steps
<1>5. TypeOK'
  BY <1>1, <1>2, <1>3, <1>4 DEF TypeOK
<1>6. ResolvedAtOnce'
  BY <1>1 DEF ResolvedAtOnce, AllResolved, Grows, SameLinks
<1>7. OkMeansFulfilled'
  BY <1>3 DEF OkMeansFulfilled
<1> QED
  BY <1>1, <1>2, <1>3, <1>5, <1>6, <1>7, QuietStep DEF Steps

(* The frame of a call for the new definition.                             *)
LEMMA MakeGood ==
    ASSUME IndInv, NEW n \in Name, NEW d \in Def, Make(n, d), source' = source
    PROVE  /\ stack \in Seq(Frame) /\ Good(stack, made', def')
           /\ d \in made' /\ made \subseteq made' /\ ~def'[d].linked
           /\ \A x \in made : def'[x].linked = def[x].linked
<1>1. d \notin made /\ made' = made \cup {d} /\ Grows(made, def, made', def')
  BY MakeShape
<1>2. stack \in Seq(Frame) /\ Good(stack, made, def)
  BY DEF IndInv, Loads, TypeOK
<1>3. Good(stack, made', def')
  BY <1>1, <1>2, GoodGrows DEF Grows
<1> QED
  BY <1>1, <1>2, <1>3 DEF Grows, SameLinks, SameRuns

LEMMA StartKeeps ==
    ASSUME IndInv, NEW op \in {"JS_Eval", "compile", "execute"}, NEW n \in Name, NEW d \in Def,
           Start(op, n, d)
    PROVE  IndInv'
<1>1. /\ Make(n, d) /\ source' = source /\ runs' = runs /\ wild' = wild /\ ret' = Nothing
      /\ stack' = Append(stack, Call(op, d)) /\ Top.op \in {"outside", "body"}
  BY DEF Start, ScriptRuns
<1>2. stack \in Seq(Frame) /\ Good(stack, made', def') /\ d \in made'
  BY <1>1, MakeGood
<1>3. PICK f : f = Call(op, d)
  OBVIOUS
<1>4. f \in Frame /\ f.op = op /\ f.m = d /\ f.i = 0 /\ ~InProgress(f)
  BY <1>3, NewCall DEF Outer
<1>5. Sound(f, made', def')
  BY <1>2, <1>4 DEF Sound, Evaluating
<1>6. Top.op # "outside" =>
         Caller(Top, f, def') /\ (Top.op \in Loading => f.op \in Loading)
  BY <1>1 DEF Caller, Loading
<1>7. Steps(stack, stack', made', def') /\ Top' = f
  BY <1>1, <1>2, <1>3, <1>4, <1>5, <1>6, QuietPushes
<1>8. AllResolved
  BY <1>1, Underway DEF Compiling
<1> QED
  BY <1>1, <1>4, <1>7, <1>8, MakeStep DEF Compiling

LEMMA RequiredName ==
    ASSUME IndInv, NEW st, AtRequirement("resolve", st)
    PROVE  Required(Top) \in Name
<1>1. Top.m \in made /\ def[Top.m] \in Definition
  BY ResolvingTop
<1>2. /\ source[def[Top.m].name] \in Source
      /\ Top.i \in DOMAIN source[def[Top.m].name].requires
  BY <1>1 DEF AtRequirement, IndInv, Loads, TypeOK, Indexed, Definition
<1>3. source[def[Top.m].name].requires \in Seq(Name)
  BY <1>2 DEF Source
<1> QED
  BY <1>2, <1>3 DEF Required

LEMMA ResolveLoadsKeeps ==
    ASSUME IndInv, NEW d \in Def, ResolveLoads(d)
    PROVE  IndInv'
<1>1. /\ AtRequirement("resolve", "none") /\ Make(Required(Top), d)
      /\ source' = source /\ runs' = runs /\ wild' = wild
      /\ Calls(Top.i, Call("load", d))
  BY DEF ResolveLoads
<1>2. /\ Top.op = "resolve" /\ Top \in Frame /\ Top.i \in Nat \ {0}
      /\ Top.m \in made /\ def[Top.m] \in Definition
      /\ ~def[Top.m].linked /\ AllResolved
  BY <1>1, ResolvingTop
<1>3. PICK n : n = Required(Top)
  OBVIOUS
<1>4. n \in Name
  BY <1>1, <1>3, RequiredName
<1>5. /\ stack \in Seq(Frame) /\ Good(stack, made', def') /\ d \in made'
      /\ Top.m \in made' /\ ~def'[Top.m].linked
  BY <1>1, <1>2, <1>3, <1>4, MakeGood
<1>6. PICK f : f = Call("load", d)
  OBVIOUS
<1>7. f \in Frame /\ f.op = "load" /\ f.m = d /\ f.i = 0 /\ ~InProgress(f)
  BY <1>6, NewCall
<1>8. PICK g : g = [Top EXCEPT !.i = Top.i]
  OBVIOUS
<1>9. g.op = "resolve" /\ g.m = Top.m
  BY <1>2, <1>8, MovedFrame
<1>10. Sound(f, made', def') /\ Sound(g, made', def')
  BY <1>5, <1>7, <1>9 DEF Sound, Evaluating
<1>11. /\ Caller(g, f, def') /\ (Top.op \in Loading => f.op \in Loading)
       /\ Top.op \notin Evaluating \cup {"outside"} /\ Calls(Top.i, f) /\ Top.i \in Nat
  BY <1>1, <1>2, <1>6, <1>7, <1>9 DEF Caller, Loading, Evaluating
<1>12. Steps(stack, stack', made', def') /\ Top' = f
  BY <1>5, <1>7, <1>8, <1>10, <1>11, QuietCalls
<1>13. ret' = Nothing
  BY <1>1 DEF Calls
<1> QED
  BY <1>1, <1>2, <1>3, <1>4, <1>7, <1>12, <1>13, MakeStep DEF Compiling

LEMMA ImportLoadsKeeps ==
    ASSUME IndInv, NEW n \in Name, NEW d \in Def, ImportLoads(n, d)
    PROVE  IndInv'
<1>1. /\ Make(n, d) /\ source' = source /\ runs' = runs /\ wild' = wild /\ ret' = Nothing
      /\ stack' = Append(Append(stack, Call("JS_RunModule", d)), Call("load", d))
      /\ Top.op \in {"outside", "body"}
  BY DEF ImportLoads, ScriptRuns
<1>2. stack \in Seq(Frame) /\ Good(stack, made', def') /\ d \in made'
  BY <1>1, MakeGood
<1>3. PICK f, g : f = Call("JS_RunModule", d) /\ g = Call("load", d)
  OBVIOUS
<1>4. /\ f \in Frame /\ f.op = "JS_RunModule" /\ f.m = d /\ ~InProgress(f)
      /\ g \in Frame /\ g.op = "load" /\ g.m = d /\ g.i = 0 /\ ~InProgress(g)
  <2>1. f \in Frame /\ f.op = "JS_RunModule" /\ f.m = d /\ ~InProgress(f)
    BY <1>3, NewCall DEF Outer
  <2>2. g \in Frame /\ g.op = "load" /\ g.m = d /\ g.i = 0 /\ ~InProgress(g)
    BY <1>3, NewCall
  <2> QED
    BY <2>1, <2>2
<1>5. Sound(f, made', def') /\ Sound(g, made', def')
  BY <1>2, <1>4 DEF Sound, Evaluating
<1>6. PICK u : u = Append(stack, f)
  OBVIOUS
<1>7. Pushed(stack, u, f) /\ u \in Seq(Frame)
  BY <1>2, <1>4, <1>6, AppendPushes
<1>8. stack # <<>> => stack[Len(stack)].op = "body"
  <2>1. stack # <<>> => Top = stack[Len(stack)] /\ Top \in Frame
    BY <1>2 DEF Top
  <2> QED
    BY <2>1, <1>1 DEF Frame, Outer
<1>9. Good(u, made', def')
  <2>1. stack # <<>> => /\ Caller(stack[Len(stack)], f, def')
                        /\ stack[Len(stack)].op \in Loading => f.op \in Loading
    BY <1>8 DEF Caller, Loading
  <2> QED
    BY <2>1, <1>2, <1>5, <1>7, PushKeeps
<1>10. Pushed(u, stack', g)
  BY <1>1, <1>3, <1>4, <1>6, <1>7, AppendPushes
<1>11. u[Len(u)] = f
  BY <1>2, <1>7 DEF Pushed
<1>12. Good(stack', made', def')
  <2>1. u # <<>> => /\ Caller(u[Len(u)], g, def')
                    /\ u[Len(u)].op \in Loading => g.op \in Loading
    BY <1>4, <1>11 DEF Caller, Loading
  <2> QED
    BY <2>1, <1>5, <1>7, <1>9, <1>10, PushKeeps
<1>13. Quiet(stack, stack')
  <2>1. Quiet(stack, u)
    BY <1>2, <1>4, <1>7, QuietPush
  <2>2. Quiet(u, stack')
    BY <1>4, <1>7, <1>10, QuietPush
  <2> QED
    BY <2>1, <2>2, QuietTwice
<1>14. stack' \in Seq(Frame) /\ Top' = g
  BY <1>7, <1>10 DEF Pushed, Top
<1>15. AllResolved
  BY <1>1, Underway DEF Compiling
<1>16. Steps(stack, stack', made', def')
  BY <1>12, <1>13, <1>14 DEF Steps
<1> QED
  BY <1>1, <1>4, <1>14, <1>15, <1>16, MakeStep DEF Compiling

---------------------------------------------------------------------------
(* The actions of JS_EvalFunctionInternal.                                 *)

(* What linking comes to from m is m and, for each module it comes to that *)
(* is not linked, what this requires.                                      *)
LEMMA ReachedClosed ==
    ASSUME NEW m \in Def \cup {NoDef}
    PROVE  /\ m \in Reached(m)
           /\ \A x \in Reached(m), y \in Def \cup {NoDef} :
                 IsLoaded(x) /\ ~def[x].linked /\ y \in RequirementsOf(x) => y \in Reached(m)
<1>1. m \in Reached(m)
  BY DEF Reached
<1>2. ASSUME NEW x \in Reached(m), NEW y \in Def \cup {NoDef},
             IsLoaded(x), ~def[x].linked, y \in RequirementsOf(x)
      PROVE  y \in Reached(m)
  <2> SUFFICES ASSUME NEW S \in SUBSET (Def \cup {NoDef}), m \in S, GoesOnFrom(S)
               PROVE  y \in S
    BY DEF Reached
  <2>1. x \in S
    BY DEF Reached
  <2> QED
    BY <2>1, <1>2 DEF GoesOnFrom
<1> QED
  BY <1>1, <1>2

LEMMA LinkKeeps ==
    ASSUME IndInv, Link
    PROVE  IndInv'
<1>1. /\ TypeOK /\ Indexed /\ LinkedIsWhole /\ stack \in Seq(Frame)
      /\ Good(stack, made, def) /\ made \subseteq Def
      /\ def \in [Def -> Definition \cup {NoDef}]
      /\ \A x \in made : def[x] \in Definition
      /\ Top.op = "JS_EvalFunction"
  BY DEF IndInv, Loads, TypeOK, Link, At
<1>2. PICK m : m = Top.m
  OBVIOUS
<1>3. m \in made /\ Top \in Frame /\ Top = stack[Len(stack)] /\ Len(stack) \in DOMAIN stack
      /\ Len(stack) \in Nat
  BY <1>1, <1>2, TopFrame, TopSound DEF Good
<1>4. PICK L : L = ToLink(m)
  OBVIOUS
<1>5. /\ def' = [d \in Def |-> IF d \in L THEN [def[d] EXCEPT !.linked = TRUE] ELSE def[d]]
      /\ \A d \in L : IsLoaded(d) /\ source[def[d].name].fault # "link"
      /\ Calls(1, Call("evaluate", m))
      /\ made' = made /\ loaded' = loaded /\ source' = source /\ runs' = runs /\ wild' = wild
  BY <1>2, <1>4 DEF Link
<1>6. AllResolved
  BY <1>1, Underway DEF Compiling
<1>7. \A x \in made : x \in Def
  BY <1>1
<1>8. ASSUME NEW x \in made
      PROVE  /\ def'[x] \in Definition
             /\ def'[x].name = def[x].name /\ def'[x].req = def[x].req
             /\ def'[x].resolved = def[x].resolved /\ def'[x].mark = def[x].mark
             /\ def'[x].evaluated = def[x].evaluated /\ def'[x].failed = def[x].failed
             /\ def'[x].linked <=> (x \in L \/ def[x].linked)
  <2>1. def[x] \in Definition /\ x \in Def
    BY <1>1, <1>7
  <2>2. CASE x \in L
    <3>1. def'[x] = [def[x] EXCEPT !.linked = TRUE]
      BY <2>1, <2>2, <1>5
    <3> QED
      BY <3>1, <2>1, <2>2 DEF Definition
  <2>3. CASE x \notin L
    <3>1. def'[x] = def[x]
      BY <2>1, <2>3, <1>5
    <3> QED
      BY <3>1, <2>1, <2>3
  <2> QED
    BY <2>2, <2>3
<1>9. \A d \in L : d \in made
  BY <1>1, <1>5 DEF IsLoaded, TypeOK
<1>10. def' \in [Def -> Definition \cup {NoDef}]
  <2>1. ASSUME NEW d \in Def PROVE def'[d] \in Definition \cup {NoDef}
    <3>1. CASE d \in made
      BY <3>1, <1>8
    <3>2. CASE d \notin made
      BY <3>2, <1>1, <1>5, <1>9
    <3> QED
      BY <3>1, <3>2
  <2> QED
    BY <2>1, <1>5
<1>11. ASSUME NEW x \in Reached(m), IsLoaded(x) PROVE x \in L \/ def[x].linked
  BY <1>4, <1>11 DEF ToLink
<1>12. def'[m].linked
  <2>1. m \in Reached(m)
    BY <1>3, <1>7, ReachedClosed
  <2>2. m \in L \/ def[m].linked
    BY <2>1, <1>4 DEF ToLink
  <2> QED
    BY <2>2, <1>3, <1>8
<1>13. LinkedIsWhole'
  <2> SUFFICES ASSUME NEW d \in made, def'[d].linked
               PROVE  /\ def'[d].resolved
                      /\ source[def'[d].name].fault # "link"
                      /\ \A x \in RequirementsOf(d)' : IsLoaded(x)' => def'[x].linked
    BY <1>5 DEF LinkedIsWhole
  <2>1. def'[d].resolved
    BY <1>6, <1>8 DEF AllResolved
  <2>2. d \in L \/ def[d].linked
    BY <1>8
  <2>3. source[def'[d].name].fault # "link"
    BY <2>2, <1>1, <1>5, <1>8 DEF LinkedIsWhole
  <2>4. ASSUME NEW x \in RequirementsOf(d)', IsLoaded(x)' PROVE def'[x].linked
    <3>1. x \in RequirementsOf(d) /\ IsLoaded(x)
      <4>1. def'[d].req = def[d].req
        BY <1>8
      <4>2. x \in RequirementsOf(d)
        BY <4>1 DEF RequirementsOf
      <4>3. IsLoaded(x)
        BY <2>4, <1>5 DEF IsLoaded
      <4> QED
        BY <4>2, <4>3
    <3>2. x \in made /\ x \in Def
      BY <3>1, <1>1 DEF IsLoaded, TypeOK
    <3>3. CASE def[d].linked
      <4>1. def[x].linked
        BY <3>1, <3>3, <1>1 DEF LinkedIsWhole
      <4> QED
        BY <4>1, <3>2, <1>8
    <3>4. CASE ~def[d].linked
      <4>1. d \in Reached(m) /\ IsLoaded(d)
        BY <3>4, <2>2, <1>4, <1>5 DEF ToLink
      <4>2. x \in Reached(m)
        BY <4>1, <3>1, <3>2, <3>4, <1>3, <1>7, ReachedClosed
      <4> QED
        BY <4>2, <3>1, <3>2, <1>8, <1>11
    <3> QED
      BY <3>3, <3>4
  <2> QED
    BY <2>1, <2>3, <2>4
<1>14. Good(stack, made, def')
  <2>1. ASSUME NEW k \in DOMAIN stack PROVE Sound(stack[k], made, def')
    <3>1. Sound(stack[k], made, def) /\ stack[k].m \in made
      BY <1>1 DEF Good, About, Sound
    <3>2. stack[k].op \notin Loading
      <4>1. CASE k = Len(stack)
        BY <4>1, <1>1, <1>3 DEF Loading
      <4>2. CASE k < Len(stack)
        BY <4>2, <1>1, <1>3 DEF Good, Innermost, Loading
      <4> QED
        BY <4>1, <4>2, <1>1, <1>3
    <3> QED
      BY <3>1, <3>2, <1>8 DEF Sound, Loading
  <2>2. ASSUME NEW k \in 1 .. Len(stack) - 1 PROVE Caller(stack[k], stack[k + 1], def')
    <3>1. k \in DOMAIN stack /\ Caller(stack[k], stack[k + 1], def) /\ stack[k].m \in made
      BY <1>1 DEF Good, About, Sound, Chained
    <3> QED
      BY <3>1, <1>8 DEF Caller
  <2> QED
    BY <2>1, <2>2, <1>1 DEF Good, About, Chained
<1>15. Steps(stack, stack', made, def')
  <2>1. PICK f : f = Call("evaluate", m)
    OBVIOUS
  <2>2. f \in Frame /\ f.op = "evaluate" /\ f.m = m /\ ~InProgress(f)
    BY <2>1, <1>3, <1>7, NewCall
  <2>3. PICK g : g = [Top EXCEPT !.i = 1]
    OBVIOUS
  <2>4. g.op = "JS_EvalFunction" /\ g.m = m
    BY <2>3, <1>1, <1>2, <1>3, MovedFrame
  <2>5. Sound(f, made, def') /\ Sound(g, made, def') /\ Caller(g, f, def')
    BY <2>2, <2>4, <1>3, <1>12 DEF Sound, Caller, Evaluating
  <2>6. /\ Top.op \notin Evaluating \cup {"outside"} /\ Calls(1, f)
        /\ Top.op \in Loading => f.op \in Loading
    BY <2>1, <1>1, <1>5 DEF Evaluating, Loading
  <2> QED
    BY <2>2, <2>3, <2>5, <2>6, <1>1, <1>14, QuietCalls
<1>16. Returned(ret', made') /\ ret'.st # "ok" /\ ret' \in Ret
  BY <1>5 DEF Calls, Nothing, Ret, Returned
<1>17. TypeOK'
  BY <1>1, <1>5, <1>8, <1>10, <1>15, <1>16 DEF TypeOK, Steps
<1>18. Indexed'
  BY <1>1, <1>5, <1>8 DEF Indexed, RequirementsOf
<1>19. ResolvedAtOnce'
  <2>1. ASSUME NEW x \in made PROVE def'[x].resolved
    BY <1>6, <1>8 DEF AllResolved
  <2>2. made' = made
    BY <1>5
  <2> QED
    BY <2>1, <2>2 DEF ResolvedAtOnce
<1>20. OkMeansFulfilled'
  BY <1>16 DEF OkMeansFulfilled
<1>21. SameRuns(made, def, made', def')
  BY <1>5, <1>8 DEF SameRuns
<1>22. Good(stack', made', def') /\ Quiet(stack, stack')
  BY <1>5, <1>15 DEF Steps
<1>23. Evaluations'
  BY <1>1, <1>5, <1>17, <1>20, <1>21, <1>22, QuietEvaluations DEF IndInv
<1> QED
  BY <1>13, <1>16, <1>17, <1>18, <1>19, <1>22, <1>23 DEF IndInv, Loads

LEMMA LinkFailsKeeps ==
    ASSUME IndInv, LinkFails
    PROVE  IndInv'
<1>1. PICK P : Unlink(P)
  BY DEF LinkFails, FreeNotEvaluated
<1>2. AllResolved /\ SameDefs /\ Top.op \notin Evaluating \cup {"outside"}
  BY Underway DEF LinkFails, At, SameDefs, Evaluating, Compiling
<1> QED
  BY <1>1, <1>2, PlainReturns DEF LinkFails

LEMMA EvalFunctionEndsKeeps ==
    ASSUME IndInv, EvalFunctionEnds
    PROVE  IndInv'
<1>1. PICK P : UNCHANGED loaded \/ Unlink(P)
  BY DEF EvalFunctionEnds, FreeNotEvaluated
<1>2. AllResolved /\ SameDefs /\ Top.op \notin Evaluating \cup {"outside"}
  BY Underway DEF EvalFunctionEnds, At, SameDefs, Evaluating, Compiling
<1>3. ret.st \in {"none", "ok", "throw"} /\ Returns(ret.st)
  BY DEF EvalFunctionEnds, IndInv, Loads, TypeOK, Ret
<1> QED
  BY <1>1, <1>2, <1>3, PlainReturns

(* A step that uses a pointer which is not valid changes nothing else that *)
(* the invariant is about, and neither does one that changes nothing.      *)
LEMMA WildKeeps ==
    ASSUME IndInv, wild' \in BOOLEAN, UNCHANGED <<source, def, made, loaded, stack, ret, runs>>
    PROVE  IndInv'
<1>1. TypeOK' /\ Indexed' /\ Returned(ret', made') /\ ResolvedAtOnce' /\ LinkedIsWhole'
  BY DEF IndInv, Loads, TypeOK, Indexed, RequirementsOf, Returned, ResolvedAtOnce, Top,
         LinkedIsWhole, IsLoaded
<1>2. InProgressOnce' /\ MarkedInProgress' /\ NotYetEvaluated' /\ RunsCounted'
  BY DEF IndInv, Evaluations, InProgressOnce, MarkedInProgress, NotYetEvaluated, RunsCounted
<1>3. RequirementsFulfilled' /\ OkMeansFulfilled'
  BY DEF IndInv, Evaluations, RequirementsFulfilled, OkMeansFulfilled, Top
<1> QED
  BY <1>1, <1>2, <1>3 DEF IndInv, Loads, Evaluations

---------------------------------------------------------------------------
(* The actions of js_evaluate_module.                                      *)

(* The frames that evaluate when the innermost one does, or did.           *)
SameRunsBut(s, t, n) ==
    \A k \in Nat : k # n =>
        \A x \in Def : /\ Evaluates(t, k, x) <=> Evaluates(s, k, x)
                       /\ RunsBody(t, k, x) <=> RunsBody(s, k, x)

TakesOver(s, t, g) ==
    /\ SameRunsBut(s, t, Len(s))
    /\ \A x : Evaluates(t, Len(s), x) <=> x = g.m
    /\ \A x : RunsBody(t, Len(s), x) <=> x = g.m /\ g.op = "body"

LEMMA ReplacedRuns ==
    ASSUME NEW s \in Seq(Frame), NEW t, NEW g, Replaced(s, t, g), InProgress(g)
    PROVE  TakesOver(s, t, g)
<1>1. /\ Len(s) \in Nat \ {0} /\ DOMAIN s = 1 .. Len(s) /\ DOMAIN t = 1 .. Len(s)
      /\ \A j \in 1 .. Len(s) - 1 : t[j] = s[j]
      /\ t[Len(s)] = g
  BY DEF Replaced
<1>2. Len(s) \in DOMAIN t
  BY <1>1
<1>3. ASSUME NEW k \in Nat, k # Len(s), NEW x \in Def
      PROVE  /\ Evaluates(t, k, x) <=> Evaluates(s, k, x)
             /\ RunsBody(t, k, x) <=> RunsBody(s, k, x)
  <2>1. k \in DOMAIN t <=> k \in DOMAIN s
    BY <1>1
  <2>2. k \in DOMAIN s => t[k] = s[k]
    <3>1. Len(s) \in Nat /\ (k \in DOMAIN s => k \in 1 .. Len(s))
      BY <1>1
    <3>2. k \in DOMAIN s => k \in 1 .. Len(s) - 1
      BY <3>1, <1>3
    <3> QED
      BY <3>2, <1>1
  <2> QED
    BY <2>1, <2>2 DEF Evaluates, RunsBody
<1> QED
  BY <1>1, <1>2, <1>3 DEF TakesOver, SameRunsBut, Evaluates, RunsBody

LEMMA PoppedRuns ==
    ASSUME NEW s \in Seq(Frame), NEW t, Popped(s, t)
    PROVE  /\ SameRunsBut(s, t, Len(s))
           /\ \A x : ~Evaluates(t, Len(s), x) /\ ~RunsBody(t, Len(s), x)
<1>1. /\ Len(s) \in Nat \ {0} /\ DOMAIN s = 1 .. Len(s) /\ DOMAIN t = 1 .. Len(s) - 1
      /\ \A j \in 1 .. Len(s) - 1 : t[j] = s[j]
  BY DEF Popped
<1>2. Len(s) \notin DOMAIN t
  BY <1>1
<1>3. ASSUME NEW k \in Nat, k # Len(s), NEW x \in Def
      PROVE  /\ Evaluates(t, k, x) <=> Evaluates(s, k, x)
             /\ RunsBody(t, k, x) <=> RunsBody(s, k, x)
  <2>1. k \in DOMAIN t <=> k \in DOMAIN s
    BY <1>1, <1>3
  <2>2. k \in DOMAIN t => t[k] = s[k]
    BY <1>1
  <2> QED
    BY <2>1, <2>2 DEF Evaluates, RunsBody
<1> QED
  BY <1>2, <1>3 DEF SameRunsBut, Evaluates, RunsBody

(* What is known of the innermost call when it is an evaluation.           *)
LEMMA EvaluatingTop ==
    ASSUME IndInv, Top.op \in Evaluating
    PROVE  /\ Top \in Frame /\ Top = stack[Len(stack)] /\ Top.i \in Nat
           /\ stack \in Seq(Frame) /\ stack # <<>>
           /\ Len(stack) \in Nat \ {0} /\ Len(stack) \in DOMAIN stack
           /\ Top.m \in made /\ Top.m \in Def /\ def[Top.m] \in Definition
           /\ def[Top.m].linked /\ Sound(Top, made, def) /\ AllResolved
           /\ Good(stack, made, def) /\ Top.op # "outside"
<1>1. /\ stack \in Seq(Frame) /\ Good(stack, made, def) /\ made \subseteq Def
      /\ Top.op # "outside"
  BY DEF IndInv, Loads, TypeOK, Evaluating
<1>2. /\ Top \in Frame /\ Top.m \in made /\ Sound(Top, made, def) /\ Top.i \in Nat
      /\ Top = stack[Len(stack)] /\ stack # <<>>
      /\ Len(stack) \in Nat \ {0} /\ Len(stack) \in DOMAIN stack
  BY <1>1, TopFrame, TopSound DEF Good
<1>3. def[Top.m] \in Definition /\ def[Top.m].linked
  BY <1>2 DEF IndInv, Loads, TypeOK, Sound
<1>4. AllResolved
  BY Underway DEF Evaluating, Compiling
<1> QED
  BY <1>1, <1>2, <1>3, <1>4

(* A step of an evaluation changes at most the mark and the result of its  *)
(* module.                                                                 *)
SameButRuns(q, r) ==
    /\ r \in Definition /\ r.name = q.name /\ r.req = q.req
    /\ r.resolved = q.resolved /\ r.linked = q.linked

LEMMA EvaluationLinks ==
    ASSUME IndInv, NEW m \in made, NEW r, SameButRuns(def[m], r), def' = [def EXCEPT ![m] = r]
    PROVE  /\ SameLinks(made, def, made, def') /\ Good(stack, made, def')
           /\ def' \in [Def -> Definition \cup {NoDef}]
           /\ \A x \in made : def'[x] \in Definition /\ def'[x].req = def[x].req
           /\ def'[m] = r /\ \A x \in made \ {m} : def'[x] = def[x]
<1>1. /\ def \in [Def -> Definition \cup {NoDef}] /\ made \subseteq Def
      /\ \A x \in made : def[x] \in Definition
      /\ stack \in Seq(Frame) /\ Good(stack, made, def) /\ r \in Definition
  BY DEF IndInv, Loads, TypeOK, SameButRuns
<1>2. def'[m] = r /\ \A x \in made \ {m} : def'[x] = def[x]
  BY <1>1
<1>3. def' \in [Def -> Definition \cup {NoDef}]
  BY <1>1
<1>4. ASSUME NEW x \in made
      PROVE  /\ def'[x] \in Definition /\ def'[x].name = def[x].name
             /\ def'[x].req = def[x].req /\ def'[x].resolved = def[x].resolved
             /\ def'[x].linked = def[x].linked
  <2>1. CASE x = m
    BY <2>1, <1>2 DEF SameButRuns
  <2>2. CASE x # m
    BY <2>2, <1>1, <1>2
  <2> QED
    BY <2>1, <2>2
<1>5. SameLinks(made, def, made, def')
  BY <1>4 DEF SameLinks
<1>6. Good(stack, made, def')
  BY <1>1, <1>5, GoodGrows
<1> QED
  BY <1>2, <1>3, <1>4, <1>5, <1>6

LEMMA EvaluationStep ==
    ASSUME IndInv, Top.op \in Evaluating,
           NEW m \in made, NEW r, SameButRuns(def[m], r), def' = [def EXCEPT ![m] = r],
           UNCHANGED <<source, made, loaded, wild>>, runs' \in [Def -> Nat],
           stack' \in Seq(Frame), Good(stack', made, def'), Returned(ret', made),
           Evaluations'
    PROVE  IndInv'
<1>1. /\ TypeOK /\ Indexed /\ made' = made /\ loaded' = loaded /\ source' = source
      /\ wild' = wild /\ LinkedIsWhole
  BY DEF IndInv, Loads
<1>2. /\ SameLinks(made, def, made', def')
      /\ def' \in [Def -> Definition \cup {NoDef}]
      /\ \A x \in made : def'[x] \in Definition /\ def'[x].req = def[x].req
  BY <1>1, EvaluationLinks
<1>3. TypeOK' /\ Returned(ret', made')
  BY <1>1, <1>2 DEF TypeOK, Returned
<1>4. Indexed'
  <2>1. \A x \in made : def'[x].name = def[x].name
    BY <1>2 DEF SameLinks
  <2> QED
    BY <2>1, <1>1, <1>2 DEF Indexed, RequirementsOf
<1>5. \A x \in made : IsLoaded(x)' => IsLoaded(x)
  BY <1>1 DEF IsLoaded
<1>6. LinkedIsWhole'
  BY <1>1, <1>2, <1>3, <1>5, LinkedKept
<1>7. ResolvedAtOnce'
  <2>1. AllResolved
    BY EvaluatingTop
  <2> QED
    BY <2>1, <1>1, <1>2 DEF AllResolved, ResolvedAtOnce, SameLinks
<1>8. Good(stack', made', def')
  BY <1>1
<1> QED
  BY <1>3, <1>4, <1>6, <1>7, <1>8 DEF IndInv, Loads

(* The calls that an evaluation returns to are about its module.           *)
LEMMA ReturnsToCaller ==
    ASSUME IndInv, Top.op \in Evaluating, NEW t, Popped(stack, t), NEW D,
           \A x \in made : D[x].req = def[x].req,
           NEW c, c = IF t = <<>> THEN Call("outside", NoDef) ELSE t[Len(t)]
    PROVE  /\ c.op = "JS_EvalFunction" => c.m = Top.m
           /\ c.op = "evaluate" => D[c.m].req[c.i] = Top.m
           /\ Len(t) = Len(stack) - 1
<1>1. /\ Top = stack[Len(stack)] /\ Len(stack) \in Nat \ {0} /\ stack \in Seq(Frame)
      /\ Good(stack, made, def)
  BY EvaluatingTop
<1>2. Len(t) = Len(stack) - 1 /\ t \in Seq(Frame)
      /\ \A k \in 1 .. Len(stack) - 1 : t[k] = stack[k]
  BY DEF Popped
<1>3. CASE t = <<>>
  BY <1>2, <1>3 DEF Call
<1>4. CASE t # <<>>
  <2>1. PICK n : n = Len(stack) - 1
    OBVIOUS
  <2>2. n \in Nat /\ n # 0 /\ n + 1 = Len(stack) /\ n \in DOMAIN stack /\ Len(t) = n
    BY <2>1, <1>1, <1>2, <1>4
  <2>3. n \in 1 .. Len(stack) - 1
    BY <2>1, <2>2
  <2>4. c = stack[n] /\ Caller(stack[n], stack[n + 1], def)
    BY <2>2, <2>3, <1>1, <1>2, <1>4 DEF Good, Chained
  <2>5. stack[n].m \in made
    BY <2>2, <1>1 DEF Good, About, Sound
  <2>6. Caller(c, Top, def) /\ c.m \in made
    BY <2>2, <2>4, <2>5, <1>1
  <2> QED
    BY <2>6, <1>2 DEF Caller
<1> QED
  BY <1>3, <1>4

(* A module in progress, or one that was evaluated before.                 *)
LEMMA EvaluateReturnsKeeps ==
    ASSUME IndInv, SameDefs, UNCHANGED loaded, At("evaluate", 0),
           NEW st \in {"ok", "throw"}, Returns(st),
           st = "ok" => def[Top.m].mark \/ (def[Top.m].evaluated /\ ~def[Top.m].failed)
    PROVE  IndInv'
<1>1. Top.op = "evaluate" /\ Top.i = 0 /\ Top.op \in Evaluating
  BY DEF At, Evaluating
<1>2. /\ Top = stack[Len(stack)] /\ Len(stack) \in Nat \ {0} /\ stack \in Seq(Frame)
      /\ stack # <<>> /\ Top.m \in made /\ Top.m \in Def
      /\ Good(stack, made, def) /\ AllResolved
  BY <1>1, EvaluatingTop
<1>3. ~InProgress(Top)
  BY <1>1 DEF InProgress
<1>4. Popped(stack, stack')
  BY <1>2, PopPops DEF Returns, Pop, Below
<1>5. Good(stack', made, def)
  BY <1>2, <1>4, PopKeeps
<1>6. Quiet(stack, stack')
  BY <1>2, <1>3, <1>4, QuietPop
<1>7. Steps(stack, stack', made, def)
  BY <1>4, <1>5, <1>6 DEF Steps, Popped
<1>8. Returned(ret', made)
  BY <1>2 DEF Returns, Ret, Returned
<1>9. OkMeansFulfilled'
  <2> SUFFICES ASSUME st = "ok",
                      \/ Top'.op = "JS_EvalFunction"
                      \/ Top'.op = "evaluate"
               PROVE  /\ Top'.op = "JS_EvalFunction" =>
                            Fulfilled(stack', made', def', Len(stack'), Top'.m)
                      /\ Top'.op = "evaluate" =>
                            Fulfilled(stack', made', def', Len(stack'), def'[Top'.m].req[Top'.i])
    BY DEF OkMeansFulfilled, Returns
  <2>1. /\ Top'.op = "JS_EvalFunction" => Top'.m = Top.m
        /\ Top'.op = "evaluate" => def[Top'.m].req[Top'.i] = Top.m
        /\ Len(stack') = Len(stack) - 1
    BY <1>1, <1>4, ReturnsToCaller DEF Top
  <2>2. Fulfilled(stack', made, def, Len(stack'), Top.m)
    <3>1. CASE def[Top.m].evaluated /\ ~def[Top.m].failed
      BY <3>1, <1>2 DEF Fulfilled
    <3>2. CASE def[Top.m].mark
      <4>1. PICK k \in Nat : Evaluates(stack, k, Top.m)
        BY <3>2, <1>2 DEF IndInv, Evaluations, MarkedInProgress
      <4>2. k # Len(stack) /\ k \in 1 .. Len(stack)
        BY <4>1, <1>2, <1>3 DEF Evaluates
      <4>3. k \in 1 .. Len(stack')
        BY <4>2, <2>1, <1>2
      <4>4. Evaluates(stack', k, Top.m)
        BY <4>1, <1>2, <1>6 DEF Quiet
      <4> QED
        BY <4>3, <4>4, <1>2 DEF Fulfilled
    <3> QED
      BY <3>1, <3>2
  <2>3. made' = made /\ def' = def
    BY DEF SameDefs
  <2> QED
    BY <2>1, <2>2, <2>3
<1> QED
  BY <1>2, <1>7, <1>8, <1>9, SameDefsStep

(* The module is marked.                                                   *)
LEMMA EvaluateMarksKeeps ==
    ASSUME IndInv, At("evaluate", 0), ~def[Top.m].mark, ~def[Top.m].evaluated,
           GoesOn(1), def' = [def EXCEPT ![Top.m].mark = TRUE],
           UNCHANGED <<source, made, loaded, runs, wild>>
    PROVE  IndInv'
<1>1. Top.op = "evaluate" /\ Top.i = 0 /\ Top.op \in Evaluating
  BY DEF At, Evaluating
<1>2. /\ Top \in Frame /\ Top = stack[Len(stack)] /\ Len(stack) \in Nat \ {0}
      /\ stack \in Seq(Frame) /\ stack # <<>> /\ Top.m \in made /\ def[Top.m] \in Definition
      /\ def[Top.m].linked
  BY <1>1, EvaluatingTop
<1>3. PICK m, n, g : m = Top.m /\ n = Len(stack) /\ g = [Top EXCEPT !.i = 1]
  OBVIOUS
<1>4. g \in Frame /\ g.op = "evaluate" /\ g.m = m /\ g.i = 1 /\ InProgress(g)
  <2>1. g \in Frame /\ g.op = "evaluate" /\ g.m = m /\ g.i = 1
    BY <1>1, <1>2, <1>3, MovedFrame
  <2> QED
    BY <2>1 DEF InProgress
<1>5. PICK r : r = [def[m] EXCEPT !.mark = TRUE]
  OBVIOUS
<1>6. /\ r.mark /\ r.evaluated = def[m].evaluated /\ r.failed = def[m].failed
      /\ SameButRuns(def[m], r) /\ def' = [def EXCEPT ![m] = r]
  BY <1>2, <1>3, <1>5 DEF SameButRuns, Definition
<1>7. /\ Good(stack, made, def')
      /\ \A x \in made : def'[x] \in Definition /\ def'[x].req = def[x].req
      /\ def'[m] = r /\ \A x \in made \ {m} : def'[x] = def[x]
  <2>1. m \in made /\ SameButRuns(def[m], r) /\ def' = [def EXCEPT ![m] = r]
    BY <1>2, <1>3, <1>6
  <2> QED
    BY <2>1, EvaluationLinks
<1>8. Replaced(stack, stack', g)
  BY <1>2, <1>3, <1>4, SetTopReplaces DEF GoesOn, SetTop, Pop, Below
<1>9. Good(stack', made, def')
  <2>1. Sound(g, made, def')
    BY <1>2, <1>3, <1>4, <1>6, <1>7 DEF Sound, SameButRuns
  <2>2. g.m = stack[Len(stack)].m /\ g.op = stack[Len(stack)].op
    BY <1>1, <1>2, <1>3, <1>4
  <2> QED
    BY <2>1, <2>2, <1>2, <1>7, <1>8, ReplaceKeeps
<1>10. /\ SameRunsBut(stack, stack', n)
       /\ \A x : Evaluates(stack', n, x) <=> x = m
       /\ \A x : ~RunsBody(stack', n, x)
  <2>1. TakesOver(stack, stack', g)
    BY <1>2, <1>4, <1>8, ReplacedRuns
  <2> QED
    BY <2>1, <1>3, <1>4 DEF TakesOver
<1>11. ASSUME NEW x PROVE ~Evaluates(stack, n, x) /\ ~RunsBody(stack, n, x)
  BY <1>1, <1>2, <1>3 DEF Evaluates, RunsBody, InProgress
<1>12. ASSUME NEW k \in Nat PROVE ~Evaluates(stack, k, m)
  BY <1>2, <1>3 DEF IndInv, Evaluations, MarkedInProgress
<1>13. /\ made' = made /\ runs' = runs /\ n \in Nat /\ m \in made /\ made \subseteq Def
       /\ TypeOK
  BY <1>2, <1>3 DEF IndInv, Loads, TypeOK
<1>14. InProgressOnce'
  <2> SUFFICES ASSUME NEW x \in made, NEW j \in Nat, NEW k \in Nat,
                      Evaluates(stack', j, x), Evaluates(stack', k, x)
               PROVE  j = k
    BY <1>13 DEF InProgressOnce
  <2>1. CASE x = m
    BY <2>1, <1>10, <1>12, <1>13 DEF SameRunsBut
  <2>2. CASE x # m
    BY <2>2, <1>10, <1>13 DEF SameRunsBut, IndInv, Evaluations, InProgressOnce
  <2> QED
    BY <2>1, <2>2
<1>15. MarkedInProgress' /\ NotYetEvaluated'
  <2> SUFFICES ASSUME NEW x \in made
               PROVE  /\ def'[x].mark <=> \E k \in Nat : Evaluates(stack', k, x)
                      /\ (\E k \in Nat : Evaluates(stack', k, x)) => ~def'[x].evaluated
    BY <1>13 DEF MarkedInProgress, NotYetEvaluated
  <2>1. CASE x = m
    <3>1. def'[x].mark /\ ~def'[x].evaluated
      BY <2>1, <1>3, <1>6, <1>7
    <3>2. Evaluates(stack', n, x)
      BY <2>1, <1>10, <1>13
    <3> QED
      BY <3>1, <3>2, <1>13
  <2>2. CASE x # m
    <3>1. \A k \in Nat : Evaluates(stack', k, x) <=> Evaluates(stack, k, x)
      BY <2>2, <1>10, <1>11, <1>13 DEF SameRunsBut
    <3>2. def'[x] = def[x]
      BY <2>2, <1>7
    <3> QED
      BY <3>1, <3>2 DEF IndInv, Evaluations, MarkedInProgress, NotYetEvaluated
  <2> QED
    BY <2>1, <2>2
<1>16. RunsCounted'
  <2>1. \A x \in Def, k \in Nat : RunsBody(stack', k, x) <=> RunsBody(stack, k, x)
    BY <1>10, <1>11, <1>13 DEF SameRunsBut
  <2>2. ASSUME NEW x \in made PROVE def'[x].evaluated = def[x].evaluated
    BY <1>6, <1>7
  <2> QED
    BY <2>1, <2>2, <1>13 DEF IndInv, Evaluations, RunsCounted
<1>17. RequirementsFulfilled'
  <2> SUFFICES ASSUME NEW k \in DOMAIN stack', stack'[k].op = "evaluate",
                      NEW j \in DOMAIN def'[stack'[k].m].req, j < stack'[k].i
               PROVE  Fulfilled(stack', made, def', k, def'[stack'[k].m].req[j])
    BY <1>13 DEF RequirementsFulfilled
  <2>1. DOMAIN stack' = 1 .. n /\ DOMAIN stack = 1 .. n /\ stack'[n] = g
        /\ \A p \in 1 .. n - 1 : stack'[p] = stack[p]
    BY <1>2, <1>3, <1>8 DEF Replaced
  <2>2. stack'[k].m \in made
    BY <1>9 DEF Good, About, Sound
  <2>3. j \in Nat \ {0} /\ def'[stack'[k].m].req = def[stack'[k].m].req
    BY <2>2, <1>7 DEF Definition
  <2>4. k # n
    BY <2>1, <2>3, <1>4
  <2>5. k \in 1 .. n - 1 /\ k \in DOMAIN stack /\ stack'[k] = stack[k]
    BY <2>1, <2>4, <1>13
  <2>6. PICK x : x = def[stack[k].m].req[j]
    OBVIOUS
  <2>7. Fulfilled(stack, made, def, k, x)
    BY <2>3, <2>5, <2>6 DEF IndInv, Evaluations, RequirementsFulfilled
  <2>8. Fulfilled(stack', made, def', k, x)
    <3>1. x \in made /\ def'[x].evaluated = def[x].evaluated /\ def'[x].failed = def[x].failed
      BY <2>7, <1>6, <1>7 DEF Fulfilled
    <3>2. ASSUME NEW p \in 1 .. k, Evaluates(stack, p, x) PROVE Evaluates(stack', p, x)
      BY <3>1, <3>2, <2>5, <1>10, <1>13 DEF SameRunsBut
    <3> QED
      BY <3>1, <3>2, <2>7 DEF Fulfilled
  <2> QED
    BY <2>3, <2>5, <2>6, <2>8
<1>18. OkMeansFulfilled' /\ Returned(ret', made)
  BY DEF OkMeansFulfilled, GoesOn, Nothing, Returned, Ret
<1>19. Evaluations'
  BY <1>14, <1>15, <1>16, <1>17, <1>18 DEF Evaluations
<1>20. stack' \in Seq(Frame) /\ runs' \in [Def -> Nat]
  BY <1>8, <1>13 DEF Replaced, TypeOK
<1> QED
  BY <1>1, <1>6, <1>9, <1>13, <1>18, <1>19, <1>20, EvaluationStep

LEMMA EvaluateBeginKeeps ==
    ASSUME IndInv, EvaluateBegin
    PROVE  IndInv'
<1>1. At("evaluate", 0) /\ UNCHANGED <<source, made, loaded, runs, wild>>
  BY DEF EvaluateBegin
<1>2. CASE def[Top.m].mark
  <2>1. Returns("ok") /\ UNCHANGED def
    BY <1>2 DEF EvaluateBegin
  <2> QED
    BY <2>1, <1>1, <1>2, EvaluateReturnsKeeps DEF SameDefs
<1>3. CASE ~def[Top.m].mark /\ def[Top.m].evaluated
  <2>1. PICK st : st = IF def[Top.m].failed THEN "throw" ELSE "ok"
    OBVIOUS
  <2>2. Returns(st) /\ UNCHANGED def
    BY <2>1, <1>3 DEF EvaluateBegin
  <2>3. st \in {"ok", "throw"} /\ (st = "ok" => ~def[Top.m].failed)
    BY <2>1
  <2> QED
    BY <2>2, <2>3, <1>1, <1>3, EvaluateReturnsKeeps DEF SameDefs
<1>4. CASE ~def[Top.m].mark /\ ~def[Top.m].evaluated
  <2>1. GoesOn(1) /\ def' = [def EXCEPT ![Top.m].mark = TRUE]
    BY <1>4 DEF EvaluateBegin
  <2> QED
    BY <2>1, <1>1, <1>4, EvaluateMarksKeeps
<1> QED
  BY <1>2, <1>3, <1>4

(* What the calls further out have passed stays fulfilled when the         *)
(* innermost one goes on or ends.                                          *)
LEMMA OthersFulfilled ==
    ASSUME IndInv, NEW n \in Nat, NEW m \in made, SameRunsBut(stack, stack', n),
           \A x \in made \ {m} : def'[x] = def[x],
           \/ def'[m].evaluated = def[m].evaluated /\ def'[m].failed = def[m].failed
           \/ Evaluates(stack, n, m),
           NEW k \in Nat, k < n, NEW x, Fulfilled(stack, made, def, k, x)
    PROVE  Fulfilled(stack', made, def', k, x)
<1>1. x \in made /\ x \in Def
  BY DEF Fulfilled, IndInv, Loads, TypeOK
<1>2. CASE def[x].evaluated /\ ~def[x].failed
  <2>1. def'[x].evaluated /\ ~def'[x].failed
    <3>1. CASE x = m
      <4>1. ~Evaluates(stack, n, m)
        BY <3>1, <1>2 DEF IndInv, Evaluations, NotYetEvaluated
      <4> QED
        BY <4>1, <3>1, <1>2
    <3>2. CASE x # m
      BY <3>2, <1>1, <1>2
    <3> QED
      BY <3>1, <3>2
  <2> QED
    BY <2>1, <1>1 DEF Fulfilled
<1>3. ASSUME NEW p \in 1 .. k, Evaluates(stack, p, x) PROVE Evaluates(stack', p, x)
  BY <1>1, <1>3 DEF SameRunsBut
<1>4. CASE \E p \in 1 .. k : Evaluates(stack, p, x)
  BY <1>1, <1>3, <1>4 DEF Fulfilled
<1> QED
  BY <1>2, <1>4 DEF Fulfilled

(* So an evaluation that goes on or ends keeps RequirementsFulfilled if it *)
(* has passed only what is fulfilled.                                      *)
LEMMA PassedFulfilled ==
    ASSUME IndInv, Top.op \in Evaluating, NEW n, n = Len(stack), made' = made,
           NEW m \in made, SameRunsBut(stack, stack', n),
           \A x \in made \ {m} : def'[x] = def[x],
           \A x \in made : def'[x] \in Definition /\ def'[x].req = def[x].req,
           \/ def'[m].evaluated = def[m].evaluated /\ def'[m].failed = def[m].failed
           \/ Evaluates(stack, n, m),
           About(stack', made, def'),
           DOMAIN stack' \subseteq 1 .. n,
           \A k \in 1 .. n - 1 : k \in DOMAIN stack' => stack'[k] = stack[k],
           n \in DOMAIN stack' /\ stack'[n].op = "evaluate" =>
               \A j \in DOMAIN def[stack'[n].m].req :
                   j < stack'[n].i => Fulfilled(stack', made, def', n, def[stack'[n].m].req[j])
    PROVE  RequirementsFulfilled'
<1> SUFFICES ASSUME NEW k \in DOMAIN stack', stack'[k].op = "evaluate",
                    NEW j \in DOMAIN def'[stack'[k].m].req, j < stack'[k].i
             PROVE  Fulfilled(stack', made, def', k, def'[stack'[k].m].req[j])
  BY DEF RequirementsFulfilled
<1>1. n \in Nat /\ DOMAIN stack = 1 .. n /\ k \in 1 .. n
  BY EvaluatingTop
<1>2. stack'[k].m \in made
  BY DEF About, Sound
<1>3. def'[stack'[k].m].req = def[stack'[k].m].req /\ j \in DOMAIN def[stack'[k].m].req
  BY <1>2
<1>4. CASE k = n
  BY <1>3, <1>4
<1>5. CASE k # n
  <2>1. k \in 1 .. n - 1 /\ k \in Nat /\ k < n /\ k \in DOMAIN stack
    BY <1>1, <1>5
  <2>2. stack'[k] = stack[k]
    BY <2>1
  <2>3. PICK x : x = def[stack[k].m].req[j]
    OBVIOUS
  <2>4. Fulfilled(stack, made, def, k, x)
    BY <2>1, <2>2, <2>3, <1>3 DEF IndInv, Evaluations, RequirementsFulfilled
  <2>5. Fulfilled(stack', made, def', k, x)
    BY <2>1, <2>4, <1>1, OthersFulfilled
  <2> QED
    BY <2>2, <2>3, <2>5, <1>3
<1> QED
  BY <1>4, <1>5

(* The next requirement, when this one is fulfilled.                       *)
LEMMA EvaluateAdvances ==
    ASSUME IndInv, SameDefs, UNCHANGED loaded, Top.op = "evaluate",
           Top.i \in DOMAIN def[Top.m].req, GoesOn(Top.i + 1),
           Fulfilled(stack, made, def, Len(stack), def[Top.m].req[Top.i])
    PROVE  IndInv'
<1>1. Top.op \in Evaluating
  BY DEF Evaluating
<1>2. /\ Top \in Frame /\ Top = stack[Len(stack)] /\ Len(stack) \in Nat \ {0} /\ Top.i \in Nat
      /\ stack \in Seq(Frame) /\ stack # <<>> /\ Top.m \in made /\ def[Top.m] \in Definition
      /\ def[Top.m].linked /\ Good(stack, made, def) /\ Sound(Top, made, def)
      /\ Len(stack) \in DOMAIN stack
  BY <1>1, EvaluatingTop
<1>3. PICK m, n, i, g : /\ m = Top.m /\ n = Len(stack) /\ i = Top.i
                        /\ g = [Top EXCEPT !.i = Top.i + 1]
  OBVIOUS
<1>4. i \in Nat \ {0} /\ i \in DOMAIN def[m].req
  <2>1. def[m].req \in Seq(Def \cup {NoDef})
    BY <1>2, <1>3 DEF Definition
  <2> QED
    BY <2>1, <1>2, <1>3
<1>5. g \in Frame /\ g.op = "evaluate" /\ g.m = m /\ g.i = i + 1 /\ InProgress(g)
  <2>1. g \in Frame /\ g.op = "evaluate" /\ g.m = m /\ g.i = i + 1
    BY <1>2, <1>3, MovedFrame
  <2> QED
    BY <2>1, <1>4 DEF InProgress
<1>6. InProgress(Top)
  BY <1>3, <1>4 DEF InProgress
<1>7. Replaced(stack, stack', g)
  BY <1>2, <1>3, <1>5, SetTopReplaces DEF GoesOn, SetTop, Pop, Below
<1>8. Good(stack', made, def)
  <2>1. Sound(g, made, def)
    BY <1>2, <1>3, <1>5 DEF Sound
  <2>2. g.m = stack[Len(stack)].m /\ g.op = stack[Len(stack)].op
    BY <1>2, <1>3, <1>5
  <2> QED
    BY <2>1, <2>2, <1>2, <1>7, ReplaceKeeps
<1>9. /\ SameRunsBut(stack, stack', n)
      /\ \A x : Evaluates(stack', n, x) <=> x = m
      /\ \A x : ~RunsBody(stack', n, x)
  <2>1. TakesOver(stack, stack', g)
    BY <1>2, <1>5, <1>7, ReplacedRuns
  <2> QED
    BY <2>1, <1>3, <1>5 DEF TakesOver
<1>10. /\ \A x : Evaluates(stack, n, x) <=> x = m
       /\ \A x : ~RunsBody(stack, n, x)
  BY <1>2, <1>3, <1>6 DEF Evaluates, RunsBody
<1>11. \A k \in Nat, x \in Def : /\ Evaluates(stack', k, x) <=> Evaluates(stack, k, x)
                                 /\ RunsBody(stack', k, x) <=> RunsBody(stack, k, x)
  BY <1>9, <1>10 DEF SameRunsBut
<1>12. /\ made' = made /\ def' = def /\ runs' = runs /\ n \in Nat \ {0} /\ m \in made
       /\ made \subseteq Def /\ TypeOK /\ source' = source /\ wild' = wild
       /\ \A x \in made : def[x] \in Definition
  BY <1>2, <1>3 DEF IndInv, Loads, TypeOK, SameDefs
<1>13. InProgressOnce' /\ MarkedInProgress' /\ NotYetEvaluated'
  BY <1>11, <1>12 DEF IndInv, Evaluations, InProgressOnce, MarkedInProgress, NotYetEvaluated
<1>14. RunsCounted'
  BY <1>11, <1>12 DEF IndInv, Evaluations, RunsCounted
<1>15. /\ DOMAIN stack' = 1 .. n /\ DOMAIN stack = 1 .. n /\ stack'[n] = g
       /\ \A p \in 1 .. n - 1 : stack'[p] = stack[p]
  BY <1>2, <1>3, <1>7 DEF Replaced
<1>16. ASSUME NEW x, Fulfilled(stack, made, def, n, x) PROVE Fulfilled(stack', made, def', n, x)
  <2>1. x \in made /\ x \in Def
    BY <1>12, <1>16 DEF Fulfilled
  <2>2. \A p \in 1 .. n : Evaluates(stack, p, x) => Evaluates(stack', p, x)
    BY <2>1, <1>11
  <2> QED
    BY <2>1, <2>2, <1>12, <1>16 DEF Fulfilled
<1>17. ASSUME NEW j \in DOMAIN def[m].req, j < i + 1
       PROVE  Fulfilled(stack', made, def', n, def[m].req[j])
  <2>1. CASE j = i
    BY <2>1, <1>3, <1>16
  <2>2. CASE j # i
    <3>1. j < i
      <4>1. def[m].req \in Seq(Def \cup {NoDef})
        BY <1>12 DEF Definition
      <4> QED
        BY <4>1, <2>2, <1>4, <1>17
    <3>2. Fulfilled(stack, made, def, n, def[m].req[j])
      BY <3>1, <1>2, <1>3 DEF IndInv, Evaluations, RequirementsFulfilled
    <3> QED
      BY <3>2, <1>16
  <2> QED
    BY <2>1, <2>2
<1>18. RequirementsFulfilled'
  <2>1. About(stack', made, def')
    BY <1>8, <1>12 DEF Good
  <2> QED
    BY <2>1, <1>1, <1>3, <1>5, <1>9, <1>12, <1>15, <1>17, PassedFulfilled
<1>19. OkMeansFulfilled' /\ Returned(ret', made)
  BY DEF OkMeansFulfilled, GoesOn, Nothing, Returned, Ret
<1>20. Evaluations'
  BY <1>13, <1>14, <1>18, <1>19 DEF Evaluations
<1>21. stack' \in Seq(Frame) /\ runs' \in [Def -> Nat]
  BY <1>7, <1>12 DEF Replaced, TypeOK
<1>22. SameButRuns(def[m], def[m]) /\ def' = [def EXCEPT ![m] = def[m]]
  BY <1>12 DEF SameButRuns, TypeOK
<1> QED
  BY <1>1, <1>8, <1>12, <1>19, <1>20, <1>21, <1>22, EvaluationStep

LEMMA EvaluateRequirementKeeps ==
    ASSUME IndInv, EvaluateRequirement
    PROVE  IndInv'
<1>1. /\ AtRequirement("evaluate", "none") /\ SameDefs /\ UNCHANGED loaded
      /\ Top.op = "evaluate" /\ Top.op \in Evaluating /\ Top.i \in DOMAIN def[Top.m].req
  BY DEF EvaluateRequirement, AtRequirement, SameDefs, Evaluating
<1>2. /\ Top \in Frame /\ Top = stack[Len(stack)] /\ Len(stack) \in Nat \ {0} /\ Top.i \in Nat
      /\ stack \in Seq(Frame) /\ stack # <<>> /\ Top.m \in made /\ def[Top.m] \in Definition
      /\ def[Top.m].linked /\ Good(stack, made, def) /\ AllResolved /\ Top.op # "outside"
  BY <1>1, EvaluatingTop
<1>3. PICK d : d = def[Top.m].req[Top.i]
  OBVIOUS
<1>4. IsLoaded(d) /\ d \in made /\ d \in Def
  BY <1>3 DEF EvaluateRequirement, Valid, IsLoaded, IndInv, Loads, TypeOK
<1>5. CASE def[d].mark
  <2>1. GoesOn(Top.i + 1)
    BY <1>3, <1>5 DEF EvaluateRequirement
  <2>2. PICK p \in Nat : Evaluates(stack, p, d)
    BY <1>4, <1>5 DEF IndInv, Evaluations, MarkedInProgress
  <2>3. p \in 1 .. Len(stack)
    BY <2>2, <1>2 DEF Evaluates
  <2>4. Fulfilled(stack, made, def, Len(stack), d)
    BY <2>2, <2>3, <1>4 DEF Fulfilled
  <2> QED
    BY <2>1, <2>4, <1>1, <1>3, EvaluateAdvances
<1>6. CASE ~def[d].mark
  <2>1. PICK f : f = Call("evaluate", d)
    OBVIOUS
  <2>2. f \in Frame /\ f.op = "evaluate" /\ f.m = d /\ f.i = 0 /\ ~InProgress(f)
    BY <2>1, <1>4, NewCall
  <2>3. Calls(Top.i, f)
    BY <2>1, <1>3, <1>6 DEF EvaluateRequirement
  <2>4. [Top EXCEPT !.i = Top.i] = Top
    BY <1>2 DEF Frame
  <2>5. SetTop(stack, Top) = stack
    <3>1. PICK u : u = SetTop(stack, Top)
      OBVIOUS
    <3>2. /\ u \in Seq(Frame) /\ Len(u) = Len(stack) /\ u[Len(stack)] = Top
          /\ \A k \in 1 .. Len(stack) - 1 : u[k] = stack[k]
      BY <3>1, <1>2, SetTopReplaces DEF Replaced
    <3>3. \A k \in 1 .. Len(stack) : u[k] = stack[k]
      BY <3>2, <1>2
    <3>4. u = stack
      BY <3>2, <3>3, <1>2, SeqEqual
    <3> QED
      BY <3>1, <3>4
  <2>6. stack' = Append(stack, f) /\ ret' = Nothing
    BY <2>3, <2>4, <2>5 DEF Calls, SetTop, Pop, Below
  <2>7. def[d].linked
    <3>1. d \in RequirementsOf(Top.m)
      BY <1>1, <1>3 DEF RequirementsOf
    <3> QED
      BY <3>1, <1>2, <1>4 DEF IndInv, Loads, LinkedIsWhole
  <2>8. Sound(f, made, def)
    BY <2>2, <2>7, <1>4 DEF Sound
  <2>9. Caller(Top, f, def) /\ (Top.op \in Loading => f.op \in Loading)
    BY <2>2, <1>1, <1>3 DEF Caller, Evaluating, Loading
  <2>10. Steps(stack, stack', made, def)
    BY <2>2, <2>6, <2>8, <2>9, <1>2, QuietPushes
  <2>11. Returned(ret', made) /\ ret'.st # "ok"
    BY <2>6 DEF Nothing, Ret, Returned
  <2> QED
    BY <2>10, <2>11, <1>1, <1>2, PlainStep
<1> QED
  BY <1>5, <1>6

(* The evaluation of a module ends: a requirement has failed, or its body  *)
(* has ended.                                                              *)
LEMMA EvaluationEnds ==
    ASSUME IndInv, Top.op \in Evaluating, InProgress(Top), NEW m, m = Top.m,
           NEW r, SameButRuns(def[m], r), def' = [def EXCEPT ![m] = r], ~r.mark,
           \/ Top.op = "body" /\ r.evaluated
           \/ /\ Top.op = "evaluate"
              /\ r.evaluated = def[m].evaluated /\ r.failed = def[m].failed,
           NEW st \in {"ok", "throw"}, Returns(st), st = "ok" => r.evaluated /\ ~r.failed,
           UNCHANGED <<source, made, loaded, runs, wild>>
    PROVE  IndInv'
<1>1. /\ Top = stack[Len(stack)] /\ Len(stack) \in Nat \ {0} /\ Len(stack) \in DOMAIN stack
      /\ stack \in Seq(Frame) /\ stack # <<>> /\ m \in made /\ m \in Def
  BY EvaluatingTop
<1>2. PICK n : n = Len(stack)
  OBVIOUS
<1>3. /\ Good(stack, made, def')
      /\ \A x \in made : def'[x] \in Definition /\ def'[x].req = def[x].req
      /\ def'[m] = r /\ \A x \in made \ {m} : def'[x] = def[x]
  BY <1>1, EvaluationLinks
<1>4. Popped(stack, stack')
  BY <1>1, PopPops DEF Returns, Pop, Below
<1>5. Good(stack', made, def')
  BY <1>1, <1>3, <1>4, PopKeeps
<1>6. /\ SameRunsBut(stack, stack', n)
      /\ \A x : ~Evaluates(stack', n, x) /\ ~RunsBody(stack', n, x)
  BY <1>1, <1>2, <1>4, PoppedRuns
<1>7. /\ \A x : Evaluates(stack, n, x) <=> x = m
      /\ \A x : RunsBody(stack, n, x) <=> x = m /\ Top.op = "body"
  BY <1>1, <1>2 DEF Evaluates, RunsBody
<1>8. /\ made' = made /\ runs' = runs /\ n \in Nat \ {0} /\ made \subseteq Def /\ TypeOK
  BY <1>1, <1>2 DEF IndInv, Loads, TypeOK
<1>9. \A k \in Nat : Evaluates(stack, k, m) => k = n
  BY <1>1, <1>7, <1>8 DEF IndInv, Evaluations, InProgressOnce
<1>10. \A k \in Nat : ~Evaluates(stack', k, m)
  BY <1>1, <1>6, <1>9 DEF SameRunsBut
<1>11. \A x \in Def \ {m}, k \in Nat : /\ Evaluates(stack', k, x) <=> Evaluates(stack, k, x)
                                       /\ RunsBody(stack', k, x) <=> RunsBody(stack, k, x)
  BY <1>6, <1>7 DEF SameRunsBut
<1>12. InProgressOnce'
  BY <1>8, <1>10, <1>11 DEF IndInv, Evaluations, InProgressOnce
<1>13. MarkedInProgress' /\ NotYetEvaluated'
  <2> SUFFICES ASSUME NEW x \in made
               PROVE  /\ def'[x].mark <=> \E k \in Nat : Evaluates(stack', k, x)
                      /\ (\E k \in Nat : Evaluates(stack', k, x)) => ~def'[x].evaluated
    BY <1>8 DEF MarkedInProgress, NotYetEvaluated
  <2>1. CASE x = m
    BY <2>1, <1>3, <1>10
  <2>2. CASE x # m
    BY <2>2, <1>3, <1>8, <1>11 DEF IndInv, Evaluations, MarkedInProgress, NotYetEvaluated
  <2> QED
    BY <2>1, <2>2
<1>14. RunsCounted'
  <2>1. \A x \in Def \ made : runs'[x] = 0
    BY <1>8 DEF IndInv, Evaluations, RunsCounted
  <2>2. ASSUME NEW x \in made, x # m
        PROVE  IF def'[x].evaluated \/ \E k \in Nat : RunsBody(stack', k, x)
               THEN runs'[x] = 1 ELSE runs'[x] = 0
    <3>1. def'[x] = def[x] /\ \A k \in Nat : RunsBody(stack', k, x) <=> RunsBody(stack, k, x)
      BY <2>2, <1>3, <1>8, <1>11
    <3> QED
      BY <3>1, <1>8 DEF IndInv, Evaluations, RunsCounted
  <2>3. \A k \in Nat : ~RunsBody(stack', k, m)
    BY <1>10 DEF RunsBody, Evaluates, InProgress
  <2>4. IF def[m].evaluated \/ \E k \in Nat : RunsBody(stack, k, m)
        THEN runs[m] = 1 ELSE runs[m] = 0
    BY <1>1 DEF IndInv, Evaluations, RunsCounted
  <2>5. IF r.evaluated THEN runs[m] = 1 ELSE runs[m] = 0
    <3>1. CASE Top.op = "body" /\ r.evaluated
      BY <3>1, <2>4, <1>7, <1>8
    <3>2. CASE Top.op = "evaluate" /\ r.evaluated = def[m].evaluated
      <4>1. \A k \in Nat : RunsBody(stack, k, m) => Evaluates(stack, k, m)
        BY DEF RunsBody, Evaluates, InProgress
      <4>2. \A k \in Nat : ~RunsBody(stack, k, m)
        BY <4>1, <3>2, <1>7, <1>9
      <4> QED
        BY <4>2, <3>2, <2>4
    <3> QED
      BY <3>1, <3>2
  <2> QED
    BY <2>1, <2>2, <2>3, <2>5, <1>3, <1>8 DEF RunsCounted
<1>15. /\ DOMAIN stack' = 1 .. n - 1 /\ \A p \in 1 .. n - 1 : stack'[p] = stack[p]
       /\ stack' \in Seq(Frame) /\ Len(stack') = n - 1
  BY <1>2, <1>4, <1>8 DEF Popped
<1>16. RequirementsFulfilled'
  <2>1. About(stack', made, def') /\ Evaluates(stack, n, m)
    BY <1>5, <1>7 DEF Good
  <2>2. DOMAIN stack' \subseteq 1 .. n /\ n \notin DOMAIN stack'
    BY <1>8, <1>15
  <2>3. \A k \in 1 .. n - 1 : k \in DOMAIN stack' => stack'[k] = stack[k]
    BY <1>15
  <2>4. n \in DOMAIN stack' /\ stack'[n].op = "evaluate" =>
            \A j \in DOMAIN def[stack'[n].m].req :
                j < stack'[n].i => Fulfilled(stack', made, def', n, def[stack'[n].m].req[j])
    BY <2>2
  <2> QED
    BY <2>1, <2>2, <2>3, <2>4, <1>1, <1>2, <1>3, <1>6, <1>8, PassedFulfilled
<1>17. OkMeansFulfilled'
  <2> SUFFICES ASSUME st = "ok",
                      \/ Top'.op = "JS_EvalFunction"
                      \/ Top'.op = "evaluate"
               PROVE  /\ Top'.op = "JS_EvalFunction" =>
                            Fulfilled(stack', made', def', Len(stack'), Top'.m)
                      /\ Top'.op = "evaluate" =>
                            Fulfilled(stack', made', def', Len(stack'), def'[Top'.m].req[Top'.i])
    BY DEF OkMeansFulfilled, Returns
  <2>1. PICK c : c = IF stack' = <<>> THEN Call("outside", NoDef) ELSE stack'[Len(stack')]
    OBVIOUS
  <2>2. /\ c.op = "JS_EvalFunction" => c.m = Top.m
        /\ c.op = "evaluate" => def'[c.m].req[c.i] = Top.m
    <3>1. PICK D : D = def'
      OBVIOUS
    <3>2. \A x \in made : D[x].req = def[x].req
      BY <3>1, <1>3
    <3>3. /\ c.op = "JS_EvalFunction" => c.m = Top.m
          /\ c.op = "evaluate" => D[c.m].req[c.i] = Top.m
      BY <3>2, <2>1, <1>4, ReturnsToCaller
    <3> QED
      BY <3>1, <3>3
  <2>3. Fulfilled(stack', made, def', Len(stack'), m)
    BY <1>1, <1>3 DEF Fulfilled
  <2>4. Top' = c
    BY <2>1 DEF Top
  <2> QED
    BY <2>2, <2>3, <2>4, <1>8
<1>18. Returned(ret', made)
  BY <1>1 DEF Returns, Ret, Returned
<1>19. Evaluations'
  BY <1>12, <1>13, <1>14, <1>16, <1>17 DEF Evaluations
<1>20. runs' \in [Def -> Nat]
  BY <1>8 DEF TypeOK
<1> QED
  BY <1>1, <1>5, <1>15, <1>18, <1>19, <1>20, EvaluationStep

LEMMA EvaluateNextKeeps ==
    ASSUME IndInv, EvaluateNext
    PROVE  IndInv'
<1>1. /\ Top.op = "evaluate" /\ Top.op \in Evaluating /\ Top.i \in DOMAIN def[Top.m].req
      /\ UNCHANGED <<source, made, loaded, runs, wild>>
  BY DEF EvaluateNext, AtRequirement, Evaluating
<1>2. /\ Top.m \in made /\ def[Top.m] \in Definition /\ Top.i \in Nat
  BY <1>1, EvaluatingTop
<1>3. CASE ret.st = "ok"
  <2>1. GoesOn(Top.i + 1) /\ SameDefs
    BY <1>1, <1>3 DEF EvaluateNext, SameDefs
  <2>2. Fulfilled(stack, made, def, Len(stack), def[Top.m].req[Top.i])
    BY <1>1, <1>3 DEF IndInv, Evaluations, OkMeansFulfilled
  <2> QED
    BY <2>1, <2>2, <1>1, EvaluateAdvances
<1>4. CASE ret.st # "ok"
  <2>1. PICK m, r : m = Top.m /\ r = [def[m] EXCEPT !.mark = FALSE]
    OBVIOUS
  <2>2. Returns("throw") /\ def' = [def EXCEPT ![m] = r]
    BY <2>1, <1>4 DEF EvaluateNext
  <2>3. /\ ~r.mark /\ r.evaluated = def[m].evaluated /\ r.failed = def[m].failed
        /\ SameButRuns(def[m], r)
    BY <2>1, <1>2 DEF SameButRuns, Definition
  <2>4. InProgress(Top)
    <3>1. def[Top.m].req \in Seq(Def \cup {NoDef})
      BY <1>2 DEF Definition
    <3>2. Top.i > 0
      BY <3>1, <1>1
    <3> QED
      BY <3>2, <1>1 DEF InProgress
  <2> QED
    BY <2>1, <2>2, <2>3, <2>4, <1>1, EvaluationEnds
<1> QED
  BY <1>3, <1>4

LEMMA BodyEndsKeeps ==
    ASSUME IndInv, NEW throws \in BOOLEAN, BodyEnds(throws)
    PROVE  IndInv'
<1>1. /\ Top.op = "body" /\ Top.op \in Evaluating /\ InProgress(Top)
      /\ UNCHANGED <<source, made, loaded, runs, wild>>
  BY DEF BodyEnds, At, Evaluating, InProgress
<1>2. /\ Top.m \in made /\ Top.m \in Def /\ def[Top.m] \in Definition
  BY <1>1, EvaluatingTop
<1>3. PICK m, r : /\ m = Top.m
                  /\ r = [def[m] EXCEPT !.mark = FALSE, !.evaluated = TRUE, !.failed = throws]
  OBVIOUS
<1>4. def' = [def EXCEPT ![m] = r]
  <2>1. def \in [Def -> Definition \cup {NoDef}]
    BY DEF IndInv, Loads, TypeOK
  <2> QED
    BY <2>1, <1>2, <1>3 DEF BodyEnds, Definition
<1>5. ~r.mark /\ r.evaluated /\ r.failed = throws /\ SameButRuns(def[m], r)
  BY <1>2, <1>3 DEF SameButRuns, Definition
<1>6. PICK st : st = IF throws THEN "throw" ELSE "ok"
  OBVIOUS
<1>7. st \in {"ok", "throw"} /\ Returns(st) /\ (st = "ok" => ~throws)
  BY <1>6 DEF BodyEnds
<1> QED
  BY <1>1, <1>3, <1>4, <1>5, <1>7, EvaluationEnds

(* The body starts when all requirements are passed.                       *)
LEMMA BodyStartsKeeps ==
    ASSUME IndInv, BodyStarts
    PROVE  IndInv'
<1>1. /\ Top.op = "evaluate" /\ Top.op \in Evaluating /\ Top.i = Len(def[Top.m].req) + 1
      /\ UNCHANGED <<source, def, made, loaded, wild>>
  BY DEF BodyStarts, AtEnd, Evaluating
<1>2. /\ Top \in Frame /\ Top = stack[Len(stack)] /\ Len(stack) \in Nat \ {0}
      /\ stack \in Seq(Frame) /\ stack # <<>> /\ Top.m \in made /\ Top.m \in Def
      /\ def[Top.m] \in Definition
      /\ def[Top.m].linked /\ Good(stack, made, def) /\ Len(stack) \in DOMAIN stack
  BY <1>1, EvaluatingTop
<1>3. PICK m, n, g : m = Top.m /\ n = Len(stack) /\ g = Call("body", m)
  OBVIOUS
<1>4. g \in Frame /\ g.op = "body" /\ g.m = m /\ InProgress(g)
  BY <1>2, <1>3, NewCall DEF InProgress
<1>5. InProgress(Top)
  <2>1. def[Top.m].req \in Seq(Def \cup {NoDef})
    BY <1>2 DEF Definition
  <2>2. Top.i > 0
    BY <2>1, <1>1
  <2> QED
    BY <2>2, <1>1 DEF InProgress
<1>6. Replaced(stack, stack', g)
  BY <1>2, <1>3, <1>4, SetTopReplaces DEF BodyStarts, SetTop, Pop, Below
<1>7. Good(stack', made, def)
  <2>1. Sound(g, made, def)
    BY <1>2, <1>3, <1>4 DEF Sound
  <2>2. /\ g.m = stack[Len(stack)].m /\ g.op \in Evaluating
        /\ g.op \notin Loading /\ stack[Len(stack)].op \notin Loading
    BY <1>1, <1>2, <1>3, <1>4 DEF Evaluating, Loading
  <2> QED
    BY <2>1, <2>2, <1>2, <1>6, ReplaceKeeps
<1>8. /\ SameRunsBut(stack, stack', n)
      /\ \A x : Evaluates(stack', n, x) <=> x = m
      /\ \A x : RunsBody(stack', n, x) <=> x = m
  <2>1. TakesOver(stack, stack', g)
    BY <1>2, <1>4, <1>6, ReplacedRuns
  <2> QED
    BY <2>1, <1>3, <1>4 DEF TakesOver
<1>9. /\ \A x : Evaluates(stack, n, x) <=> x = m
      /\ \A x : ~RunsBody(stack, n, x)
  BY <1>1, <1>2, <1>3, <1>5 DEF Evaluates, RunsBody
<1>10. \A k \in Nat, x \in Def : Evaluates(stack', k, x) <=> Evaluates(stack, k, x)
  BY <1>8, <1>9 DEF SameRunsBut
<1>11. \A k \in Nat, x \in Def \ {m} : RunsBody(stack', k, x) <=> RunsBody(stack, k, x)
  BY <1>8, <1>9 DEF SameRunsBut
<1>12. /\ made' = made /\ def' = def /\ n \in Nat \ {0} /\ m \in made /\ m \in Def
       /\ made \subseteq Def /\ TypeOK /\ source' = source /\ wild' = wild
       /\ \A x \in made : def[x] \in Definition
       /\ runs \in [Def -> Nat] /\ runs' = [runs EXCEPT ![m] = @ + 1]
  BY <1>1, <1>2, <1>3 DEF IndInv, Loads, TypeOK, BodyStarts
<1>13. InProgressOnce' /\ MarkedInProgress' /\ NotYetEvaluated'
  BY <1>10, <1>12 DEF IndInv, Evaluations, InProgressOnce, MarkedInProgress, NotYetEvaluated
<1>14. RunsCounted'
  <2>1. \A k \in Nat : ~RunsBody(stack, k, m)
    <3>1. \A k \in Nat : RunsBody(stack, k, m) => Evaluates(stack, k, m)
      BY DEF RunsBody, Evaluates, InProgress
    <3>2. \A k \in Nat : Evaluates(stack, k, m) => k = n
      BY <1>9, <1>12 DEF IndInv, Evaluations, InProgressOnce
    <3> QED
      BY <3>1, <3>2, <1>9
  <2>2. ~def[m].evaluated
    BY <1>9, <1>12 DEF IndInv, Evaluations, NotYetEvaluated
  <2>3. runs[m] = 0
    BY <2>1, <2>2, <1>12 DEF IndInv, Evaluations, RunsCounted
  <2>4. runs'[m] = 1 /\ \A x \in Def \ {m} : runs'[x] = runs[x]
    BY <2>3, <1>12
  <2>5. \E k \in Nat : RunsBody(stack', k, m)
    BY <1>8, <1>12
  <2>6. ASSUME NEW x \in made, x # m
        PROVE  IF def'[x].evaluated \/ \E k \in Nat : RunsBody(stack', k, x)
               THEN runs'[x] = 1 ELSE runs'[x] = 0
    <3>1. /\ def'[x] = def[x] /\ runs'[x] = runs[x]
          /\ \A k \in Nat : RunsBody(stack', k, x) <=> RunsBody(stack, k, x)
      BY <2>4, <2>6, <1>11, <1>12
    <3> QED
      BY <3>1 DEF IndInv, Evaluations, RunsCounted
  <2>7. \A x \in Def \ made : runs'[x] = 0
    BY <2>4, <1>12 DEF IndInv, Evaluations, RunsCounted
  <2> QED
    BY <2>4, <2>5, <2>6, <2>7, <1>12 DEF RunsCounted
<1>15. /\ DOMAIN stack' = 1 .. n /\ DOMAIN stack = 1 .. n /\ stack'[n] = g
       /\ \A p \in 1 .. n - 1 : stack'[p] = stack[p]
  BY <1>2, <1>3, <1>6 DEF Replaced
<1>16. RequirementsFulfilled'
  <2>1. About(stack', made, def') /\ stack'[n].op # "evaluate"
    BY <1>4, <1>7, <1>12, <1>15 DEF Good
  <2>2. n \in DOMAIN stack' /\ stack'[n].op = "evaluate" =>
            \A j \in DOMAIN def[stack'[n].m].req :
                j < stack'[n].i => Fulfilled(stack', made, def', n, def[stack'[n].m].req[j])
    BY <2>1
  <2> QED
    BY <2>1, <2>2, <1>1, <1>3, <1>8, <1>12, <1>15, PassedFulfilled
<1>17. OkMeansFulfilled' /\ Returned(ret', made)
  BY DEF OkMeansFulfilled, BodyStarts, Nothing, Returned, Ret
<1>18. Evaluations'
  BY <1>13, <1>14, <1>16, <1>17 DEF Evaluations
<1>19. stack' \in Seq(Frame) /\ runs' \in [Def -> Nat]
  BY <1>6, <1>12 DEF Replaced
<1>20. SameButRuns(def[m], def[m]) /\ def' = [def EXCEPT ![m] = def[m]]
  BY <1>12 DEF SameButRuns, TypeOK
<1>21. UNCHANGED <<source, made, loaded, wild>> /\ Good(stack', made, def')
  BY <1>1, <1>7, <1>12
<1> QED
  BY <1>1, <1>12, <1>17, <1>18, <1>19, <1>20, <1>21, EvaluationStep

---------------------------------------------------------------------------
(* js_evaluate_module never comes to a module that was freed.  Modules are *)
(* freed by calls of a script, so below the call there is a body.  Either  *)
(* everything that is not evaluated is freed, and then the module whose    *)
(* body it is as well; or a module that could not be resolved, and that    *)
(* one is not linked.                                                      *)

InLoader(f) == f.op \in Loading \/ (f.op \in Compiling /\ f.i < 2)

(* Who may be further in than whom: the loader calls only the loader, and  *)
(* an evaluation does anything else only in a body.                        *)
Ordered(s) ==
    \A k, l \in DOMAIN s : k < l =>
        /\ InLoader(s[k]) => s[l].op \in Loading
        /\ s[k].op = "evaluate" /\ s[l].op # "evaluate" =>
              \E j \in k + 1 .. l : s[j].op = "body"

(* What is being compiled or resolved is not linked.                       *)
Unlinked(s, D) ==
    \A k \in DOMAIN s : s[k].op \in Compiling /\ s[k].i < 2 => ~D[s[k].m].linked

(* A frame that evaluates is about a definition of the list, L, unless it  *)
(* will not be returned to.                                                *)
Listed(s, L) ==
    \A k \in DOMAIN s : s[k].op \in Evaluating =>
        \/ s[k].m \in L
        \/ \E j \in k .. Len(s) : s[j].op = "body" /\ s[j].m \notin L

Placed(s, D, L) == Ordered(s) /\ Unlinked(s, D) /\ Listed(s, L)

(* As long as a linked module is not evaluated, what it requires is there. *)
Whole(M, D, L) ==
    \A d \in M : d \in L /\ D[d].linked /\ ~D[d].evaluated =>
        \A i \in DOMAIN D[d].req : D[d].req[i] \in L

Listing   == {x \in made : IsLoaded(x)}
Placement == Placed(stack, def, Listing) /\ Whole(made, def, Listing)

LEMMA ListingIsLoaded ==
    ASSUME TypeOK
    PROVE  \A x : x \in Listing <=> IsLoaded(x)
  BY DEF TypeOK, Listing, IsLoaded

LEMMA PushPlaced ==
    ASSUME NEW s \in Seq(Frame), NEW t, NEW f, NEW D, NEW L, Pushed(s, t, f), Placed(s, D, L),
           s # <<>> => /\ s[Len(s)].op = "evaluate" => f.op = "evaluate"
                       /\ InLoader(s[Len(s)]) => f.op \in Loading,
           f.op \in Compiling => ~D[f.m].linked, f.op \in Evaluating => f.m \in L
    PROVE  Placed(t, D, L)
<1>1. /\ Len(s) \in Nat /\ DOMAIN s = 1 .. Len(s) /\ t \in Seq(Frame)
      /\ DOMAIN t = 1 .. Len(s) + 1 /\ Len(t) = Len(s) + 1
      /\ \A k \in 1 .. Len(s) : t[k] = s[k]
      /\ t[Len(s) + 1] = f
  BY DEF Pushed
<1>2. Unlinked(t, D)
  BY <1>1 DEF Placed, Unlinked
<1>3. Listed(t, L)
  <2> SUFFICES ASSUME NEW k \in 1 .. Len(s), s[k].op \in Evaluating, s[k].m \notin L
               PROVE  \E j \in k .. Len(t) : t[j].op = "body" /\ t[j].m \notin L
    BY <1>1 DEF Listed
  <2>1. PICK j \in k .. Len(s) : s[j].op = "body" /\ s[j].m \notin L
    BY <1>1 DEF Placed, Listed
  <2>2. j \in 1 .. Len(s) /\ j \in k .. Len(t)
    BY <1>1
  <2> QED
    BY <2>1, <2>2, <1>1
<1>4. Ordered(t)
  <2> SUFFICES ASSUME NEW k \in 1 .. Len(s) + 1, NEW l \in 1 .. Len(s) + 1, k < l
               PROVE  /\ InLoader(t[k]) => t[l].op \in Loading
                      /\ t[k].op = "evaluate" /\ t[l].op # "evaluate" =>
                            \E j \in k + 1 .. l : t[j].op = "body"
    BY <1>1 DEF Ordered
  <2>1. k \in 1 .. Len(s) /\ t[k] = s[k] /\ s # <<>>
    BY <1>1
  <2>2. ASSUME NEW p \in 1 .. Len(s), k < p
        PROVE  /\ InLoader(s[k]) => s[p].op \in Loading
               /\ s[k].op = "evaluate" /\ s[p].op # "evaluate" =>
                     \E j \in k + 1 .. p : t[j].op = "body"
    <3>1. /\ InLoader(s[k]) => s[p].op \in Loading
          /\ s[k].op = "evaluate" /\ s[p].op # "evaluate" =>
                \E j \in k + 1 .. p : s[j].op = "body"
      BY <2>1, <2>2, <1>1 DEF Placed, Ordered
    <3>2. \A j \in k + 1 .. p : t[j] = s[j]
      BY <2>1, <1>1
    <3> QED
      BY <3>1, <3>2
  <2>3. CASE l \in 1 .. Len(s)
    BY <2>1, <2>2, <2>3, <1>1
  <2>4. CASE l = Len(s) + 1
    <3>1. CASE k = Len(s)
      BY <3>1, <2>1, <2>4, <1>1
    <3>2. CASE k # Len(s)
      <4>1. k < Len(s) /\ Len(s) \in 1 .. Len(s)
        <5>1. Len(s) \in Nat /\ k \in 1 .. Len(s)
          BY <2>1, <1>1
        <5> QED
          BY <5>1, <3>2
      <4>2. InLoader(t[k]) => t[l].op \in Loading
        <5>1. ASSUME NEW e \in Frame, e.op \in Loading PROVE InLoader(e)
          BY <5>1 DEF InLoader
        <5>2. s[Len(s)] \in Frame
          BY <4>1, <1>1
        <5> QED
          BY <5>1, <5>2, <4>1, <2>1, <2>2, <2>4, <1>1
      <4>3. ASSUME t[k].op = "evaluate", t[l].op # "evaluate"
            PROVE  \E j \in k + 1 .. l : t[j].op = "body"
        <5>1. s[Len(s)].op # "evaluate"
          BY <4>3, <2>1, <2>4, <1>1
        <5>2. PICK j \in k + 1 .. Len(s) : t[j].op = "body"
          BY <5>1, <4>1, <4>3, <2>1, <2>2
        <5>3. j \in k + 1 .. l
          BY <2>4, <1>1
        <5> QED
          BY <5>2, <5>3
      <4> QED
        BY <4>2, <4>3
    <3> QED
      BY <3>1, <3>2
  <2> QED
    BY <2>3, <2>4, <1>1
<1> QED
  BY <1>2, <1>3, <1>4 DEF Placed

LEMMA PopPlaced ==
    ASSUME NEW s \in Seq(Frame), NEW t, NEW D, NEW L, Popped(s, t), Placed(s, D, L),
           s[Len(s)].op = "body" => s[Len(s)].m \in L
    PROVE  Placed(t, D, L)
<1>1. /\ Len(s) \in Nat \ {0} /\ DOMAIN s = 1 .. Len(s) /\ t \in Seq(Frame)
      /\ DOMAIN t = 1 .. Len(s) - 1 /\ Len(t) = Len(s) - 1
      /\ \A k \in 1 .. Len(s) - 1 : t[k] = s[k]
  BY DEF Popped
<1>2. Unlinked(t, D)
  BY <1>1 DEF Placed, Unlinked
<1>3. Listed(t, L)
  <2> SUFFICES ASSUME NEW k \in 1 .. Len(s) - 1, s[k].op \in Evaluating, s[k].m \notin L
               PROVE  \E j \in k .. Len(t) : t[j].op = "body" /\ t[j].m \notin L
    BY <1>1 DEF Listed
  <2>1. PICK j \in k .. Len(s) : s[j].op = "body" /\ s[j].m \notin L
    BY <1>1 DEF Placed, Listed
  <2>2. j # Len(s)
    BY <2>1
  <2>3. j \in 1 .. Len(s) - 1 /\ j \in k .. Len(t)
    <3>1. Len(s) \in Nat /\ Len(t) = Len(s) - 1 /\ k \in 1 .. Len(s) - 1 /\ j \in k .. Len(s)
      BY <1>1
    <3> QED
      BY <3>1, <2>2
  <2> QED
    BY <2>1, <2>3, <1>1
<1>4. Ordered(t)
  <2> SUFFICES ASSUME NEW k \in 1 .. Len(s) - 1, NEW l \in 1 .. Len(s) - 1, k < l
               PROVE  /\ InLoader(t[k]) => t[l].op \in Loading
                      /\ t[k].op = "evaluate" /\ t[l].op # "evaluate" =>
                            \E j \in k + 1 .. l : t[j].op = "body"
    BY <1>1 DEF Ordered
  <2>1. k \in DOMAIN s /\ l \in DOMAIN s /\ t[k] = s[k] /\ t[l] = s[l]
    BY <1>1
  <2>2. \A j \in k + 1 .. l : t[j] = s[j]
    BY <1>1
  <2> QED
    BY <2>1, <2>2 DEF Placed, Ordered
<1> QED
  BY <1>2, <1>3, <1>4 DEF Placed

LEMMA ReplacePlaced ==
    ASSUME NEW s \in Seq(Frame), NEW t, NEW g, NEW D, NEW L, Replaced(s, t, g), Placed(s, D, L),
           g.m = s[Len(s)].m,
           \/ g.op = s[Len(s)].op
           \/ s[Len(s)].op = "evaluate" /\ g.op = "body" /\ g.m \in L,
           g.op \in Compiling => s[Len(s)].i < 2 \/ g.i >= 2
    PROVE  Placed(t, D, L)
<1>1. /\ Len(s) \in Nat \ {0} /\ DOMAIN s = 1 .. Len(s) /\ t \in Seq(Frame) /\ g \in Frame
      /\ DOMAIN t = 1 .. Len(s) /\ Len(t) = Len(s)
      /\ \A k \in 1 .. Len(s) - 1 : t[k] = s[k]
      /\ t[Len(s)] = g
  BY DEF Replaced
<1>2. Unlinked(t, D)
  <2>1. g.op \in Compiling /\ g.i < 2 => ~D[g.m].linked
    <3> SUFFICES ASSUME g.op \in Compiling, g.i < 2 PROVE ~D[g.m].linked
      OBVIOUS
    <3>1. g.i \in Nat /\ Len(s) \in DOMAIN s
      BY <1>1 DEF Frame
    <3>2. s[Len(s)].op \in Compiling /\ s[Len(s)].i < 2
      BY <3>1 DEF Compiling
    <3> QED
      BY <3>1, <3>2 DEF Placed, Unlinked
  <2> QED
    BY <2>1, <1>1 DEF Placed, Unlinked
<1>3. \A j \in 1 .. Len(s) : /\ t[j].m = s[j].m /\ (s[j].op = "body" => t[j].op = "body")
                             /\ s[j].op \in Loading => t[j].op \in Loading
  BY <1>1 DEF Loading
<1>4. Listed(t, L)
  <2> SUFFICES ASSUME NEW k \in 1 .. Len(s), t[k].op \in Evaluating, t[k].m \notin L
               PROVE  \E j \in k .. Len(s) : t[j].op = "body" /\ t[j].m \notin L
    BY <1>1 DEF Listed
  <2>1. s[k].op \in Evaluating /\ s[k].m \notin L
    BY <1>1, <1>3 DEF Evaluating
  <2>2. PICK j \in k .. Len(s) : s[j].op = "body" /\ s[j].m \notin L
    BY <2>1, <1>1 DEF Placed, Listed
  <2>3. j \in 1 .. Len(s)
    BY <1>1
  <2> QED
    BY <2>2, <2>3, <1>3
<1>5. Ordered(t)
  <2> SUFFICES ASSUME NEW k \in 1 .. Len(s), NEW l \in 1 .. Len(s), k < l
               PROVE  /\ InLoader(t[k]) => t[l].op \in Loading
                      /\ t[k].op = "evaluate" /\ t[l].op # "evaluate" =>
                            \E j \in k + 1 .. l : t[j].op = "body"
    BY <1>1 DEF Ordered
  <2>1. k \in 1 .. Len(s) - 1 /\ t[k] = s[k]
    BY <1>1
  <2>2. /\ InLoader(s[k]) => s[l].op \in Loading
        /\ s[k].op = "evaluate" /\ s[l].op # "evaluate" =>
              \E j \in k + 1 .. l : s[j].op = "body"
    BY <2>1, <1>1 DEF Placed, Ordered
  <2>3. \A j \in k + 1 .. l : s[j].op = "body" => t[j].op = "body"
    BY <2>1, <1>1, <1>3
  <2>4. t[l].op # "evaluate" => s[l].op # "evaluate" \/ t[l].op = "body"
    <3>1. l \in 1 .. Len(s) - 1 \/ l = Len(s)
      <4>1. Len(s) \in Nat /\ l \in 1 .. Len(s)
        BY <1>1
      <4> QED
        BY <4>1
    <3> QED
      BY <3>1, <1>1
  <2>5. l \in k + 1 .. l
    BY <2>1, <1>1
  <2> QED
    BY <2>1, <2>2, <2>3, <2>4, <2>5, <1>3
<1> QED
  BY <1>2, <1>4, <1>5 DEF Placed

(* Nothing that matters to the frames of s changes.                        *)
LEMMA PlacedKept ==
    ASSUME NEW s \in Seq(Frame), NEW D, NEW L, NEW E, NEW K, Placed(s, D, L),
           \A k \in DOMAIN s :
               /\ s[k].op \in Compiling => (E[s[k].m].linked <=> D[s[k].m].linked)
               /\ s[k].op \in Evaluating => (s[k].m \in L <=> s[k].m \in K)
    PROVE  Placed(s, E, K)
<1>1. Unlinked(s, E)
  BY DEF Placed, Unlinked
<1>2. Listed(s, K)
  <2> SUFFICES ASSUME NEW k \in DOMAIN s, s[k].op \in Evaluating, s[k].m \notin K
               PROVE  \E j \in k .. Len(s) : s[j].op = "body" /\ s[j].m \notin K
    BY DEF Listed
  <2>1. PICK j \in k .. Len(s) : s[j].op = "body" /\ s[j].m \notin L
    BY DEF Placed, Listed
  <2>2. j \in DOMAIN s /\ "body" \in Evaluating
    BY DEF Evaluating
  <2> QED
    BY <2>1, <2>2
<1> QED
  BY <1>1, <1>2 DEF Placed

LEMMA WholeKept ==
    ASSUME NEW M, NEW D, NEW L, NEW N, NEW E, NEW K, Whole(M, D, L), L \subseteq K,
           \A d \in N : d \in K /\ E[d].linked /\ ~E[d].evaluated =>
               d \in M /\ d \in L /\ D[d].linked /\ ~D[d].evaluated /\ E[d].req = D[d].req
    PROVE  Whole(N, E, K)
<1> SUFFICES ASSUME NEW d \in N, d \in K, E[d].linked, ~E[d].evaluated, NEW i \in DOMAIN E[d].req
             PROVE  E[d].req[i] \in K
  BY DEF Whole
<1>1. d \in M /\ d \in L /\ D[d].linked /\ ~D[d].evaluated /\ E[d].req = D[d].req
  OBVIOUS
<1>2. D[d].req[i] \in L
  BY <1>1 DEF Whole
<1> QED
  BY <1>1, <1>2

(* The four ways in which a step changes the stack.                        *)
LEMMA PlacedPushes ==
    ASSUME stack \in Seq(Frame), NEW D, NEW L, Placed(stack, D, L), NEW f \in Frame,
           stack' = Append(stack, f),
           Top.op = "evaluate" => f.op = "evaluate", InLoader(Top) => f.op \in Loading,
           f.op \in Compiling => ~D[f.m].linked, f.op \in Evaluating => f.m \in L
    PROVE  Placed(stack', D, L)
<1>1. Pushed(stack, stack', f)
  BY AppendPushes
<1>2. stack # <<>> => Top = stack[Len(stack)]
  BY DEF Top
<1>3. stack # <<>> => /\ stack[Len(stack)].op = "evaluate" => f.op = "evaluate"
                      /\ InLoader(stack[Len(stack)]) => f.op \in Loading
  BY <1>2
<1> QED
  BY <1>1, <1>3, PushPlaced

LEMMA PlacedReturns ==
    ASSUME stack \in Seq(Frame), Top.op # "outside", NEW D, NEW L, Placed(stack, D, L),
           stack' = Below, Top.op = "body" => Top.m \in L
    PROVE  Placed(stack', D, L)
<1>1. stack # <<>> /\ Top = stack[Len(stack)]
  BY TopFrame
<1>2. Popped(stack, stack')
  BY <1>1, PopPops DEF Pop, Below
<1>3. stack[Len(stack)].op = "body" => stack[Len(stack)].m \in L
  BY <1>1
<1> QED
  BY <1>2, <1>3, PopPlaced

(* What the innermost frame may become.                                    *)
Becomes(f, g, L) ==
    /\ g \in Frame /\ g.m = f.m
    /\ g.op = f.op \/ (f.op = "evaluate" /\ g.op = "body" /\ g.m \in L)
    /\ g.op \in Compiling => f.i < 2 \/ g.i >= 2

LEMMA PlacedReplaced ==
    ASSUME stack \in Seq(Frame), Top.op # "outside", NEW D, NEW L, Placed(stack, D, L),
           NEW g, Becomes(Top, g, L), NEW u, u = Append(Below, g)
    PROVE  Placed(u, D, L) /\ u \in Seq(Frame) /\ u # <<>> /\ u[Len(u)] = g
<1>1. stack # <<>> /\ Top = stack[Len(stack)]
  BY TopFrame
<1>2. /\ g \in Frame /\ g.m = stack[Len(stack)].m
      /\ \/ g.op = stack[Len(stack)].op
         \/ stack[Len(stack)].op = "evaluate" /\ g.op = "body" /\ g.m \in L
      /\ g.op \in Compiling => stack[Len(stack)].i < 2 \/ g.i >= 2
  BY <1>1 DEF Becomes
<1>3. Replaced(stack, u, g)
  BY <1>1, <1>2, SetTopReplaces DEF SetTop, Pop, Below
<1>4. Placed(u, D, L)
  BY <1>2, <1>3, ReplacePlaced
<1>5. u \in Seq(Frame) /\ u # <<>> /\ u[Len(u)] = g
  BY <1>3 DEF Replaced
<1> QED
  BY <1>4, <1>5

LEMMA PlacedCalls ==
    ASSUME stack \in Seq(Frame), Top.op # "outside",
           NEW D, NEW L, Placed(stack, D, L), NEW f \in Frame,
           NEW g, Becomes(Top, g, L), stack' = Append(Append(Below, g), f),
           g.op = "evaluate" => f.op = "evaluate",
           InLoader(g) => f.op \in Loading,
           f.op \in Compiling => ~D[f.m].linked, f.op \in Evaluating => f.m \in L
    PROVE  Placed(stack', D, L)
<1>1. PICK u : u = Append(Below, g)
  OBVIOUS
<1>2. Placed(u, D, L) /\ u \in Seq(Frame) /\ u # <<>> /\ u[Len(u)] = g
  BY <1>1, PlacedReplaced
<1>3. Pushed(u, stack', f)
  BY <1>1, <1>2, AppendPushes
<1>4. u # <<>> => /\ u[Len(u)].op = "evaluate" => f.op = "evaluate"
                  /\ InLoader(u[Len(u)]) => f.op \in Loading
  BY <1>2
<1> QED
  BY <1>2, <1>3, <1>4, PushPlaced

(* The list of modules, when it does not change.                           *)
LEMMA SameListing ==
    ASSUME made' = made, loaded' = loaded
    PROVE  Listing' = Listing
  BY DEF Listing, IsLoaded

LEMMA SamePlacement ==
    ASSUME Placement, UNCHANGED <<def, made, loaded>>, Placed(stack', def, Listing)
    PROVE  Placement'
<1>1. def' = def /\ made' = made /\ loaded' = loaded
  OBVIOUS
<1>2. Listing' = Listing
  BY <1>1, SameListing
<1> QED
  BY <1>1, <1>2 DEF Placement

LEMMA ReturnsPlacement ==
    ASSUME IndInv, Placement, UNCHANGED <<def, made, loaded>>,
           Top.op \notin {"outside", "body"}, NEW st, Returns(st)
    PROVE  Placement'
<1>1. stack \in Seq(Frame) /\ Placed(stack, def, Listing) /\ stack' = Below
  BY DEF IndInv, Loads, TypeOK, Placement, Returns
<1>2. Placed(stack', def, Listing)
  BY <1>1, PlacedReturns
<1> QED
  BY <1>2, SamePlacement

LEMMA GoesOnPlacement ==
    ASSUME IndInv, Placement, UNCHANGED <<def, made, loaded>>,
           Top.op \notin Compiling \cup {"outside"}, NEW i \in Nat, GoesOn(i)
    PROVE  Placement'
<1>1. stack \in Seq(Frame) /\ Placed(stack, def, Listing)
  BY DEF IndInv, Loads, TypeOK, Placement
<1>2. PICK g : g = [Top EXCEPT !.i = i]
  OBVIOUS
<1>3. Becomes(Top, g, Listing)
  BY <1>1, <1>2, TopFrame, MovedFrame DEF Becomes
<1>4. stack' = Append(Below, g)
  BY <1>2 DEF GoesOn
<1>5. Placed(stack', def, Listing)
  BY <1>1, <1>3, <1>4, PlacedReplaced
<1> QED
  BY <1>5, SamePlacement

LEMMA CallsPlacement ==
    ASSUME IndInv, Placement, UNCHANGED <<def, made, loaded>>,
           Top.op \notin Evaluating \cup {"outside"},
           NEW i \in Nat, NEW op \in {"resolve", "JS_EvalFunction"}, Calls(i, Call(op, Top.m)),
           op = "resolve" \/ (Top.op \notin Loading /\ i >= 2),
           Top.op \in Compiling => Top.i < 2
    PROVE  Placement'
<1>1. /\ stack \in Seq(Frame) /\ Placed(stack, def, Listing) /\ Good(stack, made, def)
      /\ made \subseteq Def
  BY DEF IndInv, Loads, TypeOK, Placement
<1>2. Top \in Frame /\ Top.m \in made
  BY <1>1, TopFrame, TopSound DEF Good
<1>3. PICK g : g = [Top EXCEPT !.i = i]
  OBVIOUS
<1>4. g \in Frame /\ g.op = Top.op /\ g.m = Top.m /\ g.i = i
  BY <1>2, <1>3, MovedFrame
<1>5. PICK f : f = Call(op, Top.m)
  OBVIOUS
<1>6. f \in Frame /\ f.op = op /\ f.op \notin Compiling /\ f.op \notin Evaluating
  <2>1. f \in Frame /\ f.op = op
    BY <1>1, <1>2, <1>5, NewCall
  <2> QED
    BY <2>1 DEF Compiling, Evaluating
<1>7. Becomes(Top, g, Listing)
  BY <1>4 DEF Becomes
<1>8. InLoader(g) => f.op \in Loading
  <2>1. op = "resolve" => f.op \in Loading
    BY <1>6 DEF Loading
  <2>2. Top.op \notin Loading /\ i >= 2 => ~InLoader(g)
    BY <1>4 DEF InLoader
  <2> QED
    BY <2>1, <2>2
<1>9. Placed(stack', def, Listing)
  <2>1. Top.op # "outside" /\ g.op # "evaluate"
    BY <1>4 DEF Evaluating
  <2>2. stack' = Append(Append(Below, g), f)
    BY <1>3, <1>5 DEF Calls
  <2> QED
    BY <2>1, <2>2, <1>1, <1>6, <1>7, <1>8, PlacedCalls
<1> QED
  BY <1>9, SamePlacement

(* Definitions are made or change, and nothing is linked or freed.         *)
LEMMA GrowsPlacement ==
    ASSUME IndInv, Placement, SameLinks(made, def, made', def'),
           \A x \in made : def[x].evaluated => def'[x].evaluated,
           \A x \in made : IsLoaded(x)' <=> IsLoaded(x)
    PROVE  Placed(stack, def', Listing') /\ Whole(made', def', Listing')
<1>1. stack \in Seq(Frame) /\ About(stack, made, def)
  BY DEF IndInv, Loads, TypeOK, Good
<1>2. PICK K : K = Listing'
  OBVIOUS
<1>3. \A x \in made : x \in K <=> x \in Listing
  BY <1>2 DEF Listing, SameLinks
<1>4. Placed(stack, def', K)
  <2>1. ASSUME NEW k \in DOMAIN stack
        PROVE  /\ def'[stack[k].m].linked <=> def[stack[k].m].linked
               /\ stack[k].m \in Listing <=> stack[k].m \in K
    <3>1. stack[k].m \in made
      BY <1>1 DEF About, Sound
    <3> QED
      BY <3>1, <1>3 DEF SameLinks
  <2> QED
    BY <2>1, <1>1, PlacedKept DEF Placement
<1>5. Whole(made', def', K)
  <2>1. Listing \subseteq K
    BY <1>3 DEF Listing
  <2>2. ASSUME NEW d \in made', d \in K, def'[d].linked, ~def'[d].evaluated
        PROVE  /\ d \in made /\ d \in Listing /\ def[d].linked /\ ~def[d].evaluated
               /\ def'[d].req = def[d].req
    <3>1. d \in made
      BY <2>2 DEF SameLinks
    <3> QED
      BY <3>1, <2>2, <1>3 DEF SameLinks
  <2> QED
    BY <2>1, <2>2, WholeKept DEF Placement
<1> QED
  BY <1>2, <1>4, <1>5

(* The actions that change neither definitions nor the list.               *)
LEMMA ImportFoundPlaced ==
    ASSUME IndInv, Placement, NEW n \in Name, ImportFound(n)
    PROVE  Placement'
<1>1. stack \in Seq(Frame) /\ Placed(stack, def, Listing) /\ TypeOK
  BY DEF IndInv, Loads, TypeOK, Placement
<1>2. PICK d \in Found(n) : stack' = Append(stack, [Call("JS_RunModule", d) EXCEPT !.i = 1])
  BY DEF ImportFound
<1>3. d \in Def
  BY <1>1, FoundLoaded
<1>4. PICK f : f = [Call("JS_RunModule", d) EXCEPT !.i = 1]
  OBVIOUS
<1>5. f \in Frame /\ f.op = "JS_RunModule"
  <2>1. PICK c : c = Call("JS_RunModule", d)
    OBVIOUS
  <2>2. c \in Frame /\ c.op = "JS_RunModule"
    BY <2>1, <1>3, NewCall DEF Outer
  <2> QED
    BY <2>1, <2>2, <1>4, MovedFrame
<1>6. Top.op # "evaluate" /\ ~InLoader(Top)
  BY DEF ImportFound, ScriptRuns, InLoader, Loading, Compiling
<1>7. f.op \notin Compiling /\ f.op \notin Evaluating
  BY <1>5 DEF Compiling, Evaluating
<1>8. Placed(stack', def, Listing)
  BY <1>1, <1>2, <1>4, <1>5, <1>6, <1>7, PlacedPushes
<1>9. UNCHANGED <<def, made, loaded>>
  BY DEF ImportFound
<1> QED
  BY <1>8, <1>9, SamePlacement

LEMMA CompiledPlaced ==
    ASSUME IndInv, Placement, NEW op, Compiled(op)
    PROVE  Placement'
  BY CallsPlacement DEF Compiled, At, Evaluating

LEMMA ResolveDonePlaced ==
    ASSUME IndInv, Placement, NEW op, ResolveDone(op)
    PROVE  Placement'
<1>1. UNCHANGED <<def, made, loaded>> /\ Top.op = op /\ Top.i = 1
  BY DEF ResolveDone, At
<1>2. CASE op \in {"load", "compile"} /\ Returns("ok")
  BY <1>1, <1>2, ReturnsPlacement
<1>3. CASE op \in {"JS_Eval", "execute"} /\ Calls(2, Call("JS_EvalFunction", Top.m))
  <2>1. Top.op \notin Evaluating \cup {"outside"} /\ Top.op \notin Loading
    BY <1>1, <1>3 DEF Evaluating, Loading
  <2> QED
    BY <2>1, <1>1, <1>3, CallsPlacement
<1> QED
  BY <1>2, <1>3 DEF ResolveDone

LEMMA RunPlaced ==
    ASSUME IndInv, Placement, RunLoaded \/ RunResolves
    PROVE  Placement'
<1>1. UNCHANGED <<def, made, loaded>> /\ Top.op = "JS_RunModule"
  BY DEF RunLoaded, RunResolves, At
<1>2. Top.op \notin Evaluating \cup Compiling \cup {"outside", "body"}
  BY <1>1 DEF Evaluating, Compiling
<1>3. CASE GoesOn(1)
  BY <1>1, <1>2, <1>3, GoesOnPlacement
<1>4. CASE Returns("throw")
  BY <1>1, <1>2, <1>4, ReturnsPlacement
<1>5. CASE Calls(1, Call("resolve", Top.m))
  BY <1>1, <1>2, <1>5, CallsPlacement
<1> QED
  BY <1>3, <1>4, <1>5 DEF RunLoaded, RunResolves

LEMMA OthersPlaced ==
    ASSUME IndInv, Placement,
           (\E op \in Outer : CallDone(op)) \/ ResolveNotFound \/ ResolveThrows \/ ResolveEnds
    PROVE  Placement'
<1>1. UNCHANGED <<def, made, loaded>> /\ \E st : Returns(st)
  BY DEF CallDone, ResolveNotFound, ResolveThrows, ResolveEnds
<1>2. Top.op \notin {"outside", "body"}
  BY DEF CallDone, ResolveNotFound, ResolveThrows, ResolveEnds, At, AtRequirement, AtEnd, Outer
<1> QED
  BY <1>1, <1>2, ReturnsPlacement

(* The actions that make a definition.                                     *)
LEMMA MakePlacement ==
    ASSUME IndInv, Placement, NEW n \in Name, NEW d \in Def, Make(n, d), source' = source
    PROVE  /\ Placed(stack, def', Listing') /\ Whole(made', def', Listing')
           /\ ~def'[d].linked /\ stack \in Seq(Frame)
<1>1. d \notin made /\ made' = made \cup {d} /\ Grows(made, def, made', def')
  BY MakeShape
<1>2. \A x \in made : IsLoaded(x)' <=> IsLoaded(x)
  <2>1. TypeOK /\ AddTail(d)
    BY DEF Make, IndInv, Loads
  <2> QED
    BY <2>1, <1>1, AddTailShape
<1>3. \A x \in made : def[x].evaluated => def'[x].evaluated
  BY <1>1 DEF Grows, SameRuns
<1>4. Placed(stack, def', Listing') /\ Whole(made', def', Listing')
  BY <1>1, <1>2, <1>3, GrowsPlacement DEF Grows
<1> QED
  BY <1>4, MakeGood

LEMMA StartPlaced ==
    ASSUME IndInv, Placement, NEW op \in {"JS_Eval", "compile", "execute"},
           NEW n \in Name, NEW d \in Def, Start(op, n, d)
    PROVE  Placement'
<1>1. /\ Make(n, d) /\ source' = source /\ stack' = Append(stack, Call(op, d))
      /\ Top.op \in {"outside", "body"}
  BY DEF Start, ScriptRuns
<1>2. PICK D, L : D = def' /\ L = Listing'
  OBVIOUS
<1>3. Placed(stack, D, L) /\ Whole(made', D, L) /\ ~D[d].linked /\ stack \in Seq(Frame)
  BY <1>1, <1>2, MakePlacement
<1>4. PICK f : f = Call(op, d)
  OBVIOUS
<1>5. f \in Frame /\ f.op = op /\ f.m = d /\ f.op \notin Evaluating
  <2>1. f \in Frame /\ f.op = op /\ f.m = d
    BY <1>4, NewCall DEF Outer
  <2> QED
    BY <2>1 DEF Evaluating
<1>6. Top.op # "evaluate" /\ ~InLoader(Top)
  BY <1>1 DEF InLoader, Loading, Compiling
<1>7. f.op \in Compiling => ~D[f.m].linked
  BY <1>3, <1>5
<1>8. Placed(stack', D, L)
  BY <1>1, <1>3, <1>4, <1>5, <1>6, <1>7, PlacedPushes
<1> QED
  BY <1>2, <1>3, <1>8 DEF Placement

LEMMA ImportLoadsPlaced ==
    ASSUME IndInv, Placement, NEW n \in Name, NEW d \in Def, ImportLoads(n, d)
    PROVE  Placement'
<1>1. /\ Make(n, d) /\ source' = source /\ Top.op \in {"outside", "body"}
      /\ stack' = Append(Append(stack, Call("JS_RunModule", d)), Call("load", d))
  BY DEF ImportLoads, ScriptRuns
<1>2. PICK D, L : D = def' /\ L = Listing'
  OBVIOUS
<1>3. Placed(stack, D, L) /\ Whole(made', D, L) /\ ~D[d].linked /\ stack \in Seq(Frame)
  BY <1>1, <1>2, MakePlacement
<1>4. PICK f, g, u : /\ f = Call("JS_RunModule", d) /\ g = Call("load", d)
                     /\ u = Append(stack, f)
  OBVIOUS
<1>5. f \in Frame /\ f.op = "JS_RunModule"
  BY <1>4, NewCall DEF Outer
<1>6. g \in Frame /\ g.op = "load" /\ g.m = d
  BY <1>4, NewCall
<1>7. Pushed(stack, u, f) /\ Pushed(u, stack', g) /\ u \in Seq(Frame)
  <2>1. Pushed(stack, u, f) /\ u \in Seq(Frame)
    BY <1>3, <1>4, <1>5, AppendPushes
  <2> QED
    BY <2>1, <1>1, <1>4, <1>6, AppendPushes
<1>8. stack # <<>> => /\ stack[Len(stack)].op = "evaluate" => f.op = "evaluate"
                      /\ InLoader(stack[Len(stack)]) => f.op \in Loading
  <2>1. stack # <<>> => stack[Len(stack)].op \in {"outside", "body"}
    BY <1>1, <1>3 DEF Top
  <2> QED
    BY <2>1 DEF InLoader, Loading, Compiling
<1>9. f.op \notin Compiling /\ f.op \notin Evaluating /\ g.op \notin Evaluating /\ g.op \in Loading
  BY <1>5, <1>6 DEF Compiling, Evaluating, Loading
<1>10. Placed(u, D, L)
  BY <1>3, <1>7, <1>8, <1>9, PushPlaced
<1>11. u # <<>> => /\ u[Len(u)].op = "evaluate" => g.op = "evaluate"
                   /\ InLoader(u[Len(u)]) => g.op \in Loading
  <2>1. u[Len(u)] = f
    BY <1>3, <1>7 DEF Pushed
  <2> QED
    BY <2>1, <1>5, <1>9
<1>12. g.op \in Compiling => ~D[g.m].linked
  BY <1>3, <1>6
<1>13. Placed(stack', D, L)
  BY <1>7, <1>9, <1>10, <1>11, <1>12, PushPlaced
<1> QED
  BY <1>2, <1>3, <1>13 DEF Placement

LEMMA ResolveLoadsPlaced ==
    ASSUME IndInv, Placement, NEW d \in Def, ResolveLoads(d)
    PROVE  Placement'
<1>1. /\ AtRequirement("resolve", "none") /\ Make(Required(Top), d) /\ source' = source
      /\ Calls(Top.i, Call("load", d))
  BY DEF ResolveLoads
<1>2. Top.op = "resolve" /\ Top \in Frame /\ Top.i \in Nat /\ Required(Top) \in Name
  BY <1>1, ResolvingTop, RequiredName
<1>3. PICK D, L, n : D = def' /\ L = Listing' /\ n = Required(Top)
  OBVIOUS
<1>4. Placed(stack, D, L) /\ Whole(made', D, L) /\ ~D[d].linked /\ stack \in Seq(Frame)
  BY <1>1, <1>2, <1>3, MakePlacement
<1>5. PICK f, g : f = Call("load", d) /\ g = [Top EXCEPT !.i = Top.i]
  OBVIOUS
<1>6. f \in Frame /\ f.op = "load" /\ f.m = d
  BY <1>5, NewCall
<1>7. g \in Frame /\ g.op = "resolve" /\ g.m = Top.m
  BY <1>2, <1>5, MovedFrame
<1>8. Becomes(Top, g, L)
  BY <1>2, <1>7 DEF Becomes, Compiling
<1>9. f.op \in Loading /\ f.op \notin Evaluating /\ (f.op \in Compiling => ~D[f.m].linked)
  BY <1>4, <1>6 DEF Loading, Evaluating
<1>10. stack' = Append(Append(Below, g), f)
  BY <1>1, <1>5 DEF Calls
<1>11. Placed(stack', D, L)
  BY <1>2, <1>4, <1>6, <1>7, <1>8, <1>9, <1>10, PlacedCalls
<1> QED
  BY <1>3, <1>4, <1>11 DEF Placement

(* The actions that change a definition.                                   *)
LEMMA ChangedPlacement ==
    ASSUME IndInv, Placement, made' = made, loaded' = loaded,
           SameLinks(made, def, made, def'),
           \A x \in made : def[x].evaluated => def'[x].evaluated
    PROVE  Placed(stack, def', Listing') /\ Whole(made', def', Listing') /\ Listing' = Listing
<1>1. \A x \in made : IsLoaded(x)' <=> IsLoaded(x)
  BY DEF IsLoaded
<1>2. SameLinks(made, def, made', def')
  OBVIOUS
<1> QED
  BY <1>1, <1>2, GrowsPlacement, SameListing

LEMMA ResolvingPlacement ==
    ASSUME IndInv, Placement, Top.op = "resolve", made' = made, loaded' = loaded,
           SameLinks(made, def, made, def'),
           \A x \in made : def[x].evaluated => def'[x].evaluated,
           NEW i \in Nat, GoesOn(i) \/ \E d \in made : Calls(i, Call("resolve", d))
    PROVE  Placement'
<1>1. PICK D, L : D = def' /\ L = Listing'
  OBVIOUS
<1>2. Placed(stack, D, L) /\ Whole(made', D, L)
  BY <1>1, ChangedPlacement
<1>3. stack \in Seq(Frame) /\ made \subseteq Def
  BY DEF IndInv, Loads, TypeOK
<1>4. PICK g : g = [Top EXCEPT !.i = i]
  OBVIOUS
<1>5. g \in Frame /\ g.op = "resolve" /\ g.m = Top.m
  BY <1>3, <1>4, TopFrame, MovedFrame
<1>6. Becomes(Top, g, L)
  BY <1>5 DEF Becomes, Compiling
<1>7. Placed(stack', D, L)
  <2>1. CASE GoesOn(i)
    <3>1. stack' = Append(Below, g)
      BY <2>1, <1>4 DEF GoesOn
    <3> QED
      BY <3>1, <1>2, <1>3, <1>6, PlacedReplaced
  <2>2. ASSUME NEW d \in made, Calls(i, Call("resolve", d)) PROVE Placed(stack', D, L)
    <3>1. PICK f : f = Call("resolve", d)
      OBVIOUS
    <3>2. f \in Frame /\ f.op = "resolve"
      BY <3>1, <1>3, NewCall
    <3>3. f.op \in Loading /\ f.op \notin Evaluating /\ f.op \notin Compiling
      BY <3>2 DEF Loading, Evaluating, Compiling
    <3>4. stack' = Append(Append(Below, g), f)
      BY <3>1, <2>2, <1>4 DEF Calls
    <3> QED
      BY <3>2, <3>3, <3>4, <1>2, <1>3, <1>5, <1>6, PlacedCalls
  <2> QED
    BY <2>1, <2>2
<1> QED
  BY <1>1, <1>2, <1>7 DEF Placement

LEMMA ResolveBeginPlaced ==
    ASSUME IndInv, Placement, ResolveBegin
    PROVE  Placement'
<1>1. Top.op = "resolve" /\ Top.i = 0 /\ UNCHANGED <<source, made, loaded, runs, wild>>
  BY DEF ResolveBegin, At
<1>2. CASE def[Top.m].resolved
  <2>1. Returns("ok") /\ UNCHANGED <<def, made, loaded>>
    BY <1>1, <1>2 DEF ResolveBegin
  <2> QED
    BY <2>1, <1>1, ReturnsPlacement
<1>3. CASE ~def[Top.m].resolved
  <2>1. Top.m \in made /\ def[Top.m] \in Definition
    BY <1>1, TopSound DEF IndInv, Loads, TypeOK, Good
  <2>2. PICK m, r : m = Top.m /\ r = [def[m] EXCEPT !.resolved = TRUE]
    OBVIOUS
  <2>3. GoesOn(1) /\ def' = [def EXCEPT ![m] = r]
    BY <2>2, <1>3 DEF ResolveBegin
  <2>4. /\ r \in Definition /\ r.resolved /\ r.name = def[m].name /\ r.linked = def[m].linked
        /\ r.mark = def[m].mark /\ r.evaluated = def[m].evaluated /\ r.failed = def[m].failed
        /\ r.req = def[m].req
    BY <2>1, <2>2 DEF Definition
  <2>5. ~def[m].linked
    BY <2>1, <2>2, <1>3 DEF IndInv, Loads, LinkedIsWhole
  <2>6. Grows(made, def, made, def')
    BY <2>1, <2>2, <2>3, <2>4, <2>5, ResolvingGood
  <2>7. /\ SameLinks(made, def, made, def')
        /\ \A x \in made : def[x].evaluated => def'[x].evaluated
    BY <2>6 DEF Grows, SameRuns
  <2> QED
    BY <2>3, <2>7, <1>1, ResolvingPlacement
<1> QED
  BY <1>2, <1>3

LEMMA ResolveEnterPlaced ==
    ASSUME IndInv, Placement, ResolveFound \/ ResolveNext
    PROVE  Placement'
<1>1. PICK st, d, i : /\ AtRequirement("resolve", st) /\ d \in made \cup {NoDef} /\ i \in Nat
                      /\ def' = [def EXCEPT ![Top.m].req[Top.i] = d]
                      /\ GoesOn(i) \/ \E x \in made : Calls(i, Call("resolve", x))
  <2>1. CASE ResolveFound
    <3>1. PICK d \in Found(Required(Top)) :
             /\ def' = [def EXCEPT ![Top.m].req[Top.i] = d]
             /\ Calls(Top.i, Call("resolve", d))
      BY <2>1 DEF ResolveFound
    <3>2. d \in made /\ AtRequirement("resolve", "none")
      BY <2>1, FoundLoaded DEF IndInv, Loads, ResolveFound
    <3>3. Top.i \in Nat
      BY <3>2, ResolvingTop
    <3> QED
      BY <3>1, <3>2, <3>3
  <2>2. CASE ResolveNext
    <3>1. /\ AtRequirement("resolve", "ok") /\ GoesOn(Top.i + 1)
          /\ def' = [def EXCEPT ![Top.m].req[Top.i] = ret.m]
      BY <2>2 DEF ResolveNext
    <3>2. Top.i + 1 \in Nat
      BY <3>1, ResolvingTop
    <3>3. ret.m \in made \cup {NoDef}
      BY DEF IndInv, Loads, Returned
    <3> QED
      BY <3>1, <3>2, <3>3
  <2> QED
    BY <2>1, <2>2
<1>2. /\ Top.op = "resolve" /\ Top.m \in made /\ def[Top.m] \in Definition
      /\ ~def[Top.m].linked
  BY <1>1, ResolvingTop
<1>3. /\ made \subseteq Def /\ Top.i \in DOMAIN def[Top.m].req
      /\ UNCHANGED <<source, made, loaded, runs, wild>>
  BY <1>1 DEF IndInv, Loads, TypeOK, AtRequirement, ResolveFound, ResolveNext
<1>4. PICK m, n : m = Top.m /\ n = Top.i
  OBVIOUS
<1>5. PICK r : r = [def[m] EXCEPT !.req = [def[m].req EXCEPT ![n] = d]]
  OBVIOUS
<1>6. Entered(def[m], n, d, r)
  BY <1>1, <1>2, <1>3, <1>4, <1>5, Enter
<1>7. def' = [def EXCEPT ![m] = r]
  BY <1>1, <1>4, <1>5
<1>8. Grows(made, def, made, def')
  <2>1. /\ r \in Definition /\ r.name = def[m].name /\ r.resolved = def[m].resolved
        /\ r.linked = def[m].linked /\ r.mark = def[m].mark
        /\ r.evaluated = def[m].evaluated /\ r.failed = def[m].failed
    BY <1>6 DEF Entered
  <2>2. m \in made /\ ~def[m].linked
    BY <1>2, <1>4
  <2> QED
    BY <2>1, <2>2, <1>7, ResolvingGood
<1>9. /\ SameLinks(made, def, made, def')
      /\ \A x \in made : def[x].evaluated => def'[x].evaluated
  BY <1>8 DEF Grows, SameRuns
<1>10. GoesOn(i) \/ \E x \in made : Calls(i, Call("resolve", x))
  BY <1>1
<1> QED
  BY <1>1, <1>2, <1>3, <1>9, <1>10, ResolvingPlacement

LEMMA EvaluationPlacement ==
    ASSUME IndInv, Placement, made' = made, loaded' = loaded,
           NEW m \in made, NEW r, SameButRuns(def[m], r), def' = [def EXCEPT ![m] = r],
           def[m].evaluated => r.evaluated
    PROVE  Placed(stack, def', Listing') /\ Whole(made', def', Listing') /\ Listing' = Listing
<1>1. /\ SameLinks(made, def, made, def')
      /\ def'[m] = r /\ \A x \in made \ {m} : def'[x] = def[x]
  BY EvaluationLinks
<1>2. \A x \in made : def[x].evaluated => def'[x].evaluated
  BY <1>1
<1> QED
  BY <1>1, <1>2, ChangedPlacement

(* An evaluation returns, and its module was given the record r.           *)
LEMMA EvaluationReturnsPlaced ==
    ASSUME IndInv, Placement, made' = made, loaded' = loaded, Top.op \in Evaluating,
           NEW m, m = Top.m, NEW r, SameButRuns(def[m], r), def' = [def EXCEPT ![m] = r],
           def[m].evaluated => r.evaluated, NEW st, Returns(st), IsLoaded(m)
    PROVE  Placement'
<1>1. PICK D, L : D = def' /\ L = Listing'
  OBVIOUS
<1>2. stack \in Seq(Frame) /\ Top.op # "outside" /\ m \in made
  BY EvaluatingTop
<1>3. Placed(stack, D, L) /\ Whole(made', D, L) /\ L = Listing
  BY <1>1, <1>2, EvaluationPlacement
<1>4. Top.m \in L /\ stack' = Below
  BY <1>2, <1>3 DEF Listing, Returns
<1>5. Placed(stack', D, L)
  BY <1>2, <1>3, <1>4, PlacedReturns
<1> QED
  BY <1>1, <1>3, <1>5 DEF Placement

LEMMA EvaluateBeginPlaced ==
    ASSUME IndInv, Placement, EvaluateBegin
    PROVE  Placement'
<1>1. /\ Top.op = "evaluate" /\ Top.op \in Evaluating /\ made' = made /\ loaded' = loaded
      /\ Top.op \notin {"outside", "body"}
  BY DEF EvaluateBegin, At, Evaluating
<1>2. CASE def[Top.m].mark \/ def[Top.m].evaluated
  <2>1. UNCHANGED <<def, made, loaded>> /\ \E st : Returns(st)
    BY <1>1, <1>2 DEF EvaluateBegin
  <2> QED
    BY <2>1, <1>1, ReturnsPlacement
<1>3. CASE ~def[Top.m].mark /\ ~def[Top.m].evaluated
  <2>1. PICK m, r, g : /\ m = Top.m /\ r = [def[m] EXCEPT !.mark = TRUE]
                       /\ g = [Top EXCEPT !.i = 1]
    OBVIOUS
  <2>2. GoesOn(1) /\ def' = [def EXCEPT ![m] = r] /\ ~def[m].evaluated
    BY <2>1, <1>3 DEF EvaluateBegin
  <2>3. stack \in Seq(Frame) /\ Top \in Frame /\ m \in made /\ def[m] \in Definition
    BY <2>1, <1>1, EvaluatingTop
  <2>4. SameButRuns(def[m], r)
    BY <2>1, <2>3 DEF SameButRuns, Definition
  <2>5. PICK D, L : D = def' /\ L = Listing'
    OBVIOUS
  <2>6. Placed(stack, D, L) /\ Whole(made', D, L)
    BY <2>2, <2>3, <2>4, <2>5, <1>1, EvaluationPlacement
  <2>7. Becomes(Top, g, L)
    <3>1. g \in Frame /\ g.op = Top.op /\ g.m = Top.m
      BY <2>1, <2>3, MovedFrame
    <3> QED
      BY <3>1, <1>1 DEF Becomes, Compiling
  <2>8. stack' = Append(Below, g)
    BY <2>1, <2>2 DEF GoesOn
  <2>9. Placed(stack', D, L)
    BY <2>3, <2>6, <2>7, <2>8, <1>1, PlacedReplaced
  <2> QED
    BY <2>5, <2>6, <2>9 DEF Placement
<1> QED
  BY <1>2, <1>3

LEMMA EvaluateRequirementPlaced ==
    ASSUME IndInv, Placement, EvaluateRequirement
    PROVE  Placement'
<1>1. /\ Top.op = "evaluate" /\ Top.op \in Evaluating /\ UNCHANGED <<def, made, loaded>>
      /\ Top.op \notin Compiling \cup {"outside"}
  BY DEF EvaluateRequirement, AtRequirement, Evaluating, Compiling
<1>2. /\ Top \in Frame /\ stack \in Seq(Frame) /\ Top.i \in Nat /\ Placed(stack, def, Listing)
  BY <1>1, EvaluatingTop DEF Placement
<1>3. PICK d : d = def[Top.m].req[Top.i]
  OBVIOUS
<1>4. d \in Listing /\ d \in Def
  BY <1>3 DEF EvaluateRequirement, Valid, IsLoaded, IndInv, Loads, TypeOK, Listing
<1>5. CASE GoesOn(Top.i + 1)
  <2>1. Top.i + 1 \in Nat
    BY <1>2
  <2> QED
    BY <2>1, <1>1, <1>5, GoesOnPlacement
<1>6. CASE Calls(Top.i, Call("evaluate", d))
  <2>1. PICK f, g : f = Call("evaluate", d) /\ g = [Top EXCEPT !.i = Top.i]
    OBVIOUS
  <2>2. f \in Frame /\ f.op = "evaluate" /\ f.m = d
    BY <2>1, <1>4, NewCall
  <2>3. g \in Frame /\ g.op = "evaluate" /\ g.m = Top.m
    BY <2>1, <1>1, <1>2, MovedFrame
  <2>4. Becomes(Top, g, Listing) /\ ~InLoader(g)
    BY <2>3, <1>1 DEF Becomes, InLoader, Loading, Compiling
  <2>5. f.op \notin Compiling /\ f.m \in Listing
    BY <2>2, <1>4 DEF Compiling
  <2>6. stack' = Append(Append(Below, g), f)
    BY <2>1, <1>6 DEF Calls
  <2>7. Placed(stack', def, Listing)
    BY <2>2, <2>4, <2>5, <2>6, <1>1, <1>2, PlacedCalls
  <2> QED
    BY <2>7, <1>1, SamePlacement
<1> QED
  BY <1>3, <1>5, <1>6 DEF EvaluateRequirement

LEMMA EvaluateNextPlaced ==
    ASSUME IndInv, Placement, EvaluateNext
    PROVE  Placement'
<1>1. /\ Top.op = "evaluate" /\ Top.op \in Evaluating /\ made' = made /\ loaded' = loaded
      /\ Top.op \notin Compiling \cup {"outside"} /\ IsLoaded(Top.m)
  BY DEF EvaluateNext, AtRequirement, Evaluating, Compiling
<1>2. Top.m \in made /\ def[Top.m] \in Definition /\ Top.i \in Nat /\ Top.i + 1 \in Nat
  BY <1>1, EvaluatingTop
<1>3. CASE ret.st = "ok"
  <2>1. GoesOn(Top.i + 1) /\ UNCHANGED <<def, made, loaded>>
    BY <1>1, <1>3 DEF EvaluateNext
  <2> QED
    BY <2>1, <1>1, <1>2, GoesOnPlacement
<1>4. CASE ret.st # "ok"
  <2>1. PICK m, r : m = Top.m /\ r = [def[m] EXCEPT !.mark = FALSE]
    OBVIOUS
  <2>2. Returns("throw") /\ def' = [def EXCEPT ![m] = r]
    BY <2>1, <1>4 DEF EvaluateNext
  <2>3. SameButRuns(def[m], r) /\ (def[m].evaluated => r.evaluated)
    BY <2>1, <1>2 DEF SameButRuns, Definition
  <2> QED
    BY <2>1, <2>2, <2>3, <1>1, EvaluationReturnsPlaced
<1> QED
  BY <1>3, <1>4

LEMMA BodyStartsPlaced ==
    ASSUME IndInv, Placement, BodyStarts
    PROVE  Placement'
<1>1. /\ Top.op = "evaluate" /\ Top.op \in Evaluating /\ UNCHANGED <<def, made, loaded>>
      /\ IsLoaded(Top.m) /\ stack' = Append(Below, Call("body", Top.m))
  BY DEF BodyStarts, AtEnd, Evaluating
<1>2. /\ stack \in Seq(Frame) /\ Placed(stack, def, Listing) /\ Top.op # "outside"
      /\ Top.m \in made /\ Top.m \in Def
  BY <1>1, EvaluatingTop DEF Placement
<1>3. PICK g : g = Call("body", Top.m)
  OBVIOUS
<1>4. g \in Frame /\ g.op = "body" /\ g.m = Top.m
  BY <1>2, <1>3, NewCall
<1>5. Becomes(Top, g, Listing)
  BY <1>1, <1>2, <1>4 DEF Becomes, Listing, Compiling
<1>6. stack' = Append(Below, g)
  BY <1>1, <1>3
<1>7. Placed(stack', def, Listing)
  BY <1>2, <1>5, <1>6, PlacedReplaced
<1> QED
  BY <1>1, <1>7, SamePlacement

LEMMA BodyEndsPlaced ==
    ASSUME IndInv, Placement, NEW throws \in BOOLEAN, BodyEnds(throws)
    PROVE  Placement'
<1>1. /\ Top.op \in Evaluating /\ made' = made /\ loaded' = loaded /\ IsLoaded(Top.m)
  BY DEF BodyEnds, At, Evaluating
<1>2. /\ Top.m \in made /\ Top.m \in Def /\ def[Top.m] \in Definition
  BY <1>1, EvaluatingTop
<1>3. PICK m, r : /\ m = Top.m
                  /\ r = [def[m] EXCEPT !.mark = FALSE, !.evaluated = TRUE, !.failed = throws]
  OBVIOUS
<1>4. def' = [def EXCEPT ![m] = r]
  <2>1. def \in [Def -> Definition \cup {NoDef}]
    BY DEF IndInv, Loads, TypeOK
  <2> QED
    BY <2>1, <1>2, <1>3 DEF BodyEnds, Definition
<1>5. r.evaluated /\ SameButRuns(def[m], r)
  BY <1>2, <1>3 DEF SameButRuns, Definition
<1>6. \E st : Returns(st)
  BY DEF BodyEnds
<1> QED
  BY <1>1, <1>3, <1>4, <1>5, <1>6, EvaluationReturnsPlaced

(* The actions that free definitions.                                      *)
LEMMA UnlinkedListing ==
    ASSUME TypeOK, made' = made, NEW P, Unlink(P)
    PROVE  /\ Listing' \subseteq Listing
           /\ \A x \in Listing :
                 (\A k \in DOMAIN loaded \cap P : loaded[k] # x) => x \in Listing'
  BY DEF Listing, IsLoaded, Unlink, TypeOK

LEMMA FreesUnlinked ==
    ASSUME IndInv, Placement, made' = made, def' = def, NEW P, Unlink(P),
           \A k \in DOMAIN loaded \cap P : ~def[loaded[k]].linked,
           Top.op \notin {"outside", "body"}, NEW st, Returns(st)
    PROVE  Placement'
<1>1. /\ TypeOK /\ stack \in Seq(Frame) /\ About(stack, made, def) /\ LinkedIsWhole
      /\ Placed(stack, def, Listing) /\ Whole(made, def, Listing)
  BY DEF IndInv, Loads, TypeOK, Good, Placement
<1>2. PICK K : K = Listing'
  OBVIOUS
<1>3. /\ K \subseteq Listing
      /\ \A x \in Listing : def[x].linked => x \in K
  BY <1>1, <1>2, UnlinkedListing
<1>4. Placed(stack, def, K)
  <2>1. ASSUME NEW k \in DOMAIN stack, stack[k].op \in Evaluating
        PROVE  stack[k].m \in Listing <=> stack[k].m \in K
    BY <2>1, <1>1, <1>3 DEF About, Sound
  <2> QED
    BY <2>1, <1>1, PlacedKept
<1>5. Whole(made, def, K)
  <2> SUFFICES ASSUME NEW d \in made, d \in K, def[d].linked, ~def[d].evaluated,
                      NEW i \in DOMAIN def[d].req
               PROVE  def[d].req[i] \in K
    BY DEF Whole
  <2>1. def[d].req[i] \in Listing
    BY <1>1, <1>3 DEF Whole
  <2>2. def[def[d].req[i]].linked
    <3>1. def[d].req[i] \in RequirementsOf(d) /\ IsLoaded(def[d].req[i])
      BY <2>1 DEF RequirementsOf, Listing
    <3> QED
      BY <3>1, <1>1 DEF LinkedIsWhole
  <2> QED
    BY <2>1, <2>2, <1>3
<1>6. stack' = Below /\ Top.op # "outside" /\ Top.op # "body"
  BY DEF Returns
<1>7. Placed(stack', def, K)
  BY <1>1, <1>4, <1>6, PlacedReturns
<1> QED
  BY <1>2, <1>5, <1>7 DEF Placement

LEMMA FreeNotResolvedPlaced ==
    ASSUME IndInv, Placement, made' = made, def' = def, FreeNotResolved, AllResolved,
           Top.op \notin {"outside", "body"}, NEW st, Returns(st)
    PROVE  Placement'
<1>1. PICK P : P = {k \in DOMAIN loaded : ~def[loaded[k]].resolved}
  OBVIOUS
<1>2. Unlink(P) /\ \A k \in DOMAIN loaded \cap P : ~def[loaded[k]].linked
  BY <1>1 DEF FreeNotResolved, AllResolved, IndInv, Loads, TypeOK
<1> QED
  BY <1>2, FreesUnlinked

LEMMA ResolveFailedPlaced ==
    ASSUME IndInv, Placement, NEW op, ResolveFailed(op)
    PROVE  Placement'
<1>1. /\ Top.op = op /\ Top.i = 1 /\ made' = made /\ def' = def /\ Returns("throw")
      /\ op \in Compiling /\ Top.op \notin {"outside", "body"} /\ AllResolved
  BY Underway DEF ResolveFailed, At, Compiling
<1>2. CASE FreeNotResolved
  BY <1>1, <1>2, FreeNotResolvedPlaced
<1>3. CASE Free(Top.m)
  <2>1. PICK P : P = {k \in DOMAIN loaded : loaded[k] = Top.m}
    OBVIOUS
  <2>2. ~def[Top.m].linked
    <3>1. Top = stack[Len(stack)] /\ Len(stack) \in DOMAIN stack
      BY <1>1, TopFrame DEF IndInv, Loads, TypeOK
    <3> QED
      BY <3>1, <1>1 DEF Placement, Placed, Unlinked
  <2>3. Unlink(P) /\ \A k \in DOMAIN loaded \cap P : ~def[loaded[k]].linked
    BY <2>1, <2>2, <1>3 DEF Free
  <2> QED
    BY <2>3, <1>1, FreesUnlinked
<1> QED
  BY <1>2, <1>3 DEF ResolveFailed

LEMMA RunResolvedPlaced ==
    ASSUME IndInv, Placement, RunResolved
    PROVE  Placement'
<1>1. /\ Top.op = "JS_RunModule" /\ Top.i = 1 /\ made' = made /\ def' = def /\ AllResolved
      /\ Top.op \notin {"outside", "body"}
  BY Underway DEF RunResolved, At, Compiling
<1>2. CASE Calls(2, Call("JS_EvalFunction", Top.m)) /\ UNCHANGED loaded
  <2>1. Top.op \notin Evaluating \cup {"outside"} /\ Top.op \notin Loading \cup Compiling
    BY <1>1 DEF Evaluating, Loading, Compiling
  <2> QED
    BY <2>1, <1>1, <1>2, CallsPlacement
<1>3. CASE FreeNotResolved /\ Returns("throw")
  BY <1>1, <1>3, FreeNotResolvedPlaced
<1> QED
  BY <1>2, <1>3 DEF RunResolved

(* JS_EvalFunctionInternal frees what is not evaluated: below it is a body *)
(* for every evaluation, and the module of that is freed with the others.  *)
LEMMA FreeNotEvaluatedPlaced ==
    ASSUME IndInv, Placement, made' = made, def' = def, FreeNotEvaluated,
           Top.op = "JS_EvalFunction", NEW st, Returns(st)
    PROVE  Placement'
<1>1. /\ TypeOK /\ stack \in Seq(Frame) /\ About(stack, made, def) /\ NotYetEvaluated
      /\ Placed(stack, def, Listing)
  BY DEF IndInv, Loads, TypeOK, Good, Placement, Evaluations
<1>2. PICK K : K = Listing'
  OBVIOUS
<1>3. \A x \in made : x \in K => def[x].evaluated
  BY <1>2 DEF FreeNotEvaluated, Unlink, Listing, IsLoaded
<1>4. ASSUME NEW j \in DOMAIN stack, stack[j].op = "body" PROVE stack[j].m \notin K
  <2>1. Evaluates(stack, j, stack[j].m) /\ j \in Nat /\ stack[j].m \in made
    BY <1>1, <1>4 DEF Evaluates, InProgress, About, Sound
  <2>2. ~def[stack[j].m].evaluated
    BY <2>1, <1>1 DEF NotYetEvaluated
  <2> QED
    BY <2>1, <2>2, <1>3
<1>5. Top = stack[Len(stack)] /\ Len(stack) \in DOMAIN stack /\ Len(stack) \in Nat
  BY <1>1, TopFrame
<1>6. Listed(stack, K)
  <2> SUFFICES ASSUME NEW k \in DOMAIN stack, stack[k].op \in Evaluating
               PROVE  \E j \in k .. Len(stack) : stack[j].op = "body" /\ stack[j].m \notin K
    BY DEF Listed
  <2>1. CASE stack[k].op = "body"
    <3>1. k \in k .. Len(stack)
      BY <1>1
    <3> QED
      BY <3>1, <2>1, <1>4
  <2>2. CASE stack[k].op = "evaluate"
    <3>1. k # Len(stack)
      BY <2>2, <1>5
    <3>2. k \in 1 .. Len(stack) /\ k < Len(stack)
      <4>1. k \in 1 .. Len(stack) /\ Len(stack) \in Nat
        BY <1>1
      <4> QED
        BY <4>1, <3>1
    <3>3. PICK j \in k + 1 .. Len(stack) : stack[j].op = "body"
      BY <3>2, <2>2, <1>1, <1>5 DEF Placed, Ordered
    <3>4. j \in k .. Len(stack) /\ j \in DOMAIN stack
      BY <3>2, <1>1
    <3> QED
      BY <3>3, <3>4, <1>4
  <2> QED
    BY <2>1, <2>2 DEF Evaluating
<1>7. Placed(stack, def, K)
  BY <1>1, <1>6 DEF Placed
<1>8. Whole(made, def, K)
  BY <1>3 DEF Whole
<1>9. stack' = Below /\ Top.op # "outside" /\ Top.op # "body"
  BY DEF Returns
<1>10. Placed(stack', def, K)
  BY <1>1, <1>7, <1>9, PlacedReturns
<1> QED
  BY <1>2, <1>8, <1>10 DEF Placement

LEMMA EvalFunctionPlaced ==
    ASSUME IndInv, Placement, LinkFails \/ EvalFunctionEnds
    PROVE  Placement'
<1>1. /\ Top.op = "JS_EvalFunction" /\ made' = made /\ def' = def
      /\ Top.op \notin {"outside", "body"} /\ \E st : Returns(st)
  BY DEF LinkFails, EvalFunctionEnds, At
<1>2. CASE FreeNotEvaluated
  BY <1>1, <1>2, FreeNotEvaluatedPlaced
<1>3. CASE UNCHANGED loaded
  BY <1>1, <1>3, ReturnsPlacement
<1> QED
  BY <1>2, <1>3 DEF LinkFails, EvalFunctionEnds

(* Linking comes to everything that a module which it links requires.      *)
LEMMA LinkPlaced ==
    ASSUME IndInv, Placement, Link
    PROVE  Placement'
<1>1. /\ TypeOK /\ stack \in Seq(Frame) /\ Placed(stack, def, Listing)
      /\ Whole(made, def, Listing) /\ Top.op = "JS_EvalFunction"
      /\ made \subseteq Def /\ \A x \in made : def[x] \in Definition
  BY DEF IndInv, Loads, TypeOK, Placement, Link, At
<1>2. /\ Top \in Frame /\ Top = stack[Len(stack)] /\ Len(stack) \in DOMAIN stack
      /\ Len(stack) \in Nat /\ Top.m \in made /\ Top.op # "outside"
  BY <1>1, TopFrame, TopSound DEF IndInv, Loads, Good
<1>3. PICK m, T, D : m = Top.m /\ T = ToLink(m) /\ D = def'
  OBVIOUS
<1>4. /\ D = [d \in Def |-> IF d \in T THEN [def[d] EXCEPT !.linked = TRUE] ELSE def[d]]
      /\ \A d \in T : IsLoaded(d)
      /\ made' = made /\ loaded' = loaded
  BY <1>3 DEF Link
<1>5. Calls(1, Call("evaluate", m)) /\ m \in made
  BY <1>2, <1>3 DEF Link
<1>6. \A x \in Reached(m) : x \in Listing
  <2> SUFFICES ASSUME NEW x \in Reached(m) PROVE IsLoaded(x)
    BY <1>1 DEF Listing, IsLoaded, TypeOK
  <2> QED
    BY <1>3, <1>4 DEF ToLink
<1>7. ASSUME NEW x \in made
      PROVE  /\ D[x].req = def[x].req /\ D[x].evaluated = def[x].evaluated
             /\ D[x].linked <=> (x \in T \/ def[x].linked)
  <2>1. def[x] \in Definition /\ x \in Def
    BY <1>1
  <2>2. CASE x \in T
    <3>1. D[x] = [def[x] EXCEPT !.linked = TRUE]
      BY <2>1, <2>2, <1>4
    <3> QED
      BY <3>1, <2>1, <2>2 DEF Definition
  <2>3. CASE x \notin T
    BY <2>1, <2>3, <1>4
  <2> QED
    BY <2>2, <2>3
<1>8. Whole(made, D, Listing)
  <2> SUFFICES ASSUME NEW d \in made, d \in Listing, D[d].linked, ~D[d].evaluated,
                      NEW i \in DOMAIN D[d].req
               PROVE  D[d].req[i] \in Listing
    BY DEF Whole
  <2>1. D[d].req = def[d].req /\ ~def[d].evaluated /\ (d \in T \/ def[d].linked)
    BY <1>7
  <2>2. CASE def[d].linked
    BY <2>1, <2>2, <1>1 DEF Whole
  <2>3. CASE d \in T /\ ~def[d].linked
    <3>1. PICK y : y = def[d].req[i]
      OBVIOUS
    <3>2. y \in Def \cup {NoDef}
      <4>1. def[d].req \in Seq(Def \cup {NoDef})
        BY <1>1 DEF Definition
      <4> QED
        BY <4>1, <3>1, <2>1
    <3>3. y \in RequirementsOf(d) /\ IsLoaded(d) /\ d \in Reached(m)
      BY <3>1, <2>1, <2>3, <1>3, <1>4 DEF RequirementsOf, ToLink
    <3>4. y \in Reached(m)
      <4>1. m \in Def \cup {NoDef}
        BY <1>1, <1>5
      <4> QED
        BY <4>1, <3>2, <3>3, <2>3, ReachedClosed
    <3> QED
      BY <3>1, <3>4, <2>1, <1>6
  <2> QED
    BY <2>1, <2>2, <2>3
<1>9. Placed(stack, D, Listing)
  <2>1. Unlinked(stack, D)
    <3> SUFFICES ASSUME NEW k \in DOMAIN stack, stack[k].op \in Compiling, stack[k].i < 2
                 PROVE  FALSE
      BY DEF Unlinked
    <3>1. InLoader(stack[k])
      BY DEF InLoader
    <3>2. k # Len(stack)
      BY <1>1, <1>2 DEF Compiling
    <3>3. k < Len(stack)
      <4>1. k \in 1 .. Len(stack) /\ Len(stack) \in Nat
        BY <1>1
      <4> QED
        BY <4>1, <3>2
    <3>4. stack[Len(stack)].op \in Loading
      BY <3>1, <3>3, <1>1, <1>2 DEF Placed, Ordered
    <3> QED
      BY <3>4, <1>1, <1>2 DEF Loading
  <2> QED
    BY <2>1, <1>1 DEF Placed
<1>10. PICK f, g : f = Call("evaluate", m) /\ g = [Top EXCEPT !.i = 1]
  OBVIOUS
<1>11. f \in Frame /\ f.op = "evaluate" /\ f.m = m
  BY <1>1, <1>5, <1>10, NewCall
<1>12. g \in Frame /\ g.op = "JS_EvalFunction" /\ g.m = Top.m
  <2>1. Top \in Frame /\ 1 \in Nat /\ g = [Top EXCEPT !.i = 1]
    BY <1>2, <1>10
  <2>2. g \in Frame /\ g.op = Top.op /\ g.m = Top.m
    BY ONLY <2>1, MovedFrame
  <2> QED
    BY <2>2, <1>1
<1>13. Becomes(Top, g, Listing) /\ ~InLoader(g)
  BY <1>1, <1>12 DEF Becomes, InLoader, Loading, Compiling
<1>14. f.op \notin Compiling /\ f.m \in Listing
  <2>1. m \in Reached(m)
    BY <1>1, <1>5, ReachedClosed
  <2> QED
    BY <2>1, <1>6, <1>11 DEF Compiling
<1>15. stack' = Append(Append(Below, g), f)
  BY <1>5, <1>10 DEF Calls
<1>16. Placed(stack', D, Listing)
  BY <1>2, <1>1, <1>9, <1>11, <1>12, <1>13, <1>14, <1>15, PlacedCalls
<1>17. Listing' = Listing /\ made' = made
  <2>1. made' = made /\ loaded' = loaded
    BY DEF Link
  <2> QED
    BY <2>1, SameListing
<1> QED
  BY <1>3, <1>8, <1>16, <1>17 DEF Placement

LEMMA WildPlaced ==
    ASSUME Placement, UNCHANGED <<def, made, loaded, stack>>
    PROVE  Placement'
<1>1. Placed(stack', def, Listing)
  BY DEF Placement
<1> QED
  BY <1>1, SamePlacement

---------------------------------------------------------------------------
LEMMA InitKeeps ==
    ASSUME Init
    PROVE  IndInv
<1>1. /\ source \in Sources /\ def = [d \in Def |-> NoDef] /\ made = {} /\ loaded = <<>>
      /\ stack = <<>> /\ ret = Nothing /\ runs = [d \in Def |-> 0] /\ wild = FALSE
  BY DEF Init
<1>2. Len(stack) = 0 /\ DOMAIN stack = {} /\ DOMAIN loaded = {} /\ stack \in Seq(Frame)
  BY <1>1
<1>3. TypeOK
  BY <1>1, <1>2, ModulesAssumption DEF TypeOK, Nothing, Ret
<1>4. Indexed /\ ResolvedAtOnce /\ LinkedIsWhole /\ Returned(ret, made)
  BY <1>1 DEF Indexed, ResolvedAtOnce, LinkedIsWhole, Returned, Nothing, Ret
<1>5. Good(stack, made, def)
  BY <1>2 DEF Good, About, Innermost, Chained
<1>6. InProgressOnce /\ MarkedInProgress /\ NotYetEvaluated /\ RunsCounted
  BY <1>1 DEF InProgressOnce, MarkedInProgress, NotYetEvaluated, RunsCounted
<1>7. RequirementsFulfilled /\ OkMeansFulfilled
  BY <1>1, <1>2 DEF RequirementsFulfilled, OkMeansFulfilled, Nothing
<1> QED
  BY <1>3, <1>4, <1>5, <1>6, <1>7 DEF IndInv, Loads, Evaluations

LEMMA StepKeeps ==
    ASSUME IndInv, [Next]_vars
    PROVE  IndInv'
<1>1. CASE ScriptCalls
  <2>1. ASSUME NEW op \in {"JS_Eval", "compile", "execute"}, NEW n \in Name, NEW d \in Def,
               Start(op, n, d)
        PROVE  IndInv'
    BY <2>1, StartKeeps
  <2>2. ASSUME NEW n \in Name, ImportFound(n) PROVE IndInv'
    BY <2>2, ImportFoundKeeps
  <2>3. ASSUME NEW n \in Name, NEW d \in Def, ImportLoads(n, d) PROVE IndInv'
    BY <2>3, ImportLoadsKeeps
  <2> QED
    BY <1>1, <2>1, <2>2, <2>3 DEF ScriptCalls
<1>2. CASE Loader
  <2>1. ASSUME NEW op, Compiled(op) \/ ResolveFailed(op) \/ ResolveDone(op) PROVE IndInv'
    BY <2>1, CompiledKeeps, ResolveFailedKeeps, ResolveDoneKeeps
  <2>2. CASE RunLoaded \/ RunResolves \/ RunResolved
    BY <2>2, RunLoadedKeeps, RunResolvesKeeps, RunResolvedKeeps
  <2>3. ASSUME NEW op \in Outer, CallDone(op) PROVE IndInv'
    BY <2>3, CallDoneKeeps
  <2>4. CASE ResolveBegin
    BY <2>4, ResolveBeginKeeps
  <2>5. CASE ResolveFound
    BY <2>5, ResolveFoundKeeps
  <2>6. CASE ResolveNext
    BY <2>6, ResolveNextKeeps
  <2>7. CASE ResolveNotFound \/ ResolveThrows \/ ResolveEnds
    BY <2>7, ResolveOthersKeep
  <2>8. ASSUME NEW d \in Def, ResolveLoads(d) PROVE IndInv'
    BY <2>8, ResolveLoadsKeeps
  <2>9. CASE Link
    BY <2>9, LinkKeeps
  <2>10. CASE LinkFails
    BY <2>10, LinkFailsKeeps
  <2>11. CASE LinkWild
    BY <2>11, WildKeeps DEF LinkWild, GoesWild
  <2>12. CASE EvalFunctionEnds
    BY <2>12, EvalFunctionEndsKeeps
  <2>13. CASE EvaluateBegin
    BY <2>13, EvaluateBeginKeeps
  <2>14. CASE EvaluateRequirement
    BY <2>14, EvaluateRequirementKeeps
  <2>15. CASE EvaluateNext
    BY <2>15, EvaluateNextKeeps
  <2>16. CASE BodyStarts
    BY <2>16, BodyStartsKeeps
  <2> QED
    BY <1>2, <2>1, <2>2, <2>3, <2>4, <2>5, <2>6, <2>7, <2>8, <2>9, <2>10, <2>11, <2>12,
       <2>13, <2>14, <2>15, <2>16 DEF Loader
<1>3. CASE ScriptEnds
  <2>1. CASE BodyEndsWild
    BY <2>1, WildKeeps DEF BodyEndsWild, GoesWild
  <2>2. ASSUME NEW throws \in BOOLEAN, BodyEnds(throws) PROVE IndInv'
    BY <2>2, BodyEndsKeeps
  <2> QED
    BY <1>3, <2>1, <2>2 DEF ScriptEnds
<1>4. CASE UNCHANGED vars
  BY <1>4, WildKeeps DEF vars, IndInv, Loads, TypeOK
<1> QED
  BY <1>1, <1>2, <1>3, <1>4 DEF Next

LEMMA InitPlaced ==
    ASSUME Init
    PROVE  Placement
<1>1. made = {} /\ stack = <<>> /\ DOMAIN stack = {}
  BY DEF Init
<1> QED
  BY <1>1 DEF Placement, Placed, Ordered, Unlinked, Listed, Whole

LEMMA StepPlaced ==
    ASSUME IndInv, Placement, [Next]_vars
    PROVE  Placement'
<1>1. CASE ScriptCalls
  <2>1. ASSUME NEW op \in {"JS_Eval", "compile", "execute"}, NEW n \in Name, NEW d \in Def,
               Start(op, n, d)
        PROVE  Placement'
    BY <2>1, StartPlaced
  <2>2. ASSUME NEW n \in Name, ImportFound(n) PROVE Placement'
    BY <2>2, ImportFoundPlaced
  <2>3. ASSUME NEW n \in Name, NEW d \in Def, ImportLoads(n, d) PROVE Placement'
    BY <2>3, ImportLoadsPlaced
  <2> QED
    BY <1>1, <2>1, <2>2, <2>3 DEF ScriptCalls
<1>2. CASE Loader
  <2>1. ASSUME NEW op, Compiled(op) \/ ResolveFailed(op) \/ ResolveDone(op) PROVE Placement'
    BY <2>1, CompiledPlaced, ResolveFailedPlaced, ResolveDonePlaced
  <2>2. CASE RunLoaded \/ RunResolves \/ RunResolved
    BY <2>2, RunPlaced, RunResolvedPlaced
  <2>3. CASE (\E op \in Outer : CallDone(op)) \/ ResolveNotFound \/ ResolveThrows \/ ResolveEnds
    BY <2>3, OthersPlaced
  <2>4. CASE ResolveBegin
    BY <2>4, ResolveBeginPlaced
  <2>5. CASE ResolveFound \/ ResolveNext
    BY <2>5, ResolveEnterPlaced
  <2>6. ASSUME NEW d \in Def, ResolveLoads(d) PROVE Placement'
    BY <2>6, ResolveLoadsPlaced
  <2>7. CASE Link
    BY <2>7, LinkPlaced
  <2>8. CASE LinkFails \/ EvalFunctionEnds
    BY <2>8, EvalFunctionPlaced
  <2>9. CASE LinkWild
    BY <2>9, WildPlaced DEF LinkWild, GoesWild
  <2>10. CASE EvaluateBegin
    BY <2>10, EvaluateBeginPlaced
  <2>11. CASE EvaluateRequirement
    BY <2>11, EvaluateRequirementPlaced
  <2>12. CASE EvaluateNext
    BY <2>12, EvaluateNextPlaced
  <2>13. CASE BodyStarts
    BY <2>13, BodyStartsPlaced
  <2> QED
    BY <1>2, <2>1, <2>2, <2>3, <2>4, <2>5, <2>6, <2>7, <2>8, <2>9, <2>10, <2>11, <2>12, <2>13
       DEF Loader
<1>3. CASE ScriptEnds
  <2>1. CASE BodyEndsWild
    BY <2>1, WildPlaced DEF BodyEndsWild, GoesWild
  <2>2. ASSUME NEW throws \in BOOLEAN, BodyEnds(throws) PROVE Placement'
    BY <2>2, BodyEndsPlaced
  <2> QED
    BY <1>3, <2>1, <2>2 DEF ScriptEnds
<1>4. CASE UNCHANGED vars
  BY <1>4, WildPlaced DEF vars
<1> QED
  BY <1>1, <1>2, <1>3, <1>4 DEF Next

(* The inductive invariant of the module loader.                           *)
THEOREM Invariance == Spec => []IndInv
<1>1. Init => IndInv
  BY InitKeeps
<1>2. IndInv /\ [Next]_vars => IndInv'
  BY StepKeeps
<1> QED
  BY <1>1, <1>2, PTL DEF Spec

(* Where the calls in progress and the list of modules may differ: a call  *)
(* that evaluates a module which was freed lies below a body that was      *)
(* freed as well, to which nothing returns.                                *)
THEOREM PlacementInvariance == Spec => []Placement
<1>1. Init => Placement
  BY InitPlaced
<1>2. IndInv /\ Placement /\ [Next]_vars => Placement'
  BY StepPlaced
<1> QED
  BY <1>1, <1>2, Invariance, PTL DEF Spec

(* The list of modules holds definitions that were made, each of them      *)
(* once, whatever is freed, and every variable has its type.               *)
THEOREM TypeCorrect == Spec => []TypeOK
<1>1. IndInv => TypeOK
  BY DEF IndInv, Loads
<1> QED
  BY <1>1, Invariance, PTL

(* js_evaluate_module starts the body of a module at most once.            *)
THEOREM BodiesRunOnce == Spec => []BodyOnce
<1>1. ASSUME IndInv PROVE BodyOnce
  <2> SUFFICES ASSUME NEW d \in made
               PROVE  runs[d] <= 1 /\ (def[d].evaluated => runs[d] = 1)
    BY DEF BodyOnce
  <2>1. /\ runs[d] = 0 \/ runs[d] = 1
        /\ def[d].evaluated => runs[d] = 1
    BY <1>1 DEF IndInv, Evaluations, RunsCounted
  <2> QED
    BY <2>1
<1> QED
  BY <1>1, Invariance, PTL

(* eval_mark is set for the modules in progress and for no other.          *)
THEOREM MarksKept == Spec => []MarksMatchStack
<1>1. ASSUME IndInv PROVE MarksMatchStack
  <2> SUFFICES ASSUME NEW d \in made
               PROVE  def[d].mark <=>
                      \E k \in DOMAIN stack : stack[k].m = d /\ InProgress(stack[k])
    BY DEF MarksMatchStack
  <2>1. DOMAIN stack \subseteq Nat
    BY <1>1 DEF IndInv, Loads, TypeOK
  <2> QED
    BY <2>1, <1>1 DEF IndInv, Evaluations, MarkedInProgress, Evaluates
<1> QED
  BY <1>1, Invariance, PTL

(* What runs is linked, and so is all that it requires; and while          *)
(* js_evaluate_module goes on, neither its module nor any of those has     *)
(* been freed, whatever its bodies have called.                            *)
THEOREM LinkedWhenRun == Spec => []LinkedBeforeRun
<1>1. ASSUME IndInv, NEW k \in DOMAIN stack, InProgress(stack[k]),
             NEW d \in {stack[k].m} \cup RequirementsOf(stack[k].m), IsLoaded(d)
      PROVE  def[d].linked /\ source[def[d].name].fault # "link"
  <2>1. d \in made
    BY <1>1 DEF IsLoaded, IndInv, Loads, TypeOK
  <2>2. stack[k].m \in made /\ def[stack[k].m].linked
    BY <1>1 DEF IndInv, Loads, Good, About, Sound, InProgress, Evaluating
  <2>3. def[d].linked
    BY <2>2, <1>1 DEF IndInv, Loads, LinkedIsWhole
  <2> QED
    BY <2>1, <2>3, <1>1 DEF IndInv, Loads, LinkedIsWhole
<1>2. ASSUME IndInv, Placement, Top.op = "evaluate" PROVE Top.m \in Listing
  <2>1. Top.op \in Evaluating
    BY <1>2 DEF Evaluating
  <2>2. /\ Top = stack[Len(stack)] /\ Len(stack) \in DOMAIN stack /\ Len(stack) \in Nat
    BY <2>1, <1>2, EvaluatingTop
  <2>3. \A j \in Len(stack) .. Len(stack) : stack[j].op # "body"
    BY <2>2, <1>2
  <2> QED
    BY <2>1, <2>2, <2>3, <1>2 DEF Placement, Placed, Listed
<1>3. ASSUME IndInv, Placement, Top.op = "evaluate", InProgress(Top),
             NEW d \in RequirementsOf(Top.m)
      PROVE  IsLoaded(d)
  <2>1. Top.op \in Evaluating
    BY <1>3 DEF Evaluating
  <2>2. /\ Top = stack[Len(stack)] /\ Len(stack) \in DOMAIN stack /\ Len(stack) \in Nat
        /\ Top.m \in made /\ def[Top.m].linked
    BY <2>1, <1>3, EvaluatingTop
  <2>3. ~def[Top.m].evaluated
    BY <2>2, <1>3 DEF IndInv, Evaluations, NotYetEvaluated, Evaluates
  <2>4. d \in Listing
    BY <2>2, <2>3, <1>2, <1>3 DEF Placement, Whole, RequirementsOf
  <2> QED
    BY <2>4 DEF Listing
<1>4. ASSUME IndInv, Placement PROVE LinkedBeforeRun
  BY <1>1, <1>2, <1>3, <1>4 DEF LinkedBeforeRun, Listing
<1> QED
  BY <1>4, Invariance, PlacementInvariance, PTL

(* A call of JS_EvalFunction reports success only for a module that was    *)
(* evaluated without an error or is in progress further out, and a body    *)
(* starts only after those of all requirements that are loaded.            *)
THEOREM SuccessReported == Spec => SuccessMeansEvaluated
<1>1. ASSUME IndInv, NEW k \in Nat, NEW x, Fulfilled(stack, made, def, k, x)
      PROVE  Settled(x)
  BY <1>1 DEF Settled, Fulfilled, IndInv, Evaluations, MarkedInProgress
<1>2. ASSUME IndInv, At("JS_EvalFunction", 1), ret.st = "ok"
      PROVE  Settled(Top.m)
  <2>1. Fulfilled(stack, made, def, Len(stack), Top.m)
    BY <1>2 DEF IndInv, Evaluations, OkMeansFulfilled, At
  <2>2. Len(stack) \in Nat
    BY <1>2 DEF IndInv, Loads, TypeOK
  <2> QED
    BY <2>1, <2>2, <1>1, <1>2
<1>3. ASSUME IndInv, BodyStarts, NEW d \in RequirementsOf(Top.m)
      PROVE  Settled(d)
  <2>1. Top.op = "evaluate" /\ Top.op \in Evaluating /\ Top.i = Len(def[Top.m].req) + 1
    BY <1>3 DEF BodyStarts, AtEnd, Evaluating
  <2>2. /\ Top = stack[Len(stack)] /\ Len(stack) \in Nat /\ Len(stack) \in DOMAIN stack
        /\ def[Top.m] \in Definition
    BY <2>1, <1>3, EvaluatingTop
  <2>3. PICK j \in DOMAIN def[Top.m].req : d = def[Top.m].req[j]
    BY <1>3 DEF RequirementsOf
  <2>4. j < Top.i
    <3>1. def[Top.m].req \in Seq(Def \cup {NoDef})
      BY <2>2 DEF Definition
    <3> QED
      BY <3>1, <2>1
  <2>5. Fulfilled(stack, made, def, Len(stack), d)
    BY <2>1, <2>2, <2>3, <2>4, <1>3 DEF IndInv, Evaluations, RequirementsFulfilled
  <2> QED
    BY <2>2, <2>5, <1>1, <1>3
<1>4. ASSUME IndInv
      PROVE  /\ At("JS_EvalFunction", 1) /\ ret.st = "ok" /\ IsLoaded(Top.m) => Settled(Top.m)
             /\ BodyStarts =>
                   \A d \in RequirementsOf(Top.m) : IsLoaded(d) => Settled(d)
  BY <1>2, <1>3, <1>4
<1> QED
  BY <1>4, Invariance, PTL DEF SuccessMeansEvaluated
=============================================================================
