------------------------------- MODULE Modules -------------------------------
(***************************************************************************)
(* The module loader of QuickJS (quickjs.c 27035-28350 and 33517-33685) as *)
(* the wrapper and the customised functions std.loadModule and             *)
(* std.evalModule use it.  The functions of the loader call each other     *)
(* recursively; stack is their call stack, and a step is what happens      *)
(* between two calls.  The body of a module is a script: it may make any   *)
(* of the calls itself, through std.loadModule, or through a Java callback *)
(* whose inner job loop runs the job of an import().                       *)
(*                                                                         *)
(* A name stands for a file.  A JSModuleDef is made for it each time it is *)
(* compiled: by the loader when no module of that name is in the list, by  *)
(* JS_Eval and JS_ReadObject whether there is one or not.  Which files     *)
(* there are, what they require, and whether they can be loaded and linked *)
(* is chosen in the beginning.                                             *)
(***************************************************************************)
EXTENDS Integers, Sequences, FiniteSets

CONSTANTS
    Name,       \* the names of modules
    Sources,    \* what the files may be: the requirements of each name, and
                \* what is wrong with it, if anything
    Def,        \* the module definitions (JSModuleDef) that get made
    NoDef,      \* no definition
    MaxCalls    \* bound: calls from scripts or from Java in progress at a time

Fault  == {"none", "load", "link"}
Source == [requires : Seq(Name), fault : Fault]

ASSUME ModulesAssumption ==
    /\ IsFiniteSet(Name) /\ IsFiniteSet(Def) /\ NoDef \notin Def
    /\ \A s \in Sources : DOMAIN s = Name /\ \A n \in Name : s[n] \in Source
    /\ MaxCalls \in Nat \ {0}

VARIABLES
    source,     \* the files
    def,        \* the definitions made so far; a freed one stays as it was
    made,       \* which they are
    loaded,     \* ctx->loaded_modules: the definitions in the list, by their places;
                \* the place of one that was freed stays empty
    stack,      \* the calls in progress, the innermost last
    ret,        \* what the call that has just ended returned
    runs,       \* history: how often the body of a definition was started
    wild        \* whether a pointer that is NULL or to a freed definition was used

vars == <<source, def, made, loaded, stack, ret, runs, wild>>

(* func_created and instantiated are set together (see Link).              *)
Definition == [name : Name, req : Seq(Def \cup {NoDef}), resolved : BOOLEAN,
               linked : BOOLEAN, evaluated : BOOLEAN, mark : BOOLEAN, failed : BOOLEAN]

(* The calls from outside, by their C functions or methods; the loader's   *)
(* own; and the body of a module.  i is where the call has got to.         *)
Outer == {"JS_Eval", "JS_RunModule", "compile", "execute"}
Frame == [op : Outer \cup {"load", "resolve", "JS_EvalFunction", "evaluate", "body"},
          m : Def \cup {NoDef}, i : Nat]

Ret == [st : {"none", "ok", "throw"}, m : Def \cup {NoDef}]

IsLoaded(d) == \E k \in DOMAIN loaded : loaded[k] = d

(* Every variable has its type; the list holds definitions that were made, *)
(* each of them once.                                                      *)
TypeOK ==
    /\ DOMAIN source = Name /\ \A n \in Name : source[n] \in Source
    /\ made \subseteq Def
    /\ def \in [Def -> Definition \cup {NoDef}] /\ \A d \in made : def[d] \in Definition
    /\ DOMAIN loaded \subseteq 1 .. Cardinality(made)
    /\ \A k \in DOMAIN loaded : loaded[k] \in made
    /\ \A j, k \in DOMAIN loaded : loaded[j] = loaded[k] => j = k
    /\ stack \in Seq(Frame)
    /\ ret \in Ret
    /\ runs \in [Def -> Nat]
    /\ wild \in BOOLEAN

Nothing == [st |-> "none", m |-> NoDef]

NewDef(n) ==
    [name |-> n, req |-> [i \in DOMAIN source[n].requires |-> NoDef], resolved |-> FALSE,
     linked |-> FALSE, evaluated |-> FALSE, mark |-> FALSE, failed |-> FALSE]

Init ==
    /\ source \in Sources
    /\ def = [d \in Def |-> NoDef] /\ made = {} /\ loaded = <<>>
    /\ stack = <<>> /\ ret = Nothing
    /\ runs = [d \in Def |-> 0] /\ wild = FALSE

---------------------------------------------------------------------------
Call(op, m) == [op |-> op, m |-> m, i |-> 0]

(* The innermost call, and those around it.                                *)
Top    == IF stack = <<>> THEN Call("outside", NoDef) ELSE stack[Len(stack)]
Below  == SubSeq(stack, 1, Len(stack) - 1)

(* The innermost call is one of op, and has got to i; or to one of the     *)
(* requirements of its module, with st as what the call it has made for it *)
(* has returned, if it has made one; or it is through with them.           *)
At(op, i) == ~wild /\ Top.op = op /\ Top.i = i

AtRequirement(op, st) ==
    ~wild /\ Top.op = op /\ Top.i \in DOMAIN def[Top.m].req /\ ret.st = st

AtEnd(op) == ~wild /\ Top.op = op /\ Top.i = Len(def[Top.m].req) + 1

(* It goes on at i, having called f.                                       *)
Calls(i, f) == stack' = Append(Append(Below, [Top EXCEPT !.i = i]), f) /\ ret' = Nothing
GoesOn(i)   == stack' = Append(Below, [Top EXCEPT !.i = i]) /\ ret' = Nothing
Returns(st) == stack' = Below /\ ret' = [st |-> st, m |-> Top.m]

(* A pointer that is not valid is used: what follows is undefined.         *)
GoesWild == wild' = TRUE /\ UNCHANGED <<source, def, made, loaded, stack, ret, runs>>

(* list_add_tail: a place behind all the others.                           *)
AddTail(d) ==
    LET place == Cardinality(made) + 1
    IN  loaded' = [k \in DOMAIN loaded \cup {place} |-> IF k = place THEN d ELSE loaded[k]]

(* js_new_module_def: the new definition is the last of the list.          *)
Make(n, d) ==
    /\ d \notin made /\ d = CHOOSE x \in Def \ made : TRUE
    /\ made' = made \cup {d}
    /\ def' = [def EXCEPT ![d] = NewDef(n)]
    /\ AddTail(d)

(* The list without the definitions at the places P.                       *)
Unlink(P) == loaded' = [k \in DOMAIN loaded \ P |-> loaded[k]]

(* js_free_module_def                                                      *)
Free(d) == Unlink({k \in DOMAIN loaded : loaded[k] = d})

(* js_free_modules                                                         *)
FreeNotResolved  == Unlink({k \in DOMAIN loaded : ~def[loaded[k]].resolved})
FreeNotEvaluated == Unlink({k \in DOMAIN loaded : ~def[loaded[k]].evaluated})

(* js_find_loaded_module: the first of that name, if there is one.         *)
Named(n) == {k \in DOMAIN loaded : def[loaded[k]].name = n}
Found(n) == {loaded[k] : k \in {i \in Named(n) : \A j \in Named(n) : i <= j}}

---------------------------------------------------------------------------
(* The calls.  A script makes them from the body of a module, or from the  *)
(* outside of all modules.                                                 *)

ScriptRuns ==
    /\ ~wild
    /\ Top.op \in {"outside", "body"}
    /\ Cardinality({k \in DOMAIN stack : stack[k].op \in Outer}) < MaxCalls

(* There are definitions left for whatever the call may load.              *)
Room(n) == Cardinality(Def \ made) > Cardinality({x \in Name \ {n} : Named(x) = {}})

(* JS_Eval of a module (evaluateModule, std.loadModule, std.evalModule),   *)
(* compile, and the JS_ReadObject of execute, whose byte code may have     *)
(* been compiled elsewhere.                                                *)
Start(op, n, d) ==
    /\ ScriptRuns /\ Room(n) /\ source[n].fault # "load"
    /\ Make(n, d)
    /\ stack' = Append(stack, Call(op, d))
    /\ ret' = Nothing
    /\ UNCHANGED <<source, runs, wild>>

(* import(): js_dynamic_import_job calls JS_RunModule, which looks the     *)
(* module up or has it loaded.                                             *)
ImportFound(n) ==
    /\ ScriptRuns
    /\ \E d \in Found(n) : stack' = Append(stack, [Call("JS_RunModule", d) EXCEPT !.i = 1])
    /\ ret' = Nothing
    /\ UNCHANGED <<source, def, made, loaded, runs, wild>>

ImportLoads(n, d) ==
    /\ ScriptRuns /\ Room(n) /\ Named(n) = {} /\ source[n].fault # "load"
    /\ Make(n, d)
    /\ stack' = Append(Append(stack, Call("JS_RunModule", d)), Call("load", d))
    /\ ret' = Nothing
    /\ UNCHANGED <<source, runs, wild>>

(* __JS_EvalInternal resolves what it has compiled.                        *)
Compiled(op) ==
    /\ At(op, 0) /\ op \in {"load", "compile", "JS_Eval", "execute"}
    /\ Calls(1, Call("resolve", Top.m))
    /\ UNCHANGED <<source, def, made, loaded, runs, wild>>

(* It frees the module if that failed; JS_ResolveModule (execute) frees    *)
(* the modules that are not resolved.                                      *)
ResolveFailed(op) ==
    /\ At(op, 1) /\ op \in {"load", "compile", "JS_Eval", "execute"} /\ ret.st = "throw"
    /\ IF op = "execute" THEN FreeNotResolved ELSE Free(Top.m)
    /\ Returns("throw")
    /\ UNCHANGED <<source, def, made, runs, wild>>

(* The loader and compile are done; the others run the module.             *)
ResolveDone(op) ==
    /\ At(op, 1) /\ ret.st = "ok"
    /\ \/ op \in {"load", "compile"} /\ Returns("ok")
       \/ op \in {"JS_Eval", "execute"} /\ Calls(2, Call("JS_EvalFunction", Top.m))
    /\ UNCHANGED <<source, def, made, loaded, runs, wild>>

(* JS_RunModule: load, resolve, run.                                       *)
RunLoaded ==
    /\ At("JS_RunModule", 0)
    /\ \/ ret.st = "ok" /\ GoesOn(1)
       \/ ret.st = "throw" /\ Returns("throw")
    /\ UNCHANGED <<source, def, made, loaded, runs, wild>>

RunResolves ==
    /\ At("JS_RunModule", 1) /\ ret.st = "none"
    /\ Calls(1, Call("resolve", Top.m))
    /\ UNCHANGED <<source, def, made, loaded, runs, wild>>

RunResolved ==
    /\ At("JS_RunModule", 1) /\ ret.st # "none"
    /\ \/ ret.st = "ok" /\ Calls(2, Call("JS_EvalFunction", Top.m)) /\ UNCHANGED loaded
       \/ ret.st = "throw" /\ FreeNotResolved /\ Returns("throw")
    /\ UNCHANGED <<source, def, made, runs, wild>>

CallDone(op) ==
    /\ At(op, 2) /\ op \in Outer
    /\ Returns(ret.st)
    /\ UNCHANGED <<source, def, made, loaded, runs, wild>>

---------------------------------------------------------------------------
(* js_resolve_module.  resolved is set before the requirements are looked  *)
(* at, which ends the recursion for modules that require each other.       *)
ResolveBegin ==
    /\ At("resolve", 0)
    /\ IF def[Top.m].resolved THEN Returns("ok") /\ UNCHANGED def
       ELSE /\ GoesOn(1)
            /\ def' = [def EXCEPT ![Top.m].resolved = TRUE]
    /\ UNCHANGED <<source, made, loaded, runs, wild>>

Required(f) == source[def[f.m].name].requires[f.i]

(* Fault: a module that is loaded is put into the list again.              *)
ResolveFound_Lists ==
    /\ AtRequirement("resolve", "none")
    /\ \E d \in Found(Required(Top)) :
           /\ def' = [def EXCEPT ![Top.m].req[Top.i] = d]
           /\ AddTail(d)
           /\ Calls(Top.i, Call("resolve", d))
    /\ UNCHANGED <<source, made, runs, wild>>

(* js_host_resolve_imported_module: a module of that name that is loaded,  *)
(* or js_module_loader.                                                    *)
ResolveFound ==
    /\ AtRequirement("resolve", "none")
    /\ \E d \in Found(Required(Top)) :
           /\ def' = [def EXCEPT ![Top.m].req[Top.i] = d]
           /\ Calls(Top.i, Call("resolve", d))
    /\ UNCHANGED <<source, made, loaded, runs, wild>>

ResolveLoads(d) ==
    /\ AtRequirement("resolve", "none")
    /\ Named(Required(Top)) = {} /\ source[Required(Top)].fault # "load"
    /\ Make(Required(Top), d)
    /\ Calls(Top.i, Call("load", d))
    /\ UNCHANGED <<source, runs, wild>>

ResolveNotFound ==
    /\ AtRequirement("resolve", "none")
    /\ Named(Required(Top)) = {} /\ source[Required(Top)].fault = "load"
    /\ Returns("throw")
    /\ UNCHANGED <<source, def, made, loaded, runs, wild>>

ResolveNext ==
    /\ AtRequirement("resolve", "ok")
    /\ def' = [def EXCEPT ![Top.m].req[Top.i] = ret.m]
    /\ GoesOn(Top.i + 1)
    /\ UNCHANGED <<source, made, loaded, runs, wild>>

ResolveThrows ==
    /\ AtRequirement("resolve", "throw")
    /\ Returns("throw")
    /\ UNCHANGED <<source, def, made, loaded, runs, wild>>

ResolveEnds ==
    /\ AtEnd("resolve")
    /\ Returns("ok")
    /\ UNCHANGED <<source, def, made, loaded, runs, wild>>

---------------------------------------------------------------------------
RequirementsOf(d) == {def[d].req[i] : i \in DOMAIN def[d].req}

(* What js_create_module_function and js_link_module come to from m: they  *)
(* go on to the requirements of the modules that are not linked yet.       *)
GoesOnFrom(S) ==
    \A d \in S : IsLoaded(d) /\ ~def[d].linked => RequirementsOf(d) \subseteq S

Reached(m) ==
    {d \in Def \cup {NoDef} :
        \A S \in SUBSET (Def \cup {NoDef}) : m \in S /\ GoesOnFrom(S) => d \in S}

ToLink(m) == {d \in Reached(m) : ~IsLoaded(d) \/ ~def[d].linked}

(* Fault: the modules that were not evaluated stay.                        *)
LinkFails_Keeps ==
    /\ At("JS_EvalFunction", 0)
    /\ \A d \in ToLink(Top.m) : IsLoaded(d)
    /\ \E d \in ToLink(Top.m) : source[def[d].name].fault = "link"
    /\ def' = [d \in Def |-> IF d \in ToLink(Top.m) THEN [def[d] EXCEPT !.linked = TRUE]
                             ELSE def[d]]
    /\ Returns("throw")
    /\ UNCHANGED <<source, made, loaded, runs, wild>>

(* JS_EvalFunctionInternal links the module and its requirements.  No      *)
(* script runs meanwhile, and if it fails all the modules it has come to   *)
(* are freed, as they are not evaluated: it is one step.                   *)
LinkFails ==
    /\ At("JS_EvalFunction", 0)
    /\ \A d \in ToLink(Top.m) : IsLoaded(d)
    /\ \E d \in ToLink(Top.m) : source[def[d].name].fault = "link"
    /\ FreeNotEvaluated
    /\ Returns("throw")
    /\ UNCHANGED <<source, def, made, runs, wild>>

Link ==
    /\ At("JS_EvalFunction", 0)
    /\ \A d \in ToLink(Top.m) : IsLoaded(d) /\ source[def[d].name].fault # "link"
    /\ def' = [d \in Def |-> IF d \in ToLink(Top.m) THEN [def[d] EXCEPT !.linked = TRUE]
                             ELSE def[d]]
    /\ Calls(1, Call("evaluate", Top.m))
    /\ UNCHANGED <<source, made, loaded, runs, wild>>

LinkWild ==
    /\ At("JS_EvalFunction", 0)
    /\ \E d \in ToLink(Top.m) : ~IsLoaded(d)
    /\ GoesWild

(* ... and evaluates it.                                                   *)
EvalFunctionEnds ==
    /\ At("JS_EvalFunction", 1)
    /\ IF ret.st = "throw" THEN FreeNotEvaluated ELSE UNCHANGED loaded
    /\ Returns(ret.st)
    /\ UNCHANGED <<source, def, made, runs, wild>>

---------------------------------------------------------------------------
(* Fault: a module that was evaluated is fine, whatever came of it.        *)
EvaluateBegin_Forgets ==
    /\ At("evaluate", 0)
    /\ LET d == def[Top.m]
       IN  IF d.mark \/ d.evaluated THEN Returns("ok") /\ UNCHANGED def
           ELSE /\ GoesOn(1)
                /\ def' = [def EXCEPT ![Top.m].mark = TRUE]
    /\ UNCHANGED <<source, made, loaded, runs, wild>>

(* Fault: a module that was evaluated is evaluated again.                  *)
EvaluateBegin_Again ==
    /\ At("evaluate", 0)
    /\ IF def[Top.m].mark THEN Returns("ok") /\ UNCHANGED def
       ELSE /\ GoesOn(1)
            /\ def' = [def EXCEPT ![Top.m].mark = TRUE]
    /\ UNCHANGED <<source, made, loaded, runs, wild>>

(* js_evaluate_module.  A module in progress is left alone; one that was   *)
(* evaluated gives its result again.                                       *)
EvaluateBegin ==
    /\ At("evaluate", 0)
    /\ LET d == def[Top.m]
       IN  IF d.mark THEN Returns("ok") /\ UNCHANGED def
           ELSE IF d.evaluated
           THEN Returns(IF d.failed THEN "throw" ELSE "ok") /\ UNCHANGED def
           ELSE /\ GoesOn(1)
                /\ def' = [def EXCEPT ![Top.m].mark = TRUE]
    /\ UNCHANGED <<source, made, loaded, runs, wild>>

(* What it looks at next is there: linking has seen to that, and a body    *)
(* whose calls free modules is itself one of the modules they free.        *)
(* LinkedBeforeRun says that this is always so.                            *)
Valid(d) == IsLoaded(Top.m) /\ IsLoaded(d)

(* Fault: a requirement in progress is waited for.                         *)
EvaluateRequirement_Waits ==
    /\ AtRequirement("evaluate", "none")
    /\ LET d == def[Top.m].req[Top.i]
       IN  /\ Valid(d)
           /\ ~def[d].mark
           /\ Calls(Top.i, Call("evaluate", d))
    /\ UNCHANGED <<source, def, made, loaded, runs, wild>>

EvaluateRequirement ==
    /\ AtRequirement("evaluate", "none")
    /\ LET d == def[Top.m].req[Top.i]
       IN  /\ Valid(d)
           /\ IF def[d].mark THEN GoesOn(Top.i + 1) ELSE Calls(Top.i, Call("evaluate", d))
    /\ UNCHANGED <<source, def, made, loaded, runs, wild>>

(* Fault: the mark is left when a requirement fails.                       *)
EvaluateNext_KeepsMark ==
    /\ AtRequirement("evaluate", "ok") \/ AtRequirement("evaluate", "throw")
    /\ IsLoaded(Top.m)
    /\ IF ret.st = "ok" THEN GoesOn(Top.i + 1) ELSE Returns("throw")
    /\ UNCHANGED <<source, def, made, loaded, runs, wild>>

EvaluateNext ==
    /\ AtRequirement("evaluate", "ok") \/ AtRequirement("evaluate", "throw")
    /\ IsLoaded(Top.m)
    /\ IF ret.st = "ok" THEN GoesOn(Top.i + 1) /\ UNCHANGED def
       ELSE Returns("throw") /\ def' = [def EXCEPT ![Top.m].mark = FALSE]
    /\ UNCHANGED <<source, made, loaded, runs, wild>>

(* The body of the module starts.                                          *)
BodyStarts ==
    /\ AtEnd("evaluate")
    /\ IsLoaded(Top.m)
    /\ stack' = Append(Below, Call("body", Top.m))
    /\ ret' = Nothing
    /\ runs' = [runs EXCEPT ![Top.m] = @ + 1]
    /\ UNCHANGED <<source, def, made, loaded, wild>>

(* It comes to its end, or throws, perhaps what a call has thrown.         *)
BodyEnds(throws) ==
    /\ At("body", 0) /\ IsLoaded(Top.m)
    /\ def' = [def EXCEPT ![Top.m].mark = FALSE, ![Top.m].evaluated = TRUE,
                          ![Top.m].failed = throws]
    /\ Returns(IF throws THEN "throw" ELSE "ok")
    /\ UNCHANGED <<source, made, loaded, runs, wild>>

(* The module was freed while its body ran.                                *)
BodyEndsWild ==
    /\ At("body", 0) /\ ~IsLoaded(Top.m)
    /\ GoesWild

---------------------------------------------------------------------------
ScriptCalls ==
    \/ \E op \in {"JS_Eval", "compile", "execute"}, n \in Name, d \in Def : Start(op, n, d)
    \/ \E n \in Name : ImportFound(n) \/ \E d \in Def : ImportLoads(n, d)

Loader ==
    \/ \E op \in {"load", "JS_Eval", "compile", "execute"} :
          Compiled(op) \/ ResolveFailed(op) \/ ResolveDone(op)
    \/ RunLoaded \/ RunResolves \/ RunResolved
    \/ \E op \in Outer : CallDone(op)
    \/ ResolveBegin \/ ResolveFound \/ ResolveNotFound \/ ResolveNext
    \/ ResolveThrows \/ ResolveEnds
    \/ \E d \in Def : ResolveLoads(d)
    \/ Link \/ LinkFails \/ LinkWild \/ EvalFunctionEnds
    \/ EvaluateBegin \/ EvaluateRequirement \/ EvaluateNext \/ BodyStarts

ScriptEnds == BodyEndsWild \/ \E throws \in BOOLEAN : BodyEnds(throws)

Next == ScriptCalls \/ Loader \/ ScriptEnds

(* The loader goes on by itself, and the body of a module does not run for *)
(* ever, whatever it calls.                                                *)
Spec == Init /\ [][Next]_vars /\ WF_vars(Loader) /\ SF_vars(ScriptEnds)

---------------------------------------------------------------------------
InProgress(f) == f.op = "body" \/ (f.op = "evaluate" /\ f.i > 0)

(* The body of a module runs once, however often it is required, imported  *)
(* in its own body, or required by a module that it requires; and a module *)
(* that was evaluated has run.                                             *)
BodyOnce ==
    \A d \in made : /\ runs[d] <= 1
                    /\ def[d].evaluated => runs[d] = 1

(* eval_mark is set for the modules in progress and for no other.  That is *)
(* how js_evaluate_module knows a module that it must not wait for, while  *)
(* calls are in progress and also when errors pass through them.  (When a  *)
(* call has failed nobody sees its marks again: what is not evaluated is   *)
(* freed right after it.)                                                  *)
MarksMatchStack ==
    \A d \in made : IsLoaded(d) =>
        (def[d].mark <=> \E k \in DOMAIN stack : stack[k].m = d /\ InProgress(stack[k]))

(* A module runs only when it is linked and all that it requires is, after *)
(* any number of attempts that failed in the middle; and whenever          *)
(* js_evaluate_module goes on, none of these has been freed.               *)
LinkedBeforeRun ==
    /\ \A k \in DOMAIN stack : InProgress(stack[k]) =>
          \A d \in {stack[k].m} \cup RequirementsOf(stack[k].m) :
              IsLoaded(d) => def[d].linked /\ source[def[d].name].fault # "link"
    /\ Top.op = "evaluate" =>
          /\ IsLoaded(Top.m)
          /\ InProgress(Top) => \A d \in RequirementsOf(Top.m) : IsLoaded(d)

(* A call reports success for a module only when the module has been       *)
(* evaluated without an error, or is in progress further out; and its body *)
(* has not started before each of its requirements was.                    *)
Settled(d) == (def[d].evaluated /\ ~def[d].failed) \/ def[d].mark

SuccessMeansEvaluated ==
    [][/\ At("JS_EvalFunction", 1) /\ ret.st = "ok" /\ IsLoaded(Top.m) => Settled(Top.m)
       /\ BodyStarts =>
             \A d \in RequirementsOf(Top.m) : IsLoaded(d) => Settled(d)]_vars

(* A call comes to its end, in whatever circles modules require each       *)
(* other, unless it uses a pointer that is not valid.                      *)
CallsEnd == (stack # <<>>) ~> (stack = <<>> \/ wild)

(* "Load all the required modules for module 'm'", says js_resolve_module: *)
(* when no call is in progress, what the modules of the list require is in *)
(* the list, whatever has failed before.  This does not hold.              *)
RequirementsLoaded ==
    stack = <<>> => \A d \in made : IsLoaded(d) =>
                        \A x \in RequirementsOf(d) : IsLoaded(x)
=============================================================================
