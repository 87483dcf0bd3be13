--------------------------- MODULE PromisesProofs ---------------------------
(***************************************************************************)
(* Proofs about Promises, for any number of promises, reactions, pairs of  *)
(* resolving functions and handlers in progress.                           *)
(*                                                                         *)
(* The parts of the invariant are operators of the promises ps, the open   *)
(* pairs op, the jobs jb, the pairs made pr and the reactions started st,  *)
(* since the actions put several changes of these together.                *)
(***************************************************************************)
EXTENDS Promises, FiniteSetTheorems, TLAPS

(* The jobs of the reactions of p.                                         *)
Mine(jb, p) == {i \in DOMAIN jb : jb[i].type = "reaction" /\ jb[i].src = p}

(* The calls of then that are queued.                                      *)
CallIndex(jb) == {i \in DOMAIN jb : jb[i].type = "thenable"}
Calls(jb)     == {<<jb[i].to, jb[i].arg>> : i \in CallIndex(jb)}

(* The reactions that are not started, with the promise they react to:     *)
(* settling a promise makes no difference to them.                         *)
WaitsOf(ps, jb, p) ==
    {<<p, jb[i].rx>> : i \in Mine(jb, p)}
        \cup {<<p, ps[p].reactions[i]>> : i \in DOMAIN ps[p].reactions}

Waits(ps, jb) == UNION {WaitsOf(ps, jb, p) : p \in Promise}

(* ReactionsInOrder for p, with the first number before the last.          *)
Last(ps, p) == ps[p].count - Len(ps[p].reactions)

InOrder(ps, jb, st, p) ==
    /\ st[p] <= Last(ps, p)
    /\ \A i \in Mine(jb, p) : st[p] < jb[i].rx.id /\ jb[i].rx.id <= Last(ps, p)
    /\ \A i, k \in Mine(jb, p) : i < k => jb[i].rx.id < jb[k].rx.id
    /\ \A n \in st[p] + 1 .. Last(ps, p) : \E i \in Mine(jb, p) : jb[i].rx.id = n
    /\ \A i \in 1 .. Len(ps[p].reactions) : ps[p].reactions[i].id = Last(ps, p) + i
    /\ ps[p].state \notin Settled => Mine(jb, p) = {}
    /\ ps[p].state # "pending" => ps[p].reactions = <<>>
    /\ \A i \in Mine(jb, p) : /\ jb[i].reject = (ps[p].state = "rejected")
                              /\ jb[i].arg = ps[p].result

(* What a list of jobs is good for: the types, the order, and no promise   *)
(* with two calls of then.                                                 *)
Good(ps, jb, st) ==
    /\ ps \in [Promise -> PromiseData] /\ jb \in Seq(Job) /\ st \in [Promise -> Nat]
    /\ \A p \in Promise : InOrder(ps, jb, st, p)
    /\ \A i, k \in CallIndex(jb) : jb[i].to = jb[k].to => i = k

(* A promise that is pending can be settled in one way: by the pair made   *)
(* last, or by the call of then that is queued; another promise in none.   *)
Way(ps, op, jb, pr, p) ==
    /\ (ps[p].state = "none") <=> (pr[p] = 0)
    /\ \A g \in 0 .. MaxGen : <<p, g>> \in op => g = pr[p] - 1 /\ ps[p].state = "pending"
    /\ \A c \in Calls(jb) : c[1] = p => /\ ps[p].state = "pending" /\ pr[p] <= MaxGen
                                        /\ \A g \in 0 .. MaxGen : <<p, g>> \notin op
    /\ ps[p].state = "pending" =>
          <<p, pr[p] - 1>> \in op \/ \E c \in Calls(jb) : c[1] = p
    /\ ps[p].state = "fulfilled" => ps[p].result \notin Promise \cup {Thenable}
    /\ ps[p].state \in Settled => ps[p].result # NoValue

Ways(ps, op, jb, pr) ==
    /\ pr \in [Promise -> 0 .. MaxGen + 1]
    /\ op \subseteq Pair
    /\ \A p \in Promise : Way(ps, op, jb, pr, p)

(* What a promise was made by stays what it settles by: the pair of a      *)
(* combinator is called by the reactions of its elements only.             *)
Ordinary(p) == Exists(p) /\ allOf[p].kind = "none"

Fits(rx) ==
    /\ Exists(rx.to)
    /\ rx.kind \in {"then", "adopt"} => allOf[rx.to].kind = "none"
    /\ rx.kind \in Combinator => allOf[rx.to].kind = rx.kind

Roles ==
    /\ \A w \in Waits(promise, jobs) : Exists(w[1]) /\ Fits(w[2])
    /\ \A c \in Calls(jobs) : Ordinary(c[1]) /\ (c[2] \in Promise => Exists(c[2]))
    /\ \A i \in DOMAIN stack : stack[i].type = "reaction" /\ Ordinary(stack[i].rx.to)
    /\ \A x \in exposed : Ordinary(x[1])
    /\ \A p \in Promise : async[p] # "none" => Ordinary(p)
    /\ \A p \in Promise : ~Exists(p) => allOf[p] = NoAll

(* Exactly one reaction will resume a function that waits.                 *)
Awaits(w, q) == w[2].kind = "await" /\ w[2].to = q

OneAwait ==
    \A q \in Promise :
        /\ async[q] # "suspended" => \A w \in Waits(promise, jobs) : ~Awaits(w, q)
        /\ async[q] = "suspended" => \E w \in Waits(promise, jobs) : Awaits(w, q)
        /\ \A w, x \in Waits(promise, jobs) : Awaits(w, q) /\ Awaits(x, q) => w = x

(* The environment a of the combinator r.  An element whose value is       *)
(* missing may have a reaction left, unless its then method is its own;    *)
(* the values there are those of the functions called; the count is that   *)
(* of the missing values, and one more after an error.                     *)
Counted == {"all", "allSettled", "any"}

Missing(a) == {p \in a.of : a.values[p] = NoValue}

GoodEnd(a) == IF a.kind = "any" THEN "rejected" ELSE "fulfilled"

For(w, a, r) == w[2].kind = a.kind /\ w[2].to = r

Linked(a, r, W) ==
    /\ \A w \in W : For(w, a, r) => w[1] \in Missing(a) /\ w[1] \notin Own
    /\ \A w, x \in W : For(w, a, r) /\ For(x, a, r) /\ w[1] = x[1] => w = x

Booked(a) ==
    /\ \A x \in a.called : IsElement(a.kind, x[2])
    /\ \A p \in a.of : a.values[p] # NoValue <=> \E b \in BOOLEAN : <<p, b>> \in a.called
    /\ ~Twice(a) => a.remaining = Cardinality(Missing(a)) + (IF a.failed THEN 1 ELSE 0)

Placed(a, ps) ==
    \A p \in a.of \ Own : a.values[p] # NoValue =>
        /\ ps[p].state \in Settled
        /\ a.kind # "allSettled" => ps[p].state = GoodEnd(a)
        /\ a.values[p] = ps[p].result

EndOf(a, ps, r) ==
    /\ ps[r].result = Array /\ ps[r].state = GoodEnd(a) /\ ~Twice(a) =>
          Missing(a) = {} /\ ~a.failed
    /\ ps[r].state \in Settled \ {GoodEnd(a)} /\ a.of \cap Own = {} =>
          \E p \in a.of : ps[p].state = ps[r].state /\ ps[p].result = ps[r].result

Elements(r) ==
    /\ Linked(allOf[r], r, Waits(promise, jobs))
    /\ Booked(allOf[r])
    /\ Placed(allOf[r], promise)
    /\ EndOf(allOf[r], promise, r)

Complete == \A r \in Promise : allOf[r].kind \in Counted => Elements(r)

IndInv ==
    /\ TypeOK
    /\ Good(promise, jobs, started)
    /\ Ways(promise, open, jobs, pairs)
    /\ Roles
    /\ OneAwait
    /\ Complete

---------------------------------------------------------------------------
(* The special values are what they are made for.                          *)
LEMMA Constants ==
    /\ TypeErr # NoValue /\ Array # NoValue /\ TypeErr # Thenable /\ Array # Thenable
    /\ TypeErr # Array
    /\ NoValue \notin Result
    /\ {TypeErr, Array} \cap (Promise \cup {Thenable}) = {}
    /\ "none" \notin Combinator
    /\ MaxGen \in Nat /\ 1 <= MaxGen
<1>1. TypeErr # NoValue /\ Array # NoValue /\ TypeErr # Thenable /\ Array # Thenable
      /\ TypeErr # Array
  <2>1. Cardinality({TypeErr, Array, NoValue, Thenable}) = 4
    BY PromisesAssumption
  <2>2. \A a, b, c : Cardinality({a, b, c}) <= 3
    <3> SUFFICES ASSUME NEW a, NEW b, NEW c PROVE Cardinality({a, b, c}) <= 3
      OBVIOUS
    <3>1. IsFiniteSet({a}) /\ Cardinality({a}) = 1
      BY FS_Singleton
    <3>2. IsFiniteSet({a} \cup {b}) /\ Cardinality({a} \cup {b}) <= 2
      BY <3>1, FS_AddElement
    <3>3. Cardinality(({a} \cup {b}) \cup {c}) <= 3
      BY <3>2, FS_AddElement, FS_CardinalityType
    <3>4. {a, b, c} = ({a} \cup {b}) \cup {c}
      OBVIOUS
    <3> QED
      BY <3>3, <3>4
  <2>3. \A a, b, c : {TypeErr, Array, NoValue, Thenable} # {a, b, c}
    <3> SUFFICES ASSUME NEW a, NEW b, NEW c,
                        {TypeErr, Array, NoValue, Thenable} = {a, b, c}
                 PROVE  FALSE
      OBVIOUS
    <3>1. Cardinality({a, b, c}) = 4
      BY <2>1
    <3>2. Cardinality({a, b, c}) <= 3
      BY <2>2
    <3> QED
      BY <3>1, <3>2
  <2> QED
    BY <2>3
<1>2. NoValue \notin Result
  BY <1>1, PromisesAssumption DEF Result, Value
<1> QED
  BY <1>1, <1>2, PromisesAssumption

(* Sequences of jobs.                                                      *)
LEMMA JobFields ==
    ASSUME NEW j \in Job
    PROVE  /\ j.type \in {"reaction", "thenable"}
           /\ j.type = "reaction" => /\ j.src \in Promise /\ j.rx \in Reaction
                                     /\ j.reject \in BOOLEAN /\ j.arg \in Result
           /\ j.type = "thenable" => j.to \in Promise /\ j.arg \in Promise \cup {Thenable}
  BY DEF Job

LEMMA ReactionFields ==
    ASSUME NEW rx \in Reaction
    PROVE  /\ rx.to \in Promise /\ rx.gen \in 0 .. MaxGen /\ rx.id \in Nat
           /\ rx.kind \in {"then", "adopt", "await"} \cup Combinator
  BY DEF Reaction

LEMMA DataFields ==
    ASSUME NEW d \in PromiseData
    PROVE  /\ d.state \in {"none", "pending"} \cup Settled
           /\ d.result \in Result \cup {NoValue}
           /\ d.reactions \in Seq(Reaction)
           /\ d.count \in Nat
  BY DEF PromiseData

(* The jobs u are the jobs s with the jobs t behind them.                  *)
Joined(u, s, t) == s \in Seq(Job) /\ t \in Seq(Job) /\ u = s \o t

LEMMA JoinedTypes ==
    ASSUME NEW s, NEW t, NEW u, Joined(u, s, t)
    PROVE  /\ s \in Seq(Job) /\ t \in Seq(Job) /\ u \in Seq(Job)
           /\ Len(s) \in Nat /\ DOMAIN s = 1 .. Len(s)
  BY DEF Joined

LEMMA JoinedLeft ==
    ASSUME NEW s, NEW t, NEW u, Joined(u, s, t), NEW i \in DOMAIN s
    PROVE  i \in DOMAIN u /\ u[i] = s[i]
  BY DEF Joined

LEMMA JoinedRight ==
    ASSUME NEW s, NEW t, NEW u, Joined(u, s, t), NEW i \in DOMAIN t
    PROVE  Len(s) + i \in DOMAIN u /\ u[Len(s) + i] = t[i]
  BY DEF Joined

LEMMA JoinedSplit ==
    ASSUME NEW s, NEW t, NEW u, Joined(u, s, t), NEW i \in DOMAIN u
    PROVE  \/ i \in DOMAIN s /\ u[i] = s[i]
           \/ i > Len(s) /\ i - Len(s) \in DOMAIN t /\ u[i] = t[i - Len(s)]
  BY DEF Joined

LEMMA Tails ==
    ASSUME NEW s \in Seq(Job), s # <<>>
    PROVE  /\ Tail(s) \in Seq(Job)
           /\ Head(s) = s[1] /\ 1 \in DOMAIN s /\ s[1] \in Job
           /\ DOMAIN Tail(s) = 1 .. Len(s) - 1
           /\ \A i \in DOMAIN Tail(s) : i + 1 \in DOMAIN s /\ Tail(s)[i] = s[i + 1]
           /\ \A i \in DOMAIN s : i # 1 => i - 1 \in DOMAIN Tail(s) /\ Tail(s)[i - 1] = s[i]
  OBVIOUS

LEMMA WaitsSame ==
    ASSUME NEW ps, NEW jb, NEW ns, NEW nj,
           \A p \in Promise : WaitsOf(ns, nj, p) = WaitsOf(ps, jb, p)
    PROVE  Waits(ns, nj) = Waits(ps, jb)
  BY DEF Waits

LEMMA WaitsMore ==
    ASSUME NEW ps, NEW jb, NEW ns, NEW nj, NEW p \in Promise, NEW w,
           \A q \in Promise : q # p => WaitsOf(ns, nj, q) = WaitsOf(ps, jb, q),
           WaitsOf(ns, nj, p) = WaitsOf(ps, jb, p) \cup {w}
    PROVE  Waits(ns, nj) = Waits(ps, jb) \cup {w}
  BY DEF Waits

LEMMA WaitsTypes ==
    ASSUME NEW ps \in [Promise -> PromiseData], NEW jb \in Seq(Job), NEW w \in Waits(ps, jb)
    PROVE  /\ w[1] \in Promise /\ w[2] \in Reaction
           /\ w = <<w[1], w[2]>> /\ w \in WaitsOf(ps, jb, w[1])
<1>1. PICK p \in Promise : w \in WaitsOf(ps, jb, p)
  BY DEF Waits
<1>2. \A i \in Mine(jb, p) : jb[i].rx \in Reaction
  BY JobFields DEF Mine
<1>3. \A i \in DOMAIN ps[p].reactions : ps[p].reactions[i] \in Reaction
  BY DataFields
<1>4. PICK rx \in Reaction : w = <<p, rx>>
  BY <1>1, <1>2, <1>3 DEF WaitsOf
<1> QED
  BY <1>1, <1>4

LEMMA CallsTypes ==
    ASSUME NEW jb \in Seq(Job), NEW c \in Calls(jb)
    PROVE  c[1] \in Promise /\ c[2] \in Promise \cup {Thenable} /\ c = <<c[1], c[2]>>
<1>1. PICK i \in CallIndex(jb) : c = <<jb[i].to, jb[i].arg>>
  BY DEF Calls
<1>2. jb[i].to \in Promise /\ jb[i].arg \in Promise \cup {Thenable}
  BY JobFields DEF CallIndex
<1> QED
  BY <1>1, <1>2

LEMMA MineLeft ==
    ASSUME NEW s, NEW t, NEW u, Joined(u, s, t),
           NEW p, NEW i \in Mine(s, p)
    PROVE  i \in Mine(u, p) /\ u[i] = s[i]
  BY JoinedLeft DEF Mine

LEMMA MineRight ==
    ASSUME NEW s, NEW t, NEW u, Joined(u, s, t),
           NEW p, NEW i \in Mine(t, p)
    PROVE  Len(s) + i \in Mine(u, p) /\ u[Len(s) + i] = t[i]
  BY JoinedRight DEF Mine

LEMMA MineSplit ==
    ASSUME NEW s, NEW t, NEW u, Joined(u, s, t),
           NEW p, NEW i \in Mine(u, p)
    PROVE  \/ i \in Mine(s, p)
           \/ i > Len(s) /\ i - Len(s) \in Mine(t, p) /\ u[i] = t[i - Len(s)]
<1>1. i \in DOMAIN u
  BY DEF Mine
<1>2. \/ i \in DOMAIN s /\ u[i] = s[i]
      \/ i > Len(s) /\ i - Len(s) \in DOMAIN t /\ u[i] = t[i - Len(s)]
  BY <1>1, JoinedSplit
<1> QED
  BY <1>2 DEF Mine

LEMMA MineCatNone ==
    ASSUME NEW s, NEW t, NEW u, Joined(u, s, t),
           NEW p, Mine(t, p) = {}
    PROVE  Mine(u, p) = Mine(s, p) /\ \A i \in Mine(s, p) : u[i] = s[i]
<1>1. \A i \in Mine(s, p) : i \in Mine(u, p) /\ u[i] = s[i]
  BY MineLeft
<1>2. \A i \in Mine(u, p) : i \in Mine(s, p) \/ i - Len(s) \in Mine(t, p)
  BY MineSplit
<1>3. Mine(u, p) = Mine(s, p)
  BY <1>1, <1>2
<1> QED
  BY <1>1, <1>3

LEMMA CallsCatNone ==
    ASSUME NEW s, NEW t, NEW u, Joined(u, s, t), CallIndex(t) = {}
    PROVE  /\ CallIndex(u) = CallIndex(s) /\ \A i \in CallIndex(s) : u[i] = s[i]
           /\ Calls(u) = Calls(s)
<1>1. \A i \in CallIndex(s) : i \in CallIndex(u) /\ u[i] = s[i]
  BY JoinedLeft DEF CallIndex
<1>2. \A i \in CallIndex(u) : i \in CallIndex(s) \/ i - Len(s) \in CallIndex(t)
  <2> SUFFICES ASSUME NEW i \in CallIndex(u)
               PROVE  i \in CallIndex(s) \/ i - Len(s) \in CallIndex(t)
    OBVIOUS
  <2>1. \/ i \in DOMAIN s /\ u[i] = s[i]
        \/ i > Len(s) /\ i - Len(s) \in DOMAIN t /\ u[i] = t[i - Len(s)]
    BY JoinedSplit DEF CallIndex
  <2> QED
    BY <2>1 DEF CallIndex
<1>3. CallIndex(u) = CallIndex(s)
  BY <1>1, <1>2
<1>4. Calls(u) = Calls(s)
  BY <1>1, <1>3 DEF Calls
<1> QED
  BY <1>1, <1>3, <1>4

LEMMA MineTail ==
    ASSUME NEW s \in Seq(Job), s # <<>>, NEW p, NEW i \in Mine(Tail(s), p)
    PROVE  i + 1 \in Mine(s, p) /\ Tail(s)[i] = s[i + 1] /\ i \in Nat /\ i > 0
  BY Tails DEF Mine

LEMMA MineOfTail ==
    ASSUME NEW s \in Seq(Job), s # <<>>, NEW p, NEW i \in Mine(s, p)
    PROVE  i \in Nat /\ (i = 1 \/ (/\ i > 1 /\ i - 1 \in Mine(Tail(s), p)
                                   /\ Tail(s)[i - 1] = s[i]))
  BY Tails DEF Mine

LEMMA CallsTail ==
    ASSUME NEW s \in Seq(Job), s # <<>>
    PROVE  /\ \A i \in CallIndex(Tail(s)) :
                 i + 1 \in CallIndex(s) /\ Tail(s)[i] = s[i + 1] /\ i \in Nat /\ i > 0
           /\ \A i \in CallIndex(s) :
                 i = 1 \/ (i - 1 \in CallIndex(Tail(s)) /\ Tail(s)[i - 1] = s[i])
  BY Tails DEF CallIndex

---------------------------------------------------------------------------
(* The building blocks, field by field.                                    *)
LEMMA CreateFields ==
    ASSUME NEW ps \in [Promise -> PromiseData], NEW q \in Promise
    PROVE  /\ Create(ps, q) \in [Promise -> PromiseData]
           /\ \A p \in Promise : p # q => Create(ps, q)[p] = ps[p]
           /\ Create(ps, q)[q].state = "pending"
           /\ \A p \in Promise : /\ Create(ps, q)[p].result = ps[p].result
                                 /\ Create(ps, q)[p].reactions = ps[p].reactions
                                 /\ Create(ps, q)[p].count = ps[p].count
  BY DEF Create, PromiseData

LEMMA NumberedFields ==
    ASSUME NEW ps \in [Promise -> PromiseData], NEW p \in Promise, NEW rx \in Reaction
    PROVE  /\ Numbered(ps, p, rx) \in Reaction
           /\ Numbered(ps, p, rx).id = ps[p].count + 1
           /\ Numbered(ps, p, rx).kind = rx.kind
           /\ Numbered(ps, p, rx).to = rx.to
<1>1. ps[p].count + 1 \in Nat
  BY DataFields
<1>2. \A n \in Nat : /\ [rx EXCEPT !.id = n] \in Reaction
                     /\ [rx EXCEPT !.id = n].id = n
                     /\ [rx EXCEPT !.id = n].kind = rx.kind
                     /\ [rx EXCEPT !.id = n].to = rx.to
  BY DEF Reaction
<1> QED
  BY <1>1, <1>2 DEF Numbered

LEMMA AddFields ==
    ASSUME NEW ps \in [Promise -> PromiseData], NEW p \in Promise, NEW rx \in Reaction
    PROVE  /\ AddReaction(ps, p, rx) \in [Promise -> PromiseData]
           /\ \A q \in Promise : q # p => AddReaction(ps, p, rx)[q] = ps[q]
           /\ \A q \in Promise : /\ AddReaction(ps, p, rx)[q].state = ps[q].state
                                 /\ AddReaction(ps, p, rx)[q].result = ps[q].result
           /\ AddReaction(ps, p, rx)[p].count = ps[p].count + 1
           /\ AddReaction(ps, p, rx)[p].reactions =
                 IF ps[p].state = "pending"
                 THEN Append(ps[p].reactions, Numbered(ps, p, rx)) ELSE ps[p].reactions
<1> DEFINE n == Numbered(ps, p, rx)
           r == IF ps[p].state = "pending" THEN Append(ps[p].reactions, n) ELSE ps[p].reactions
<1>1. r \in Seq(Reaction) /\ ps[p].count + 1 \in Nat
  <2>1. n \in Reaction
    BY NumberedFields
  <2> QED
    BY <2>1, DataFields
<1>2. \A d \in PromiseData, c \in Nat, s \in Seq(Reaction) :
          [d EXCEPT !.count = c, !.reactions = s] \in PromiseData
  BY DEF PromiseData
<1>3. AddReaction(ps, p, rx)[p] = [ps[p] EXCEPT !.count = ps[p].count + 1, !.reactions = r]
  BY DEF AddReaction, PromiseData
<1>4. AddReaction(ps, p, rx)[p] \in PromiseData
  <2> DEFINE c == ps[p].count + 1
  <2>1. AddReaction(ps, p, rx)[p] = [ps[p] EXCEPT !.count = c, !.reactions = r]
    BY <1>3
  <2>2. c \in Nat /\ r \in Seq(Reaction) /\ ps[p] \in PromiseData
    BY <1>1
  <2> HIDE DEF r, c
  <2>3. [ps[p] EXCEPT !.count = c, !.reactions = r] \in PromiseData
    BY <1>2, <2>2
  <2> QED
    BY <2>1, <2>3
<1>5. /\ DOMAIN AddReaction(ps, p, rx) = Promise
      /\ AddReaction(ps, p, rx) = [q \in Promise |-> AddReaction(ps, p, rx)[q]]
      /\ \A q \in Promise : q # p => AddReaction(ps, p, rx)[q] = ps[q]
  BY DEF AddReaction
<1>6. /\ AddReaction(ps, p, rx)[p].count = ps[p].count + 1
      /\ AddReaction(ps, p, rx)[p].reactions = r
      /\ AddReaction(ps, p, rx)[p].state = ps[p].state
      /\ AddReaction(ps, p, rx)[p].result = ps[p].result
  BY DEF AddReaction, PromiseData
<1>7. AddReaction(ps, p, rx) \in [Promise -> PromiseData]
  BY <1>4, <1>5
<1> QED
  BY <1>5, <1>6, <1>7

LEMMA SettleFields ==
    ASSUME NEW ps \in [Promise -> PromiseData], NEW p \in Promise, NEW v \in Result,
           NEW reject, ps[p].state = "pending"
    PROVE  /\ Settle(ps, p, v, reject) \in [Promise -> PromiseData]
           /\ \A q \in Promise : q # p => Settle(ps, p, v, reject)[q] = ps[q]
           /\ Settle(ps, p, v, reject)[p].state = IF reject THEN "rejected" ELSE "fulfilled"
           /\ Settle(ps, p, v, reject)[p].result = v
           /\ Settle(ps, p, v, reject)[p].reactions = <<>>
           /\ Settle(ps, p, v, reject)[p].count = ps[p].count
<1> DEFINE s == IF reject THEN "rejected" ELSE "fulfilled"
           d == [ps[p] EXCEPT !.state = s, !.result = v, !.reactions = <<>>]
<1>1. s \in {"none", "pending"} \cup Settled /\ v \in Result \cup {NoValue}
      /\ <<>> \in Seq(Reaction)
  BY DEF Settled
<1>2. Settle(ps, p, v, reject) = [ps EXCEPT ![p] = d]
  BY DEF Settle
<1> HIDE DEF s
<1>3. d \in PromiseData
  BY <1>1 DEF PromiseData
<1>4. d.state = s /\ d.result = v /\ d.reactions = <<>> /\ d.count = ps[p].count
  BY DEF PromiseData
<1> HIDE DEF d
<1> QED
  BY <1>2, <1>3, <1>4 DEF s

LEMMA SettleJobsFields ==
    ASSUME NEW ps \in [Promise -> PromiseData], NEW p \in Promise, NEW v \in Result,
           NEW reject, ps[p].state = "pending"
    PROVE  /\ SettleJobs(ps, p, v, reject) \in Seq(Job)
           /\ DOMAIN SettleJobs(ps, p, v, reject) = 1 .. Len(ps[p].reactions)
           /\ \A i \in 1 .. Len(ps[p].reactions) :
                 LET j == SettleJobs(ps, p, v, reject)[i]
                 IN  /\ j.type = "reaction" /\ j.src = p /\ j.rx = ps[p].reactions[i]
                     /\ j.reject = (Settle(ps, p, v, reject)[p].state = "rejected")
                     /\ j.arg = v
<1> DEFINE s == Settle(ps, p, v, reject)
           r == ps[p].reactions
<1>1. r \in Seq(Reaction)
  BY DataFields
<1>2. s[p].result = v
  BY SettleFields
<1>3. SettleJobs(ps, p, v, reject) = [i \in 1 .. Len(r) |-> JobOf(s, p, r[i])]
  BY <1>1 DEF SettleJobs
<1> HIDE DEF s, r
<1>4. \A i \in 1 .. Len(r) :
          /\ JobOf(s, p, r[i]) \in Job
          /\ JobOf(s, p, r[i]).type = "reaction" /\ JobOf(s, p, r[i]).src = p
          /\ JobOf(s, p, r[i]).rx = r[i] /\ JobOf(s, p, r[i]).arg = v
          /\ JobOf(s, p, r[i]).reject = (s[p].state = "rejected")
  BY <1>1, <1>2 DEF JobOf, Job
<1>5. Len(r) \in Nat
  BY <1>1
<1> QED
  BY <1>3, <1>4, <1>5 DEF s, r

LEMMA ThenJobsFields ==
    ASSUME NEW ps \in [Promise -> PromiseData], NEW p \in Promise, NEW rx \in Reaction,
           ps[p].state \in Settled, ps[p].result # NoValue
    PROVE  /\ ThenJobs(ps, p, rx) \in Seq(Job)
           /\ DOMAIN ThenJobs(ps, p, rx) = {1}
           /\ LET j == ThenJobs(ps, p, rx)[1]
              IN  /\ j.type = "reaction" /\ j.src = p /\ j.rx = Numbered(ps, p, rx)
                  /\ j.reject = (ps[p].state = "rejected")
                  /\ j.arg = ps[p].result
<1> DEFINE n == Numbered(ps, p, rx)
<1>1. n \in Reaction /\ ps[p].result \in Result
  BY NumberedFields, DataFields
<1>2. ThenJobs(ps, p, rx) = <<JobOf(ps, p, n)>>
  BY DEF ThenJobs, Settled
<1> HIDE DEF n
<1>3. /\ JobOf(ps, p, n) \in Job
      /\ JobOf(ps, p, n).type = "reaction" /\ JobOf(ps, p, n).src = p
      /\ JobOf(ps, p, n).rx = n /\ JobOf(ps, p, n).arg = ps[p].result
      /\ JobOf(ps, p, n).reject = (ps[p].state = "rejected")
  BY <1>1 DEF JobOf, Job
<1> QED
  BY <1>2, <1>3 DEF n

---------------------------------------------------------------------------
(* The order of a promise depends on its data and its jobs only.           *)
LEMMA OrderSame ==
    ASSUME NEW ps, NEW jb, NEW st, NEW ns, NEW nj, NEW p, InOrder(ps, jb, st, p),
           ns[p] = ps[p], Mine(nj, p) = Mine(jb, p), \A i \in Mine(jb, p) : nj[i] = jb[i]
    PROVE  InOrder(ns, nj, st, p)
<1>1. Last(ns, p) = Last(ps, p)
  BY DEF Last
<1> QED
  BY <1>1 DEF InOrder

(* The building blocks keep the order of the reactions.                    *)
LEMMA GoodCreate ==
    ASSUME NEW ps, NEW jb, NEW st, NEW q \in Promise, Good(ps, jb, st), ps[q].state = "none"
    PROVE  /\ Good(Create(ps, q), jb, st)
           /\ Waits(Create(ps, q), jb) = Waits(ps, jb)
<1> DEFINE ns == Create(ps, q)
<1>1. /\ ps \in [Promise -> PromiseData] /\ ns \in [Promise -> PromiseData]
      /\ \A p \in Promise : p # q => ns[p] = ps[p]
      /\ \A p \in Promise : /\ ns[p].reactions = ps[p].reactions /\ ns[p].count = ps[p].count
                            /\ ns[p].result = ps[p].result
      /\ ns[q].state = "pending"
  <2>1. ps \in [Promise -> PromiseData]
    BY DEF Good
  <2>2. ns \in [Promise -> PromiseData] /\ ns[q].state = "pending"
    BY <2>1, CreateFields
  <2>3. \A p \in Promise : p # q => ns[p] = ps[p]
    BY <2>1, CreateFields
  <2>4. \A p \in Promise : /\ ns[p].reactions = ps[p].reactions /\ ns[p].count = ps[p].count
                            /\ ns[p].result = ps[p].result
    BY <2>1, CreateFields
  <2> QED
    BY <2>1, <2>2, <2>3, <2>4
<1> HIDE DEF ns
<1>2. Waits(ns, jb) = Waits(ps, jb)
  <2>1. \A p \in Promise : WaitsOf(ns, jb, p) = WaitsOf(ps, jb, p)
    BY <1>1 DEF WaitsOf
  <2> QED
    BY <2>1, WaitsSame
<1>3. Last(ns, q) = Last(ps, q)
  BY <1>1 DEF Last
<1>4. InOrder(ns, jb, st, q)
  <2>1. InOrder(ps, jb, st, q)
    BY DEF Good
  <2>2. Mine(jb, q) = {} /\ ps[q].reactions = <<>>
    BY <2>1 DEF InOrder, Settled
  <2>3. ns[q].reactions = ps[q].reactions /\ ns[q].state = "pending"
    BY <1>1
  <2> QED
    BY <1>3, <2>1, <2>2, <2>3 DEF InOrder
<1>5. \A p \in Promise : p # q => InOrder(ns, jb, st, p)
  BY <1>1 DEF Good, InOrder, Last
<1> QED
  BY <1>1, <1>2, <1>4, <1>5 DEF Good, ns

LEMMA GoodAdd ==
    ASSUME NEW ps, NEW jb, NEW st, NEW p \in Promise, NEW rx \in Reaction, Good(ps, jb, st),
           ps[p].state # "none", ps[p].state \in Settled => ps[p].result # NoValue,
           NEW ns, ns = AddReaction(ps, p, rx), NEW nj, Joined(nj, jb, ThenJobs(ps, p, rx)),
           NEW w, w = <<p, Numbered(ps, p, rx)>>
    PROVE  /\ Good(ns, nj, st)
           /\ Calls(nj) = Calls(jb)
           /\ Waits(ns, nj) = Waits(ps, jb) \cup {w}
<1> DEFINE t == ThenJobs(ps, p, rx)
           n == Numbered(ps, p, rx)
<1>1. /\ ps \in [Promise -> PromiseData] /\ ns \in [Promise -> PromiseData]
      /\ \A q \in Promise : q # p => ns[q] = ps[q]
      /\ \A q \in Promise : ns[q].state = ps[q].state /\ ns[q].result = ps[q].result
      /\ ns[p].count = ps[p].count + 1
      /\ jb \in Seq(Job) /\ st \in [Promise -> Nat]
  BY AddFields DEF Good
<1>2. ns[p].reactions = IF ps[p].state = "pending" THEN Append(ps[p].reactions, n)
                                                   ELSE ps[p].reactions
  BY <1>1, AddFields
<1>3. n \in Reaction /\ n.id = ps[p].count + 1
  BY <1>1, NumberedFields
<1>4. ps[p].reactions \in Seq(Reaction) /\ ps[p].count \in Nat /\ st[p] \in Nat
  BY <1>1, DataFields
<1>w. w = <<p, n>>
  OBVIOUS
<1>5. InOrder(ps, jb, st, p)
  BY DEF Good
<1>6. CASE ps[p].state = "pending"
  <2>1. t = <<>>
    BY <1>6 DEF ThenJobs
  <2>2. nj = jb
    BY <2>1, <1>1 DEF Joined
  <2> HIDE DEF t, n
  <2>3. /\ Len(ns[p].reactions) = Len(ps[p].reactions) + 1
        /\ \A i \in 1 .. Len(ps[p].reactions) : ns[p].reactions[i] = ps[p].reactions[i]
        /\ ns[p].reactions[Len(ps[p].reactions) + 1] = n
        /\ DOMAIN ns[p].reactions = 1 .. Len(ps[p].reactions) + 1
        /\ DOMAIN ps[p].reactions = 1 .. Len(ps[p].reactions)
        /\ Len(ps[p].reactions) \in Nat
    BY <1>2, <1>3, <1>4, <1>6
  <2> DEFINE len == Len(ps[p].reactions)
             cnt == ps[p].count
  <2>a. /\ len \in Nat /\ cnt \in Nat /\ n.id = cnt + 1
        /\ Len(ns[p].reactions) = len + 1 /\ ns[p].count = cnt + 1
        /\ Last(ns, p) = ns[p].count - Len(ns[p].reactions) /\ Last(ps, p) = cnt - len
    BY <1>1, <1>3, <1>4, <2>3 DEF Last
  <2> HIDE DEF len, cnt
  <2>4. Last(ns, p) = Last(ps, p) /\ Last(ps, p) + (len + 1) = n.id /\ Last(ps, p) \in Int
    BY <2>a
  <2>5. \A i \in 1 .. Len(ns[p].reactions) : ns[p].reactions[i].id = Last(ns, p) + i
    <3> SUFFICES ASSUME NEW i \in 1 .. len + 1
                 PROVE  ns[p].reactions[i].id = Last(ns, p) + i
      BY <2>a
    <3>1. CASE i = len + 1
      BY <3>1, <2>3, <2>4 DEF len
    <3>2. CASE i # len + 1
      <4>1. i \in 1 .. Len(ps[p].reactions)
        BY <3>2, <2>a DEF len
      <4> QED
        BY <4>1, <1>5, <2>3, <2>4 DEF InOrder
    <3> QED
      BY <3>1, <3>2
  <2>6. InOrder(ns, jb, st, p)
    BY <1>1, <1>5, <1>6, <2>4, <2>5 DEF InOrder
  <2>7. \A q \in Promise : q # p => InOrder(ns, jb, st, q)
    BY <1>1 DEF Good, InOrder, Last
  <2>8. Waits(ns, jb) = Waits(ps, jb) \cup {w}
    <3>1. \A q \in Promise : q # p => WaitsOf(ns, jb, q) = WaitsOf(ps, jb, q)
      BY <1>1 DEF WaitsOf
    <3>2. WaitsOf(ns, jb, p) = WaitsOf(ps, jb, p) \cup {w}
      <4>1. \A i \in DOMAIN ns[p].reactions :
                \/ i \in DOMAIN ps[p].reactions /\ ns[p].reactions[i] = ps[p].reactions[i]
                \/ ns[p].reactions[i] = n
        <5> SUFFICES ASSUME NEW i \in 1 .. len + 1
                     PROVE  \/ /\ i \in DOMAIN ps[p].reactions
                               /\ ns[p].reactions[i] = ps[p].reactions[i]
                            \/ ns[p].reactions[i] = n
          BY <2>3 DEF len
        <5>1. i \in 1 .. len \/ i = len + 1
          BY <2>a
        <5> QED
          BY <5>1, <2>3 DEF len
      <4>2. \A i \in DOMAIN ps[p].reactions :
                i \in DOMAIN ns[p].reactions /\ ns[p].reactions[i] = ps[p].reactions[i]
        BY <2>3
      <4>3. \E i \in DOMAIN ns[p].reactions : ns[p].reactions[i] = n
        <5>1. Len(ps[p].reactions) + 1 \in DOMAIN ns[p].reactions
          BY <2>3
        <5> QED
          BY <5>1, <2>3
      <4> QED
        BY <1>w, <4>1, <4>2, <4>3 DEF WaitsOf
    <3>3. Waits(ns, jb) = Waits(ps, jb) \cup {w}
      BY <3>1, <3>2 DEF Waits
    <3> QED
      BY <3>3
  <2>9. Good(ns, jb, st)
    BY <1>1, <2>6, <2>7 DEF Good
  <2> QED
    BY <2>2, <2>8, <2>9
<1>7. CASE ps[p].state \in Settled
  <2>1. /\ t \in Seq(Job) /\ DOMAIN t = {1} /\ Len(t) = 1
        /\ t[1].type = "reaction" /\ t[1].src = p /\ t[1].rx = n
        /\ t[1].reject = (ps[p].state = "rejected") /\ t[1].arg = ps[p].result
    BY <1>1, <1>7, ThenJobsFields
  <2>2. ns[p].reactions = <<>> /\ ps[p].reactions = <<>>
    BY <1>2, <1>5, <1>7 DEF InOrder, Settled
  <2> HIDE DEF t, n
  <2>3. CallIndex(t) = {} /\ Mine(t, p) = {1} /\ \A q \in Promise : q # p => Mine(t, q) = {}
    BY <2>1 DEF CallIndex, Mine
  <2>s. Joined(nj, jb, t) /\ jb \in Seq(Job) /\ nj \in Seq(Job) /\ Len(jb) \in Nat
    BY JoinedTypes DEF t
  <2>4. Calls(nj) = Calls(jb) /\ CallIndex(nj) = CallIndex(jb)
        /\ \A i \in CallIndex(jb) : nj[i] = jb[i]
    BY <2>s, <2>3, CallsCatNone
  <2>5. \A i, k \in CallIndex(nj) : nj[i].to = nj[k].to => i = k
    BY <2>4 DEF Good
  <2>6. /\ nj \in Seq(Job) /\ Len(jb) \in Nat
        /\ \A i \in Mine(jb, p) : i \in Mine(nj, p) /\ nj[i] = jb[i] /\ i <= Len(jb)
        /\ Len(jb) + 1 \in Mine(nj, p) /\ nj[Len(jb) + 1] = t[1]
        /\ \A i \in Mine(nj, p) : i \in Mine(jb, p) \/ i = Len(jb) + 1
        /\ \A i \in Mine(nj, p) : i \in Nat
    <3>1. nj \in Seq(Job) /\ Len(jb) \in Nat /\ \A i \in Mine(nj, p) : i \in Nat
      BY <2>s DEF Mine
    <3>2. \A i \in Mine(jb, p) : i \in Mine(nj, p) /\ nj[i] = jb[i] /\ i <= Len(jb)
      BY <2>s, MineLeft DEF Mine
    <3>3. Len(jb) + 1 \in Mine(nj, p) /\ nj[Len(jb) + 1] = t[1]
      BY <2>s, <2>3, MineRight
    <3>4. \A i \in Mine(nj, p) : i \in Mine(jb, p) \/ i - Len(jb) \in Mine(t, p)
      BY <2>s, MineSplit
    <3> QED
      BY <3>1, <3>2, <3>3, <3>4, <2>3
  <2>7. Last(ps, p) = ps[p].count /\ Last(ns, p) = ps[p].count + 1 /\ n.id = Last(ns, p)
    BY <1>1, <1>3, <1>4, <2>2 DEF Last
  <2>8. InOrder(ns, nj, st, p)
    <3>1. st[p] <= Last(ns, p)
      BY <1>4, <1>5, <2>7 DEF InOrder
    <3>2. \A i \in Mine(nj, p) : st[p] < nj[i].rx.id /\ nj[i].rx.id <= Last(ns, p)
      <4> SUFFICES ASSUME NEW i \in Mine(nj, p)
                   PROVE  st[p] < nj[i].rx.id /\ nj[i].rx.id <= Last(ns, p)
        OBVIOUS
      <4>1. CASE i \in Mine(jb, p)
        <5>1. jb[i].rx.id \in Nat
          BY <4>1, <1>1, JobFields, ReactionFields DEF Mine
        <5> QED
          BY <4>1, <5>1, <1>4, <1>5, <2>6, <2>7 DEF InOrder
      <4>2. CASE i = Len(jb) + 1
        BY <4>2, <1>4, <1>5, <2>1, <2>6, <2>7 DEF InOrder
      <4> QED
        BY <4>1, <4>2, <2>6
    <3>3. \A i, k \in Mine(nj, p) : i < k => nj[i].rx.id < nj[k].rx.id
      <4> SUFFICES ASSUME NEW i \in Mine(nj, p), NEW k \in Mine(nj, p), i < k
                   PROVE  nj[i].rx.id < nj[k].rx.id
        OBVIOUS
      <4>1. i \in Mine(jb, p) /\ nj[i] = jb[i]
        BY <2>6
      <4>2. jb[i].rx.id \in Nat /\ jb[i].rx.id <= Last(ps, p)
        BY <4>1, <1>1, <1>5, JobFields, ReactionFields DEF Mine, InOrder
      <4>3. CASE k \in Mine(jb, p)
        BY <4>1, <4>3, <1>5, <2>6 DEF InOrder
      <4>4. CASE k = Len(jb) + 1
        BY <4>1, <4>2, <4>4, <1>4, <2>1, <2>6, <2>7
      <4> QED
        BY <4>3, <4>4, <2>6
    <3>4. \A m \in st[p] + 1 .. Last(ns, p) : \E i \in Mine(nj, p) : nj[i].rx.id = m
      <4> SUFFICES ASSUME NEW m \in st[p] + 1 .. Last(ns, p)
                   PROVE  \E i \in Mine(nj, p) : nj[i].rx.id = m
        OBVIOUS
      <4>1. CASE m = Last(ns, p)
        BY <4>1, <2>1, <2>6, <2>7
      <4>2. CASE m # Last(ns, p)
        <5>1. m \in st[p] + 1 .. Last(ps, p)
          BY <4>2, <1>4, <2>7
        <5> QED
          BY <5>1, <1>5, <2>6 DEF InOrder
      <4> QED
        BY <4>1, <4>2
    <3>5. \A i \in Mine(nj, p) : /\ nj[i].reject = (ns[p].state = "rejected")
                                 /\ nj[i].arg = ns[p].result
      <4> SUFFICES ASSUME NEW i \in Mine(nj, p)
                   PROVE  /\ nj[i].reject = (ns[p].state = "rejected")
                          /\ nj[i].arg = ns[p].result
        OBVIOUS
      <4>0. ns[p].state = ps[p].state /\ ns[p].result = ps[p].result
        BY <1>1
      <4>1. CASE i \in Mine(jb, p)
        <5>1. jb[i].reject = (ps[p].state = "rejected") /\ jb[i].arg = ps[p].result
          BY <4>1, <1>5 DEF InOrder
        <5> QED
          BY <4>0, <4>1, <5>1, <2>6
      <4>2. CASE i = Len(jb) + 1
        BY <4>0, <4>2, <2>1, <2>6
      <4> QED
        BY <4>1, <4>2, <2>6
    <3> QED
      BY <3>1, <3>2, <3>3, <3>4, <3>5, <1>1, <1>7, <2>2 DEF InOrder, Settled
  <2>9. \A q \in Promise : q # p => /\ Mine(nj, q) = Mine(jb, q)
                                    /\ \A i \in Mine(jb, q) : nj[i] = jb[i]
    <3> SUFFICES ASSUME NEW q \in Promise, q # p
                 PROVE  Mine(nj, q) = Mine(jb, q) /\ \A i \in Mine(jb, q) : nj[i] = jb[i]
      OBVIOUS
    <3>1. Mine(t, q) = {}
      BY <2>3
    <3> QED
      BY <2>s, <3>1, MineCatNone
  <2>10. Waits(ns, nj) = Waits(ps, jb) \cup {w}
    <3>1. \A q \in Promise : q # p => WaitsOf(ns, nj, q) = WaitsOf(ps, jb, q)
      <4> SUFFICES ASSUME NEW q \in Promise, q # p
                   PROVE  WaitsOf(ns, nj, q) = WaitsOf(ps, jb, q)
        OBVIOUS
      <4>1. /\ ns[q] = ps[q] /\ Mine(nj, q) = Mine(jb, q)
            /\ \A i \in Mine(jb, q) : nj[i] = jb[i]
        BY <1>1, <2>9
      <4> QED
        BY <4>1 DEF WaitsOf
    <3>2. WaitsOf(ns, nj, p) = WaitsOf(ps, jb, p) \cup {w}
      BY <1>w, <2>1, <2>2, <2>6 DEF WaitsOf
    <3>3. Waits(ns, nj) = Waits(ps, jb) \cup {w}
      BY <3>1, <3>2 DEF Waits
    <3> QED
      BY <3>3
  <2>11. \A q \in Promise : q # p => InOrder(ns, nj, st, q)
    <3> SUFFICES ASSUME NEW q \in Promise, q # p PROVE InOrder(ns, nj, st, q)
      OBVIOUS
    <3>1. Mine(nj, q) = Mine(jb, q) /\ \A i \in Mine(jb, q) : nj[i] = jb[i]
      BY <2>9
    <3>2. Last(ns, q) = Last(ps, q) /\ ns[q] = ps[q] /\ InOrder(ps, jb, st, q)
      BY <1>1 DEF Last, Good
    <3> QED
      BY <3>1, <3>2, OrderSame
  <2>12. Good(ns, nj, st)
    BY <1>1, <2>5, <2>6, <2>8, <2>11 DEF Good
  <2> QED
    BY <2>4, <2>10, <2>12
<1> QED
  BY <1>1, <1>6, <1>7, DataFields

(* The jobs that settling a promise queues.                                *)
LEMMA SettleOther ==
    ASSUME NEW ps \in [Promise -> PromiseData], NEW jb \in Seq(Job), NEW p \in Promise,
           NEW v \in Result, NEW reject, ps[p].state = "pending",
           NEW nj, Joined(nj, jb, SettleJobs(ps, p, v, reject)), NEW q \in Promise, q # p
    PROVE  Mine(nj, q) = Mine(jb, q) /\ \A i \in Mine(jb, q) : nj[i] = jb[i]
<1> DEFINE t == SettleJobs(ps, p, v, reject)
<1>1. Joined(nj, jb, t) /\ \A i \in DOMAIN t : t[i].src = p
  BY SettleJobsFields
<1> HIDE DEF t
<1>2. Mine(t, q) = {}
  BY <1>1 DEF Mine
<1>3. Joined(nj, jb, t)
  BY <1>1
<1> QED
  BY <1>2, <1>3, MineCatNone

LEMMA SettleCalls ==
    ASSUME NEW ps \in [Promise -> PromiseData], NEW jb \in Seq(Job), NEW p \in Promise,
           NEW v \in Result, NEW reject, ps[p].state = "pending",
           NEW nj, Joined(nj, jb, SettleJobs(ps, p, v, reject))
    PROVE  /\ Calls(nj) = Calls(jb) /\ CallIndex(nj) = CallIndex(jb)
           /\ \A i \in CallIndex(jb) : nj[i] = jb[i]
<1> DEFINE t == SettleJobs(ps, p, v, reject)
<1>1. Joined(nj, jb, t) /\ \A i \in DOMAIN t : t[i].type = "reaction"
  BY SettleJobsFields
<1> HIDE DEF t
<1>2. CallIndex(t) = {}
  BY <1>1 DEF CallIndex
<1>3. Joined(nj, jb, t)
  BY <1>1
<1> QED
  BY <1>2, <1>3, CallsCatNone

LEMMA SettleMine ==
    ASSUME NEW ps \in [Promise -> PromiseData], NEW jb \in Seq(Job), NEW p \in Promise,
           NEW v \in Result, NEW reject, ps[p].state = "pending", Mine(jb, p) = {},
           NEW t, t = SettleJobs(ps, p, v, reject), NEW nj, Joined(nj, jb, t)
    PROVE  /\ \A i \in 1 .. Len(ps[p].reactions) :
                 Len(jb) + i \in Mine(nj, p) /\ nj[Len(jb) + i] = t[i]
           /\ \A i \in Mine(nj, p) :
                 /\ i \in Nat /\ i - Len(jb) \in 1 .. Len(ps[p].reactions)
                 /\ nj[i] = t[i - Len(jb)]
<1> DEFINE len == Len(ps[p].reactions)
<1>1. /\ t \in Seq(Job) /\ DOMAIN t = 1 .. len
      /\ \A i \in 1 .. len : t[i].type = "reaction" /\ t[i].src = p
  BY SettleJobsFields
<1> HIDE DEF len
<1>2. Mine(t, p) = 1 .. len
  BY <1>1 DEF Mine
<1>3. Joined(nj, jb, t) /\ nj \in Seq(Job)
  BY JoinedTypes
<1>4. \A i \in Mine(t, p) : Len(jb) + i \in Mine(nj, p) /\ nj[Len(jb) + i] = t[i]
  BY <1>3, MineRight
<1>5. \A i \in Mine(nj, p) : i - Len(jb) \in Mine(t, p) /\ nj[i] = t[i - Len(jb)]
  <2> SUFFICES ASSUME NEW i \in Mine(nj, p)
               PROVE  i - Len(jb) \in Mine(t, p) /\ nj[i] = t[i - Len(jb)]
    OBVIOUS
  <2>1. \/ i \in Mine(jb, p)
        \/ i > Len(jb) /\ i - Len(jb) \in Mine(t, p) /\ nj[i] = t[i - Len(jb)]
    BY <1>3, MineSplit
  <2> QED
    BY <2>1
<1>6. \A i \in Mine(nj, p) : i \in Nat
  BY <1>3 DEF Mine
<1> QED
  BY <1>2, <1>4, <1>5, <1>6 DEF len

LEMMA SettleWaits ==
    ASSUME NEW ps \in [Promise -> PromiseData], NEW jb \in Seq(Job), NEW p \in Promise,
           NEW v \in Result, NEW reject, ps[p].state = "pending", Mine(jb, p) = {},
           NEW ns, ns = Settle(ps, p, v, reject),
           NEW nj, Joined(nj, jb, SettleJobs(ps, p, v, reject))
    PROVE  Waits(ns, nj) = Waits(ps, jb)
<1> DEFINE t   == SettleJobs(ps, p, v, reject)
           len == Len(ps[p].reactions)
<1>1. /\ \A q \in Promise : q # p => ns[q] = ps[q]
      /\ ns[p].reactions = <<>>
  BY SettleFields
<1>2. \A i \in 1 .. len : t[i].rx = ps[p].reactions[i]
  BY SettleJobsFields
<1>3. DOMAIN ps[p].reactions = 1 .. len
  BY DataFields
<1>4. \A q \in Promise : q # p => /\ Mine(nj, q) = Mine(jb, q)
                                  /\ \A i \in Mine(jb, q) : nj[i] = jb[i]
  <2> SUFFICES ASSUME NEW q \in Promise, q # p
               PROVE  Mine(nj, q) = Mine(jb, q) /\ \A i \in Mine(jb, q) : nj[i] = jb[i]
    OBVIOUS
  <2>1. Mine(nj, q) = Mine(jb, q)
    BY SettleOther
  <2>2. \A i \in Mine(jb, q) : nj[i] = jb[i]
    BY SettleOther
  <2> QED
    BY <2>1, <2>2
<1>5. /\ \A i \in 1 .. len : Len(jb) + i \in Mine(nj, p) /\ nj[Len(jb) + i] = t[i]
      /\ \A i \in Mine(nj, p) : /\ i \in Nat /\ i - Len(jb) \in 1 .. len
                                /\ nj[i] = t[i - Len(jb)]
  BY SettleMine
<1> HIDE DEF t, len
<1>6. \A q \in Promise : q # p => WaitsOf(ns, nj, q) = WaitsOf(ps, jb, q)
  BY <1>1, <1>4 DEF WaitsOf
<1>7. \A w \in WaitsOf(ns, nj, p) : w \in WaitsOf(ps, jb, p)
  <2> SUFFICES ASSUME NEW i \in Mine(nj, p)
               PROVE  <<p, nj[i].rx>> \in WaitsOf(ps, jb, p)
    BY <1>1 DEF WaitsOf
  <2> DEFINE k == i - Len(jb)
  <2>1. k \in 1 .. len /\ nj[i] = t[k]
    BY <1>5
  <2> HIDE DEF k
  <2>2. nj[i].rx = ps[p].reactions[k] /\ k \in DOMAIN ps[p].reactions
    BY <2>1, <1>2, <1>3
  <2> QED
    BY <2>2 DEF WaitsOf
<1>8. \A w \in WaitsOf(ps, jb, p) : w \in WaitsOf(ns, nj, p)
  <2> SUFFICES ASSUME NEW i \in 1 .. len
               PROVE  <<p, ps[p].reactions[i]>> \in WaitsOf(ns, nj, p)
    BY <1>3 DEF WaitsOf
  <2>1. Len(jb) + i \in Mine(nj, p) /\ nj[Len(jb) + i].rx = ps[p].reactions[i]
    BY <1>2, <1>5
  <2> QED
    BY <2>1 DEF WaitsOf
<1>9. WaitsOf(ns, nj, p) = WaitsOf(ps, jb, p)
  BY <1>7, <1>8
<1> QED
  BY <1>6, <1>9, WaitsSame

(* The keeping of the order, once the promise has no job.                  *)
LEMMA MineNone ==
    ASSUME NEW ps, NEW jb, NEW st, NEW p \in Promise, Good(ps, jb, st), ps[p].state = "pending"
    PROVE  Mine(jb, p) = {}
<1>1. InOrder(ps, jb, st, p)
  BY DEF Good
<1> QED
  BY <1>1 DEF InOrder, Settled

LEMMA GoodSettle ==
    ASSUME NEW ps, NEW jb, NEW st, NEW p \in Promise, NEW v \in Result, NEW reject,
           Good(ps, jb, st), ps[p].state = "pending",
           NEW ns, ns = Settle(ps, p, v, reject),
           NEW nj, Joined(nj, jb, SettleJobs(ps, p, v, reject))
    PROVE  Good(ns, nj, st)
<1> DEFINE t   == SettleJobs(ps, p, v, reject)
           len == Len(ps[p].reactions)
<1>1. /\ ps \in [Promise -> PromiseData] /\ jb \in Seq(Job) /\ st \in [Promise -> Nat]
      /\ InOrder(ps, jb, st, p) /\ \A q \in Promise : InOrder(ps, jb, st, q)
      /\ \A i, k \in CallIndex(jb) : jb[i].to = jb[k].to => i = k
  BY DEF Good
<1>2. /\ ns \in [Promise -> PromiseData]
      /\ \A q \in Promise : q # p => ns[q] = ps[q]
      /\ ns[p].state \in Settled /\ ns[p].result = v
      /\ ns[p].reactions = <<>> /\ ns[p].count = ps[p].count
  BY <1>1, SettleFields DEF Settled
<1>j. Joined(nj, jb, t) /\ nj \in Seq(Job)
  BY JoinedTypes
<1>3. /\ \A i \in 1 .. len : /\ t[i].rx = ps[p].reactions[i]
                             /\ t[i].reject = (ns[p].state = "rejected")
                             /\ t[i].arg = v
  <2>1. ps \in [Promise -> PromiseData]
    BY <1>1
  <2> QED
    BY <2>1, SettleJobsFields
<1>4. /\ ps[p].reactions \in Seq(Reaction) /\ ps[p].count \in Nat /\ st[p] \in Nat
      /\ len \in Nat /\ Len(jb) \in Nat
  BY <1>1, DataFields
<1>5. Mine(jb, p) = {}
  BY <1>1 DEF InOrder, Settled
<1>t. ps \in [Promise -> PromiseData] /\ jb \in Seq(Job)
  BY <1>1
<1>6. CallIndex(nj) = CallIndex(jb) /\ \A i \in CallIndex(jb) : nj[i] = jb[i]
  BY <1>t, SettleCalls
<1>8. \A q \in Promise : q # p => /\ Mine(nj, q) = Mine(jb, q)
                                  /\ \A i \in Mine(jb, q) : nj[i] = jb[i]
  <2> SUFFICES ASSUME NEW q \in Promise, q # p
               PROVE  Mine(nj, q) = Mine(jb, q) /\ \A i \in Mine(jb, q) : nj[i] = jb[i]
    OBVIOUS
  <2>1. Mine(nj, q) = Mine(jb, q)
    BY <1>t, SettleOther
  <2>2. \A i \in Mine(jb, q) : nj[i] = jb[i]
    BY <1>t, SettleOther
  <2> QED
    BY <2>1, <2>2
<1>10. /\ \A i \in 1 .. len : Len(jb) + i \in Mine(nj, p) /\ nj[Len(jb) + i] = t[i]
       /\ \A i \in Mine(nj, p) : /\ i \in Nat /\ i - Len(jb) \in 1 .. len
                                 /\ nj[i] = t[i - Len(jb)]
  BY <1>t, <1>5, SettleMine
<1> HIDE DEF t, len
<1>7. nj \in Seq(Job)
  BY <1>j
<1>11. Last(ns, p) = ps[p].count /\ Last(ps, p) = ps[p].count - len
  BY <1>2, <1>4 DEF Last, len
<1>12. st[p] = Last(ps, p)
  <2>1. st[p] <= Last(ps, p) /\ Last(ps, p) \in Int
    BY <1>1, <1>4, <1>11 DEF InOrder
  <2>2. ~(Last(ps, p) \in st[p] + 1 .. Last(ps, p))
    BY <1>1, <1>5 DEF InOrder
  <2> QED
    BY <2>1, <2>2, <1>4
<1>13. \A i \in 1 .. len : ps[p].reactions[i].id = Last(ps, p) + i
  BY <1>1 DEF InOrder, len
<1>14. InOrder(ns, nj, st, p)
  <2>1. \A i \in Mine(nj, p) : /\ i - Len(jb) \in 1 .. len /\ i \in Nat
                               /\ nj[i].rx.id = st[p] + (i - Len(jb))
    <3> SUFFICES ASSUME NEW i \in Mine(nj, p)
                 PROVE  /\ i - Len(jb) \in 1 .. len /\ i \in Nat
                        /\ nj[i].rx.id = st[p] + (i - Len(jb))
      OBVIOUS
    <3> DEFINE k == i - Len(jb)
    <3>1. k \in 1 .. len /\ i \in Nat /\ nj[i] = t[k]
      BY <1>10
    <3> HIDE DEF k
    <3>2. nj[i].rx = ps[p].reactions[k]
      BY <3>1, <1>3
    <3>3. ps[p].reactions[k].id = st[p] + k
      BY <3>1, <1>12, <1>13
    <3> QED
      BY <3>1, <3>2, <3>3 DEF k
  <2>2. st[p] <= Last(ns, p) /\ Last(ns, p) = st[p] + len
    BY <1>4, <1>11, <1>12
  <2>3. \A i \in Mine(nj, p) : st[p] < nj[i].rx.id /\ nj[i].rx.id <= Last(ns, p)
    BY <2>1, <2>2, <1>4
  <2>4. \A i, k \in Mine(nj, p) : i < k => nj[i].rx.id < nj[k].rx.id
    BY <2>1, <1>4
  <2>5. \A m \in st[p] + 1 .. Last(ns, p) : \E i \in Mine(nj, p) : nj[i].rx.id = m
    <3> SUFFICES ASSUME NEW m \in st[p] + 1 .. Last(ns, p)
                 PROVE  \E i \in Mine(nj, p) : nj[i].rx.id = m
      OBVIOUS
    <3>1. m - st[p] \in 1 .. len
      BY <2>2, <1>4
    <3>2. Len(jb) + (m - st[p]) \in Mine(nj, p)
      BY <3>1, <1>10
    <3>3. nj[Len(jb) + (m - st[p])].rx.id = m
      BY <3>1, <3>2, <2>1, <1>4, SMTT(20)
    <3> QED
      BY <3>2, <3>3
  <2>6. \A i \in Mine(nj, p) : /\ nj[i].reject = (ns[p].state = "rejected")
                               /\ nj[i].arg = ns[p].result
    <3> SUFFICES ASSUME NEW i \in Mine(nj, p)
                 PROVE  /\ nj[i].reject = (ns[p].state = "rejected")
                        /\ nj[i].arg = ns[p].result
      OBVIOUS
    <3> DEFINE k == i - Len(jb)
    <3>1. k \in 1 .. len /\ nj[i] = t[k]
      BY <1>10
    <3> HIDE DEF k
    <3>2. t[k].reject = (ns[p].state = "rejected") /\ t[k].arg = v
      BY <3>1, <1>3
    <3> QED
      BY <3>1, <3>2, <1>2
  <2>7. \A i \in 1 .. Len(ns[p].reactions) : ns[p].reactions[i].id = Last(ns, p) + i
    BY <1>2
  <2> QED
    BY <2>2, <2>3, <2>4, <2>5, <2>6, <2>7, <1>2 DEF InOrder
<1>15. \A q \in Promise : q # p => InOrder(ns, nj, st, q)
  <2> SUFFICES ASSUME NEW q \in Promise, q # p PROVE InOrder(ns, nj, st, q)
    OBVIOUS
  <2>1. InOrder(ps, jb, st, q) /\ ns[q] = ps[q] /\ Mine(nj, q) = Mine(jb, q)
        /\ \A i \in Mine(jb, q) : nj[i] = jb[i]
    BY <1>1, <1>2, <1>8
  <2> QED
    BY <2>1, OrderSame
<1> QED
  BY <1>1, <1>2, <1>6, <1>7, <1>14, <1>15 DEF Good

(* The call of then on the value v, with which p was resolved.             *)
CallOf(p, v) == [type |-> "thenable", to |-> p, arg |-> v]

LEMMA GoodCall ==
    ASSUME NEW ps, NEW jb, NEW st, NEW p \in Promise, NEW v \in Promise \cup {Thenable},
           Good(ps, jb, st), \A c \in Calls(jb) : c[1] # p
    PROVE  /\ Good(ps, Append(jb, CallOf(p, v)), st)
           /\ Calls(Append(jb, CallOf(p, v))) = Calls(jb) \cup {<<p, v>>}
           /\ Waits(ps, Append(jb, CallOf(p, v))) = Waits(ps, jb)
<1> DEFINE j  == CallOf(p, v)
           nj == Append(jb, j)
           n  == Len(jb) + 1
<1>1. /\ ps \in [Promise -> PromiseData] /\ jb \in Seq(Job) /\ st \in [Promise -> Nat]
      /\ \A q \in Promise : InOrder(ps, jb, st, q)
      /\ \A i, k \in CallIndex(jb) : jb[i].to = jb[k].to => i = k
  BY DEF Good
<1>2. j \in Job /\ j.type = "thenable" /\ j.to = p /\ j.arg = v
  BY DEF CallOf, Job
<1> HIDE DEF j
<1>3. /\ nj \in Seq(Job) /\ DOMAIN nj = DOMAIN jb \cup {n} /\ n \notin DOMAIN jb
      /\ nj[n] = j /\ \A i \in DOMAIN jb : nj[i] = jb[i]
  BY <1>1, <1>2
<1> HIDE DEF nj, n
<1>4. \A q \in Promise : Mine(nj, q) = Mine(jb, q) /\ \A i \in Mine(jb, q) : nj[i] = jb[i]
  BY <1>2, <1>3 DEF Mine
<1>5. CallIndex(nj) = CallIndex(jb) \cup {n} /\ \A i \in CallIndex(jb) : nj[i] = jb[i]
  BY <1>2, <1>3 DEF CallIndex
<1>6. Calls(nj) = Calls(jb) \cup {<<p, v>>}
  <2>1. <<nj[n].to, nj[n].arg>> = <<p, v>>
    BY <1>2, <1>3
  <2> QED
    BY <1>5, <2>1 DEF Calls
<1>7. \A i \in CallIndex(jb) : jb[i].to # p
  <2> SUFFICES ASSUME NEW i \in CallIndex(jb) PROVE jb[i].to # p
    OBVIOUS
  <2>1. <<jb[i].to, jb[i].arg>> \in Calls(jb)
    BY DEF Calls
  <2>2. <<jb[i].to, jb[i].arg>>[1] # p
    BY <2>1
  <2> QED
    BY <2>2
<1>8. \A i, k \in CallIndex(nj) : nj[i].to = nj[k].to => i = k
  BY <1>1, <1>2, <1>3, <1>5, <1>7
<1>9. \A q \in Promise : InOrder(ps, nj, st, q)
  BY <1>1, <1>4, OrderSame
<1>10. Waits(ps, nj) = Waits(ps, jb)
  <2>1. \A q \in Promise : WaitsOf(ps, nj, q) = WaitsOf(ps, jb, q)
    BY <1>4 DEF WaitsOf
  <2> QED
    BY <2>1, WaitsSame
<1> QED
  BY <1>1, <1>3, <1>6, <1>8, <1>9, <1>10 DEF Good, nj, j

LEMMA GoodStartCall ==
    ASSUME NEW ps, NEW jb, NEW st, Good(ps, jb, st), jb # <<>>, Head(jb).type = "thenable"
    PROVE  /\ Good(ps, Tail(jb), st)
           /\ Calls(jb) = Calls(Tail(jb)) \cup {<<Head(jb).to, Head(jb).arg>>}
           /\ \A c \in Calls(Tail(jb)) : c[1] # Head(jb).to
           /\ Waits(ps, Tail(jb)) = Waits(ps, jb)
<1> DEFINE nj == Tail(jb)
           j  == Head(jb)
<1>1. /\ ps \in [Promise -> PromiseData] /\ jb \in Seq(Job) /\ st \in [Promise -> Nat]
      /\ \A q \in Promise : InOrder(ps, jb, st, q)
      /\ \A i, k \in CallIndex(jb) : jb[i].to = jb[k].to => i = k
  BY DEF Good
<1>2. nj \in Seq(Job) /\ j = jb[1] /\ 1 \in DOMAIN jb
  BY <1>1, Tails
<1> HIDE DEF nj, j
<1>3. \A q \in Promise :
          /\ \A i \in Mine(nj, q) : i + 1 \in Mine(jb, q) /\ nj[i] = jb[i + 1] /\ i \in Nat
          /\ \A i \in Mine(jb, q) : i - 1 \in Mine(nj, q) /\ nj[i - 1] = jb[i] /\ i \in Nat
  <2> SUFFICES ASSUME NEW q \in Promise
               PROVE  /\ \A i \in Mine(nj, q) :
                            i + 1 \in Mine(jb, q) /\ nj[i] = jb[i + 1] /\ i \in Nat
                      /\ \A i \in Mine(jb, q) :
                            i - 1 \in Mine(nj, q) /\ nj[i - 1] = jb[i] /\ i \in Nat
    OBVIOUS
  <2>1. 1 \notin Mine(jb, q)
    BY <1>2 DEF Mine, j
  <2> QED
    <3>1. \A i \in Mine(nj, q) : i + 1 \in Mine(jb, q) /\ nj[i] = jb[i + 1] /\ i \in Nat
      BY <1>1, MineTail DEF nj
    <3>2. \A i \in Mine(jb, q) :
             i \in Nat /\ (i = 1 \/ (i - 1 \in Mine(nj, q) /\ nj[i - 1] = jb[i]))
      BY <1>1, MineOfTail DEF nj
    <3> QED
      BY <2>1, <3>1, <3>2
<1>4. /\ \A i \in CallIndex(nj) : /\ i + 1 \in CallIndex(jb) /\ nj[i] = jb[i + 1]
                                  /\ i \in Nat /\ i > 0
      /\ \A i \in CallIndex(jb) : i = 1 \/ (i - 1 \in CallIndex(nj) /\ nj[i - 1] = jb[i])
      /\ 1 \in CallIndex(jb)
  <2>1. 1 \in CallIndex(jb)
    BY <1>2 DEF CallIndex, j
  <2> QED
    BY <2>1, <1>1, CallsTail DEF nj
<1>5. Calls(jb) = Calls(nj) \cup {<<j.to, j.arg>>}
  <2>1. \A c \in Calls(nj) : c \in Calls(jb)
    BY <1>4 DEF Calls
  <2>2. <<j.to, j.arg>> \in Calls(jb)
    BY <1>2, <1>4 DEF Calls
  <2>3. \A c \in Calls(jb) : c \in Calls(nj) \/ c = <<j.to, j.arg>>
    BY <1>2, <1>4 DEF Calls
  <2> QED
    BY <2>1, <2>2, <2>3
<1>6. \A c \in Calls(nj) : c[1] # j.to
  <2> SUFFICES ASSUME NEW i \in CallIndex(nj) PROVE nj[i].to # j.to
    BY DEF Calls
  <2>1. i + 1 \in CallIndex(jb) /\ nj[i] = jb[i + 1] /\ i + 1 # 1
    BY <1>4
  <2> QED
    BY <2>1, <1>1, <1>2, <1>4
<1>7. \A i, k \in CallIndex(nj) : nj[i].to = nj[k].to => i = k
  <2> SUFFICES ASSUME NEW i \in CallIndex(nj), NEW k \in CallIndex(nj), nj[i].to = nj[k].to
               PROVE  i = k
    OBVIOUS
  <2>1. i + 1 \in CallIndex(jb) /\ k + 1 \in CallIndex(jb) /\ jb[i + 1].to = jb[k + 1].to
        /\ i \in Nat /\ k \in Nat
    BY <1>4
  <2>2. i + 1 = k + 1
    BY <2>1, <1>1
  <2> QED
    BY <2>1, <2>2
<1>8. \A q \in Promise : InOrder(ps, nj, st, q)
  <2> SUFFICES ASSUME NEW q \in Promise PROVE InOrder(ps, nj, st, q)
    OBVIOUS
  <2>1. InOrder(ps, jb, st, q)
    BY <1>1
  <2>2. \A i, k \in Mine(nj, q) : i < k => nj[i].rx.id < nj[k].rx.id
    <3> SUFFICES ASSUME NEW i \in Mine(nj, q), NEW k \in Mine(nj, q), i < k
                 PROVE  nj[i].rx.id < nj[k].rx.id
      OBVIOUS
    <3>1. i + 1 \in Mine(jb, q) /\ k + 1 \in Mine(jb, q) /\ i + 1 < k + 1
          /\ nj[i] = jb[i + 1] /\ nj[k] = jb[k + 1]
      BY <1>3
    <3> QED
      BY <3>1, <2>1 DEF InOrder
  <2>3. \A i \in Mine(nj, q) : /\ st[q] < nj[i].rx.id /\ nj[i].rx.id <= Last(ps, q)
                               /\ nj[i].reject = (ps[q].state = "rejected")
                               /\ nj[i].arg = ps[q].result
    BY <2>1, <1>3 DEF InOrder
  <2>4. \A n \in st[q] + 1 .. Last(ps, q) : \E i \in Mine(nj, q) : nj[i].rx.id = n
    BY <2>1, <1>3 DEF InOrder
  <2>5. Mine(jb, q) = {} => Mine(nj, q) = {}
    BY <1>3
  <2> QED
    BY <2>1, <2>2, <2>3, <2>4, <2>5 DEF InOrder
<1>9. Waits(ps, nj) = Waits(ps, jb)
  <2>1. \A q \in Promise : WaitsOf(ps, nj, q) = WaitsOf(ps, jb, q)
    BY <1>3 DEF WaitsOf
  <2> QED
    BY <2>1, WaitsSame
<1>10. Good(ps, nj, st)
  BY <1>1, <1>2, <1>7, <1>8 DEF Good
<1> QED
  BY <1>5, <1>6, <1>9, <1>10 DEF nj, j

(* A reaction that starts, and the others.                                 *)
Begun(ps, jb, st) ==
    /\ Good(ps, Tail(jb), [st EXCEPT ![Head(jb).src] = @ + 1])
    /\ Calls(Tail(jb)) = Calls(jb)
    /\ Waits(ps, jb) = Waits(ps, Tail(jb)) \cup {<<Head(jb).src, Head(jb).rx>>}
    /\ <<Head(jb).src, Head(jb).rx>> \notin Waits(ps, Tail(jb))
    /\ Head(jb).src \in Promise /\ Head(jb).rx \in Reaction
    /\ ps[Head(jb).src].state \in Settled
    /\ Head(jb).reject = (ps[Head(jb).src].state = "rejected")
    /\ Head(jb).arg = ps[Head(jb).src].result

LEMMA GoodStartReaction ==
    ASSUME NEW ps, NEW jb, NEW st, Good(ps, jb, st), jb # <<>>, Head(jb).type = "reaction"
    PROVE  Begun(ps, jb, st)
<1> DEFINE nj == Tail(jb)
           j  == Head(jb)
           p  == j.src
           ns == [st EXCEPT ![p] = @ + 1]
           w  == <<p, j.rx>>
<1>1. /\ ps \in [Promise -> PromiseData] /\ jb \in Seq(Job) /\ st \in [Promise -> Nat]
      /\ \A q \in Promise : InOrder(ps, jb, st, q)
      /\ \A i, k \in CallIndex(jb) : jb[i].to = jb[k].to => i = k
  BY DEF Good
<1>2. /\ nj \in Seq(Job) /\ j = jb[1] /\ 1 \in DOMAIN jb
      /\ p \in Promise /\ j.rx \in Reaction /\ j.rx.id \in Nat
  BY <1>1, Tails, JobFields, ReactionFields
<1>3. /\ ns \in [Promise -> Nat] /\ st[p] \in Nat /\ ns[p] = st[p] + 1
      /\ \A q \in Promise : q # p => ns[q] = st[q]
  BY <1>1, <1>2
<1>4. 1 \in Mine(jb, p) /\ \A q \in Promise : q # p => 1 \notin Mine(jb, q)
  BY <1>2 DEF Mine
<1> HIDE DEF nj, j, p, ns, w
<1>5. \A q \in Promise :
          /\ \A i \in Mine(nj, q) : /\ i + 1 \in Mine(jb, q) /\ nj[i] = jb[i + 1]
                                    /\ i \in Nat /\ i > 0
          /\ \A i \in Mine(jb, q) :
                i = 1 \/ (i - 1 \in Mine(nj, q) /\ nj[i - 1] = jb[i] /\ i \in Nat /\ i > 1)
          /\ \A i \in Mine(jb, q) : i \in Nat
  <2> SUFFICES ASSUME NEW q \in Promise
               PROVE  /\ \A i \in Mine(nj, q) : /\ i + 1 \in Mine(jb, q) /\ nj[i] = jb[i + 1]
                                                /\ i \in Nat /\ i > 0
                      /\ \A i \in Mine(jb, q) :
                            \/ i = 1
                            \/ i - 1 \in Mine(nj, q) /\ nj[i - 1] = jb[i] /\ i \in Nat /\ i > 1
                      /\ \A i \in Mine(jb, q) : i \in Nat
    OBVIOUS
  <2>1. \A i \in Mine(nj, q) : i + 1 \in Mine(jb, q) /\ nj[i] = jb[i + 1] /\ i \in Nat /\ i > 0
    BY <1>1, MineTail DEF nj
  <2>2. \A i \in Mine(jb, q) :
           /\ i \in Nat
           /\ i = 1 \/ (i > 1 /\ i - 1 \in Mine(nj, q) /\ nj[i - 1] = jb[i])
    BY <1>1, MineOfTail DEF nj
  <2> QED
    BY <2>1, <2>2
<1>6. /\ \A i \in CallIndex(nj) : /\ i + 1 \in CallIndex(jb) /\ nj[i] = jb[i + 1]
                                  /\ i \in Nat /\ i > 0
      /\ \A i \in CallIndex(jb) : i - 1 \in CallIndex(nj) /\ nj[i - 1] = jb[i]
  <2>1. 1 \notin CallIndex(jb)
    BY <1>2 DEF CallIndex, j
  <2> QED
    BY <2>1, <1>1, CallsTail DEF nj
<1>7. Calls(nj) = Calls(jb)
  BY <1>6 DEF Calls
<1>8. \A i, k \in CallIndex(nj) : nj[i].to = nj[k].to => i = k
  <2> SUFFICES ASSUME NEW i \in CallIndex(nj), NEW k \in CallIndex(nj), nj[i].to = nj[k].to
               PROVE  i = k
    OBVIOUS
  <2>1. i + 1 \in CallIndex(jb) /\ k + 1 \in CallIndex(jb) /\ jb[i + 1].to = jb[k + 1].to
        /\ i \in Nat /\ k \in Nat
    BY <1>6
  <2>2. i + 1 = k + 1
    BY <2>1, <1>1
  <2> QED
    BY <2>1, <2>2
<1>9. InOrder(ps, jb, st, p)
  BY <1>1, <1>2
<1>10. \A i \in Mine(jb, p) : jb[i].rx.id \in Nat /\ (i # 1 => jb[1].rx.id < jb[i].rx.id)
  <2>1. \A i \in Mine(jb, p) : jb[i].rx.id \in Nat
    BY <1>1, JobFields, ReactionFields DEF Mine
  <2>2. \A i \in Mine(jb, p) : i # 1 => 1 < i
    BY <1>2, <1>5
  <2> QED
    BY <2>1, <2>2, <1>4, <1>9 DEF InOrder
<1>11. Last(ps, p) \in Int
  <2>1. ps[p].count \in Nat /\ Len(ps[p].reactions) \in Nat
    BY <1>1, <1>2, DataFields
  <2> QED
    BY <2>1 DEF Last
<1>12. j.rx.id = st[p] + 1 /\ j.rx.id <= Last(ps, p)
  <2>1. st[p] < jb[1].rx.id /\ jb[1].rx.id <= Last(ps, p)
    BY <1>4, <1>9 DEF InOrder
  <2>2. st[p] + 1 \in st[p] + 1 .. Last(ps, p)
    BY <2>1, <1>2, <1>3, <1>11
  <2>3. PICK i \in Mine(jb, p) : jb[i].rx.id = st[p] + 1
    BY <2>2, <1>9 DEF InOrder
  <2> QED
    BY <2>1, <2>3, <1>2, <1>3, <1>10
<1>13. InOrder(ps, nj, ns, p)
  <2>1. ns[p] <= Last(ps, p)
    BY <1>3, <1>12
  <2>2. \A i \in Mine(nj, p) : /\ ns[p] < nj[i].rx.id /\ nj[i].rx.id <= Last(ps, p)
                               /\ nj[i].reject = (ps[p].state = "rejected")
                               /\ nj[i].arg = ps[p].result
    <3> SUFFICES ASSUME NEW i \in Mine(nj, p)
                 PROVE  /\ ns[p] < nj[i].rx.id /\ nj[i].rx.id <= Last(ps, p)
                        /\ nj[i].reject = (ps[p].state = "rejected")
                        /\ nj[i].arg = ps[p].result
      OBVIOUS
    <3>1. i + 1 \in Mine(jb, p) /\ nj[i] = jb[i + 1] /\ i + 1 # 1
      BY <1>2, <1>5
    <3>2. jb[i + 1].rx.id <= Last(ps, p) /\ jb[i + 1].reject = (ps[p].state = "rejected")
          /\ jb[i + 1].arg = ps[p].result
      BY <3>1, <1>9 DEF InOrder
    <3>3. ns[p] < jb[i + 1].rx.id
      BY <3>1, <1>2, <1>3, <1>10, <1>12
    <3> QED
      BY <3>1, <3>2, <3>3
  <2>3. \A i, k \in Mine(nj, p) : i < k => nj[i].rx.id < nj[k].rx.id
    <3> SUFFICES ASSUME NEW i \in Mine(nj, p), NEW k \in Mine(nj, p), i < k
                 PROVE  nj[i].rx.id < nj[k].rx.id
      OBVIOUS
    <3>1. i + 1 \in Mine(jb, p) /\ k + 1 \in Mine(jb, p) /\ i + 1 < k + 1
          /\ nj[i] = jb[i + 1] /\ nj[k] = jb[k + 1]
      BY <1>2, <1>5
    <3> QED
      BY <3>1, <1>9 DEF InOrder
  <2>4. \A n \in ns[p] + 1 .. Last(ps, p) : \E i \in Mine(nj, p) : nj[i].rx.id = n
    <3> SUFFICES ASSUME NEW n \in ns[p] + 1 .. Last(ps, p)
                 PROVE  \E i \in Mine(nj, p) : nj[i].rx.id = n
      OBVIOUS
    <3>1. n \in st[p] + 1 .. Last(ps, p) /\ n # st[p] + 1
      BY <1>3, <1>11
    <3>2. PICK i \in Mine(jb, p) : jb[i].rx.id = n
      BY <3>1, <1>9 DEF InOrder
    <3>3. i # 1
      BY <3>1, <3>2, <1>2, <1>12
    <3> QED
      BY <3>2, <3>3, <1>2, <1>5
  <2>5. Mine(jb, p) # {}
    BY <1>4
  <2> QED
    BY <2>1, <2>2, <2>3, <2>4, <2>5, <1>9 DEF InOrder
<1>14. \A q \in Promise : q # p => InOrder(ps, nj, ns, q)
  <2> SUFFICES ASSUME NEW q \in Promise, q # p PROVE InOrder(ps, nj, ns, q)
    OBVIOUS
  <2>1. InOrder(ps, jb, st, q) /\ ns[q] = st[q]
    BY <1>1, <1>3
  <2>2. /\ \A i \in Mine(nj, q) : i + 1 \in Mine(jb, q) /\ nj[i] = jb[i + 1] /\ i \in Nat
        /\ \A i \in Mine(jb, q) : i - 1 \in Mine(nj, q) /\ nj[i - 1] = jb[i]
    BY <1>4, <1>5
  <2>3. \A i, k \in Mine(nj, q) : i < k => nj[i].rx.id < nj[k].rx.id
    <3> SUFFICES ASSUME NEW i \in Mine(nj, q), NEW k \in Mine(nj, q), i < k
                 PROVE  nj[i].rx.id < nj[k].rx.id
      OBVIOUS
    <3>1. i + 1 \in Mine(jb, q) /\ k + 1 \in Mine(jb, q) /\ i + 1 < k + 1
          /\ nj[i] = jb[i + 1] /\ nj[k] = jb[k + 1]
      BY <2>2
    <3> QED
      BY <3>1, <2>1 DEF InOrder
  <2>4. \A i \in Mine(nj, q) : /\ ns[q] < nj[i].rx.id /\ nj[i].rx.id <= Last(ps, q)
                               /\ nj[i].reject = (ps[q].state = "rejected")
                               /\ nj[i].arg = ps[q].result
    BY <2>1, <2>2 DEF InOrder
  <2>5. \A n \in ns[q] + 1 .. Last(ps, q) : \E i \in Mine(nj, q) : nj[i].rx.id = n
    BY <2>1, <2>2 DEF InOrder
  <2>6. Mine(jb, q) = {} => Mine(nj, q) = {}
    BY <2>2
  <2> QED
    BY <2>1, <2>3, <2>4, <2>5, <2>6 DEF InOrder
<1>15. Good(ps, nj, ns)
  BY <1>1, <1>2, <1>3, <1>8, <1>13, <1>14 DEF Good
<1>16. Waits(ps, jb) = Waits(ps, nj) \cup {w}
  <2>1. \A q \in Promise : q # p => WaitsOf(ps, jb, q) = WaitsOf(ps, nj, q)
    <3> SUFFICES ASSUME NEW q \in Promise, q # p PROVE WaitsOf(ps, jb, q) = WaitsOf(ps, nj, q)
      OBVIOUS
    <3>1. /\ \A i \in Mine(nj, q) : i + 1 \in Mine(jb, q) /\ nj[i] = jb[i + 1]
          /\ \A i \in Mine(jb, q) : i - 1 \in Mine(nj, q) /\ nj[i - 1] = jb[i]
      BY <1>4, <1>5
    <3> QED
      BY <3>1 DEF WaitsOf
  <2>2. WaitsOf(ps, jb, p) = WaitsOf(ps, nj, p) \cup {w}
    <3>1. \A x \in WaitsOf(ps, nj, p) : x \in WaitsOf(ps, jb, p)
      BY <1>2, <1>5 DEF WaitsOf
    <3>2. w \in WaitsOf(ps, jb, p)
      BY <1>2, <1>4 DEF WaitsOf, w
    <3>3. \A x \in WaitsOf(ps, jb, p) : x \in WaitsOf(ps, nj, p) \/ x = w
      BY <1>2, <1>5 DEF WaitsOf, w
    <3> QED
      BY <3>1, <3>2, <3>3
  <2> QED
    BY <2>1, <2>2, <1>2 DEF Waits
<1>17. w \notin Waits(ps, nj)
  <2> SUFFICES ASSUME w \in Waits(ps, nj) PROVE FALSE
    OBVIOUS
  <2>1. w \in WaitsOf(ps, nj, p)
    BY <1>1, <1>2, WaitsTypes DEF w
  <2>2. CASE \E i \in Mine(nj, p) : nj[i].rx = j.rx
    BY <2>2, <1>2, <1>5, <1>10
  <2>3. CASE \E i \in DOMAIN ps[p].reactions : ps[p].reactions[i] = j.rx
    <3>1. PICK i \in DOMAIN ps[p].reactions : ps[p].reactions[i] = j.rx
      BY <2>3
    <3>2. i \in 1 .. Len(ps[p].reactions)
      BY <1>1, <1>2, DataFields
    <3>3. j.rx.id = Last(ps, p) + i
      BY <3>1, <3>2, <1>9 DEF InOrder
    <3> QED
      BY <3>2, <3>3, <1>2, <1>11, <1>12
  <2> QED
    BY <2>1, <2>2, <2>3 DEF WaitsOf, w
<1>18. ps[p].state \in Settled /\ j.reject = (ps[p].state = "rejected") /\ j.arg = ps[p].result
  BY <1>2, <1>4, <1>9 DEF InOrder
<1> QED
  BY <1>2, <1>7, <1>15, <1>16, <1>17, <1>18 DEF nj, j, p, ns, w, Begun

---------------------------------------------------------------------------
(* The building blocks keep the ways of settling a promise.                *)

(* They depend on the states, the results and the calls of then only.      *)
LEMMA WaysSame ==
    ASSUME NEW ps, NEW op, NEW jb, NEW pr, NEW ns, NEW nj, Ways(ps, op, jb, pr),
           \A p \in Promise : ns[p].state = ps[p].state /\ ns[p].result = ps[p].result,
           Calls(nj) = Calls(jb)
    PROVE  Ways(ns, op, nj, pr)
  BY DEF Ways, Way

LEMMA WaysCreate ==
    ASSUME NEW ps \in [Promise -> PromiseData], NEW op, NEW jb, NEW pr, NEW q \in Promise,
           Ways(ps, op, jb, pr), ps[q].state = "none"
    PROVE  Ways(Create(ps, q), op \cup {<<q, 0>>}, jb, [pr EXCEPT ![q] = 1])
<1> DEFINE ns == Create(ps, q)
           no == op \cup {<<q, 0>>}
           nr == [pr EXCEPT ![q] = 1]
<1>1. /\ \A p \in Promise : p # q => ns[p] = ps[p]
      /\ ns[q].state = "pending"
  BY CreateFields
<1>2. /\ pr \in [Promise -> 0 .. MaxGen + 1] /\ op \subseteq Pair
      /\ \A p \in Promise : Way(ps, op, jb, pr, p)
  BY DEF Ways
<1>3. MaxGen \in Nat /\ 0 \in 0 .. MaxGen /\ 1 \in 0 .. MaxGen + 1 /\ 1 <= MaxGen
  BY PromisesAssumption
<1>4. nr \in [Promise -> 0 .. MaxGen + 1] /\ no \subseteq Pair
  BY <1>2, <1>3 DEF Pair
<1>5. nr[q] = 1 /\ \A p \in Promise : p # q => nr[p] = pr[p]
  BY <1>2
<1>6. \A p \in Promise, g \in 0 .. MaxGen :
          <<p, g>> \in no <=> (<<p, g>> \in op \/ (p = q /\ g = 0))
  OBVIOUS
<1> HIDE DEF ns, no, nr
<1>7. \A p \in Promise : p # q => Way(ns, no, jb, nr, p)
  <2> SUFFICES ASSUME NEW p \in Promise, p # q PROVE Way(ns, no, jb, nr, p)
    OBVIOUS
  <2>1. ns[p] = ps[p] /\ nr[p] = pr[p] /\ Way(ps, op, jb, pr, p)
    BY <1>1, <1>2, <1>5
  <2>2. \A g \in 0 .. MaxGen : <<p, g>> \in no <=> <<p, g>> \in op
    BY <1>6
  <2>3. <<p, pr[p] - 1>> \in op => <<p, nr[p] - 1>> \in no
    BY <2>1 DEF no
  <2> QED
    BY <2>1, <2>2, <2>3 DEF Way
<1>8. Way(ns, no, jb, nr, q)
  <2>1. Way(ps, op, jb, pr, q) /\ pr[q] = 0
    BY <1>2 DEF Way
  <2>2. \A g \in 0 .. MaxGen : <<q, g>> \notin op
    BY <2>1 DEF Way
  <2>3. \A g \in 0 .. MaxGen : <<q, g>> \in no => g = 0
    BY <2>2, <1>6
  <2>4. \A c \in Calls(jb) : c[1] # q
    BY <2>1 DEF Way
  <2>5. <<q, nr[q] - 1>> \in no
    BY <1>5 DEF no
  <2> QED
    BY <2>3, <2>4, <2>5, <1>1, <1>5 DEF Way, Settled
<1> QED
  BY <1>4, <1>7, <1>8 DEF Ways, ns, no, nr

(* A promise that a call of then was queued for waits for it.              *)
LEMMA CallPending ==
    ASSUME NEW ps, NEW op, NEW jb, NEW pr, Ways(ps, op, jb, pr), NEW q \in Promise, NEW v,
           <<q, v>> \in Calls(jb)
    PROVE  pr[q] \in 1 .. MaxGen /\ ps[q].state = "pending"
<1>1. pr \in [Promise -> 0 .. MaxGen + 1] /\ Way(ps, op, jb, pr, q) /\ MaxGen \in Nat
  BY Constants DEF Ways
<1>2. <<q, v>>[1] = q
  OBVIOUS
<1>3. ps[q].state = "pending" /\ pr[q] <= MaxGen
  BY <1>1, <1>2 DEF Way
<1>4. pr[q] # 0
  BY <1>1, <1>3 DEF Way
<1>5. pr[q] \in 0 .. MaxGen + 1
  BY <1>1
<1> QED
  BY <1>1, <1>3, <1>4, <1>5

(* The call of then makes another pair.                                    *)
LEMMA WaysCall ==
    ASSUME NEW ps, NEW op, NEW jb, NEW nj, NEW pr, NEW q \in Promise, NEW v,
           Ways(ps, op, jb, pr),
           Calls(jb) = Calls(nj) \cup {<<q, v>>}, \A c \in Calls(nj) : c[1] # q
    PROVE  /\ pr[q] \in 1 .. MaxGen
           /\ ps[q].state = "pending"
           /\ Ways(ps, op \cup {<<q, pr[q]>>}, nj, [pr EXCEPT ![q] = @ + 1])
<1> DEFINE n  == pr[q]
           no == op \cup {<<q, n>>}
           nr == [pr EXCEPT ![q] = @ + 1]
<1>1. /\ pr \in [Promise -> 0 .. MaxGen + 1] /\ op \subseteq Pair
      /\ \A p \in Promise : Way(ps, op, jb, pr, p)
      /\ MaxGen \in Nat
  BY PromisesAssumption DEF Ways
<1>2. ps[q].state = "pending" /\ n <= MaxGen /\ \A g \in 0 .. MaxGen : <<q, g>> \notin op
  <2>1. <<q, v>> \in Calls(jb) /\ <<q, v>>[1] = q
    OBVIOUS
  <2> QED
    BY <2>1, <1>1 DEF Way
<1>3. n \in 1 .. MaxGen
  <2>1. n # 0
    BY <1>1, <1>2 DEF Way
  <2>2. n \in 0 .. MaxGen + 1
    BY <1>1
  <2> QED
    BY <2>1, <2>2, <1>1, <1>2
<1>4. nr \in [Promise -> 0 .. MaxGen + 1] /\ no \subseteq Pair
  BY <1>1, <1>3 DEF Pair
<1>5. nr[q] = n + 1 /\ \A p \in Promise : p # q => nr[p] = pr[p]
  BY <1>1
<1>6. \A p \in Promise, g \in 0 .. MaxGen :
          <<p, g>> \in no <=> (<<p, g>> \in op \/ (p = q /\ g = n))
  OBVIOUS
<1>7. \A c \in Calls(nj) : c \in Calls(jb)
  OBVIOUS
<1> HIDE DEF no, nr, n
<1>8. \A p \in Promise : p # q => Way(ps, no, nj, nr, p)
  <2> SUFFICES ASSUME NEW p \in Promise, p # q PROVE Way(ps, no, nj, nr, p)
    OBVIOUS
  <2>1. nr[p] = pr[p] /\ Way(ps, op, jb, pr, p)
    BY <1>1, <1>5
  <2>2. \A g \in 0 .. MaxGen : <<p, g>> \in no <=> <<p, g>> \in op
    BY <1>6
  <2>3. <<p, pr[p] - 1>> \in op => <<p, nr[p] - 1>> \in no
    BY <2>1 DEF no
  <2>4. (\E c \in Calls(jb) : c[1] = p) => \E c \in Calls(nj) : c[1] = p
    <3>1. \A c \in Calls(jb) : c[1] = p => c \in Calls(nj)
      OBVIOUS
    <3> QED
      BY <3>1
  <2> QED
    BY <2>1, <2>2, <2>3, <2>4, <1>7 DEF Way
<1>9. Way(ps, no, nj, nr, q)
  <2>1. Way(ps, op, jb, pr, q)
    BY <1>1
  <2>2. \A g \in 0 .. MaxGen : <<q, g>> \in no => g = n
    BY <1>2, <1>6
  <2>3. nr[q] - 1 = n /\ nr[q] # 0
    BY <1>3, <1>5
  <2>4. <<q, nr[q] - 1>> \in no
    BY <2>3 DEF no
  <2> QED
    BY <2>1, <2>2, <2>3, <2>4, <1>2 DEF Way, Settled
<1> QED
  BY <1>2, <1>3, <1>4, <1>8, <1>9 DEF Ways, no, nr, n

(* A pair that is closed settles its promise.                              *)
LEMMA WaysSettle ==
    ASSUME NEW ps, NEW op, NEW jb, NEW pr, NEW ns, NEW nj, NEW p \in Promise,
           NEW g \in 0 .. MaxGen, Ways(ps, op, jb, pr), <<p, g>> \in op,
           \A q \in Promise : q # p => ns[q] = ps[q],
           ns[p].state \in Settled, ns[p].result # NoValue,
           ns[p].state = "fulfilled" => ns[p].result \notin Promise \cup {Thenable},
           Calls(nj) = Calls(jb)
    PROVE  Ways(ns, op \ {<<p, g>>}, nj, pr)
<1> DEFINE no == op \ {<<p, g>>}
<1>1. /\ pr \in [Promise -> 0 .. MaxGen + 1] /\ op \subseteq Pair
      /\ \A q \in Promise : Way(ps, op, jb, pr, q)
  BY DEF Ways
<1>2. \A q \in Promise, h \in 0 .. MaxGen :
          <<q, h>> \in no <=> (<<q, h>> \in op /\ ~(q = p /\ h = g))
  OBVIOUS
<1>3. no \subseteq Pair
  BY <1>1
<1>4. \A q \in Promise : q # p => Way(ns, no, nj, pr, q)
  <2> SUFFICES ASSUME NEW q \in Promise, q # p PROVE Way(ns, no, nj, pr, q)
    OBVIOUS
  <2>1. Way(ps, op, jb, pr, q) /\ ns[q] = ps[q]
    BY <1>1
  <2>2. \A h \in 0 .. MaxGen : <<q, h>> \in no <=> <<q, h>> \in op
    BY <1>2
  <2>3. <<q, pr[q] - 1>> \in op => <<q, pr[q] - 1>> \in no
    OBVIOUS
  <2> QED
    BY <2>1, <2>2, <2>3 DEF Way
<1>5. Way(ns, no, nj, pr, p)
  <2>1. Way(ps, op, jb, pr, p)
    BY <1>1
  <2>2. g = pr[p] - 1 /\ ps[p].state = "pending"
    BY <2>1 DEF Way
  <2>3. \A h \in 0 .. MaxGen : <<p, h>> \notin no
    BY <2>1, <2>2, <1>2 DEF Way
  <2>4. \A c \in Calls(nj) : c[1] # p
    BY <2>1 DEF Way
  <2>5. pr[p] # 0
    BY <2>1, <2>2 DEF Way
  <2> QED
    BY <2>3, <2>4, <2>5 DEF Way, Settled
<1> QED
  BY <1>1, <1>3, <1>4, <1>5 DEF Ways

(* A pair that is closed queues a call of then.                            *)
LEMMA WaysQueue ==
    ASSUME NEW ps, NEW op, NEW jb, NEW pr, NEW nj, NEW p \in Promise, NEW v,
           NEW g \in 0 .. MaxGen, Ways(ps, op, jb, pr), <<p, g>> \in op, g < MaxGen,
           Calls(nj) = Calls(jb) \cup {<<p, v>>}
    PROVE  Ways(ps, op \ {<<p, g>>}, nj, pr)
<1> DEFINE no == op \ {<<p, g>>}
<1>1. /\ pr \in [Promise -> 0 .. MaxGen + 1] /\ op \subseteq Pair
      /\ \A q \in Promise : Way(ps, op, jb, pr, q)
  BY DEF Ways
<1>2. \A q \in Promise, h \in 0 .. MaxGen :
          <<q, h>> \in no <=> (<<q, h>> \in op /\ ~(q = p /\ h = g))
  OBVIOUS
<1>3. no \subseteq Pair
  BY <1>1
<1>4. \A q \in Promise : q # p => Way(ps, no, nj, pr, q)
  <2> SUFFICES ASSUME NEW q \in Promise, q # p PROVE Way(ps, no, nj, pr, q)
    OBVIOUS
  <2>1. Way(ps, op, jb, pr, q)
    BY <1>1
  <2>2. \A h \in 0 .. MaxGen : <<q, h>> \in no <=> <<q, h>> \in op
    BY <1>2
  <2>3. <<q, pr[q] - 1>> \in op => <<q, pr[q] - 1>> \in no
    OBVIOUS
  <2>4. \A c \in Calls(nj) : c[1] = q => c \in Calls(jb)
    OBVIOUS
  <2>5. \A c \in Calls(jb) : c \in Calls(nj)
    OBVIOUS
  <2> QED
    BY <2>1, <2>2, <2>3, <2>4, <2>5 DEF Way
<1>5. Way(ps, no, nj, pr, p)
  <2>1. Way(ps, op, jb, pr, p)
    BY <1>1
  <2>2. g = pr[p] - 1 /\ ps[p].state = "pending"
    BY <2>1 DEF Way
  <2>3. \A h \in 0 .. MaxGen : <<p, h>> \notin no
    BY <2>1, <2>2, <1>2 DEF Way
  <2>4. <<p, v>> \in Calls(nj) /\ <<p, v>>[1] = p
    OBVIOUS
  <2>5. pr[p] <= MaxGen
    BY <2>2, <1>1, PromisesAssumption
  <2> QED
    BY <2>1, <2>2, <2>3, <2>4, <2>5 DEF Way, Settled
<1> QED
  BY <1>1, <1>3, <1>4, <1>5 DEF Ways

(* What js_promise_resolve_function_call comes to for the promise p.       *)
Resolved(ps, jb, st, pr, p, reject, v) ==
    /\ Good(promise', jobs', st)
    /\ Ways(promise', open', jobs', pr)
    /\ Waits(promise', jobs') = Waits(ps, jb)
    /\ \A q \in Promise : q # p => promise'[q] = ps[q]
    /\ \/ promise'[p] = ps[p]
       \/ /\ ps[p].state = "pending"
          /\ promise'[p].state = IF reject THEN "rejected" ELSE "fulfilled"
          /\ promise'[p].result = v
       \/ /\ ps[p].state = "pending" /\ reject = FALSE /\ v \in Promise
          /\ promise'[p].state = "rejected"
    /\ \A c \in Calls(jobs') :
          c \in Calls(jb) \/ (c = <<p, v>> /\ reject = FALSE /\ v \in Promise \cup {Thenable})

LEMMA Resolving ==
    ASSUME NEW ps, NEW op, NEW jb, NEW st, NEW pr, NEW p \in Promise, NEW g \in 0 .. MaxGen,
           NEW reject \in BOOLEAN, NEW v \in Result,
           Good(ps, jb, st), Ways(ps, op, jb, pr),
           reject = FALSE /\ v \in Promise \cup {Thenable} => g < MaxGen,
           CallResolving(ps, op, jb, p, g, reject, v)
    PROVE  Resolved(ps, jb, st, pr, p, reject, v)
<1> SUFFICES
       /\ Good(promise', jobs', st)
       /\ Ways(promise', open', jobs', pr)
       /\ Waits(promise', jobs') = Waits(ps, jb)
       /\ \A q \in Promise : q # p => promise'[q] = ps[q]
       /\ \/ promise'[p] = ps[p]
          \/ /\ ps[p].state = "pending"
             /\ promise'[p].state = IF reject THEN "rejected" ELSE "fulfilled"
             /\ promise'[p].result = v
          \/ /\ ps[p].state = "pending" /\ reject = FALSE /\ v \in Promise
             /\ promise'[p].state = "rejected"
       /\ \A c \in Calls(jobs') :
             c \in Calls(jb) \/ (c = <<p, v>> /\ reject = FALSE /\ v \in Promise \cup {Thenable})
  BY DEF Resolved
<1>1. /\ TypeErr \in Result /\ TypeErr \notin Promise \cup {Thenable} /\ TypeErr # NoValue
      /\ v # NoValue
  BY PromisesAssumption, Constants DEF Result, Value
<1>2. CASE <<p, g>> \notin op
  <2>1. promise' = ps /\ jobs' = jb /\ open' = op
    BY <1>2 DEF CallResolving
  <2> QED
    BY <2>1
<1>3. CASE <<p, g>> \in op /\ (reject \/ v \notin Promise \cup {Thenable})
  <2>1. promise' = Settle(ps, p, v, reject) /\ jobs' = jb \o SettleJobs(ps, p, v, reject)
        /\ open' = op \ {<<p, g>>}
    BY <1>3 DEF CallResolving
  <2>p. promise' = Settle(ps, p, v, reject)
    BY <2>1
  <2>2. ps[p].state = "pending"
    BY <1>3 DEF Ways, Way
  <2>3. /\ Good(promise', jobs', st) /\ Calls(jobs') = Calls(jb)
        /\ Waits(promise', jobs') = Waits(ps, jb)
    <3>1. ps \in [Promise -> PromiseData] /\ jb \in Seq(Job) /\ Mine(jb, p) = {}
      BY <2>2, MineNone DEF Good
    <3>j. Joined(jobs', jb, SettleJobs(ps, p, v, reject))
      BY <1>1, <2>1, <2>2, <3>1, SettleJobsFields DEF Joined
    <3>2. Good(promise', jobs', st)
      BY <1>1, <2>p, <3>j, <2>2, GoodSettle
    <3>3. Calls(jobs') = Calls(jb)
      BY <1>1, <2>p, <3>j, <2>2, <3>1, SettleCalls
    <3>4. Waits(promise', jobs') = Waits(ps, jb)
      BY <1>1, <2>p, <3>j, <2>2, <3>1, SettleWaits
    <3> QED
      BY <3>2, <3>3, <3>4
  <2>4. /\ \A q \in Promise : q # p => promise'[q] = ps[q]
        /\ promise'[p].state = IF reject THEN "rejected" ELSE "fulfilled"
        /\ promise'[p].result = v
    <3>1. ps \in [Promise -> PromiseData]
      BY DEF Good
    <3> QED
      BY <2>1, <2>2, <3>1, SettleFields
  <2>5. Ways(promise', open', jobs', pr)
    <3>1. promise'[p].state \in Settled /\ promise'[p].result # NoValue
      BY <1>1, <2>4 DEF Settled
    <3>2. promise'[p].state = "fulfilled" => promise'[p].result \notin Promise \cup {Thenable}
      BY <1>3, <2>4
    <3>3. <<p, g>> \in op /\ Calls(jobs') = Calls(jb)
      BY <1>3, <2>3
    <3>4. \A q \in Promise : q # p => promise'[q] = ps[q]
      BY <2>4
    <3>5. Ways(promise', op \ {<<p, g>>}, jobs', pr)
      BY <3>1, <3>2, <3>3, <3>4, WaysSettle
    <3> QED
      BY <2>1, <3>5
  <2> QED
    BY <2>2, <2>3, <2>4, <2>5
<1>4. CASE <<p, g>> \in op /\ ~reject /\ v = p
  <2>1. /\ promise' = Settle(ps, p, TypeErr, TRUE)
        /\ jobs' = jb \o SettleJobs(ps, p, TypeErr, TRUE)
        /\ open' = op \ {<<p, g>>}
    BY <1>4 DEF CallResolving
  <2>p. promise' = Settle(ps, p, TypeErr, TRUE)
    BY <2>1
  <2>2. ps[p].state = "pending"
    BY <1>4 DEF Ways, Way
  <2>3. /\ Good(promise', jobs', st) /\ Calls(jobs') = Calls(jb)
        /\ Waits(promise', jobs') = Waits(ps, jb)
    <3>1. ps \in [Promise -> PromiseData] /\ jb \in Seq(Job) /\ Mine(jb, p) = {}
      BY <2>2, MineNone DEF Good
    <3>j. Joined(jobs', jb, SettleJobs(ps, p, TypeErr, TRUE))
      BY <1>1, <2>1, <2>2, <3>1, SettleJobsFields DEF Joined
    <3>2. Good(promise', jobs', st)
      BY <1>1, <2>p, <3>j, <2>2, GoodSettle
    <3>3. Calls(jobs') = Calls(jb)
      <4>1. ASSUME NEW r, Joined(jobs', jb, SettleJobs(ps, p, TypeErr, r))
            PROVE  Calls(jobs') = Calls(jb)
        BY <1>1, <2>2, <3>1, <4>1, SettleCalls
      <4> QED
        BY <3>j, <4>1, Zenon
    <3>4. Waits(promise', jobs') = Waits(ps, jb)
      <4>1. ASSUME NEW r, Joined(jobs', jb, SettleJobs(ps, p, TypeErr, r)),
                   promise' = Settle(ps, p, TypeErr, r)
            PROVE  Waits(promise', jobs') = Waits(ps, jb)
        BY <1>1, <2>2, <3>1, <4>1, SettleWaits
      <4> QED
        BY <2>p, <3>j, <4>1, Zenon
    <3> QED
      BY <3>2, <3>3, <3>4
  <2>4. /\ \A q \in Promise : q # p => promise'[q] = ps[q]
        /\ promise'[p].state = "rejected"
        /\ promise'[p].result = TypeErr
    <3>1. ps \in [Promise -> PromiseData]
      BY DEF Good
    <3>2. \A r : /\ \A q \in Promise : q # p => Settle(ps, p, TypeErr, r)[q] = ps[q]
                 /\ Settle(ps, p, TypeErr, r)[p].result = TypeErr
      BY <1>1, <2>2, <3>1, SettleFields
    <3>3. Settle(ps, p, TypeErr, TRUE)[p].state = "rejected"
      BY <2>2, <3>1 DEF Settle, PromiseData
    <3> QED
      BY <2>1, <3>2, <3>3
  <2>5. Ways(promise', open', jobs', pr)
    <3>1. promise'[p].state \in Settled /\ promise'[p].result # NoValue
      BY <1>1, <2>4 DEF Settled
    <3>2. promise'[p].state = "fulfilled" => promise'[p].result \notin Promise \cup {Thenable}
      BY <2>4
    <3>3. <<p, g>> \in op /\ Calls(jobs') = Calls(jb)
      BY <1>4, <2>3
    <3>4. \A q \in Promise : q # p => promise'[q] = ps[q]
      BY <2>4
    <3>5. Ways(promise', op \ {<<p, g>>}, jobs', pr)
      BY <3>1, <3>2, <3>3, <3>4, WaysSettle
    <3> QED
      BY <2>1, <3>5
  <2> QED
    BY <1>4, <2>2, <2>3, <2>4, <2>5
<1>5. CASE <<p, g>> \in op /\ ~reject /\ v \in Promise \cup {Thenable} /\ v # p
  <2>1. promise' = ps /\ jobs' = Append(jb, CallOf(p, v)) /\ open' = op \ {<<p, g>>}
    BY <1>5 DEF CallResolving, CallOf
  <2>2. \A c \in Calls(jb) : c[1] # p
    BY <1>5 DEF Ways, Way
  <2>3. /\ Good(promise', jobs', st) /\ Calls(jobs') = Calls(jb) \cup {<<p, v>>}
        /\ Waits(promise', jobs') = Waits(ps, jb)
    BY <1>5, <2>1, <2>2, GoodCall
  <2>4. Ways(promise', open', jobs', pr)
    BY <1>5, <2>1, <2>3, WaysQueue
  <2> QED
    BY <1>5, <2>1, <2>3, <2>4
<1> QED
  BY <1>2, <1>3, <1>4, <1>5

---------------------------------------------------------------------------
(* What every step has to show of the parts that it does not touch.        *)
LEMMA ExistsState ==
    /\ \A p \in Promise : Exists(p) <=> promise[p].state # "none"
    /\ \A p \in Promise : Exists(p)' <=> promise'[p].state # "none"
  BY DEF Exists, New

LEMMA RolesKept ==
    ASSUME IndInv,
           \A p \in Promise : promise[p].state # "none" => promise'[p].state # "none",
           \A p \in Promise : promise[p].state # "none" => allOf'[p].kind = allOf[p].kind,
           \A p \in Promise : promise'[p].state = "none" => allOf'[p] = NoAll,
           \A w \in Waits(promise', jobs') :
              w \in Waits(promise, jobs) \/ (w[1] \in Promise /\ Exists(w[1])' /\ Fits(w[2])'),
           \A c \in Calls(jobs') :
              c \in Calls(jobs) \/ (Ordinary(c[1])' /\ (c[2] \in Promise => Exists(c[2])')),
           \A i \in DOMAIN stack' :
              \/ i \in DOMAIN stack /\ stack'[i] = stack[i]
              \/ stack'[i].type = "reaction" /\ Ordinary(stack[i].rx.to)',
           \A x \in exposed' : x \in exposed \/ Ordinary(x[1])',
           \A p \in Promise : async'[p] # "none" => async[p] # "none" \/ Ordinary(p)'
    PROVE  Roles'
<1>1. Roles /\ TypeOK
  BY DEF IndInv
<1>2. \A p \in Promise : Exists(p) => Exists(p)' /\ allOf'[p].kind = allOf[p].kind
  BY ExistsState
<1>3. \A p \in Promise : Ordinary(p) => Ordinary(p)'
  BY <1>2 DEF Ordinary
<1>4. ASSUME NEW w \in Waits(promise', jobs') PROVE Exists(w[1])' /\ Fits(w[2])'
  <2>1. CASE w \in Waits(promise, jobs)
    <3>1. w[1] \in Promise /\ w[2] \in Reaction
      BY <1>1, <2>1, WaitsTypes DEF TypeOK
    <3>2. Exists(w[1]) /\ Fits(w[2]) /\ w[2].to \in Promise
      BY <1>1, <2>1, <3>1, ReactionFields DEF Roles
    <3>3. Fits(w[2])'
      BY <1>2, <3>2 DEF Fits
    <3> QED
      BY <1>2, <3>1, <3>2, <3>3
  <2> QED
    BY <1>4, <2>1
<1>5. ASSUME NEW c \in Calls(jobs')
      PROVE  Ordinary(c[1])' /\ (c[2] \in Promise => Exists(c[2])')
  <2>1. CASE c \in Calls(jobs)
    <3>1. c[1] \in Promise
      BY <1>1, <2>1, CallsTypes DEF TypeOK
    <3>2. Ordinary(c[1]) /\ (c[2] \in Promise => Exists(c[2]))
      BY <1>1, <2>1 DEF Roles
    <3> QED
      BY <1>2, <1>3, <3>1, <3>2
  <2> QED
    BY <1>5, <2>1
<1>6. ASSUME NEW i \in DOMAIN stack'
      PROVE  stack'[i].type = "reaction" /\ Ordinary(stack[i].rx.to)'
  <2>1. CASE i \in DOMAIN stack /\ stack'[i] = stack[i]
    <3>1. stack[i].type = "reaction" /\ Ordinary(stack[i].rx.to)
      BY <1>1, <2>1 DEF Roles
    <3>2. stack[i] \in Job
      BY <1>1, <2>1 DEF TypeOK
    <3>3. stack[i].rx.to \in Promise
      BY <3>1, <3>2, JobFields, ReactionFields
    <3> QED
      BY <1>3, <2>1, <3>1, <3>3
  <2> QED
    BY <1>6, <2>1
<1>7. ASSUME NEW x \in exposed' PROVE Ordinary(x[1])'
  <2>1. CASE x \in exposed
    <3>1. x[1] \in Promise
      BY <1>1, <2>1 DEF TypeOK, Pair
    <3>2. Ordinary(x[1])
      BY <1>1, <2>1 DEF Roles
    <3> QED
      BY <1>3, <3>1, <3>2
  <2> QED
    BY <1>7, <2>1
<1>8. ASSUME NEW p \in Promise, async'[p] # "none" PROVE Ordinary(p)'
  <2>1. CASE async[p] # "none"
    BY <1>1, <1>3, <2>1 DEF Roles
  <2> QED
    BY <1>8, <2>1
<1>9. \A p \in Promise : ~Exists(p)' => allOf'[p] = NoAll
  BY ExistsState
<1>10. NoAll' = NoAll
  BY DEF NoAll
<1> QED
  BY <1>4, <1>5, <1>6, <1>7, <1>8, <1>9, <1>10 DEF Roles

LEMMA AwaitKept ==
    ASSUME IndInv,
           \A q \in Promise : async'[q] = "suspended" <=> async[q] = "suspended",
           \A w \in Waits(promise', jobs') :
              w[2].kind = "await" => w \in Waits(promise, jobs),
           \A w \in Waits(promise, jobs) :
              w[2].kind = "await" => w \in Waits(promise', jobs')
    PROVE  OneAwait'
<1>1. OneAwait
  BY DEF IndInv
<1>2. \A w, q : Awaits(w, q)' <=> Awaits(w, q)
  BY DEF Awaits
<1>3. \A w, q : Awaits(w, q) => w[2].kind = "await"
  BY DEF Awaits
<1>4. ASSUME NEW q \in Promise
      PROVE  /\ async'[q] # "suspended" => \A w \in Waits(promise', jobs') : ~Awaits(w, q)
             /\ async'[q] = "suspended" => \E w \in Waits(promise', jobs') : Awaits(w, q)
             /\ \A w, x \in Waits(promise', jobs') : Awaits(w, q) /\ Awaits(x, q) => w = x
  BY <1>1, <1>3 DEF OneAwait
<1> QED
  BY <1>4 DEF OneAwait, Awaits

LEMMA CountedExists ==
    ASSUME IndInv, NEW r \in Promise, allOf[r].kind # "none"
    PROVE  promise[r].state # "none"
<1>1. ~Exists(r) => allOf[r] = NoAll
  BY DEF IndInv, Roles
<1>2. NoAll.kind = "none"
  BY DEF NoAll
<1> QED
  BY <1>1, <1>2, ExistsState

LEMMA EnvironmentFields ==
    ASSUME NEW a \in Environment
    PROVE  /\ a.of \subseteq Promise /\ a.remaining \in Int
           /\ a.called \subseteq Promise \X BOOLEAN
           /\ a.values \in [Promise -> Result \cup {NoValue}]
           /\ a.kind \in Combinator \cup {"none"} /\ a.failed \in BOOLEAN
           /\ a.kind = "none" => a.of = {}
  BY DEF Environment

LEMMA AllTypes ==
    ASSUME TypeOK, NEW r \in Promise
    PROVE  allOf[r] \in Environment
  BY DEF TypeOK

(* The parts of Elements, when the environment stays as it is.             *)
LEMMA LinkedLess ==
    ASSUME NEW a, NEW r, NEW W, NEW V, Linked(a, r, W),
           \A w \in V : w \in W \/ ~For(w, a, r)
    PROVE  Linked(a, r, V)
  BY DEF Linked

LEMMA PlacedKept ==
    ASSUME NEW a \in Environment, NEW ps, NEW ns, Placed(a, ps),
           \A p \in Promise : ps[p].state \in Settled =>
              ns[p].state = ps[p].state /\ ns[p].result = ps[p].result
    PROVE  Placed(a, ns)
<1>1. a.of \subseteq Promise
  BY EnvironmentFields
<1> QED
  BY <1>1 DEF Placed

LEMMA EndKept ==
    ASSUME NEW a \in Environment, NEW ps, NEW ns, NEW r, EndOf(a, ps, r),
           \A p \in Promise : ps[p].state \in Settled =>
              ns[p].state = ps[p].state /\ ns[p].result = ps[p].result,
           ns[r].state = ps[r].state, ns[r].result = ps[r].result
    PROVE  EndOf(a, ns, r)
<1>1. a.of \subseteq Promise
  BY EnvironmentFields
<1>2. ns[r].result = Array /\ ns[r].state = GoodEnd(a) /\ ~Twice(a) => Missing(a) = {} /\ ~a.failed
  BY DEF EndOf
<1>3. ns[r].state \in Settled \ {GoodEnd(a)} /\ a.of \cap Own = {} =>
          \E p \in a.of : ns[p].state = ns[r].state /\ ns[p].result = ns[r].result
  BY <1>1 DEF EndOf
<1> QED
  BY <1>2, <1>3 DEF EndOf

(* The elements of a combinator that a step leaves as it is.               *)
LEMMA ElementsKept ==
    ASSUME IndInv, NEW r \in Promise, Elements(r), allOf'[r] = allOf[r],
           \A w \in Waits(promise', jobs') :
              w \in Waits(promise, jobs) \/ w[2].kind # allOf[r].kind \/ w[2].to # r,
           \A p \in Promise : promise[p].state \in Settled =>
              promise'[p].state = promise[p].state /\ promise'[p].result = promise[p].result,
           promise'[r].state = promise[r].state, promise'[r].result = promise[r].result
    PROVE  Elements(r)'
<1> PICK a : a = allOf[r]
  OBVIOUS
<1>1. /\ Linked(a, r, Waits(promise, jobs)) /\ Booked(a) /\ Placed(a, promise)
      /\ EndOf(a, promise, r)
  BY DEF Elements
<1>2. a \in Environment
  BY AllTypes DEF IndInv
<1>3. \A w \in Waits(promise', jobs') : w \in Waits(promise, jobs) \/ ~For(w, a, r)
  BY DEF For
<1>4. Linked(a, r, Waits(promise', jobs'))
  BY <1>1, <1>3, LinkedLess
<1>5. Placed(a, promise')
  BY <1>1, <1>2, PlacedKept
<1>6. EndOf(a, promise', r)
  BY <1>1, <1>2, EndKept
<1> QED
  BY <1>1, <1>4, <1>5, <1>6 DEF Elements

LEMMA CompleteKept ==
    ASSUME IndInv,
           \A r \in Promise : allOf'[r].kind \in Counted => allOf'[r] = allOf[r],
           \A w \in Waits(promise', jobs') :
              w \in Waits(promise, jobs) \/ w[2].kind \notin Counted,
           \A p \in Promise : promise[p].state \in Settled =>
              promise'[p].state = promise[p].state /\ promise'[p].result = promise[p].result,
           \A r \in Promise : allOf[r].kind \in Counted =>
              promise'[r].state = promise[r].state /\ promise'[r].result = promise[r].result
    PROVE  Complete'
<1> SUFFICES ASSUME NEW r \in Promise, allOf'[r].kind \in Counted PROVE Elements(r)'
  BY DEF Complete, Counted
<1>1. allOf'[r] = allOf[r] /\ allOf[r].kind \in Counted
  OBVIOUS
<1>2. Elements(r)
  BY <1>1 DEF IndInv, Complete
<1>3. \A w \in Waits(promise', jobs') :
          w \in Waits(promise, jobs) \/ w[2].kind # allOf[r].kind \/ w[2].to # r
  BY <1>1
<1>4. promise'[r].state = promise[r].state /\ promise'[r].result = promise[r].result
  BY <1>1
<1> QED
  BY <1>1, <1>2, <1>3, <1>4, ElementsKept
---------------------------------------------------------------------------
(* The steps of scripts.                                                   *)
LEMMA TypesKept ==
    ASSUME Good(promise', jobs', started'), Ways(promise', open', jobs', pairs'),
           exposed' \subseteq Pair, stack' \in Seq(Job),
           async' \in [Promise -> {"none", "running", "suspended", "done"}],
           allOf' \in [Promise -> Environment]
    PROVE  TypeOK'
  BY DEF Good, Ways, TypeOK

LEMMA FirstPair == 0 \in 0 .. MaxGen /\ \A q \in Promise : <<q, 0>> \in Pair
<1>1. 0 \in 0 .. MaxGen
  BY PromisesAssumption
<1> QED
  BY <1>1 DEF Pair

(* A promise that is new is nowhere yet.                                   *)
LEMMA Fresh ==
    ASSUME IndInv, NEW q, NewCapability(q)
    PROVE  /\ q \in Promise /\ promise[q].state = "none"
           /\ allOf[q] = NoAll /\ async[q] = "none"
           /\ pairs' = [pairs EXCEPT ![q] = 1]
           /\ \A w \in Waits(promise, jobs) : w[2].to # q
           /\ \A r \in Promise : allOf[r].kind # "none" => r # q
<1>1. q \in Promise /\ promise[q].state = "none" /\ pairs' = [pairs EXCEPT ![q] = 1]
  BY DEF NewCapability, New
<1>2. ~Exists(q)
  BY <1>1, ExistsState
<1>3. allOf[q] = NoAll /\ async[q] = "none"
  BY <1>1, <1>2 DEF IndInv, Roles, Ordinary
<1>4. \A w \in Waits(promise, jobs) : w[2].to # q
  BY <1>2 DEF IndInv, Roles, Fits
<1>5. \A r \in Promise : allOf[r].kind # "none" => r # q
  BY <1>1, CountedExists
<1> QED
  BY <1>1, <1>3, <1>4, <1>5

LEMMA Created ==
    ASSUME IndInv, NEW q, NewCapability(q), NEW ps, ps = Create(promise, q)
    PROVE  /\ Good(ps, jobs, started)
           /\ Ways(ps, open \cup {<<q, 0>>}, jobs, pairs')
           /\ Waits(ps, jobs) = Waits(promise, jobs)
           /\ \A p \in Promise : p # q => ps[p] = promise[p]
           /\ ps[q].state = "pending"
<1>1. q \in Promise /\ promise[q].state = "none" /\ pairs' = [pairs EXCEPT ![q] = 1]
  BY Fresh
<1>2. Good(promise, jobs, started) /\ Ways(promise, open, jobs, pairs)
      /\ promise \in [Promise -> PromiseData]
  BY DEF IndInv, TypeOK
<1>3. Good(ps, jobs, started) /\ Waits(ps, jobs) = Waits(promise, jobs)
  BY <1>1, <1>2, GoodCreate
<1>4. Ways(ps, open \cup {<<q, 0>>}, jobs, pairs')
  BY <1>1, <1>2, WaysCreate
<1> QED
  BY <1>1, <1>2, <1>3, <1>4, CreateFields

(* A step that makes an ordinary promise q: the rest of the invariant.     *)
LEMMA NewPromiseKeeps ==
    ASSUME IndInv, NEW q \in Promise, NewPromise(q)
    PROVE  IndInv'
<1>1. /\ NewCapability(q) /\ promise' = Create(promise, q) /\ open' = open \cup {<<q, 0>>}
      /\ exposed' = exposed \cup {<<q, 0>>}
      /\ jobs' = jobs /\ started' = started /\ stack' = stack /\ async' = async
      /\ allOf' = allOf
  BY DEF NewPromise
<1>2. promise[q].state = "none" /\ allOf[q] = NoAll
      /\ \A r \in Promise : allOf[r].kind # "none" => r # q
  BY <1>1, Fresh
<1>3. /\ Good(promise', jobs', started') /\ Ways(promise', open', jobs', pairs')
      /\ Waits(promise', jobs') = Waits(promise, jobs)
      /\ \A p \in Promise : p # q => promise'[p] = promise[p]
      /\ promise'[q].state = "pending"
  BY <1>1, Created
<1>4. TypeOK'
  BY <1>1, <1>3, TypesKept, FirstPair DEF IndInv, TypeOK
<1>5. Ordinary(q)'
  BY <1>1, <1>2, <1>3, ExistsState DEF Ordinary, NoAll
<1>6. Roles'
  <2>1. \A p \in Promise : promise[p].state # "none" => promise'[p].state # "none"
    BY <1>2, <1>3
  <2>2. \A p \in Promise : promise'[p].state = "none" => allOf'[p] = NoAll
    BY <1>1, <1>3, ExistsState DEF IndInv, Roles
  <2>3. \A x \in exposed' : x \in exposed \/ Ordinary(x[1])'
    BY <1>1, <1>5
  <2> QED
    BY <1>1, <1>3, <2>1, <2>2, <2>3, RolesKept
<1>7. OneAwait'
  BY <1>1, <1>3, AwaitKept
<1>8. Complete'
  <2>1. \A p \in Promise : promise[p].state \in Settled =>
            promise'[p].state = promise[p].state /\ promise'[p].result = promise[p].result
    BY <1>2, <1>3 DEF Settled
  <2>2. \A r \in Promise : allOf[r].kind \in Counted =>
            promise'[r].state = promise[r].state /\ promise'[r].result = promise[r].result
    BY <1>2, <1>3 DEF Counted
  <2> QED
    BY <1>1, <1>3, <2>1, <2>2, CompleteKept
<1> QED
  BY <1>3, <1>4, <1>6, <1>7, <1>8 DEF IndInv
LEMMA AsyncCallKeeps ==
    ASSUME IndInv, NEW q \in Promise, AsyncCall(q)
    PROVE  IndInv'
<1>1. /\ NewCapability(q) /\ promise' = Create(promise, q) /\ open' = open \cup {<<q, 0>>}
      /\ async' = [async EXCEPT ![q] = "running"]
      /\ exposed' = exposed /\ jobs' = jobs /\ started' = started /\ stack' = stack
      /\ allOf' = allOf
  BY DEF AsyncCall
<1>2. promise[q].state = "none" /\ allOf[q] = NoAll /\ async[q] = "none"
      /\ \A r \in Promise : allOf[r].kind # "none" => r # q
  BY <1>1, Fresh
<1>3. /\ Good(promise', jobs', started') /\ Ways(promise', open', jobs', pairs')
      /\ Waits(promise', jobs') = Waits(promise, jobs)
      /\ \A p \in Promise : p # q => promise'[p] = promise[p]
      /\ promise'[q].state = "pending"
  BY <1>1, Created
<1>4. /\ async' \in [Promise -> {"none", "running", "suspended", "done"}]
      /\ async'[q] = "running" /\ \A p \in Promise : p # q => async'[p] = async[p]
  BY <1>1 DEF IndInv, TypeOK
<1>5. TypeOK'
  BY <1>1, <1>3, <1>4, TypesKept DEF IndInv, TypeOK
<1>6. Ordinary(q)'
  BY <1>1, <1>2, <1>3, ExistsState DEF Ordinary, NoAll
<1>7. Roles'
  <2>1. \A p \in Promise : promise[p].state # "none" => promise'[p].state # "none"
    BY <1>2, <1>3
  <2>2. \A p \in Promise : promise'[p].state = "none" => allOf'[p] = NoAll
    BY <1>1, <1>3, ExistsState DEF IndInv, Roles
  <2>3. \A p \in Promise : async'[p] # "none" => async[p] # "none" \/ Ordinary(p)'
    BY <1>4, <1>6
  <2> QED
    BY <1>1, <1>3, <2>1, <2>2, <2>3, RolesKept
<1>8. OneAwait'
  <2>1. \A p \in Promise : async'[p] = "suspended" <=> async[p] = "suspended"
    BY <1>2, <1>4
  <2> QED
    BY <1>1, <1>3, <2>1, AwaitKept
<1>9. Complete'
  <2>1. \A p \in Promise : promise[p].state \in Settled =>
            promise'[p].state = promise[p].state /\ promise'[p].result = promise[p].result
    BY <1>2, <1>3 DEF Settled
  <2>2. \A r \in Promise : allOf[r].kind \in Counted =>
            promise'[r].state = promise[r].state /\ promise'[r].result = promise[r].result
    BY <1>2, <1>3 DEF Counted
  <2> QED
    BY <1>1, <1>3, <2>1, <2>2, CompleteKept
<1> QED
  BY <1>3, <1>5, <1>7, <1>8, <1>9 DEF IndInv

LEMMA ReactFields ==
    ASSUME NEW kind \in {"then", "adopt", "await"} \cup Combinator, NEW to \in Promise,
           NEW gen \in 0 .. MaxGen, NEW f \in BOOLEAN, NEW r \in BOOLEAN
    PROVE  /\ React(kind, to, gen, f, r) \in Reaction
           /\ React(kind, to, gen, f, r).kind = kind
           /\ React(kind, to, gen, f, r).to = to
  BY DEF React, Reaction

LEMMA ThenSame ==
    ASSUME NEW ps, NEW ns, NEW p, NEW rx, ns[p] = ps[p]
    PROVE  ThenJobs(ns, p, rx) = ThenJobs(ps, p, rx) /\ Numbered(ns, p, rx) = Numbered(ps, p, rx)
  BY DEF ThenJobs, JobOf, Numbered

(* perform_promise_then for the promises ps and the jobs jb.               *)
PerformThen(ps, jb, p, rx, ns, nj) ==
    ns = AddReaction(ps, p, rx) /\ nj = jb \o ThenJobs(ps, p, rx)

(* It keeps order and ways, and leaves one more reaction to be started.    *)
Extended(ps, jb, op, st, pr, p, rx, ns, nj, w) ==
    /\ Good(ns, nj, st) /\ Ways(ns, op, nj, pr)
    /\ Calls(nj) = Calls(jb)
    /\ Waits(ns, nj) = Waits(ps, jb) \cup {w}
    /\ w[1] = p /\ w[2].kind = rx.kind /\ w[2].to = rx.to
    /\ \A q \in Promise : ns[q].state = ps[q].state /\ ns[q].result = ps[q].result
    /\ \A q \in Promise : q # p => ns[q] = ps[q]

LEMMA Added ==
    ASSUME NEW ps, NEW op, NEW jb, NEW st, NEW pr, NEW p \in Promise, NEW rx \in Reaction,
           Good(ps, jb, st), Ways(ps, op, jb, pr), ps[p].state # "none",
           NEW ns, NEW nj, PerformThen(ps, jb, p, rx, ns, nj),
           NEW w, w = <<p, Numbered(ps, p, rx)>>
    PROVE  Extended(ps, jb, op, st, pr, p, rx, ns, nj, w)
<1> DEFINE t == ThenJobs(ps, p, rx)
<1>1. ps \in [Promise -> PromiseData] /\ jb \in Seq(Job)
  BY DEF Good
<1>2. ps[p].state \in Settled => ps[p].result # NoValue
  BY DEF Ways, Way
<1>3. t \in Seq(Job)
  <2>1. CASE ps[p].state = "pending"
    BY <2>1 DEF ThenJobs
  <2>2. CASE ps[p].state \in Settled
    BY <2>2, <1>1, <1>2, ThenJobsFields
  <2> QED
    BY <1>1, <2>1, <2>2, DataFields
<1>4. Joined(nj, jb, t)
  BY <1>1, <1>3 DEF Joined, PerformThen
<1>5. Joined(nj, jb, ThenJobs(ps, p, rx)) /\ ns = AddReaction(ps, p, rx)
  BY <1>4 DEF PerformThen
<1>6. Good(ns, nj, st) /\ Calls(nj) = Calls(jb) /\ Waits(ns, nj) = Waits(ps, jb) \cup {w}
  BY <1>2, <1>5, GoodAdd
<1>7. /\ \A q \in Promise : ns[q].state = ps[q].state /\ ns[q].result = ps[q].result
      /\ \A q \in Promise : q # p => ns[q] = ps[q]
  BY <1>1, <1>5, AddFields
<1>8. Ways(ns, op, nj, pr)
  BY <1>6, <1>7, WaysSame
<1>9. w[1] = p /\ w[2].kind = rx.kind /\ w[2].to = rx.to
  BY <1>1, NumberedFields
<1> QED
  BY <1>6, <1>7, <1>8, <1>9 DEF Extended

LEMMA ThenKeeps ==
    ASSUME IndInv, NEW p \in Promise, NEW q \in Promise, NEW f \in BOOLEAN, NEW r \in BOOLEAN,
           Then(p, q, f, r)
    PROVE  IndInv'
<1> DEFINE rx == React("then", q, 0, f, r)
           ps == Create(promise, q)
<1>1. /\ NewCapability(q) /\ Exists(p) /\ open' = open \cup {<<q, 0>>}
      /\ promise' = AddReaction(ps, p, rx) /\ jobs' = jobs \o ThenJobs(promise, p, rx)
      /\ exposed' = exposed /\ started' = started /\ stack' = stack /\ async' = async
      /\ allOf' = allOf
  BY DEF Then, CanThen
<1>2. promise[q].state = "none" /\ allOf[q] = NoAll
      /\ \A x \in Promise : allOf[x].kind # "none" => x # q
  BY <1>1, Fresh
<1>3. promise[p].state # "none" /\ p # q
  BY <1>1, <1>2, ExistsState
<1>4. /\ Good(ps, jobs, started) /\ Ways(ps, open', jobs, pairs')
      /\ Waits(ps, jobs) = Waits(promise, jobs)
      /\ \A x \in Promise : x # q => ps[x] = promise[x]
      /\ ps[q].state = "pending"
  BY <1>1, Created
<1>5. rx \in Reaction /\ rx.kind = "then" /\ rx.to = q
  BY FirstPair, ReactFields
<1>6. ps[p] = promise[p] /\ ps[p].state # "none"
  BY <1>3, <1>4
<1> HIDE DEF rx, ps
<1>7. PerformThen(ps, jobs, p, rx, promise', jobs')
  BY <1>1, <1>6, ThenSame DEF PerformThen
<1> PICK w : w = <<p, Numbered(ps, p, rx)>>
  OBVIOUS
<1>8. /\ Good(promise', jobs', started) /\ Ways(promise', open', jobs', pairs')
      /\ Waits(promise', jobs') = Waits(ps, jobs) \cup {w}
      /\ Calls(jobs') = Calls(jobs)
      /\ w[1] = p /\ w[2].kind = rx.kind /\ w[2].to = rx.to
      /\ \A x \in Promise : promise'[x].state = ps[x].state /\ promise'[x].result = ps[x].result
  <2>1. Extended(ps, jobs, open', started, pairs', p, rx, promise', jobs', w)
    BY <1>4, <1>5, <1>6, <1>7, Added
  <2> QED
    BY <2>1 DEF Extended
<1>9. /\ Good(promise', jobs', started') /\ Ways(promise', open', jobs', pairs')
      /\ Waits(promise', jobs') = Waits(promise, jobs) \cup {w}
      /\ Calls(jobs') = Calls(jobs)
  BY <1>1, <1>4, <1>8
<1>10. /\ \A x \in Promise : x # q => /\ promise'[x].state = promise[x].state
                                      /\ promise'[x].result = promise[x].result
       /\ promise'[q].state = "pending"
  BY <1>4, <1>8
<1>11. w[1] = p /\ w[2].kind = "then" /\ w[2].to = q
  BY <1>5, <1>8
<1>12. TypeOK'
  BY <1>1, <1>9, TypesKept DEF IndInv, TypeOK
<1>13. Exists(p)' /\ Exists(q)' /\ allOf'[q].kind = "none"
  BY <1>1, <1>2, <1>3, <1>10, ExistsState DEF NoAll
<1>14. Fits(w[2])'
  <2>1. "then" \notin Combinator
    BY PromisesAssumption
  <2> QED
    BY <1>11, <1>13, <2>1 DEF Fits
<1>15. Roles'
  <2>1. \A x \in Promise : promise[x].state # "none" => promise'[x].state # "none"
    BY <1>2, <1>10
  <2>2. \A x \in Promise : promise'[x].state = "none" => allOf'[x] = NoAll
    BY <1>1, <1>10, ExistsState DEF IndInv, Roles
  <2>3. \A x \in Waits(promise', jobs') :
           x \in Waits(promise, jobs) \/ (x[1] \in Promise /\ Exists(x[1])' /\ Fits(x[2])')
    BY <1>9, <1>11, <1>13, <1>14
  <2> QED
    BY <1>1, <1>9, <2>1, <2>2, <2>3, RolesKept
<1>16. OneAwait'
  BY <1>1, <1>9, <1>11, AwaitKept
<1>17. Complete'
  <2>1. \A x \in Promise : promise[x].state \in Settled =>
            promise'[x].state = promise[x].state /\ promise'[x].result = promise[x].result
    BY <1>2, <1>10 DEF Settled
  <2>2. \A x \in Promise : allOf[x].kind \in Counted =>
            promise'[x].state = promise[x].state /\ promise'[x].result = promise[x].result
    BY <1>2, <1>10 DEF Counted
  <2>3. w[2].kind \notin Counted
    BY <1>11 DEF Counted
  <2> QED
    BY <1>1, <1>9, <2>1, <2>2, <2>3, CompleteKept
<1> QED
  BY <1>9, <1>12, <1>15, <1>16, <1>17 DEF IndInv
LEMMA AwaitKeeps ==
    ASSUME IndInv, NEW q \in Promise, NEW p \in Promise, Await(q, p)
    PROVE  IndInv'
<1> DEFINE rx == React("await", q, 0, TRUE, TRUE)
<1>1. /\ async[q] = "running" /\ Exists(p)
      /\ async' = [async EXCEPT ![q] = "suspended"]
      /\ PerformThen(promise, jobs, p, rx, promise', jobs')
      /\ pairs' = pairs /\ open' = open /\ exposed' = exposed /\ started' = started
      /\ stack' = stack /\ allOf' = allOf
  BY DEF Await, CanThen, PerformThen
<1>2. promise[p].state # "none"
  BY <1>1, ExistsState
<1>3. Good(promise, jobs, started) /\ Ways(promise, open, jobs, pairs)
  BY DEF IndInv
<1>4. rx \in Reaction /\ rx.kind = "await" /\ rx.to = q
  BY FirstPair, ReactFields
<1> HIDE DEF rx
<1> PICK w : w = <<p, Numbered(promise, p, rx)>>
  OBVIOUS
<1>5. /\ Good(promise', jobs', started') /\ Ways(promise', open', jobs', pairs')
      /\ Waits(promise', jobs') = Waits(promise, jobs) \cup {w}
      /\ Calls(jobs') = Calls(jobs)
      /\ w[1] = p /\ w[2].kind = "await" /\ w[2].to = q
      /\ \A x \in Promise : /\ promise'[x].state = promise[x].state
                            /\ promise'[x].result = promise[x].result
  <2>1. Extended(promise, jobs, open, started, pairs, p, rx, promise', jobs', w)
    BY <1>1, <1>2, <1>3, <1>4, Added
  <2> QED
    BY <2>1, <1>1, <1>4 DEF Extended
<1>6. /\ async' \in [Promise -> {"none", "running", "suspended", "done"}]
      /\ async'[q] = "suspended" /\ \A x \in Promise : x # q => async'[x] = async[x]
  BY <1>1 DEF IndInv, TypeOK
<1>7. TypeOK'
  BY <1>1, <1>5, <1>6, TypesKept DEF IndInv, TypeOK
<1>8. Ordinary(q)
  BY <1>1 DEF IndInv, Roles
<1>9. Exists(p)' /\ Ordinary(q)'
  BY <1>1, <1>2, <1>5, <1>8, ExistsState DEF Ordinary
<1>10. Roles'
  <2>1. Fits(w[2])'
    <3>1. "await" \notin Combinator
      BY PromisesAssumption
    <3> QED
      BY <1>5, <1>9, <3>1 DEF Fits, Ordinary
  <2>2. \A x \in Promise : promise'[x].state = "none" => allOf'[x] = NoAll
    BY <1>1, <1>5, ExistsState DEF IndInv, Roles
  <2>3. \A x \in Waits(promise', jobs') :
           x \in Waits(promise, jobs) \/ (x[1] \in Promise /\ Exists(x[1])' /\ Fits(x[2])')
    BY <1>5, <1>9, <2>1
  <2>4. \A x \in Promise : async'[x] # "none" => async[x] # "none" \/ Ordinary(x)'
    BY <1>6, <1>9
  <2> QED
    BY <1>1, <1>5, <2>2, <2>3, <2>4, RolesKept
<1>11. OneAwait'
  <2>1. OneAwait
    BY DEF IndInv
  <2>2. \A x : Awaits(w, x) <=> x = q
    BY <1>5 DEF Awaits
  <2>3. \A x \in Waits(promise, jobs) : ~Awaits(x, q)
    BY <1>1, <2>1 DEF OneAwait
  <2>4. ASSUME NEW x \in Promise
        PROVE  /\ async'[x] # "suspended" => \A y \in Waits(promise', jobs') : ~Awaits(y, x)
               /\ async'[x] = "suspended" => \E y \in Waits(promise', jobs') : Awaits(y, x)
               /\ \A y, z \in Waits(promise', jobs') : Awaits(y, x) /\ Awaits(z, x) => y = z
    <3>1. CASE x = q
      BY <3>1, <1>5, <1>6, <2>2, <2>3
    <3>2. CASE x # q
      <4>1. /\ async[x] # "suspended" => \A y \in Waits(promise, jobs) : ~Awaits(y, x)
            /\ async[x] = "suspended" => \E y \in Waits(promise, jobs) : Awaits(y, x)
            /\ \A y, z \in Waits(promise, jobs) : Awaits(y, x) /\ Awaits(z, x) => y = z
        BY <2>1 DEF OneAwait
      <4> QED
        BY <3>2, <4>1, <1>5, <1>6, <2>2
    <3> QED
      BY <3>1, <3>2
  <2> QED
    BY <2>4 DEF OneAwait, Awaits
<1>12. Complete'
  <2>1. w[2].kind \notin Counted
    BY <1>5 DEF Counted
  <2> QED
    BY <1>1, <1>5, <2>1, CompleteKept
<1> QED
  BY <1>5, <1>7, <1>10, <1>11, <1>12 DEF IndInv

(* A call of the resolving functions of an ordinary promise, while the     *)
(* jobs stay.                                                              *)
LEMMA ResolveOrdinary ==
    ASSUME IndInv, NEW p \in Promise, NEW g \in 0 .. MaxGen, NEW reject \in BOOLEAN,
           NEW v \in Result, CallResolving(promise, open, jobs, p, g, reject, v),
           reject = FALSE /\ v \in Promise \cup {Thenable} => g < MaxGen,
           v \in Promise => Exists(v), Ordinary(p),
           pairs' = pairs, started' = started, allOf' = allOf, exposed' = exposed,
           async' \in [Promise -> {"none", "running", "suspended", "done"}],
           \A q \in Promise : async'[q] = "suspended" <=> async[q] = "suspended",
           \A q \in Promise : async'[q] # "none" => async[q] # "none",
           stack' \in Seq(Job),
           \A i \in DOMAIN stack' : i \in DOMAIN stack /\ stack'[i] = stack[i]
    PROVE  IndInv'
<1>1. Good(promise, jobs, started) /\ Ways(promise, open, jobs, pairs)
  BY DEF IndInv
<1>2. Resolved(promise, jobs, started, pairs, p, reject, v)
  BY <1>1, Resolving
<1>3. /\ Good(promise', jobs', started') /\ Ways(promise', open', jobs', pairs')
      /\ Waits(promise', jobs') = Waits(promise, jobs)
      /\ \A q \in Promise : q # p => promise'[q] = promise[q]
      /\ \A c \in Calls(jobs') :
            c \in Calls(jobs) \/ (c = <<p, v>> /\ v \in Promise \cup {Thenable})
  BY <1>2 DEF Resolved
<1>4. promise'[p] = promise[p]
      \/ (promise[p].state = "pending" /\ promise'[p].state \in Settled)
  BY <1>2 DEF Resolved, Settled
<1>5. promise[p].state # "none" /\ allOf[p].kind = "none"
  BY ExistsState DEF Ordinary
<1>6. TypeOK'
  BY <1>3, TypesKept DEF IndInv, TypeOK
<1>7. \A q \in Promise : promise'[q].state # "none" <=> promise[q].state # "none"
  BY <1>3, <1>4, <1>5 DEF Settled
<1>8. Roles'
  <2>1. \A q \in Promise : promise'[q].state = "none" => allOf'[q] = NoAll
    BY <1>7, ExistsState DEF IndInv, Roles
  <2>2. \A q \in Promise : Exists(q) => Exists(q)'
    BY <1>7, ExistsState
  <2>3. Ordinary(p)'
    BY <2>2 DEF Ordinary
  <2>4. \A c \in Calls(jobs') :
           c \in Calls(jobs) \/ (Ordinary(c[1])' /\ (c[2] \in Promise => Exists(c[2])'))
    BY <1>3, <2>2, <2>3
  <2> QED
    BY <1>3, <1>7, <2>1, <2>4, RolesKept
<1>9. OneAwait'
  BY <1>3, AwaitKept
<1>10. Complete'
  <2>1. \A x \in Promise : promise[x].state \in Settled =>
            promise'[x].state = promise[x].state /\ promise'[x].result = promise[x].result
    BY <1>3, <1>4 DEF Settled
  <2>2. \A x \in Promise : allOf[x].kind \in Counted =>
            promise'[x].state = promise[x].state /\ promise'[x].result = promise[x].result
    BY <1>3, <1>5 DEF Counted
  <2> QED
    BY <1>3, <2>1, <2>2, CompleteKept
<1> QED
  BY <1>3, <1>6, <1>8, <1>9, <1>10 DEF IndInv
LEMMA CompletionTypes ==
    ASSUME NEW c \in Completion
    PROVE  /\ c[1] \in BOOLEAN /\ c[2] \in Value /\ c[2] \in Result
           /\ c[1] = TRUE => c[2] \in Plain
  BY DEF Completion, Value, Result

LEMMA ScriptSettleKeeps ==
    ASSUME IndInv, NEW p \in Promise, NEW g \in 0 .. MaxGen, NEW reject \in BOOLEAN,
           NEW v \in Result, ScriptSettle(p, g, reject, v)
    PROVE  IndInv'
<1>1. /\ <<p, g>> \in exposed /\ (v \in Promise => Exists(v))
      /\ (g = MaxGen => reject \/ v \in Plain)
      /\ CallResolving(promise, open, jobs, p, g, reject, v)
      /\ pairs' = pairs /\ exposed' = exposed /\ started' = started /\ stack' = stack
      /\ async' = async /\ allOf' = allOf
  BY DEF ScriptSettle
<1>2. reject = FALSE /\ v \in Promise \cup {Thenable} => g < MaxGen
  <2>1. v \in Promise \cup {Thenable} => v \notin Plain
    BY PromisesAssumption
  <2>2. reject = FALSE /\ v \in Promise \cup {Thenable} => g # MaxGen
    BY <1>1, <2>1
  <2> QED
    BY <2>2, Constants
<1>3. Ordinary(<<p, g>>[1])
  BY <1>1 DEF IndInv, Roles
<1>4. Ordinary(p)
  BY <1>3
<1>5. async' \in [Promise -> {"none", "running", "suspended", "done"}] /\ stack' \in Seq(Job)
  BY <1>1 DEF IndInv, TypeOK
<1> QED
  BY <1>1, <1>2, <1>4, <1>5, ResolveOrdinary

LEMMA AsyncEndKeeps ==
    ASSUME IndInv, NEW q \in Promise, NEW reject \in BOOLEAN, NEW v \in Result,
           AsyncEnd(q, reject, v)
    PROVE  IndInv'
<1>1. /\ async[q] = "running" /\ (v \in Promise => Exists(v))
      /\ async' = [async EXCEPT ![q] = "done"]
      /\ CallResolving(promise, open, jobs, q, 0, reject, v)
      /\ pairs' = pairs /\ exposed' = exposed /\ started' = started /\ stack' = stack
      /\ allOf' = allOf
  BY DEF AsyncEnd
<1>2. Ordinary(q)
  BY <1>1 DEF IndInv, Roles
<1>3. /\ async' \in [Promise -> {"none", "running", "suspended", "done"}]
      /\ stack' \in Seq(Job)
      /\ async'[q] = "done" /\ \A x \in Promise : x # q => async'[x] = async[x]
  BY <1>1 DEF IndInv, TypeOK
<1>4. 0 \in 0 .. MaxGen /\ 0 < MaxGen
  BY Constants
<1>5. /\ \A x \in Promise : async'[x] = "suspended" <=> async[x] = "suspended"
      /\ \A x \in Promise : async'[x] # "none" => async[x] # "none"
  BY <1>1, <1>3
<1> QED
  BY <1>1, <1>2, <1>3, <1>4, <1>5, ResolveOrdinary

LEMMA EndHandlerKeeps ==
    ASSUME IndInv, NEW reject \in BOOLEAN, NEW v \in Result, EndHandler(reject, v)
    PROVE  IndInv'
<1> DEFINE n == Len(stack)
<1>1. /\ stack # <<>> /\ (v \in Promise => Exists(v))
      /\ stack' = SubSeq(stack, 1, n - 1)
      /\ CallResolving(promise, open, jobs, stack[n].rx.to, 0, reject, v)
      /\ pairs' = pairs /\ exposed' = exposed /\ started' = started /\ async' = async
      /\ allOf' = allOf
  BY DEF EndHandler
<1>2. stack \in Seq(Job) /\ n \in DOMAIN stack
  BY <1>1 DEF IndInv, TypeOK
<1>3. stack' \in Seq(Job) /\ \A i \in DOMAIN stack' : i \in DOMAIN stack /\ stack'[i] = stack[i]
  BY <1>1, <1>2
<1> HIDE DEF n
<1>4. stack[n].type = "reaction" /\ Ordinary(stack[n].rx.to) /\ stack[n] \in Job
  BY <1>2 DEF IndInv, Roles
<1>5. stack[n].rx.to \in Promise
  BY <1>4, JobFields, ReactionFields
<1>6. async' \in [Promise -> {"none", "running", "suspended", "done"}]
  BY <1>1 DEF IndInv, TypeOK
<1>7. 0 \in 0 .. MaxGen /\ 0 < MaxGen
  BY Constants
<1> PICK p \in Promise : p = stack[n].rx.to
  BY <1>5
<1>8. CallResolving(promise, open, jobs, p, 0, reject, v) /\ Ordinary(p)
  BY <1>1, <1>4
<1> QED
  BY <1>1, <1>3, <1>6, <1>7, <1>8, ResolveOrdinary

---------------------------------------------------------------------------
(* The jobs.                                                               *)

(* The head of the queue, when it is a call of then.                       *)
LEMMA HeadCall ==
    ASSUME IndInv, JobReady("thenable")
    PROVE  LET j == Head(jobs)
           IN  /\ j.to \in Promise /\ Ordinary(j.to) /\ promise[j.to].state = "pending"
               /\ j.arg \in Promise => Exists(j.arg)
               /\ pairs[j.to] \in 0 .. MaxGen
               /\ Good(promise, Tail(jobs), started)
               /\ Waits(promise, Tail(jobs)) = Waits(promise, jobs)
               /\ Calls(Tail(jobs)) \subseteq Calls(jobs)
               /\ Ways(promise, open \cup {<<j.to, pairs[j.to]>>}, Tail(jobs),
                       [pairs EXCEPT ![j.to] = @ + 1])
<1> DEFINE j  == Head(jobs)
           nj == Tail(jobs)
           q  == j.to
           c  == <<q, j.arg>>
<1>1. jobs # <<>> /\ j.type = "thenable"
  BY DEF JobReady
<1>2. Good(promise, jobs, started) /\ Ways(promise, open, jobs, pairs) /\ jobs \in Seq(Job)
  BY DEF IndInv, TypeOK
<1>3. q \in Promise
  BY <1>1, <1>2, Tails, JobFields
<1>4. /\ Good(promise, nj, started) /\ Calls(jobs) = Calls(nj) \cup {<<q, j.arg>>}
      /\ \A x \in Calls(nj) : x[1] # q
      /\ Waits(promise, nj) = Waits(promise, jobs)
  BY <1>1, <1>2, GoodStartCall
<1> HIDE DEF nj, j, q
<1>5. /\ pairs[q] \in 1 .. MaxGen /\ promise[q].state = "pending"
      /\ Ways(promise, open \cup {<<q, pairs[q]>>}, nj, [pairs EXCEPT ![q] = @ + 1])
  <2>1. /\ Ways(promise, open, jobs, pairs) /\ Calls(jobs) = Calls(nj) \cup {<<q, j.arg>>}
        /\ \A x \in Calls(nj) : x[1] # q
    BY <1>2, <1>4
  <2>2. Ways(promise, open \cup {<<q, pairs[q]>>}, nj, [pairs EXCEPT ![q] = @ + 1])
    BY <2>1, <1>3, WaysCall
  <2>3. pairs[q] \in 1 .. MaxGen /\ promise[q].state = "pending"
    BY <2>1, <1>3, CallPending
  <2> QED
    BY <2>2, <2>3
<1>6. c \in Calls(jobs) /\ c[1] = q /\ c[2] = j.arg
  BY <1>4
<1>7. Ordinary(q) /\ (j.arg \in Promise => Exists(j.arg))
  BY <1>6 DEF IndInv, Roles
<1>8. pairs[q] \in 0 .. MaxGen /\ Calls(nj) \subseteq Calls(jobs)
  BY <1>4, <1>5, Constants
<1> QED
  BY <1>3, <1>4, <1>5, <1>7, <1>8 DEF j, q, nj
LEMMA ThenableJobKeeps ==
    ASSUME IndInv, ThenableJob
    PROVE  IndInv'
<1>1. JobReady("thenable")
  BY DEF ThenableJob
<1> PICK q : q = Head(jobs).to
  OBVIOUS
<1> PICK a : a = Head(jobs).arg
  OBVIOUS
<1> PICK g : g = pairs[q]
  OBVIOUS
<1> DEFINE rx == React("adopt", q, g, TRUE, TRUE)
           tl == Tail(jobs)
<1>2. /\ a \in Promise
      /\ pairs' = [pairs EXCEPT ![q] = @ + 1] /\ open' = open \cup {<<q, g>>}
      /\ PerformThen(promise, tl, a, rx, promise', jobs')
      /\ exposed' = exposed /\ started' = started /\ stack' = stack /\ async' = async
      /\ allOf' = allOf
  BY DEF ThenableJob, PerformThen
<1>3. /\ q \in Promise /\ Ordinary(q) /\ (a \in Promise => Exists(a)) /\ g \in 0 .. MaxGen
      /\ Good(promise, tl, started)
      /\ Waits(promise, tl) = Waits(promise, jobs) /\ Calls(tl) \subseteq Calls(jobs)
      /\ Ways(promise, open \cup {<<q, g>>}, tl, [pairs EXCEPT ![q] = @ + 1])
  BY <1>1, HeadCall
<1>4. rx \in Reaction /\ rx.kind = "adopt" /\ rx.to = q
  <2>1. q \in Promise /\ g \in 0 .. MaxGen
    BY <1>3
  <2> QED
    BY <2>1 DEF React, Reaction
<1> HIDE DEF rx, tl
<1>5. promise[a].state # "none" /\ Ways(promise, open', tl, pairs')
  BY <1>2, <1>3, ExistsState
<1> PICK w : w = <<a, Numbered(promise, a, rx)>>
  OBVIOUS
<1>6. Extended(promise, tl, open', started, pairs', a, rx, promise', jobs', w)
  BY <1>2, <1>3, <1>4, <1>5, Added
<1>7. /\ Good(promise', jobs', started') /\ Ways(promise', open', jobs', pairs')
      /\ Waits(promise', jobs') = Waits(promise, jobs) \cup {w}
      /\ Calls(jobs') \subseteq Calls(jobs)
      /\ w[1] = a /\ w[2].kind = "adopt" /\ w[2].to = q
      /\ \A x \in Promise : /\ promise'[x].state = promise[x].state
                            /\ promise'[x].result = promise[x].result
  BY <1>2, <1>3, <1>4, <1>6 DEF Extended
<1>8. TypeOK'
  BY <1>2, <1>7, TypesKept DEF IndInv, TypeOK
<1>9. Exists(a)' /\ Ordinary(q)'
  BY <1>2, <1>3, <1>5, <1>7, ExistsState DEF Ordinary
<1>10. Roles'
  <2>1. Fits(w[2])'
    <3>1. "adopt" \notin Combinator
      BY PromisesAssumption
    <3> QED
      BY <1>7, <1>9, <3>1 DEF Fits, Ordinary
  <2>2. \A x \in Promise : promise'[x].state = "none" => allOf'[x] = NoAll
    BY <1>2, <1>7, ExistsState DEF IndInv, Roles
  <2>3. \A x \in Waits(promise', jobs') :
           x \in Waits(promise, jobs) \/ (x[1] \in Promise /\ Exists(x[1])' /\ Fits(x[2])')
    BY <1>2, <1>7, <1>9, <2>1
  <2> QED
    BY <1>2, <1>7, <2>2, <2>3, RolesKept
<1>11. OneAwait'
  BY <1>2, <1>7, AwaitKept
<1>12. Complete'
  <2>1. w[2].kind \notin Counted
    BY <1>7 DEF Counted
  <2> QED
    BY <1>2, <1>7, <2>1, CompleteKept
<1> QED
  BY <1>7, <1>8, <1>10, <1>11, <1>12 DEF IndInv

LEMMA ForeignThenJobKeeps ==
    ASSUME IndInv, NEW throws \in BOOLEAN, NEW e \in Plain, ForeignThenJob(throws, e)
    PROVE  IndInv'
<1>1. JobReady("thenable")
  BY DEF ForeignThenJob
<1> PICK q : q = Head(jobs).to
  OBVIOUS
<1> PICK g : g = pairs[q]
  OBVIOUS
<1> PICK b \in BOOLEAN : b = TRUE
  OBVIOUS
<1> DEFINE tl == Tail(jobs)
           op == open \cup {<<q, g>>}
<1>2. /\ pairs' = [pairs EXCEPT ![q] = @ + 1] /\ exposed' = exposed \cup {<<q, g>>}
      /\ \/ CallResolving(promise, op, tl, q, g, b, e)
         \/ open' = op /\ jobs' = tl /\ promise' = promise
      /\ started' = started /\ stack' = stack /\ async' = async /\ allOf' = allOf
  BY DEF ForeignThenJob
<1>3. /\ q \in Promise /\ Ordinary(q) /\ g \in 0 .. MaxGen
      /\ promise[q].state = "pending"
      /\ Good(promise, tl, started)
      /\ Waits(promise, tl) = Waits(promise, jobs) /\ Calls(tl) \subseteq Calls(jobs)
      /\ Ways(promise, op, tl, [pairs EXCEPT ![q] = @ + 1])
  BY <1>1, HeadCall
<1>4. Ways(promise, op, tl, pairs') /\ e \in Result /\ e \notin Promise \cup {Thenable}
  BY <1>2, <1>3, PromisesAssumption DEF Result, Value
<1> HIDE DEF tl, op
<1>5. /\ Good(promise', jobs', started') /\ Ways(promise', open', jobs', pairs')
      /\ Waits(promise', jobs') = Waits(promise, jobs)
      /\ \A x \in Promise : x # q => promise'[x] = promise[x]
      /\ Calls(jobs') \subseteq Calls(jobs)
      /\ promise'[q] = promise[q] \/ promise'[q].state \in Settled
  <2>1. CASE CallResolving(promise, op, tl, q, g, b, e)
    <3>1. Resolved(promise, tl, started, pairs', q, b, e)
      BY <2>1, <1>3, <1>4, Resolving
    <3> QED
      BY <3>1, <1>2, <1>3, <1>4 DEF Resolved, Settled
  <2>2. CASE open' = op /\ jobs' = tl /\ promise' = promise
    BY <2>2, <1>2, <1>3, <1>4
  <2> QED
    BY <1>2, <2>1, <2>2
<1>6. <<q, g>> \in Pair
  BY <1>3 DEF Pair
<1>7. TypeOK'
  BY <1>2, <1>5, <1>6, TypesKept DEF IndInv, TypeOK
<1>8. \A x \in Promise : promise'[x].state # "none" <=> promise[x].state # "none"
  BY <1>3, <1>5 DEF Settled
<1>9. Ordinary(q)'
  BY <1>2, <1>3, <1>8, ExistsState DEF Ordinary
<1>10. Roles'
  <2>1. \A x \in Promise : promise'[x].state = "none" => allOf'[x] = NoAll
    BY <1>2, <1>8, ExistsState DEF IndInv, Roles
  <2>2. \A x \in exposed' : x \in exposed \/ Ordinary(x[1])'
    BY <1>2, <1>9
  <2> QED
    BY <1>2, <1>5, <1>8, <2>1, <2>2, RolesKept
<1>11. OneAwait'
  BY <1>2, <1>5, AwaitKept
<1>12. Complete'
  <2>1. \A x \in Promise : promise[x].state \in Settled =>
            promise'[x].state = promise[x].state /\ promise'[x].result = promise[x].result
    BY <1>3, <1>5 DEF Settled
  <2>2. \A x \in Promise : allOf[x].kind \in Counted =>
            promise'[x].state = promise[x].state /\ promise'[x].result = promise[x].result
    BY <1>3, <1>5 DEF Counted, Ordinary
  <2> QED
    BY <1>2, <1>5, <2>1, <2>2, CompleteKept
<1> QED
  BY <1>5, <1>7, <1>10, <1>11, <1>12 DEF IndInv

(* The head of the queue, when it is a reaction that starts.               *)
LEMMA HeadReaction ==
    ASSUME IndInv, JobReady("reaction"), StartReaction, NEW j, j = Head(jobs),
           NEW w, w = <<j.src, j.rx>>
    PROVE  /\ j \in Job /\ j.type = "reaction" /\ j.src \in Promise /\ j.rx \in Reaction
           /\ Good(promise, Tail(jobs), started')
           /\ Ways(promise, open, Tail(jobs), pairs)
           /\ Calls(Tail(jobs)) = Calls(jobs)
           /\ Waits(promise, jobs) = Waits(promise, Tail(jobs)) \cup {w}
           /\ w \notin Waits(promise, Tail(jobs))
           /\ Fits(j.rx) /\ promise[j.src].state \in Settled
           /\ j.reject = (promise[j.src].state = "rejected")
           /\ j.arg = promise[j.src].result /\ j.arg \in Result
           /\ j.reject = FALSE => j.arg \notin Promise \cup {Thenable}
<1> DEFINE tl == Tail(jobs)
<1>1. jobs # <<>> /\ j.type = "reaction" /\ started' = [started EXCEPT ![j.src] = @ + 1]
  BY DEF JobReady, StartReaction
<1>2. Good(promise, jobs, started) /\ Ways(promise, open, jobs, pairs) /\ jobs \in Seq(Job)
  BY DEF IndInv, TypeOK
<1>3. j \in Job
  BY <1>1, <1>2, Tails
<1>4. /\ Good(promise, tl, started')
      /\ Calls(tl) = Calls(jobs)
      /\ Waits(promise, jobs) = Waits(promise, tl) \cup {w}
      /\ w \notin Waits(promise, tl)
      /\ j.src \in Promise /\ j.rx \in Reaction
      /\ promise[j.src].state \in Settled
      /\ j.reject = (promise[j.src].state = "rejected")
      /\ j.arg = promise[j.src].result
  <2>1. Good(promise, jobs, started) /\ jobs # <<>> /\ Head(jobs).type = "reaction"
    BY <1>1, <1>2
  <2>2. Begun(promise, jobs, started)
    BY <2>1, GoodStartReaction
  <2> QED
    BY <1>1, <2>2 DEF Begun
<1> HIDE DEF tl
<1>5. Ways(promise, open, tl, pairs)
  BY <1>2, <1>4, WaysSame
<1>6. w \in Waits(promise, jobs) /\ w[1] = j.src /\ w[2] = j.rx
  BY <1>4
<1>7. Fits(j.rx)
  BY <1>6 DEF IndInv, Roles
<1>8. j.arg \in Result
  BY <1>1, <1>3, JobFields
<1>9. j.reject = FALSE => j.arg \notin Promise \cup {Thenable}
  <2>1. Way(promise, open, jobs, pairs, j.src)
    BY <1>2, <1>4 DEF Ways
  <2>2. promise[j.src].state = "fulfilled" => promise[j.src].result \notin Promise \cup {Thenable}
    BY <2>1 DEF Way
  <2> QED
    BY <1>4, <2>2 DEF Settled
<1> QED
  BY <1>1, <1>3, <1>4, <1>5, <1>7, <1>8, <1>9 DEF tl
(* The reactions that are started settle a promise at most: the rest.      *)
HeadWait == <<Head(jobs).src, Head(jobs).rx>>

LEMMA ReactionKeeps ==
    ASSUME IndInv, JobReady("reaction"), StartReaction,
           Good(promise', jobs', started'), Ways(promise', open', jobs', pairs'),
           Waits(promise', jobs') = Waits(promise, Tail(jobs)),
           Calls(jobs') \subseteq Calls(jobs),
           \A x \in Promise :
              \/ promise'[x] = promise[x]
              \/ promise[x].state = "pending" /\ promise'[x].state \in Settled,
           stack' \in Seq(Job),
           \A i \in DOMAIN stack' :
              \/ i \in DOMAIN stack /\ stack'[i] = stack[i]
              \/ stack'[i].type = "reaction" /\ Ordinary(stack[i].rx.to)',
           exposed' = exposed,
           async' \in [Promise -> {"none", "running", "suspended", "done"}],
           \A x \in Promise : async'[x] # "none" => async[x] # "none",
           allOf' \in [Promise -> Environment],
           \A x \in Promise : allOf'[x].kind = allOf[x].kind,
           \A x \in Promise : allOf[x].kind = "none" => allOf'[x] = allOf[x]
    PROVE  /\ TypeOK' /\ Roles'
           /\ \A x \in Waits(promise', jobs') : x \in Waits(promise, jobs)
           /\ \A x \in Waits(promise, jobs) : x \in Waits(promise', jobs') \/ x = HeadWait
           /\ HeadWait \notin Waits(promise', jobs')
           /\ \A x \in Promise : promise[x].state \in Settled => promise'[x] = promise[x]
<1> PICK j : j = Head(jobs)
  OBVIOUS
<1> PICK w : w = <<j.src, j.rx>>
  OBVIOUS
<1>w. w = HeadWait
  BY DEF HeadWait
<1>1. /\ Waits(promise, jobs) = Waits(promise, Tail(jobs)) \cup {w}
      /\ w \notin Waits(promise, Tail(jobs))
  BY HeadReaction
<1>2. /\ \A x \in Waits(promise', jobs') : x \in Waits(promise, jobs)
      /\ \A x \in Waits(promise, jobs) : x \in Waits(promise', jobs') \/ x = w
      /\ w \notin Waits(promise', jobs')
  BY <1>1
<1>3. TypeOK'
  BY TypesKept DEF IndInv, TypeOK
<1>4. \A x \in Promise : promise'[x].state # "none" <=> promise[x].state # "none"
  BY DEF Settled
<1>5. \A x \in Promise : promise'[x].state = "none" => allOf'[x] = NoAll
  <2> SUFFICES ASSUME NEW x \in Promise, promise'[x].state = "none" PROVE allOf'[x] = NoAll
    OBVIOUS
  <2>1. allOf[x] = NoAll
    BY <1>4, ExistsState DEF IndInv, Roles
  <2>2. NoAll.kind = "none"
    BY DEF NoAll
  <2> QED
    BY <2>1, <2>2
<1>6. Roles'
  BY <1>2, <1>4, <1>5, RolesKept
<1>7. \A x \in Promise : promise[x].state \in Settled => promise'[x] = promise[x]
  BY DEF Settled
<1> QED
  BY <1>w, <1>2, <1>3, <1>6, <1>7

(* And the call of the resolving functions as the last part of such a job. *)
Settles(p, r, v) ==
    /\ Good(promise', jobs', started') /\ Ways(promise', open', jobs', pairs')
    /\ Waits(promise', jobs') = Waits(promise, Tail(jobs))
    /\ Calls(jobs') \subseteq Calls(jobs)
    /\ \A x \in Promise : x # p => promise'[x] = promise[x]
    /\ \/ promise'[p] = promise[p]
       \/ /\ promise[p].state = "pending"
          /\ promise'[p].state = IF r THEN "rejected" ELSE "fulfilled"
          /\ promise'[p].result = v

LEMMA ReactionResolves ==
    ASSUME IndInv, JobReady("reaction"), StartReaction,
           NEW p \in Promise, NEW g \in 0 .. MaxGen, NEW r \in BOOLEAN, NEW v \in Result,
           r = FALSE => v \notin Promise \cup {Thenable},
           CallResolving(promise, open, Tail(jobs), p, g, r, v), pairs' = pairs
    PROVE  Settles(p, r, v)
<1> PICK j : j = Head(jobs)
  OBVIOUS
<1> PICK w : w = <<j.src, j.rx>>
  OBVIOUS
<1> DEFINE tl == Tail(jobs)
<1>1. Good(promise, tl, started') /\ Ways(promise, open, tl, pairs) /\ Calls(tl) = Calls(jobs)
  BY HeadReaction
<1> HIDE DEF tl
<1>2. r = FALSE /\ v \in Promise \cup {Thenable} => g < MaxGen
  OBVIOUS
<1>3. CallResolving(promise, open, tl, p, g, r, v)
  BY DEF tl
<1>4. Resolved(promise, tl, started', pairs, p, r, v)
  BY <1>1, <1>2, <1>3, Resolving
<1>5. /\ Good(promise', jobs', started') /\ Ways(promise', open', jobs', pairs')
      /\ Waits(promise', jobs') = Waits(promise, tl)
      /\ \A x \in Promise : x # p => promise'[x] = promise[x]
      /\ \/ promise'[p] = promise[p]
         \/ /\ promise[p].state = "pending"
            /\ promise'[p].state = IF r THEN "rejected" ELSE "fulfilled"
            /\ promise'[p].result = v
  BY <1>4 DEF Resolved
<1>6. \A c \in Calls(jobs') : c \in Calls(tl)
  BY <1>4 DEF Resolved
<1> QED
  BY <1>1, <1>5, <1>6 DEF tl, Settles
LEMMA PassOnKeeps ==
    ASSUME IndInv, PassOn
    PROVE  IndInv'
<1>1. JobReady("reaction") /\ StartReaction
  BY DEF PassOn, ReactionReady
<1> PICK j : j = Head(jobs)
  OBVIOUS
<1> PICK w : w = <<j.src, j.rx>>
  OBVIOUS
<1>w. w = HeadWait
  BY DEF HeadWait
<1>2. /\ j.rx.kind \in {"then", "adopt", "race"}
      /\ CallResolving(promise, open, Tail(jobs), j.rx.to, j.rx.gen, j.reject, j.arg)
      /\ pairs' = pairs /\ exposed' = exposed /\ stack' = stack /\ async' = async
      /\ allOf' = allOf
  BY DEF PassOn, ReactionReady
<1>3. /\ j \in Job /\ j.type = "reaction" /\ j.rx \in Reaction /\ Fits(j.rx)
      /\ j.arg \in Result
      /\ j.reject = FALSE => j.arg \notin Promise \cup {Thenable}
  BY <1>1, HeadReaction
<1> PICK p : p = j.rx.to
  OBVIOUS
<1>4. p \in Promise /\ j.rx.gen \in 0 .. MaxGen /\ j.reject \in BOOLEAN
  BY <1>3, JobFields, ReactionFields
<1>5. allOf[p].kind \notin Counted /\ promise[p].state # "none"
  <2>1. j.rx.kind = "race" => "race" \in Combinator
    BY <1>3, ReactionFields
  <2> QED
    BY <1>2, <1>3, <1>4, <2>1, ExistsState DEF Fits, Counted
<1>6. /\ Good(promise', jobs', started') /\ Ways(promise', open', jobs', pairs')
      /\ Waits(promise', jobs') = Waits(promise, Tail(jobs))
      /\ Calls(jobs') \subseteq Calls(jobs)
      /\ \A x \in Promise : x # p => promise'[x] = promise[x]
      /\ \/ promise'[p] = promise[p]
         \/ promise[p].state = "pending" /\ promise'[p].state \in Settled
  <2>1. Settles(p, j.reject, j.arg)
    BY <1>1, <1>2, <1>3, <1>4, ReactionResolves
  <2> QED
    BY <2>1 DEF Settles, Settled
<1>7. /\ stack' \in Seq(Job)
      /\ async' \in [Promise -> {"none", "running", "suspended", "done"}]
      /\ allOf' \in [Promise -> Environment]
  BY <1>2 DEF IndInv, TypeOK
<1>8. /\ TypeOK' /\ Roles'
      /\ \A x \in Waits(promise', jobs') : x \in Waits(promise, jobs)
      /\ \A x \in Waits(promise, jobs) : x \in Waits(promise', jobs') \/ x = w
      /\ \A x \in Promise : promise[x].state \in Settled => promise'[x] = promise[x]
  BY <1>1, <1>2, <1>4, <1>5, <1>6, <1>7, <1>w, ReactionKeeps
<1>9. OneAwait'
  <2>1. w[2].kind # "await"
    BY <1>2
  <2> QED
    BY <1>2, <1>8, <2>1, AwaitKept
<1>10. Complete'
  <2>1. \A x \in Promise : allOf[x].kind \in Counted =>
            promise'[x].state = promise[x].state /\ promise'[x].result = promise[x].result
    BY <1>5, <1>6
  <2> QED
    BY <1>2, <1>8, <2>1, CompleteKept
<1> QED
  BY <1>6, <1>8, <1>9, <1>10 DEF IndInv

LEMMA StartHandlerKeeps ==
    ASSUME IndInv, StartHandler
    PROVE  IndInv'
<1>1. JobReady("reaction") /\ StartReaction
  BY DEF StartHandler, ReactionReady
<1> PICK j : j = Head(jobs)
  OBVIOUS
<1> PICK w : w = <<j.src, j.rx>>
  OBVIOUS
<1>w. w = HeadWait
  BY DEF HeadWait
<1>2. /\ j.rx.kind = "then" /\ stack' = Append(stack, j) /\ jobs' = Tail(jobs)
      /\ promise' = promise /\ pairs' = pairs /\ open' = open /\ exposed' = exposed
      /\ async' = async /\ allOf' = allOf
  BY DEF StartHandler, ReactionReady
<1>3. /\ j \in Job /\ j.type = "reaction" /\ j.rx \in Reaction /\ Fits(j.rx)
      /\ Good(promise, Tail(jobs), started') /\ Ways(promise, open, Tail(jobs), pairs)
      /\ Calls(Tail(jobs)) = Calls(jobs)
  BY <1>1, HeadReaction
<1> PICK p : p = j.rx.to
  OBVIOUS
<1>4. p \in Promise /\ Ordinary(p) /\ promise[p].state # "none"
  BY <1>2, <1>3, ReactionFields, ExistsState DEF Fits, Ordinary
<1>5. Ordinary(p)'
  BY <1>2, <1>4, ExistsState DEF Ordinary
<1>6. stack' \in Seq(Job) /\ DOMAIN stack' = 1 .. Len(stack) + 1
      /\ stack'[Len(stack) + 1] = j
      /\ \A i \in DOMAIN stack : stack'[i] = stack[i]
      /\ DOMAIN stack = 1 .. Len(stack) /\ Len(stack) \in Nat
  BY <1>2, <1>3 DEF IndInv, TypeOK
<1>7. \A i \in DOMAIN stack' :
          \/ i \in DOMAIN stack /\ stack'[i] = stack[i]
          \/ stack'[i].type = "reaction" /\ Ordinary(stack[i].rx.to)'
  <2> SUFFICES ASSUME NEW i \in DOMAIN stack'
               PROVE  \/ i \in DOMAIN stack /\ stack'[i] = stack[i]
                      \/ stack'[i].type = "reaction" /\ Ordinary(stack[i].rx.to)'
    OBVIOUS
  <2>1. CASE i \in DOMAIN stack
    BY <2>1, <1>6
  <2>2. CASE i = Len(stack) + 1
    BY <2>2, <1>3, <1>5, <1>6
  <2>3. i \in 1 .. Len(stack) + 1 /\ Len(stack) \in Nat
    BY <1>6
  <2> QED
    BY <2>1, <2>2, <2>3, <1>6
<1>8. /\ Good(promise', jobs', started') /\ Ways(promise', open', jobs', pairs')
      /\ Waits(promise', jobs') = Waits(promise, Tail(jobs))
      /\ Calls(jobs') \subseteq Calls(jobs)
  BY <1>2, <1>3
<1>9. /\ async' \in [Promise -> {"none", "running", "suspended", "done"}]
      /\ allOf' \in [Promise -> Environment]
  BY <1>2 DEF IndInv, TypeOK
<1>10. /\ TypeOK' /\ Roles'
       /\ \A x \in Waits(promise', jobs') : x \in Waits(promise, jobs)
       /\ \A x \in Waits(promise, jobs) : x \in Waits(promise', jobs') \/ x = w
  BY <1>1, <1>2, <1>4, <1>6, <1>7, <1>8, <1>9, <1>w, ReactionKeeps
<1>11. OneAwait'
  <2>1. w[2].kind # "await"
    BY <1>2
  <2> QED
    BY <1>2, <1>10, <2>1, AwaitKept
<1>12. Complete'
  BY <1>2, <1>10, CompleteKept
<1> QED
  BY <1>8, <1>10, <1>11, <1>12 DEF IndInv

LEMMA ResumeJobKeeps ==
    ASSUME IndInv, ResumeJob
    PROVE  IndInv'
<1>1. JobReady("reaction") /\ StartReaction
  BY DEF ResumeJob, ReactionReady
<1> PICK j : j = Head(jobs)
  OBVIOUS
<1> PICK w : w = <<j.src, j.rx>>
  OBVIOUS
<1>w. w = HeadWait
  BY DEF HeadWait
<1> PICK p : p = j.rx.to
  OBVIOUS
<1>2. /\ j.rx.kind = "await" /\ async' = [async EXCEPT ![p] = "running"]
      /\ jobs' = Tail(jobs)
      /\ promise' = promise /\ pairs' = pairs /\ open' = open /\ exposed' = exposed
      /\ stack' = stack /\ allOf' = allOf
  BY DEF ResumeJob, ReactionReady
<1>3. /\ j.rx \in Reaction /\ Fits(j.rx)
      /\ Waits(promise, jobs) = Waits(promise, Tail(jobs)) \cup {w}
      /\ Good(promise, Tail(jobs), started') /\ Ways(promise, open, Tail(jobs), pairs)
      /\ Calls(Tail(jobs)) = Calls(jobs)
  BY <1>1, HeadReaction
<1>4. p \in Promise /\ promise[p].state # "none"
  BY <1>3, ReactionFields, ExistsState DEF Fits
<1>5. Awaits(w, p) /\ \A q : Awaits(w, q) => q = p
  BY <1>2 DEF Awaits
<1>6. async[p] = "suspended" /\ \A x \in Waits(promise, jobs) : Awaits(x, p) => x = w
  BY <1>3, <1>4, <1>5 DEF IndInv, OneAwait
<1>7. /\ async' \in [Promise -> {"none", "running", "suspended", "done"}]
      /\ async'[p] = "running" /\ \A x \in Promise : x # p => async'[x] = async[x]
      /\ stack' \in Seq(Job)
      /\ allOf' \in [Promise -> Environment]
  BY <1>2, <1>4 DEF IndInv, TypeOK
<1>8. /\ Good(promise', jobs', started') /\ Ways(promise', open', jobs', pairs')
      /\ Waits(promise', jobs') = Waits(promise, Tail(jobs))
      /\ Calls(jobs') \subseteq Calls(jobs)
  BY <1>2, <1>3
<1>9. \A x \in Promise : async'[x] # "none" => async[x] # "none"
  BY <1>6, <1>7
<1>10. /\ TypeOK' /\ Roles'
       /\ \A x \in Waits(promise', jobs') : x \in Waits(promise, jobs)
       /\ \A x \in Waits(promise, jobs) : x \in Waits(promise', jobs') \/ x = w
       /\ w \notin Waits(promise', jobs')
  BY <1>1, <1>2, <1>4, <1>7, <1>8, <1>9, <1>w, ReactionKeeps
<1>11. OneAwait'
  <2>1. ASSUME NEW x \in Promise
        PROVE  /\ async'[x] # "suspended" => \A y \in Waits(promise', jobs') : ~Awaits(y, x)
               /\ async'[x] = "suspended" => \E y \in Waits(promise', jobs') : Awaits(y, x)
               /\ \A y, z \in Waits(promise', jobs') : Awaits(y, x) /\ Awaits(z, x) => y = z
    <3>1. /\ async[x] # "suspended" => \A y \in Waits(promise, jobs) : ~Awaits(y, x)
          /\ async[x] = "suspended" => \E y \in Waits(promise, jobs) : Awaits(y, x)
          /\ \A y, z \in Waits(promise, jobs) : Awaits(y, x) /\ Awaits(z, x) => y = z
      BY DEF IndInv, OneAwait
    <3>2. CASE x = p
      BY <3>2, <1>6, <1>7, <1>10
    <3>3. CASE x # p
      BY <3>1, <3>3, <1>5, <1>7, <1>10
    <3> QED
      BY <3>2, <3>3
  <2> QED
    BY <2>1 DEF OneAwait, Awaits
<1>12. Complete'
  BY <1>2, <1>10, CompleteKept
<1> QED
  BY <1>8, <1>10, <1>11, <1>12 DEF IndInv
(* The functions made for the elements.  b is the environment a after the  *)
(* first call of the function of element p.                                *)
Took(a, b, p, reject, v) ==
    /\ b.kind = a.kind /\ b.of = a.of /\ b.failed = a.failed
    /\ b.called = a.called \cup {<<p, reject>>}
    /\ b.values = [a.values EXCEPT ![p] = v]
    /\ b.remaining = a.remaining - 1

OneLess(a, b, p) ==
    /\ Booked(b)
    /\ Missing(b) = Missing(a) \ {p}
    /\ Twice(a) => Twice(b)
    /\ ~Twice(b) /\ a.remaining = 1 => Missing(b) = {} /\ ~b.failed

LEMMA TookOne ==
    ASSUME NEW a \in Environment, NEW b \in Environment, NEW p \in a.of,
           NEW reject \in BOOLEAN, NEW v \in Result, Took(a, b, p, reject, v), Booked(a),
           IsElement(a.kind, reject), <<p, reject>> \notin a.called,
           p \notin Own => p \in Missing(a), a.kind \in Counted
    PROVE  OneLess(a, b, p)
<1>1. /\ a.of \subseteq Promise /\ a.remaining \in Int /\ a.failed \in BOOLEAN
      /\ a.values \in [Promise -> Result \cup {NoValue}] /\ p \in Promise
      /\ a.called \subseteq Promise \X BOOLEAN
  BY EnvironmentFields
<1>2. /\ b.kind = a.kind /\ b.of = a.of /\ b.failed = a.failed
      /\ b.called = a.called \cup {<<p, reject>>}
      /\ b.remaining = a.remaining - 1
  BY DEF Took
<1>3. b.values[p] = v /\ v # NoValue /\ \A x \in Promise : x # p => b.values[x] = a.values[x]
  <2>1. b.values = [a.values EXCEPT ![p] = v]
    BY DEF Took
  <2>2. v # NoValue
    BY Constants
  <2> QED
    BY <1>1, <2>1, <2>2
<1>4. Missing(b) = Missing(a) \ {p}
  <2>1. \A x \in a.of : b.values[x] = NoValue <=> a.values[x] = NoValue /\ x # p
    BY <1>1, <1>3
  <2> QED
    BY <2>1, <1>2 DEF Missing
<1>5. \A x \in b.called : IsElement(b.kind, x[2])
  BY <1>2 DEF Booked
<1>6. \A x \in b.of : b.values[x] # NoValue <=> \E c \in BOOLEAN : <<x, c>> \in b.called
  <2> SUFFICES ASSUME NEW x \in a.of
               PROVE  b.values[x] # NoValue <=> \E c \in BOOLEAN : <<x, c>> \in b.called
    BY <1>2
  <2>1. CASE x = p
    BY <2>1, <1>2, <1>3
  <2>2. CASE x # p
    <3>1. a.values[x] # NoValue <=> \E c \in BOOLEAN : <<x, c>> \in a.called
      BY DEF Booked
    <3>2. b.values[x] = a.values[x]
      BY <2>2, <1>1, <1>3
    <3>3. \A c \in BOOLEAN : <<x, c>> \in b.called <=> <<x, c>> \in a.called
      BY <2>2, <1>2
    <3> QED
      BY <3>1, <3>2, <3>3
  <2> QED
    BY <2>1, <2>2
<1>7. Twice(a) => Twice(b)
  BY <1>2 DEF Twice
<1>8. ASSUME ~Twice(b) PROVE p \in Missing(a)
  <2>1. SUFFICES ASSUME p \in Own, a.values[p] # NoValue PROVE FALSE
    BY DEF Missing
  <2>2. PICK c \in BOOLEAN : <<p, c>> \in a.called
    BY <2>1 DEF Booked
  <2>3. IsElement(a.kind, c)
    <3>1. <<p, c>>[2] = c
      OBVIOUS
    <3> QED
      BY <2>2, <3>1 DEF Booked
  <2>4. c # reject
    BY <2>2
  <2>5. a.kind = "allSettled"
    BY <2>3, <2>4 DEF IsElement, Counted
  <2>6. <<p, c>> \in b.called /\ <<p, reject>> \in b.called
    BY <2>2, <1>2
  <2>7. <<p, FALSE>> \in b.called /\ <<p, TRUE>> \in b.called
    <3>1. CASE c = TRUE /\ reject = FALSE
      BY <2>6, <3>1
    <3>2. CASE c = FALSE /\ reject = TRUE
      BY <2>6, <3>2
    <3>3. CASE c = reject
      BY <2>4, <3>3
    <3>4. (c = TRUE \/ c = FALSE) /\ (reject = TRUE \/ reject = FALSE)
      OBVIOUS
    <3> QED
      BY <3>1, <3>2, <3>3, <3>4
  <2> QED
    BY <1>8, <1>2, <2>1, <2>5, <2>7 DEF Twice
<1>9. ASSUME ~Twice(b)
      PROVE  /\ IsFiniteSet(Missing(b)) /\ Cardinality(Missing(b)) \in Nat
             /\ Cardinality(Missing(b)) = Cardinality(Missing(a)) - 1
             /\ a.remaining = Cardinality(Missing(a)) + (IF a.failed THEN 1 ELSE 0)
             /\ Cardinality(Missing(a)) \in Nat
  <2>1. Missing(a) \subseteq Promise /\ IsFiniteSet(Promise)
    BY <1>1, PromisesAssumption DEF Missing
  <2>2. IsFiniteSet(Missing(a))
    BY <2>1, FS_Subset
  <2>3. p \in Missing(a)
    BY <1>8, <1>9
  <2>4. IsFiniteSet(Missing(a) \ {p})
        /\ Cardinality(Missing(a) \ {p}) = Cardinality(Missing(a)) - 1
    BY <2>2, <2>3, FS_RemoveElement
  <2>5. Cardinality(Missing(a)) \in Nat /\ Cardinality(Missing(a) \ {p}) \in Nat
    BY <2>2, <2>4, FS_CardinalityType
  <2>6. a.remaining = Cardinality(Missing(a)) + (IF a.failed THEN 1 ELSE 0)
    BY <1>7, <1>9 DEF Booked
  <2> QED
    BY <2>4, <2>5, <2>6, <1>4
<1>10. Booked(b)
  <2>1. ~Twice(b) => b.remaining = Cardinality(Missing(b)) + (IF b.failed THEN 1 ELSE 0)
    BY <1>2, <1>9
  <2> QED
    BY <2>1, <1>5, <1>6 DEF Booked
<1>11. ASSUME ~Twice(b), a.remaining = 1 PROVE Missing(b) = {} /\ ~b.failed
  <2> PICK n \in Nat : n = Cardinality(Missing(b))
    BY <1>9, <1>11
  <2> PICK m \in Nat : m = Cardinality(Missing(a))
    BY <1>9, <1>11
  <2>1. n = m - 1 /\ 1 = m + (IF a.failed THEN 1 ELSE 0)
    BY <1>9, <1>11
  <2>2. n = 0 /\ ~a.failed
    BY <2>1
  <2> QED
    BY <2>2, <1>2, <1>9, <1>11, FS_EmptySet
<1> QED
  BY <1>4, <1>7, <1>10, <1>11 DEF OneLess

(* A step that changes nothing but the promise r of a combinator and its   *)
(* environment.                                                            *)
LEMMA EnvironmentStep ==
    ASSUME IndInv, NEW r \in Promise, allOf[r].kind # "none",
           Good(promise', jobs', started'), Ways(promise', open', jobs', pairs'),
           \A w \in Waits(promise', jobs') : w \in Waits(promise, jobs),
           \A w \in Waits(promise, jobs) :
              w \in Waits(promise', jobs') \/ w[2].kind # "await",
           Calls(jobs') \subseteq Calls(jobs),
           \A x \in Promise : x # r => promise'[x] = promise[x] /\ allOf'[x] = allOf[x],
           \/ promise'[r] = promise[r]
           \/ promise[r].state = "pending" /\ promise'[r].state \in Settled,
           exposed' = exposed, stack' = stack, async' = async,
           allOf' \in [Promise -> Environment], allOf'[r].kind = allOf[r].kind,
           allOf[r].kind \in Counted => Elements(r)'
    PROVE  IndInv'
<1>1. promise[r].state # "none"
  BY CountedExists
<1>2. \A x \in Promise : promise[x].state \in Settled => promise'[x] = promise[x]
  BY DEF Settled
<1>3. \A x \in Promise : promise'[x].state # "none" <=> promise[x].state # "none"
  BY <1>1 DEF Settled
<1>4. TypeOK'
  BY TypesKept DEF IndInv, TypeOK
<1>5. \A x \in Promise : promise'[x].state = "none" => allOf'[x] = NoAll
  BY <1>1, <1>3, ExistsState DEF IndInv, Roles
<1>6. \A x \in Promise : allOf'[x].kind = allOf[x].kind
  OBVIOUS
<1>7. Roles'
  BY <1>3, <1>5, <1>6, RolesKept
<1>8. OneAwait'
  BY AwaitKept
<1>9. Complete'
  <2> SUFFICES ASSUME NEW x \in Promise, allOf'[x].kind \in Counted PROVE Elements(x)'
    BY DEF Complete, Counted
  <2>1. CASE x = r
    BY <2>1
  <2>2. CASE x # r
    <3>1. Elements(x) /\ allOf'[x] = allOf[x] /\ promise'[x] = promise[x]
      BY <2>2 DEF IndInv, Complete
    <3> QED
      BY <3>1, <1>2, ElementsKept
  <2> QED
    BY <2>1, <2>2
<1> QED
  BY <1>4, <1>7, <1>8, <1>9 DEF IndInv

(* Who calls a function made for element p of r, with the jobs jb left: a  *)
(* script that a then method of its own gave it to, or the reaction of p.  *)
Caller(r, p, reject, v, jb) ==
    /\ Good(promise, jb, started') /\ Ways(promise, open, jb, pairs)
    /\ Calls(jb) \subseteq Calls(jobs)
    /\ \A w \in Waits(promise, jb) : w \in Waits(promise, jobs)
    /\ \A w \in Waits(promise, jobs) : w \in Waits(promise, jb) \/ w[2].kind # "await"
    /\ reject = FALSE => v \notin Promise \cup {Thenable}
    /\ allOf[r].kind # "none" /\ p \in allOf[r].of
    /\ p \notin Own => /\ allOf[r].kind \in Counted /\ promise[p].state \in Settled
                       /\ reject = (promise[p].state = "rejected")
                       /\ v = promise[p].result /\ p \in Missing(allOf[r])
                       /\ \A w \in Waits(promise, jb) : For(w, allOf[r], r) => w[1] # p

LEMMA CallElementKeeps ==
    ASSUME IndInv, NEW r \in Promise, NEW p \in Promise, NEW reject \in BOOLEAN,
           NEW v \in Result, NEW jb, Caller(r, p, reject, v, jb),
           CallElement(r, p, reject, v, jb),
           pairs' = pairs, exposed' = exposed, stack' = stack, async' = async
    PROVE  IndInv'
<1> PICK a : a = allOf[r]
  OBVIOUS
<1> PICK W : W = Waits(promise, jb)
  OBVIOUS
<1>1. /\ Good(promise, jb, started') /\ Ways(promise, open, jb, pairs)
      /\ Calls(jb) \subseteq Calls(jobs)
      /\ \A w \in W : w \in Waits(promise, jobs)
      /\ \A w \in Waits(promise, jobs) : w \in W \/ w[2].kind # "await"
  BY DEF Caller
<1>2. /\ reject = FALSE => v \notin Promise \cup {Thenable}
      /\ a.kind # "none" /\ p \in a.of
  BY DEF Caller
<1>3. p \notin Own => /\ a.kind \in Counted /\ promise[p].state \in Settled
                      /\ reject = (promise[p].state = "rejected")
                      /\ v = promise[p].result /\ p \in Missing(a)
                      /\ \A w \in W : For(w, a, r) => w[1] # p
  BY DEF Caller
<1>4. a \in Environment /\ allOf \in [Promise -> Environment]
  BY AllTypes DEF IndInv, TypeOK
<1>5. a.kind \in Counted =>
         /\ Linked(a, r, Waits(promise, jobs)) /\ Booked(a) /\ Placed(a, promise)
         /\ EndOf(a, promise, r)
  BY DEF IndInv, Complete, Elements
<1>6. a.kind \in Counted => Linked(a, r, W)
  BY <1>1, <1>5, LinkedLess
<1>z. 0 \in 0 .. MaxGen
  BY FirstPair
<1>7. CASE ~IsElement(a.kind, reject)
  <2>1. CallResolving(promise, open, jb, r, 0, reject, v) /\ allOf' = allOf
    BY <1>7 DEF CallElement
  <2>2. Resolved(promise, jb, started', pairs, r, reject, v)
    BY <1>1, <1>2, <1>z, <2>1, Resolving
  <2>3. /\ Good(promise', jobs', started') /\ Ways(promise', open', jobs', pairs')
        /\ Waits(promise', jobs') = W
        /\ \A x \in Promise : x # r => promise'[x] = promise[x]
        /\ \A c \in Calls(jobs') : c \in Calls(jb)
    BY <1>2, <2>2 DEF Resolved
  <2>4. \/ promise'[r] = promise[r]
        \/ /\ promise[r].state = "pending"
           /\ promise'[r].state = IF reject THEN "rejected" ELSE "fulfilled"
           /\ promise'[r].result = v
    BY <1>2, <2>2 DEF Resolved
  <2>5. \A x \in Promise : promise[x].state \in Settled =>
           promise'[x].state = promise[x].state /\ promise'[x].result = promise[x].result
    BY <2>3, <2>4 DEF Settled
  <2>6. ASSUME a.kind \in Counted PROVE Elements(r)'
    <3>1. Placed(a, promise')
      BY <1>4, <1>5, <2>5, <2>6, PlacedKept
    <3>2. EndOf(a, promise', r)
      <4>1. CASE promise'[r] = promise[r]
        BY <4>1, <1>4, <1>5, <2>5, <2>6, EndKept
      <4>2. CASE promise'[r] # promise[r]
        <5>1. promise'[r].state # GoodEnd(a)
          BY <4>2, <2>4, <2>6, <1>7 DEF GoodEnd, IsElement, Counted
        <5>2. ASSUME a.of \cap Own = {}
              PROVE  promise'[p].state = promise'[r].state /\ promise'[p].result = promise'[r].result
          <6>1. p \notin Own
            BY <5>2, <1>2
          <6>2. promise[p].state = (IF reject THEN "rejected" ELSE "fulfilled")
                /\ promise[p].state \in Settled /\ v = promise[p].result
            BY <6>1, <1>3 DEF Settled
          <6> QED
            BY <4>2, <6>2, <2>4, <2>5
        <5> QED
          BY <5>1, <5>2, <1>2 DEF EndOf
      <4> QED
        BY <4>1, <4>2
    <3>3. allOf'[r] = a /\ Linked(a, r, Waits(promise', jobs')) /\ Booked(a)
      BY <1>5, <1>6, <2>1, <2>3, <2>6
    <3> QED
      BY <3>1, <3>2, <3>3 DEF Elements
  <2>7. \/ promise'[r] = promise[r]
        \/ promise[r].state = "pending" /\ promise'[r].state \in Settled
    BY <2>4 DEF Settled
  <2>8. /\ \A w \in Waits(promise', jobs') : w \in Waits(promise, jobs)
        /\ \A w \in Waits(promise, jobs) :
              w \in Waits(promise', jobs') \/ w[2].kind # "await"
        /\ Calls(jobs') \subseteq Calls(jobs)
    BY <1>1, <2>3
  <2>9. /\ \A x \in Promise : x # r => promise'[x] = promise[x] /\ allOf'[x] = allOf[x]
        /\ allOf' \in [Promise -> Environment] /\ allOf'[r].kind = allOf[r].kind
        /\ allOf[r].kind # "none"
    BY <1>2, <1>4, <2>1, <2>3
  <2> QED
    BY <2>3, <2>6, <2>7, <2>8, <2>9, EnvironmentStep
<1>8. CASE IsElement(a.kind, reject) /\ <<p, reject>> \in a.called
  <2>1. jobs' = jb /\ promise' = promise /\ open' = open /\ allOf' = allOf
    BY <1>8 DEF CallElement
  <2>2. a.kind \in Counted
    BY <1>8 DEF IsElement, Counted
  <2>3. Elements(r)'
    <3>1. allOf'[r] = a /\ Linked(a, r, Waits(promise', jobs')) /\ Booked(a)
          /\ Placed(a, promise') /\ EndOf(a, promise', r)
      BY <1>5, <1>6, <2>1, <2>2
    <3> QED
      BY <3>1 DEF Elements
  <2>4. /\ \A w \in Waits(promise', jobs') : w \in Waits(promise, jobs)
        /\ \A w \in Waits(promise, jobs) :
              w \in Waits(promise', jobs') \/ w[2].kind # "await"
        /\ Calls(jobs') \subseteq Calls(jobs)
    BY <1>1, <2>1
  <2>5. Good(promise', jobs', started') /\ Ways(promise', open', jobs', pairs')
    BY <1>1, <2>1
  <2>6. /\ \A x \in Promise : x # r => promise'[x] = promise[x] /\ allOf'[x] = allOf[x]
        /\ allOf' \in [Promise -> Environment] /\ allOf'[r].kind = allOf[r].kind
        /\ allOf[r].kind # "none" /\ promise'[r] = promise[r]
    BY <1>2, <1>4, <2>1
  <2> QED
    BY <2>3, <2>4, <2>5, <2>6, EnvironmentStep
<1>9. CASE IsElement(a.kind, reject) /\ <<p, reject>> \notin a.called
  <2> PICK b : b = allOf'[r]
    OBVIOUS
  <2> PICK any \in BOOLEAN : any = (a.kind = "any")
    OBVIOUS
  <2>1. /\ allOf' = [allOf EXCEPT ![r].called = @ \cup {<<p, reject>>},
                                  ![r].values[p] = v, ![r].remaining = @ - 1]
        /\ a.remaining = 1 => CallResolving(promise, open, jb, r, 0, any, Array)
        /\ a.remaining # 1 => jobs' = jb /\ promise' = promise /\ open' = open
    BY <1>9 DEF CallElement
  <2>2. a.kind \in Counted
    BY <1>9 DEF IsElement, Counted
  <2>3. /\ b \in Environment /\ Took(a, b, p, reject, v)
        /\ \A x \in Promise : x # r => allOf'[x] = allOf[x]
        /\ allOf' \in [Promise -> Environment]
    <3> PICK cs : cs = a.called \cup {<<p, reject>>}
      OBVIOUS
    <3> PICK vs : vs = [a.values EXCEPT ![p] = v]
      OBVIOUS
    <3>1. /\ a.values \in [Promise -> Result \cup {NoValue}] /\ a.remaining \in Int
          /\ a.called \subseteq Promise \X BOOLEAN
      BY <1>4, EnvironmentFields
    <3>2. vs \in [Promise -> Result \cup {NoValue}] /\ cs \in SUBSET (Promise \X BOOLEAN)
      BY <3>1
    <3> PICK n \in Int : n = a.remaining - 1
      BY <3>1
    <3>3. b = [[[a EXCEPT !.called = cs] EXCEPT !.values = vs] EXCEPT !.remaining = n]
      BY <1>4, <2>1 DEF Environment
    <3>4. b \in Environment
      BY <1>4, <3>2, <3>3 DEF Environment
    <3>5. /\ b.kind = a.kind /\ b.of = a.of /\ b.failed = a.failed
          /\ b.called = cs /\ b.values = vs /\ b.remaining = n
      BY <1>4, <3>3 DEF Environment
    <3>6. /\ DOMAIN allOf' = Promise /\ \A x \in Promise : x # r => allOf'[x] = allOf[x]
          /\ allOf' = [x \in DOMAIN allOf' |-> allOf'[x]]
      BY <1>4, <2>1
    <3>7. allOf' \in [Promise -> Environment] /\ \A x \in Promise : x # r => allOf'[x] = allOf[x]
      BY <1>4, <3>4, <3>6
    <3> QED
      BY <3>4, <3>5, <3>7 DEF Took
  <2>4. OneLess(a, b, p)
    BY <1>2, <1>3, <1>4, <1>5, <1>9, <2>2, <2>3, TookOne
  <2>5. /\ Booked(b) /\ Missing(b) = Missing(a) \ {p} /\ (Twice(a) => Twice(b))
        /\ ~Twice(b) /\ a.remaining = 1 => Missing(b) = {} /\ ~b.failed
    BY <2>4 DEF OneLess
  <2>6. b.kind = a.kind /\ b.of = a.of /\ b.failed = a.failed /\ GoodEnd(b) = GoodEnd(a)
    BY <2>3 DEF Took, GoodEnd
  <2>7. /\ Good(promise', jobs', started') /\ Ways(promise', open', jobs', pairs')
        /\ Waits(promise', jobs') = W
        /\ \A x \in Promise : x # r => promise'[x] = promise[x]
        /\ Calls(jobs') \subseteq Calls(jb)
        /\ \/ promise'[r] = promise[r]
           \/ /\ promise[r].state = "pending" /\ a.remaining = 1
              /\ promise'[r].state = GoodEnd(a)
    <3>1. CASE a.remaining = 1
      <4>1. CallResolving(promise, open, jb, r, 0, any, Array)
        BY <3>1, <2>1
      <4>2. Array \in Result /\ Array \notin Promise \cup {Thenable}
        BY Constants DEF Result
      <4>3. Resolved(promise, jb, started', pairs, r, any, Array)
        BY <1>1, <1>z, <4>1, <4>2, Resolving
      <4>4. (IF any THEN "rejected" ELSE "fulfilled") = GoodEnd(a)
        BY DEF GoodEnd
      <4> QED
        BY <3>1, <4>2, <4>3, <4>4 DEF Resolved
    <3>2. CASE a.remaining # 1
      BY <3>2, <1>1, <2>1
    <3> QED
      BY <3>1, <3>2
  <2>8. \A x \in Promise : promise[x].state \in Settled =>
           promise'[x].state = promise[x].state /\ promise'[x].result = promise[x].result
    BY <2>7 DEF Settled
  <2>9. Linked(b, r, W)
    <3>1. \A w : For(w, b, r) <=> For(w, a, r)
      BY <2>6 DEF For
    <3>2. \A w \in W : For(w, a, r) => w[1] \in Missing(a) /\ w[1] \notin Own
      BY <1>6, <2>2 DEF Linked
    <3>3. \A w \in W : For(w, a, r) => w[1] # p
      BY <1>3, <3>2
    <3>4. \A w, x \in W : For(w, a, r) /\ For(x, a, r) /\ w[1] = x[1] => w = x
      BY <1>6, <2>2 DEF Linked
    <3> QED
      BY <3>1, <3>2, <3>3, <3>4, <2>5 DEF Linked
  <2>10. Placed(b, promise')
    <3> SUFFICES ASSUME NEW x \in b.of \ Own, b.values[x] # NoValue
                 PROVE  /\ promise'[x].state \in Settled
                        /\ b.kind # "allSettled" => promise'[x].state = GoodEnd(b)
                        /\ b.values[x] = promise'[x].result
      BY DEF Placed
    <3>1. /\ x \in Promise /\ x \in a.of /\ x \notin Own
          /\ a.values \in [Promise -> Result \cup {NoValue}]
          /\ b.values = [a.values EXCEPT ![p] = v]
      BY <1>4, <2>3, <2>6, EnvironmentFields DEF Took
    <3>2. CASE x = p
      <4>1. /\ promise[p].state \in Settled /\ reject = (promise[p].state = "rejected")
            /\ v = promise[p].result
        BY <3>1, <3>2, <1>3
      <4>2. a.kind # "allSettled" => promise[p].state = GoodEnd(a)
        BY <4>1, <1>9, <2>2 DEF IsElement, GoodEnd, Counted, Settled
      <4>3. b.values[p] = v
        BY <3>1
      <4> QED
        BY <3>2, <4>1, <4>2, <4>3, <2>6, <2>8
    <3>3. CASE x # p
      <4>1. b.values[x] = a.values[x]
        BY <3>1, <3>3
      <4>2. /\ promise[x].state \in Settled
            /\ a.kind # "allSettled" => promise[x].state = GoodEnd(a)
            /\ a.values[x] = promise[x].result
        BY <3>1, <4>1, <1>5, <2>2 DEF Placed
      <4> QED
        BY <3>1, <4>1, <4>2, <2>6, <2>8
    <3> QED
      BY <3>2, <3>3
  <2>11. EndOf(b, promise', r)
    <3>1. EndOf(a, promise, r)
      BY <1>5, <2>2
    <3>2. ASSUME promise'[r].result = Array, promise'[r].state = GoodEnd(b), ~Twice(b)
          PROVE  Missing(b) = {} /\ ~b.failed
      <4>1. CASE promise'[r] = promise[r]
        BY <3>1, <3>2, <4>1, <2>5, <2>6 DEF EndOf
      <4>2. CASE promise'[r] # promise[r]
        BY <3>2, <4>2, <2>5, <2>7
      <4> QED
        BY <4>1, <4>2
    <3>3. ASSUME promise'[r].state \in Settled \ {GoodEnd(b)}, b.of \cap Own = {}
          PROVE  \E x \in b.of : /\ promise'[x].state = promise'[r].state
                                 /\ promise'[x].result = promise'[r].result
      <4>1. promise'[r] = promise[r]
        BY <3>3, <2>6, <2>7
      <4>2. PICK x \in a.of : /\ promise[x].state = promise[r].state
                              /\ promise[x].result = promise[r].result
        BY <3>1, <3>3, <4>1, <2>6 DEF EndOf
      <4>3. x \in Promise /\ promise[x].state \in Settled
        BY <1>4, <3>3, <4>1, <4>2, EnvironmentFields
      <4> QED
        BY <4>1, <4>2, <4>3, <2>6, <2>8
    <3> QED
      BY <3>2, <3>3 DEF EndOf
  <2>12. Elements(r)'
    BY <2>5, <2>7, <2>9, <2>10, <2>11 DEF Elements
  <2>13. /\ \A w \in Waits(promise', jobs') : w \in Waits(promise, jobs)
         /\ \A w \in Waits(promise, jobs) :
               w \in Waits(promise', jobs') \/ w[2].kind # "await"
         /\ Calls(jobs') \subseteq Calls(jobs)
    BY <1>1, <2>7
  <2>14. \/ promise'[r] = promise[r]
         \/ promise[r].state = "pending" /\ promise'[r].state \in Settled
    BY <2>7 DEF GoodEnd, Settled
  <2>15. /\ \A x \in Promise : x # r => promise'[x] = promise[x] /\ allOf'[x] = allOf[x]
         /\ allOf' \in [Promise -> Environment] /\ allOf'[r].kind = allOf[r].kind
         /\ allOf[r].kind # "none"
    BY <1>2, <2>3, <2>6, <2>7
  <2> QED
    BY <2>7, <2>12, <2>13, <2>14, <2>15, EnvironmentStep
<1> QED
  BY <1>7, <1>8, <1>9

LEMMA ElementJobKeeps ==
    ASSUME IndInv, ElementJob
    PROVE  IndInv'
<1> PICK j : j = Head(jobs)
  OBVIOUS
<1> PICK w : w = <<j.src, j.rx>>
  OBVIOUS
<1> PICK r : r = j.rx.to
  OBVIOUS
<1> PICK p : p = j.src
  OBVIOUS
<1> PICK tl : tl = Tail(jobs)
  OBVIOUS
<1>1. /\ JobReady("reaction") /\ StartReaction /\ j.rx.kind \in Counted
      /\ CallElement(r, p, j.reject, j.arg, tl)
      /\ pairs' = pairs /\ exposed' = exposed /\ stack' = stack /\ async' = async
  BY DEF ElementJob, ReactionReady, Counted
<1>2. /\ j \in Job /\ j.type = "reaction" /\ p \in Promise /\ j.rx \in Reaction /\ Fits(j.rx)
      /\ promise[p].state \in Settled
      /\ j.reject = (promise[p].state = "rejected")
      /\ j.arg = promise[p].result /\ j.arg \in Result
      /\ j.reject = FALSE => j.arg \notin Promise \cup {Thenable}
  BY <1>1, HeadReaction
<1>3. /\ Good(promise, tl, started') /\ Ways(promise, open, tl, pairs)
      /\ Calls(tl) = Calls(jobs)
      /\ Waits(promise, jobs) = Waits(promise, tl) \cup {w}
      /\ w \notin Waits(promise, tl)
  BY <1>1, HeadReaction
<1>4. r \in Promise /\ j.rx.kind \in Combinator /\ j.reject \in BOOLEAN
  BY <1>1, <1>2, JobFields, ReactionFields DEF Counted
<1>5. allOf[r].kind = j.rx.kind
  BY <1>2, <1>4 DEF Fits
<1>6. w \in Waits(promise, jobs) /\ w[1] = p /\ For(w, allOf[r], r)
  BY <1>3, <1>5 DEF For
<1>7. Linked(allOf[r], r, Waits(promise, jobs))
  BY <1>1, <1>4, <1>5 DEF IndInv, Complete, Elements
<1>8. p \in Missing(allOf[r]) /\ p \in allOf[r].of
  BY <1>6, <1>7 DEF Linked, Missing
<1>9. \A x \in Waits(promise, tl) : For(x, allOf[r], r) => x[1] # p
  BY <1>3, <1>6, <1>7 DEF Linked
<1>10. \A x \in Waits(promise, jobs) : x \in Waits(promise, tl) \/ x[2].kind # "await"
  <2>1. w[2].kind # "await"
    BY <1>1 DEF Counted
  <2> QED
    BY <2>1, <1>3
<1>11. Caller(r, p, j.reject, j.arg, tl)
  <2>1. allOf[r].kind # "none" /\ allOf[r].kind \in Counted
    BY <1>1, <1>5 DEF Counted
  <2> QED
    BY <1>2, <1>3, <1>8, <1>9, <1>10, <2>1 DEF Caller
<1> QED
  BY <1>1, <1>2, <1>4, <1>11, CallElementKeeps

LEMMA ScriptElementKeeps ==
    ASSUME IndInv, NEW r \in Promise, NEW p \in Promise, NEW reject \in BOOLEAN,
           NEW v \in Plain, ScriptElement(r, p, reject, v)
    PROVE  IndInv'
<1>1. /\ p \in allOf[r].of /\ p \in Own /\ CallElement(r, p, reject, v, jobs)
      /\ pairs' = pairs /\ exposed' = exposed /\ stack' = stack /\ async' = async
      /\ started' = started
  BY DEF ScriptElement
<1>2. v \in Result /\ v \notin Promise \cup {Thenable}
  BY PromisesAssumption DEF Result, Value
<1>3. allOf[r].kind # "none"
  BY <1>1, AllTypes, EnvironmentFields DEF IndInv
<1>4. Good(promise, jobs, started') /\ Ways(promise, open, jobs, pairs)
  BY <1>1 DEF IndInv
<1>5. Caller(r, p, reject, v, jobs)
  BY <1>1, <1>2, <1>3, <1>4 DEF Caller
<1> QED
  BY <1>1, <1>2, <1>5, CallElementKeeps
(* What Promise.all, allSettled, any and race leave behind for their new   *)
(* promise q: its environment, and the reactions of its elements.          *)
Combined(q, kind) ==
    /\ Good(promise', jobs', started') /\ Ways(promise', open', jobs', pairs')
    /\ \A x \in Promise : x # q => /\ promise'[x].state = promise[x].state
                                   /\ promise'[x].result = promise[x].result
    /\ promise'[q].state # "none"
    /\ \A x \in Promise : x # q => allOf'[x] = allOf[x]
    /\ allOf'[q].kind = kind
    /\ \A w \in Waits(promise', jobs') :
          \/ w \in Waits(promise, jobs)
          \/ /\ w[1] \in Promise /\ promise'[w[1]].state # "none"
             /\ w[2].kind = kind /\ w[2].to = q
    /\ \A w \in Waits(promise, jobs) : w \in Waits(promise', jobs')
    /\ Calls(jobs') \subseteq Calls(jobs)
    /\ exposed' = exposed /\ stack' = stack /\ async' = async

LEMMA CombinedKeeps ==
    ASSUME IndInv, NEW q \in Promise, NewCapability(q), NEW kind \in Combinator,
           Combined(q, kind),
           allOf' \in [Promise -> Environment],
           kind \in Counted => Elements(q)'
    PROVE  IndInv'
<1>1. promise[q].state = "none" /\ allOf[q] = NoAll
      /\ \A x \in Promise : allOf[x].kind # "none" => x # q
  BY Fresh
<1>2. /\ Good(promise', jobs', started') /\ Ways(promise', open', jobs', pairs')
      /\ \A x \in Promise : x # q => /\ promise'[x].state = promise[x].state
                                     /\ promise'[x].result = promise[x].result
      /\ promise'[q].state # "none"
      /\ \A x \in Promise : x # q => allOf'[x] = allOf[x]
      /\ allOf'[q].kind = kind
      /\ Calls(jobs') \subseteq Calls(jobs)
      /\ exposed' = exposed /\ stack' = stack /\ async' = async
  BY DEF Combined
<1>3. /\ \A w \in Waits(promise', jobs') :
            \/ w \in Waits(promise, jobs)
            \/ /\ w[1] \in Promise /\ promise'[w[1]].state # "none"
               /\ w[2].kind = kind /\ w[2].to = q
      /\ \A w \in Waits(promise, jobs) : w \in Waits(promise', jobs')
  BY DEF Combined
<1>4. kind \notin {"then", "adopt", "await"}
  BY PromisesAssumption
<1>5. TypeOK'
  BY <1>2, TypesKept DEF IndInv, TypeOK
<1>6. Roles'
  <2>1. \A x \in Promise : promise[x].state # "none" => promise'[x].state # "none"
    BY <1>1, <1>2
  <2>2. \A x \in Promise : promise[x].state # "none" => allOf'[x].kind = allOf[x].kind
    BY <1>1, <1>2
  <2>3. \A x \in Promise : promise'[x].state = "none" => allOf'[x] = NoAll
    BY <1>2, ExistsState DEF IndInv, Roles
  <2>4. Exists(q)'
    BY <1>2, ExistsState
  <2>5. ASSUME NEW w \in Waits(promise', jobs')
        PROVE  w \in Waits(promise, jobs) \/ (w[1] \in Promise /\ Exists(w[1])' /\ Fits(w[2])')
    <3> SUFFICES ASSUME /\ w[1] \in Promise /\ promise'[w[1]].state # "none"
                        /\ w[2].kind = kind /\ w[2].to = q
                 PROVE  Exists(w[1])' /\ Fits(w[2])'
      BY <1>3
    <3>1. Exists(w[1])'
      BY ExistsState
    <3>2. Fits(w[2])'
      BY <2>4, <1>2, <1>4 DEF Fits
    <3> QED
      BY <3>1, <3>2
  <2> QED
    BY <1>2, <2>1, <2>2, <2>3, <2>5, RolesKept
<1>7. OneAwait'
  BY <1>2, <1>3, <1>4, AwaitKept
<1>8. Complete'
  <2> SUFFICES ASSUME NEW x \in Promise, allOf'[x].kind \in Counted PROVE Elements(x)'
    BY DEF Complete, Counted
  <2>1. CASE x = q
    BY <2>1, <1>2
  <2>2. CASE x # q
    <3>1. Elements(x) /\ allOf'[x] = allOf[x]
      BY <2>2, <1>2 DEF IndInv, Complete
    <3>2. \A p \in Promise : promise[p].state \in Settled =>
             promise'[p].state = promise[p].state /\ promise'[p].result = promise[p].result
      BY <1>1, <1>2 DEF Settled
    <3>3. \A w \in Waits(promise', jobs') :
             w \in Waits(promise, jobs) \/ w[2].kind # allOf[x].kind \/ w[2].to # x
      BY <1>3, <2>2
    <3>4. promise'[x].state = promise[x].state /\ promise'[x].result = promise[x].result
      BY <2>2, <1>2
    <3> QED
      BY <3>1, <3>2, <3>3, <3>4, ElementsKept
  <2> QED
    BY <2>1, <2>2
<1> QED
  BY <1>2, <1>5, <1>6, <1>7, <1>8 DEF IndInv

LEMMA CombineNoneKeeps ==
    ASSUME IndInv, NEW q \in Promise, NEW kind \in Combinator, CombineNone(q, kind)
    PROVE  IndInv'
<1> PICK ps : ps = Create(promise, q)
  OBVIOUS
<1> PICK op : op = open \cup {<<q, 0>>}
  OBVIOUS
<1> PICK any \in BOOLEAN : any = (kind = "any")
  OBVIOUS
<1> PICK b : b = allOf'[q]
  OBVIOUS
<1>1. /\ NewCapability(q) /\ allOf' = [allOf EXCEPT ![q].kind = kind]
      /\ IF kind = "race" THEN promise' = ps /\ open' = op /\ jobs' = jobs
         ELSE CallResolving(ps, op, jobs, q, 0, any, Array)
      /\ exposed' = exposed /\ started' = started /\ stack' = stack /\ async' = async
  BY DEF CombineNone
<1>2. allOf[q] = NoAll /\ \A w \in Waits(promise, jobs) : w[2].to # q
  BY <1>1, Fresh
<1>3. /\ Good(ps, jobs, started) /\ Ways(ps, op, jobs, pairs')
      /\ Waits(ps, jobs) = Waits(promise, jobs)
      /\ \A x \in Promise : x # q => ps[x] = promise[x]
      /\ ps[q].state = "pending"
  <2>0. NewCapability(q)
    BY <1>1
  <2>1. Ways(ps, open \cup {<<q, 0>>}, jobs, pairs') /\ Good(ps, jobs, started)
    BY <2>0, Created
  <2>2. Waits(ps, jobs) = Waits(promise, jobs) /\ ps[q].state = "pending"
    BY <2>0, Created
  <2>3. \A x \in Promise : x # q => ps[x] = promise[x]
    BY <2>0, Created
  <2> QED
    BY <2>1, <2>2, <2>3
<1>4. /\ Good(promise', jobs', started') /\ Ways(promise', open', jobs', pairs')
      /\ Waits(promise', jobs') = Waits(promise, jobs)
      /\ Calls(jobs') \subseteq Calls(jobs)
      /\ \A x \in Promise : x # q => promise'[x] = promise[x]
      /\ promise'[q].state \in {"pending", IF any THEN "rejected" ELSE "fulfilled"}
  <2>1. CASE kind = "race"
    BY <2>1, <1>1, <1>3
  <2>2. CASE kind # "race"
    <3>1. CallResolving(ps, op, jobs, q, 0, any, Array)
      BY <2>2, <1>1
    <3>2. Array \in Result /\ Array \notin Promise \cup {Thenable} /\ 0 \in 0 .. MaxGen
      BY Constants, FirstPair DEF Result
    <3>3. any = FALSE /\ Array \in Promise \cup {Thenable} => 0 < MaxGen
      BY <3>2
    <3>4. Resolved(ps, jobs, started, pairs', q, any, Array)
      BY <1>3, <3>1, <3>2, <3>3, Resolving
    <3>5. /\ Good(promise', jobs', started) /\ Ways(promise', open', jobs', pairs')
          /\ Waits(promise', jobs') = Waits(ps, jobs)
          /\ \A x \in Promise : x # q => promise'[x] = ps[x]
          /\ \A c \in Calls(jobs') : c \in Calls(jobs)
      BY <3>2, <3>4 DEF Resolved
    <3>6. promise'[q] = ps[q] \/ promise'[q].state = IF any THEN "rejected" ELSE "fulfilled"
      BY <3>2, <3>4 DEF Resolved
    <3> QED
      BY <1>1, <1>3, <3>5, <3>6
  <2> QED
    BY <2>1, <2>2
<1>5. /\ b.kind = kind /\ b.of = {} /\ b.remaining = 0 /\ b.called = {} /\ b.failed = FALSE
      /\ \A x \in Promise : x # q => allOf'[x] = allOf[x]
      /\ allOf' \in [Promise -> Environment]
  <2> DEFINE R == Environment
  <2>1. allOf \in [Promise -> R]
    BY DEF IndInv, TypeOK
  <2>2. b = [NoAll EXCEPT !.kind = kind] /\ allOf' = [allOf EXCEPT ![q] = b]
    BY <1>1, <1>2, <2>1
  <2>3. /\ b.kind = kind /\ b.of = {} /\ b.remaining = 0 /\ b \in R
        /\ b.called = {} /\ b.failed = FALSE
    <3>1. /\ b.kind = kind /\ b.of = {} /\ b.remaining = 0 /\ b.called = {}
          /\ b.failed = FALSE /\ b.values = [p \in Promise |-> NoValue]
      BY <2>2 DEF NoAll
    <3>2. b = [kind |-> kind, of |-> {}, called |-> {}, remaining |-> 0,
               values |-> [p \in Promise |-> NoValue], failed |-> FALSE]
      BY <2>2 DEF NoAll
    <3>3. b \in R
      BY <3>2, Constants DEF Environment
    <3> QED
      BY <3>1, <3>3
  <2> HIDE DEF R
  <2>4. allOf' \in [Promise -> R] /\ \A x \in Promise : x # q => allOf'[x] = allOf[x]
    BY <2>1, <2>2, <2>3
  <2> QED
    BY <2>3, <2>4 DEF R
<1>6. Combined(q, kind)
  <2>1. promise'[q].state # "none"
    BY <1>4
  <2> QED
    BY <1>1, <1>4, <1>5, <2>1 DEF Combined
<1>7. Elements(q)'
  <2>1. Missing(b) = {} /\ b.remaining = Cardinality(Missing(b)) + 0
    BY <1>5, FS_EmptySet DEF Missing
  <2>2. promise'[q].state \notin Settled \ {GoodEnd(b)}
    BY <1>4, <1>5 DEF GoodEnd, Settled
  <2>3. \A w \in Waits(promise', jobs') : ~For(w, b, q)
    BY <1>2, <1>4 DEF For
  <2>4. Linked(b, q, Waits(promise', jobs'))
    BY <2>3 DEF Linked
  <2>5. Booked(b) /\ Placed(b, promise')
    BY <2>1, <1>5 DEF Booked, Placed
  <2>6. EndOf(b, promise', q)
    BY <2>1, <2>2, <1>5 DEF EndOf
  <2> QED
    BY <2>4, <2>5, <2>6 DEF Elements
<1> QED
  BY <1>1, <1>5, <1>6, <1>7, CombinedKeeps

(* then on an element of the list: a reaction more, or none.               *)
Listed(ps, jb, op, st, pr, p, rx, ns, nj, w) ==
    /\ Good(ns, nj, st) /\ Ways(ns, op, nj, pr)
    /\ Calls(nj) = Calls(jb)
    /\ p \in Own => Waits(ns, nj) = Waits(ps, jb)
    /\ p \notin Own => Waits(ns, nj) = Waits(ps, jb) \cup {w}
    /\ w[1] = p /\ w[2].kind = rx.kind /\ w[2].to = rx.to
    /\ \A q \in Promise : ns[q].state = ps[q].state /\ ns[q].result = ps[q].result
    /\ \A q \in Promise : q # p => ns[q] = ps[q]

ListsThen(ps, jb, p, rx, ns, nj) ==
    ns = ListThen(ps, p, rx) /\ nj = jb \o ListJobs(ps, p, rx)

LEMMA Listing ==
    ASSUME NEW ps, NEW op, NEW jb, NEW st, NEW pr, NEW p \in Promise, NEW rx \in Reaction,
           Good(ps, jb, st), Ways(ps, op, jb, pr), ps[p].state # "none",
           NEW ns, NEW nj, ListsThen(ps, jb, p, rx, ns, nj),
           NEW w, w = <<p, Numbered(ps, p, rx)>>
    PROVE  Listed(ps, jb, op, st, pr, p, rx, ns, nj, w)
<1>1. CASE p \in Own
  <2>1. jb \in Seq(Job) /\ ps \in [Promise -> PromiseData]
    BY DEF Good
  <2>2. ns = ps /\ nj = jb
    BY <1>1, <2>1 DEF ListsThen, ListThen, ListJobs
  <2>3. w[1] = p /\ w[2].kind = rx.kind /\ w[2].to = rx.to
    BY <2>1, NumberedFields
  <2> QED
    BY <1>1, <2>2, <2>3 DEF Listed
<1>2. CASE p \notin Own
  <2>1. PerformThen(ps, jb, p, rx, ns, nj)
    BY <1>2 DEF PerformThen, ListsThen, ListThen, ListJobs
  <2>2. Extended(ps, jb, op, st, pr, p, rx, ns, nj, w)
    BY <2>1, Added
  <2> QED
    BY <1>2, <2>2 DEF Listed, Extended
<1> QED
  BY <1>1, <1>2

LEMMA ListSame ==
    ASSUME NEW ps, NEW ns, NEW p, NEW rx, ns[p] = ps[p]
    PROVE  ListJobs(ns, p, rx) = ListJobs(ps, p, rx)
  BY ThenSame DEF ListJobs

LEMMA CombineTwoKeeps ==
    ASSUME IndInv, NEW q \in Promise, NEW kind \in Combinator, NEW p1 \in Promise,
           NEW p2 \in Promise, NEW throws \in BOOLEAN, NEW e \in Plain,
           CombineTwo(q, kind, p1, p2, throws, e)
    PROVE  IndInv'
<1> PICK ps : ps = Create(promise, q)
  OBVIOUS
<1> PICK rx : rx = React(kind, q, 0, TRUE, TRUE)
  OBVIOUS
<1> PICK pt : pt = ListThen(ps, p1, rx)
  OBVIOUS
<1> PICK jt : jt = jobs \o ListJobs(promise, p1, rx)
  OBVIOUS
<1> PICK pu : pu = ListThen(pt, p2, rx)
  OBVIOUS
<1> PICK ju : ju = jt \o ListJobs(promise, p2, rx)
  OBVIOUS
<1> PICK op : op = open \cup {<<q, 0>>}
  OBVIOUS
<1> PICK w1 : w1 = <<p1, Numbered(ps, p1, rx)>>
  OBVIOUS
<1> PICK w2 : w2 = <<p2, Numbered(pt, p2, rx)>>
  OBVIOUS
<1> PICK b : b = allOf'[q]
  OBVIOUS
<1> PICK n \in Int : n = IF throws THEN 3 ELSE 2
  OBVIOUS
<1> PICK yes \in BOOLEAN : yes = TRUE
  OBVIOUS
<1>1. /\ NewCapability(q) /\ Exists(p1) /\ Exists(p2) /\ p1 # p2
      /\ throws = TRUE => p2 \in Own
      /\ allOf' = [allOf EXCEPT ![q] = [allOf[q] EXCEPT !.kind = kind, !.of = {p1, p2},
                                                        !.remaining = n, !.failed = throws]]
      /\ throws = TRUE => CallResolving(pu, op, ju, q, 0, yes, e)
      /\ throws = FALSE => promise' = pu /\ open' = op /\ jobs' = ju
      /\ exposed' = exposed /\ started' = started /\ stack' = stack /\ async' = async
  BY DEF CombineTwo, CanThen
<1>2. promise[q].state = "none" /\ allOf[q] = NoAll /\ \A w \in Waits(promise, jobs) : w[2].to # q
  BY <1>1, Fresh
<1>3. promise[p1].state # "none" /\ p1 # q /\ promise[p2].state # "none" /\ p2 # q
  BY <1>1, <1>2, ExistsState
<1>4. /\ Good(ps, jobs, started) /\ Ways(ps, op, jobs, pairs')
      /\ Waits(ps, jobs) = Waits(promise, jobs)
      /\ \A x \in Promise : x # q => ps[x] = promise[x]
      /\ ps[q].state = "pending"
  <2>1. NewCapability(q)
    BY <1>1
  <2>2. Ways(ps, open \cup {<<q, 0>>}, jobs, pairs') /\ Good(ps, jobs, started)
    BY <2>1, Created
  <2>3. Waits(ps, jobs) = Waits(promise, jobs) /\ ps[q].state = "pending"
    BY <2>1, Created
  <2>4. \A x \in Promise : x # q => ps[x] = promise[x]
    <3>1. promise \in [Promise -> PromiseData]
      BY DEF IndInv, TypeOK
    <3> QED
      BY <3>1, CreateFields
  <2> QED
    BY <2>2, <2>3, <2>4
<1>5. rx \in Reaction /\ rx.kind = kind /\ rx.to = q
  BY FirstPair DEF React, Reaction
<1>6. ListsThen(ps, jobs, p1, rx, pt, jt)
  <2>1. ps[p1] = promise[p1]
    BY <1>3, <1>4
  <2>2. ListJobs(ps, p1, rx) = ListJobs(promise, p1, rx)
    BY <2>1 DEF ListJobs, ThenJobs, JobOf, Numbered
  <2> QED
    BY <2>2 DEF ListsThen
<1>7. Listed(ps, jobs, op, started, pairs', p1, rx, pt, jt, w1)
  <2>1. ps[p1].state # "none"
    BY <1>3, <1>4
  <2> QED
    BY <2>1, <1>4, <1>5, <1>6, Listing
<1>8. /\ Good(pt, jt, started) /\ Ways(pt, op, jt, pairs')
      /\ Calls(jt) = Calls(jobs)
      /\ p1 \in Own => Waits(pt, jt) = Waits(promise, jobs)
      /\ p1 \notin Own => Waits(pt, jt) = Waits(promise, jobs) \cup {w1}
      /\ w1[1] = p1 /\ w1[2].kind = kind /\ w1[2].to = q
      /\ \A x \in Promise : pt[x].state = ps[x].state /\ pt[x].result = ps[x].result
      /\ \A x \in Promise : x # p1 => pt[x] = ps[x]
  BY <1>4, <1>5, <1>7 DEF Listed
<1>9. ListsThen(pt, jt, p2, rx, pu, ju)
  <2>1. pt[p2] = promise[p2]
    BY <1>1, <1>3, <1>4, <1>8
  <2>2. ListJobs(pt, p2, rx) = ListJobs(promise, p2, rx)
    BY <2>1 DEF ListJobs, ThenJobs, JobOf, Numbered
  <2> QED
    BY <2>2 DEF ListsThen
<1>10. Listed(pt, jt, op, started, pairs', p2, rx, pu, ju, w2)
  <2>1. pt[p2].state # "none"
    <3>1. pt[p2].state = ps[p2].state
      BY <1>8
    <3>2. ps[p2] = promise[p2]
      BY <1>3, <1>4
    <3> QED
      BY <1>3, <3>1, <3>2
  <2>2. Good(pt, jt, started) /\ Ways(pt, op, jt, pairs')
    BY <1>8
  <2> QED
    BY <2>1, <2>2, <1>5, <1>9, Listing
<1>11. /\ Good(pu, ju, started) /\ Ways(pu, op, ju, pairs')
       /\ Calls(ju) = Calls(jobs)
       /\ \A w \in Waits(promise, jobs) : w \in Waits(pu, ju)
       /\ \A w \in Waits(pu, ju) : \/ w \in Waits(promise, jobs)
                                   \/ w = w1 /\ p1 \notin Own
                                   \/ w = w2 /\ p2 \notin Own
       /\ w2[1] = p2 /\ w2[2].kind = kind /\ w2[2].to = q
       /\ \A x \in Promise : pu[x].state = ps[x].state /\ pu[x].result = ps[x].result
  <2>1. /\ Good(pu, ju, started) /\ Ways(pu, op, ju, pairs')
        /\ Calls(ju) = Calls(jt)
        /\ p2 \in Own => Waits(pu, ju) = Waits(pt, jt)
        /\ p2 \notin Own => Waits(pu, ju) = Waits(pt, jt) \cup {w2}
        /\ w2[1] = p2 /\ w2[2].kind = rx.kind /\ w2[2].to = rx.to
    BY <1>10 DEF Listed
  <2>2. \A x \in Promise : pu[x].state = pt[x].state /\ pu[x].result = pt[x].result
    BY <1>10 DEF Listed
  <2>3. \A x \in Promise : pu[x].state = ps[x].state /\ pu[x].result = ps[x].result
    <3> SUFFICES ASSUME NEW x \in Promise
                 PROVE  pu[x].state = ps[x].state /\ pu[x].result = ps[x].result
      OBVIOUS
    <3>1. pt[x].state = ps[x].state /\ pt[x].result = ps[x].result
      BY <1>8
    <3>2. pu[x].state = pt[x].state /\ pu[x].result = pt[x].result
      BY <2>2
    <3> QED
      BY <3>1, <3>2, ZenonT(30)
  <2>4. /\ Calls(ju) = Calls(jobs)
        /\ \A w \in Waits(promise, jobs) : w \in Waits(pu, ju)
    BY <2>1, <1>8
  <2>5. \A w \in Waits(pu, ju) : \/ w \in Waits(promise, jobs)
                                 \/ w = w1 /\ p1 \notin Own
                                 \/ w = w2 /\ p2 \notin Own
    BY <2>1, <1>8
  <2>6. w2[1] = p2 /\ w2[2].kind = kind /\ w2[2].to = q
    BY <2>1, <1>5
  <2> QED
    BY <2>1, <2>3, <2>4, <2>5, <2>6
<1>12. /\ Good(promise', jobs', started') /\ Ways(promise', open', jobs', pairs')
       /\ Waits(promise', jobs') = Waits(pu, ju) /\ Calls(jobs') \subseteq Calls(jobs)
       /\ \A x \in Promise : x # q => promise'[x] = pu[x]
       /\ \/ promise'[q].state = "pending"
          \/ promise'[q].state = "rejected" /\ promise'[q].result = e /\ throws = TRUE
  <2>1. CASE throws = TRUE
    <3>1. CallResolving(pu, op, ju, q, 0, yes, e)
      BY <2>1, <1>1
    <3>2. e \in Result /\ 0 \in 0 .. MaxGen
      BY FirstPair DEF Result, Value
    <3>3. Good(pu, ju, started) /\ Ways(pu, op, ju, pairs')
      BY <1>11
    <3>4. Resolved(pu, ju, started, pairs', q, yes, e)
      BY <3>1, <3>2, <3>3, Resolving
    <3>5. /\ Good(promise', jobs', started) /\ Ways(promise', open', jobs', pairs')
          /\ Waits(promise', jobs') = Waits(pu, ju)
          /\ \A x \in Promise : x # q => promise'[x] = pu[x]
          /\ \A c \in Calls(jobs') : c \in Calls(ju)
      BY <3>4 DEF Resolved
    <3>6. promise'[q] = pu[q] \/ (promise'[q].state = "rejected" /\ promise'[q].result = e)
      <4>1. CASE promise'[q] = pu[q]
        BY <4>1
      <4>2. CASE promise'[q] # pu[q]
        <5>1. yes = TRUE
          OBVIOUS
        <5>2. (IF yes THEN "rejected" ELSE "fulfilled") = "rejected"
          BY <5>1
        <5>3. \/ /\ promise'[q].state = IF yes THEN "rejected" ELSE "fulfilled"
                 /\ promise'[q].result = e
              \/ yes = FALSE
          BY <3>4, <4>2 DEF Resolved
        <5> QED
          BY <5>1, <5>2, <5>3
      <4> QED
        BY <4>1, <4>2
    <3>7. pu[q].state = "pending"
      BY <1>4, <1>11
    <3> QED
      BY <2>1, <3>5, <3>6, <3>7, <1>1, <1>11
  <2>2. CASE throws = FALSE
    BY <2>2, <1>1, <1>4, <1>11
  <2> QED
    BY <2>1, <2>2
<1>13. /\ b.kind = kind /\ b.of = {p1, p2} /\ b.remaining = n /\ b.failed = throws
       /\ b.called = {} /\ \A x \in Promise : b.values[x] = NoValue
       /\ \A x \in Promise : x # q => allOf'[x] = allOf[x]
       /\ allOf' \in [Promise -> Environment]
  <2>1. allOf \in [Promise -> Environment]
    BY DEF IndInv, TypeOK
  <2>2. /\ b = [NoAll EXCEPT !.kind = kind, !.of = {p1, p2}, !.remaining = n, !.failed = throws]
        /\ allOf' = [allOf EXCEPT ![q] = b]
    BY <1>1, <1>2, <2>1
  <2> PICK s \in SUBSET Promise : s = {p1, p2}
    OBVIOUS
  <2>3. b = [kind |-> kind, of |-> s, called |-> {}, remaining |-> n,
             values |-> [p \in Promise |-> NoValue], failed |-> throws]
    BY <2>2 DEF NoAll
  <2>4. b \in Environment
    BY <2>3, Constants DEF Environment
  <2>5. /\ b.kind = kind /\ b.of = {p1, p2} /\ b.remaining = n /\ b.failed = throws
        /\ b.called = {} /\ \A x \in Promise : b.values[x] = NoValue
    BY <2>3
  <2>6. allOf' \in [Promise -> Environment] /\ \A x \in Promise : x # q => allOf'[x] = allOf[x]
    BY <2>1, <2>2, <2>4
  <2> QED
    BY <2>5, <2>6
<1>14. \A x \in Promise : x # q => /\ promise'[x].state = promise[x].state
                                   /\ promise'[x].result = promise[x].result
  <2> SUFFICES ASSUME NEW x \in Promise, x # q
               PROVE  /\ promise'[x].state = promise[x].state
                      /\ promise'[x].result = promise[x].result
    OBVIOUS
  <2>1. promise'[x] = pu[x]
    BY <1>12
  <2>2. pu[x].state = ps[x].state /\ pu[x].result = ps[x].result
    BY <1>11
  <2>3. ps[x] = promise[x]
    BY <1>4
  <2> QED
    BY <2>1, <2>2, <2>3
<1>15. Combined(q, kind)
  <2>1. \A w \in Waits(promise', jobs') :
          \/ w \in Waits(promise, jobs)
          \/ /\ w[1] \in Promise /\ promise'[w[1]].state # "none"
             /\ w[2].kind = kind /\ w[2].to = q
    <3> SUFFICES ASSUME NEW w \in Waits(promise', jobs'), w \notin Waits(promise, jobs)
                 PROVE  /\ w[1] \in Promise /\ promise'[w[1]].state # "none"
                        /\ w[2].kind = kind /\ w[2].to = q
      OBVIOUS
    <3>1. w = w1 \/ w = w2
      BY <1>11, <1>12
    <3>2. w1[1] = p1 /\ w1[2].kind = kind /\ w1[2].to = q
      BY <1>8
    <3>3. w2[1] = p2 /\ w2[2].kind = kind /\ w2[2].to = q
      BY <1>11
    <3>4. promise'[p1].state # "none" /\ promise'[p2].state # "none"
      BY <1>3, <1>14
    <3> QED
      BY <3>1, <3>2, <3>3, <3>4
  <2>2. \A w \in Waits(promise, jobs) : w \in Waits(promise', jobs')
    BY <1>11, <1>12
  <2>3. promise'[q].state # "none"
    BY <1>12
  <2> QED
    BY <1>1, <1>12, <1>13, <1>14, <2>1, <2>2, <2>3 DEF Combined
<1>16. Elements(q)'
  <2>1. Missing(b) = {p1, p2}
    BY <1>13 DEF Missing
  <2>2. Cardinality(Missing(b)) = 2
    <3>1. IsFiniteSet({p1}) /\ Cardinality({p1}) = 1
      BY FS_Singleton
    <3>2. Cardinality({p1} \cup {p2}) = Cardinality({p1}) + 1
      BY <1>1, <3>1, FS_AddElement
    <3>3. {p1} \cup {p2} = {p1, p2}
      OBVIOUS
    <3>4. Cardinality({p1, p2}) = 1 + 1
      BY <3>1, <3>2, <3>3
    <3> QED
      BY <2>1, <3>4
  <2>3. Booked(b)
    <3>1. b.remaining = Cardinality(Missing(b)) + (IF b.failed THEN 1 ELSE 0)
      BY <2>2, <1>13
    <3> QED
      BY <3>1, <1>13 DEF Booked
  <2>4. Linked(b, q, Waits(promise', jobs'))
    <3>1. \A w \in Waits(promise', jobs') : For(w, b, q) =>
              (w = w1 /\ p1 \notin Own) \/ (w = w2 /\ p2 \notin Own)
      BY <1>2, <1>11, <1>12 DEF For
    <3>2. w1[1] = p1 /\ w2[1] = p2 /\ p1 # p2
      BY <1>1, <1>8, <1>11
    <3> QED
      BY <3>1, <3>2, <2>1 DEF Linked
  <2>5. Placed(b, promise')
    BY <1>13 DEF Placed
  <2>6. EndOf(b, promise', q)
    <3>1. e # Array
      BY PromisesAssumption
    <3>2. throws = TRUE => b.of \cap Own # {}
      BY <1>1, <1>13
    <3>3. "pending" \notin Settled /\ GoodEnd(b) \in Settled
      BY DEF GoodEnd, Settled
    <3> QED
      BY <3>1, <3>2, <3>3, <1>12 DEF EndOf
  <2> QED
    BY <2>3, <2>4, <2>5, <2>6 DEF Elements
<1> QED
  BY <1>1, <1>13, <1>15, <1>16, CombinedKeeps
---------------------------------------------------------------------------
(* The invariant holds in the initial states, and every step keeps it.     *)
LEMMA InitHolds ==
    ASSUME Init
    PROVE  IndInv
<1>1. /\ promise = [p \in Promise |-> NoData] /\ pairs = [p \in Promise |-> 0]
      /\ open = {} /\ exposed = {} /\ jobs = <<>> /\ stack = <<>>
      /\ started = [p \in Promise |-> 0] /\ async = [p \in Promise |-> "none"]
      /\ allOf = [p \in Promise |-> NoAll]
  BY DEF Init
<1>2. NoData \in PromiseData /\ NoData.reactions = <<>> /\ NoData.count = 0
      /\ NoData.state = "none"
  BY DEF NoData, PromiseData
<1>3. NoAll \in Environment
      /\ NoAll.kind = "none"
  BY DEF NoAll, Environment
<1>4. 0 \in 0 .. MaxGen + 1 /\ MaxGen \in Nat
  BY Constants
<1>5. /\ promise \in [Promise -> PromiseData] /\ pairs \in [Promise -> 0 .. MaxGen + 1]
      /\ jobs \in Seq(Job) /\ stack \in Seq(Job) /\ DOMAIN jobs = {} /\ DOMAIN stack = {}
      /\ \A p \in Promise : promise[p] = NoData /\ started[p] = 0 /\ pairs[p] = 0
      /\ started \in [Promise -> Nat]
      /\ async \in [Promise -> {"none", "running", "suspended", "done"}]
      /\ \A p \in Promise : async[p] = "none"
  BY <1>1, <1>2, <1>4
<1>6. /\ allOf \in [Promise -> Environment]
      /\ \A p \in Promise : allOf[p] = NoAll /\ allOf[p].kind = "none"
  BY <1>1, <1>3
<1>7. TypeOK
  BY <1>1, <1>5, <1>6 DEF TypeOK
<1>8. /\ \A p : Mine(jobs, p) = {}
      /\ CallIndex(jobs) = {}
  BY <1>5 DEF Mine, CallIndex
<1>9. Calls(jobs) = {}
  BY <1>8 DEF Calls
<1>10. Waits(promise, jobs) = {}
  <2>1. \A p \in Promise : DOMAIN promise[p].reactions = {}
    BY <1>2, <1>5
  <2>2. \A p \in Promise : WaitsOf(promise, jobs, p) = {}
    BY <2>1, <1>8 DEF WaitsOf
  <2> QED
    BY <2>2 DEF Waits
<1>11. Good(promise, jobs, started)
  <2>1. ASSUME NEW p \in Promise PROVE InOrder(promise, jobs, started, p)
    <3>1. promise[p].reactions = <<>> /\ promise[p].count = 0 /\ promise[p].state = "none"
          /\ started[p] = 0
      BY <1>2, <1>5
    <3>2. Last(promise, p) = 0
      <4>1. Len(promise[p].reactions) = 0 /\ promise[p].count = 0
        BY <3>1
      <4> QED
        BY <4>1 DEF Last
    <3> QED
      BY <3>1, <3>2, <1>8 DEF InOrder
  <2> QED
    BY <2>1, <1>5, <1>8 DEF Good
<1>12. Ways(promise, open, jobs, pairs)
  <2>1. \A p \in Promise : promise[p].state = "none" /\ pairs[p] = 0
    BY <1>2, <1>5
  <2>2. \A p \in Promise : Way(promise, open, jobs, pairs, p)
    BY <2>1, <1>1, <1>9 DEF Way, Settled
  <2> QED
    BY <2>2, <1>1, <1>5 DEF Ways
<1>13. Roles
  BY <1>1, <1>5, <1>6, <1>9, <1>10 DEF Roles
<1>14. OneAwait
  BY <1>5, <1>10 DEF OneAwait
<1>15. Complete
  BY <1>6 DEF Complete, Counted
<1> QED
  BY <1>7, <1>11, <1>12, <1>13, <1>14, <1>15 DEF IndInv

LEMMA StutterKeeps ==
    ASSUME IndInv, UNCHANGED vars
    PROVE  IndInv'
<1>1. /\ promise' = promise /\ pairs' = pairs /\ open' = open /\ exposed' = exposed
      /\ jobs' = jobs /\ started' = started /\ stack' = stack /\ async' = async
      /\ allOf' = allOf
  BY DEF vars
<1>2. TypeOK'
  BY <1>1 DEF IndInv, TypeOK
<1>3. Good(promise', jobs', started') /\ Ways(promise', open', jobs', pairs')
  BY <1>1 DEF IndInv
<1>4. Roles'
  <2>1. \A p \in Promise : promise'[p].state = "none" => allOf'[p] = NoAll
    BY <1>1, ExistsState DEF IndInv, Roles
  <2> QED
    BY <1>1, <2>1, RolesKept
<1>5. OneAwait'
  BY <1>1, AwaitKept
<1>6. Complete'
  BY <1>1, CompleteKept
<1> QED
  BY <1>2, <1>3, <1>4, <1>5, <1>6 DEF IndInv

LEMMA NextKeeps ==
    ASSUME IndInv, [Next]_vars
    PROVE  IndInv'
<1>1. CASE ScriptStep
  <2>1. ASSUME NEW q \in Promise, NewPromise(q) PROVE IndInv'
    BY <2>1, NewPromiseKeeps
  <2>2. ASSUME NEW q \in Promise, AsyncCall(q) PROVE IndInv'
    BY <2>2, AsyncCallKeeps
  <2>3. ASSUME NEW q \in Promise, NEW p \in Promise, Await(q, p) PROVE IndInv'
    BY <2>3, AwaitKeeps
  <2>4. ASSUME NEW p \in Promise, NEW q \in Promise, NEW f \in BOOLEAN, Then(p, q, f, ~f)
        PROVE  IndInv'
    <3> PICK r \in BOOLEAN : r = ~f
      OBVIOUS
    <3>1. Then(p, q, f, r)
      BY <2>4
    <3> QED
      BY <3>1, ThenKeeps
  <2>5. ASSUME NEW q \in Promise, NEW kind \in Combinator, CombineNone(q, kind) PROVE IndInv'
    BY <2>5, CombineNoneKeeps
  <2>6. ASSUME NEW q \in Promise, NEW kind \in Combinator, NEW p1 \in Promise,
               NEW p2 \in Promise, NEW throws \in BOOLEAN, NEW e \in Plain,
               CombineTwo(q, kind, p1, p2, throws, e)
        PROVE  IndInv'
    BY <2>6, CombineTwoKeeps
  <2>9. ASSUME NEW r \in Promise, NEW p \in Promise, NEW reject \in BOOLEAN, NEW v \in Plain,
               ScriptElement(r, p, reject, v)
        PROVE  IndInv'
    BY <2>9, ScriptElementKeeps
  <2>7. ASSUME NEW p \in Promise, NEW g \in 0 .. MaxGen, NEW c \in Completion,
               ScriptSettle(p, g, c[1], c[2])
        PROVE  IndInv'
    BY <2>7, CompletionTypes, ScriptSettleKeeps
  <2>8. ASSUME NEW q \in Promise, NEW c \in Completion, AsyncEnd(q, c[1], c[2])
        PROVE  IndInv'
    BY <2>8, CompletionTypes, AsyncEndKeeps
  <2> QED
    BY <1>1, <2>1, <2>2, <2>3, <2>4, <2>5, <2>6, <2>7, <2>8, <2>9 DEF ScriptStep
<1>2. CASE JobStep
  <2>1. CASE ThenableJob
    BY <2>1, ThenableJobKeeps
  <2>2. ASSUME NEW throws \in BOOLEAN, NEW e \in Plain, ForeignThenJob(throws, e)
        PROVE  IndInv'
    BY <2>2, ForeignThenJobKeeps
  <2>3. CASE PassOn
    BY <2>3, PassOnKeeps
  <2>4. CASE StartHandler
    BY <2>4, StartHandlerKeeps
  <2>5. CASE ElementJob
    BY <2>5, ElementJobKeeps
  <2>7. CASE ResumeJob
    BY <2>7, ResumeJobKeeps
  <2> QED
    BY <1>2, <2>1, <2>2, <2>3, <2>4, <2>5, <2>7 DEF JobStep
<1>3. CASE HandlerEnds
  <2>1. PICK c \in Completion : EndHandler(c[1], c[2])
    BY <1>3 DEF HandlerEnds
  <2> QED
    BY <2>1, CompletionTypes, EndHandlerKeeps
<1>4. CASE UNCHANGED vars
  BY <1>4, StutterKeeps
<1> QED
  BY <1>1, <1>2, <1>3, <1>4 DEF Next

LEMMA Invariant == Spec => []IndInv
<1>1. Init => IndInv
  BY InitHolds
<1>2. IndInv /\ [Next]_vars => IndInv'
  BY NextKeeps
<1> QED
  BY <1>1, <1>2, PTL DEF Spec
---------------------------------------------------------------------------
(* What follows.                                                           *)
LEMMA OneResolverHolds ==
    ASSUME IndInv
    PROVE  OneResolver
<1> SUFFICES ASSUME NEW p \in Promise
             PROVE  Cardinality({g \in 0 .. MaxGen : <<p, g>> \in open})
                        + Cardinality(JobsFor(p))
                    = IF promise[p].state = "pending" THEN 1 ELSE 0
  BY DEF OneResolver
<1> DEFINE G == {g \in 0 .. MaxGen : <<p, g>> \in open}
           J == JobsFor(p)
           n == pairs[p] - 1
<1>1. /\ \A g \in 0 .. MaxGen : <<p, g>> \in open => g = n /\ promise[p].state = "pending"
      /\ \A c \in Calls(jobs) : c[1] = p => /\ promise[p].state = "pending"
                                            /\ \A g \in 0 .. MaxGen : <<p, g>> \notin open
      /\ promise[p].state = "pending" =>
            <<p, n>> \in open \/ \E c \in Calls(jobs) : c[1] = p
  BY DEF IndInv, Ways, Way
<1>2. open \subseteq Pair
  BY DEF IndInv, TypeOK
<1>3. \A i \in J : i \in CallIndex(jobs) /\ jobs[i].to = p /\ <<p, jobs[i].arg>> \in Calls(jobs)
  BY DEF JobsFor, CallIndex, Calls
<1>4. \A i, k \in J : i = k
  BY <1>3 DEF IndInv, Good
<1>5. (\E c \in Calls(jobs) : c[1] = p) => \E i \in J : TRUE
  BY DEF Calls, CallIndex, JobsFor
<1>6. J # {} => promise[p].state = "pending" /\ G = {}
  <2>1. ASSUME NEW i \in J PROVE promise[p].state = "pending" /\ G = {}
    <3>1. PICK c \in Calls(jobs) : c[1] = p
      BY <1>3
    <3> QED
      BY <3>1, <1>1
  <2> QED
    BY <2>1
<1>7. <<p, n>> \in open => n \in G
  BY <1>2 DEF Pair
<1>8. G # {} => G = {n} /\ promise[p].state = "pending"
  BY <1>1
<1>9. J # {} => \E i : J = {i}
  BY <1>4
<1> HIDE DEF G, J, n
<1>10. Cardinality({}) = 0 /\ Cardinality({n}) = 1 /\ \A i : Cardinality({i}) = 1
  BY FS_EmptySet, FS_Singleton
<1>11. CASE promise[p].state = "pending"
  <2>1. CASE J # {}
    <3>1. Cardinality(J) = 1 /\ Cardinality(G) = 0
      BY <2>1, <1>6, <1>9, <1>10
    <3> QED
      BY <3>1, <1>11 DEF G, J
  <2>2. CASE J = {}
    <3>1. G = {n}
      BY <2>2, <1>1, <1>5, <1>7, <1>8, <1>11
    <3>2. Cardinality(J) = 0 /\ Cardinality(G) = 1
      BY <2>2, <3>1, <1>10
    <3> QED
      BY <3>2, <1>11 DEF G, J
  <2> QED
    BY <2>1, <2>2
<1>12. CASE promise[p].state # "pending"
  <2>1. J = {} /\ G = {}
    BY <1>6, <1>8, <1>12
  <2>2. Cardinality(J) = 0 /\ Cardinality(G) = 0
    BY <2>1, <1>10
  <2> QED
    BY <2>2, <1>12 DEF G, J
<1> QED
  BY <1>11, <1>12

LEMMA ReactionsInOrderHolds ==
    ASSUME IndInv
    PROVE  ReactionsInOrder
<1> SUFFICES ASSUME NEW p \in Promise
             PROVE  LET mine == {i \in DOMAIN jobs : jobs[i].type = "reaction" /\ jobs[i].src = p}
                        kept == promise[p].reactions
                        last == promise[p].count - Len(kept)
                    IN  /\ {jobs[i].rx.id : i \in mine} = started[p] + 1 .. last
                        /\ \A i, k \in mine : i < k => jobs[i].rx.id < jobs[k].rx.id
                        /\ \A i \in DOMAIN kept : kept[i].id = last + i
                        /\ promise[p].state = "pending" => mine = {}
                        /\ promise[p].state # "pending" => kept = <<>>
                        /\ \A i \in mine : /\ jobs[i].reject = (promise[p].state = "rejected")
                                           /\ jobs[i].arg = promise[p].result
  BY DEF ReactionsInOrder
<1> DEFINE M == Mine(jobs, p)
           kept == promise[p].reactions
           last == promise[p].count - Len(kept)
<1>1. InOrder(promise, jobs, started, p) /\ started[p] \in Nat /\ jobs \in Seq(Job)
      /\ promise[p] \in PromiseData
  BY DEF IndInv, Good
<1>2. kept \in Seq(Reaction) /\ promise[p].count \in Nat
  BY <1>1, DataFields
<1>3. \A i \in M : jobs[i].rx.id \in Nat
  BY <1>1, JobFields, ReactionFields DEF Mine
<1>4. last = Last(promise, p) /\ last \in Int /\ DOMAIN kept = 1 .. Len(kept)
  BY <1>2 DEF Last
<1>5. /\ \A i \in M : started[p] < jobs[i].rx.id /\ jobs[i].rx.id <= last
      /\ \A m \in started[p] + 1 .. last : \E i \in M : jobs[i].rx.id = m
      /\ \A i, k \in M : i < k => jobs[i].rx.id < jobs[k].rx.id
      /\ \A i \in 1 .. Len(kept) : kept[i].id = last + i
      /\ promise[p].state \notin Settled => M = {}
      /\ promise[p].state # "pending" => kept = <<>>
      /\ \A i \in M : /\ jobs[i].reject = (promise[p].state = "rejected")
                      /\ jobs[i].arg = promise[p].result
  BY <1>1, <1>4 DEF InOrder
<1>6. M = {i \in DOMAIN jobs : jobs[i].type = "reaction" /\ jobs[i].src = p}
  BY DEF Mine
<1> HIDE DEF M, last, kept
<1>7. {jobs[i].rx.id : i \in M} = started[p] + 1 .. last
  <2>1. \A i \in M : jobs[i].rx.id \in started[p] + 1 .. last
    BY <1>1, <1>3, <1>4, <1>5
  <2> QED
    BY <2>1, <1>5
<1>8. promise[p].state = "pending" => M = {}
  BY <1>5 DEF Settled
<1> QED
  BY <1>4, <1>5, <1>6, <1>7, <1>8 DEF kept, last

LEMMA ResumedOnceHolds ==
    ASSUME IndInv
    PROVE  ResumedOnce
<1> SUFFICES ASSUME NEW q \in Promise
             PROVE  Cardinality({i \in DOMAIN jobs : /\ jobs[i].type = "reaction"
                                                     /\ jobs[i].rx.kind = "await"
                                                     /\ jobs[i].rx.to = q})
                    + Cardinality({x \in UNION {{p} \X DOMAIN promise[p].reactions :
                                                p \in Promise} :
                                      /\ promise[x[1]].reactions[x[2]].kind = "await"
                                      /\ promise[x[1]].reactions[x[2]].to = q})
                    = IF async[q] = "suspended" THEN 1 ELSE 0
  BY DEF ResumedOnce
<1> DEFINE W == Waits(promise, jobs)
           Q == {i \in DOMAIN jobs : /\ jobs[i].type = "reaction"
                                     /\ jobs[i].rx.kind = "await" /\ jobs[i].rx.to = q}
           K == {x \in UNION {{p} \X DOMAIN promise[p].reactions : p \in Promise} :
                    /\ promise[x[1]].reactions[x[2]].kind = "await"
                    /\ promise[x[1]].reactions[x[2]].to = q}
<1>1. jobs \in Seq(Job) /\ promise \in [Promise -> PromiseData]
      /\ \A p \in Promise : InOrder(promise, jobs, started, p)
  BY DEF IndInv, Good
<1>2. ASSUME NEW i \in Q
      PROVE  /\ jobs[i].src \in Promise /\ i \in Mine(jobs, jobs[i].src)
             /\ <<jobs[i].src, jobs[i].rx>> \in W /\ Awaits(<<jobs[i].src, jobs[i].rx>>, q)
             /\ i \in Nat /\ jobs[i].rx.id \in Nat
  <2>1. jobs[i].src \in Promise /\ i \in Mine(jobs, jobs[i].src) /\ i \in Nat
        /\ jobs[i].rx.id \in Nat
    BY <1>1, JobFields, ReactionFields DEF Mine
  <2>2. <<jobs[i].src, jobs[i].rx>> \in WaitsOf(promise, jobs, jobs[i].src)
    BY <2>1 DEF WaitsOf
  <2>3. <<jobs[i].src, jobs[i].rx>> \in W
    BY <2>1, <2>2 DEF Waits
  <2> QED
    BY <2>1, <2>3 DEF Awaits
<1>3. ASSUME NEW x \in K
      PROVE  /\ x[1] \in Promise /\ x[2] \in DOMAIN promise[x[1]].reactions /\ x = <<x[1], x[2]>>
             /\ <<x[1], promise[x[1]].reactions[x[2]]>> \in W
             /\ Awaits(<<x[1], promise[x[1]].reactions[x[2]]>>, q)
  <2>1. PICK p \in Promise : x \in {p} \X DOMAIN promise[p].reactions
    OBVIOUS
  <2>2. x[1] \in Promise /\ x[2] \in DOMAIN promise[x[1]].reactions /\ x = <<x[1], x[2]>>
    BY <2>1
  <2>3. <<x[1], promise[x[1]].reactions[x[2]]>> \in WaitsOf(promise, jobs, x[1])
    BY <2>2 DEF WaitsOf
  <2>4. <<x[1], promise[x[1]].reactions[x[2]]>> \in W
    BY <2>2, <2>3 DEF Waits
  <2> QED
    BY <2>2, <2>4 DEF Awaits
<1>4. /\ async[q] # "suspended" => \A w \in W : ~Awaits(w, q)
      /\ async[q] = "suspended" => \E w \in W : Awaits(w, q)
      /\ \A w, x \in W : Awaits(w, q) /\ Awaits(x, q) => w = x
  BY DEF IndInv, OneAwait
<1>5. ASSUME NEW i \in Q, NEW k \in Q PROVE i = k
  <2>1. <<jobs[i].src, jobs[i].rx>> = <<jobs[k].src, jobs[k].rx>>
    BY <1>2, <1>4
  <2>2. jobs[i].src = jobs[k].src /\ jobs[i].rx = jobs[k].rx
    BY <2>1
  <2> PICK p : p = jobs[i].src
    OBVIOUS
  <2>3. p \in Promise /\ i \in Mine(jobs, p) /\ k \in Mine(jobs, p)
    BY <1>2, <2>2
  <2>4. ~(i < k) /\ ~(k < i)
    <3>1. /\ i < k => jobs[i].rx.id < jobs[k].rx.id
          /\ k < i => jobs[k].rx.id < jobs[i].rx.id
      BY <1>1, <2>3 DEF InOrder
    <3>2. jobs[i].rx.id = jobs[k].rx.id /\ jobs[i].rx.id \in Nat
      BY <1>2, <2>2
    <3> QED
      BY <3>1, <3>2
  <2>5. i \in Nat /\ k \in Nat
    BY <1>2
  <2> QED
    BY <2>4, <2>5
<1>6. ASSUME NEW x \in K, NEW y \in K PROVE x = y
  <2>1. <<x[1], promise[x[1]].reactions[x[2]]>> = <<y[1], promise[y[1]].reactions[y[2]]>>
    BY <1>3, <1>4
  <2>2. x[1] = y[1] /\ promise[x[1]].reactions[x[2]] = promise[x[1]].reactions[y[2]]
    BY <2>1
  <2> PICK p : p = x[1]
    OBVIOUS
  <2> PICK i : i = x[2]
    OBVIOUS
  <2> PICK k : k = y[2]
    OBVIOUS
  <2>3. /\ p \in Promise /\ i \in DOMAIN promise[p].reactions /\ k \in DOMAIN promise[p].reactions
        /\ promise[p].reactions[i] = promise[p].reactions[k]
    BY <1>3, <2>2
  <2>4. promise[p].reactions \in Seq(Reaction) /\ promise[p].count \in Nat
    BY <1>1, <2>3, DataFields
  <2>5. i \in 1 .. Len(promise[p].reactions) /\ k \in 1 .. Len(promise[p].reactions)
        /\ Len(promise[p].reactions) \in Nat
    BY <2>3, <2>4
  <2>6. /\ promise[p].reactions[i].id = Last(promise, p) + i
        /\ promise[p].reactions[k].id = Last(promise, p) + k
        /\ Last(promise, p) \in Int
    <3>1. InOrder(promise, jobs, started, p)
      BY <1>1, <2>3
    <3>2. \A m \in 1 .. Len(promise[p].reactions) :
             promise[p].reactions[m].id = Last(promise, p) + m
      BY <3>1 DEF InOrder
    <3>3. Last(promise, p) \in Int
      BY <2>4, <2>5 DEF Last
    <3> QED
      BY <2>5, <3>2, <3>3
  <2>7. Last(promise, p) + i = Last(promise, p) + k
    BY <2>3, <2>6
  <2>8. i = k
    BY <2>5, <2>6, <2>7
  <2> QED
    BY <1>3, <2>2, <2>8
<1>7. ASSUME NEW i \in Q, NEW x \in K PROVE FALSE
  <2>1. <<jobs[i].src, jobs[i].rx>> = <<x[1], promise[x[1]].reactions[x[2]]>>
    BY <1>2, <1>3, <1>4
  <2>2. jobs[i].src = x[1]
    BY <2>1
  <2> PICK p : p = x[1]
    OBVIOUS
  <2>3. p \in Promise /\ x[2] \in DOMAIN promise[p].reactions /\ i \in Mine(jobs, p)
    BY <1>2, <1>3, <2>2
  <2>4. promise[p].reactions # <<>>
    BY <2>3
  <2>5. promise[p].state = "pending" /\ promise[p].state \in Settled
    BY <1>1, <2>3, <2>4 DEF InOrder
  <2> QED
    BY <2>5 DEF Settled
<1>8. ASSUME async[q] = "suspended" PROVE (\E i : i \in Q) \/ (\E x : x \in K)
  <2>1. PICK w \in W : Awaits(w, q)
    BY <1>4, <1>8
  <2>2. w[1] \in Promise /\ w \in WaitsOf(promise, jobs, w[1])
    BY <1>1, WaitsTypes
  <2> PICK p : p = w[1]
    OBVIOUS
  <2>3. CASE w \in {<<p, jobs[i].rx>> : i \in Mine(jobs, p)}
    <3>1. PICK i \in Mine(jobs, p) : w = <<p, jobs[i].rx>>
      BY <2>3
    <3>2. i \in Q
      BY <2>1, <3>1 DEF Mine, Awaits
    <3> QED
      BY <3>2
  <2>4. CASE w \in {<<p, promise[p].reactions[i]>> : i \in DOMAIN promise[p].reactions}
    <3>1. PICK i \in DOMAIN promise[p].reactions : w = <<p, promise[p].reactions[i]>>
      BY <2>4
    <3> PICK x : x = <<p, i>>
      OBVIOUS
    <3>2. x \in {p} \X DOMAIN promise[p].reactions /\ x[1] = p /\ x[2] = i
      BY <3>1
    <3>3. x \in UNION {{y} \X DOMAIN promise[y].reactions : y \in Promise}
      BY <2>2, <3>2
    <3>4. promise[x[1]].reactions[x[2]].kind = "await" /\ promise[x[1]].reactions[x[2]].to = q
      BY <2>1, <3>1, <3>2 DEF Awaits
    <3>5. x \in K
      BY <3>3, <3>4
    <3> QED
      BY <3>5
  <2> QED
    BY <2>2, <2>3, <2>4 DEF WaitsOf
<1>9. ASSUME async[q] # "suspended" PROVE Q = {} /\ K = {}
  BY <1>2, <1>3, <1>4, <1>9
<1> HIDE DEF Q, K
<1>10. Cardinality({}) = 0 /\ \A i : Cardinality({i}) = 1
  BY FS_EmptySet, FS_Singleton
<1>11. Cardinality(Q) + Cardinality(K) = IF async[q] = "suspended" THEN 1 ELSE 0
  <2>1. CASE async[q] # "suspended"
    <3>1. Cardinality(Q) = 0 /\ Cardinality(K) = 0
      BY <2>1, <1>9, <1>10
    <3> QED
      BY <2>1, <3>1
  <2>2. ASSUME async[q] = "suspended", NEW i, i \in Q
        PROVE  Cardinality(Q) + Cardinality(K) = 1
    <3>1. Q = {i} /\ K = {}
      BY <2>2, <1>5, <1>7
    <3>2. Cardinality(Q) = 1 /\ Cardinality(K) = 0
      BY <3>1, <1>10
    <3> QED
      BY <3>2
  <2>3. ASSUME async[q] = "suspended", NEW x, x \in K
        PROVE  Cardinality(Q) + Cardinality(K) = 1
    <3>1. K = {x} /\ Q = {}
      BY <2>3, <1>6, <1>7
    <3>2. Cardinality(Q) = 0 /\ Cardinality(K) = 1
      BY <3>1, <1>10
    <3> QED
      BY <3>2
  <2> QED
    BY <2>1, <2>2, <2>3, <1>8
<1> QED
  BY <1>11 DEF Q, K

LEMMA CombinatorCompleteHolds ==
    ASSUME IndInv
    PROVE  CombinatorComplete
<1> SUFFICES ASSUME NEW r \in Promise, allOf[r].kind \in Counted, NEW a, a = allOf[r]
             PROVE  /\ promise[r].result = Array /\ promise[r].state = GoodEnd(a) /\ ~Twice(a) =>
                          /\ ~a.failed
                          /\ \A p \in a.of : a.values[p] # NoValue
                          /\ \A p \in a.of \ Own :
                                /\ promise[p].state \in Settled
                                /\ a.kind # "allSettled" => promise[p].state = GoodEnd(a)
                                /\ a.values[p] = promise[p].result
                    /\ promise[r].state \in Settled \ {GoodEnd(a)} /\ a.of \cap Own = {} =>
                          \E p \in a.of : /\ promise[p].state = promise[r].state
                                          /\ promise[p].result = promise[r].result
  BY DEF CombinatorComplete, GoodEnd, Counted
<1>1. Elements(r)
  BY DEF IndInv, Complete
<1>2. Placed(a, promise) /\ EndOf(a, promise, r)
  BY <1>1 DEF Elements
<1>3. Missing(a) = {} => \A p \in a.of : a.values[p] # NoValue
  BY DEF Missing
<1> QED
  BY <1>2, <1>3 DEF Placed, EndOf

---------------------------------------------------------------------------
(* Every variable of the promises has its type, in every state that the    *)
(* handlers and the jobs of quickjs.c reach.                               *)
THEOREM TypeCorrect == Spec => []TypeOK
<1>1. IndInv => TypeOK
  BY DEF IndInv
<1> QED
  BY <1>1, Invariant, PTL

(* fulfill_or_reject_promise is never called for a promise that is settled *)
(* already: js_promise_resolve_function_call, the jobs that wait for a     *)
(* thenable and the pairs these make leave one way to settle a pending     *)
(* promise, and none to settle another one.                                *)
THEOREM SettledOnce == Spec => []OneResolver
<1>1. IndInv => OneResolver
  BY OneResolverHolds
<1> QED
  BY <1>1, Invariant, PTL

(* perform_promise_then and fulfill_or_reject_promise lose no reaction,    *)
(* trigger none twice and keep the order in which they were registered.    *)
THEOREM ReactionsStartInOrder == Spec => []ReactionsInOrder
<1>1. IndInv => ReactionsInOrder
  BY ReactionsInOrderHolds
<1> QED
  BY <1>1, Invariant, PTL

(* js_async_function_resume registers one reaction for an await, and       *)
(* js_async_function_resolve_call takes it away before it resumes the      *)
(* function: one that is suspended has exactly one, any other has none.    *)
THEOREM AwaitsResumeOnce == Spec => []ResumedOnce
<1>1. IndInv => ResumedOnce
  BY ResumedOnceHolds
<1> QED
  BY <1>1, Invariant, PTL

(* js_promise_all_resolve_element settles the promise of Promise.all,      *)
(* allSettled and any with its array when the last value is in its place,  *)
(* however often a script calls the functions that a then method of its    *)
(* own was given (alreadyCalled); for allSettled as long as it does not    *)
(* call both of one element.  Without such a method in the list a promise  *)
(* that ends the other way has the result of an element.                   *)
THEOREM CombinatorsComplete == Spec => []CombinatorComplete
<1>1. IndInv => CombinatorComplete
  BY CombinatorCompleteHolds
<1> QED
  BY <1>1, Invariant, PTL
=============================================================================
