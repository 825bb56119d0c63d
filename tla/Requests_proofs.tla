--------------------------- MODULE Requests_proofs ---------------------------
(***************************************************************************)
(* What the modules over Requests need to know of a handler's plan: which  *)
(* statements it still has to issue, and which may follow which.           *)
(***************************************************************************)
EXTENDS Requests, TLAPS

\* The statements of a plan.
Statements(todo) == {todo[i] : i \in DOMAIN todo}

\* The statements r has still to issue.
Left(r) == Statements(req[r].todo)

\* A plan in which a statement is only followed by those that may come later.
InOrder(todo, later) ==
    \A i, j \in 1 .. Len(todo) : i < j => todo[j] \in later[todo[i]]

\* The requests in flight have plans over the statements S in that order, and
\* values in A.
PlansOK(S, later, A) ==
    /\ req \in [Slot -> {Idle} \cup [todo : Seq(S), arg : A]]
    /\ \A r \in Slot : ~Resting(r) => InOrder(req[r].todo, later)
    /\ \A r \in Slot : ~Resting(r) => req[r] \in [todo : Seq(S), arg : A]

---------------------------------------------------------------------------
LEMMA RestingLeft ==
    ASSUME NEW S, NEW later, NEW A, PlansOK(S, later, A), NEW r \in Slot
    PROVE  Resting(r) <=> Left(r) = {}
<1>1. CASE Resting(r)
  BY <1>1 DEF Resting, Left, Statements
<1>2. CASE ~Resting(r)
  <2>1. req[r].todo \in Seq(S) /\ req[r].todo # <<>>
    BY <1>2 DEF PlansOK, Resting
  <2>2. 1 \in DOMAIN req[r].todo
    BY <2>1
  <2> QED
    BY <1>2, <2>2 DEF Left, Statements
<1> QED
  BY <1>1, <1>2

\* What a plan that is not at its end begins with and leaves.
LEMMA PlanAdvances ==
    ASSUME NEW S, NEW later \in [S -> SUBSET S], \A s \in S : s \notin later[s],
           NEW todo \in Seq(S), todo # <<>>, InOrder(todo, later)
    PROVE  /\ Head(todo) \in S
           /\ Head(todo) \in Statements(todo)
           /\ Statements(todo) \subseteq {Head(todo)} \cup later[Head(todo)]
           /\ Tail(todo) \in Seq(S)
           /\ InOrder(Tail(todo), later)
           /\ Statements(Tail(todo)) = Statements(todo) \ {Head(todo)}
<1>1. /\ Len(todo) \in Nat /\ Len(todo) >= 1
      /\ DOMAIN todo = 1 .. Len(todo)
      /\ \A i \in 1 .. Len(todo) : todo[i] \in S
      /\ Head(todo) = todo[1]
  OBVIOUS
<1>2. /\ Tail(todo) \in Seq(S)
      /\ Len(Tail(todo)) = Len(todo) - 1
      /\ DOMAIN Tail(todo) = 1 .. Len(todo) - 1
      /\ \A i \in 1 .. Len(todo) - 1 : Tail(todo)[i] = todo[i + 1]
  OBVIOUS
<1>3. Head(todo) \in Statements(todo)
  BY <1>1 DEF Statements
<1>4. ASSUME NEW i \in 1 .. Len(todo), i # 1 PROVE todo[i] \in later[Head(todo)]
  BY <1>1, <1>4 DEF InOrder
<1>5. Statements(todo) \subseteq {Head(todo)} \cup later[Head(todo)]
  BY <1>1, <1>4 DEF Statements
<1>6. InOrder(Tail(todo), later)
  <2> SUFFICES ASSUME NEW i \in 1 .. Len(todo) - 1, NEW j \in 1 .. Len(todo) - 1, i < j
               PROVE  todo[j + 1] \in later[todo[i + 1]]
    BY <1>2 DEF InOrder
  <2> QED
    BY <1>1 DEF InOrder
<1>7. Statements(Tail(todo)) = Statements(todo) \ {Head(todo)}
  <2>1. ASSUME NEW s \in Statements(Tail(todo)) PROVE s \in Statements(todo) \ {Head(todo)}
    <3>1. PICK i \in 1 .. Len(todo) - 1 : s = todo[i + 1]
      BY <1>2 DEF Statements
    <3>2. i + 1 \in 1 .. Len(todo) /\ i + 1 # 1
      BY <1>1
    <3>3. s \in later[Head(todo)] /\ s \in Statements(todo)
      BY <1>1, <1>4, <3>1, <3>2 DEF Statements
    <3> QED
      BY <1>1, <3>3
  <2>2. ASSUME NEW s \in Statements(todo) \ {Head(todo)} PROVE s \in Statements(Tail(todo))
    <3>1. PICK i \in 1 .. Len(todo) : s = todo[i] /\ i # 1
      BY <1>1 DEF Statements
    <3>2. i - 1 \in 1 .. Len(todo) - 1 /\ Tail(todo)[i - 1] = s
      BY <1>1, <1>2, <3>1
    <3> QED
      BY <1>2, <3>2 DEF Statements
  <2> QED
    BY <2>1, <2>2
<1> QED
  BY <1>1, <1>2, <1>3, <1>5, <1>6, <1>7

\* A request at a statement.
LEMMA AtHead ==
    ASSUME NEW S, NEW later \in [S -> SUBSET S], \A s \in S : s \notin later[s],
           NEW A, PlansOK(S, later, A), NEW r \in Slot, NEW s, At(r, s)
    PROVE  /\ ~Resting(r)
           /\ req[r] \in [todo : Seq(S), arg : A]
           /\ s \in S /\ s \in Left(r)
           /\ Left(r) \subseteq {s} \cup later[s]
<1>1. /\ ~Resting(r) /\ Head(req[r].todo) = s
      /\ req[r] \in [todo : Seq(S), arg : A]
      /\ req[r].todo \in Seq(S) /\ req[r].todo # <<>> /\ InOrder(req[r].todo, later)
  BY DEF At, PlansOK, Resting
<1> QED
  BY <1>1, PlanAdvances DEF Left

\* It goes on with other values.
LEMMA Advances ==
    ASSUME NEW S, NEW later \in [S -> SUBSET S], \A s \in S : s \notin later[s],
           NEW A, PlansOK(S, later, A), NEW r \in Slot, NEW s, At(r, s),
           NEW arg \in A, AdvanceWith(r, arg)
    PROVE  /\ PlansOK(S, later, A)'
           /\ Left(r)' = Left(r) \ {s}
           /\ Left(r)' # {} => req'[r].arg = arg
           /\ \A q \in Slot \ {r} : req'[q] = req[q] /\ Left(q)' = Left(q)
           /\ UNCHANGED <<smooth, begun>>
<1>1. /\ Head(req[r].todo) = s
      /\ req[r].todo \in Seq(S) /\ req[r].todo # <<>> /\ InOrder(req[r].todo, later)
  BY DEF At, PlansOK, Resting
<1> DEFINE todo == Tail(req[r].todo)
           new == IF todo = <<>> THEN Idle ELSE [todo |-> todo, arg |-> arg]
<1>2. todo \in Seq(S) /\ InOrder(todo, later) /\ Statements(todo) = Left(r) \ {s}
  BY <1>1, PlanAdvances DEF Left
<1>3. req' = [req EXCEPT ![r] = new] /\ UNCHANGED <<smooth, begun>>
  BY DEF AdvanceWith, Proceed
<1>4. /\ new.todo = todo
      /\ todo # <<>> => new.arg = arg /\ new \in [todo : Seq(S), arg : A]
      /\ new \in {Idle} \cup [todo : Seq(S), arg : A]
  BY <1>2 DEF Idle
<1> HIDE DEF new, todo
<1>5. /\ req'[r] = new
      /\ \A q \in Slot \ {r} : req'[q] = req[q]
      /\ req' \in [Slot -> {Idle} \cup [todo : Seq(S), arg : A]]
  BY <1>3, <1>4 DEF PlansOK
<1>6. Left(r)' = Left(r) \ {s}
  BY <1>2, <1>4, <1>5 DEF Left
<1>7. \A q \in Slot \ {r} : Left(q)' = Left(q)
  BY <1>5 DEF Left
<1>8. Left(r)' # {} => todo # <<>>
  BY <1>4, <1>5 DEF Left, Statements
<1>9. PlansOK(S, later, A)'
  <2> SUFFICES ASSUME NEW q \in Slot, ~Resting(q)'
               PROVE  InOrder(req'[q].todo, later) /\ req'[q] \in [todo : Seq(S), arg : A]
    BY <1>5 DEF PlansOK
  <2>1. CASE q = r
    BY <1>2, <1>4, <1>5, <2>1 DEF Resting
  <2>2. CASE q # r
    BY <1>5, <2>2 DEF PlansOK, Resting
  <2> QED
    BY <2>1, <2>2
<1> QED
  BY <1>3, <1>4, <1>5, <1>6, <1>7, <1>8, <1>9

\* It ends.
LEMMA Ends ==
    ASSUME NEW S, NEW later, NEW A, PlansOK(S, later, A), NEW r \in Slot,
           req' = [req EXCEPT ![r] = Idle]
    PROVE  /\ PlansOK(S, later, A)'
           /\ Left(r)' = {}
           /\ \A q \in Slot \ {r} : req'[q] = req[q] /\ Left(q)' = Left(q)
<1>1. req'[r] = Idle /\ \A q \in Slot \ {r} : req'[q] = req[q]
  BY DEF PlansOK
<1>2. req' \in [Slot -> {Idle} \cup [todo : Seq(S), arg : A]]
  BY DEF PlansOK
<1>3. Left(r)' = {}
  BY <1>1 DEF Left, Statements, Idle
<1>4. \A q \in Slot : ~Resting(q)' => InOrder(req'[q].todo, later) /\ req'[q] \in [todo : Seq(S), arg : A]
  BY <1>1 DEF PlansOK, Resting, Idle
<1> QED
  BY <1>1, <1>2, <1>3, <1>4 DEF PlansOK, Left

\* A request begins.
LEMMA Begins ==
    ASSUME NEW S, NEW later, NEW A, PlansOK(S, later, A), NEW r \in Slot,
           NEW todo \in Seq(S), todo # <<>>, InOrder(todo, later), NEW arg \in A,
           Begin(r, todo, arg)
    PROVE  /\ PlansOK(S, later, A)'
           /\ Left(r) = {}
           /\ Left(r)' = Statements(todo)
           /\ req'[r].arg = arg
           /\ \A q \in Slot \ {r} : req'[q] = req[q] /\ Left(q)' = Left(q)
           /\ smooth' = (smooth /\ AllRest)
<1> DEFINE new == [todo |-> todo, arg |-> arg]
<1>1. /\ new \in [todo : Seq(S), arg : A] /\ new.todo = todo /\ new.arg = arg
      /\ Resting(r) /\ smooth' = (smooth /\ AllRest)
      /\ req' = [req EXCEPT ![r] = new]
  BY DEF Begin, Count
<1> HIDE DEF new
<1>2. /\ req'[r] = new
      /\ \A q \in Slot \ {r} : req'[q] = req[q]
      /\ req' \in [Slot -> {Idle} \cup [todo : Seq(S), arg : A]]
  BY <1>1 DEF PlansOK
<1>3. Left(r)' = Statements(todo)
  BY <1>1, <1>2 DEF Left
<1>4. Left(r) = {}
  BY <1>1, RestingLeft
<1>5. \A q \in Slot : ~Resting(q)' => InOrder(req'[q].todo, later) /\ req'[q] \in [todo : Seq(S), arg : A]
  BY <1>1, <1>2 DEF PlansOK, Resting
<1> QED
  BY <1>1, <1>2, <1>3, <1>4, <1>5 DEF PlansOK, Left

---------------------------------------------------------------------------
(* Plans that are written out, and plans that are put together.            *)

LEMMA NoStatement ==
    ASSUME NEW S, NEW later
    PROVE  <<>> \in Seq(S) /\ InOrder(<<>>, later) /\ Statements(<<>>) = {}
  BY DEF InOrder, Statements

LEMMA OneStatement ==
    ASSUME NEW S, NEW later, NEW a \in S
    PROVE  /\ <<a>> \in Seq(S) /\ <<a>> # <<>>
           /\ InOrder(<<a>>, later) /\ Statements(<<a>>) = {a}
  BY DEF InOrder, Statements

LEMMA TwoStatements ==
    ASSUME NEW S, NEW later, NEW a \in S, NEW b \in S, b \in later[a]
    PROVE  /\ <<a, b>> \in Seq(S) /\ <<a, b>> # <<>>
           /\ InOrder(<<a, b>>, later) /\ Statements(<<a, b>>) = {a, b}
<1>1. DOMAIN <<a, b>> = {1, 2} /\ Len(<<a, b>>) = 2
  OBVIOUS
<1> QED
  BY <1>1 DEF InOrder, Statements

LEMMA ThreeStatements ==
    ASSUME NEW S, NEW later, NEW a \in S, NEW b \in S, NEW c \in S,
           b \in later[a], c \in later[a], c \in later[b]
    PROVE  /\ <<a, b, c>> \in Seq(S) /\ <<a, b, c>> # <<>>
           /\ InOrder(<<a, b, c>>, later) /\ Statements(<<a, b, c>>) = {a, b, c}
<1>1. DOMAIN <<a, b, c>> = {1, 2, 3} /\ Len(<<a, b, c>>) = 3
  OBVIOUS
<1> QED
  BY <1>1 DEF InOrder, Statements

LEMMA PlansJoin ==
    ASSUME NEW S, NEW later, NEW s \in Seq(S), NEW t \in Seq(S),
           InOrder(s, later), InOrder(t, later),
           \A x \in Statements(s), y \in Statements(t) : y \in later[x]
    PROVE  /\ s \o t \in Seq(S)
           /\ s # <<>> => s \o t # <<>>
           /\ InOrder(s \o t, later)
           /\ Statements(s \o t) = Statements(s) \cup Statements(t)
<1> DEFINE st == s \o t
<1>1. /\ st \in Seq(S) /\ Len(st) = Len(s) + Len(t)
      /\ Len(s) \in Nat /\ Len(t) \in Nat
      /\ \A i \in 1 .. Len(s) : st[i] = s[i]
      /\ \A i \in Len(s) + 1 .. Len(s) + Len(t) : st[i] = t[i - Len(s)]
  OBVIOUS
<1>2. DOMAIN s = 1 .. Len(s) /\ DOMAIN t = 1 .. Len(t) /\ DOMAIN st = 1 .. Len(st)
  BY <1>1
<1>3. \A i \in 1 .. Len(s) : s[i] \in Statements(s)
  BY <1>2 DEF Statements
<1>4. \A i \in 1 .. Len(t) : t[i] \in Statements(t)
  BY <1>2 DEF Statements
<1>5. s # <<>> => st # <<>>
  OBVIOUS
<1> HIDE DEF st
<1>6. InOrder(st, later)
  <2> SUFFICES ASSUME NEW i \in 1 .. Len(st), NEW j \in 1 .. Len(st), i < j
               PROVE  st[j] \in later[st[i]]
    BY DEF InOrder
  <2>1. CASE j <= Len(s)
    <3>1. i \in 1 .. Len(s) /\ j \in 1 .. Len(s)
      BY <1>1, <2>1
    <3>2. s[j] \in later[s[i]]
      BY <3>1 DEF InOrder
    <3> QED
      BY <1>1, <3>1, <3>2
  <2>2. CASE i > Len(s)
    <3>1. /\ i - Len(s) \in 1 .. Len(t) /\ j - Len(s) \in 1 .. Len(t) /\ i - Len(s) < j - Len(s)
          /\ i \in Len(s) + 1 .. Len(s) + Len(t) /\ j \in Len(s) + 1 .. Len(s) + Len(t)
      BY <1>1, <2>2
    <3>2. t[j - Len(s)] \in later[t[i - Len(s)]]
      BY <3>1 DEF InOrder
    <3> QED
      BY <1>1, <3>1, <3>2
  <2>3. CASE i <= Len(s) /\ j > Len(s)
    <3>1. i \in 1 .. Len(s) /\ j - Len(s) \in 1 .. Len(t)
      BY <1>1, <2>3
    <3>2. st[i] = s[i] /\ st[j] = t[j - Len(s)]
      <4>1. j \in Len(s) + 1 .. Len(s) + Len(t)
        BY <1>1, <2>3
      <4> QED
        BY <1>1, <3>1, <4>1
    <3>3. s[i] \in Statements(s) /\ t[j - Len(s)] \in Statements(t)
      BY <1>3, <1>4, <3>1
    <3>4. t[j - Len(s)] \in later[s[i]]
      BY <3>3, Zenon
    <3> QED
      BY <3>2, <3>4, Zenon
  <2> QED
    BY <1>1, <2>1, <2>2, <2>3
<1>7. Statements(st) \subseteq Statements(s) \cup Statements(t)
  <2> SUFFICES ASSUME NEW i \in 1 .. Len(st) PROVE st[i] \in Statements(s) \cup Statements(t)
    BY <1>2 DEF Statements
  <2>1. CASE i <= Len(s)
    BY <1>1, <1>3, <2>1
  <2>2. CASE i > Len(s)
    <3>1. i - Len(s) \in 1 .. Len(t)
      BY <1>1, <2>2
    <3> QED
      BY <1>1, <1>4, <2>2, <3>1
  <2> QED
    BY <1>1, <2>1, <2>2
<1>8. Statements(s) \subseteq Statements(st)
  BY <1>1, <1>2 DEF Statements
<1>9. Statements(t) \subseteq Statements(st)
  <2> SUFFICES ASSUME NEW i \in 1 .. Len(t) PROVE t[i] \in Statements(st)
    BY <1>2 DEF Statements
  <2>1. /\ i + Len(s) \in 1 .. Len(st)
        /\ i + Len(s) \in Len(s) + 1 .. Len(s) + Len(t)
        /\ (i + Len(s)) - Len(s) = i
    BY <1>1
  <2>2. st[i + Len(s)] = t[i]
    BY <1>1, <2>1
  <2> QED
    BY <1>2, <2>1, <2>2 DEF Statements
<1> QED
  BY <1>1, <1>5, <1>6, <1>7, <1>8, <1>9 DEF st

=============================================================================
