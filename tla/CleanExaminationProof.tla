----------------------- MODULE CleanExaminationProof -----------------------
(***************************************************************************)
(* No flaw escapes the conformance suites: a service that a suite comes to *)
(* the end of without a violation has only flaws the suite has no call     *)
(* for, however many, whatever order its gates are in and whatever order   *)
(* Go visits the suite's maps in.                                          *)
(*                                                                         *)
(* No right answer lets a suite skip a call or return, so a suite that     *)
(* comes to its end without a violation was a clean run: every call of it  *)
(* was answered rightly, in the memories that the calls before it made.  A *)
(* clean run of a sequence splits into clean runs of its parts, those of a *)
(* map's blocks in any order, and every part tells what the service cannot *)
(* lack, forget, overlook or be used to: a refusal has a first gate to     *)
(* stop the call, and a replay needs a ledger that kept the command.       *)
(***************************************************************************)
EXTENDS ConformanceProof

\* What a clean examination tells of a service.

\* Calls of which no right answer ends the suite or skips another call.
Fair == {c \in CallType : c.want \cap (c.skips \cup c.ends) = {}}

\* Asked c in memory m, the service gives a right answer and remembers n.
Takes(s, c, m, n) == Reply(s, m, c) \in c.want /\ n = Remembered(s, m, c, Reply(s, m, c))

\* The same of both memories a suite deals with.
Answers(s, c, p, q) ==
  /\ c.on = "main"  => Takes(s, c, p[1], q[1]) /\ q[2] = p[2]
  /\ c.on = "fresh" => Takes(s, c, Empty, q[2]) /\ q[1] = p[1]
  /\ c.on = "same"  => Takes(s, c, p[2], q[2]) /\ q[1] = p[1]

\* All the calls are answered rightly, from memories p to memories q.
Runs(s, p, calls, q) ==
  \E M \in [1 .. Len(calls) + 1 -> State] :
    /\ M[1] = p /\ M[Len(calls) + 1] = q
    /\ \A i \in 1 .. Len(calls) : Answers(s, calls[i], M[i], M[i + 1])

\* A clean run of two sequences is one of each.
LEMMA RunsBoth ==
  ASSUME NEW s, NEW p, NEW q, NEW a \in Seq(Fair), NEW b \in Seq(Fair), Runs(s, p, a \o b, q)
  PROVE  \E r \in State : Runs(s, p, a, r) /\ Runs(s, r, b, q)
<1> DEFINE n == Len(a)
           k == Len(b)
<1>1. /\ n \in Nat /\ k \in Nat /\ Len(a \o b) = n + k
      /\ \A i \in 1 .. n + k : (a \o b)[i] = IF i <= n THEN a[i] ELSE b[i - n]
  OBVIOUS
<1>2. PICK M \in [1 .. n + k + 1 -> State] :
        /\ M[1] = p /\ M[n + k + 1] = q
        /\ \A i \in 1 .. n + k : Answers(s, (a \o b)[i], M[i], M[i + 1])
  BY <1>1 DEF Runs
<1> DEFINE K == [i \in 1 .. n + 1 |-> M[i]]
           L == [i \in 1 .. k + 1 |-> M[n + i]]
<1>3. K \in [1 .. n + 1 -> State] /\ K[1] = p /\ K[n + 1] = M[n + 1]
  BY <1>1, <1>2
<1>4. L \in [1 .. k + 1 -> State] /\ L[1] = M[n + 1] /\ L[k + 1] = q
  BY <1>1, <1>2
<1>5. ASSUME NEW i \in 1 .. n PROVE Answers(s, a[i], K[i], K[i + 1])
  <2>1. i \in 1 .. n + k /\ (a \o b)[i] = a[i] /\ K[i] = M[i] /\ K[i + 1] = M[i + 1]
    BY <1>1
  <2> QED
    BY <1>2, <2>1
<1>6. ASSUME NEW i \in 1 .. k PROVE Answers(s, b[i], L[i], L[i + 1])
  <2>1. /\ n + i \in 1 .. n + k /\ (n + i) - n = i /\ n + (i + 1) = (n + i) + 1 /\ i + 1 \in 1 .. k + 1
        /\ i \in 1 .. k + 1 /\ ~(n + i <= n)
    BY <1>1
  <2>2. (a \o b)[n + i] = b[i]
    BY <1>1, <2>1
  <2>3. L[i] = M[n + i] /\ L[i + 1] = M[(n + i) + 1]
    BY <2>1
  <2> QED
    BY <1>2, <2>1, <2>2, <2>3
<1>7. M[n + 1] \in State
  BY <1>1, <1>2
<1> HIDE DEF K, L
<1>8. Runs(s, p, a, M[n + 1]) /\ Runs(s, M[n + 1], b, q)
  BY <1>3, <1>4, <1>5, <1>6 DEF Runs
<1> QED
  BY <1>7, <1>8

\* A clean run of one call ...
LEMMA RunsOne ==
  ASSUME NEW s, NEW p, NEW q, NEW a, Runs(s, p, <<a>>, q) PROVE Answers(s, a, p, q)
<1>1. Len(<<a>>) = 1 /\ <<a>>[1] = a
  OBVIOUS
<1> QED
  BY <1>1 DEF Runs

\* ... of two,
LEMMA RunsTwo ==
  ASSUME NEW s, NEW p, NEW q, NEW a, NEW b, Runs(s, p, <<a, b>>, q)
  PROVE  \E r \in State : Answers(s, a, p, r) /\ Answers(s, b, r, q)
<1> DEFINE calls == <<a, b>>
<1>1. Len(calls) = 2 /\ calls[1] = a /\ calls[2] = b
  OBVIOUS
<1> HIDE DEF calls
<1>2. Runs(s, p, calls, q)
  BY DEF calls
<1>3. PICK M \in [1 .. 3 -> State] :
        M[1] = p /\ M[3] = q /\ \A i \in 1 .. 2 : Answers(s, calls[i], M[i], M[i + 1])
  BY <1>1, <1>2 DEF Runs
<1>4. Answers(s, a, M[1], M[2]) /\ Answers(s, b, M[2], M[3]) /\ M[2] \in State
  BY <1>1, <1>3
<1> QED
  BY <1>3, <1>4

\* ... of three,
LEMMA RunsThree ==
  ASSUME NEW s, NEW p, NEW q, NEW a, NEW b, NEW c, Runs(s, p, <<a, b, c>>, q)
  PROVE  \E r, t \in State : Answers(s, a, p, r) /\ Answers(s, b, r, t) /\ Answers(s, c, t, q)
<1> DEFINE calls == <<a, b, c>>
<1>1. Len(calls) = 3 /\ calls[1] = a /\ calls[2] = b /\ calls[3] = c
  OBVIOUS
<1> HIDE DEF calls
<1>2. Runs(s, p, calls, q)
  BY DEF calls
<1>3. PICK M \in [1 .. 4 -> State] :
        M[1] = p /\ M[4] = q /\ \A i \in 1 .. 3 : Answers(s, calls[i], M[i], M[i + 1])
  BY <1>1, <1>2 DEF Runs
<1>4. /\ Answers(s, a, M[1], M[2]) /\ Answers(s, b, M[2], M[3]) /\ Answers(s, c, M[3], M[4])
      /\ M[2] \in State /\ M[3] \in State
  BY <1>1, <1>3
<1> QED
  BY <1>3, <1>4

\* ... of four,
LEMMA RunsFour ==
  ASSUME NEW s, NEW p, NEW q, NEW a, NEW b, NEW c, NEW d, Runs(s, p, <<a, b, c, d>>, q)
  PROVE  \E r, t, u \in State : /\ Answers(s, a, p, r) /\ Answers(s, b, r, t)
                                /\ Answers(s, c, t, u) /\ Answers(s, d, u, q)
<1> DEFINE calls == <<a, b, c, d>>
<1>1. Len(calls) = 4 /\ calls[1] = a /\ calls[2] = b /\ calls[3] = c /\ calls[4] = d
  OBVIOUS
<1> HIDE DEF calls
<1>2. Runs(s, p, calls, q)
  BY DEF calls
<1>3. PICK M \in [1 .. 5 -> State] :
        M[1] = p /\ M[5] = q /\ \A i \in 1 .. 4 : Answers(s, calls[i], M[i], M[i + 1])
  BY <1>1, <1>2 DEF Runs
<1>4. /\ Answers(s, a, M[1], M[2]) /\ Answers(s, b, M[2], M[3]) /\ Answers(s, c, M[3], M[4])
      /\ Answers(s, d, M[4], M[5]) /\ M[2] \in State /\ M[3] \in State /\ M[4] \in State
  BY <1>1, <1>3
<1> QED
  BY <1>3, <1>4

\* ... and of five calls.
LEMMA RunsFive ==
  ASSUME NEW s, NEW p, NEW q, NEW a, NEW b, NEW c, NEW d, NEW e, Runs(s, p, <<a, b, c, d, e>>, q)
  PROVE  \E r, t, u, v \in State : /\ Answers(s, a, p, r) /\ Answers(s, b, r, t) /\ Answers(s, c, t, u)
                                   /\ Answers(s, d, u, v) /\ Answers(s, e, v, q)
<1> DEFINE calls == <<a, b, c, d, e>>
<1>1. Len(calls) = 5 /\ calls[1] = a /\ calls[2] = b /\ calls[3] = c /\ calls[4] = d /\ calls[5] = e
  OBVIOUS
<1> HIDE DEF calls
<1>2. Runs(s, p, calls, q)
  BY DEF calls
<1>3. PICK M \in [1 .. 6 -> State] :
        M[1] = p /\ M[6] = q /\ \A i \in 1 .. 5 : Answers(s, calls[i], M[i], M[i + 1])
  BY <1>1, <1>2 DEF Runs
<1>4. /\ Answers(s, a, M[1], M[2]) /\ Answers(s, b, M[2], M[3]) /\ Answers(s, c, M[3], M[4])
      /\ Answers(s, d, M[4], M[5]) /\ Answers(s, e, M[5], M[6])
      /\ M[2] \in State /\ M[3] \in State /\ M[4] \in State /\ M[5] \in State
  BY <1>1, <1>3
<1> QED
  BY <1>3, <1>4

\* Whatever has the calls of one key, surrounded by others, has those of all keys.
LEMMA EachReaches ==
  ASSUME NEW order, NEW block, IsFiniteSet(DOMAIN block), NEW Q, <<>> \in Q,
         \A a, b \in Q : a \o b \in Q, \A k \in DOMAIN block : block[k] \in Q,
         NEW R, \A a \in Q, b \in R : a \o b \in R /\ b \o a \in R,
         NEW key \in DOMAIN block, block[key] \in R
  PROVE  Each(order, block) \in R
<1> DEFINE K == DOMAIN block
           Fits(f) == f = [s \in SUBSET K |-> Joined(order, block, f, s)]
           iter == CHOOSE f : Fits(f)
<1>1. Fits(iter)
  BY JoinDefined
<1>2. Each(order, block) = iter[K]
  BY DEF Each, FoldSet, MapThenFoldSet, Joined, Visited
<1> HIDE DEF iter
<1>0. \A s \in SUBSET K : Cardinality(s) \in Nat
  BY FS_Subset, FS_CardinalityType
<1> DEFINE N == {n \in Nat : \A s \in SUBSET K : Cardinality(s) <= n =>
                               iter[s] \in Q /\ (key \in s => iter[s] \in R)}
<1>3. 0 \in N
  <2>1. \A s \in SUBSET K : Cardinality(s) <= 0 => s = {}
    BY <1>0, FS_Subset, FS_EmptySet
  <2>2. iter[{}] = <<>>
    BY <1>1 DEF Joined
  <2> QED
    BY <2>1, <2>2
<1>4. ASSUME NEW n \in Nat, n \in N PROVE n + 1 \in N
  <2> SUFFICES ASSUME NEW s \in SUBSET K, Cardinality(s) <= n + 1
               PROVE  iter[s] \in Q /\ (key \in s => iter[s] \in R)
    OBVIOUS
  <2>1. CASE s = {}
    BY <1>1, <2>1 DEF Joined
  <2>2. CASE s # {}
    <3> DEFINE x == Visited(order, block, s)
               rest == s \ {x}
    <3>1. x \in K /\ rest \in SUBSET K /\ Cardinality(s) \in Nat /\ Cardinality(rest) = Cardinality(s) - 1
      BY <2>2, OneLess
    <3> HIDE DEF x
    <3>2. iter[rest] \in Q /\ (key \in rest => iter[rest] \in R) /\ block[x] \in Q
      BY <1>4, <3>1
    <3>3. iter[s] = Joined(order, block, iter, s)
      BY <1>1
    <3>4. iter[s] = block[x] \o iter[rest]
      BY <2>2, <3>3 DEF Joined, x
    <3>5. key \in s => key \in rest \/ x = key
      OBVIOUS
    <3> HIDE DEF rest
    <3>6. block[x] \o iter[rest] \in Q
      BY <3>2
    <3>7. key \in rest => block[x] \o iter[rest] \in R
      BY <3>2
    <3>8. x = key => block[x] \o iter[rest] \in R
      BY <3>2
    <3> QED
      BY <3>4, <3>5, <3>6, <3>7, <3>8
  <2> QED
    BY <2>1, <2>2
<1>5. Cardinality(K) \in N
  <2>1. Cardinality(K) \in Nat
    BY FS_CardinalityType
  <2> HIDE DEF N
  <2> QED
    BY <1>3, <1>4, <2>1, Induction
<1> QED
  BY <1>2, <1>5

\* No calls leave the memories as they are.
LEMMA RunsNone == ASSUME NEW s, NEW p, NEW q, Runs(s, p, <<>>, q) PROVE q = p
<1>1. Len(<<>>) = 0
  OBVIOUS
<1> QED
  BY <1>1 DEF Runs

\* A clean run of all blocks of a map, none of which leaves X, is one of each block, from X.
LEMMA EachRuns ==
  ASSUME NEW s, NEW X \in SUBSET State, NEW order, NEW block, IsFiniteSet(DOMAIN block),
         \A k \in DOMAIN block : block[k] \in Seq(Fair),
         \A k \in DOMAIN block : \A x \in X, y \in State : Runs(s, x, block[k], y) => y \in X,
         NEW p \in X, NEW q \in State, Runs(s, p, Each(order, block), q)
  PROVE  q \in X /\ \A k \in DOMAIN block : \E x \in X, y \in X : Runs(s, x, block[k], y)
<1> DEFINE Q == {calls \in Seq(Fair) : \A x \in X, y \in State : Runs(s, x, calls, y) => y \in X}
<1>1. <<>> \in Q
  BY RunsNone
<1>2. \A a, b \in Q : a \o b \in Q
  <2> SUFFICES ASSUME NEW a \in Q, NEW b \in Q, NEW x \in X, NEW y \in State, Runs(s, x, a \o b, y)
               PROVE  y \in X
    OBVIOUS
  <2>1. PICK r \in State : Runs(s, x, a, r) /\ Runs(s, r, b, y)
    BY RunsBoth
  <2> QED
    BY <2>1
<1>3. \A k \in DOMAIN block : block[k] \in Q
  OBVIOUS
<1>4. q \in X
  <2> HIDE DEF Q
  <2>1. Each(order, block) \in Q
    BY <1>1, <1>2, <1>3, EachKeeps
  <2> QED
    BY <2>1 DEF Q
<1>5. ASSUME NEW key \in DOMAIN block PROVE \E x \in X, y \in X : Runs(s, x, block[key], y)
  <2> DEFINE R == {calls \in Seq(Fair) : \A x \in X, y \in State :
                     Runs(s, x, calls, y) => \E u \in X, v \in X : Runs(s, u, block[key], v)}
  <2>1. ASSUME NEW a \in Q, NEW b \in R PROVE a \o b \in R /\ b \o a \in R
    <3>1. a \o b \in Seq(Fair) /\ b \o a \in Seq(Fair)
      OBVIOUS
    <3>2. ASSUME NEW x \in X, NEW y \in State, Runs(s, x, a \o b, y) \/ Runs(s, x, b \o a, y)
          PROVE  \E u \in X, v \in X : Runs(s, u, block[key], v)
      <4>1. CASE Runs(s, x, a \o b, y)
        <5>1. PICK r \in State : Runs(s, x, a, r) /\ Runs(s, r, b, y)
          BY <4>1, RunsBoth
        <5>2. r \in X
          BY <5>1
        <5> QED
          BY <5>1, <5>2
      <4>2. CASE Runs(s, x, b \o a, y)
        <5>1. PICK r \in State : Runs(s, x, b, r) /\ Runs(s, r, a, y)
          BY <4>2, RunsBoth
        <5> QED
          BY <5>1
      <4> QED
        BY <3>2, <4>1, <4>2
    <3> QED
      BY <3>1, <3>2
  <2>2. block[key] \in R
    OBVIOUS
  <2> HIDE DEF Q, R
  <2>3. Each(order, block) \in R
    BY <1>1, <1>2, <1>3, <2>1, <2>2, EachReaches
  <2> QED
    BY <2>3 DEF R
<1> QED
  BY <1>4, <1>5

\* If one block leads from X to Y, and none leaves either, then so do all together.
LEMMA EachLeads ==
  ASSUME NEW s, NEW X \in SUBSET State, NEW Y \in SUBSET State, NEW order, NEW block,
         IsFiniteSet(DOMAIN block), \A k \in DOMAIN block : block[k] \in Seq(Fair),
         \A k \in DOMAIN block : \A x \in X, y \in State : Runs(s, x, block[k], y) => y \in X,
         \A k \in DOMAIN block : \A x \in Y, y \in State : Runs(s, x, block[k], y) => y \in Y,
         NEW key \in DOMAIN block,
         \A x \in X, y \in State : Runs(s, x, block[key], y) => y \in Y,
         NEW p \in X, NEW q \in State, Runs(s, p, Each(order, block), q)
  PROVE  q \in Y
<1> DEFINE Keeps(Z) == {calls \in Seq(Fair) : \A x \in Z, y \in State : Runs(s, x, calls, y) => y \in Z}
           Q == Keeps(X) \cap Keeps(Y)
           R == {calls \in Seq(Fair) : \A x \in X, y \in State : Runs(s, x, calls, y) => y \in Y}
<1>1. <<>> \in Q
  BY RunsNone
<1>2. \A a, b \in Q : a \o b \in Q
  <2>1. ASSUME NEW Z \in SUBSET State, NEW a \in Keeps(Z), NEW b \in Keeps(Z) PROVE a \o b \in Keeps(Z)
    <3> SUFFICES ASSUME NEW x \in Z, NEW y \in State, Runs(s, x, a \o b, y) PROVE y \in Z
      OBVIOUS
    <3>1. PICK r \in State : Runs(s, x, a, r) /\ Runs(s, r, b, y)
      BY RunsBoth
    <3> QED
      BY <3>1
  <2> HIDE DEF Keeps
  <2> QED
    BY <2>1
<1>3. \A k \in DOMAIN block : block[k] \in Q
  OBVIOUS
<1>4. ASSUME NEW a \in Q, NEW b \in R PROVE a \o b \in R /\ b \o a \in R
  <2>1. a \o b \in Seq(Fair) /\ b \o a \in Seq(Fair)
    OBVIOUS
  <2>2. ASSUME NEW x \in X, NEW y \in State, Runs(s, x, a \o b, y) PROVE y \in Y
    <3>1. PICK r \in State : Runs(s, x, a, r) /\ Runs(s, r, b, y)
      BY <2>2, RunsBoth
    <3> QED
      BY <3>1
  <2>3. ASSUME NEW x \in X, NEW y \in State, Runs(s, x, b \o a, y) PROVE y \in Y
    <3>1. PICK r \in State : Runs(s, x, b, r) /\ Runs(s, r, a, y)
      BY <2>3, RunsBoth
    <3> QED
      BY <3>1
  <2> QED
    BY <2>1, <2>2, <2>3
<1>5. block[key] \in R
  OBVIOUS
<1> HIDE DEF Q, R
<1>6. Each(order, block) \in R
  BY <1>1, <1>2, <1>3, <1>4, <1>5, EachReaches
<1> QED
  BY <1>6 DEF R

\* The blocks of a map are calls together.
LEMMA EachFair ==
  ASSUME NEW order, NEW block, IsFiniteSet(DOMAIN block), \A k \in DOMAIN block : block[k] \in Seq(Fair)
  PROVE  Each(order, block) \in Seq(Fair)
<1> DEFINE Q == Seq(Fair)
<1>1. <<>> \in Q /\ \A a, b \in Q : a \o b \in Q
  OBVIOUS
<1> HIDE DEF Q
<1>2. \A k \in DOMAIN block : block[k] \in Q
  BY DEF Q
<1>3. Each(order, block) \in Q
  BY <1>1, <1>2, EachKeeps
<1> QED
  BY <1>3 DEF Q

-----------------------------------------------------------------------------
\* What an answer tells of the gates of a service.

\* A service that runs each of some gates once, in any order, with any habit.
Ordered(s) == s.gates \in Seq(Gate) /\ IsInjective(s.gates)

\* g stops the call, and none that does comes before it.
Stopper(s, m, c, g) == g \in Stopping(s, m, c) /\ \A h \in Stopping(s, m, c) : ~Before(s, h, g)

\* The first gate that stops a call answers it; with none the call succeeds.
LEMMA GatesDecide ==
  ASSUME NEW s, NEW m, NEW c, Ordered(s)
  PROVE  \/ /\ Stopping(s, m, c) = {}
            /\ GatesAnswer(s, m, c) = IF s.habit = "matchesAnything" THEN "accepted" ELSE c.success
         \/ \E g \in Gate : Stopper(s, m, c, g) /\ GatesAnswer(s, m, c) = GateAnswer(s, m, c, g)
<1> DEFINE stops == {i \in DOMAIN s.gates : ~Passes(s, m, c, s.gates[i])}
<1>1. CASE stops = {}
  <2>1. Stopping(s, m, c) = {}
    BY <1>1 DEF Stopping, Range
  <2>2. GatesAnswer(s, m, c) = IF s.habit = "matchesAnything" THEN "accepted" ELSE c.success
    <3>1. CASE s.habit = "matchesAnything"
      BY <1>1, <3>1, Zenon DEF GatesAnswer
    <3>2. CASE s.habit # "matchesAnything"
      BY <1>1, <3>2, Zenon DEF GatesAnswer
    <3> QED
      BY <3>1, <3>2
  <2> QED
    BY <2>1, <2>2
<1>2. CASE stops # {}
  <2>1. stops \subseteq Nat /\ \E j : j \in stops
    BY <1>2 DEF Ordered
  <2>2. \E i \in stops : \A k \in stops : i <= k
    BY <2>1, LeastNatural
  <2>3. Min(stops) \in stops /\ \A k \in stops : Min(stops) <= k
    BY <2>2 DEF Min
  <2> DEFINE i == Min(stops)
             g == s.gates[i]
  <2>4. GatesAnswer(s, m, c) = GateAnswer(s, m, c, g)
    BY <1>2, Zenon DEF GatesAnswer
  <2>5. i \in DOMAIN s.gates /\ ~Passes(s, m, c, g) /\ i \in Nat
    BY <2>1, <2>3
  <2>6. \A k \in DOMAIN s.gates : k < i => Passes(s, m, c, s.gates[k])
    <3>1. \A k \in DOMAIN s.gates : k \in stops \/ Passes(s, m, c, s.gates[k])
      OBVIOUS
    <3>2. DOMAIN s.gates \subseteq Nat
      BY DEF Ordered
    <3>3. i \in Nat
      BY <2>1, <2>3
    <3> SUFFICES ASSUME NEW k \in DOMAIN s.gates, k < i PROVE Passes(s, m, c, s.gates[k])
      OBVIOUS
    <3>4. k \notin stops
      <4> HIDE DEF stops
      <4>1. k \in Nat /\ ~(i <= k)
        BY <3>2, <3>3
      <4> QED
        BY <2>3, <4>1
    <3> QED
      BY <3>1, <3>4
  <2> HIDE DEF i, stops
  <2>7. g \in Gate /\ g \in Stopping(s, m, c)
    BY <2>5 DEF Ordered, Stopping, Range
  <2>8. ASSUME NEW h \in Stopping(s, m, c), Before(s, h, g) PROVE FALSE
    <3>1. PICK k \in DOMAIN s.gates, l \in DOMAIN s.gates : k < l /\ s.gates[k] = h /\ s.gates[l] = g
      BY <2>8 DEF Before
    <3>2. l = i
      BY <2>5, <3>1 DEF Ordered, IsInjective
    <3> QED
      BY <2>6, <2>8, <3>1, <3>2 DEF Stopping
  <2> QED
    BY <2>4, <2>7, <2>8 DEF Stopper
<1> QED
  BY <1>1, <1>2

\* What an answer tells of the gates and of what the service knew.
LEMMA Why ==
  ASSUME NEW s, NEW m, NEW c, Ordered(s), c.success \in {"accepted", "mismatched"},
         NEW r, r = Reply(s, m, c)
  PROVE  /\ r \in Answer
         /\ r = "invalidGrant" => /\ Stopper(s, m, c, "authority") \/ Stopper(s, m, c, "body")
                                  /\ s.habit # "leaks" \/ Prior(s, m, c) = {}
         /\ r = "leaked" => Stopper(s, m, c, "authority") \/ Stopper(s, m, c, "body")
         /\ r = "replayed" => s.habit # "renews"
         /\ r \in {"replayed", "renewed"} =>
              Stopper(s, m, c, "ledger") /\ \E x \in Prior(s, m, c) : SamePayload(s, x, c)
         /\ r = "commandConflict" =>
              Stopper(s, m, c, "ledger") /\ \A x \in Prior(s, m, c) : ~SamePayload(s, x, c)
         /\ r = "invalidTransition" => Stopper(s, m, c, "order") \/ Stopper(s, m, c, "references")
         /\ r \in {"accepted", "mismatched"} => Stopping(s, m, c) = {}
         /\ r = "mismatched" => s.habit # "matchesAnything"
         /\ r \in Refusal =>
              \E g \in Gate : /\ Stopper(s, m, c, g)
                              /\ g = "ledger" => \A x \in Prior(s, m, c) : ~SamePayload(s, x, c)
<1> DEFINE known == \E x \in Prior(s, m, c) : SamePayload(s, x, c)
           a == GatesAnswer(s, m, c)
           success == Stopping(s, m, c) = {}
                      /\ a = IF s.habit = "matchesAnything" THEN "accepted" ELSE c.success
           by(g) == Stopper(s, m, c, g) /\ a = GateAnswer(s, m, c, g)
<1>1. success \/ \E g \in Gate : by(g)
  BY GatesDecide
<1>2. /\ GateAnswer(s, m, c, "authority") = "invalidGrant" /\ GateAnswer(s, m, c, "body") = "invalidGrant"
      /\ GateAnswer(s, m, c, "policy") = "refused" /\ GateAnswer(s, m, c, "order") = "invalidTransition"
      /\ GateAnswer(s, m, c, "references") = "invalidTransition"
      /\ known => GateAnswer(s, m, c, "ledger") = "replayed"
      /\ ~known => GateAnswer(s, m, c, "ledger") = "commandConflict"
  BY GateAnswers
<1>3. \/ r = "leaked" /\ s.habit = "leaks" /\ a = "invalidGrant"
      \/ r = "renewed" /\ s.habit = "renews" /\ a = "replayed"
      \/ /\ r = a /\ (a = "replayed" => s.habit # "renews")
         /\ a = "invalidGrant" => s.habit # "leaks" \/ Prior(s, m, c) = {}
  <2>1. CASE s.habit = "leaks" /\ a = "invalidGrant" /\ Prior(s, m, c) # {}
    <3>1. r = "leaked"
      BY <2>1, Zenon DEF Reply
    <3> QED
      BY <2>1, <3>1
  <2>2. CASE s.habit = "renews" /\ a = "replayed"
    <3>1. s.habit # "leaks"
      BY <2>2
    <3>2. r = "renewed"
      BY <2>2, <3>1, Zenon DEF Reply
    <3> QED
      BY <2>2, <3>2
  <2>3. CASE ~(s.habit = "leaks" /\ a = "invalidGrant" /\ Prior(s, m, c) # {})
             /\ ~(s.habit = "renews" /\ a = "replayed")
    <3>1. r = a
      BY <2>3, Zenon DEF Reply
    <3> HIDE DEF a
    <3> QED
      BY <2>3, <3>1
  <2> QED
    BY <2>1, <2>2, <2>3
<1>4. success => a \in {"accepted", "mismatched"} /\ (a = "mismatched" => s.habit # "matchesAnything")
                 /\ Stopping(s, m, c) = {}
  OBVIOUS
<1>5. ASSUME NEW g \in Gate, by(g)
      PROVE  /\ g \in {"authority", "body"} => a = "invalidGrant"
             /\ g = "policy" => a = "refused"
             /\ g \in {"order", "references"} => a = "invalidTransition"
             /\ g = "ledger" /\ known => a = "replayed"
             /\ g = "ledger" /\ ~known => a = "commandConflict"
             /\ Stopper(s, m, c, g)
  <2> HIDE DEF a, known
  <2> QED
    BY <1>2, <1>5
<1> HIDE DEF a, success, by
<1>6. CASE success
  <2>1. r = a
    BY <1>3, <1>4, <1>6
  <2> QED
    BY <1>4, <1>6, <2>1 DEF Answer, Refusal
<1>7. CASE \E g \in Gate : by(g)
  <2>1. PICK g \in Gate : by(g)
    BY <1>7
  <2>2. Stopper(s, m, c, g)
    BY <1>5, <2>1
  <2>3. \/ g \in {"authority", "body"} /\ a = "invalidGrant"
        \/ g = "policy" /\ a = "refused"
        \/ g \in {"order", "references"} /\ a = "invalidTransition"
        \/ g = "ledger" /\ known /\ a = "replayed"
        \/ g = "ledger" /\ ~known /\ a = "commandConflict"
    BY <1>5, <2>1 DEF Gate
  <2>4. ~known => \A x \in Prior(s, m, c) : ~SamePayload(s, x, c)
    OBVIOUS
  <2>5. known => \E x \in Prior(s, m, c) : SamePayload(s, x, c)
    OBVIOUS
  <2> HIDE DEF known
  <2>6. r \in Refusal => g # "ledger" \/ ~known
    BY <1>3, <2>3 DEF Refusal
  <2>7. r \in Answer
    BY <1>3, <2>3 DEF Answer, Refusal
  <2> QED
    BY <1>3, <2>2, <2>3, <2>4, <2>5, <2>6, <2>7
<1> QED
  BY <1>1, <1>6, <1>7

\* Which gates stop a call.
LEMMA StoppingGates ==
  ASSUME NEW s, NEW m, NEW c
  PROVE  /\ "authority" \in Stopping(s, m, c) <=>
              "authority" \in Range(s.gates) /\ \E d \in c.off : <<c.op, d>> \notin s.forgets
         /\ "body" \in Stopping(s, m, c) <=> "body" \in Range(s.gates) /\ c.outside = "body"
         /\ "policy" \in Stopping(s, m, c) <=> "policy" \in Range(s.gates) /\ c.outside = "policy"
         /\ "ledger" \in Stopping(s, m, c) <=> "ledger" \in Range(s.gates) /\ Prior(s, m, c) # {}
         /\ \A g \in {"order", "references"} :
              g \in Stopping(s, m, c) <=>
                /\ g \in Range(s.gates) /\ g = Asking(c.op)
                /\ ~(c.needs \subseteq m.facts /\ c.bars \cap m.facts = {})
<1>1. \A g \in {"authority", "body", "policy", "ledger"} : g # Asking(c.op)
  BY AskingGates
<1> QED
  BY <1>1 DEF Stopping, Passes

\* What a service remembers of a call it answered.
LEMMA Remembers ==
  ASSUME NEW s, NEW m, NEW c, NEW r, NEW n, n = Remembered(s, m, c, r)
  PROVE  /\ r = "accepted" =>
              n = [ledger |-> (IF s.habit = "lastOnly" THEN {} ELSE m.ledger) \cup {Record(c)},
                   facts  |-> m.facts \cup c.gives]
         /\ r = "mismatched" =>
              n = [ledger |-> (IF s.habit = "lastOnly" THEN {} ELSE m.ledger) \cup {Record(c)},
                   facts  |-> m.facts]
         /\ r \in {"replayed", "renewed"} => n = m
         /\ r \in Refusal /\ s.habit \notin {"recordsRefusals", "dropsOnRefusal"} => n = m
         /\ r \in Refusal /\ s.habit = "recordsRefusals" /\ Prior(s, m, c) = {} =>
              n = [m EXCEPT !.ledger = @ \cup {Record(c)}]
         /\ r \in Refusal /\ s.habit = "recordsRefusals" /\ Prior(s, m, c) # {} => n = m
         /\ r \in Refusal /\ s.habit = "dropsOnRefusal" =>
              n = [m EXCEPT !.ledger = {x \in @ : x.command # c.command}]
<1>1. ASSUME r \in {"accepted", "mismatched"}
      PROVE  n = [ledger |-> (IF s.habit = "lastOnly" THEN {} ELSE m.ledger) \cup {Record(c)},
                  facts  |-> IF r = "accepted" THEN m.facts \cup c.gives ELSE m.facts]
  <2>1. r \notin Refusal
    BY <1>1 DEF Refusal
  <2> QED
    BY <1>1, <2>1, Zenon DEF Remembered
<1>2. "mismatched" # "accepted"
  OBVIOUS
<1>3. r \notin {"accepted", "mismatched"} /\ r \notin Refusal => n = m
  BY Zenon DEF Remembered
<1>4. r \in {"replayed", "renewed"} => r \notin {"accepted", "mismatched"} /\ r \notin Refusal
  BY DEF Refusal
<1>5. r \in Refusal => r \notin {"accepted", "mismatched"}
  BY DEF Refusal
<1>6. r \in Refusal /\ s.habit \notin {"recordsRefusals", "dropsOnRefusal"} => n = m
  BY <1>5, Zenon DEF Remembered
<1>7. r \in Refusal /\ s.habit = "recordsRefusals" /\ Prior(s, m, c) = {} =>
        n = [m EXCEPT !.ledger = @ \cup {Record(c)}]
  BY <1>5, Zenon DEF Remembered
<1>8. r \in Refusal /\ s.habit = "recordsRefusals" /\ Prior(s, m, c) # {} => n = m
  <2>1. s.habit = "recordsRefusals" => s.habit # "dropsOnRefusal"
    OBVIOUS
  <2> QED
    BY <1>5, <2>1, Zenon DEF Remembered
<1>9. r \in Refusal /\ s.habit = "dropsOnRefusal" =>
        n = [m EXCEPT !.ledger = {x \in @ : x.command # c.command}]
  <2>1. s.habit = "dropsOnRefusal" => s.habit # "recordsRefusals"
    OBVIOUS
  <2> QED
    BY <1>5, <2>1, Zenon DEF Remembered
<1> QED
  BY <1>1, <1>2, <1>3, <1>4, <1>6, <1>7, <1>8, <1>9

\* A memory stays one, whatever the service.
LEMMA RemembersMemory ==
  ASSUME NEW s, Ordered(s), NEW m \in Memory, NEW c \in CallType
  PROVE  Remembered(s, m, c, Reply(s, m, c)) \in Memory
<1> DEFINE r == Reply(s, m, c)
           n == Remembered(s, m, c, r)
           L == (IF s.habit = "lastOnly" THEN {} ELSE m.ledger) \cup {Record(c)}
<1>1. r \in Answer
  <2>1. c.success \in {"accepted", "mismatched"}
    BY DEF CallType
  <2> QED
    BY <2>1, Why
<1> HIDE DEF r
<1>2. Record(c) \in Entry /\ c.gives \in SUBSET Word
  BY DEF Record, CallType, Entry
<1>3. m.ledger \in SUBSET Entry /\ m.facts \in SUBSET Word /\ m = [ledger |-> m.ledger, facts |-> m.facts]
  BY DEF Memory
<1>4. L \in SUBSET Entry /\ m.ledger \cup {Record(c)} \in SUBSET Entry /\ m.facts \cup c.gives \in SUBSET Word
  BY <1>2, <1>3
<1>5. \A l \in SUBSET Entry, f \in SUBSET Word : [ledger |-> l, facts |-> f] \in Memory
  BY DEF Memory
<1>6. \A l : [m EXCEPT !.ledger = l] = [ledger |-> l, facts |-> m.facts]
  BY <1>3
<1> DEFINE kept == {x \in m.ledger : x.command # c.command}
<1>7. kept \in SUBSET Entry
  BY <1>3
<1>8. \/ n = [ledger |-> L, facts |-> m.facts \cup c.gives] \/ n = [ledger |-> L, facts |-> m.facts]
      \/ n = m \/ n = [m EXCEPT !.ledger = m.ledger \cup {Record(c)}]
      \/ n = [m EXCEPT !.ledger = kept]
  <2>1. r \in {"accepted", "mismatched", "replayed", "renewed"} \/ r \in Refusal
    BY <1>1 DEF Answer
  <2> QED
    BY <2>1, Remembers
<1> HIDE DEF n, L, kept
<1>9. n \in Memory
  BY <1>3, <1>4, <1>5, <1>6, <1>7, <1>8
<1> QED
  BY <1>9 DEF n, r

\* c asks for item, under a token ID, and every right answer lets the suite go on.
Puts(c, on, item, off, want, token) == Asks(c, on, item, off, want) /\ c.want = want /\ c.token = token

\* Such a call is one that lets the suite go on.
LEMMA PutsFair ==
  ASSUME NEW c, NEW on, NEW item, NEW off, NEW want, NEW token, Puts(c, on, item, off, want, token)
  PROVE  c \in Fair
<1>1. c \in CallType /\ c.want \ (c.skips \cup c.ends) = want /\ c.want = want
  BY DEF Puts, Asks
<1> QED
  BY <1>1 DEF Fair

\* The calls of the suites do.
LEMMA CallPuts ==
  ASSUME NEW on \in {"main", "fresh", "same"}, NEW item \in Item, NEW want \in SUBSET Answer
  PROVE  /\ Puts(Call(on, item, want), on, item, {}, want, "fresh")
         /\ Puts([Call(on, item, want) EXCEPT !.token = "first"], on, item, {}, want, "first")
         /\ \A stop \in SUBSET Answer : stop \cap want = {} =>
              /\ Puts([Call(on, item, want) EXCEPT !.skips = stop], on, item, {}, want, "fresh")
              /\ Puts([Call(on, item, want) EXCEPT !.ends = stop], on, item, {}, want, "fresh")
         /\ \A off \in SUBSET Word : Puts(Bad(on, item, off, want), on, item, off, want, "fresh")
<1>1. /\ Asks(Call(on, item, want), on, item, {}, want)
      /\ Asks([Call(on, item, want) EXCEPT !.token = "first"], on, item, {}, want)
      /\ \A stop \in SUBSET Answer :
           /\ Asks([Call(on, item, want) EXCEPT !.skips = stop], on, item, {}, want \ stop)
           /\ Asks([Call(on, item, want) EXCEPT !.ends = stop], on, item, {}, want \ stop)
      /\ \A off \in SUBSET Word : Asks(Bad(on, item, off, want), on, item, off, want)
  BY CallAsks
<1>2. /\ Call(on, item, want).want = want /\ Call(on, item, want).token = "fresh"
      /\ [Call(on, item, want) EXCEPT !.token = "first"].want = want
      /\ [Call(on, item, want) EXCEPT !.token = "first"].token = "first"
      /\ \A stop : /\ [Call(on, item, want) EXCEPT !.skips = stop].want = want
                   /\ [Call(on, item, want) EXCEPT !.skips = stop].token = "fresh"
                   /\ [Call(on, item, want) EXCEPT !.ends = stop].want = want
                   /\ [Call(on, item, want) EXCEPT !.ends = stop].token = "fresh"
      /\ \A off : Bad(on, item, off, want).want = want /\ Bad(on, item, off, want).token = "fresh"
  BY DEF Call, Bad
<1>3. \A stop : stop \cap want = {} => want \ stop = want
  OBVIOUS
<1> QED
  BY <1>1, <1>2, <1>3 DEF Puts

\* A setup asks for its item, under a fresh token ID ...
LEMMA SetupPuts ==
  ASSUME NEW on \in {"main", "fresh", "same"}, NEW item \in Item
  PROVE  /\ Puts(Setup(on, item), on, item, {}, {"accepted"}, "fresh")
         /\ Puts([Setup(on, item) EXCEPT !.want = Answer \ Refusal, !.skips = Refusal],
                 on, item, {}, Answer \ Refusal, "fresh")
<1>1. /\ Setup(on, item).want = {"accepted"} /\ Setup(on, item).token = "fresh"
      /\ [Setup(on, item) EXCEPT !.want = Answer \ Refusal, !.skips = Refusal].want = Answer \ Refusal
      /\ [Setup(on, item) EXCEPT !.want = Answer \ Refusal, !.skips = Refusal].token = "fresh"
  BY DEF Setup, Call
<1> QED
  BY <1>1, SetupAsks DEF Puts

\* ... and so does the first call, under the first one.
LEMMA FirstPuts ==
  ASSUME NEW item \in Item
  PROVE  /\ Puts(First(item), "main", item, {}, {"accepted"}, "first")
         /\ Puts([First(item) EXCEPT !.ends = Answer \ {"accepted"}], "main", item, {}, {"accepted"}, "first")
         /\ Puts([First(item) EXCEPT !.want = Answer \ Refusal], "main", item, {}, Answer \ Refusal, "first")
<1>1. /\ First(item).want = {"accepted"} /\ First(item).token = "first"
      /\ [First(item) EXCEPT !.ends = Answer \ {"accepted"}].want = {"accepted"}
      /\ [First(item) EXCEPT !.ends = Answer \ {"accepted"}].token = "first"
      /\ [First(item) EXCEPT !.want = Answer \ Refusal].want = Answer \ Refusal
      /\ [First(item) EXCEPT !.want = Answer \ Refusal].token = "first"
  BY DEF First, Call
<1> QED
  BY <1>1, FirstAsks DEF Puts

\* What a service makes of such a call.
LEMMA Taken ==
  ASSUME NEW s, Ordered(s), NEW c, NEW on, NEW item, NEW off, NEW want, NEW token,
         Puts(c, on, item, off, want, token), NEW m, NEW n, Takes(s, c, m, n)
  PROVE  \E r \in want :
           /\ r = Reply(s, m, c) /\ r \in Answer /\ n = Remembered(s, m, c, r)
           /\ r = "invalidGrant" => /\ Stopper(s, m, c, "authority") \/ Stopper(s, m, c, "body")
                                    /\ s.habit # "leaks" \/ Prior(s, m, c) = {}
           /\ r = "leaked" => Stopper(s, m, c, "authority") \/ Stopper(s, m, c, "body")
           /\ r = "replayed" => s.habit # "renews"
           /\ r \in {"replayed", "renewed"} =>
                Stopper(s, m, c, "ledger") /\ \E x \in Prior(s, m, c) : SamePayload(s, x, c)
           /\ r = "commandConflict" =>
                Stopper(s, m, c, "ledger") /\ \A x \in Prior(s, m, c) : ~SamePayload(s, x, c)
           /\ r = "invalidTransition" => Stopper(s, m, c, "order") \/ Stopper(s, m, c, "references")
           /\ r \in {"accepted", "mismatched"} => Stopping(s, m, c) = {}
           /\ r = "mismatched" => s.habit # "matchesAnything"
           /\ r \in Refusal =>
                \E g \in Gate : /\ Stopper(s, m, c, g)
                                /\ g = "ledger" => \A x \in Prior(s, m, c) : ~SamePayload(s, x, c)
<1> DEFINE r == Reply(s, m, c)
<1>1. r \in want /\ n = Remembered(s, m, c, r) /\ c.success \in {"accepted", "mismatched"}
  BY DEF Takes, Puts, Asks, CallType
<1> HIDE DEF r
<1>2. r = Reply(s, m, c)
  BY DEF r
<1> QED
  BY <1>1, <1>2, Why

\* Which gates stop it.
LEMMA StopsItem ==
  ASSUME NEW s, NEW c, NEW on, NEW item, NEW off, NEW want, NEW token,
         Puts(c, on, item, off, want, token), NEW m
  PROVE  /\ "authority" \in Stopping(s, m, c) <=>
              "authority" \in Range(s.gates) /\ \E d \in off : <<item.op, d>> \notin s.forgets
         /\ "body" \in Stopping(s, m, c) <=> "body" \in Range(s.gates) /\ item.outside = "body"
         /\ "policy" \in Stopping(s, m, c) <=> "policy" \in Range(s.gates) /\ item.outside = "policy"
         /\ "ledger" \in Stopping(s, m, c) <=> "ledger" \in Range(s.gates) /\ Prior(s, m, c) # {}
         /\ \A g \in {"order", "references"} :
              g \in Stopping(s, m, c) <=>
                /\ g \in Range(s.gates) /\ g = Asking(item.op)
                /\ ~(item.needs \subseteq m.facts /\ item.bars \cap m.facts = {})
         /\ \A g : Stopper(s, m, c, g) => g \in Stopping(s, m, c)
<1>1. c.op = item.op /\ c.outside = item.outside /\ c.needs = item.needs /\ c.bars = item.bars /\ c.off = off
  BY DEF Puts, Asks
<1> QED
  BY <1>1, StoppingGates DEF Stopper

\* What it takes for an earlier call, and for the same payload.
LEMMA PriorItem ==
  ASSUME NEW s, NEW c, NEW on, NEW item, NEW off, NEW want, NEW token,
         Puts(c, on, item, off, want, token), NEW m
  PROVE  /\ \A x : x \in Prior(s, m, c) <=>
              /\ x \in m.ledger /\ x.command = item.command /\ s.habit # "forgetful"
              /\ s.habit = "byToken" => x.token = token
              /\ s.habit = "byOperation" => x.op = item.op
         /\ \A x : SamePayload(s, x, c) <=>
              s.habit = "anyPayload" \/ (x.op = item.op /\ x.body \ s.overlooks = item.body \ s.overlooks)
         /\ Record(c) = [op |-> item.op, command |-> item.command, body |-> item.body, token |-> token]
BY DEF Prior, SamePayload, Record, Puts, Asks

-----------------------------------------------------------------------------
\* The authority suite, passed.

\* The calls of the authority suite ask for what they should and let it go on.
LEMMA AuthorityBlocksFair ==
  ASSUME NEW order
  PROVE  LET item(u) == GrantItem(u, "token", {})
             bad(u) == [f \in operationGrantRequestMutations |-> <<Bad("same", item(u), {f}, Refusal)>>]
             setup(u) == <<Setup("fresh", item(u)), Call("same", item(u), {"accepted"})>>
             block == [u \in Purpose |-> setup(u) \o Each(order, bad(u))]
         IN  /\ \A u \in Purpose :
                  /\ \A f \in operationGrantRequestMutations :
                       Puts(Bad("same", item(u), {f}, Refusal), "same", item(u), {f}, Refusal, "fresh")
                  /\ item(u).op = u
                  /\ setup(u) \in Seq(Fair) /\ IsFiniteSet(DOMAIN bad(u)) /\ Each(order, bad(u)) \in Seq(Fair)
                  /\ \A f \in DOMAIN bad(u) : bad(u)[f] \in Seq(Fair)
             /\ IsFiniteSet(DOMAIN block) /\ \A u \in DOMAIN block : block[u] \in Seq(Fair)
             /\ CheckOperationGrantAuthority(order) = Each(order, block)
<1> DEFINE item(u) == GrantItem(u, "token", {})
           bad(u) == [f \in operationGrantRequestMutations |-> <<Bad("same", item(u), {f}, Refusal)>>]
           setup(u) == <<Setup("fresh", item(u)), Call("same", item(u), {"accepted"})>>
           block == [u \in Purpose |-> setup(u) \o Each(order, bad(u))]
<1>1. IsFiniteSet(Purpose) /\ IsFiniteSet(operationGrantRequestMutations)
      /\ operationGrantRequestMutations \subseteq Word
  <2>1. Purpose = {"manifest-closure-plan", "candidate-closure-validate-retain", "artifact-publish",
                   "artifact-disclosure-verify"} \cup
                  {"contest-launch", "contest-started-event", "contest-result-event", "contest-result-event"}
    BY DEF Purpose
  <2>2. IsFiniteSet({"purpose"}) /\ "purpose" \in Word
    BY FS_Singleton DEF Word
  <2> QED
    BY <2>1, <2>2, FewFinite, FieldFinite, FS_Union DEF operationGrantRequestMutations
<1>2. ASSUME NEW u \in Purpose
      PROVE  /\ Puts(Setup("fresh", item(u)), "fresh", item(u), {}, {"accepted"}, "fresh")
             /\ Puts(Call("same", item(u), {"accepted"}), "same", item(u), {}, {"accepted"}, "fresh")
             /\ \A f \in operationGrantRequestMutations :
                  Puts(Bad("same", item(u), {f}, Refusal), "same", item(u), {f}, Refusal, "fresh")
             /\ item(u).op = u
  <2>1. item(u) \in Item /\ item(u).op = u
    <3>1. u \in Word /\ "token" \in Word /\ {} \in SUBSET Word
      BY DEF Word
    <3> QED
      BY <3>1, GrantItems
  <2>2. {"accepted"} \in SUBSET Answer /\ Refusal \in SUBSET Answer
    BY DEF Answer
  <2>3. \A f \in operationGrantRequestMutations : {f} \in SUBSET Word
    BY <1>1
  <2> HIDE DEF item
  <2> QED
    BY <2>1, <2>2, <2>3, CallPuts, SetupPuts
<1> HIDE DEF item
<1>3. ASSUME NEW u \in Purpose
      PROVE  /\ setup(u) \in Seq(Fair) /\ IsFiniteSet(DOMAIN bad(u)) /\ Each(order, bad(u)) \in Seq(Fair)
             /\ \A f \in DOMAIN bad(u) : bad(u)[f] \in Seq(Fair)
             /\ setup(u) \o Each(order, bad(u)) \in Seq(Fair)
  <2>1. Setup("fresh", item(u)) \in Fair /\ Call("same", item(u), {"accepted"}) \in Fair
    BY <1>2, PutsFair
  <2>2. \A f \in operationGrantRequestMutations : Bad("same", item(u), {f}, Refusal) \in Fair
    BY <1>2, PutsFair
  <2>3. setup(u) \in Seq(Fair)
    BY <2>1
  <2>4. IsFiniteSet(DOMAIN bad(u)) /\ \A f \in DOMAIN bad(u) : bad(u)[f] \in Seq(Fair)
    BY <1>1, <2>2
  <2> HIDE DEF bad, setup
  <2>5. Each(order, bad(u)) \in Seq(Fair)
    BY <2>4, EachFair
  <2> QED
    BY <2>3, <2>4, <2>5
<1>4. CheckOperationGrantAuthority(order) = Each(order, block)
  BY DEF CheckOperationGrantAuthority, item
<1>5. IsFiniteSet(DOMAIN block) /\ \A u \in DOMAIN block : block[u] \in Seq(Fair)
  BY <1>1, <1>3
<1> HIDE DEF block, bad, setup
<1> QED
  BY <1>2, <1>3, <1>4, <1>5, Zenon DEF item, bad, setup, block

\* So the authority suite is calls that let it go on.
LEMMA AuthorityFair == \A order : CheckOperationGrantAuthority(order) \in Seq(Fair)
<1> SUFFICES ASSUME NEW order PROVE CheckOperationGrantAuthority(order) \in Seq(Fair)
  OBVIOUS
<1>1. \E block : /\ IsFiniteSet(DOMAIN block) /\ \A u \in DOMAIN block : block[u] \in Seq(Fair)
                 /\ CheckOperationGrantAuthority(order) = Each(order, block)
  BY AuthorityBlocksFair, Zenon
<1> QED
  BY <1>1, EachFair

\* A refusal by an issuer, whose only gate is the authority, is about the claim.
LEMMA RequestsBound ==
  ASSUME NEW s, s.gates \in Seq({"authority"}), Ordered(s), NEW order,
         NEW p \in State, NEW q \in State, Runs(s, p, CheckOperationGrantAuthority(order), q)
  PROVE  "authority" \in Range(s.gates)
         /\ \A purpose \in Purpose, f \in operationGrantRequestMutations : <<purpose, f>> \notin s.forgets
<1> DEFINE item(u) == GrantItem(u, "token", {})
           bad(u) == [f \in operationGrantRequestMutations |-> <<Bad("same", item(u), {f}, Refusal)>>]
           setup(u) == <<Setup("fresh", item(u)), Call("same", item(u), {"accepted"})>>
           block == [u \in Purpose |-> setup(u) \o Each(order, bad(u))]
<1>1. \A u \in Purpose :
        /\ \A f \in operationGrantRequestMutations :
             Puts(Bad("same", item(u), {f}, Refusal), "same", item(u), {f}, Refusal, "fresh")
        /\ item(u).op = u
  BY AuthorityBlocksFair, Zenon
<1>2. \A u \in Purpose :
        /\ setup(u) \in Seq(Fair) /\ IsFiniteSet(DOMAIN bad(u)) /\ Each(order, bad(u)) \in Seq(Fair)
        /\ \A f \in DOMAIN bad(u) : bad(u)[f] \in Seq(Fair)
  BY AuthorityBlocksFair, Zenon
<1>3. IsFiniteSet(DOMAIN block) /\ \A u \in DOMAIN block : block[u] \in Seq(Fair)
  BY AuthorityBlocksFair, Zenon
<1>4. CheckOperationGrantAuthority(order) = Each(order, block)
  BY AuthorityBlocksFair, Zenon
<1> HIDE DEF item
<1>5. ASSUME NEW u \in Purpose, NEW f \in operationGrantRequestMutations
      PROVE  "authority" \in Range(s.gates) /\ <<u, f>> \notin s.forgets
  <2>1. \E x \in State, y \in State : Runs(s, x, block[u], y)
    <3>1. Runs(s, p, Each(order, block), q) /\ u \in DOMAIN block /\ State \in SUBSET State
      BY <1>4
    <3> HIDE DEF block
    <3> QED
      BY <1>3, <3>1, EachRuns
  <2>2. PICK x \in State, y \in State : Runs(s, x, setup(u) \o Each(order, bad(u)), y)
    BY <2>1
  <2>3. PICK z \in State : Runs(s, z, Each(order, bad(u)), y)
    <3> HIDE DEF setup, bad
    <3> QED
      BY <1>2, <2>2, RunsBoth
  <2>4. PICK a \in State, b \in State : Runs(s, a, bad(u)[f], b)
    <3>1. IsFiniteSet(DOMAIN bad(u)) /\ (\A k \in DOMAIN bad(u) : bad(u)[k] \in Seq(Fair))
          /\ f \in DOMAIN bad(u) /\ State \in SUBSET State
      BY <1>2
    <3> HIDE DEF bad
    <3> QED
      BY <2>3, <3>1, EachRuns
  <2> DEFINE c == Bad("same", item(u), {f}, Refusal)
  <2>5. Puts(c, "same", item(u), {f}, Refusal, "fresh") /\ item(u).op = u
    BY <1>1
  <2>6. Answers(s, c, a, b)
    <3>1. bad(u)[f] = <<c>>
      OBVIOUS
    <3> QED
      BY <2>4, <3>1, RunsOne
  <2> HIDE DEF c, bad
  <2>7. Takes(s, c, a[2], b[2])
    BY <2>5, <2>6 DEF Answers, Puts, Asks
  <2>8. PICK g \in Gate : Stopper(s, a[2], c, g)
    BY <2>5, <2>7, Taken
  <2>9. g \in Stopping(s, a[2], c)
    BY <2>8 DEF Stopper
  <2>10. g = "authority"
    <3>1. PICK i \in DOMAIN s.gates : s.gates[i] = g
      BY <2>9 DEF Stopping, Range
    <3> QED
      BY <3>1
  <2>11. "authority" \in Stopping(s, a[2], c) =>
           "authority" \in Range(s.gates) /\ \E d \in {f} : <<item(u).op, d>> \notin s.forgets
    <3> DEFINE i == item(u)
               off == {f}
               m == a[2]
    <3>1. Puts(c, "same", i, off, Refusal, "fresh")
      BY <2>5
    <3> HIDE DEF i, off, m
    <3>2. "authority" \in Stopping(s, m, c) =>
            "authority" \in Range(s.gates) /\ \E d \in off : <<i.op, d>> \notin s.forgets
      BY <3>1, StopsItem
    <3> QED
      BY <3>2 DEF i, off, m
  <2> QED
    BY <2>5, <2>9, <2>10, <2>11
<1>6. "contest-launch" \in Purpose /\ "purpose" \in operationGrantRequestMutations
  BY DEF Purpose, operationGrantRequestMutations
<1> QED
  BY <1>5, <1>6

-----------------------------------------------------------------------------
\* The verifier suite, passed.

\* What a service remembers of a call to which no gate objected, and of one that it replayed.
LEMMA TakesLedger ==
  ASSUME NEW s, Ordered(s), NEW c, NEW on, NEW item, NEW off, NEW want, NEW token,
         Puts(c, on, item, off, want, token), NEW m \in Memory, NEW n, Takes(s, c, m, n)
  PROVE  /\ n \in Memory
         /\ \A x \in n.ledger : x \in m.ledger \/ x = Record(c)
         /\ Reply(s, m, c) \in {"accepted", "mismatched"} => Record(c) \in n.ledger
         /\ Reply(s, m, c) = "accepted" => n.facts = m.facts \cup item.gives
         /\ Reply(s, m, c) = "accepted" =>
              n.ledger = (IF s.habit = "lastOnly" THEN {} ELSE m.ledger) \cup {Record(c)}
         /\ Reply(s, m, c) \in {"replayed", "renewed"} => n = m
<1> DEFINE r == Reply(s, m, c)
           L == (IF s.habit = "lastOnly" THEN {} ELSE m.ledger) \cup {Record(c)}
           kept == {x \in m.ledger : x.command # c.command}
<1>1. c \in CallType /\ c.success \in {"accepted", "mismatched"} /\ c.gives = item.gives
  BY DEF Puts, Asks, CallType
<1>2. n \in Memory /\ n = Remembered(s, m, c, r)
  BY <1>1, RemembersMemory DEF Takes
<1>3. r \in Answer
  BY <1>1, Why
<1> HIDE DEF r
<1>4. m = [ledger |-> m.ledger, facts |-> m.facts]
  BY DEF Memory
<1>5. \A l : [m EXCEPT !.ledger = l].ledger = l
  BY <1>4
<1>6. /\ r = "accepted" => n = [ledger |-> L, facts |-> m.facts \cup c.gives]
      /\ r = "mismatched" => n = [ledger |-> L, facts |-> m.facts]
      /\ r \in {"replayed", "renewed"} => n = m
      /\ r \in Refusal => \/ n = m \/ n = [m EXCEPT !.ledger = m.ledger \cup {Record(c)}]
                          \/ n = [m EXCEPT !.ledger = kept]
  BY <1>2, Remembers
<1>7. \A x \in L \cup kept \cup (m.ledger \cup {Record(c)}) : x \in m.ledger \/ x = Record(c)
  OBVIOUS
<1>8. Record(c) \in L
  OBVIOUS
<1>9. r \in {"accepted", "mismatched", "replayed", "renewed"} \/ r \in Refusal
  BY <1>3 DEF Answer
<1>10. \A l, f : [ledger |-> l, facts |-> f].ledger = l /\ [ledger |-> l, facts |-> f].facts = f
  OBVIOUS
<1> HIDE DEF kept
<1>11. r \in {"accepted", "mismatched"} => n.ledger = L
  BY <1>6
<1>12. r = "accepted" => n.facts = m.facts \cup c.gives
  BY <1>6
<1> DEFINE K == m.ledger \cup {Record(c)}
<1>13. r \in Refusal => n = m \/ n.ledger = K \/ n.ledger = kept
  BY <1>5, <1>6
<1> HIDE DEF L, K
<1>14. \A x \in n.ledger : x \in m.ledger \/ x = Record(c)
  BY <1>6, <1>7, <1>9, <1>11, <1>13 DEF K
<1>15. r = "accepted" => n.ledger = (IF s.habit = "lastOnly" THEN {} ELSE m.ledger) \cup {Record(c)}
  BY <1>11 DEF L
<1> QED
  BY <1>1, <1>2, <1>6, <1>8, <1>11, <1>12, <1>14, <1>15 DEF r

\* A new service takes nothing for an earlier call.
LEMMA NothingPrior ==
  ASSUME NEW s, NEW c
  PROVE  Empty \in Memory /\ Prior(s, Empty, c) = {} /\ "ledger" \notin Stopping(s, Empty, c)
BY StoppingGates DEF Prior, Empty, Memory

\* A suite starts with nothing remembered.
Nothing == <<Empty, Empty>>

\* The empty memories are memories.
LEMMA NothingIs == Nothing \in State /\ Nothing[1] = Empty /\ Nothing[2] = Empty
BY NothingPrior DEF Nothing, State

\* A token ID under other claims is a conflict, which only the ledger can tell.
LEMMA ReusesTell ==
  ASSUME NEW s, Ordered(s), NEW claim \in Word, NEW p \in State, NEW q \in State,
         Runs(s, p, ReusedTokenID(claim), q)
  PROVE  /\ "ledger" \in Range(s.gates) /\ s.habit \notin {"forgetful", "anyPayload"}
         /\ claim \notin s.overlooks
         /\ claim \in untrusted /\ <<"verify", claim>> \notin s.forgets => ~Before(s, "authority", "ledger")
<1> DEFINE old == Verify("replayed", {})
           new == Verify("replayed", {claim})
           off == {claim} \cap untrusted
           a == [Call("fresh", old, Verified) EXCEPT !.skips = Refusal]
           b == Bad("same", new, off, {"commandConflict"})
<1>1. /\ old \in Item /\ old.op = "verify" /\ old.command = "replayed" /\ old.body = {}
      /\ new \in Item /\ new.op = "verify" /\ new.command = "replayed" /\ new.body = {claim}
  <2>1. "verify" \in Word /\ "replayed" \in Word /\ {} \in SUBSET Word /\ {claim} \in SUBSET Word
    BY DEF Word
  <2> QED
    BY <2>1, GrantItems DEF Verify
<1> HIDE DEF old, new
<1>2. Puts(a, "fresh", old, {}, Verified, "fresh") /\ Puts(b, "same", new, off, {"commandConflict"}, "fresh")
  <2>1. /\ Verified \in SUBSET Answer /\ Refusal \in SUBSET Answer /\ Refusal \cap Verified = {}
        /\ {"commandConflict"} \in SUBSET Answer /\ off \in SUBSET Word
    BY DEF Verified, Answer, Refusal
  <2> HIDE DEF off
  <2> QED
    BY <1>1, <2>1, CallPuts
<1>3. ReusedTokenID(claim) = <<a, b>>
  BY DEF ReusedTokenID, old, new
<1> HIDE DEF a, b, off
<1>4. PICK r \in State : Answers(s, a, p, r) /\ Answers(s, b, r, q)
  BY <1>3, RunsTwo
<1>5. Takes(s, a, Empty, r[2]) /\ Takes(s, b, r[2], q[2]) /\ r[2] \in Memory
  BY <1>2, <1>4 DEF Answers, Puts, Asks, State
<1>6. \A x \in r[2].ledger : x = Record(a)
  <2>1. \A x \in r[2].ledger : x \in Empty.ledger \/ x = Record(a)
    BY <1>2, <1>5, NothingPrior, TakesLedger
  <2> QED
    BY <2>1 DEF Empty
<1>7. Stopper(s, r[2], b, "ledger") /\ \A x \in Prior(s, r[2], b) : ~SamePayload(s, x, b)
  BY <1>2, <1>5, Taken
<1> DEFINE m == r[2]
<1> HIDE DEF m
<1>8. /\ "ledger" \in Range(s.gates) /\ Prior(s, m, b) # {}
      /\ "authority" \in Stopping(s, m, b) <=>
           "authority" \in Range(s.gates) /\ \E d \in off : <<new.op, d>> \notin s.forgets
  <2>1. Stopper(s, m, b, "ledger")
    BY <1>7 DEF m
  <2> QED
    BY <1>2, <2>1, StopsItem
<1>9. PICK x \in Prior(s, m, b) : x \in m.ledger /\ s.habit # "forgetful"
  <2>1. \E x : x \in Prior(s, m, b)
    BY <1>8
  <2>2. \A x : x \in Prior(s, m, b) => x \in m.ledger /\ s.habit # "forgetful"
    BY <1>2, PriorItem
  <2> QED
    BY <2>1, <2>2
<1>10. x.op = "verify" /\ x.body = {}
  <2>1. Record(a).op = "verify" /\ Record(a).body = {}
    BY <1>1, <1>2, PriorItem
  <2> QED
    BY <1>6, <1>9, <2>1 DEF m
<1>11. s.habit # "anyPayload" /\ x.body \ s.overlooks # {claim} \ s.overlooks
  <2>1. ~SamePayload(s, x, b)
    BY <1>7, <1>9 DEF m
  <2>2. SamePayload(s, x, b) <=>
          s.habit = "anyPayload" \/ (x.op = new.op /\ x.body \ s.overlooks = new.body \ s.overlooks)
    BY <1>2, PriorItem
  <2> QED
    BY <1>1, <1>10, <2>1, <2>2
<1>12. claim \notin s.overlooks
  BY <1>10, <1>11
<1>13. ASSUME claim \in untrusted, <<"verify", claim>> \notin s.forgets PROVE ~Before(s, "authority", "ledger")
  <2>1. CASE "authority" \in Range(s.gates)
    <3>1. "authority" \in Stopping(s, m, b)
      BY <1>1, <1>8, <1>13, <2>1 DEF off
    <3> QED
      BY <1>7, <3>1 DEF Stopper, m
  <2>2. CASE "authority" \notin Range(s.gates)
    BY <2>2 DEF Before, Range
  <2> QED
    BY <2>1, <2>2
<1> QED
  BY <1>8, <1>9, <1>11, <1>12, <1>13

\* An untrusted token that only the authority gate can refuse.
LEMMA RefusedByAuthority ==
  ASSUME NEW s, Ordered(s), NEW c, NEW on, NEW item, NEW off, NEW token,
         Puts(c, on, item, off, Refusal, token), NEW m \in Memory, NEW n, Takes(s, c, m, n),
         Range(s.gates) \subseteq {"authority", "ledger"}, Prior(s, m, c) = {}
  PROVE  "authority" \in Range(s.gates) /\ \E d \in off : <<item.op, d>> \notin s.forgets
<1>1. PICK g \in Gate : Stopper(s, m, c, g)
  <2>1. Takes(s, c, m, n) /\ Refusal = Refusal
    OBVIOUS
  <2> QED
    BY <2>1, Taken
<1>2. g \in Stopping(s, m, c) /\ g \in {"authority", "ledger"}
  BY <1>1 DEF Stopper, Stopping
<1>3. "ledger" \notin Stopping(s, m, c)
  BY StopsItem
<1>4. g = "authority"
  BY <1>2, <1>3
<1>5. "authority" \in Stopping(s, m, c)
  BY <1>2, <1>4
<1> QED
  BY <1>5, StopsItem

\* The calls of the verifier suite ask for what they should and let it go on.
LEMMA VerifierBlocksFair ==
  ASSUME NEW order
  PROVE  LET good == Verify("good", {})
             forged == Verify("forged", {})
             fresh_ == Verify("fresh", {})
             ill(k) == Verify("bad", {k})
             a == [First(good) EXCEPT !.want = Verified]
             b == Call("main", good, Verified)
             c == Bad("main", forged, {"signature"}, Refusal)
             d == Call("main", fresh_, Verified)
             e(k) == Bad("fresh", ill(k), {k}, Refusal)
             reused == [k \in allGrantClaimMutations |-> ReusedTokenID(k)]
             bad == [k \in untrusted |-> <<e(k)>>]
         IN  /\ good.command = "good" /\ forged.command = "forged" /\ forged.op = "verify"
             /\ good \in Item /\ forged \in Item /\ fresh_ \in Item
             /\ \A k \in untrusted : ill(k) \in Item /\ ill(k).op = "verify"
             /\ Puts(a, "main", good, {}, Verified, "first") /\ Puts(b, "main", good, {}, Verified, "fresh")
             /\ Puts(c, "main", forged, {"signature"}, Refusal, "fresh")
             /\ Puts(d, "main", fresh_, {}, Verified, "fresh")
             /\ \A k \in untrusted : Puts(e(k), "fresh", ill(k), {k}, Refusal, "fresh")
             /\ IsFiniteSet(DOMAIN reused) /\ \A k \in DOMAIN reused : reused[k] \in Seq(Fair)
             /\ IsFiniteSet(DOMAIN bad) /\ \A k \in DOMAIN bad : bad[k] \in Seq(Fair)
             /\ <<a, b, c>> \in Seq(Fair) /\ <<d>> \in Seq(Fair)
             /\ Each(order, reused) \in Seq(Fair) /\ Each(order, bad) \in Seq(Fair)
             /\ \A k \in allGrantClaimMutations : k \in Word
<1> DEFINE good == Verify("good", {})
           forged == Verify("forged", {})
           fresh_ == Verify("fresh", {})
           ill(k) == Verify("bad", {k})
           a == [First(good) EXCEPT !.want = Verified]
           b == Call("main", good, Verified)
           c == Bad("main", forged, {"signature"}, Refusal)
           d == Call("main", fresh_, Verified)
           e(k) == Bad("fresh", ill(k), {k}, Refusal)
           reused == [k \in allGrantClaimMutations |-> ReusedTokenID(k)]
           bad == [k \in untrusted |-> <<e(k)>>]
<1>1. /\ untrusted \subseteq Word /\ IsFiniteSet(untrusted)
      /\ allGrantClaimMutations \subseteq Word /\ IsFiniteSet(allGrantClaimMutations)
  <2>1. untrusted = {"unknownKey", "expired", "notActive", "issuer"} \cup {"audience", "tokenType", "tokenType", "tokenType"}
    BY DEF untrusted
  <2>2. Envelope \ {"tokenID"} \subseteq Envelope
    OBVIOUS
  <2>3. IsFiniteSet(Envelope \ {"tokenID"})
    BY <2>2, EnvelopeFinite, FS_Subset
  <2>4. untrusted \subseteq Word
    BY DEF untrusted, Word, Envelope
  <2> QED
    BY <2>1, <2>3, <2>4, FewFinite, FieldFinite, EnvelopeFinite, FS_Union DEF allGrantClaimMutations
<1>2. /\ \A id \in {"good", "forged", "fresh", "bad"}, body \in SUBSET Word :
           /\ Verify(id, body) \in Item /\ Verify(id, body).op = "verify" /\ Verify(id, body).command = id
  <2>1. "verify" \in Word /\ {"good", "forged", "fresh", "bad"} \subseteq Word
    BY DEF Word
  <2> QED
    BY <2>1, GrantItems DEF Verify
<1>3. /\ good \in Item /\ forged \in Item /\ fresh_ \in Item /\ \A k \in untrusted : ill(k) \in Item
      /\ good.command = "good" /\ forged.command = "forged" /\ forged.op = "verify"
      /\ \A k \in untrusted : ill(k).op = "verify"
  <2>1. {} \in SUBSET Word /\ \A k \in untrusted : {k} \in SUBSET Word
    BY <1>1
  <2> QED
    BY <1>2, <2>1
<1> HIDE DEF good, forged, fresh_, ill
<1>4. /\ Puts(a, "main", good, {}, Verified, "first") /\ Puts(b, "main", good, {}, Verified, "fresh")
      /\ Puts(c, "main", forged, {"signature"}, Refusal, "fresh") /\ Puts(d, "main", fresh_, {}, Verified, "fresh")
      /\ \A k \in untrusted : Puts(e(k), "fresh", ill(k), {k}, Refusal, "fresh")
  <2>1. Verified \in SUBSET Answer /\ Refusal \in SUBSET Answer /\ Verified = Answer \ Refusal
        /\ {"signature"} \in SUBSET Word /\ \A k \in untrusted : {k} \in SUBSET Word
    BY <1>1 DEF Verified, Answer, Word
  <2> QED
    BY <1>3, <2>1, CallPuts, FirstPuts
<1>5. <<a, b, c>> \in Seq(Fair) /\ <<d>> \in Seq(Fair) /\ \A k \in untrusted : <<e(k)>> \in Seq(Fair)
  <2>1. a \in Fair /\ b \in Fair /\ c \in Fair /\ d \in Fair /\ \A k \in untrusted : e(k) \in Fair
    BY <1>4, PutsFair
  <2> QED
    BY <2>1
<1>6. \A k \in allGrantClaimMutations : ReusedTokenID(k) \in Seq(Fair)
  <2> SUFFICES ASSUME NEW k \in allGrantClaimMutations PROVE ReusedTokenID(k) \in Seq(Fair)
    OBVIOUS
  <2> DEFINE x == [Call("fresh", Verify("replayed", {}), Verified) EXCEPT !.skips = Refusal]
             y == Bad("same", Verify("replayed", {k}), {k} \cap untrusted, {"commandConflict"})
  <2>1. x \in Fair /\ y \in Fair
    <3>1. "verify" \in Word /\ "replayed" \in Word /\ {} \in SUBSET Word /\ {k} \in SUBSET Word
      BY <1>1 DEF Word
    <3>2. Verify("replayed", {}) \in Item /\ Verify("replayed", {k}) \in Item
      BY <3>1, GrantItems DEF Verify
    <3>3. Verified \in SUBSET Answer /\ Refusal \in SUBSET Answer /\ Refusal \cap Verified = {}
          /\ {"commandConflict"} \in SUBSET Answer /\ {k} \cap untrusted \in SUBSET Word
      BY <3>1 DEF Verified, Answer, Refusal
    <3> QED
      BY <3>2, <3>3, CallPuts, PutsFair
  <2> QED
    BY <2>1 DEF ReusedTokenID
<1>7. /\ IsFiniteSet(DOMAIN reused) /\ \A k \in DOMAIN reused : reused[k] \in Seq(Fair)
      /\ IsFiniteSet(DOMAIN bad) /\ \A k \in DOMAIN bad : bad[k] \in Seq(Fair)
  BY <1>1, <1>5, <1>6
<1> HIDE DEF reused, bad
<1>8. Each(order, reused) \in Seq(Fair) /\ Each(order, bad) \in Seq(Fair)
  BY <1>7, EachFair
<1>9. \A k \in allGrantClaimMutations : k \in Word
  BY <1>1
<1> HIDE DEF a, b, c, d, e
<1> QED
  BY <1>3, <1>4, <1>5, <1>7, <1>8, <1>9, Zenon DEF good, forged, fresh_, ill, a, b, c, d, e, reused, bad

\* So the verifier suite is calls that let it go on.
LEMMA VerifierFair == \A order : CheckOperationGrantVerifier(order) \in Seq(Fair)
<1> DEFINE Q == Seq(Fair)
<1>1. \A x, y, z, w : x \in Q /\ y \in Q /\ z \in Q /\ w \in Q => x \o y \o z \o w \in Q
  OBVIOUS
<1> QED
  BY <1>1, VerifierBlocksFair, ZenonT(60) DEF CheckOperationGrantVerifier

\* A verifier that passes its suite.
LEMMA VerifierTells ==
  ASSUME NEW s, s.gates \in Seq(Gates("verifier")), Ordered(s), NEW order, NEW q \in State,
         Runs(s, Nothing, CheckOperationGrantVerifier(order), q)
  PROVE  /\ {"authority", "ledger"} \subseteq Range(s.gates) /\ ~Before(s, "authority", "ledger")
         /\ s.habit \notin {"forgetful", "anyPayload"}
         /\ \A c \in untrusted \cup {"signature"} : <<"verify", c>> \notin s.forgets
         /\ \A part \in allGrantClaimMutations : part \notin s.overlooks
<1> DEFINE good == Verify("good", {})
           forged == Verify("forged", {})
           fresh_ == Verify("fresh", {})
           ill(k) == Verify("bad", {k})
           a == [First(good) EXCEPT !.want = Verified]
           b == Call("main", good, Verified)
           c == Bad("main", forged, {"signature"}, Refusal)
           d == Call("main", fresh_, Verified)
           e(k) == Bad("fresh", ill(k), {k}, Refusal)
           reused == [k \in allGrantClaimMutations |-> ReusedTokenID(k)]
           bad == [k \in untrusted |-> <<e(k)>>]
<1>1. /\ good \in Item /\ forged \in Item /\ fresh_ \in Item /\ \A k \in untrusted : ill(k) \in Item
      /\ good.command = "good" /\ forged.command = "forged" /\ forged.op = "verify"
      /\ \A k \in untrusted : ill(k).op = "verify"
  BY VerifierBlocksFair, Zenon
<1>2. /\ Puts(a, "main", good, {}, Verified, "first") /\ Puts(b, "main", good, {}, Verified, "fresh")
      /\ Puts(c, "main", forged, {"signature"}, Refusal, "fresh") /\ Puts(d, "main", fresh_, {}, Verified, "fresh")
      /\ \A k \in untrusted : Puts(e(k), "fresh", ill(k), {k}, Refusal, "fresh")
  BY VerifierBlocksFair, Zenon
<1>3. <<a, b, c>> \in Seq(Fair) /\ <<d>> \in Seq(Fair) /\ Each(order, reused) \in Seq(Fair) /\ Each(order, bad) \in Seq(Fair)
  BY VerifierBlocksFair, Zenon
<1>4. /\ IsFiniteSet(DOMAIN reused) /\ \A k \in DOMAIN reused : reused[k] \in Seq(Fair)
      /\ IsFiniteSet(DOMAIN bad) /\ \A k \in DOMAIN bad : bad[k] \in Seq(Fair)
  BY VerifierBlocksFair, Zenon
<1>5. \A k \in allGrantClaimMutations : k \in Word
  BY VerifierBlocksFair, Zenon
<1> HIDE DEF good, forged, fresh_, ill
<1> HIDE DEF a, b, c, d, e
<1> DEFINE One == <<a, b, c>>
           Two == Each(order, reused)
           Four_ == Each(order, bad)
<1>6. CheckOperationGrantVerifier(order) = ((One \o Two) \o <<d>>) \o Four_
  BY DEF CheckOperationGrantVerifier, a, b, c, d, e, good, forged, fresh_, ill
<1>7. One \in Seq(Fair) /\ Two \in Seq(Fair) /\ Four_ \in Seq(Fair) /\ One \o Two \in Seq(Fair)
      /\ (One \o Two) \o <<d>> \in Seq(Fair)
  <2>1. One \in Seq(Fair) /\ Two \in Seq(Fair) /\ Four_ \in Seq(Fair)
    BY <1>3
  <2> HIDE DEF One, Two, Four_
  <2> QED
    BY <1>3, <2>1
<1> HIDE DEF Two, Four_, One, reused, bad
<1>8. PICK u \in State, v \in State, w \in State :
         /\ Runs(s, Nothing, One, u) /\ Runs(s, u, Two, v) /\ Runs(s, v, <<d>>, w) /\ Runs(s, w, Four_, q)
  <2> DEFINE A == One \o Two
             B == <<d>>
             C == A \o B
  <2>1. A \in Seq(Fair) /\ B \in Seq(Fair) /\ C \in Seq(Fair) /\ Runs(s, Nothing, C \o Four_, q)
    BY <1>3, <1>6, <1>7
  <2> HIDE DEF C
  <2>2. PICK w \in State : Runs(s, Nothing, C, w) /\ Runs(s, w, Four_, q)
    BY <1>7, <2>1, RunsBoth
  <2>3. Runs(s, Nothing, A \o B, w)
    BY <2>2 DEF C
  <2> HIDE DEF A, B
  <2>4. PICK v \in State : Runs(s, Nothing, A, v) /\ Runs(s, v, B, w)
    BY <2>1, <2>3, RunsBoth
  <2>5. PICK u \in State : Runs(s, Nothing, One, u) /\ Runs(s, u, Two, v)
    BY <1>7, <2>4, RunsBoth DEF A
  <2> QED
    BY <2>2, <2>4, <2>5 DEF B
<1>9. Range(s.gates) \subseteq {"authority", "ledger"}
  <2>1. Gates("verifier") = {"authority", "ledger"}
    <3>1. "verifier" \notin LaunchSuites /\ "verifier" \notin EventSuites \cup {"source"}
      BY DEF LaunchSuites, EventSuites
    <3> QED
      BY <3>1, Zenon DEF Gates
  <2> QED
    BY <2>1 DEF Range
<1>10. "authority" \in Range(s.gates) /\ <<"verify", "signature">> \notin s.forgets
  <2>1. PICK x \in State, y \in State : Answers(s, a, Nothing, x) /\ Answers(s, b, x, y) /\ Answers(s, c, y, u)
    BY <1>8, RunsThree DEF One
  <2>2. /\ Takes(s, a, Empty, x[1]) /\ Takes(s, b, x[1], y[1]) /\ Takes(s, c, y[1], u[1])
        /\ x[1] \in Memory /\ y[1] \in Memory
    BY <1>2, <2>1, NothingIs DEF Answers, Puts, Asks, State
  <2>3. /\ \A z \in x[1].ledger : z \in Empty.ledger \/ z = Record(a)
        /\ \A z \in y[1].ledger : z \in x[1].ledger \/ z = Record(b)
    BY <1>2, <2>2, NothingPrior, TakesLedger
  <2>4. Record(a).command = "good" /\ Record(b).command = "good"
    BY <1>1, <1>2, PriorItem
  <2>5. \A z \in y[1].ledger : z.command # "forged"
    BY <2>3, <2>4 DEF Empty
  <2> DEFINE m == y[1]
  <2>6. Prior(s, m, c) = {}
    <3>1. \A z : z \in Prior(s, m, c) => z \in m.ledger /\ z.command = forged.command
      BY <1>2, PriorItem
    <3> QED
      BY <1>1, <2>5, <3>1
  <2> DEFINE off == {"signature"}
  <2>7. m \in Memory /\ Takes(s, c, m, u[1]) /\ Puts(c, "main", forged, off, Refusal, "fresh")
    BY <1>2, <2>2
  <2> HIDE DEF m, off
  <2>8. "authority" \in Range(s.gates) /\ \E z \in off : <<forged.op, z>> \notin s.forgets
    BY <1>9, <2>6, <2>7, RefusedByAuthority
  <2> QED
    BY <1>1, <2>8 DEF off
<1>11. ASSUME NEW k \in allGrantClaimMutations
       PROVE  /\ "ledger" \in Range(s.gates) /\ s.habit \notin {"forgetful", "anyPayload"} /\ k \notin s.overlooks
              /\ k \in untrusted /\ <<"verify", k>> \notin s.forgets => ~Before(s, "authority", "ledger")
  <2>1. PICK x \in State, y \in State : Runs(s, x, reused[k], y)
    <3>1. Runs(s, u, Each(order, reused), v) /\ State \in SUBSET State /\ k \in DOMAIN reused
      BY <1>8 DEF Two, reused
    <3> QED
      BY <1>4, <3>1, EachRuns
  <2>2. Runs(s, x, ReusedTokenID(k), y) /\ k \in Word
    BY <1>5, <2>1 DEF reused
  <2> QED
    BY <2>2, ReusesTell
<1>12. ASSUME NEW k \in untrusted PROVE <<"verify", k>> \notin s.forgets
  <2>1. PICK x \in State, y \in State : Runs(s, x, bad[k], y)
    <3>1. Runs(s, w, Each(order, bad), q) /\ State \in SUBSET State /\ k \in DOMAIN bad
      BY <1>8 DEF Four_, bad
    <3> QED
      BY <1>4, <3>1, EachRuns
  <2> DEFINE f == e(k)
             i == ill(k)
             off == {k}
  <2>2. Answers(s, f, x, y)
    BY <2>1, RunsOne DEF bad
  <2>3. Puts(f, "fresh", i, off, Refusal, "fresh") /\ i.op = "verify"
    BY <1>1, <1>2
  <2> HIDE DEF f, i, off
  <2>4. Takes(s, f, Empty, y[2])
    BY <2>2, <2>3 DEF Answers, Puts, Asks
  <2>5. \E z \in off : <<i.op, z>> \notin s.forgets
    BY <1>9, <2>3, <2>4, NothingPrior, RefusedByAuthority
  <2> QED
    BY <2>3, <2>5 DEF off
<1>13. "issuer" \in untrusted /\ "issuer" \in allGrantClaimMutations
  BY DEF untrusted, allGrantClaimMutations, Envelope
<1> QED
  BY <1>10, <1>11, <1>12, <1>13

-----------------------------------------------------------------------------
\* Known commands: what retries and wrong grants tell.

\* A command that is in the ledger is known, unless a service knows no commands or
\* knows them by their token.
LEMMA KnownCommand ==
  ASSUME NEW s, NEW c, NEW on, NEW item, NEW off, NEW want, NEW token,
         Puts(c, on, item, off, want, token), NEW m, "ledger" \in Range(s.gates),
         s.habit \notin {"forgetful", "byToken"},
         NEW e \in m.ledger, e.command = item.command, e.op = item.op \/ s.habit # "byOperation"
  PROVE  e \in Prior(s, m, c) /\ "ledger" \in Stopping(s, m, c)
<1>1. e \in Prior(s, m, c)
  BY PriorItem
<1> QED
  BY <1>1, StopsItem

\* A refusal and a replay leave the memory of most services as it is.
LEMMA NothingNew ==
  ASSUME NEW s, Ordered(s), NEW c, NEW on, NEW item, NEW off, NEW want, NEW token,
         Puts(c, on, item, off, want, token), NEW m \in Memory, NEW n, Takes(s, c, m, n),
         Reply(s, m, c) \in Refusal \cup {"replayed", "renewed"}
  PROVE  s.habit # "dropsOnRefusal" /\ (s.habit # "recordsRefusals" \/ Prior(s, m, c) # {}) => n = m
<1> DEFINE r == Reply(s, m, c)
<1>1. n = Remembered(s, m, c, r)
  BY DEF Takes
<1> HIDE DEF r
<1>2. /\ r \in {"replayed", "renewed"} => n = m
      /\ r \in Refusal /\ s.habit \notin {"recordsRefusals", "dropsOnRefusal"} => n = m
      /\ r \in Refusal /\ s.habit = "recordsRefusals" /\ Prior(s, m, c) # {} => n = m
  BY <1>1, Remembers
<1>3. r \in Refusal \/ r \in {"replayed", "renewed"}
  BY DEF r
<1> QED
  BY <1>2, <1>3

\* One wrong grant on a known command, and the exact retry.
LEMMA WrongGrantShows ==
  ASSUME NEW s, Ordered(s), NEW item \in Item, item.outside = "nothing", NEW off \in SUBSET Word,
         NEW replayed, replayed \subseteq {"replayed", "accepted"},
         s.habit # "dropsOnRefusal" \/ replayed = {"replayed"},
         "ledger" \in Range(s.gates), s.habit \notin {"forgetful", "byToken"},
         NEW p \in State, NEW e \in p[1].ledger, e.command = item.command, e.op = item.op,
         NEW q \in State,
         Runs(s, p, <<Bad("main", item, off, {"invalidGrant"}), Call("main", item, replayed)>>, q)
  PROVE  /\ q[1] = p[1]
         /\ "authority" \in Range(s.gates) /\ ~Before(s, "ledger", "authority")
         /\ s.habit \notin {"leaks", "dropsOnRefusal"}
         /\ \E d \in off : <<item.op, d>> \notin s.forgets
<1> DEFINE a == Bad("main", item, off, {"invalidGrant"})
           b == Call("main", item, replayed)
           bad == {"invalidGrant"}
<1>1. Puts(a, "main", item, off, bad, "fresh") /\ Puts(b, "main", item, {}, replayed, "fresh")
  <2>1. {"invalidGrant"} \in SUBSET Answer /\ replayed \in SUBSET Answer
    BY DEF Answer, Refusal
  <2> QED
    BY <2>1, CallPuts
<1>2. PICK r \in State : Answers(s, a, p, r) /\ Answers(s, b, r, q)
  BY RunsTwo
<1> HIDE DEF a, b, bad
<1> DEFINE m == p[1]
           n == r[1]
<1>3. Takes(s, a, m, n) /\ Takes(s, b, n, q[1]) /\ m \in Memory /\ n \in Memory
  BY <1>1, <1>2 DEF Answers, Puts, Asks, State
<1> HIDE DEF m, n
<1>4. e \in m.ledger
  BY DEF m
<1>5. e \in Prior(s, m, a) /\ "ledger" \in Stopping(s, m, a)
  BY <1>1, <1>4, KnownCommand
<1>6. Reply(s, m, a) = "invalidGrant"
  BY <1>1, <1>3 DEF Takes, Puts, bad
<1>7. /\ Stopper(s, m, a, "authority") \/ Stopper(s, m, a, "body")
      /\ s.habit # "leaks" \/ Prior(s, m, a) = {}
  BY <1>1, <1>3, <1>6, Taken
<1>8. Stopper(s, m, a, "authority")
  <2>1. Stopper(s, m, a, "body") => item.outside = "body"
    BY <1>1, StopsItem
  <2> QED
    BY <1>7, <2>1
<1>9. "authority" \in Range(s.gates) /\ \E d \in off : <<item.op, d>> \notin s.forgets
  <2>1. "authority" \in Stopping(s, m, a)
    BY <1>8 DEF Stopper
  <2> QED
    BY <1>1, <2>1, StopsItem
<1>10. ~Before(s, "ledger", "authority")
  BY <1>5, <1>8 DEF Stopper
<1>11. s.habit # "dropsOnRefusal"
  <2> SUFFICES ASSUME s.habit = "dropsOnRefusal" PROVE FALSE
    OBVIOUS
  <2>1. "invalidGrant" \in Refusal
    BY DEF Refusal
  <2> DEFINE kept == {x \in m.ledger : x.command # a.command}
  <2>2. n = [m EXCEPT !.ledger = kept]
    BY <1>3, <1>6, <2>1, Remembers DEF Takes
  <2>3. n.ledger = kept
    BY <1>3, <2>2 DEF Memory
  <2>4. a.command = item.command
    BY <1>1 DEF Puts, Asks
  <2>5. \A x : x \notin Prior(s, n, b)
    BY <1>1, <2>3, <2>4, PriorItem
  <2>6. Reply(s, n, b) = "replayed"
    BY <1>1, <1>3 DEF Takes, Puts
  <2>7. \E x \in Prior(s, n, b) : SamePayload(s, x, b)
    BY <1>1, <1>3, <2>6, Taken
  <2> QED
    BY <2>5, <2>7
<1>12. n = m
  <2>1. "invalidGrant" \in Refusal
    BY DEF Refusal
  <2> QED
    BY <1>1, <1>3, <1>5, <1>6, <1>11, <2>1, NothingNew
<1>13. q[1] = n
  <2>1. e \in Prior(s, n, b) /\ "ledger" \in Stopping(s, n, b)
    BY <1>1, <1>4, <1>12, KnownCommand
  <2>2. Reply(s, n, b) \in {"replayed", "accepted"}
    BY <1>1, <1>3 DEF Takes, Puts
  <2>3. Reply(s, n, b) # "accepted"
    <3>1. Reply(s, n, b) = "accepted" => Stopping(s, n, b) = {}
      BY <1>1, <1>3, Taken
    <3> QED
      BY <2>1, <3>1
  <2>4. Reply(s, n, b) \in {"replayed", "renewed"}
    BY <2>2, <2>3
  <2> QED
    BY <1>1, <1>3, <2>4, TakesLedger
<1> QED
  BY <1>5, <1>7, <1>9, <1>10, <1>11, <1>12, <1>13 DEF m

\* The wrong grants tried are sets of words.
LEMMA WrongGrantsAre ==
  ASSUME NEW claims \in SUBSET Word, NEW purpose \in Purpose, NEW foreign \in Purpose
  PROVE  {{c} : c \in claims} \cup CrossPurpose(purpose, foreign) \subseteq SUBSET Word
<1> SUFFICES ASSUME NEW off \in {{c} : c \in claims} \cup CrossPurpose(purpose, foreign)
             PROVE  off \in SUBSET Word
  OBVIOUS
<1>1. CASE off \in {{c} : c \in claims}
  BY <1>1
<1>2. CASE off \in CrossPurpose(purpose, foreign)
  <2>1. {"purpose", "scope"} \subseteq Word
    BY DEF Word, Envelope
  <2>2. Required(purpose) \subseteq Field /\ Required(foreign) \subseteq Field /\ Field \subseteq Word
    BY RequiredFields DEF Word
  <2> QED
    BY <1>2, <2>1, <2>2 DEF CrossPurpose
<1> QED
  BY <1>1, <1>2

\* The blocks of wrong grants are calls that let the suite go on.
LEMMA PopulatedFair ==
  ASSUME NEW order, NEW item \in Item, item.op \in Purpose, NEW claims \in SUBSET Word, IsFiniteSet(claims),
         NEW foreign \in Purpose, NEW replayed \in SUBSET Answer
  PROVE  Populated(order, item, claims, foreign, replayed) \in Seq(Fair)
<1> DEFINE offs == {{c} : c \in claims} \cup CrossPurpose(item.op, foreign)
           block == [off \in offs |->
                       <<Bad("main", item, off, {"invalidGrant"}), Call("main", item, replayed)>>]
<1>1. IsFiniteSet(DOMAIN block)
  BY WrongGrantsFinite
<1>2. ASSUME NEW off \in offs PROVE block[off] \in Seq(Fair)
  <2>1. off \in SUBSET Word /\ {"invalidGrant"} \in SUBSET Answer
    BY WrongGrantsAre DEF Answer, Refusal
  <2>2. Bad("main", item, off, {"invalidGrant"}) \in Fair /\ Call("main", item, replayed) \in Fair
    BY <2>1, CallPuts, PutsFair
  <2> QED
    BY <2>2
<1>3. Populated(order, item, claims, foreign, replayed) = Each(order, block)
  BY DEF Populated
<1>4. \A off \in DOMAIN block : block[off] \in Seq(Fair)
  BY <1>2
<1> HIDE DEF block
<1> QED
  BY <1>1, <1>3, <1>4, EachFair

\* So do wrong grants put to fresh services.
LEMMA RejectionsFair ==
  ASSUME NEW order, NEW item \in Item, NEW claims \in SUBSET Word, IsFiniteSet(claims)
  PROVE  Rejections(order, item, claims) \in Seq(Fair)
<1> DEFINE block == [c \in claims |->
                       <<Bad("fresh", item, {c}, Refusal), Call("same", item, {"accepted"})>>]
<1>1. ASSUME NEW c \in claims PROVE block[c] \in Seq(Fair)
  <2>1. {c} \in SUBSET Word /\ {"accepted"} \in SUBSET Answer /\ Refusal \in SUBSET Answer
    BY DEF Answer
  <2>2. Bad("fresh", item, {c}, Refusal) \in Fair /\ Call("same", item, {"accepted"}) \in Fair
    BY <2>1, CallPuts, PutsFair
  <2> QED
    BY <2>2
<1>2. Rejections(order, item, claims) = Each(order, block)
  BY DEF Rejections
<1>3. IsFiniteSet(DOMAIN block) /\ \A c \in DOMAIN block : block[c] \in Seq(Fair)
  BY <1>1
<1> HIDE DEF block
<1> QED
  BY <1>2, <1>3, EachFair

\* The main service remembers in q what it did in p.
SameMain(p, q) == q[1] = p[1]

\* Wrong grants on a known command tell of the authority gate, and of every claim.
LEMMA PopulatedShows ==
  ASSUME NEW s, Ordered(s), NEW order, NEW item \in Item, item.outside = "nothing", item.op \in Purpose,
         NEW claims \in SUBSET Word, IsFiniteSet(claims), NEW foreign \in Purpose,
         NEW replayed, replayed \subseteq {"replayed", "accepted"},
         s.habit # "dropsOnRefusal" \/ replayed = {"replayed"},
         "ledger" \in Range(s.gates), s.habit \notin {"forgetful", "byToken"},
         NEW p \in State, NEW e \in p[1].ledger, e.command = item.command, e.op = item.op,
         NEW q \in State, Runs(s, p, Populated(order, item, claims, foreign, replayed), q)
  PROVE  /\ SameMain(p, q)
         /\ "authority" \in Range(s.gates) /\ ~Before(s, "ledger", "authority")
         /\ s.habit \notin {"leaks", "dropsOnRefusal"}
         /\ \A c \in claims : <<item.op, c>> \notin s.forgets
<1> DEFINE offs == {{c} : c \in claims} \cup CrossPurpose(item.op, foreign)
           block == [off \in offs |->
                       <<Bad("main", item, off, {"invalidGrant"}), Call("main", item, replayed)>>]
           X == {x \in State : x[1] = p[1]}
<1>1. IsFiniteSet(DOMAIN block) /\ DOMAIN block = offs
  BY WrongGrantsFinite
<1>2. offs \subseteq SUBSET Word
  BY WrongGrantsAre
<1>3. ASSUME NEW off \in offs PROVE block[off] \in Seq(Fair)
  <2>1. off \in SUBSET Word /\ {"invalidGrant"} \in SUBSET Answer /\ replayed \in SUBSET Answer
    BY <1>2 DEF Answer, Refusal
  <2>2. Bad("main", item, off, {"invalidGrant"}) \in Fair /\ Call("main", item, replayed) \in Fair
    BY <2>1, CallPuts, PutsFair
  <2> QED
    BY <2>2
<1>4. ASSUME NEW off \in offs, NEW x \in X, NEW y \in State, Runs(s, x, block[off], y)
      PROVE  /\ y \in X
             /\ "authority" \in Range(s.gates) /\ ~Before(s, "ledger", "authority")
             /\ s.habit \notin {"leaks", "dropsOnRefusal"}
             /\ \E d \in off : <<item.op, d>> \notin s.forgets
  <2>1. Runs(s, x, <<Bad("main", item, off, {"invalidGrant"}), Call("main", item, replayed)>>, y)
    BY <1>4
  <2>2. off \in SUBSET Word /\ x \in State /\ x[1] = p[1] /\ e \in x[1].ledger
    BY <1>2
  <2> HIDE DEF offs, block
  <2>3. /\ y[1] = x[1]
        /\ "authority" \in Range(s.gates) /\ ~Before(s, "ledger", "authority")
        /\ s.habit \notin {"leaks", "dropsOnRefusal"}
        /\ \E d \in off : <<item.op, d>> \notin s.forgets
    BY <2>1, <2>2, WrongGrantShows
  <2> QED
    BY <2>2, <2>3
<1>5. Populated(order, item, claims, foreign, replayed) = Each(order, block)
  BY DEF Populated
<1>6. p \in X /\ X \in SUBSET State
  OBVIOUS
<1> HIDE DEF block
<1>7. /\ \A off \in DOMAIN block : block[off] \in Seq(Fair)
      /\ \A off \in DOMAIN block : \A x \in X, y \in State : Runs(s, x, block[off], y) => y \in X
  BY <1>1, <1>3, <1>4
<1>8. q \in X /\ \A off \in DOMAIN block : \E x \in X, y \in X : Runs(s, x, block[off], y)
  <2> HIDE DEF X
  <2> QED
    BY <1>1, <1>5, <1>6, <1>7, EachRuns
<1>9. ASSUME NEW off \in offs
      PROVE  /\ "authority" \in Range(s.gates) /\ ~Before(s, "ledger", "authority")
             /\ s.habit \notin {"leaks", "dropsOnRefusal"}
             /\ \E d \in off : <<item.op, d>> \notin s.forgets
  <2>1. PICK x \in X, y \in X : Runs(s, x, block[off], y)
    BY <1>1, <1>8
  <2> QED
    BY <1>4, <1>6, <2>1
<1>10. \A c \in claims : {c} \in offs /\ \A d \in {c} : d = c
  OBVIOUS
<1>11. {"purpose", "scope"} \in offs
  BY DEF CrossPurpose
<1>12. SameMain(p, q)
  BY <1>8 DEF SameMain
<1> HIDE DEF offs, X
<1>13. \A c \in claims : <<item.op, c>> \notin s.forgets
  BY <1>9, <1>10
<1> QED
  BY <1>9, <1>11, <1>12, <1>13

\* A refused command that is then accepted was not remembered.
LEMMA RejectionsShow ==
  ASSUME NEW s, Ordered(s), NEW order, NEW item \in Item, NEW claims \in SUBSET Word, IsFiniteSet(claims),
         NEW claim \in claims, "ledger" \in Range(s.gates),
         NEW p \in State, NEW q \in State, Runs(s, p, Rejections(order, item, claims), q)
  PROVE  s.habit # "recordsRefusals"
<1> DEFINE block == [c \in claims |->
                       <<Bad("fresh", item, {c}, Refusal), Call("same", item, {"accepted"})>>]
           a == Bad("fresh", item, {claim}, Refusal)
           b == Call("same", item, {"accepted"})
           off == {claim}
<1>1. ASSUME NEW c \in claims PROVE block[c] \in Seq(Fair)
  <2>1. {c} \in SUBSET Word /\ {"accepted"} \in SUBSET Answer /\ Refusal \in SUBSET Answer
    BY DEF Answer
  <2>2. Bad("fresh", item, {c}, Refusal) \in Fair /\ Call("same", item, {"accepted"}) \in Fair
    BY <2>1, CallPuts, PutsFair
  <2> QED
    BY <2>2
<1>2. Rejections(order, item, claims) = Each(order, block)
  BY DEF Rejections
<1>3. IsFiniteSet(DOMAIN block) /\ \A c \in DOMAIN block : block[c] \in Seq(Fair)
  BY <1>1
<1>4. block[claim] = <<a, b>> /\ claim \in DOMAIN block /\ State \in SUBSET State
  OBVIOUS
<1>5. Puts(a, "fresh", item, off, Refusal, "fresh") /\ Puts(b, "same", item, {}, {"accepted"}, "fresh")
  <2>1. {claim} \in SUBSET Word /\ {"accepted"} \in SUBSET Answer /\ Refusal \in SUBSET Answer
    BY DEF Answer
  <2> QED
    BY <2>1, CallPuts
<1> HIDE DEF block, a, b, off
<1>6. PICK x \in State, y \in State : Runs(s, x, <<a, b>>, y)
  <2>1. \E x \in State, y \in State : Runs(s, x, block[claim], y)
    BY <1>2, <1>3, <1>4, EachRuns
  <2> QED
    BY <1>4, <2>1
<1>7. PICK r \in State : Answers(s, a, x, r) /\ Answers(s, b, r, y)
  BY <1>6, RunsTwo
<1> DEFINE m == r[2]
<1>8. Takes(s, a, Empty, m) /\ Takes(s, b, m, y[2]) /\ m \in Memory
  BY <1>5, <1>7 DEF Answers, Puts, Asks, State
<1> HIDE DEF m
<1> SUFFICES ASSUME s.habit = "recordsRefusals" PROVE FALSE
  OBVIOUS
<1>9. Record(a) \in m.ledger
  <2>1. Reply(s, Empty, a) \in Refusal /\ Prior(s, Empty, a) = {}
    BY <1>5, <1>8, NothingPrior DEF Takes, Puts
  <2>2. m = [Empty EXCEPT !.ledger = @ \cup {Record(a)}]
    BY <1>8, <2>1, Remembers DEF Takes
  <2> QED
    BY <2>2 DEF Empty
<1>10. Record(a).command = item.command
  BY <1>5, PriorItem
<1>11. "ledger" \in Stopping(s, m, b)
  BY <1>5, <1>9, <1>10, KnownCommand
<1>12. Reply(s, m, b) = "accepted"
  BY <1>5, <1>8 DEF Takes, Puts
<1>13. Stopping(s, m, b) = {}
  BY <1>5, <1>8, <1>12, Taken
<1> QED
  BY <1>11, <1>13

\* A command accepted under one token and replayed under another.
LEMMA RetryTells ==
  ASSUME NEW s, Ordered(s), NEW a, NEW c, NEW on, NEW at, NEW item, NEW want,
         Puts(a, on, item, {}, want, "first"), Puts(c, at, item, {}, {"replayed"}, "fresh"),
         NEW m \in Memory, \A x \in m.ledger : x.command # item.command \/ s.habit # "byToken",
         NEW n, Takes(s, a, m, n), Reply(s, m, a) = "accepted",
         NEW o, Takes(s, c, n, o)
  PROVE  /\ "ledger" \in Range(s.gates) /\ s.habit \notin {"forgetful", "byToken", "renews"}
         /\ o = n /\ n \in Memory /\ Stopper(s, n, c, "ledger")
         /\ Record(a) \in n.ledger /\ Record(a).command = item.command /\ Record(a).op = item.op
         /\ Record(a).body = item.body
<1>1. n \in Memory /\ Record(a) \in n.ledger /\ \A x \in n.ledger : x \in m.ledger \/ x = Record(a)
  BY TakesLedger
<1>2. Reply(s, n, c) = "replayed"
  BY DEF Takes, Puts
<1>3. s.habit # "renews" /\ Stopper(s, n, c, "ledger") /\ \E x \in Prior(s, n, c) : SamePayload(s, x, c)
  BY <1>2, Taken
<1>4. o = n
  BY <1>1, <1>2, TakesLedger
<1>5. "ledger" \in Range(s.gates)
  BY <1>3, StopsItem
<1>6. /\ Record(a).command = item.command /\ Record(a).op = item.op
      /\ Record(a).body = item.body /\ Record(a).token = "first"
  BY PriorItem
<1>7. PICK x : x \in Prior(s, n, c)
  BY <1>3
<1>8. x \in n.ledger /\ x.command = item.command /\ s.habit # "forgetful" /\ (s.habit = "byToken" => x.token = "fresh")
  BY <1>7, PriorItem
<1>9. s.habit # "byToken"
  BY <1>1, <1>6, <1>8
<1> QED
  BY <1>1, <1>3, <1>4, <1>5, <1>6, <1>8, <1>9

\* The right grant passes the authority gate.
LEMMA GrantPasses ==
  ASSUME NEW s, NEW c, NEW on, NEW item, NEW want, NEW token, Puts(c, on, item, {}, want, token), NEW m
  PROVE  "authority" \notin Stopping(s, m, c) /\ ~Stopper(s, m, c, "authority")
<1> DEFINE off == {}
<1>1. Puts(c, on, item, off, want, token) /\ \A d : d \notin off
  OBVIOUS
<1> HIDE DEF off
<1> QED
  BY <1>1, StopsItem

\* A known command is refused for its body only by a gate before the ledger.
LEMMA UnfitTells ==
  ASSUME NEW s, Ordered(s), NEW c, NEW on, NEW item, NEW want, NEW token,
         Puts(c, on, item, {}, want, token), NEW m, NEW n, Takes(s, c, m, n),
         Reply(s, m, c) \in {"invalidGrant", "leaked"}, "ledger" \in Stopping(s, m, c)
  PROVE  "body" \in Range(s.gates) /\ ~Before(s, "ledger", "body")
<1>1. Stopper(s, m, c, "authority") \/ Stopper(s, m, c, "body")
  BY Taken
<1>2. Stopper(s, m, c, "body")
  BY <1>1, GrantPasses
<1>3. "body" \in Stopping(s, m, c) /\ ~Before(s, "ledger", "body")
  BY <1>2 DEF Stopper
<1> QED
  BY <1>3 DEF Stopping

\* A command that is known under another payload is a conflict only to a ledger
\* that comes before the gates it would not pass, and that sees the difference.
LEMMA ConflictTells ==
  ASSUME NEW s, Ordered(s), NEW c, NEW on, NEW item, NEW off, NEW token,
         Puts(c, on, item, off, {"commandConflict"}, token), NEW m, NEW n, Takes(s, c, m, n)
  PROVE  /\ Stopper(s, m, c, "ledger") /\ "ledger" \in Range(s.gates) /\ s.habit \notin {"forgetful", "anyPayload"}
         /\ \E x \in m.ledger : /\ x.command = item.command /\ (s.habit = "byOperation" => x.op = item.op)
                                /\ x.op = item.op => x.body \ s.overlooks # item.body \ s.overlooks
<1>1. Reply(s, m, c) = "commandConflict"
  BY DEF Takes, Puts
<1>2. Stopper(s, m, c, "ledger") /\ \A x \in Prior(s, m, c) : ~SamePayload(s, x, c)
  BY <1>1, Taken
<1>3. "ledger" \in Range(s.gates) /\ Prior(s, m, c) # {}
  BY <1>2, StopsItem
<1>4. PICK x : x \in Prior(s, m, c)
  BY <1>3
<1>5. /\ x \in m.ledger /\ x.command = item.command /\ s.habit # "forgetful"
      /\ s.habit = "byOperation" => x.op = item.op
  BY <1>4, PriorItem
<1>6. ~SamePayload(s, x, c)
  BY <1>2, <1>4
<1>7. s.habit # "anyPayload" /\ (x.op = item.op => x.body \ s.overlooks # item.body \ s.overlooks)
  BY <1>6, PriorItem
<1> QED
  BY <1>2, <1>3, <1>5, <1>7

-----------------------------------------------------------------------------
\* The launch suites, passed.

\* A changed launch is three calls that let the suite go on.
LEMMA ChangedLaunchFair ==
  ASSUME NEW profile, NEW part \in requestPayloadMutations(profile)
  PROVE  ChangedLaunch(part) \in Seq(Fair)
<1> DEFINE other == LaunchItem("launch", {part})
           right == IF part \in {"providerID", "adapterID"} THEN {"invalidGrant", "leaked"} ELSE {"commandConflict"}
<1>1. other \in Item /\ right \in SUBSET Answer /\ {"replayed"} \in SUBSET Answer
  <2>1. "launch" \in Word /\ {part} \in SUBSET Word
    BY LaunchPartsFinite DEF Word
  <2> QED
    BY <2>1, LaunchItems DEF Answer, Refusal
<1> HIDE DEF other, right
<1>2. /\ Setup("fresh", Launch) \in Fair /\ Call("same", other, right) \in Fair
      /\ Call("same", Launch, {"replayed"}) \in Fair
  BY <1>1, LaunchIs, SetupPuts, CallPuts, PutsFair
<1> QED
  BY <1>2 DEF ChangedLaunch, other, right

\* A known launch with one part changed tells whether the service looks at that part.
LEMMA ChangedLaunchShows ==
  ASSUME NEW s, Ordered(s), "ledger" \in Range(s.gates), s.habit \notin {"forgetful", "byToken"},
         NEW profile, NEW part \in requestPayloadMutations(profile),
         NEW p \in State, NEW q \in State, Runs(s, p, ChangedLaunch(part), q)
  PROVE  /\ part \in {"providerID", "adapterID"} =>
              "body" \in Range(s.gates) /\ ~Before(s, "ledger", "body")
         /\ part \notin {"providerID", "adapterID"} => part \notin s.overlooks /\ s.habit # "anyPayload"
         /\ part = "gameID" => ~Before(s, "policy", "ledger")
<1> DEFINE other == LaunchItem("launch", {part})
           right == IF part \in {"providerID", "adapterID"} THEN {"invalidGrant", "leaked"} ELSE {"commandConflict"}
           a == Setup("fresh", Launch)
           b == Call("same", other, right)
           c == Call("same", Launch, {"replayed"})
<1>1. part \in Word /\ "launch" \in Word
  BY LaunchPartsFinite DEF Word
<1>2. /\ other \in Item /\ other.op = "contest-launch" /\ other.command = "launch" /\ other.body = {part}
      /\ part = "gameID" => other.outside = "policy"
  <2>1. {part} \in SUBSET Word
    BY <1>1
  <2>2. part = "gameID" => {part} \cap {"providerID", "adapterID"} = {} /\ {part} \cap {"gameID", "slotCount"} # {}
    OBVIOUS
  <2> QED
    BY <1>1, <2>1, <2>2, LaunchItems
<1>3. /\ Puts(a, "fresh", Launch, {}, {"accepted"}, "fresh") /\ Puts(b, "same", other, {}, right, "fresh")
  <2>1. right \in SUBSET Answer
    BY DEF Answer, Refusal
  <2> HIDE DEF other, right
  <2> QED
    BY <1>2, <2>1, LaunchIs, SetupPuts, CallPuts
<1>4. ChangedLaunch(part) = <<a, b, c>>
  BY DEF ChangedLaunch
<1> HIDE DEF a, b, c, other
<1>5. PICK r \in State, t \in State : Answers(s, a, p, r) /\ Answers(s, b, r, t)
  BY <1>4, RunsThree
<1> DEFINE m == r[2]
<1>6. Takes(s, a, Empty, m) /\ Takes(s, b, m, t[2]) /\ m \in Memory
  BY <1>3, <1>5 DEF Answers, Puts, Asks, State
<1> HIDE DEF m
<1>7. /\ Record(a) \in m.ledger /\ Record(a).command = "launch" /\ Record(a).op = "contest-launch"
      /\ \A x \in m.ledger : x = Record(a)
      /\ Record(a).body = {}
  <2>1. Reply(s, Empty, a) = "accepted"
    BY <1>3, <1>6 DEF Takes, Puts
  <2>2. Record(a) \in m.ledger /\ \A x \in m.ledger : x \in Empty.ledger \/ x = Record(a)
    BY <1>3, <1>6, <2>1, NothingPrior, TakesLedger
  <2> QED
    BY <1>3, <2>2, LaunchIs, PriorItem DEF Empty
<1>8. "ledger" \in Stopping(s, m, b)
  BY <1>2, <1>3, <1>7, KnownCommand
<1>9. CASE part \in {"providerID", "adapterID"}
  <2>1. Reply(s, m, b) \in {"invalidGrant", "leaked"}
    <3>1. right = {"invalidGrant", "leaked"}
      BY <1>9
    <3> QED
      BY <1>3, <1>6, <3>1 DEF Takes, Puts
  <2> HIDE DEF right
  <2>5. "body" \in Range(s.gates) /\ ~Before(s, "ledger", "body")
    BY <1>3, <1>6, <1>8, <2>1, UnfitTells
  <2> QED
    BY <1>9, <2>5
<1>10. CASE part \notin {"providerID", "adapterID"}
  <2>1. Puts(b, "same", other, {}, {"commandConflict"}, "fresh")
    BY <1>3, <1>10
  <2>2. Stopper(s, m, b, "ledger") /\ s.habit # "anyPayload"
    BY <1>6, <2>1, ConflictTells
  <2>3. part \notin s.overlooks
    <3>1. PICK x \in m.ledger : x.op = other.op => x.body \ s.overlooks # other.body \ s.overlooks
      BY <1>6, <2>1, ConflictTells
    <3>2. x.op = other.op /\ x.body = {}
      BY <1>2, <1>7, <3>1
    <3> QED
      BY <1>2, <3>1, <3>2
  <2>4. part = "gameID" => ~Before(s, "policy", "ledger")
    <3>1. CASE "policy" \in Range(s.gates)
      <4>1. part = "gameID" => "policy" \in Stopping(s, m, b)
        BY <1>2, <2>1, <3>1, StopsItem
      <4> QED
        BY <2>2, <4>1 DEF Stopper
    <3>2. CASE "policy" \notin Range(s.gates)
      BY <3>2 DEF Before, Range
    <3> QED
      BY <3>1, <3>2
  <2> QED
    BY <1>10, <2>2, <2>3, <2>4
<1> QED
  BY <1>9, <1>10

\* The launch suite is calls that let it go on.
LEMMA LaunchBlocksFair ==
  ASSUME NEW profile, NEW order
  PROVE  LET changed == [part \in requestPayloadMutations(profile) |-> ChangedLaunch(part)]
         IN  /\ <<First(Launch), [Call("main", Launch, {"replayed"}) EXCEPT !.token = "first"],
                  Call("main", Launch, {"replayed"})>> \in Seq(Fair)
             /\ Populated(order, Launch, invalidLaunchGrantMutations, "contest-started-event", {"replayed"}) \in Seq(Fair)
             /\ IsFiniteSet(DOMAIN changed) /\ \A part \in DOMAIN changed : changed[part] \in Seq(Fair)
             /\ Each(order, changed) \in Seq(Fair)
             /\ <<Call("main", LaunchItem("independent", {"id"}), {"accepted"})>> \in Seq(Fair)
             /\ Rejections(order, Launch, invalidLaunchGrantMutations) \in Seq(Fair)
<1> DEFINE changed == [part \in requestPayloadMutations(profile) |-> ChangedLaunch(part)]
<1>1. {"replayed"} \in SUBSET Answer /\ {"accepted"} \in SUBSET Answer
  BY DEF Answer
<1>2. Launch.op \in Purpose /\ "contest-started-event" \in Purpose
  BY LaunchIs DEF Purpose
<1>3. /\ First(Launch) \in Fair /\ [Call("main", Launch, {"replayed"}) EXCEPT !.token = "first"] \in Fair
      /\ Call("main", Launch, {"replayed"}) \in Fair
  BY <1>1, LaunchIs, FirstPuts, CallPuts, PutsFair
<1>4. <<First(Launch), [Call("main", Launch, {"replayed"}) EXCEPT !.token = "first"],
        Call("main", Launch, {"replayed"})>> \in Seq(Fair)
  BY <1>3
<1>5. Populated(order, Launch, invalidLaunchGrantMutations, "contest-started-event", {"replayed"}) \in Seq(Fair)
  BY <1>1, <1>2, LaunchIs, LaunchClaims, PopulatedFair
<1>6. IsFiniteSet(DOMAIN changed) /\ \A part \in DOMAIN changed : changed[part] \in Seq(Fair)
  BY LaunchPartsFinite, ChangedLaunchFair
<1>7. <<Call("main", LaunchItem("independent", {"id"}), {"accepted"})>> \in Seq(Fair)
  <2>1. "independent" \in Word /\ {"id"} \in SUBSET Word
    BY DEF Word, RequestParts
  <2>2. LaunchItem("independent", {"id"}) \in Item
    BY <2>1, LaunchItems
  <2>3. Call("main", LaunchItem("independent", {"id"}), {"accepted"}) \in Fair
    BY <1>1, <2>2, CallPuts, PutsFair
  <2> QED
    BY <2>3
<1>8. Rejections(order, Launch, invalidLaunchGrantMutations) \in Seq(Fair)
  BY LaunchIs, LaunchClaims, RejectionsFair
<1> HIDE DEF changed
<1>9. Each(order, changed) \in Seq(Fair)
  BY <1>6, EachFair
<1> QED
  BY <1>4, <1>5, <1>6, <1>7, <1>8, <1>9 DEF changed

\* A provider that passes its suite.
LEMMA LaunchTells ==
  ASSUME NEW s, Ordered(s), NEW profile, NEW order, NEW q \in State,
         Runs(s, Nothing, CheckExecutionProvider(profile, order), q)
  PROVE  /\ {"authority", "body", "ledger"} \subseteq Range(s.gates)
         /\ ~Before(s, "ledger", "authority") /\ ~Before(s, "ledger", "body") /\ ~Before(s, "policy", "ledger")
         /\ s.habit \notin {"forgetful", "byToken", "renews", "leaks", "dropsOnRefusal", "anyPayload",
                            "recordsRefusals"}
         /\ \A c \in invalidLaunchGrantMutations : <<"contest-launch", c>> \notin s.forgets
         /\ \A part \in LaunchDigested(profile) \ {"displayName"} : part \notin s.overlooks
<1> DEFINE a == First(Launch)
           b == [Call("main", Launch, {"replayed"}) EXCEPT !.token = "first"]
           c == Call("main", Launch, {"replayed"})
           changed == [part \in requestPayloadMutations(profile) |-> ChangedLaunch(part)]
           One == <<a, b, c>>
           Two == Populated(order, Launch, invalidLaunchGrantMutations, "contest-started-event", {"replayed"})
           Three == Each(order, changed)
           Alone == <<Call("main", LaunchItem("independent", {"id"}), {"accepted"})>>
           Last_ == Rejections(order, Launch, invalidLaunchGrantMutations)
<1>1. CheckExecutionProvider(profile, order) = (((One \o Two) \o Three) \o Alone) \o Last_
  BY DEF CheckExecutionProvider
<1>2. /\ One \in Seq(Fair) /\ Two \in Seq(Fair) /\ Three \in Seq(Fair) /\ Alone \in Seq(Fair) /\ Last_ \in Seq(Fair)
      /\ IsFiniteSet(DOMAIN changed) /\ \A part \in DOMAIN changed : changed[part] \in Seq(Fair)
  BY LaunchBlocksFair
<1>3. /\ Puts(a, "main", Launch, {}, {"accepted"}, "first") /\ Puts(b, "main", Launch, {}, {"replayed"}, "first")
      /\ Puts(c, "main", Launch, {}, {"replayed"}, "fresh")
  <2>1. {"replayed"} \in SUBSET Answer
    BY DEF Answer
  <2> QED
    BY <2>1, LaunchIs, FirstPuts, CallPuts
<1> HIDE DEF One, Two, Three, Alone, Last_, changed
<1>4. PICK u \in State, v \in State, w \in State, x \in State :
         /\ Runs(s, Nothing, One, u) /\ Runs(s, u, Two, v) /\ Runs(s, v, Three, w)
         /\ Runs(s, w, Alone, x) /\ Runs(s, x, Last_, q)
  <2> DEFINE A == One \o Two
             B == A \o Three
             C == B \o Alone
  <2>1. A \in Seq(Fair) /\ B \in Seq(Fair) /\ C \in Seq(Fair) /\ Runs(s, Nothing, C \o Last_, q)
    BY <1>1, <1>2
  <2> HIDE DEF C
  <2>2. PICK x \in State : Runs(s, Nothing, C, x) /\ Runs(s, x, Last_, q)
    BY <1>2, <2>1, RunsBoth
  <2>3. Runs(s, Nothing, B \o Alone, x)
    BY <2>2 DEF C
  <2> HIDE DEF B
  <2>4. PICK w \in State : Runs(s, Nothing, B, w) /\ Runs(s, w, Alone, x)
    BY <1>2, <2>1, <2>3, RunsBoth
  <2>5. Runs(s, Nothing, A \o Three, w)
    BY <2>4 DEF B
  <2> HIDE DEF A
  <2>6. PICK v \in State : Runs(s, Nothing, A, v) /\ Runs(s, v, Three, w)
    BY <1>2, <2>1, <2>5, RunsBoth
  <2>7. PICK u \in State : Runs(s, Nothing, One, u) /\ Runs(s, u, Two, v)
    BY <1>2, <2>6, RunsBoth DEF A
  <2> QED
    BY <2>2, <2>4, <2>6, <2>7
<1> HIDE DEF a, b, c
<1>5. /\ "ledger" \in Range(s.gates) /\ s.habit \notin {"forgetful", "byToken", "renews"}
      /\ \E e \in u[1].ledger : e.command = "launch" /\ e.op = "contest-launch"
  <2>1. PICK i \in State, j \in State : Answers(s, a, Nothing, i) /\ Answers(s, b, i, j) /\ Answers(s, c, j, u)
    BY <1>4, RunsThree DEF One
  <2> DEFINE m == i[1]
             n == j[1]
  <2>2. Takes(s, a, Empty, m) /\ Takes(s, b, m, n) /\ Takes(s, c, n, u[1]) /\ m \in Memory
    BY <1>3, <2>1, NothingIs DEF Answers, Puts, Asks, State
  <2> HIDE DEF m, n
  <2>3. Reply(s, Empty, a) = "accepted" /\ Reply(s, m, b) = "replayed"
    BY <1>3, <2>2 DEF Takes, Puts
  <2>4. n = m
    BY <1>3, <2>2, <2>3, TakesLedger
  <2>5. \A x_ \in Empty.ledger : x_.command # Launch.command \/ s.habit # "byToken"
    BY DEF Empty
  <2>6. /\ "ledger" \in Range(s.gates) /\ s.habit \notin {"forgetful", "byToken", "renews"} /\ u[1] = m
        /\ Record(a) \in m.ledger /\ Record(a).command = Launch.command /\ Record(a).op = Launch.op
    BY <1>3, <2>2, <2>3, <2>4, <2>5, NothingPrior, RetryTells
  <2> QED
    BY <2>6, LaunchIs
<1>6. /\ "authority" \in Range(s.gates) /\ ~Before(s, "ledger", "authority")
      /\ s.habit \notin {"leaks", "dropsOnRefusal"}
      /\ \A d \in invalidLaunchGrantMutations : <<"contest-launch", d>> \notin s.forgets
  <2>1. PICK e \in u[1].ledger : e.command = Launch.command /\ e.op = Launch.op
    BY <1>5, LaunchIs
  <2> DEFINE replayed == {"replayed"}
             claims == invalidLaunchGrantMutations
  <2>2. /\ Launch \in Item /\ Launch.outside = "nothing" /\ Launch.op \in Purpose /\ claims \in SUBSET Word
        /\ IsFiniteSet(claims) /\ "contest-started-event" \in Purpose
        /\ replayed \subseteq {"replayed", "accepted"} /\ replayed = {"replayed"}
        /\ Runs(s, u, Populated(order, Launch, claims, "contest-started-event", replayed), v)
    BY <1>4, LaunchIs, LaunchClaims DEF Purpose, Two
  <2> HIDE DEF replayed, claims
  <2>3. /\ "authority" \in Range(s.gates) /\ ~Before(s, "ledger", "authority")
        /\ s.habit \notin {"leaks", "dropsOnRefusal"}
        /\ \A d \in claims : <<Launch.op, d>> \notin s.forgets
    BY <1>5, <2>1, <2>2, PopulatedShows
  <2> QED
    BY <2>3, LaunchIs DEF claims
<1>7. ASSUME NEW part \in requestPayloadMutations(profile)
      PROVE  /\ part \in {"providerID", "adapterID"} =>
                  "body" \in Range(s.gates) /\ ~Before(s, "ledger", "body")
             /\ part \notin {"providerID", "adapterID"} => part \notin s.overlooks /\ s.habit # "anyPayload"
             /\ part = "gameID" => ~Before(s, "policy", "ledger")
  <2>1. \E i \in State, j \in State : Runs(s, i, changed[part], j)
    <3>1. part \in DOMAIN changed /\ State \in SUBSET State
      BY DEF changed
    <3>2. Runs(s, v, Each(order, changed), w)
      BY <1>4 DEF Three
    <3> QED
      BY <1>2, <3>1, <3>2, EachRuns
  <2>2. changed[part] = ChangedLaunch(part)
    BY DEF changed
  <2>3. PICK i \in State, j \in State : Runs(s, i, ChangedLaunch(part), j)
    BY <2>1, <2>2
  <2> QED
    BY <1>5, <2>3, ChangedLaunchShows
<1>8. s.habit # "recordsRefusals"
  <2>1. "issuer" \in invalidLaunchGrantMutations
    BY DEF invalidLaunchGrantMutations, Envelope
  <2>2. Runs(s, x, Rejections(order, Launch, invalidLaunchGrantMutations), q)
    BY <1>4 DEF Last_
  <2> QED
    BY <1>5, <2>1, <2>2, LaunchIs, LaunchClaims, RejectionsShow
<1>9. "providerID" \in requestPayloadMutations(profile) /\ "gameID" \in requestPayloadMutations(profile)
  BY DEF requestPayloadMutations, RequestParts
<1>10. \A part \in LaunchDigested(profile) \ {"displayName"} :
          part \in requestPayloadMutations(profile) /\ part \notin {"providerID", "adapterID"}
  BY DEF LaunchDigested, requestPayloadMutations
<1>11. /\ "body" \in Range(s.gates) /\ ~Before(s, "ledger", "body")
  BY <1>7, <1>9
<1>12. ~Before(s, "policy", "ledger") /\ s.habit # "anyPayload"
  BY <1>7, <1>9
<1>13. \A part \in LaunchDigested(profile) \ {"displayName"} : part \notin s.overlooks
  BY <1>7, <1>10
<1> QED
  BY <1>5, <1>6, <1>8, <1>11, <1>12, <1>13

\* The policy suite is calls that let it go on.
LEMMA PolicyFair ==
  ASSUME NEW order
  PROVE  LET games == {"gameID", "adapterID", "slotCount"}
             block == [part \in games |-> <<Call("fresh", LaunchItem(part, {"id", part}), Refusal \ {"leaked"}),
                                            Call("same", Launch, {"accepted"})>>]
         IN  /\ \A part \in games : part \in Word /\ LaunchItem(part, {"id", part}) \in Item
             /\ IsFiniteSet(DOMAIN block) /\ \A part \in DOMAIN block : block[part] \in Seq(Fair)
             /\ Each(order, block) \in Seq(Fair)
             /\ <<Bad("fresh", Launch, {"purpose", "scope"}, Refusal \ {"leaked"}),
                  Call("same", Launch, {"accepted"})>> \in Seq(Fair)
<1> DEFINE games == {"gameID", "adapterID", "slotCount"}
           block == [part \in games |-> <<Call("fresh", LaunchItem(part, {"id", part}), Refusal \ {"leaked"}),
                                          Call("same", Launch, {"accepted"})>>]
<1>1. Refusal \ {"leaked"} \in SUBSET Answer /\ {"accepted"} \in SUBSET Answer
  BY DEF Answer
<1>2. \A part \in games : part \in Word /\ LaunchItem(part, {"id", part}) \in Item
  <2>1. games \subseteq Word /\ "id" \in Word
    BY DEF Word, RequestParts
  <2>2. \A part \in games : {"id", part} \in SUBSET Word
    BY <2>1
  <2> QED
    BY <2>1, <2>2, LaunchItems
<1>3. \A part \in DOMAIN block : block[part] \in Seq(Fair)
  <2>1. \A part \in games : Call("fresh", LaunchItem(part, {"id", part}), Refusal \ {"leaked"}) \in Fair
    BY <1>1, <1>2, CallPuts, PutsFair
  <2>2. Call("same", Launch, {"accepted"}) \in Fair
    BY <1>1, LaunchIs, CallPuts, PutsFair
  <2>3. \A x, y \in Fair : <<x, y>> \in Seq(Fair)
    OBVIOUS
  <2>4. \A part \in games : block[part] = <<Call("fresh", LaunchItem(part, {"id", part}), Refusal \ {"leaked"}),
                                          Call("same", Launch, {"accepted"})>>
    OBVIOUS
  <2>5. DOMAIN block = games
    OBVIOUS
  <2> HIDE DEF block, games
  <2> QED
    BY <2>1, <2>2, <2>3, <2>4, <2>5
<1>4. IsFiniteSet(DOMAIN block)
  <2>1. games = {"gameID", "adapterID", "slotCount", "slotCount"}
    OBVIOUS
  <2> QED
    BY <2>1, FewFinite
<1>5. <<Bad("fresh", Launch, {"purpose", "scope"}, Refusal \ {"leaked"}),
        Call("same", Launch, {"accepted"})>> \in Seq(Fair)
  <2>1. {"purpose", "scope"} \in SUBSET Word
    BY DEF Word, Envelope
  <2>2. /\ Bad("fresh", Launch, {"purpose", "scope"}, Refusal \ {"leaked"}) \in Fair
        /\ Call("same", Launch, {"accepted"}) \in Fair
    BY <1>1, <2>1, LaunchIs, CallPuts, PutsFair
  <2> QED
    BY <2>2
<1> HIDE DEF block
<1>6. Each(order, block) \in Seq(Fair)
  BY <1>3, <1>4, EachFair
<1> QED
  BY <1>2, <1>3, <1>4, <1>5, <1>6 DEF block

\* An adapter that refuses a game that is not its own has a policy.
LEMMA PolicyTells ==
  ASSUME NEW s, s.gates \in Seq({"authority", "body", "ledger", "policy"}), Ordered(s), NEW order,
         NEW p \in State, NEW q \in State, Runs(s, p, CheckParticipantScheduledProviderPolicy(order), q)
  PROVE  "policy" \in Range(s.gates)
<1> DEFINE games == {"gameID", "adapterID", "slotCount"}
           block == [part \in games |-> <<Call("fresh", LaunchItem(part, {"id", part}), Refusal \ {"leaked"}),
                                          Call("same", Launch, {"accepted"})>>]
           One == Each(order, block)
           Two == <<Bad("fresh", Launch, {"purpose", "scope"}, Refusal \ {"leaked"}),
                    Call("same", Launch, {"accepted"})>>
           item == LaunchItem("gameID", {"id", "gameID"})
           want == Refusal \ {"leaked"}
           a == Call("fresh", item, want)
           b == Call("same", Launch, {"accepted"})
<1>1. CheckParticipantScheduledProviderPolicy(order) = One \o Two
  BY DEF CheckParticipantScheduledProviderPolicy
<1>2. /\ IsFiniteSet(DOMAIN block) /\ \A part \in DOMAIN block : block[part] \in Seq(Fair)
      /\ One \in Seq(Fair) /\ Two \in Seq(Fair) /\ item \in Item
  BY PolicyFair
<1>3. item.outside = "policy"
  <2>1. "gameID" \in Word /\ {"id", "gameID"} \in SUBSET Word
    BY DEF Word, RequestParts
  <2>2. {"id", "gameID"} \cap {"providerID", "adapterID"} = {} /\ {"id", "gameID"} \cap {"gameID", "slotCount"} # {}
    OBVIOUS
  <2> QED
    BY <2>1, <2>2, LaunchItems
<1>4. block["gameID"] = <<a, b>> /\ "gameID" \in DOMAIN block
  OBVIOUS
<1> HIDE DEF item
<1>5. Puts(a, "fresh", item, {}, want, "fresh")
  <2>1. want \in SUBSET Answer
    BY DEF Answer
  <2> HIDE DEF want
  <2> QED
    BY <1>2, <2>1, CallPuts
<1> HIDE DEF a, b, Two, block
<1>6. PICK u \in State : Runs(s, p, Each(order, block), u)
  <2> HIDE DEF One
  <2>1. \E u \in State : Runs(s, p, One, u)
    BY <1>1, <1>2, RunsBoth
  <2> QED
    BY <2>1 DEF One
<1>7. PICK x \in State, y \in State : Runs(s, x, <<a, b>>, y)
  <2>1. State \in SUBSET State
    OBVIOUS
  <2>2. \E x \in State, y \in State : Runs(s, x, block["gameID"], y)
    BY <1>2, <1>4, <1>6, <2>1, EachRuns
  <2> QED
    BY <1>4, <2>2
<1>8. PICK r \in State : Answers(s, a, x, r)
  BY <1>7, RunsTwo
<1>9. Takes(s, a, Empty, r[2])
  BY <1>5, <1>8 DEF Answers, Puts, Asks
<1>10. PICK g \in Gate : Stopper(s, Empty, a, g)
  <2>1. \A r_ \in want : r_ \in Refusal
    OBVIOUS
  <2> HIDE DEF want
  <2> QED
    BY <1>5, <1>9, <2>1, Taken
<1>11. g \in Stopping(s, Empty, a) /\ g \in {"authority", "body", "ledger", "policy"}
  BY <1>10 DEF Stopper, Stopping, Range
<1>12. "authority" \notin Stopping(s, Empty, a) /\ "ledger" \notin Stopping(s, Empty, a)
  <2> HIDE DEF want
  <2> QED
    BY <1>5, GrantPasses, NothingPrior
<1>13. "body" \notin Stopping(s, Empty, a)
  <2> HIDE DEF want
  <2>1. "body" \in Stopping(s, Empty, a) => item.outside = "body"
    BY <1>5, StopsItem
  <2> QED
    BY <1>3, <2>1
<1>14. "policy" \in Stopping(s, Empty, a)
  BY <1>11, <1>12, <1>13
<1> QED
  BY <1>14 DEF Stopping

-----------------------------------------------------------------------------
\* The event suites, passed.

\* The calls of an event suite about its start and its result.
LEMMA EventPuts ==
  ASSUME NEW on \in {"main", "fresh", "same"}, NEW item \in {Start, Result}
  PROVE  /\ Puts(Call(on, item, {"accepted"}), on, item, {}, {"accepted"}, "fresh")
         /\ Puts(Call(on, item, {"replayed"}), on, item, {}, {"replayed"}, "fresh")
         /\ Puts([Call(on, item, {"replayed"}) EXCEPT !.token = "first"], on, item, {}, {"replayed"}, "first")
         /\ Puts(Call(on, item, {"invalidTransition"}), on, item, {}, {"invalidTransition"}, "fresh")
         /\ Puts(Setup(on, item), on, item, {}, {"accepted"}, "fresh")
<1>1. /\ {"accepted"} \in SUBSET Answer /\ {"replayed"} \in SUBSET Answer
      /\ {"invalidTransition"} \in SUBSET Answer /\ item \in Item
  BY StartAndResult DEF Answer, Refusal
<1>2. Puts(Call(on, item, {"accepted"}), on, item, {}, {"accepted"}, "fresh")
  BY <1>1, CallPuts
<1>3. /\ Puts(Call(on, item, {"replayed"}), on, item, {}, {"replayed"}, "fresh")
      /\ Puts([Call(on, item, {"replayed"}) EXCEPT !.token = "first"], on, item, {}, {"replayed"}, "first")
  BY <1>1, CallPuts
<1>4. Puts(Call(on, item, {"invalidTransition"}), on, item, {}, {"invalidTransition"}, "fresh")
  BY <1>1, CallPuts
<1> QED
  BY <1>1, <1>2, <1>3, <1>4, SetupPuts

\* The kind of an event whose kind is the part that changes.
Renamed(kind, part) == IF part = "kind" THEN "failed" ELSE kind

\* A changed event is refused for its body or for its command.
LEMMA ChangedPuts ==
  ASSUME NEW kind \in Kind, NEW command \in Word, NEW part \in Word
  PROVE  LET item == EventItem(Renamed(kind, part), command, {part})
         IN  /\ Puts(Changed(kind, command, part), "same", item, {}, Verdict(part), "fresh")
             /\ item \in Item /\ item.command = command /\ item.body = {part}
             /\ kind # "started" \/ part = "kind" => item.op = "contest-result-event"
             /\ kind = "started" /\ part # "kind" => item.op = "contest-started-event"
<1> DEFINE of == Renamed(kind, part)
           item == EventItem(of, command, {part})
<1>1. of \in Kind
  BY DEF Kind, Renamed
<1>2. (kind # "started" \/ part = "kind" => of # "started") /\ (kind = "started" /\ part # "kind" => of = "started")
  BY DEF Renamed
<1>3. Changed(kind, command, part) = Call("same", item, Verdict(part))
  BY DEF Changed, Verdict, Identified, Renamed
<1> HIDE DEF of
<1>4. {part} \in SUBSET Word
  OBVIOUS
<1>5. item \in Item /\ item.command = command /\ item.body = {part}
  BY <1>1, <1>4, EventItems
<1>6. (of # "started" => item.op = "contest-result-event") /\ (of = "started" => item.op = "contest-started-event")
  BY <1>1, <1>4, EventItems
<1>7. Puts(Call("same", item, Verdict(part)), "same", item, {}, Verdict(part), "fresh")
  <2>1. Verdict(part) \in SUBSET Answer
    BY DEF Verdict, Answer, Refusal
  <2> HIDE DEF item
  <2> QED
    BY <1>5, <2>1, CallPuts
<1> HIDE DEF item
<1> QED
  BY <1>2, <1>3, <1>5, <1>6, <1>7 DEF item, of

\* The event suite is calls that let it go on.
LEMMA ChangedEventsFair ==
  /\ \A part \in StartParts : ChangedStart(part) \in Seq(Fair)
  /\ \A profile : \A part \in resultEventPayloadMutations(profile) : ChangedResult(part) \in Seq(Fair)
  /\ \A part \in resultRequestBinding : Misfit(part) \in Seq(Fair)
<1>1. /\ Setup("fresh", Start) \in Fair /\ Setup("same", Result) \in Fair
      /\ Call("same", Start, {"replayed"}) \in Fair /\ Call("same", Result, {"replayed"}) \in Fair
      /\ Call("same", Result, {"accepted"}) \in Fair
  BY EventPuts, PutsFair
<1>2. "start" \in Word /\ "result" \in Word /\ "started" \in Kind /\ "completed" \in Kind
  BY DEF Word, Kind
<1>3. ASSUME NEW part \in StartParts PROVE ChangedStart(part) \in Seq(Fair)
  <2>1. part \in Word
    BY EventPartsFinite
  <2>2. Changed("started", "start", part) \in Fair
    <3> DEFINE item == EventItem(Renamed("started", part), "start", {part})
    <3>1. Puts(Changed("started", "start", part), "same", item, {}, Verdict(part), "fresh")
      BY <1>2, <2>1, ChangedPuts
    <3> HIDE DEF item
    <3> QED
      BY <3>1, PutsFair
  <2> QED
    BY <1>1, <2>2 DEF ChangedStart
<1>4. ASSUME NEW profile, NEW part \in resultEventPayloadMutations(profile) PROVE ChangedResult(part) \in Seq(Fair)
  <2>1. part \in Word
    BY EventPartsFinite
  <2>2. Changed("completed", "result", part) \in Fair
    <3> DEFINE item == EventItem(Renamed("completed", part), "result", {part})
    <3>1. Puts(Changed("completed", "result", part), "same", item, {}, Verdict(part), "fresh")
      BY <1>2, <2>1, ChangedPuts
    <3> HIDE DEF item
    <3> QED
      BY <3>1, PutsFair
  <2> QED
    BY <1>1, <2>2 DEF ChangedResult
<1>5. ASSUME NEW part \in resultRequestBinding PROVE Misfit(part) \in Seq(Fair)
  <2> DEFINE item == EventItem("completed", "bound", {"id", part})
  <2>1. item \in Item
    <3>1. "bound" \in Word /\ {"id", part} \in SUBSET Word
      BY DEF Word, ResultParts, StartParts, Provenance, resultRequestBinding
    <3> QED
      BY <1>2, <3>1, EventItems
  <2> HIDE DEF item
  <2>2. Call("same", item, Refusal) \in Fair
    <3>1. Refusal \in SUBSET Answer
      BY DEF Answer
    <3> QED
      BY <2>1, <3>1, CallPuts, PutsFair
  <2>3. [Setup("fresh", Start) EXCEPT !.want = Answer \ Refusal, !.skips = Refusal] \in Fair
    BY StartAndResult, SetupPuts, PutsFair
  <2> QED
    BY <1>1, <2>2, <2>3 DEF Misfit, item
<1> QED
  BY <1>3, <1>4, <1>5

\* The beginning, the middle and the end of an event suite let it go on.
LEMMA EventEndsFair ==
  /\ <<Call("fresh", Result, {"invalidTransition"}), Call("same", Start, {"accepted"}),
       Call("same", Result, {"accepted"})>> \in Seq(Fair)
  /\ <<[First(Start) EXCEPT !.ends = Answer \ {"accepted"}],
       [Call("main", Start, {"replayed"}) EXCEPT !.token = "first"],
       Call("main", Start, {"replayed"})>> \in Seq(Fair)
  /\ <<Call("main", Result, {"accepted"})>> \in Seq(Fair) /\ <<Call("main", Result, {"replayed"})>> \in Seq(Fair)
  /\ <<Call("main", Aborted("failed", "late-failure"), {"invalidTransition"}),
       Call("main", Aborted("cancelled", "late-cancellation"), {"invalidTransition"}),
       Call("main", EventItem("started", "late-start", {"id"}), {"invalidTransition"}),
       Call("fresh", Aborted("cancelled", "cancel"), {"accepted"}),
       Call("same", Start, {"invalidTransition"}),
       Call("fresh", Aborted("failed", "failure"), {"accepted"})>> \in Seq(Fair)
<1>1. /\ Call("fresh", Result, {"invalidTransition"}) \in Fair /\ Call("same", Start, {"accepted"}) \in Fair
      /\ Call("same", Result, {"accepted"}) \in Fair
      /\ [Call("main", Start, {"replayed"}) EXCEPT !.token = "first"] \in Fair
      /\ Call("main", Start, {"replayed"}) \in Fair
      /\ Call("main", Result, {"accepted"}) \in Fair /\ Call("main", Result, {"replayed"}) \in Fair
      /\ Call("same", Start, {"invalidTransition"}) \in Fair
  BY EventPuts, PutsFair
<1>2. [First(Start) EXCEPT !.ends = Answer \ {"accepted"}] \in Fair
  BY StartAndResult, FirstPuts, PutsFair
<1>3. /\ Call("main", Aborted("failed", "late-failure"), {"invalidTransition"}) \in Fair
      /\ Call("main", Aborted("cancelled", "late-cancellation"), {"invalidTransition"}) \in Fair
      /\ Call("main", EventItem("started", "late-start", {"id"}), {"invalidTransition"}) \in Fair
      /\ Call("fresh", Aborted("cancelled", "cancel"), {"accepted"}) \in Fair
      /\ Call("fresh", Aborted("failed", "failure"), {"accepted"}) \in Fair
  <2>1. /\ "failed" \in Kind /\ "cancelled" \in Kind /\ "started" \in Kind
        /\ {"late-failure", "late-cancellation", "late-start", "cancel", "failure"} \subseteq Word
        /\ {"id"} \in SUBSET Word /\ {"kind"} \in SUBSET Word
    BY DEF Kind, Word, ResultParts, StartParts
  <2>2. /\ Aborted("failed", "late-failure") \in Item /\ Aborted("cancelled", "late-cancellation") \in Item
        /\ EventItem("started", "late-start", {"id"}) \in Item
        /\ Aborted("cancelled", "cancel") \in Item /\ Aborted("failed", "failure") \in Item
    BY <2>1, EventItems DEF Aborted
  <2>3. {"accepted"} \in SUBSET Answer /\ {"invalidTransition"} \in SUBSET Answer
    BY DEF Answer, Refusal
  <2> QED
    BY <2>2, <2>3, CallPuts, PutsFair
<1>4. \A a, b, c \in Fair : <<a, b, c>> \in Seq(Fair)
  OBVIOUS
<1>5. \A a, b, c, d, e, f \in Fair : <<a, b, c, d, e, f>> \in Seq(Fair)
  OBVIOUS
<1>6. \A a \in Fair : <<a>> \in Seq(Fair)
  OBVIOUS
<1> QED
  BY <1>1, <1>2, <1>3, <1>4, <1>5, <1>6

\* A known start with one part changed tells what the sink compares, and when.
LEMMA ChangedStartShows ==
  ASSUME NEW s, Ordered(s), "ledger" \in Range(s.gates), s.habit \notin {"forgetful", "byToken"},
         NEW part \in StartParts, NEW p \in State, NEW q \in State, Runs(s, p, ChangedStart(part), q)
  PROVE  /\ part = "kind" => s.habit # "byOperation"
         /\ part = "id" => s.habit # "anyPayload"
         /\ part = "competitionID" => "body" \in Range(s.gates) /\ ~Before(s, "ledger", "body")
<1> DEFINE other == EventItem(Renamed("started", part), "start", {part})
           right == Verdict(part)
           a == Setup("fresh", Start)
           b == Changed("started", "start", part)
           c == Call("same", Start, {"replayed"})
           d == Call("same", Result, {"accepted"})
<1>1. part \in Word /\ "start" \in Word /\ "started" \in Kind
  BY EventPartsFinite DEF Word, Kind
<1>2. /\ Puts(b, "same", other, {}, right, "fresh") /\ other.command = "start"
      /\ part = "kind" => other.op = "contest-result-event"
  BY <1>1, ChangedPuts
<1>3. part # "kind" => other.op = "contest-started-event"
  BY <1>1, ChangedPuts
<1>4. Puts(a, "fresh", Start, {}, {"accepted"}, "fresh")
  BY EventPuts
<1>5. ChangedStart(part) = <<a, b, c, d>>
  BY DEF ChangedStart
<1> HIDE DEF a, b, c, d, other, right
<1>6. PICK r \in State, t \in State : Answers(s, a, p, r) /\ Answers(s, b, r, t)
  BY <1>5, RunsFour
<1> DEFINE m == r[2]
<1>7. Takes(s, a, Empty, m) /\ Takes(s, b, m, t[2]) /\ m \in Memory
  BY <1>2, <1>4, <1>6 DEF Answers, Puts, Asks, State
<1> HIDE DEF m
<1>8. /\ Record(a) \in m.ledger /\ \A x \in m.ledger : x = Record(a)
      /\ Record(a).command = "start" /\ Record(a).op = "contest-started-event"
  <2>1. Reply(s, Empty, a) = "accepted"
    BY <1>4, <1>7 DEF Takes, Puts
  <2>2. Record(a) \in m.ledger /\ \A x \in m.ledger : x \in Empty.ledger \/ x = Record(a)
    BY <1>4, <1>7, <2>1, NothingPrior, TakesLedger
  <2> QED
    BY <1>4, <2>2, StartAndResult, PriorItem DEF Empty
<1>9. CASE part = "competitionID"
  <2>1. right = {"invalidGrant", "leaked"}
    BY <1>9 DEF right, Verdict, Identified, eventIdentity
  <2>2. Reply(s, m, b) \in {"invalidGrant", "leaked"}
    BY <1>2, <1>7, <2>1 DEF Takes, Puts
  <2>3. "ledger" \in Stopping(s, m, b)
    BY <1>2, <1>3, <1>8, <1>9, KnownCommand
  <2>4. "body" \in Range(s.gates) /\ ~Before(s, "ledger", "body")
    BY <1>2, <1>7, <2>2, <2>3, UnfitTells
  <2> QED
    BY <1>9, <2>4
<1>10. CASE part \in {"kind", "id"}
  <2>1. right = {"commandConflict"}
    BY <1>10 DEF right, Verdict, Identified, eventIdentity, resultRequestBinding
  <2>2. Puts(b, "same", other, {}, {"commandConflict"}, "fresh")
    BY <1>2, <2>1
  <2>3. /\ s.habit # "anyPayload"
        /\ \E x \in m.ledger : s.habit = "byOperation" => x.op = other.op
    BY <1>7, <2>2, ConflictTells
  <2>4. part = "kind" => s.habit # "byOperation"
    BY <1>2, <1>8, <2>3
  <2> QED
    BY <1>10, <2>3, <2>4
<1> QED
  BY <1>9, <1>10

\* A known result with one part changed tells whether the sink looks at that part.
LEMMA ChangedResultShows ==
  ASSUME NEW s, Ordered(s), NEW profile, NEW part \in resultEventPayloadMutations(profile), part \notin Identified,
         NEW p \in State, NEW q \in State, Runs(s, p, ChangedResult(part), q)
  PROVE  part \notin s.overlooks
<1> DEFINE other == EventItem(Renamed("completed", part), "result", {part})
           a == Setup("fresh", Start)
           b == Setup("same", Result)
           c == Changed("completed", "result", part)
           d == Call("same", Result, {"replayed"})
<1>1. part \in Word /\ "result" \in Word /\ "completed" \in Kind /\ Verdict(part) = {"commandConflict"}
  BY EventPartsFinite DEF Word, Kind, Verdict
<1>2. /\ Puts(c, "same", other, {}, {"commandConflict"}, "fresh") /\ other.command = "result"
      /\ other.op = "contest-result-event" /\ other.body = {part}
  <2>1. /\ Puts(c, "same", other, {}, Verdict(part), "fresh") /\ other.command = "result"
        /\ other.op = "contest-result-event" /\ other.body = {part}
    BY <1>1, ChangedPuts
  <2> HIDE DEF c, other
  <2> QED
    BY <1>1, <2>1
<1>3. Puts(a, "fresh", Start, {}, {"accepted"}, "fresh") /\ Puts(b, "same", Result, {}, {"accepted"}, "fresh")
  BY EventPuts
<1>4. ChangedResult(part) = <<a, b, c, d>>
  BY DEF ChangedResult
<1> HIDE DEF a, b, c, d, other
<1>5. PICK r \in State, t \in State, u \in State : Answers(s, a, p, r) /\ Answers(s, b, r, t) /\ Answers(s, c, t, u)
  BY <1>4, RunsFour
<1> DEFINE m == r[2]
           n == t[2]
<1>6. Takes(s, a, Empty, m) /\ Takes(s, b, m, n) /\ Takes(s, c, n, u[2]) /\ m \in Memory /\ n \in Memory
  BY <1>2, <1>3, <1>5 DEF Answers, Puts, Asks, State
<1> HIDE DEF m, n
<1>7. /\ \A x \in m.ledger : x \in Empty.ledger \/ x = Record(a)
      /\ \A x \in n.ledger : x \in m.ledger \/ x = Record(b)
  BY <1>3, <1>6, NothingPrior, TakesLedger
<1>8. /\ Record(a).command = "start" /\ Record(b).op = "contest-result-event" /\ Record(b).body = {}
  BY <1>3, StartAndResult, PriorItem
<1>9. PICK x \in n.ledger : /\ x.command = other.command
                            /\ x.op = other.op => x.body \ s.overlooks # other.body \ s.overlooks
  BY <1>2, <1>6, ConflictTells
<1>10. x = Record(b)
  BY <1>2, <1>7, <1>8, <1>9 DEF Empty
<1> QED
  BY <1>2, <1>8, <1>9, <1>10

\* The first three calls of an event suite want an order of events; the next three
\* want a ledger before it.
LEMMA EventOpeningTells ==
  ASSUME NEW s, Ordered(s), NEW q \in State,
         Runs(s, Nothing,
              <<Call("fresh", Result, {"invalidTransition"}), Call("same", Start, {"accepted"}),
                Call("same", Result, {"accepted"}),
                [First(Start) EXCEPT !.ends = Answer \ {"accepted"}],
                [Call("main", Start, {"replayed"}) EXCEPT !.token = "first"],
                Call("main", Start, {"replayed"})>>, q)
  PROVE  /\ {"ledger", "order"} \subseteq Range(s.gates) /\ ~Before(s, "order", "ledger")
         /\ s.habit \notin {"forgetful", "byToken", "renews"}
         /\ \E e \in q[1].ledger : e.command = "start" /\ e.op = "contest-started-event"
<1> DEFINE a == Call("fresh", Result, {"invalidTransition"})
           b == Call("same", Start, {"accepted"})
           c == Call("same", Result, {"accepted"})
           d == [First(Start) EXCEPT !.ends = Answer \ {"accepted"}]
           e == [Call("main", Start, {"replayed"}) EXCEPT !.token = "first"]
           f == Call("main", Start, {"replayed"})
<1>1. /\ Puts(a, "fresh", Result, {}, {"invalidTransition"}, "fresh")
      /\ Puts(b, "same", Start, {}, {"accepted"}, "fresh") /\ Puts(c, "same", Result, {}, {"accepted"}, "fresh")
      /\ Puts(d, "main", Start, {}, {"accepted"}, "first") /\ Puts(e, "main", Start, {}, {"replayed"}, "first")
      /\ Puts(f, "main", Start, {}, {"replayed"}, "fresh")
  BY EventPuts, FirstPuts, StartAndResult
<1>2. <<a, b, c>> \in Seq(Fair) /\ <<d, e, f>> \in Seq(Fair)
  BY EventEndsFair
<1>3. Runs(s, Nothing, <<a, b, c, d, e, f>>, q)
  OBVIOUS
<1> HIDE DEF a, b, c, d, e, f
<1>4. <<a, b, c>> \o <<d, e, f>> = <<a, b, c, d, e, f>>
  BY Six, SMT
<1>5. PICK r \in State : Runs(s, Nothing, <<a, b, c>>, r) /\ Runs(s, r, <<d, e, f>>, q)
  <2> DEFINE x == <<a, b, c>>
             y == <<d, e, f>>
  <2>1. Runs(s, Nothing, x \o y, q) /\ x \in Seq(Fair) /\ y \in Seq(Fair)
    BY <1>2, <1>3, <1>4
  <2> HIDE DEF x, y
  <2>2. \E r \in State : Runs(s, Nothing, x, r) /\ Runs(s, r, y, q)
    BY <2>1, RunsBoth
  <2> QED
    BY <2>2 DEF x, y
<1>6. PICK g \in State, h \in State :
        Answers(s, a, Nothing, g) /\ Answers(s, b, g, h) /\ Answers(s, c, h, r)
  BY <1>5, RunsThree
<1>7. PICK k \in State, l \in State : Answers(s, d, r, k) /\ Answers(s, e, k, l) /\ Answers(s, f, l, q)
  BY <1>5, RunsThree
<1>8. "order" \in Range(s.gates)
  <2>1. Takes(s, a, Empty, g[2])
    BY <1>1, <1>6 DEF Answers, Puts, Asks
  <2>2. Reply(s, Empty, a) = "invalidTransition"
    BY <1>1, <2>1 DEF Takes, Puts
  <2>3. Stopper(s, Empty, a, "order") \/ Stopper(s, Empty, a, "references")
    BY <1>1, <2>1, <2>2, Taken
  <2>4. Asking(Result.op) = "order"
    BY StartAndResult, AskingEvents
  <2> QED
    BY <1>1, <2>3, <2>4, StopsItem
<1>9. r[1] = Empty
  BY <1>1, <1>6, NothingIs DEF Answers, Puts, Asks
<1> DEFINE m == k[1]
           n == l[1]
<1>10. Takes(s, d, Empty, m) /\ Takes(s, e, m, n) /\ Takes(s, f, n, q[1]) /\ m \in Memory
  BY <1>1, <1>7, <1>9 DEF Answers, Puts, Asks, State
<1> HIDE DEF m, n
<1>11. Reply(s, Empty, d) = "accepted" /\ Reply(s, m, e) = "replayed"
  BY <1>1, <1>10 DEF Takes, Puts
<1>12. n = m /\ m.facts = Empty.facts \cup Start.gives
  BY <1>1, <1>10, <1>11, NothingPrior, TakesLedger
<1>13. /\ "ledger" \in Range(s.gates) /\ s.habit \notin {"forgetful", "byToken", "renews"} /\ q[1] = m
       /\ Stopper(s, m, f, "ledger")
       /\ Record(d) \in m.ledger /\ Record(d).command = Start.command /\ Record(d).op = Start.op
  <2>1. \A x \in Empty.ledger : x.command # Start.command \/ s.habit # "byToken"
    BY DEF Empty
  <2> QED
    BY <1>1, <1>10, <1>11, <1>12, <2>1, NothingPrior, RetryTells
<1>14. "order" \in Stopping(s, m, f)
  <2>1. "started" \in m.facts /\ "started" \in Start.bars /\ Asking(Start.op) = "order"
    BY <1>12, StartAndResult, AskingEvents
  <2> QED
    BY <1>1, <1>8, <2>1, StopsItem
<1>15. ~Before(s, "order", "ledger")
  BY <1>13, <1>14 DEF Stopper
<1> QED
  BY <1>8, <1>13, <1>15, StartAndResult

\* The blocks of an event suite are calls that let it go on.
LEMMA EventBlocksFair ==
  ASSUME NEW profile, NEW order
  PROVE  LET starts  == [part \in StartParts |-> ChangedStart(part)]
             results == [part \in resultEventPayloadMutations(profile) |-> ChangedResult(part)]
             misfits == [part \in {"placementEntry", IF profile = "provider-executed"
                                   THEN "artifacts" ELSE "profileEvidence"} |-> Misfit(part)]
         IN  /\ Populated(order, Start, invalidEventGrantMutations, "contest-result-event", {"replayed"}) \in Seq(Fair)
             /\ Populated(order, Result, invalidEventGrantMutations, "contest-started-event", {"replayed"}) \in Seq(Fair)
             /\ Rejections(order, Start, invalidEventGrantMutations) \in Seq(Fair)
             /\ IsFiniteSet(DOMAIN starts) /\ (\A k \in DOMAIN starts : starts[k] \in Seq(Fair))
             /\ IsFiniteSet(DOMAIN results) /\ (\A k \in DOMAIN results : results[k] \in Seq(Fair))
             /\ Each(order, starts) \in Seq(Fair) /\ Each(order, results) \in Seq(Fair)
             /\ Each(order, misfits) \in Seq(Fair)
<1> DEFINE starts  == [part \in StartParts |-> ChangedStart(part)]
           results == [part \in resultEventPayloadMutations(profile) |-> ChangedResult(part)]
           own == IF profile = "provider-executed" THEN "artifacts" ELSE "profileEvidence"
           parts == {"placementEntry", own}
           misfits == [part \in parts |-> Misfit(part)]
<1>1. /\ invalidEventGrantMutations \in SUBSET Word /\ IsFiniteSet(invalidEventGrantMutations)
      /\ "contest-started-event" \in Purpose /\ "contest-result-event" \in Purpose
      /\ Start.op \in Purpose /\ Result.op \in Purpose /\ {"replayed"} \in SUBSET Answer
      /\ Start \in Item /\ Result \in Item
  BY EventClaimsFinite, StartAndResult DEF Purpose, Answer, Refusal
<1>2. /\ Populated(order, Start, invalidEventGrantMutations, "contest-result-event", {"replayed"}) \in Seq(Fair)
      /\ Populated(order, Result, invalidEventGrantMutations, "contest-started-event", {"replayed"}) \in Seq(Fair)
      /\ Rejections(order, Start, invalidEventGrantMutations) \in Seq(Fair)
  BY <1>1, PopulatedFair, RejectionsFair
<1>3. IsFiniteSet(DOMAIN starts) /\ \A k \in DOMAIN starts : starts[k] \in Seq(Fair)
  BY EventPartsFinite, ChangedEventsFair
<1>4. IsFiniteSet(DOMAIN results) /\ \A k \in DOMAIN results : results[k] \in Seq(Fair)
  BY EventPartsFinite, ChangedEventsFair
<1>5. IsFiniteSet(DOMAIN misfits) /\ \A k \in DOMAIN misfits : misfits[k] \in Seq(Fair)
  <2>1. parts \subseteq resultRequestBinding
    BY DEF resultRequestBinding
  <2>2. parts = {"placementEntry", own, own, own}
    OBVIOUS
  <2>3. IsFiniteSet(parts)
    <3> HIDE DEF own, parts
    <3> QED
      BY <2>2, FewFinite
  <2>4. DOMAIN misfits = parts /\ \A part \in parts : misfits[part] = Misfit(part)
    OBVIOUS
  <2> HIDE DEF parts, misfits
  <2> QED
    BY <2>1, <2>3, <2>4, ChangedEventsFair
<1> HIDE DEF starts, results, misfits
<1>6. Each(order, starts) \in Seq(Fair) /\ Each(order, results) \in Seq(Fair) /\ Each(order, misfits) \in Seq(Fair)
  BY <1>3, <1>4, <1>5, EachFair
<1> QED
  BY <1>2, <1>3, <1>4, <1>6, Zenon DEF starts, results, misfits, parts, own

\* An event sink that passes its suite.
LEMMA EventTells ==
  ASSUME NEW s, Ordered(s), NEW profile, NEW order, NEW q \in State,
         Runs(s, Nothing, CheckExecutionEventSink(profile, order), q)
  PROVE  /\ {"authority", "body", "ledger", "order"} \subseteq Range(s.gates)
         /\ ~Before(s, "ledger", "authority") /\ ~Before(s, "ledger", "body") /\ ~Before(s, "order", "ledger")
         /\ s.habit \notin {"forgetful", "byToken", "renews", "leaks", "dropsOnRefusal", "anyPayload",
                            "byOperation", "recordsRefusals"}
         /\ \A c \in invalidEventGrantMutations :
              <<"contest-started-event", c>> \notin s.forgets /\ <<"contest-result-event", c>> \notin s.forgets
         /\ \A part \in EventDigested(profile) \ {"terminalState", "eventLog"} : part \notin s.overlooks
<1> DEFINE opening == <<Call("fresh", Result, {"invalidTransition"}), Call("same", Start, {"accepted"}),
                        Call("same", Result, {"accepted"}),
                        [First(Start) EXCEPT !.ends = Answer \ {"accepted"}],
                        [Call("main", Start, {"replayed"}) EXCEPT !.token = "first"],
                        Call("main", Start, {"replayed"})>>
           claims == invalidEventGrantMutations
           replayed == {"replayed"}
           starts == Populated(order, Start, claims, "contest-result-event", replayed)
           changedStarts == [part \in StartParts |-> ChangedStart(part)]
           rejections == Rejections(order, Start, claims)
           d == Call("main", Result, {"accepted"})
           results == Populated(order, Result, claims, "contest-started-event", replayed)
           e == Call("main", Result, {"replayed"})
           changedResults == [part \in resultEventPayloadMutations(profile) |-> ChangedResult(part)]
           misfits == Each(order, [part \in {"placementEntry", IF profile = "provider-executed"
                                             THEN "artifacts" ELSE "profileEvidence"} |-> Misfit(part)])
           closing == <<Call("main", Aborted("failed", "late-failure"), {"invalidTransition"}),
                        Call("main", Aborted("cancelled", "late-cancellation"), {"invalidTransition"}),
                        Call("main", EventItem("started", "late-start", {"id"}), {"invalidTransition"}),
                        Call("fresh", Aborted("cancelled", "cancel"), {"accepted"}),
                        Call("same", Start, {"invalidTransition"}),
                        Call("fresh", Aborted("failed", "failure"), {"accepted"})>>
<1>1. CheckExecutionEventSink(profile, order) =
        opening \o starts \o Each(order, changedStarts) \o rejections \o <<d>> \o results \o <<e>>
        \o Each(order, changedResults) \o misfits \o closing
  BY Zenon DEF CheckExecutionEventSink
<1>2. /\ opening \in Seq(Fair) /\ closing \in Seq(Fair) /\ <<d>> \in Seq(Fair) /\ <<e>> \in Seq(Fair)
  <2>1. \A a, b, c, i, j, k : <<a, b, c>> \in Seq(Fair) /\ <<i, j, k>> \in Seq(Fair) =>
          <<a, b, c, i, j, k>> \in Seq(Fair)
    <3> SUFFICES ASSUME NEW a, NEW b, NEW c, NEW i, NEW j, NEW k,
                        <<a, b, c>> \in Seq(Fair), <<i, j, k>> \in Seq(Fair)
                 PROVE  <<a, b, c, i, j, k>> \in Seq(Fair)
      OBVIOUS
    <3>1. <<a, b, c>> \o <<i, j, k>> \in Seq(Fair)
      OBVIOUS
    <3>2. <<a, b, c>> \o <<i, j, k>> = <<a, b, c, i, j, k>>
      BY Six, SMT
    <3> QED
      BY <3>1, <3>2, Zenon
  <2> QED
    BY <2>1, EventEndsFair, Zenon
<1>3. /\ starts \in Seq(Fair) /\ results \in Seq(Fair) /\ rejections \in Seq(Fair)
      /\ IsFiniteSet(DOMAIN changedStarts) /\ \A k \in DOMAIN changedStarts : changedStarts[k] \in Seq(Fair)
      /\ IsFiniteSet(DOMAIN changedResults) /\ \A k \in DOMAIN changedResults : changedResults[k] \in Seq(Fair)
      /\ Each(order, changedStarts) \in Seq(Fair) /\ Each(order, changedResults) \in Seq(Fair)
      /\ misfits \in Seq(Fair)
  BY EventBlocksFair, Zenon
<1>4. Puts(d, "main", Result, {}, {"accepted"}, "fresh")
  BY EventPuts
<1> DEFINE A == opening \o starts
           B == A \o Each(order, changedStarts)
           C == B \o rejections
           D == C \o <<d>>
           E == D \o results
           F == E \o <<e>>
           G == F \o Each(order, changedResults)
           H == G \o misfits
<1> HIDE DEF opening, starts, changedStarts, rejections, d, results, e, changedResults, misfits, closing
<1>5. /\ A \in Seq(Fair) /\ B \in Seq(Fair) /\ C \in Seq(Fair) /\ D \in Seq(Fair) /\ E \in Seq(Fair)
      /\ F \in Seq(Fair) /\ G \in Seq(Fair) /\ H \in Seq(Fair)
  <2>1. A \in Seq(Fair)
    BY <1>2, <1>3
  <2> HIDE DEF A
  <2>2. B \in Seq(Fair)
    BY <1>3, <2>1
  <2> HIDE DEF B
  <2>3. C \in Seq(Fair)
    BY <1>3, <2>2
  <2> HIDE DEF C
  <2>4. D \in Seq(Fair)
    BY <1>2, <2>3
  <2> HIDE DEF D
  <2>5. E \in Seq(Fair)
    BY <1>3, <2>4
  <2> HIDE DEF E
  <2>6. F \in Seq(Fair)
    BY <1>2, <2>5
  <2> HIDE DEF F
  <2>7. G \in Seq(Fair)
    BY <1>3, <2>6
  <2> HIDE DEF G
  <2>8. H \in Seq(Fair)
    BY <1>3, <2>7
  <2> QED
    BY <2>1, <2>2, <2>3, <2>4, <2>5, <2>6, <2>7, <2>8
<1>6. /\ \A x : Runs(s, Nothing, H \o closing, x) = Runs(s, Nothing, CheckExecutionEventSink(profile, order), x)
      /\ H = G \o misfits /\ G = F \o Each(order, changedResults) /\ F = E \o <<e>> /\ E = D \o results
      /\ D = C \o <<d>> /\ C = B \o rejections /\ B = A \o Each(order, changedStarts) /\ A = opening \o starts
  BY <1>1, Zenon
<1> HIDE DEF A, B, C, D, E, F, G, H
<1>7. PICK g \in State, f \in State, x1 \in State, x2 \in State, x3 \in State, x4 \in State, x5 \in State, x6 \in State :
        /\ Runs(s, Nothing, opening, x1) /\ Runs(s, x1, starts, x2) /\ Runs(s, x2, Each(order, changedStarts), x3)
        /\ Runs(s, x3, rejections, x4) /\ Runs(s, x4, <<d>>, x5) /\ Runs(s, x5, results, x6)
        /\ Runs(s, x6, <<e>>, f) /\ Runs(s, f, Each(order, changedResults), g)
  <2>1. PICK h \in State : Runs(s, Nothing, H, h)
    BY <1>2, <1>5, <1>6, RunsBoth
  <2>2. PICK g \in State : Runs(s, Nothing, G, g)
    BY <1>3, <1>5, <1>6, <2>1, RunsBoth
  <2>3. PICK f \in State : Runs(s, Nothing, F, f) /\ Runs(s, f, Each(order, changedResults), g)
    BY <1>3, <1>5, <1>6, <2>2, RunsBoth
  <2>4. PICK x6 \in State : Runs(s, Nothing, E, x6) /\ Runs(s, x6, <<e>>, f)
    BY <1>2, <1>5, <1>6, <2>3, RunsBoth
  <2>5. PICK x5 \in State : Runs(s, Nothing, D, x5) /\ Runs(s, x5, results, x6)
    BY <1>3, <1>5, <1>6, <2>4, RunsBoth
  <2>6. PICK x4 \in State : Runs(s, Nothing, C, x4) /\ Runs(s, x4, <<d>>, x5)
    BY <1>2, <1>5, <1>6, <2>5, RunsBoth
  <2>7. PICK x3 \in State : Runs(s, Nothing, B, x3) /\ Runs(s, x3, rejections, x4)
    BY <1>3, <1>5, <1>6, <2>6, RunsBoth
  <2>8. PICK x2 \in State : Runs(s, Nothing, A, x2) /\ Runs(s, x2, Each(order, changedStarts), x3)
    BY <1>3, <1>5, <1>6, <2>7, RunsBoth
  <2>9. PICK x1 \in State : Runs(s, Nothing, opening, x1) /\ Runs(s, x1, starts, x2)
    BY <1>2, <1>3, <1>6, <2>8, RunsBoth
  <2> QED
    BY <2>3, <2>4, <2>5, <2>6, <2>7, <2>8, <2>9
<1>8. /\ {"ledger", "order"} \subseteq Range(s.gates) /\ ~Before(s, "order", "ledger")
      /\ s.habit \notin {"forgetful", "byToken", "renews"}
      /\ \E y \in x1[1].ledger : y.command = "start" /\ y.op = "contest-started-event"
  BY <1>7, EventOpeningTells DEF opening
<1>9. /\ claims \in SUBSET Word /\ IsFiniteSet(claims) /\ "contest-started-event" \in Purpose
      /\ "contest-result-event" \in Purpose /\ replayed \subseteq {"replayed", "accepted"} /\ replayed = {"replayed"}
      /\ Start.op \in Purpose /\ Result.op \in Purpose /\ "issuer" \in claims
  BY EventClaimsFinite, StartAndResult DEF Purpose, invalidEventGrantMutations, Envelope
<1>10. /\ Runs(s, x1, Populated(order, Start, claims, "contest-result-event", replayed), x2)
       /\ Runs(s, x5, Populated(order, Result, claims, "contest-started-event", replayed), x6)
       /\ Runs(s, x3, Rejections(order, Start, claims), x4)
  BY <1>7 DEF starts, results, rejections
<1> HIDE DEF claims, replayed
<1>11. /\ "authority" \in Range(s.gates) /\ ~Before(s, "ledger", "authority")
       /\ s.habit \notin {"leaks", "dropsOnRefusal"}
       /\ \A c \in claims : <<"contest-started-event", c>> \notin s.forgets
  <2>1. PICK y \in x1[1].ledger : y.command = Start.command /\ y.op = Start.op
    BY <1>8, StartAndResult
  <2>3. /\ y \in x1[1].ledger /\ y.command = Start.command /\ y.op = Start.op
        /\ Start \in Item /\ Start.outside = "nothing"
        /\ "ledger" \in Range(s.gates) /\ s.habit \notin {"forgetful", "byToken"}
        /\ x1 \in State /\ x2 \in State
    BY <1>8, <2>1, StartAndResult
  <2>2. /\ "authority" \in Range(s.gates) /\ ~Before(s, "ledger", "authority")
        /\ s.habit \notin {"leaks", "dropsOnRefusal"}
        /\ \A c \in claims : <<Start.op, c>> \notin s.forgets
    BY <1>9, <1>10, <2>3, PopulatedShows
  <2> QED
    BY <2>2, StartAndResult
<1>12. \A c \in claims : <<"contest-result-event", c>> \notin s.forgets
  <2>1. Answers(s, d, x4, x5)
    BY <1>7, RunsOne
  <2>2. Takes(s, d, x4[1], x5[1]) /\ x4[1] \in Memory
    BY <1>4, <2>1 DEF Answers, Puts, Asks, State
  <2>3. Reply(s, x4[1], d) = "accepted"
    BY <1>4, <2>2 DEF Takes, Puts
  <2>4. Record(d) \in x5[1].ledger
    BY <1>4, <2>2, <2>3, TakesLedger
  <2>5. Record(d).command = Result.command /\ Record(d).op = Result.op
    BY <1>4, PriorItem
  <2> DEFINE y == Record(d)
  <2>6. /\ y \in x5[1].ledger /\ y.command = Result.command /\ y.op = Result.op
        /\ Result \in Item /\ Result.outside = "nothing"
        /\ "ledger" \in Range(s.gates) /\ s.habit \notin {"forgetful", "byToken"}
        /\ x5 \in State /\ x6 \in State
    BY <1>8, <2>4, <2>5, StartAndResult
  <2> HIDE DEF y
  <2>7. \A c \in claims : <<Result.op, c>> \notin s.forgets
    BY <1>9, <1>10, <2>6, PopulatedShows
  <2> QED
    BY <2>7, StartAndResult
<1>13. s.habit # "recordsRefusals"
  BY <1>8, <1>9, <1>10, StartAndResult, RejectionsShow
<1>14. ASSUME NEW part \in StartParts
       PROVE  /\ part = "kind" => s.habit # "byOperation"
              /\ part = "id" => s.habit # "anyPayload"
              /\ part = "competitionID" => "body" \in Range(s.gates) /\ ~Before(s, "ledger", "body")
  <2>1. part \in DOMAIN changedStarts /\ State \in SUBSET State /\ changedStarts[part] = ChangedStart(part)
    BY DEF changedStarts
  <2>2. \E x \in State, y \in State : Runs(s, x, changedStarts[part], y)
    <3>1. /\ IsFiniteSet(DOMAIN changedStarts) /\ \A k \in DOMAIN changedStarts : changedStarts[k] \in Seq(Fair)
          /\ x2 \in State /\ x3 \in State /\ Runs(s, x2, Each(order, changedStarts), x3)
      BY <1>3, <1>7
    <3> QED
      BY <2>1, <3>1, EachRuns
  <2>3. PICK x \in State, y \in State : Runs(s, x, ChangedStart(part), y)
    BY <2>1, <2>2
  <2> QED
    BY <1>8, <2>3, ChangedStartShows
<1>15. ASSUME NEW part \in resultEventPayloadMutations(profile), part \notin Identified PROVE part \notin s.overlooks
  <2>1. part \in DOMAIN changedResults /\ State \in SUBSET State /\ changedResults[part] = ChangedResult(part)
    BY DEF changedResults
  <2>2. \E x \in State, y \in State : Runs(s, x, changedResults[part], y)
    <3>1. /\ IsFiniteSet(DOMAIN changedResults) /\ \A k \in DOMAIN changedResults : changedResults[k] \in Seq(Fair)
          /\ f \in State /\ g \in State /\ Runs(s, f, Each(order, changedResults), g)
      BY <1>3, <1>7
    <3> QED
      BY <2>1, <3>1, EachRuns
  <2>3. PICK x \in State, y \in State : Runs(s, x, ChangedResult(part), y)
    BY <2>1, <2>2
  <2> QED
    BY <1>15, <2>3, ChangedResultShows
<1>16. {"kind", "id", "competitionID"} \subseteq StartParts
  BY DEF StartParts, eventIdentity
<1>17. /\ s.habit \notin {"byOperation", "anyPayload"}
       /\ "body" \in Range(s.gates) /\ ~Before(s, "ledger", "body")
  BY <1>14, <1>16
<1>18. \A part \in EventDigested(profile) \ {"terminalState", "eventLog"} :
          part \in resultEventPayloadMutations(profile) /\ part \notin Identified
  BY DEF EventDigested, resultEventPayloadMutations, Identified
<1>19. \A part \in EventDigested(profile) \ {"terminalState", "eventLog"} : part \notin s.overlooks
  BY <1>15, <1>18
<1>20. \A c \in invalidEventGrantMutations :
         <<"contest-started-event", c>> \notin s.forgets /\ <<"contest-result-event", c>> \notin s.forgets
  BY <1>11, <1>12 DEF claims
<1> QED
  BY <1>8, <1>11, <1>13, <1>17, <1>19, <1>20

-----------------------------------------------------------------------------
\* The source suite, passed.

\* The items of the source suite are items.
LEMMA SourceInItem ==
  ASSUME NEW command \in Word, NEW changed \in SUBSET Word, NEW plan \in Word, NEW candidate \in Word
  PROVE  /\ Plan(command, changed) \in Item /\ Retain(command, changed, plan) \in Item
         /\ Disclose(command, changed, plan, candidate) \in Item /\ Publish(command, changed, plan) \in Item
         /\ Outside(Plan(command, changed)) \in Item /\ Outside(Retain(command, changed, plan)) \in Item
         /\ Publish(command, changed, "other-version") \in Item
<1>1. \E success \in {"accepted", "mismatched"} : success = "mismatched" <=> "files" \in changed
  <2>1. CASE "files" \in changed
    BY <2>1
  <2>2. CASE "files" \notin changed
    BY <2>2
  <2> QED
    BY <2>1, <2>2
<1>2. Disclose(command, changed, plan, candidate) \in Item
  BY <1>1, SourceItems DEF Sourced
<1>3. /\ Sourced(Plan(command, changed), "manifest-closure-plan", command, changed, "nothing", {}, "accepted")
      /\ Sourced(Retain(command, changed, plan), "candidate-closure-validate-retain", command, changed,
                 "nothing", {plan}, "accepted")
      /\ Sourced(Publish(command, changed, plan), "artifact-publish", command, changed, "nothing",
                 {plan}, "accepted")
      /\ Sourced(Publish(command, changed, "other-version"), "artifact-publish", command, changed, "nothing",
                 {"other-version"}, "accepted")
  BY SourceItems
<1>4. /\ Outside(Plan(command, changed)) \in Item /\ Outside(Retain(command, changed, plan)) \in Item
  BY <1>3, OutsideItems DEF Sourced
<1> QED
  BY <1>2, <1>3, <1>4 DEF Sourced

\* What its calls ask for.
LEMMA SourcePuts ==
  ASSUME NEW i \in Item
  PROVE  /\ \A on \in {"main", "fresh", "same"} :
              /\ Puts(Call(on, i, Refusal), on, i, {}, Refusal, "fresh")
              /\ Puts(Call(on, i, {"commandConflict"}), on, i, {}, {"commandConflict"}, "fresh")
              /\ Puts(Call(on, i, {"accepted"}), on, i, {}, {"accepted"}, "fresh")
              /\ Puts(Call(on, i, {"replayed"}), on, i, {}, {"replayed"}, "fresh")
              /\ Puts(Call(on, i, Matched), on, i, {}, Matched, "fresh")
              /\ Puts(Call(on, i, SameMatch), on, i, {}, SameMatch, "fresh")
              /\ Puts(Setup(on, i), on, i, {}, {"accepted"}, "fresh")
              /\ Puts([Call(on, i, {"mismatched"}) EXCEPT !.ends = Answer \ {"mismatched"}],
                      on, i, {}, {"mismatched"}, "fresh")
              /\ Puts([Call(on, i, Answer \ Refusal) EXCEPT !.skips = Refusal],
                      on, i, {}, Answer \ Refusal, "fresh")
         /\ Puts(First(i), "main", i, {}, {"accepted"}, "first")
<1>1. /\ {"accepted"} \in SUBSET Answer /\ {"replayed"} \in SUBSET Answer /\ {"mismatched"} \in SUBSET Answer
      /\ {"commandConflict"} \in SUBSET Answer /\ Refusal \in SUBSET Answer
      /\ Matched \in SUBSET Answer /\ SameMatch \in SUBSET Answer
      /\ Answer \ Refusal \in SUBSET Answer /\ (Answer \ {"mismatched"}) \in SUBSET Answer
      /\ (Answer \ {"mismatched"}) \cap {"mismatched"} = {} /\ Refusal \cap (Answer \ Refusal) = {}
  BY DEF Answer, Refusal, Matched, SameMatch
<1>2. Puts(First(i), "main", i, {}, {"accepted"}, "first")
  BY FirstPuts
<1>3. ASSUME NEW on \in {"main", "fresh", "same"}, NEW want \in SUBSET Answer
      PROVE  /\ Puts(Call(on, i, want), on, i, {}, want, "fresh")
             /\ Puts(Setup(on, i), on, i, {}, {"accepted"}, "fresh")
             /\ \A stop \in SUBSET Answer : stop \cap want = {} =>
                  /\ Puts([Call(on, i, want) EXCEPT !.skips = stop], on, i, {}, want, "fresh")
                  /\ Puts([Call(on, i, want) EXCEPT !.ends = stop], on, i, {}, want, "fresh")
  BY <1>3, CallPuts, SetupPuts
<1> QED
  BY <1>1, <1>2, <1>3

\* They let the suite go on.
LEMMA SourceCallFair ==
  ASSUME NEW i \in Item
  PROVE  /\ \A on \in {"main", "fresh", "same"} :
              /\ Call(on, i, Refusal) \in Fair /\ Call(on, i, {"commandConflict"}) \in Fair
              /\ Call(on, i, {"accepted"}) \in Fair /\ Call(on, i, {"replayed"}) \in Fair
              /\ Call(on, i, Matched) \in Fair /\ Call(on, i, SameMatch) \in Fair /\ Setup(on, i) \in Fair
              /\ [Call(on, i, {"mismatched"}) EXCEPT !.ends = Answer \ {"mismatched"}] \in Fair
              /\ [Call(on, i, Answer \ Refusal) EXCEPT !.skips = Refusal] \in Fair
         /\ First(i) \in Fair
BY SourcePuts, PutsFair

\* A call that is refused leaves what was remembered, but for a habit.
LEMMA RefusedKeeps ==
  ASSUME NEW s, Ordered(s), NEW c, NEW on, NEW item, NEW off, NEW token,
         Puts(c, on, item, off, Refusal, token), NEW m \in Memory, NEW n, Takes(s, c, m, n)
  PROVE  /\ s.habit # "recordsRefusals" /\ m.ledger = {} => n.ledger = {}
         /\ s.habit = "recordsRefusals" => /\ m.ledger \subseteq n.ledger
                                           /\ \E x \in n.ledger : x.command = item.command
<1> DEFINE r == Reply(s, m, c)
           filtered == {x \in m.ledger : x.command # c.command}
<1>1. r \in Refusal /\ n = Remembered(s, m, c, r) /\ c.command = item.command
  BY DEF Takes, Puts, Asks
<1>2. m = [ledger |-> m.ledger, facts |-> m.facts]
  BY DEF Memory
<1>3. \A l : [m EXCEPT !.ledger = l].ledger = l
  BY <1>2
<1>4. \A x : x \in Prior(s, m, c) => x \in m.ledger /\ x.command = item.command
  BY <1>1 DEF Prior
<1>5. Record(c).command = item.command
  BY <1>1 DEF Record
<1> HIDE DEF r, filtered
<1>6. CASE s.habit = "recordsRefusals"
  <2>1. CASE Prior(s, m, c) = {}
    <3>1. n = [m EXCEPT !.ledger = m.ledger \cup {Record(c)}]
      BY <1>1, <1>6, <2>1, Remembers
    <3>2. n.ledger = m.ledger \cup {Record(c)}
      BY <1>3, <3>1
    <3> QED
      BY <1>5, <1>6, <3>2
  <2>2. CASE Prior(s, m, c) # {}
    <3>1. n = m
      BY <1>1, <1>6, <2>2, Remembers
    <3> QED
      BY <1>4, <1>6, <2>2, <3>1
  <2> QED
    BY <2>1, <2>2
<1>7. CASE s.habit # "recordsRefusals"
  <2>1. n = m \/ n = [m EXCEPT !.ledger = filtered]
    BY <1>1, <1>7, Remembers DEF filtered
  <2>2. n.ledger = m.ledger \/ n.ledger = filtered
    BY <1>3, <2>1
  <2> QED
    BY <1>7, <2>2 DEF filtered
<1> QED
  BY <1>6, <1>7

\* The item's command is remembered, for its operation.
Holds(m, item) == \E y \in m.ledger : y.command = item.command /\ y.op = item.op

\* After an answer other than a refusal or a mismatch, the command is known.
LEMMA AnsweredKnown ==
  ASSUME NEW s, Ordered(s), s.habit # "anyPayload", NEW c, NEW on, NEW item, NEW off, NEW want, NEW token,
         Puts(c, on, item, off, want, token), want \subseteq {"accepted", "replayed", "renewed"},
         NEW m \in Memory, NEW n, Takes(s, c, m, n)
  PROVE  Holds(n, item)
<1>1. Reply(s, m, c) \in {"accepted", "replayed", "renewed"}
  BY DEF Takes, Puts
<1>2. CASE Reply(s, m, c) = "accepted"
  <2>1. Record(c) \in n.ledger
    BY <1>2, TakesLedger
  <2>2. Record(c).command = item.command /\ Record(c).op = item.op
    BY PriorItem
  <2> QED
    BY <2>1, <2>2 DEF Holds
<1>3. CASE Reply(s, m, c) \in {"replayed", "renewed"}
  <2>1. PICK x \in Prior(s, m, c) : SamePayload(s, x, c)
    BY <1>3, Taken
  <2>2. n = m
    BY <1>3, TakesLedger
  <2>3. x \in m.ledger /\ x.command = item.command /\ x.op = item.op
    BY <2>1, PriorItem
  <2> QED
    BY <2>2, <2>3 DEF Holds
<1> QED
  BY <1>1, <1>2, <1>3

\* The calls about the plan let the suite go on.
LEMMA PlanFair ==
  ASSUME NEW order
  PROVE  LET kinds == {"symlink", "submodule"}
             block == [kind \in kinds |-> <<Call("main", Outside(Plan("manifest", {kind})), Refusal)>>]
         IN  /\ IsFiniteSet(DOMAIN block) /\ \A kind \in DOMAIN block : block[kind] \in Seq(Fair)
             /\ Each(order, block) \in Seq(Fair)
             /\ <<First(Manifest0), Call("main", Manifest0, {"replayed"})>> \in Seq(Fair)
             /\ Populated(order, Manifest0, sourceReplayGrantMutations(Manifest0.op), Candidate0.op,
                          {"replayed"}) \in Seq(Fair)
             /\ <<Call("main", Outside(Manifest0), Refusal),
                  Call("main", Plan("manifest", {"version"}), {"commandConflict"})>> \in Seq(Fair)
<1> DEFINE kinds == {"symlink", "submodule"}
           block == [kind \in kinds |-> <<Call("main", Outside(Plan("manifest", {kind})), Refusal)>>]
<1>1. /\ "manifest" \in Word /\ {"version"} \in SUBSET Word /\ "candidate" \in Word
      /\ \A kind \in kinds : {kind} \in SUBSET Word
  BY DEF Word
<1>2. \A kind \in kinds : Outside(Plan("manifest", {kind})) \in Item
  <2> HIDE DEF kinds
  <2> QED
    BY <1>1, SourceInItem
<1>3. \A kind \in kinds : <<Call("main", Outside(Plan("manifest", {kind})), Refusal)>> \in Seq(Fair)
  <2>1. \A kind \in kinds : Call("main", Outside(Plan("manifest", {kind})), Refusal) \in Fair
    BY <1>2, SourceCallFair
  <2>2. \A x \in Fair : <<x>> \in Seq(Fair)
    OBVIOUS
  <2> QED
    BY <2>1, <2>2
<1>4. DOMAIN block = kinds
      /\ \A kind \in kinds : block[kind] = <<Call("main", Outside(Plan("manifest", {kind})), Refusal)>>
  OBVIOUS
<1>5. IsFiniteSet(kinds)
  <2>1. kinds = {"symlink", "submodule", "submodule", "submodule"}
    OBVIOUS
  <2> QED
    BY <2>1, FewFinite
<1> HIDE DEF block, kinds
<1>6. IsFiniteSet(DOMAIN block) /\ \A kind \in DOMAIN block : block[kind] \in Seq(Fair)
  BY <1>3, <1>4, <1>5
<1>7. Each(order, block) \in Seq(Fair)
  BY <1>6, EachFair
<1>8. /\ Manifest0 \in Item /\ Outside(Manifest0) \in Item /\ Plan("manifest", {"version"}) \in Item
      /\ Manifest0.op = "manifest-closure-plan" /\ Candidate0.op = "candidate-closure-validate-retain"
  BY <1>1, SourceFixtures, OutsideItems, SourceInItem DEF Sourced
<1>9. /\ <<First(Manifest0), Call("main", Manifest0, {"replayed"})>> \in Seq(Fair)
      /\ <<Call("main", Outside(Manifest0), Refusal),
           Call("main", Plan("manifest", {"version"}), {"commandConflict"})>> \in Seq(Fair)
  <2>1. \A x, y \in Fair : <<x, y>> \in Seq(Fair)
    OBVIOUS
  <2> QED
    BY <1>8, <2>1, SourceCallFair
<1>10. Populated(order, Manifest0, sourceReplayGrantMutations(Manifest0.op), Candidate0.op, {"replayed"}) \in Seq(Fair)
  <2>1. Manifest0.op \in Purpose /\ Candidate0.op \in Purpose /\ Manifest0.op \in SourcePurpose
    BY <1>8 DEF Purpose, SourcePurpose
  <2>2. {"replayed"} \in SUBSET Answer
    BY DEF Answer
  <2> QED
    BY <1>8, <2>1, <2>2, SourceClaimsFinite, PopulatedFair
<1> QED
  BY <1>6, <1>7, <1>9, <1>10 DEF block, kinds

\* A refused manifest is known to a provider that remembers what it refused.
LEMMA RefusedPlansShow ==
  ASSUME NEW s, Ordered(s), NEW order, NEW q \in State,
         Runs(s, Nothing,
              Each(order, [kind \in {"symlink", "submodule"} |->
                             <<Call("main", Outside(Plan("manifest", {kind})), Refusal)>>]), q)
  PROVE  /\ s.habit # "recordsRefusals" => q[1].ledger = {}
         /\ s.habit = "recordsRefusals" => \E x \in q[1].ledger : x.command = "manifest"
<1> DEFINE kinds == {"symlink", "submodule"}
           block == [kind \in kinds |-> <<Call("main", Outside(Plan("manifest", {kind})), Refusal)>>]
           X == {p \in State : s.habit # "recordsRefusals" => p[1].ledger = {}}
           Y == {p \in X : s.habit = "recordsRefusals" => \E x \in p[1].ledger : x.command = "manifest"}
<1>1. IsFiniteSet(DOMAIN block) /\ \A kind \in DOMAIN block : block[kind] \in Seq(Fair)
  BY PlanFair
<1>2. ASSUME NEW kind \in kinds, NEW p \in X, NEW t \in State, Runs(s, p, block[kind], t)
      PROVE  t \in X /\ t \in Y
  <2> DEFINE item == Outside(Plan("manifest", {kind}))
             c == Call("main", item, Refusal)
  <2>1. item \in Item /\ item.command = "manifest"
    <3>1. "manifest" \in Word /\ {kind} \in SUBSET Word
      BY DEF Word
    <3> HIDE DEF kinds
    <3>2. Sourced(Plan("manifest", {kind}), "manifest-closure-plan", "manifest", {kind}, "nothing", {}, "accepted")
      BY <3>1, SourceItems
    <3> QED
      BY <3>2, OutsideItems DEF Sourced
  <2>2. block[kind] = <<c>>
    OBVIOUS
  <2> HIDE DEF block, kinds, item
  <2>3. Puts(c, "main", item, {}, Refusal, "fresh")
    BY <2>1, SourcePuts
  <2> HIDE DEF c
  <2>4. Answers(s, c, p, t)
    BY <1>2, <2>2, RunsOne
  <2>5. Takes(s, c, p[1], t[1]) /\ p[1] \in Memory
    BY <2>3, <2>4 DEF Answers, Puts, Asks, State
  <2> DEFINE off == {}
  <2>6. Puts(c, "main", item, off, Refusal, "fresh")
    BY <2>3
  <2> HIDE DEF off
  <2>7. /\ s.habit # "recordsRefusals" /\ p[1].ledger = {} => t[1].ledger = {}
        /\ s.habit = "recordsRefusals" => \E x \in t[1].ledger : x.command = "manifest"
    BY <2>1, <2>5, <2>6, RefusedKeeps
  <2> QED
    BY <2>7
<1>3. X \in SUBSET State /\ Y \in SUBSET State /\ "symlink" \in DOMAIN block /\ DOMAIN block = kinds
  OBVIOUS
<1>4. Nothing \in X
  BY NothingIs DEF Empty
<1>5. Y \subseteq X
  OBVIOUS
<1>6. /\ \A kind \in DOMAIN block : \A x \in X, y \in State : Runs(s, x, block[kind], y) => y \in X
      /\ \A kind \in DOMAIN block : \A x \in Y, y \in State : Runs(s, x, block[kind], y) => y \in Y
      /\ \A x \in X, y \in State : Runs(s, x, block["symlink"], y) => y \in Y
  <2> HIDE DEF X, Y, block, kinds
  <2> QED
    BY <1>2, <1>3, <1>5
<1> HIDE DEF X, Y
<1>7. Runs(s, Nothing, Each(order, block), q)
  OBVIOUS
<1> HIDE DEF block
<1>8. q \in Y
  BY <1>1, <1>3, <1>4, <1>6, <1>7, EachLeads
<1> QED
  BY <1>8 DEF X, Y

\* An unfit body under a known command, otherwise the call that is known, tells that
\* bodies are looked at before the ledger.
LEMMA UnfitShows ==
  ASSUME NEW s, Ordered(s), "ledger" \in Range(s.gates), s.habit \notin {"forgetful", "byToken"},
         NEW c, NEW item, Puts(c, "main", item, {}, Refusal, "fresh"), item.outside = "body",
         item.needs = {}, item.bars = {}, NEW m \in Memory, NEW n, Takes(s, c, m, n),
         NEW e \in m.ledger, e.command = item.command, e.op = item.op, e.body = item.body
  PROVE  "body" \in Range(s.gates) /\ ~Before(s, "ledger", "body")
<1> DEFINE want == Refusal
<1>1. Puts(c, "main", item, {}, want, "fresh")
  OBVIOUS
<1> HIDE DEF want
<1>2. "authority" \notin Stopping(s, m, c)
  BY <1>1, GrantPasses
<1> DEFINE off == {}
<1>3. Puts(c, "main", item, off, want, "fresh")
  BY <1>1
<1> HIDE DEF off
<1>4. e \in Prior(s, m, c) /\ "ledger" \in Stopping(s, m, c)
  BY <1>3, KnownCommand
<1>5. SamePayload(s, e, c)
  BY <1>3, PriorItem
<1>6. PICK g \in Gate : Stopper(s, m, c, g) /\ (g = "ledger" => \A x \in Prior(s, m, c) : ~SamePayload(s, x, c))
  <2>1. \A x \in want : x \in Refusal
    BY DEF want
  <2> QED
    BY <1>3, <2>1, Taken
<1>7. g # "ledger" /\ g \in Stopping(s, m, c)
  BY <1>4, <1>5, <1>6 DEF Stopper
<1>8. \A h \in {"policy", "references", "order"} : h \notin Stopping(s, m, c)
  <2>1. item.needs \subseteq m.facts /\ item.bars \cap m.facts = {}
    OBVIOUS
  <2> QED
    BY <1>3, <2>1, StopsItem
<1>9. g = "body"
  BY <1>2, <1>7, <1>8 DEF Gate
<1>10. "body" \in Range(s.gates)
  BY <1>7, <1>9 DEF Stopping
<1>11. ~Before(s, "ledger", "body")
  BY <1>4, <1>6, <1>9 DEF Stopper
<1> QED
  BY <1>10, <1>11

\* What the calls about the plan tell.
LEMMA PlanTells ==
  ASSUME NEW s, Ordered(s), NEW order, NEW q \in State, Runs(s, Nothing, PlanCalls(order), q)
  PROVE  /\ {"authority", "body", "ledger"} \subseteq Range(s.gates)
         /\ ~Before(s, "ledger", "authority") /\ ~Before(s, "ledger", "body")
         /\ s.habit \notin {"forgetful", "byToken", "renews", "leaks", "dropsOnRefusal", "anyPayload",
                            "recordsRefusals"}
         /\ \A c \in sourceReplayGrantMutations("manifest-closure-plan") :
              <<"manifest-closure-plan", c>> \notin s.forgets
         /\ "version" \notin s.overlooks
         /\ \A x \in q[1].ledger : x.command = "manifest" /\ x.op = "manifest-closure-plan"
<1> DEFINE refused == Each(order, [kind \in {"symlink", "submodule"} |->
                                     <<Call("main", Outside(Plan("manifest", {kind})), Refusal)>>])
           a == First(Manifest0)
           b == Call("main", Manifest0, {"replayed"})
           claims == sourceReplayGrantMutations(Manifest0.op)
           replayed == {"replayed"}
           foreign == Candidate0.op
           known == Populated(order, Manifest0, claims, foreign, replayed)
           unfit == Outside(Manifest0)
           c == Call("main", unfit, Refusal)
           other == Plan("manifest", {"version"})
           d == Call("main", other, {"commandConflict"})
           A == refused \o <<a, b>>
           B == A \o known
<1>1. PlanCalls(order) = refused \o <<a, b>> \o known \o <<c, d>>
  BY Zenon DEF PlanCalls
<1>2. /\ refused \in Seq(Fair) /\ <<a, b>> \in Seq(Fair) /\ known \in Seq(Fair) /\ <<c, d>> \in Seq(Fair)
  BY PlanFair, Zenon
<1>3. /\ Manifest0 \in Item /\ Manifest0.op = "manifest-closure-plan" /\ Manifest0.command = "manifest"
      /\ Manifest0.body = {} /\ Manifest0.outside = "nothing"
      /\ Candidate0.op = "candidate-closure-validate-retain"
  BY SourceFixtures DEF Sourced
<1>4. /\ unfit \in Item /\ unfit.op = "manifest-closure-plan" /\ unfit.command = "manifest" /\ unfit.body = {}
      /\ unfit.outside = "body" /\ unfit.needs = {} /\ unfit.bars = {}
  BY SourceFixtures, OutsideItems DEF Sourced
<1>5. /\ other \in Item /\ other.op = "manifest-closure-plan" /\ other.command = "manifest"
      /\ other.body = {"version"}
  <2>1. "manifest" \in Word /\ {"version"} \in SUBSET Word
    BY DEF Word
  <2> QED
    BY <2>1, SourceItems DEF Sourced
<1> HIDE DEF unfit, other
<1>6. /\ Puts(a, "main", Manifest0, {}, {"accepted"}, "first")
      /\ Puts(b, "main", Manifest0, {}, {"replayed"}, "fresh")
      /\ Puts(c, "main", unfit, {}, Refusal, "fresh") /\ Puts(d, "main", other, {}, {"commandConflict"}, "fresh")
  BY <1>3, <1>4, <1>5, SourcePuts
<1>7. Runs(s, Nothing, B \o <<c, d>>, q)
  BY <1>1
<1> HIDE DEF refused, a, b, claims, replayed, foreign, known, c, d
<1>8. A \in Seq(Fair) /\ B \in Seq(Fair)
  BY <1>2
<1> HIDE DEF A, B
<1>9. PICK v \in State : Runs(s, Nothing, B, v) /\ Runs(s, v, <<c, d>>, q)
  BY <1>2, <1>7, <1>8, RunsBoth
<1>10. PICK u \in State : Runs(s, Nothing, A, u) /\ Runs(s, u, known, v)
  BY <1>2, <1>8, <1>9, RunsBoth DEF B
<1>11. PICK r \in State : Runs(s, Nothing, refused, r) /\ Runs(s, r, <<a, b>>, u)
  BY <1>2, <1>10, RunsBoth DEF A
<1>12. PICK t \in State : Answers(s, a, r, t) /\ Answers(s, b, t, u)
  BY <1>11, RunsTwo
<1>13. PICK w \in State : Answers(s, c, v, w) /\ Answers(s, d, w, q)
  BY <1>9, RunsTwo
<1>14. /\ s.habit # "recordsRefusals" => r[1].ledger = {}
       /\ s.habit = "recordsRefusals" => \E x \in r[1].ledger : x.command = "manifest"
  BY <1>11, RefusedPlansShow DEF refused
<1> DEFINE l == r[1]
           m == t[1]
           n == v[1]
           o == w[1]
<1>15. /\ Takes(s, a, l, m) /\ Takes(s, b, m, u[1]) /\ Takes(s, c, n, o) /\ Takes(s, d, o, q[1])
       /\ l \in Memory /\ m \in Memory /\ n \in Memory /\ o \in Memory /\ q[1] \in Memory
  BY <1>6, <1>12, <1>13 DEF Answers, Puts, Asks, State
<1>16. /\ s.habit # "recordsRefusals" => l.ledger = {}
       /\ s.habit = "recordsRefusals" => \E x \in l.ledger : x.command = "manifest"
  BY <1>14
<1> HIDE DEF l, m
<1>17. Reply(s, l, a) = "accepted"
  BY <1>6, <1>15 DEF Takes, Puts
<1>18. /\ "ledger" \in Range(s.gates) /\ s.habit \notin {"forgetful", "byToken", "renews"}
       /\ u[1] = m /\ Record(a) \in m.ledger /\ Record(a).command = "manifest"
       /\ Record(a).op = "manifest-closure-plan" /\ Record(a).body = {}
  <2>1. \A x \in l.ledger : x.command # Manifest0.command \/ s.habit # "byToken"
    BY <1>16
  <2> QED
    BY <1>3, <1>6, <1>15, <1>17, <2>1, RetryTells
<1>19. s.habit # "recordsRefusals"
  <2>1. SUFFICES ASSUME s.habit = "recordsRefusals" PROVE FALSE
    OBVIOUS
  <2>2. PICK x \in l.ledger : x.command = "manifest"
    BY <1>16, <2>1
  <2>3. "ledger" \in Stopping(s, l, a)
    BY <1>3, <1>6, <1>18, <2>1, <2>2, KnownCommand
  <2>4. Stopping(s, l, a) = {}
    BY <1>6, <1>15, <1>17, Taken
  <2> QED
    BY <2>3, <2>4
<1>20. \A x \in m.ledger : x = Record(a)
  BY <1>6, <1>15, <1>16, <1>19, TakesLedger
<1> DEFINE e == Record(a)
<1>21. /\ e \in m.ledger /\ e.command = "manifest" /\ e.op = "manifest-closure-plan" /\ e.body = {}
       /\ \A x \in m.ledger : x = e
  BY <1>18, <1>20
<1> HIDE DEF e
<1>22. /\ n = m /\ "authority" \in Range(s.gates) /\ ~Before(s, "ledger", "authority")
       /\ s.habit \notin {"leaks", "dropsOnRefusal"}
       /\ \A x \in claims : <<"manifest-closure-plan", x>> \notin s.forgets
  <2>1. /\ claims \in SUBSET Word /\ IsFiniteSet(claims)
    <3>1. Manifest0.op \in SourcePurpose
      BY <1>3 DEF SourcePurpose
    <3> QED
      BY <3>1, SourceClaimsFinite DEF claims
  <2>2. Manifest0.op \in Purpose /\ foreign \in Purpose
    BY <1>3 DEF Purpose, foreign
  <2>3. replayed \subseteq {"replayed", "accepted"} /\ replayed = {"replayed"}
    BY DEF replayed
  <2>4. /\ e \in u[1].ledger /\ e.command = Manifest0.command /\ e.op = Manifest0.op
        /\ Manifest0 \in Item /\ Manifest0.outside = "nothing"
        /\ "ledger" \in Range(s.gates) /\ s.habit \notin {"forgetful", "byToken"}
        /\ Runs(s, u, Populated(order, Manifest0, claims, foreign, replayed), v)
        /\ u \in State /\ v \in State
    BY <1>3, <1>10, <1>18, <1>21 DEF known
  <2>5. /\ SameMain(u, v) /\ "authority" \in Range(s.gates) /\ ~Before(s, "ledger", "authority")
        /\ s.habit \notin {"leaks", "dropsOnRefusal"}
        /\ \A x \in claims : <<Manifest0.op, x>> \notin s.forgets
    BY <2>1, <2>2, <2>3, <2>4, PopulatedShows
  <2> QED
    BY <1>3, <1>18, <2>5 DEF SameMain
<1> HIDE DEF n, o
<1>23. "body" \in Range(s.gates) /\ ~Before(s, "ledger", "body")
  <2>1. /\ e \in n.ledger /\ e.command = unfit.command /\ e.op = unfit.op /\ e.body = unfit.body
        /\ s.habit \notin {"forgetful", "byToken"}
    BY <1>4, <1>18, <1>21, <1>22
  <2> QED
    BY <1>4, <1>6, <1>15, <1>18, <2>1, UnfitShows
<1>24. o = n
  <2> DEFINE off == {}
             want == Refusal
  <2>1. Puts(c, "main", unfit, off, want, "fresh")
    BY <1>6
  <2>2. Reply(s, n, c) \in Refusal
    BY <1>6, <1>15 DEF Takes, Puts
  <2> HIDE DEF off, want
  <2> QED
    BY <1>15, <1>19, <1>22, <2>1, <2>2, NothingNew
<1>25. s.habit # "anyPayload" /\ "version" \notin s.overlooks
  <2>1. /\ s.habit # "anyPayload"
        /\ \E x \in o.ledger : x.op = other.op => x.body \ s.overlooks # other.body \ s.overlooks
    BY <1>6, <1>15, ConflictTells
  <2>2. {} \ s.overlooks # {"version"} \ s.overlooks
    BY <1>5, <1>21, <1>22, <1>24, <2>1
  <2> QED
    BY <2>1, <2>2
<1>26. q[1] = o
  <2>1. Reply(s, o, d) \in Refusal
    BY <1>6, <1>15 DEF Takes, Puts, Refusal
  <2> QED
    BY <1>6, <1>15, <1>19, <1>22, <2>1, NothingNew
<1>27. \A x \in q[1].ledger : x.command = "manifest" /\ x.op = "manifest-closure-plan"
  BY <1>21, <1>22, <1>24, <1>26
<1>28. \A x \in sourceReplayGrantMutations("manifest-closure-plan") : <<"manifest-closure-plan", x>> \notin s.forgets
  BY <1>3, <1>22 DEF claims
<1> QED
  BY <1>18, <1>19, <1>22, <1>23, <1>25, <1>27, <1>28

\* The calls about the candidate let the suite go on.
LEMMA RetentionFair ==
  ASSUME NEW order
  PROVE  /\ <<Call("main", Retain("manifest", {}, "manifest"), {"commandConflict"}),
              First(Candidate0), Call("main", Candidate0, {"replayed"})>> \in Seq(Fair)
         /\ Populated(order, Candidate0, sourceReplayGrantMutations(Candidate0.op), Manifest0.op,
                      {"replayed"}) \in Seq(Fair)
         /\ <<Call("main", Outside(Candidate0), Refusal),
              Call("main", Retain("candidate", {"files"}, "manifest"), {"commandConflict"}),
              Call("main", Outside(Retain("wrong-path", {"path"}, "manifest")), Refusal),
              Call("main", Outside(Retain("symlink", {"kind"}, "manifest")), Refusal),
              Call("main", Retain("wrong-plan", {"plan"}, "other-plan"), Refusal)>> \in Seq(Fair)
<1>1. /\ "manifest" \in Word /\ "candidate" \in Word /\ "wrong-path" \in Word /\ "symlink" \in Word
      /\ "wrong-plan" \in Word /\ "other-plan" \in Word
      /\ {"files"} \in SUBSET Word /\ {"path"} \in SUBSET Word /\ {"kind"} \in SUBSET Word
      /\ {"plan"} \in SUBSET Word /\ {} \in SUBSET Word
  <2>1. "kind" \in Word
    BY DEF Word, ResultParts, StartParts
  <2> QED
    BY <2>1 DEF Word
<1>2. /\ Candidate0 \in Item /\ Candidate0.op = "candidate-closure-validate-retain"
      /\ Manifest0.op = "manifest-closure-plan" /\ Outside(Candidate0) \in Item
  BY SourceFixtures, OutsideItems DEF Sourced
<1>3. /\ Retain("manifest", {}, "manifest") \in Item /\ Retain("candidate", {"files"}, "manifest") \in Item
      /\ Outside(Retain("wrong-path", {"path"}, "manifest")) \in Item
      /\ Outside(Retain("symlink", {"kind"}, "manifest")) \in Item
      /\ Retain("wrong-plan", {"plan"}, "other-plan") \in Item
  BY <1>1, SourceInItem
<1>4. <<Call("main", Retain("manifest", {}, "manifest"), {"commandConflict"}),
        First(Candidate0), Call("main", Candidate0, {"replayed"})>> \in Seq(Fair)
  <2>1. \A x, y, z \in Fair : <<x, y, z>> \in Seq(Fair)
    OBVIOUS
  <2> QED
    BY <1>2, <1>3, <2>1, SourceCallFair
<1>5. <<Call("main", Outside(Candidate0), Refusal),
        Call("main", Retain("candidate", {"files"}, "manifest"), {"commandConflict"}),
        Call("main", Outside(Retain("wrong-path", {"path"}, "manifest")), Refusal),
        Call("main", Outside(Retain("symlink", {"kind"}, "manifest")), Refusal),
        Call("main", Retain("wrong-plan", {"plan"}, "other-plan"), Refusal)>> \in Seq(Fair)
  <2>1. \A x, y, z, v, w \in Fair : <<x, y, z, v, w>> \in Seq(Fair)
    OBVIOUS
  <2>2. /\ Call("main", Outside(Candidate0), Refusal) \in Fair
        /\ Call("main", Retain("candidate", {"files"}, "manifest"), {"commandConflict"}) \in Fair
        /\ Call("main", Outside(Retain("wrong-path", {"path"}, "manifest")), Refusal) \in Fair
        /\ Call("main", Outside(Retain("symlink", {"kind"}, "manifest")), Refusal) \in Fair
        /\ Call("main", Retain("wrong-plan", {"plan"}, "other-plan"), Refusal) \in Fair
    BY <1>2, <1>3, SourceCallFair
  <2> QED
    BY <2>1, <2>2
<1>6. Populated(order, Candidate0, sourceReplayGrantMutations(Candidate0.op), Manifest0.op, {"replayed"}) \in Seq(Fair)
  <2>1. Candidate0.op \in Purpose /\ Manifest0.op \in Purpose /\ Candidate0.op \in SourcePurpose
    BY <1>2 DEF Purpose, SourcePurpose
  <2>2. {"replayed"} \in SUBSET Answer
    BY DEF Answer
  <2> QED
    BY <1>2, <2>1, <2>2, SourceClaimsFinite, PopulatedFair
<1> QED
  BY <1>4, <1>5, <1>6

\* A populated call on the main service, as the source suite makes it.
LEMMA SourcePopulatedShows ==
  ASSUME NEW s, Ordered(s), "ledger" \in Range(s.gates), s.habit \notin {"forgetful", "byToken"},
         NEW order, NEW item \in Item, item.outside = "nothing", item.op \in SourcePurpose,
         NEW foreign \in SourcePurpose,
         NEW replayed, replayed \subseteq {"replayed", "accepted"},
         s.habit # "dropsOnRefusal" \/ replayed = {"replayed"},
         NEW p \in State, NEW e \in p[1].ledger, e.command = item.command, e.op = item.op,
         NEW q \in State,
         Runs(s, p, Populated(order, item, sourceReplayGrantMutations(item.op), foreign, replayed), q)
  PROVE  SameMain(p, q) /\ \A c \in sourceReplayGrantMutations(item.op) : <<item.op, c>> \notin s.forgets
<1> DEFINE claims == sourceReplayGrantMutations(item.op)
<1>1. claims \in SUBSET Word /\ IsFiniteSet(claims)
  BY SourceClaimsFinite
<1>2. item.op \in Purpose /\ foreign \in Purpose
  BY DEF SourcePurpose, Purpose
<1>3. Runs(s, p, Populated(order, item, claims, foreign, replayed), q)
  OBVIOUS
<1> HIDE DEF claims
<1>4. SameMain(p, q) /\ \A c \in claims : <<item.op, c>> \notin s.forgets
  BY <1>1, <1>2, <1>3, PopulatedShows
<1> QED
  BY <1>4 DEF claims

\* A command that a call does not have stays unknown.
LEMMA StaysUnknown ==
  ASSUME NEW s, Ordered(s), NEW c, NEW on, NEW item, NEW off, NEW want, NEW token,
         Puts(c, on, item, off, want, token), NEW m \in Memory, NEW n, Takes(s, c, m, n),
         NEW command, item.command # command, \A x \in m.ledger : x.command # command
  PROVE  \A x \in n.ledger : x.command # command
<1>1. Record(c).command = item.command
  BY DEF Record, Puts, Asks
<1>2. \A x \in n.ledger : x \in m.ledger \/ x = Record(c)
  BY TakesLedger
<1> QED
  BY <1>1, <1>2

\* A new command under a right grant, with a body that fits, is refused only by the
\* gate that asks for what it needs.
LEMMA AskedFor ==
  ASSUME NEW s, Ordered(s), NEW c, NEW on, NEW item, NEW token, Puts(c, on, item, {}, Refusal, token),
         item.outside = "nothing", NEW m \in Memory, NEW n, Takes(s, c, m, n),
         \A x \in m.ledger : x.command # item.command
  PROVE  Asking(item.op) \in Range(s.gates)
<1> DEFINE off == {}
           want == Refusal
<1>1. Puts(c, on, item, off, want, token)
  OBVIOUS
<1>2. "authority" \notin Stopping(s, m, c)
  <2>1. Puts(c, on, item, {}, want, token)
    OBVIOUS
  <2> HIDE DEF off, want
  <2> QED
    BY <2>1, GrantPasses
<1>3. \A x \in want : x \in Refusal
  OBVIOUS
<1> HIDE DEF off, want
<1>4. Prior(s, m, c) = {}
  <2>0. item.command = c.command
    BY <1>1 DEF Puts, Asks
  <2>1. \A x : x \in Prior(s, m, c) => x \in m.ledger /\ x.command = item.command
    BY <2>0 DEF Prior
  <2> QED
    BY <2>1
<1>5. \A g \in {"body", "policy", "ledger"} : g \notin Stopping(s, m, c)
  BY <1>1, <1>4, StopsItem
<1>6. PICK g \in Gate : Stopper(s, m, c, g)
  BY <1>1, <1>3, Taken
<1>7. g \in {"references", "order"} /\ g \in Stopping(s, m, c)
  BY <1>2, <1>5, <1>6 DEF Gate, Stopper
<1>8. g = Asking(item.op)
  <2>0. item.op = c.op
    BY <1>1 DEF Puts, Asks
  <2>1. \A h \in {"references", "order"} : h \in Stopping(s, m, c) => h = Asking(item.op)
    BY <2>0, StoppingGates
  <2> QED
    BY <1>7, <2>1
<1> QED
  BY <1>7, <1>8 DEF Stopping

\* What the calls about the candidate tell.
LEMMA RetentionTells ==
  ASSUME NEW s, Ordered(s), "ledger" \in Range(s.gates),
         s.habit \notin {"forgetful", "byToken", "dropsOnRefusal", "recordsRefusals", "anyPayload"},
         NEW order, NEW p \in State, \A x \in p[1].ledger : x.command = "manifest" /\ x.op = "manifest-closure-plan",
         NEW q \in State, Runs(s, p, RetentionCalls(order), q)
  PROVE  /\ "references" \in Range(s.gates) /\ s.habit # "byOperation" /\ "files" \notin s.overlooks
         /\ \A x \in q[1].ledger : x.command # "publication"
         /\ \A c \in sourceReplayGrantMutations("candidate-closure-validate-retain") :
              <<"candidate-closure-validate-retain", c>> \notin s.forgets
<1> DEFINE taken == Retain("manifest", {}, "manifest")
           a == Call("main", taken, {"commandConflict"})
           b == First(Candidate0)
           c == Call("main", Candidate0, {"replayed"})
           replayed == {"replayed"}
           foreign == Manifest0.op
           known == Populated(order, Candidate0, sourceReplayGrantMutations(Candidate0.op), foreign, replayed)
           unfit == Outside(Candidate0)
           d == Call("main", unfit, Refusal)
           other == Retain("candidate", {"files"}, "manifest")
           e == Call("main", other, {"commandConflict"})
           path == Outside(Retain("wrong-path", {"path"}, "manifest"))
           f == Call("main", path, Refusal)
           link == Outside(Retain("symlink", {"kind"}, "manifest"))
           g == Call("main", link, Refusal)
           plan == Retain("wrong-plan", {"plan"}, "other-plan")
           h == Call("main", plan, Refusal)
           op == "candidate-closure-validate-retain"
           A == <<a, b, c>> \o known
<1>1. RetentionCalls(order) = <<a, b, c>> \o known \o <<d, e, f, g, h>>
  BY Zenon DEF RetentionCalls
<1>2. <<a, b, c>> \in Seq(Fair) /\ known \in Seq(Fair) /\ <<d, e, f, g, h>> \in Seq(Fair)
  BY RetentionFair, Zenon
<1>3. /\ "manifest" \in Word /\ "candidate" \in Word /\ "wrong-path" \in Word /\ "symlink" \in Word
      /\ "wrong-plan" \in Word /\ "other-plan" \in Word
      /\ {"files"} \in SUBSET Word /\ {"path"} \in SUBSET Word /\ {"kind"} \in SUBSET Word
      /\ {"plan"} \in SUBSET Word /\ {} \in SUBSET Word
  <2>1. "kind" \in Word
    BY DEF Word, ResultParts, StartParts
  <2> QED
    BY <2>1 DEF Word
<1>4. /\ Candidate0 \in Item /\ Candidate0.op = op /\ Candidate0.command = "candidate" /\ Candidate0.body = {}
      /\ Candidate0.outside = "nothing" /\ foreign = "manifest-closure-plan"
  BY SourceFixtures DEF Sourced
<1>5. unfit \in Item /\ unfit.command = "candidate" /\ unfit.op = op /\ unfit.body = {}
  BY SourceFixtures, OutsideItems DEF Sourced
<1>6. /\ taken \in Item /\ taken.op = op /\ taken.command = "manifest"
      /\ other \in Item /\ other.op = op /\ other.command = "candidate" /\ other.body = {"files"}
      /\ plan \in Item /\ plan.op = op /\ plan.command = "wrong-plan" /\ plan.outside = "nothing"
  <2>1. /\ Sourced(taken, op, "manifest", {}, "nothing", {"manifest"}, "accepted")
        /\ Sourced(other, op, "candidate", {"files"}, "nothing", {"manifest"}, "accepted")
        /\ Sourced(plan, op, "wrong-plan", {"plan"}, "nothing", {"other-plan"}, "accepted")
    BY <1>3, SourceItems
  <2> HIDE DEF taken, other, plan
  <2> QED
    BY <2>1 DEF Sourced
<1>7. path \in Item /\ path.command = "wrong-path" /\ link \in Item /\ link.command = "symlink"
  <2>1. /\ Sourced(Retain("wrong-path", {"path"}, "manifest"), op, "wrong-path", {"path"}, "nothing",
                   {"manifest"}, "accepted")
        /\ Sourced(Retain("symlink", {"kind"}, "manifest"), op, "symlink", {"kind"}, "nothing",
                   {"manifest"}, "accepted")
    BY <1>3, SourceItems
  <2> QED
    BY <2>1, OutsideItems DEF Sourced
<1> HIDE DEF taken, unfit, other, path, link, plan
<1>8. /\ Puts(a, "main", taken, {}, {"commandConflict"}, "fresh")
      /\ Puts(b, "main", Candidate0, {}, {"accepted"}, "first")
      /\ Puts(c, "main", Candidate0, {}, {"replayed"}, "fresh")
      /\ Puts(d, "main", unfit, {}, Refusal, "fresh") /\ Puts(e, "main", other, {}, {"commandConflict"}, "fresh")
      /\ Puts(f, "main", path, {}, Refusal, "fresh") /\ Puts(g, "main", link, {}, Refusal, "fresh")
      /\ Puts(h, "main", plan, {}, Refusal, "fresh")
  BY <1>4, <1>5, <1>6, <1>7, SourcePuts
<1>9. Runs(s, p, A \o <<d, e, f, g, h>>, q)
  BY <1>1
<1> HIDE DEF a, b, c, d, e, f, g, h, replayed, foreign, known
<1>10. A \in Seq(Fair)
  BY <1>2
<1> HIDE DEF A
<1>11. PICK v \in State : Runs(s, p, A, v) /\ Runs(s, v, <<d, e, f, g, h>>, q)
  BY <1>2, <1>9, <1>10, RunsBoth
<1>12. PICK u \in State : Runs(s, p, <<a, b, c>>, u) /\ Runs(s, u, known, v)
  BY <1>2, <1>11, RunsBoth DEF A
<1>13. PICK r \in State, t \in State : Answers(s, a, p, r) /\ Answers(s, b, r, t) /\ Answers(s, c, t, u)
  BY <1>12, RunsThree
<1>14. PICK w \in State, x \in State, y \in State, z \in State :
         /\ Answers(s, d, v, w) /\ Answers(s, e, w, x) /\ Answers(s, f, x, y)
         /\ Answers(s, g, y, z) /\ Answers(s, h, z, q)
  BY <1>11, RunsFive
<1> DEFINE j == p[1]
           k == r[1]
           l == t[1]
           m == u[1]
           n == v[1]
           wm == w[1]
           xm == x[1]
           ym == y[1]
           zm == z[1]
           qm == q[1]
<1>15. /\ Takes(s, a, j, k) /\ Takes(s, b, k, l) /\ Takes(s, c, l, m)
       /\ j \in Memory /\ k \in Memory /\ l \in Memory /\ m \in Memory
  BY <1>8, <1>13 DEF Answers, Puts, Asks, State
<1>16. /\ Takes(s, d, n, wm) /\ Takes(s, e, wm, xm) /\ Takes(s, f, xm, ym)
       /\ Takes(s, g, ym, zm) /\ Takes(s, h, zm, qm)
       /\ n \in Memory /\ wm \in Memory /\ xm \in Memory /\ ym \in Memory /\ zm \in Memory
  BY <1>8, <1>14 DEF Answers, Puts, Asks, State
<1>17. \A i \in j.ledger : i.command = "manifest" /\ i.op = "manifest-closure-plan"
  OBVIOUS
<1> HIDE DEF j, k, l, wm, xm, ym, zm, qm
<1>18. s.habit # "byOperation"
  <2>1. \E i \in j.ledger : i.command = taken.command /\ (s.habit = "byOperation" => i.op = taken.op)
    BY <1>8, <1>15, ConflictTells
  <2> QED
    BY <1>6, <1>17, <2>1
<1>19. k = j
  <2>1. Reply(s, j, a) \in Refusal
    BY <1>8, <1>15 DEF Takes, Puts, Refusal
  <2> QED
    BY <1>8, <1>15, <2>1, NothingNew
<1>20. /\ m = l /\ Record(b) \in l.ledger /\ Record(b).command = "candidate" /\ Record(b).op = op
       /\ Record(b).body = {}
  <2>1. \A i \in k.ledger : i.command # Candidate0.command \/ s.habit # "byToken"
    OBVIOUS
  <2>2. Reply(s, k, b) = "accepted"
    BY <1>8, <1>15 DEF Takes, Puts
  <2> QED
    BY <1>4, <1>8, <1>15, <2>1, <2>2, RetryTells
<1>21. \A i \in l.ledger : i.command = "manifest" \/ i = Record(b)
  BY <1>8, <1>15, <1>17, <1>19, TakesLedger
<1> DEFINE i == Record(b)
<1>22. SameMain(u, v) /\ \A claim \in sourceReplayGrantMutations(op) : <<op, claim>> \notin s.forgets
  <2>1. Candidate0.op \in SourcePurpose /\ foreign \in SourcePurpose
    BY <1>4 DEF SourcePurpose
  <2>2. replayed \subseteq {"replayed", "accepted"} /\ replayed = {"replayed"}
    BY DEF replayed
  <2>3. i \in u[1].ledger /\ i.command = Candidate0.command /\ i.op = Candidate0.op
    BY <1>4, <1>20
  <2>4. Runs(s, u, Populated(order, Candidate0, sourceReplayGrantMutations(Candidate0.op), foreign, replayed), v)
    BY <1>12 DEF known
  <2>5. /\ Candidate0 \in Item /\ Candidate0.outside = "nothing" /\ u \in State /\ v \in State
    BY <1>4
  <2> HIDE DEF i
  <2>6. SameMain(u, v) /\ \A claim \in sourceReplayGrantMutations(Candidate0.op) : <<Candidate0.op, claim>> \notin s.forgets
    BY <2>1, <2>2, <2>3, <2>4, <2>5, SourcePopulatedShows
  <2> QED
    BY <1>4, <2>6
<1>23. n = l
  BY <1>20, <1>22 DEF SameMain
<1> HIDE DEF m, n, i
<1>24. /\ Record(d).command = "candidate" /\ Record(d).body = {} /\ Record(e).command = "candidate"
       /\ Record(f).command = "wrong-path" /\ Record(g).command = "symlink"
  <2>1. Record(d).command = unfit.command /\ Record(d).body = unfit.body
    BY <1>8 DEF Record, Puts, Asks
  <2>2. Record(e).command = other.command /\ Record(f).command = path.command /\ Record(g).command = link.command
    BY <1>8 DEF Record, Puts, Asks
  <2> QED
    BY <1>5, <1>6, <1>7, <2>1, <2>2
<1>25. "files" \notin s.overlooks
  <2>1. PICK j1 \in wm.ledger : /\ j1.command = other.command
                                /\ j1.op = other.op => j1.body \ s.overlooks # other.body \ s.overlooks
    BY <1>8, <1>16, ConflictTells
  <2>2. j1 \in l.ledger \/ j1 = Record(d)
    <3> DEFINE off == {}
               want == Refusal
    <3>1. Puts(d, "main", unfit, off, want, "fresh")
      BY <1>8
    <3> HIDE DEF off, want
    <3> QED
      BY <1>16, <1>23, <2>1, <3>1, TakesLedger
  <2>3. j1.op = op /\ j1.body = {}
    <3>1. Record(d).op = op
      BY <1>5, <1>8 DEF Record, Puts, Asks
    <3> QED
      BY <1>6, <1>20, <1>21, <1>24, <2>1, <2>2, <3>1
  <2> QED
    BY <1>6, <2>1, <2>3
<1>26. \A j1 \in zm.ledger : j1.command # "wrong-plan" /\ j1.command # "publication"
  <2> DEFINE off == {}
             want == Refusal
             conflict == {"commandConflict"}
  <2>1. /\ Puts(d, "main", unfit, off, want, "fresh") /\ Puts(e, "main", other, off, conflict, "fresh")
        /\ Puts(f, "main", path, off, want, "fresh") /\ Puts(g, "main", link, off, want, "fresh")
    BY <1>8
  <2> HIDE DEF off, want, conflict
  <2>2. /\ \A j1 \in wm.ledger : j1 \in l.ledger \/ j1 = Record(d)
        /\ \A j1 \in xm.ledger : j1 \in wm.ledger \/ j1 = Record(e)
        /\ \A j1 \in ym.ledger : j1 \in xm.ledger \/ j1 = Record(f)
        /\ \A j1 \in zm.ledger : j1 \in ym.ledger \/ j1 = Record(g)
    BY <1>16, <1>23, <2>1, TakesLedger
  <2> QED
    BY <1>20, <1>21, <1>24, <2>2
<1>27. "references" \in Range(s.gates)
  <2>1. Asking(plan.op) \in Range(s.gates)
    BY <1>6, <1>8, <1>16, <1>26, AskedFor
  <2> QED
    BY <1>6, <2>1 DEF Asking
<1>28. \A j1 \in qm.ledger : j1.command # "publication"
  <2> DEFINE off == {}
             want == Refusal
  <2>1. Puts(h, "main", plan, off, want, "fresh")
    BY <1>8
  <2>2. Record(h).command = "wrong-plan"
    BY <1>6, <1>8, PriorItem
  <2> HIDE DEF off, want
  <2>3. \A j1 \in qm.ledger : j1 \in zm.ledger \/ j1 = Record(h)
    BY <1>16, <2>1, TakesLedger
  <2> QED
    BY <1>26, <2>2, <2>3
<1> QED
  BY <1>18, <1>22, <1>25, <1>27, <1>28 DEF qm

\* The calls about the disclosure let the suite go on.
LEMMA DisclosureFair ==
  ASSUME NEW order
  PROVE  /\ <<Call("main", Disclose("candidate", {}, "manifest", "candidate"), {"commandConflict"})>> \in Seq(Fair)
         /\ Each(order, [part \in {"id", "digest"} |->
                    <<Call("main", Disclose(part, {part}, "other-plan", "candidate"), Refusal),
                      Call("main", Disclose(part, {}, "manifest", "candidate"), Matched)>>]) \in Seq(Fair)
         /\ <<Call("main", Publish("publication", {"disclosure"}, "missing-disclosure"), Refusal),
              [Call("main", Disclose("mismatch", {"files"}, "manifest", "candidate"), {"mismatched"})
                 EXCEPT !.ends = Answer \ {"mismatched"}],
              Call("main", Publish("mismatch-publication", {}, "mismatch"), Refusal),
              Call("main", Disclosure0, Matched), Call("main", Disclosure0, SameMatch)>> \in Seq(Fair)
         /\ Populated(order, Disclosure0, sourceReplayGrantMutations(Disclosure0.op), Candidate0.op,
                      SameMatch) \in Seq(Fair)
<1> DEFINE parts == {"id", "digest"}
           Tried(part) == <<Call("main", Disclose(part, {part}, "other-plan", "candidate"), Refusal),
                            Call("main", Disclose(part, {}, "manifest", "candidate"), Matched)>>
           block == [part \in parts |-> Tried(part)]
<1>1. /\ "manifest" \in Word /\ "candidate" \in Word /\ "other-plan" \in Word /\ "publication" \in Word
      /\ "missing-disclosure" \in Word /\ "mismatch" \in Word /\ "mismatch-publication" \in Word
      /\ {"files"} \in SUBSET Word /\ {"disclosure"} \in SUBSET Word /\ {} \in SUBSET Word
      /\ \A part \in parts : part \in Word /\ {part} \in SUBSET Word
  <2>1. "id" \in Word
    BY DEF Word, RequestParts
  <2> QED
    BY <2>1 DEF Word
<1>2. \A part \in parts : /\ Disclose(part, {part}, "other-plan", "candidate") \in Item
                          /\ Disclose(part, {}, "manifest", "candidate") \in Item
  <2> HIDE DEF parts
  <2> QED
    BY <1>1, SourceInItem
<1>3. \A part \in parts : Tried(part) \in Seq(Fair)
  <2>1. \A x, y \in Fair : <<x, y>> \in Seq(Fair)
    OBVIOUS
  <2> QED
    BY <1>2, <2>1, SourceCallFair
<1>4. Each(order, block) \in Seq(Fair)
  <2>1. parts = {"id", "digest", "digest", "digest"}
    OBVIOUS
  <2>2. IsFiniteSet(parts)
    BY <2>1, FewFinite
  <2>3. DOMAIN block = parts /\ \A part \in parts : block[part] = Tried(part)
    OBVIOUS
  <2> HIDE DEF block, parts, Tried
  <2> QED
    BY <1>3, <2>2, <2>3, EachFair
<1>5. /\ Disclosure0 \in Item /\ Disclosure0.op = "artifact-disclosure-verify"
      /\ Candidate0.op = "candidate-closure-validate-retain"
  BY SourceFixtures DEF Sourced
<1>6. /\ Disclose("candidate", {}, "manifest", "candidate") \in Item
      /\ Publish("publication", {"disclosure"}, "missing-disclosure") \in Item
      /\ Disclose("mismatch", {"files"}, "manifest", "candidate") \in Item
      /\ Publish("mismatch-publication", {}, "mismatch") \in Item
  BY <1>1, SourceInItem
<1>7. <<Call("main", Disclose("candidate", {}, "manifest", "candidate"), {"commandConflict"})>> \in Seq(Fair)
  <2>1. \A x \in Fair : <<x>> \in Seq(Fair)
    OBVIOUS
  <2> QED
    BY <1>6, <2>1, SourceCallFair
<1>8. <<Call("main", Publish("publication", {"disclosure"}, "missing-disclosure"), Refusal),
              [Call("main", Disclose("mismatch", {"files"}, "manifest", "candidate"), {"mismatched"})
                 EXCEPT !.ends = Answer \ {"mismatched"}],
              Call("main", Publish("mismatch-publication", {}, "mismatch"), Refusal),
              Call("main", Disclosure0, Matched), Call("main", Disclosure0, SameMatch)>> \in Seq(Fair)
  <2>1. \A x, y, z, v, w \in Fair : <<x, y, z, v, w>> \in Seq(Fair)
    OBVIOUS
  <2>2. /\ Call("main", Publish("publication", {"disclosure"}, "missing-disclosure"), Refusal) \in Fair
        /\ [Call("main", Disclose("mismatch", {"files"}, "manifest", "candidate"), {"mismatched"})
              EXCEPT !.ends = Answer \ {"mismatched"}] \in Fair
        /\ Call("main", Publish("mismatch-publication", {}, "mismatch"), Refusal) \in Fair
        /\ Call("main", Disclosure0, Matched) \in Fair /\ Call("main", Disclosure0, SameMatch) \in Fair
    BY <1>5, <1>6, SourceCallFair
  <2> QED
    BY <2>1, <2>2
<1>9. Populated(order, Disclosure0, sourceReplayGrantMutations(Disclosure0.op), Candidate0.op, SameMatch) \in Seq(Fair)
  <2>1. Disclosure0.op \in Purpose /\ Candidate0.op \in Purpose /\ Disclosure0.op \in SourcePurpose
    BY <1>5 DEF Purpose, SourcePurpose
  <2>2. SameMatch \in SUBSET Answer
    BY DEF Answer, SameMatch
  <2> QED
    BY <1>5, <2>1, <2>2, SourceClaimsFinite, PopulatedFair
<1> QED
  BY <1>4, <1>7, <1>8, <1>9

\* What the calls about the disclosure tell.
LEMMA DisclosureTells ==
  ASSUME NEW s, Ordered(s), "ledger" \in Range(s.gates),
         s.habit \notin {"forgetful", "byToken", "dropsOnRefusal", "anyPayload"},
         NEW order, NEW p \in State, \A x \in p[1].ledger : x.command # "publication",
         NEW q \in State, Runs(s, p, DisclosureCalls(order), q)
  PROVE  /\ s.habit # "matchesAnything" /\ "order" \in Range(s.gates)
         /\ \A c \in sourceReplayGrantMutations("artifact-disclosure-verify") :
              <<"artifact-disclosure-verify", c>> \notin s.forgets
<1> DEFINE known0 == Disclose("candidate", {}, "manifest", "candidate")
           a == Call("main", known0, {"commandConflict"})
           taken == <<a>>
           parts == {"id", "digest"}
           Wrong(part) == Disclose(part, {part}, "other-plan", "candidate")
           Right(part) == Disclose(part, {}, "manifest", "candidate")
           block == [part \in parts |-> <<Call("main", Wrong(part), Refusal), Call("main", Right(part), Matched)>>]
           tried == Each(order, block)
           early == Publish("publication", {"disclosure"}, "missing-disclosure")
           b == Call("main", early, Refusal)
           other == Disclose("mismatch", {"files"}, "manifest", "candidate")
           c == [Call("main", other, {"mismatched"}) EXCEPT !.ends = Answer \ {"mismatched"}]
           d == Call("main", Publish("mismatch-publication", {}, "mismatch"), Refusal)
           e == Call("main", Disclosure0, Matched)
           f == Call("main", Disclosure0, SameMatch)
           foreign == Candidate0.op
           known == Populated(order, Disclosure0, sourceReplayGrantMutations(Disclosure0.op), foreign, SameMatch)
           A == taken \o tried
           B == A \o <<b, c, d, e, f>>
<1>1. DisclosureCalls(order) = taken \o tried \o <<b, c, d, e, f>> \o known
  BY Zenon DEF DisclosureCalls
<1>2. taken \in Seq(Fair) /\ tried \in Seq(Fair) /\ <<b, c, d, e, f>> \in Seq(Fair) /\ known \in Seq(Fair)
  BY DisclosureFair, Zenon
<1>3. /\ Disclosure0 \in Item /\ Disclosure0.op = "artifact-disclosure-verify"
      /\ Disclosure0.outside = "nothing" /\ foreign = "candidate-closure-validate-retain"
  BY SourceFixtures DEF Sourced
<1>14. /\ "mismatch" \in Word /\ {"files"} \in SUBSET Word /\ "manifest" \in Word /\ "candidate" \in Word
       /\ "publication" \in Word /\ "missing-disclosure" \in Word /\ "other-plan" \in Word
       /\ {"disclosure"} \in SUBSET Word /\ {} \in SUBSET Word
       /\ \A part \in parts : part \in Word /\ {part} \in SUBSET Word
  <2>1. "id" \in Word
    BY DEF Word, RequestParts
  <2> QED
    BY <2>1 DEF Word
<1>4. other \in Item
  BY <1>14, SourceInItem
<1>15. known0 \in Item /\ known0.command = "candidate"
  <2>1. known0.command = "candidate"
    BY DEF Disclose, SourceItem
  <2> QED
    BY <1>14, <2>1, SourceInItem
<1>16. /\ early \in Item /\ early.command = "publication" /\ early.outside = "nothing"
       /\ early.op = "artifact-publish"
  <2>1. Sourced(early, "artifact-publish", "publication", {"disclosure"}, "nothing", {"missing-disclosure"}, "accepted")
    BY <1>14, SourceItems
  <2> HIDE DEF early
  <2> QED
    BY <2>1 DEF Sourced
<1>17. ASSUME NEW part \in parts
       PROVE  /\ Wrong(part) \in Item /\ Wrong(part).command = part
              /\ Right(part) \in Item /\ Right(part).command = part
  <2>1. Wrong(part).command = part /\ Right(part).command = part
    BY DEF Disclose, SourceItem
  <2>2. part \in Word /\ {part} \in SUBSET Word
    BY <1>14
  <2> HIDE DEF parts
  <2> QED
    BY <1>14, <2>1, <2>2, SourceInItem
<1> HIDE DEF other, known0, early, Wrong, Right
<1>18. /\ Puts(a, "main", known0, {}, {"commandConflict"}, "fresh")
       /\ Puts(b, "main", early, {}, Refusal, "fresh")
       /\ \A part \in parts :
            /\ Puts(Call("main", Wrong(part), Refusal), "main", Wrong(part), {}, Refusal, "fresh")
            /\ Puts(Call("main", Right(part), Matched), "main", Right(part), {}, Matched, "fresh")
  BY <1>15, <1>16, <1>17, SourcePuts
<1>19. /\ DOMAIN block = parts /\ IsFiniteSet(parts) /\ \A part \in parts : part # "publication"
       /\ \A part \in parts :
            block[part] = <<Call("main", Wrong(part), Refusal), Call("main", Right(part), Matched)>>
       /\ \A part \in parts : block[part] \in Seq(Fair)
  <2>1. parts = {"id", "digest", "digest", "digest"}
    OBVIOUS
  <2>2. IsFiniteSet(parts)
    BY <2>1, FewFinite
  <2>3. \A part \in parts :
          Call("main", Wrong(part), Refusal) \in Fair /\ Call("main", Right(part), Matched) \in Fair
    BY <1>18, PutsFair
  <2>4. \A x, y \in Fair : <<x, y>> \in Seq(Fair)
    OBVIOUS
  <2> QED
    BY <2>2, <2>3, <2>4
<1>5. /\ Puts(c, "main", other, {}, {"mismatched"}, "fresh") /\ Puts(f, "main", Disclosure0, {}, SameMatch, "fresh")
  BY <1>3, <1>4, SourcePuts
<1>6. Runs(s, p, B \o known, q)
  BY <1>1
<1>20. taken = <<a>>
  OBVIOUS
<1> HIDE DEF taken, tried, a, b, c, d, e, f, foreign, known, parts, block
<1>7. A \in Seq(Fair) /\ B \in Seq(Fair)
  BY <1>2
<1> HIDE DEF A, B
<1>8. PICK v \in State : Runs(s, p, B, v) /\ Runs(s, v, known, q)
  BY <1>2, <1>6, <1>7, RunsBoth
<1>9. PICK u \in State : Runs(s, p, A, u) /\ Runs(s, u, <<b, c, d, e, f>>, v)
  BY <1>2, <1>7, <1>8, RunsBoth DEF B
<1>10. PICK w \in State, x \in State, z \in State :
         Answers(s, b, u, w) /\ Answers(s, c, w, x) /\ Answers(s, f, z, v)
  <2>1. \E w, x, y, z \in State : /\ Answers(s, b, u, w) /\ Answers(s, c, w, x) /\ Answers(s, d, x, y)
                                  /\ Answers(s, e, y, z) /\ Answers(s, f, z, v)
    BY <1>9, RunsFive
  <2> QED
    BY <2>1
<1>11. s.habit # "matchesAnything"
  <2>1. Takes(s, c, w[1], x[1])
    BY <1>5, <1>10 DEF Answers, Puts, Asks
  <2>2. Reply(s, w[1], c) = "mismatched"
    BY <1>5, <2>1 DEF Takes, Puts
  <2> QED
    BY <1>5, <2>1, <2>2, Taken
<1>12. PICK y \in v[1].ledger : y.command = Disclosure0.command /\ y.op = Disclosure0.op
  <2> DEFINE off == {}
             m == z[1]
             n == v[1]
  <2>1. Takes(s, f, m, n) /\ m \in Memory
    BY <1>5, <1>10 DEF Answers, Puts, Asks, State
  <2>2. Puts(f, "main", Disclosure0, off, SameMatch, "fresh")
    BY <1>5
  <2>3. SameMatch \subseteq {"accepted", "replayed", "renewed"} /\ s.habit # "anyPayload"
    BY DEF SameMatch
  <2> HIDE DEF off, m, n
  <2>4. Holds(n, Disclosure0)
    BY <2>1, <2>2, <2>3, AnsweredKnown
  <2> QED
    BY <2>4 DEF Holds, n
<1>13. \A x1 \in sourceReplayGrantMutations(Disclosure0.op) : <<Disclosure0.op, x1>> \notin s.forgets
  <2>1. Disclosure0.op \in SourcePurpose /\ foreign \in SourcePurpose
    BY <1>3 DEF SourcePurpose
  <2>2. SameMatch \subseteq {"replayed", "accepted"}
    BY DEF SameMatch
  <2>3. /\ y \in v[1].ledger /\ y.command = Disclosure0.command /\ y.op = Disclosure0.op
        /\ v \in State /\ q \in State
    BY <1>12
  <2>4. Runs(s, v, Populated(order, Disclosure0, sourceReplayGrantMutations(Disclosure0.op), foreign, SameMatch), q)
    BY <1>8 DEF known
  <2>5. /\ Disclosure0 \in Item /\ Disclosure0.outside = "nothing" /\ "ledger" \in Range(s.gates)
        /\ s.habit \notin {"forgetful", "byToken"} /\ s.habit # "dropsOnRefusal"
    BY <1>3
  <2>6. SameMain(v, q) /\ \A claim \in sourceReplayGrantMutations(Disclosure0.op) : <<Disclosure0.op, claim>> \notin s.forgets
    BY <2>1, <2>2, <2>3, <2>4, <2>5, SourcePopulatedShows
  <2> QED
    BY <2>6
<1> DEFINE Unknown(m) == \A y1 \in m.ledger : y1.command # "publication"
           X == {r \in State : Unknown(r[1])}
<1>21. ASSUME NEW c1, NEW item, NEW want, Puts(c1, "main", item, {}, want, "fresh"),
              item.command # "publication", NEW r \in X, NEW t \in State, Answers(s, c1, r, t)
       PROVE  t \in X
  <2> DEFINE m == r[1]
             n == t[1]
             off == {}
             command == "publication"
  <2>1. Takes(s, c1, m, n) /\ m \in Memory
    BY <1>21 DEF Answers, Puts, Asks, State
  <2>2. Puts(c1, "main", item, off, want, "fresh") /\ item.command # command /\ \A y1 \in m.ledger : y1.command # command
    BY <1>21
  <2> HIDE DEF m, n, off, command
  <2>3. \A y1 \in n.ledger : y1.command # command
    BY <2>1, <2>2, StaysUnknown
  <2> QED
    BY <2>3 DEF n, command
<1>22. PICK g \in State : Runs(s, p, taken, g) /\ Runs(s, g, tried, u)
  BY <1>2, <1>9, RunsBoth DEF A
<1>23. g \in X
  <2>1. Answers(s, a, p, g)
    BY <1>20, <1>22, RunsOne
  <2>2. p \in X /\ known0.command # "publication"
    BY <1>15
  <2> HIDE DEF X
  <2> QED
    BY <1>18, <1>21, <2>1, <2>2
<1>24. u \in X
  <2>1. ASSUME NEW part \in parts, NEW r \in X, NEW t \in State, Runs(s, r, block[part], t) PROVE t \in X
    <3>1. PICK o \in State : /\ Answers(s, Call("main", Wrong(part), Refusal), r, o)
                             /\ Answers(s, Call("main", Right(part), Matched), o, t)
      BY <1>19, <2>1, RunsTwo
    <3>2. Wrong(part).command # "publication" /\ Right(part).command # "publication"
      BY <1>17, <1>19
    <3> HIDE DEF X
    <3>3. o \in X
      BY <1>18, <1>21, <3>1, <3>2
    <3> QED
      BY <1>18, <1>21, <3>1, <3>2, <3>3
  <2>2. X \in SUBSET State
    OBVIOUS
  <2>3. Runs(s, g, Each(order, block), u)
    BY <1>22 DEF tried
  <2> HIDE DEF X
  <2> QED
    BY <1>19, <1>23, <2>1, <2>2, <2>3, EachRuns
<1>25. "order" \in Range(s.gates)
  <2> DEFINE m == u[1]
             n == w[1]
  <2>1. Takes(s, b, m, n) /\ m \in Memory
    BY <1>10, <1>18 DEF Answers, Puts, Asks, State
  <2>2. \A y1 \in m.ledger : y1.command # early.command
    BY <1>16, <1>24
  <2> HIDE DEF m, n
  <2>3. Asking(early.op) \in Range(s.gates)
    BY <1>16, <1>18, <2>1, <2>2, AskedFor
  <2> QED
    BY <1>16, <2>3 DEF Asking
<1> QED
  BY <1>3, <1>11, <1>13, <1>25

\* The calls about the publication let the suite go on.
LEMMA PublicationFair ==
  ASSUME NEW order
  PROVE  /\ <<Call("main", Publish("disclosure", {}, "disclosure"), {"commandConflict"}),
              Call("main", Disclose("disclosure", {"files"}, "manifest", "candidate"), {"commandConflict"}),
              Call("main", Publication0, {"accepted"}), Call("main", Publication0, {"replayed"})>> \in Seq(Fair)
         /\ Populated(order, Publication0, sourceReplayGrantMutations(Publication0.op), Disclosure0.op,
                      {"replayed"}) \in Seq(Fair)
         /\ <<Call("main", Publish("publication", {"version"}, "other-version"), {"commandConflict"}),
              Call("main", Plan("publication", {}), {"commandConflict"})>> \in Seq(Fair)
<1>1. /\ "manifest" \in Word /\ "candidate" \in Word /\ "disclosure" \in Word /\ "publication" \in Word
      /\ {"files"} \in SUBSET Word /\ {"version"} \in SUBSET Word /\ {} \in SUBSET Word
  BY DEF Word
<1>2. /\ Publication0 \in Item /\ Publication0.op = "artifact-publish"
      /\ Disclosure0.op = "artifact-disclosure-verify"
  BY SourceFixtures DEF Sourced
<1>3. /\ Publish("disclosure", {}, "disclosure") \in Item
      /\ Disclose("disclosure", {"files"}, "manifest", "candidate") \in Item
      /\ Publish("publication", {"version"}, "other-version") \in Item /\ Plan("publication", {}) \in Item
  BY <1>1, SourceInItem
<1>4. /\ Call("main", Publish("disclosure", {}, "disclosure"), {"commandConflict"}) \in Fair
      /\ Call("main", Disclose("disclosure", {"files"}, "manifest", "candidate"), {"commandConflict"}) \in Fair
      /\ Call("main", Publication0, {"accepted"}) \in Fair /\ Call("main", Publication0, {"replayed"}) \in Fair
      /\ Call("main", Publish("publication", {"version"}, "other-version"), {"commandConflict"}) \in Fair
      /\ Call("main", Plan("publication", {}), {"commandConflict"}) \in Fair
  BY <1>2, <1>3, SourceCallFair
<1>5. (\A x, y \in Fair : <<x, y>> \in Seq(Fair)) /\ \A x, y, z, w \in Fair : <<x, y, z, w>> \in Seq(Fair)
  OBVIOUS
<1>6. Populated(order, Publication0, sourceReplayGrantMutations(Publication0.op), Disclosure0.op,
                {"replayed"}) \in Seq(Fair)
  <2>1. Publication0.op \in Purpose /\ Disclosure0.op \in Purpose /\ Publication0.op \in SourcePurpose
    BY <1>2 DEF Purpose, SourcePurpose
  <2>2. {"replayed"} \in SUBSET Answer
    BY DEF Answer
  <2> QED
    BY <1>2, <2>1, <2>2, SourceClaimsFinite, PopulatedFair
<1> QED
  BY <1>4, <1>5, <1>6

\* Nothing gives a disclosure of the other version.
LEMMA NeverDisclosed == "other-version" \notin Word
<1>1. "other-version" \notin Purpose \cup Field \cup Envelope
  BY DEF Purpose, Field, Identity, Route, Execution, Instance, Participant, Repository, Manifest, Closure,
         Candidate, Public, Artifact, Disclosure, Envelope
<1>2. /\ "other-version" \notin RequestParts("provider-executed")
      /\ "other-version" \notin RequestParts("participant-scheduled")
  BY DEF RequestParts
<1>3. /\ "other-version" \notin ResultParts("provider-executed")
      /\ "other-version" \notin ResultParts("participant-scheduled")
  BY DEF ResultParts, StartParts, eventIdentity, Provenance
<1> QED
  BY <1>1, <1>2, <1>3 DEF Word

\* What the calls about the publication tell.
LEMMA PublicationTells ==
  ASSUME NEW s, Ordered(s), "ledger" \in Range(s.gates),
         s.habit \notin {"forgetful", "byToken", "dropsOnRefusal", "anyPayload"},
         NEW order, NEW p \in State, NEW q \in State, Runs(s, p, PublicationCalls(order), q)
  PROVE  /\ ~Before(s, "order", "ledger")
         /\ \A c \in sourceReplayGrantMutations("artifact-publish") : <<"artifact-publish", c>> \notin s.forgets
<1> DEFINE a == Call("main", Publish("disclosure", {}, "disclosure"), {"commandConflict"})
           b == Call("main", Disclose("disclosure", {"files"}, "manifest", "candidate"), {"commandConflict"})
           c == Call("main", Publication0, {"accepted"})
           replayed == {"replayed"}
           d == Call("main", Publication0, replayed)
           foreign == Disclosure0.op
           known == Populated(order, Publication0, sourceReplayGrantMutations(Publication0.op), foreign, replayed)
           other == Publish("publication", {"version"}, "other-version")
           e == Call("main", other, {"commandConflict"})
           f == Call("main", Plan("publication", {}), {"commandConflict"})
           closing == <<e, f>>
           A == <<a, b, c, d>> \o known
<1>1. PublicationCalls(order) = <<a, b, c, d>> \o known \o closing
  BY Zenon DEF PublicationCalls
<1>2. <<a, b, c, d>> \in Seq(Fair) /\ known \in Seq(Fair) /\ closing \in Seq(Fair)
  BY PublicationFair, Zenon
<1>3. /\ Publication0 \in Item /\ Publication0.op = "artifact-publish"
      /\ Publication0.outside = "nothing" /\ foreign = "artifact-disclosure-verify"
  BY SourceFixtures DEF Sourced
<1>4. Puts(d, "main", Publication0, {}, replayed, "fresh")
  BY <1>3, SourcePuts
<1>13. other \in Item /\ other.op = "artifact-publish" /\ other.needs = {"other-version"}
  <2>1. Sourced(other, "artifact-publish", "publication", {"version"}, "nothing", {"other-version"}, "accepted")
    <3>1. "publication" \in Word /\ {"version"} \in SUBSET Word
      BY DEF Word
    <3> QED
      BY <3>1, SourceItems
  <2> HIDE DEF other
  <2> QED
    BY <2>1 DEF Sourced
<1> HIDE DEF other
<1>14. Puts(e, "main", other, {}, {"commandConflict"}, "fresh")
  BY <1>13, SourcePuts
<1>15. closing = <<e, f>>
  OBVIOUS
<1>5. Runs(s, p, A \o closing, q)
  BY <1>1
<1>6. replayed \subseteq {"replayed", "accepted"} /\ replayed = {"replayed"}
  OBVIOUS
<1> HIDE DEF a, b, c, d, e, f, foreign, known, closing, replayed
<1>7. A \in Seq(Fair)
  BY <1>2
<1> HIDE DEF A
<1>8. PICK v \in State : Runs(s, p, A, v) /\ Runs(s, v, closing, q)
  BY <1>2, <1>5, <1>7, RunsBoth
<1>9. PICK u \in State : Runs(s, p, <<a, b, c, d>>, u) /\ Runs(s, u, known, v)
  BY <1>2, <1>8, RunsBoth DEF A
<1>10. PICK t \in State : Answers(s, d, t, u)
  <2>1. \E r, t1, t \in State : /\ Answers(s, a, p, r) /\ Answers(s, b, r, t1)
                                /\ Answers(s, c, t1, t) /\ Answers(s, d, t, u)
    BY <1>9, RunsFour
  <2> QED
    BY <2>1
<1>11. PICK y \in u[1].ledger : y.command = Publication0.command /\ y.op = Publication0.op
  <2> DEFINE off == {}
             m == t[1]
             n == u[1]
  <2>1. Takes(s, d, m, n) /\ m \in Memory
    BY <1>4, <1>10 DEF Answers, Puts, Asks, State
  <2>2. Puts(d, "main", Publication0, off, replayed, "fresh")
    BY <1>4
  <2>3. replayed \subseteq {"accepted", "replayed", "renewed"} /\ s.habit # "anyPayload"
    BY <1>6
  <2> HIDE DEF off, m, n
  <2>4. Holds(n, Publication0)
    BY <2>1, <2>2, <2>3, AnsweredKnown
  <2> QED
    BY <2>4 DEF Holds, n
<1>12. \A x1 \in sourceReplayGrantMutations(Publication0.op) : <<Publication0.op, x1>> \notin s.forgets
  <2>1. Publication0.op \in SourcePurpose /\ foreign \in SourcePurpose
    BY <1>3 DEF SourcePurpose
  <2>3. /\ y \in u[1].ledger /\ y.command = Publication0.command /\ y.op = Publication0.op
        /\ u \in State /\ v \in State
    BY <1>11
  <2>4. Runs(s, u, Populated(order, Publication0, sourceReplayGrantMutations(Publication0.op), foreign, replayed), v)
    BY <1>9 DEF known
  <2>5. /\ Publication0 \in Item /\ Publication0.outside = "nothing" /\ "ledger" \in Range(s.gates)
        /\ s.habit \notin {"forgetful", "byToken"} /\ (s.habit # "dropsOnRefusal" \/ replayed = {"replayed"})
    BY <1>3
  <2>6. SameMain(u, v) /\ \A claim \in sourceReplayGrantMutations(Publication0.op) : <<Publication0.op, claim>> \notin s.forgets
    BY <1>6, <2>1, <2>3, <2>4, <2>5, SourcePopulatedShows
  <2> QED
    BY <2>6
<1>16. ~Before(s, "order", "ledger")
  <2>1. PICK x \in State : Answers(s, e, v, x)
    <3>1. \E x \in State : Answers(s, e, v, x) /\ Answers(s, f, x, q)
      BY <1>8, <1>15, RunsTwo
    <3> QED
      BY <3>1
  <2> DEFINE m == v[1]
  <2>2. Takes(s, e, m, x[1]) /\ m \in Memory
    BY <1>14, <2>1 DEF Answers, Puts, Asks, State
  <2>3. ~(other.needs \subseteq m.facts)
    BY <1>13, <2>2, NeverDisclosed DEF Memory
  <2> HIDE DEF m
  <2>4. Stopper(s, m, e, "ledger")
    BY <1>14, <2>2, ConflictTells
  <2>5. CASE "order" \in Range(s.gates)
    <3>1. e.needs = other.needs /\ Asking(e.op) = "order"
      BY <1>13, <1>14 DEF Puts, Asks, Asking
    <3>2. "order" \in Stopping(s, m, e)
      BY <2>3, <2>5, <3>1, StoppingGates
    <3> QED
      BY <2>4, <3>2 DEF Stopper
  <2>6. CASE "order" \notin Range(s.gates)
    BY <2>6 DEF Before, Range
  <2> QED
    BY <2>5, <2>6
<1> QED
  BY <1>3, <1>12, <1>16

\* So do the calls that collide.
LEMMA LedgerPairFair ==
  ASSUME NEW first \in SourcePurpose, NEW second \in SourcePurpose
  PROVE  LedgerPair(first, second) \in Seq(Fair)
<1> DEFINE plan == IF first = "manifest-closure-plan" THEN "collision" ELSE "plan"
           Ready(on, i) == [Call(on, i, Answer \ Refusal) EXCEPT !.skips = Refusal]
           a == Ready("fresh", Plan("plan", {}))
           b == Ready("same", Retain("kept", {}, "plan"))
           c == Setup("same", Disclose("shown", {}, "plan", "kept"))
           d == Ready("same", Collision(first, plan))
           e == Call("same", Collision(second, plan), {"commandConflict"})
<1>1. LedgerPair(first, second) = <<a, b, c, d, e>>
  BY LedgerPairIs, Zenon
<1>2. /\ plan \in Word /\ "plan" \in Word /\ "kept" \in Word /\ "shown" \in Word /\ {} \in SUBSET Word
  BY DEF Word
<1> HIDE DEF plan
<1>3. /\ Plan("plan", {}) \in Item /\ Retain("kept", {}, "plan") \in Item
      /\ Disclose("shown", {}, "plan", "kept") \in Item
  BY <1>2, SourceInItem
<1>4. Collision(first, plan) \in Item /\ Collision(second, plan) \in Item
  BY <1>2, CollisionItems DEF Sourced
<1>5. a \in Fair /\ b \in Fair /\ c \in Fair /\ d \in Fair /\ e \in Fair
  BY <1>3, <1>4, SourceCallFair
<1>6. \A x, y, z, v, w \in Fair : <<x, y, z, v, w>> \in Seq(Fair)
  OBVIOUS
<1> HIDE DEF a, b, c, d, e
<1> QED
  BY <1>1, <1>5, <1>6

\* The source suite is calls that let it go on.
LEMMA SourceFair ==
  ASSUME NEW order
  PROVE  /\ PlanCalls(order) \in Seq(Fair) /\ RetentionCalls(order) \in Seq(Fair)
         /\ DisclosureCalls(order) \in Seq(Fair) /\ PublicationCalls(order) \in Seq(Fair)
         /\ Each(order, [pair \in {p \in SourcePurpose \X SourcePurpose : p[1] # p[2]} |->
                               LedgerPair(pair[1], pair[2])]) \in Seq(Fair)
<1> DEFINE Q == Seq(Fair)
<1>1. (\A x, y, z \in Q : x \o y \o z \in Q) /\ \A x, y, z, w \in Q : x \o y \o z \o w \in Q
  OBVIOUS
<1>2. PlanCalls(order) \in Q
  <2>1. \A x, y, z, w : x \in Q /\ y \in Q /\ z \in Q /\ w \in Q => x \o y \o z \o w \in Q
    BY <1>1
  <2> QED
    BY <2>1, PlanFair, Zenon DEF PlanCalls
<1>3. RetentionCalls(order) \in Q
  <2>1. \A x, y, z : x \in Q /\ y \in Q /\ z \in Q => x \o y \o z \in Q
    BY <1>1
  <2> QED
    BY <2>1, RetentionFair, Zenon DEF RetentionCalls
<1>4. DisclosureCalls(order) \in Q
  <2>1. \A x, y, z, w : x \in Q /\ y \in Q /\ z \in Q /\ w \in Q => x \o y \o z \o w \in Q
    BY <1>1
  <2> QED
    BY <2>1, DisclosureFair, Zenon DEF DisclosureCalls
<1>5. PublicationCalls(order) \in Q
  <2>1. \A x, y, z : x \in Q /\ y \in Q /\ z \in Q => x \o y \o z \in Q
    BY <1>1
  <2> QED
    BY <2>1, PublicationFair, Zenon DEF PublicationCalls
<1> DEFINE pairs == {p \in SourcePurpose \X SourcePurpose : p[1] # p[2]}
           block == [pair \in pairs |-> LedgerPair(pair[1], pair[2])]
<1>6. Each(order, block) \in Seq(Fair)
  <2>1. SourcePurpose = {"manifest-closure-plan", "candidate-closure-validate-retain",
                         "artifact-disclosure-verify", "artifact-publish"}
    BY DEF SourcePurpose
  <2>2. IsFiniteSet(SourcePurpose)
    BY <2>1, FewFinite
  <2>3. IsFiniteSet(SourcePurpose \X SourcePurpose)
    BY <2>2, FS_Product
  <2>4. IsFiniteSet(DOMAIN block)
    BY <2>3, FS_Subset
  <2>5. \A pair \in pairs : LedgerPair(pair[1], pair[2]) \in Seq(Fair)
    BY LedgerPairFair
  <2>6. DOMAIN block = pairs /\ \A pair \in pairs : block[pair] = LedgerPair(pair[1], pair[2])
    OBVIOUS
  <2> HIDE DEF block, pairs
  <2> QED
    BY <2>4, <2>5, <2>6, EachFair
<1> QED
  BY <1>2, <1>3, <1>4, <1>5, <1>6

\* A source provider that passes its suite.
LEMMA SourceTells ==
  ASSUME NEW s, Ordered(s), NEW order, NEW q \in State,
         Runs(s, Nothing, CheckSourceArtifactProvider(order), q)
  PROVE  /\ {"authority", "body", "ledger", "references", "order"} \subseteq Range(s.gates)
         /\ ~Before(s, "ledger", "authority") /\ ~Before(s, "ledger", "body") /\ ~Before(s, "order", "ledger")
         /\ s.habit \notin {"forgetful", "byToken", "renews", "leaks", "dropsOnRefusal", "anyPayload",
                            "recordsRefusals", "byOperation", "matchesAnything"}
         /\ \A p \in SourcePurpose : \A c \in sourceReplayGrantMutations(p) : <<p, c>> \notin s.forgets
         /\ "version" \notin s.overlooks /\ "files" \notin s.overlooks
<1> DEFINE plan == PlanCalls(order)
           retention == RetentionCalls(order)
           disclosure == DisclosureCalls(order)
           publication == PublicationCalls(order)
           pairs == Each(order, [pair \in {p \in SourcePurpose \X SourcePurpose : p[1] # p[2]} |->
                                       LedgerPair(pair[1], pair[2])])
           A == plan \o retention
           B == A \o disclosure
           C == B \o publication
<1>1. CheckSourceArtifactProvider(order) = C \o pairs
  BY Zenon DEF CheckSourceArtifactProvider
<1>2. /\ plan \in Seq(Fair) /\ retention \in Seq(Fair) /\ disclosure \in Seq(Fair)
      /\ publication \in Seq(Fair) /\ pairs \in Seq(Fair)
  BY SourceFair, Zenon
<1> HIDE DEF plan, retention, disclosure, publication, pairs
<1>3. A \in Seq(Fair)
  BY <1>2
<1> HIDE DEF A
<1>4. B \in Seq(Fair)
  BY <1>2, <1>3
<1> HIDE DEF B
<1>5. C \in Seq(Fair)
  BY <1>2, <1>4
<1> HIDE DEF C
<1>6. PICK x4 \in State : Runs(s, Nothing, C, x4)
  BY <1>1, <1>2, <1>5, RunsBoth
<1>7. PICK x3 \in State : Runs(s, Nothing, B, x3) /\ Runs(s, x3, publication, x4)
  BY <1>2, <1>4, <1>6, RunsBoth DEF C
<1>8. PICK x2 \in State : Runs(s, Nothing, A, x2) /\ Runs(s, x2, disclosure, x3)
  BY <1>2, <1>3, <1>7, RunsBoth DEF B
<1>9. PICK x1 \in State : Runs(s, Nothing, plan, x1) /\ Runs(s, x1, retention, x2)
  BY <1>2, <1>8, RunsBoth DEF A
<1>10. /\ {"authority", "body", "ledger"} \subseteq Range(s.gates)
       /\ ~Before(s, "ledger", "authority") /\ ~Before(s, "ledger", "body")
       /\ s.habit \notin {"forgetful", "byToken", "renews", "leaks", "dropsOnRefusal", "anyPayload",
                          "recordsRefusals"}
       /\ \A c \in sourceReplayGrantMutations("manifest-closure-plan") :
            <<"manifest-closure-plan", c>> \notin s.forgets
       /\ "version" \notin s.overlooks
       /\ \A x \in x1[1].ledger : x.command = "manifest" /\ x.op = "manifest-closure-plan"
  BY <1>9, PlanTells DEF plan
<1>11. /\ "references" \in Range(s.gates) /\ s.habit # "byOperation" /\ "files" \notin s.overlooks
       /\ \A x \in x2[1].ledger : x.command # "publication"
       /\ \A c \in sourceReplayGrantMutations("candidate-closure-validate-retain") :
            <<"candidate-closure-validate-retain", c>> \notin s.forgets
  <2>1. /\ "ledger" \in Range(s.gates)
        /\ s.habit \notin {"forgetful", "byToken", "dropsOnRefusal", "recordsRefusals", "anyPayload"}
    BY <1>10
  <2> QED
    BY <1>9, <1>10, <2>1, RetentionTells DEF retention
<1>12. /\ s.habit # "matchesAnything" /\ "order" \in Range(s.gates) /\ ~Before(s, "order", "ledger")
       /\ \A c \in sourceReplayGrantMutations("artifact-disclosure-verify") :
            <<"artifact-disclosure-verify", c>> \notin s.forgets
       /\ \A c \in sourceReplayGrantMutations("artifact-publish") : <<"artifact-publish", c>> \notin s.forgets
  <2>1. "ledger" \in Range(s.gates) /\ s.habit \notin {"forgetful", "byToken", "dropsOnRefusal", "anyPayload"}
    BY <1>10
  <2> QED
    BY <1>7, <1>8, <1>11, <2>1, DisclosureTells, PublicationTells DEF disclosure, publication
<1>13. \A p \in SourcePurpose : \A c \in sourceReplayGrantMutations(p) : <<p, c>> \notin s.forgets
  <2>1. ASSUME NEW p \in SourcePurpose PROVE \A c \in sourceReplayGrantMutations(p) : <<p, c>> \notin s.forgets
    <3>1. \/ p = "manifest-closure-plan" \/ p = "candidate-closure-validate-retain"
          \/ p = "artifact-disclosure-verify" \/ p = "artifact-publish"
      BY DEF SourcePurpose
    <3> QED
      BY <1>10, <1>11, <1>12, <3>1
  <2> QED
    BY <2>1
<1> QED
  BY <1>10, <1>11, <1>12, <1>13

-----------------------------------------------------------------------------
\* All suites.

\* So are the suites for providers and for sinks.
LEMMA AdapterFair ==
  ASSUME NEW profile, NEW order
  PROVE  /\ CheckExecutionProvider(profile, order) \in Seq(Fair)
         /\ CheckParticipantScheduledProviderPolicy(order) \in Seq(Fair)
         /\ CheckExecutionEventSink(profile, order) \in Seq(Fair)
         /\ CheckSourceArtifactProvider(order) \in Seq(Fair)
<1> DEFINE Q == Seq(Fair)
<1>1. \A x, y : x \in Q /\ y \in Q => x \o y \in Q
  OBVIOUS
<1>2. CheckExecutionProvider(profile, order) \in Q
  <2>1. \A a, b, c, d, e : a \in Q /\ b \in Q /\ c \in Q /\ d \in Q /\ e \in Q => a \o b \o c \o d \o e \in Q
    OBVIOUS
  <2> QED
    BY <2>1, LaunchBlocksFair, ZenonT(60) DEF CheckExecutionProvider
<1>3. CheckParticipantScheduledProviderPolicy(order) \in Q
  BY <1>1, PolicyFair, ZenonT(60) DEF CheckParticipantScheduledProviderPolicy
<1>4. CheckSourceArtifactProvider(order) \in Q
  <2>1. \A a, b, c, d, e : a \in Q /\ b \in Q /\ c \in Q /\ d \in Q /\ e \in Q => a \o b \o c \o d \o e \in Q
    OBVIOUS
  <2> QED
    BY <2>1, SourceFair, ZenonT(60) DEF CheckSourceArtifactProvider
<1>5. CheckExecutionEventSink(profile, order) \in Q
  <2>1. \A a, b, c, d, e, f, g, h, i, j :
          /\ a \in Q /\ b \in Q /\ c \in Q /\ d \in Q /\ e \in Q /\ f \in Q /\ g \in Q /\ h \in Q /\ i \in Q /\ j \in Q
          => a \o b \o c \o d \o e \o f \o g \o h \o i \o j \in Q
    <3>1. \A x, y : x \in Q /\ y \in Q => x \o y \in Q
      BY <1>1
    <3> HIDE DEF Q
    <3> QED
      BY <3>1, ZenonT(60)
  <2>2. \A a, b, c, d, e, f : <<a, b, c>> \in Seq(Fair) /\ <<d, e, f>> \in Seq(Fair) =>
          <<a, b, c, d, e, f>> \in Q
    <3> SUFFICES ASSUME NEW a, NEW b, NEW c, NEW d, NEW e, NEW f,
                        <<a, b, c>> \in Seq(Fair), <<d, e, f>> \in Seq(Fair)
                 PROVE  <<a, b, c, d, e, f>> \in Seq(Fair)
      OBVIOUS
    <3>1. <<a, b, c>> \o <<d, e, f>> \in Seq(Fair)
      OBVIOUS
    <3>2. <<a, b, c>> \o <<d, e, f>> = <<a, b, c, d, e, f>>
      BY Six, SMT
    <3> QED
      BY <3>1, <3>2, Zenon
  <2>3. /\ <<Call("fresh", Result, {"invalidTransition"}), Call("same", Start, {"accepted"}),
             Call("same", Result, {"accepted"}),
             [First(Start) EXCEPT !.ends = Answer \ {"accepted"}],
             [Call("main", Start, {"replayed"}) EXCEPT !.token = "first"],
             Call("main", Start, {"replayed"})>> \in Q
    BY <2>2, EventEndsFair, Zenon
  <2> DEFINE starts == Populated(order, Start, invalidEventGrantMutations, "contest-result-event", {"replayed"})
             changedStarts == Each(order, [part \in StartParts |-> ChangedStart(part)])
             rejections == Rejections(order, Start, invalidEventGrantMutations)
             ended == <<Call("main", Result, {"accepted"})>>
             results == Populated(order, Result, invalidEventGrantMutations, "contest-started-event", {"replayed"})
             again == <<Call("main", Result, {"replayed"})>>
             changedResults == Each(order, [part \in resultEventPayloadMutations(profile) |-> ChangedResult(part)])
             misfits == Each(order, [part \in {"placementEntry", IF profile = "provider-executed"
                                               THEN "artifacts" ELSE "profileEvidence"} |-> Misfit(part)])
  <2>4. starts \in Q /\ changedStarts \in Q /\ rejections \in Q /\ results \in Q /\ changedResults \in Q /\ misfits \in Q
    BY EventBlocksFair, Zenon
  <2>5. ended \in Q /\ again \in Q
    BY EventEndsFair, Zenon
  <2> DEFINE closing == <<Call("main", Aborted("failed", "late-failure"), {"invalidTransition"}),
                          Call("main", Aborted("cancelled", "late-cancellation"), {"invalidTransition"}),
                          Call("main", EventItem("started", "late-start", {"id"}), {"invalidTransition"}),
                          Call("fresh", Aborted("cancelled", "cancel"), {"accepted"}),
                          Call("same", Start, {"invalidTransition"}),
                          Call("fresh", Aborted("failed", "failure"), {"accepted"})>>
             opening == <<Call("fresh", Result, {"invalidTransition"}), Call("same", Start, {"accepted"}),
                          Call("same", Result, {"accepted"}),
                          [First(Start) EXCEPT !.ends = Answer \ {"accepted"}],
                          [Call("main", Start, {"replayed"}) EXCEPT !.token = "first"],
                          Call("main", Start, {"replayed"})>>
  <2>6. closing \in Q
    BY EventEndsFair, Zenon
  <2>7. CheckExecutionEventSink(profile, order) =
          opening \o starts \o changedStarts \o rejections \o ended \o results \o again \o changedResults
          \o misfits \o closing
    BY Zenon DEF CheckExecutionEventSink
  <2>8. opening \in Q
    BY <2>3
  <2> HIDE DEF opening, closing, starts, changedStarts, rejections, ended, results, again, changedResults, misfits, Q
  <2> QED
    BY <2>1, <2>4, <2>5, <2>6, <2>7, <2>8, Zenon
<1> QED
  BY <1>2, <1>3, <1>4, <1>5

\* Every suite is calls that let it go on.
LEMMA CallsFair == \A name \in Suite : \A o : Calls(name, o) \in Seq(Fair)
<1> SUFFICES ASSUME NEW name \in Suite, NEW o PROVE Calls(name, o) \in Seq(Fair)
  OBVIOUS
<1> DEFINE Q == Seq(Fair)
<1>1. /\ CheckExecutionProvider("provider-executed", o) \in Q /\ CheckSourceArtifactProvider(o) \in Q
      /\ CheckExecutionEventSink("provider-executed", o) \in Q
      /\ CheckExecutionEventSink("participant-scheduled", o) \in Q
      /\ CheckOperationGrantVerifier(o) \in Q /\ CheckOperationGrantAuthority(o) \in Q
  BY AdapterFair, VerifierFair, AuthorityFair
<1>2. CheckExecutionProvider("participant-scheduled", o) \o CheckParticipantScheduledProviderPolicy(o) \in Q
  <2>1. \A x, y : x \in Q /\ y \in Q => x \o y \in Q
    OBVIOUS
  <2> QED
    BY <2>1, AdapterFair, Zenon
<1>3. \/ name = "launch" \/ name = "scheduled launch" \/ name = "events" \/ name = "scheduled events"
      \/ name = "source" \/ name = "verifier" \/ name = "authority"
  BY SpecimenAssumption DEF LaunchSuites, EventSuites
<1> HIDE DEF Q
<1>4. Calls(name, o) \in Q
  <2>1. Calls("launch", o) \in Q
    BY <1>1, Zenon DEF Calls
  <2>2. Calls("scheduled launch", o) \in Q
    BY <1>2, Zenon DEF Calls
  <2>3. Calls("events", o) \in Q
    BY <1>1, Zenon DEF Calls
  <2>4. Calls("scheduled events", o) \in Q
    BY <1>1, Zenon DEF Calls
  <2>5. Calls("source", o) \in Q
    BY <1>1, Zenon DEF Calls
  <2>6. Calls("verifier", o) \in Q
    BY <1>1, Zenon DEF Calls
  <2>7. Calls("authority", o) \in Q
    BY <1>1, Zenon DEF Calls
  <2> QED
    BY <1>3, <2>1, <2>2, <2>3, <2>4, <2>5, <2>6, <2>7
<1> QED
  BY <1>4 DEF Q

\* A service all of whose flaws are untested.
LEMMA OnlyUntested ==
  ASSUME NEW name, NEW s,
         \A g \in Gates(name) : g \in Range(s.gates) \/ <<"lacks", g>> \in Untested(name),
         \A p \in Precedence(name) : ~Before(s, p[2], p[1]),
         \A c \in s.forgets : <<"forgets", c[1], c[2]>> \in Untested(name),
         \A part \in s.overlooks : <<"overlooks", part>> \in Untested(name),
         s.habit \in {"proper", "lastOnly"}
  PROVE  Flaws(name, s) \subseteq Untested(name)
<1>1. <<"habit", "lastOnly">> \in Untested(name)
  BY DEF Untested
<1>2. ASSUME NEW f \in Flaws(name, s) PROVE f \in Untested(name)
  <2>1. \/ \E g \in Gates(name) \ Range(s.gates) : f = <<"lacks", g>>
        \/ \E p \in Precedence(name) : Before(s, p[2], p[1]) /\ f = <<"inverts", p[1], p[2]>>
        \/ \E c \in s.forgets : f = <<"forgets", c[1], c[2]>>
        \/ \E part \in s.overlooks : f = <<"overlooks", part>>
        \/ s.habit # "proper" /\ f = <<"habit", s.habit>>
    BY DEF Flaws, Before
  <2> QED
    BY <1>1, <2>1
<1> QED
  BY <1>2

\* What is given of a service under a suite.
LEMMA SpecimenIs ==
  ASSUME NEW name \in Suite, NEW s \in Specimen(name)
  PROVE  /\ s.gates \in Seq(Gates(name)) /\ Ordered(s)
         /\ s.forgets \subseteq Claims(name) /\ s.overlooks \subseteq Parts(name)
         /\ s.habit \in {"proper"} \cup Habits(name)
<1>1. \/ name \in LaunchSuites \/ name \in EventSuites \cup {"source"} \/ name = "verifier" \/ name = "authority"
  BY SpecimenAssumption
<1>2. Gates(name) \subseteq Gate
  <2>1. name \in LaunchSuites => Gates(name) = {"authority", "body", "ledger", "policy"}
    <3>1. name \in LaunchSuites =>
            name \notin EventSuites \cup {"source"} /\ name # "verifier" /\ name # "authority"
      BY DEF LaunchSuites, EventSuites
    <3> QED
      BY <3>1, Zenon DEF Gates
  <2>2. name \in EventSuites => Gates(name) = {"authority", "body", "ledger", "order"}
    <3>1. name \in EventSuites => name \notin LaunchSuites
      BY DEF LaunchSuites, EventSuites
    <3>2. name \in EventSuites => name # "source" /\ name # "verifier" /\ name # "authority"
      BY DEF EventSuites
    <3> QED
      BY <3>1, <3>2, Zenon DEF Gates
  <2>5. name = "source" => Gates(name) = {"authority", "body", "ledger", "references", "order"}
    <3>1. name = "source" => name \notin LaunchSuites /\ name \notin EventSuites
      BY DEF LaunchSuites, EventSuites
    <3>2. name = "source" => name # "verifier" /\ name # "authority"
      OBVIOUS
    <3> QED
      BY <3>1, <3>2, Zenon DEF Gates
  <2>3. name = "verifier" => Gates(name) = {"authority", "ledger"}
    <3>1. name = "verifier" => name \notin LaunchSuites /\ name \notin EventSuites \cup {"source"} /\ name # "authority"
      BY DEF LaunchSuites, EventSuites
    <3> QED
      BY <3>1, Zenon DEF Gates
  <2>4. name = "authority" => Gates(name) = {"authority"}
    <3>1. name = "authority" => name \notin LaunchSuites /\ name \notin EventSuites \cup {"source"} /\ name # "verifier"
      BY DEF LaunchSuites, EventSuites
    <3> QED
      BY <3>1, Zenon DEF Gates
  <2> QED
    BY <1>1, <2>1, <2>2, <2>3, <2>4, <2>5 DEF Gate
<1>3. s.gates \in Seq(Gates(name))
  BY SpecimenAssumption
<1>4. s.gates \in Seq(Gate)
  BY <1>2, <1>3
<1> QED
  BY <1>3, <1>4, ServiceAssumption DEF Ordered

\* A launch suite that a service passes leaves it with untested flaws only.
LEMMA LaunchCaught ==
  ASSUME NEW name \in LaunchSuites, name \in Suite, NEW s \in Specimen(name), NEW order, NEW q \in State,
         Runs(s, Nothing, Calls(name, order), q)
  PROVE  Flaws(name, s) \subseteq Untested(name)
<1> DEFINE profile == IF name = "launch" THEN "provider-executed" ELSE "participant-scheduled"
<1>0. name \notin EventSuites \cup {"source"} /\ name # "source" /\ name \notin EventSuites
      /\ name # "verifier" /\ name # "authority" /\ (name = "launch" \/ name = "scheduled launch")
  BY DEF LaunchSuites, EventSuites
<1>1. /\ s.gates \in Seq(Gates(name)) /\ Ordered(s)
      /\ s.forgets \subseteq Claims(name) /\ s.overlooks \subseteq Parts(name)
      /\ s.habit \in {"proper"} \cup Habits(name)
  BY SpecimenIs
<1>2. Gates(name) = {"authority", "body", "ledger", "policy"}
  BY <1>0, Zenon DEF Gates
<1>3. Precedence(name) = {<<"authority", "ledger">>, <<"body", "ledger">>, <<"ledger", "policy">>}
  BY <1>0, Zenon DEF Precedence
<1>4. Claims(name) = {"contest-launch"} \X Binding("contest-launch")
  BY <1>0, Zenon DEF Claims
<1>5. Binding("contest-launch") \subseteq invalidLaunchGrantMutations
  <2>1. Required("contest-launch") = Identity \cup Route \cup Execution
    BY Zenon DEF Required
  <2>2. Binding("contest-launch") =
          Envelope \cup Required("contest-launch") \cup {"providerInstanceID", "participantID"}
    <3>1. "contest-launch" \notin SourcePurpose
      BY DEF SourcePurpose
    <3> QED
      BY <3>1, Zenon DEF Binding
  <2> QED
    BY <2>1, <2>2 DEF invalidLaunchGrantMutations, Identity, Route, Execution
<1>6. Parts(name) = LaunchDigested(profile)
  <2>1. Parts("launch") = LaunchDigested("provider-executed")
    BY Zenon DEF Parts
  <2>2. Parts("scheduled launch") = LaunchDigested("participant-scheduled")
    BY Zenon DEF Parts
  <2> QED
    BY <1>0, <2>1, <2>2
<1>7. Habits(name) = {"forgetful", "anyPayload", "byToken", "lastOnly", "recordsRefusals",
                      "dropsOnRefusal", "leaks", "renews"}
  BY <1>0, Zenon DEF Habits
<1>8. \E r \in State : /\ Runs(s, Nothing, CheckExecutionProvider(profile, order), r)
                       /\ name = "scheduled launch" => Runs(s, r, CheckParticipantScheduledProviderPolicy(order), q)
  <2>1. CASE name = "launch"
    <3>1. Calls(name, order) = CheckExecutionProvider(profile, order)
      BY <2>1, Zenon DEF Calls
    <3> QED
      BY <2>1, <3>1
  <2>2. CASE name = "scheduled launch"
    <3>1. Calls("scheduled launch", order) = CheckExecutionProvider("participant-scheduled", order)
                                             \o CheckParticipantScheduledProviderPolicy(order)
      BY Zenon DEF Calls
    <3>2. profile = "participant-scheduled"
      BY <2>2
    <3> HIDE DEF profile
    <3>3. /\ CheckExecutionProvider(profile, order) \in Seq(Fair)
          /\ CheckParticipantScheduledProviderPolicy(order) \in Seq(Fair)
      BY AdapterFair
    <3>4. Runs(s, Nothing, CheckExecutionProvider(profile, order) \o CheckParticipantScheduledProviderPolicy(order), q)
      BY <2>2, <3>1, <3>2
    <3> QED
      BY <3>3, <3>4, RunsBoth
  <2> QED
    BY <1>0, <2>1, <2>2
<1>9. PICK r \in State : /\ Runs(s, Nothing, CheckExecutionProvider(profile, order), r)
                         /\ name = "scheduled launch" => Runs(s, r, CheckParticipantScheduledProviderPolicy(order), q)
  BY <1>8
<1>10. profile = "provider-executed" => "displayName" \notin LaunchDigested(profile)
  BY DEF LaunchDigested, RequestParts
<1> HIDE DEF profile
<1>11. /\ {"authority", "body", "ledger"} \subseteq Range(s.gates)
       /\ ~Before(s, "ledger", "authority") /\ ~Before(s, "ledger", "body") /\ ~Before(s, "policy", "ledger")
       /\ s.habit \notin {"forgetful", "byToken", "renews", "leaks", "dropsOnRefusal", "anyPayload",
                          "recordsRefusals"}
       /\ \A c \in invalidLaunchGrantMutations : <<"contest-launch", c>> \notin s.forgets
       /\ \A part \in LaunchDigested(profile) \ {"displayName"} : part \notin s.overlooks
  BY <1>1, <1>9, LaunchTells
<1>12. name = "scheduled launch" => "policy" \in Range(s.gates)
  <2>1. s.gates \in Seq({"authority", "body", "ledger", "policy"})
    BY <1>1, <1>2
  <2> QED
    BY <1>1, <1>9, <2>1, PolicyTells
<1>13. \A g \in Gates(name) : g \in Range(s.gates) \/ <<"lacks", g>> \in Untested(name)
  <2>1. name = "launch" => <<"lacks", "policy">> \in Untested(name)
    BY UntestedByName
  <2> QED
    BY <1>0, <1>2, <1>11, <1>12, <2>1
<1>14. \A p \in Precedence(name) : ~Before(s, p[2], p[1])
  BY <1>3, <1>11
<1>15. \A c \in s.forgets : <<"forgets", c[1], c[2]>> \in Untested(name)
  BY <1>1, <1>4, <1>5, <1>11
<1>16. \A part \in s.overlooks : <<"overlooks", part>> \in Untested(name)
  <2>1. name = "scheduled launch" => <<"overlooks", "displayName">> \in Untested(name)
    BY UntestedByName
  <2>2. name = "launch" => profile = "provider-executed"
    BY DEF profile
  <2> QED
    BY <1>0, <1>1, <1>6, <1>10, <1>11, <2>1, <2>2
<1>17. s.habit \in {"proper", "lastOnly"}
  BY <1>1, <1>7, <1>11
<1> QED
  BY <1>13, <1>14, <1>15, <1>16, <1>17, OnlyUntested

\* An event suite that a service passes leaves it with untested flaws only.
LEMMA EventsCaught ==
  ASSUME NEW name \in EventSuites, name \in Suite, NEW s \in Specimen(name), NEW order, NEW q \in State,
         Runs(s, Nothing, Calls(name, order), q)
  PROVE  Flaws(name, s) \subseteq Untested(name)
<1> DEFINE profile == IF name = "events" THEN "provider-executed" ELSE "participant-scheduled"
           times == {"tokenID", "issuedAt", "expiresAt"}
<1>0. name \in EventSuites \cup {"source"} /\ name \notin LaunchSuites /\ name # "source"
      /\ name # "verifier" /\ name # "authority" /\ (name = "events" \/ name = "scheduled events")
  BY DEF LaunchSuites, EventSuites
<1>1. /\ s.gates \in Seq(Gates(name)) /\ Ordered(s)
      /\ s.forgets \subseteq Claims(name) /\ s.overlooks \subseteq Parts(name)
      /\ s.habit \in {"proper"} \cup Habits(name)
  BY SpecimenIs
<1>2. Gates(name) = {"authority", "body", "ledger", "order"}
  BY <1>0, Zenon DEF Gates
<1>3. Precedence(name) = {<<"authority", "ledger">>, <<"body", "ledger">>, <<"ledger", "order">>}
  BY <1>0, Zenon DEF Precedence
<1>4. Claims(name) = EventClaims(Binding("contest-started-event"))
  BY <1>0, Zenon DEF Claims
<1>5. Binding("contest-started-event") \subseteq invalidEventGrantMutations \cup times
  <2>1. Required("contest-started-event") = Identity \cup Route \cup (Execution \cup Instance)
    BY Zenon DEF Required
  <2>2. Binding("contest-started-event") =
          Envelope \cup Required("contest-started-event") \cup {"participantID"}
    <3>1. "contest-started-event" \notin SourcePurpose
      BY DEF SourcePurpose
    <3> QED
      BY <3>1, Zenon DEF Binding
  <2> QED
    BY <2>1, <2>2 DEF invalidEventGrantMutations, Identity, Route, Execution, Instance
<1>6. Parts(name) = EventDigested(profile)
  <2>1. Parts("events") = EventDigested("provider-executed")
    BY Zenon DEF Parts
  <2>2. Parts("scheduled events") = EventDigested("participant-scheduled")
    BY Zenon DEF Parts
  <2> QED
    BY <1>0, <2>1, <2>2
<1>7. Habits(name) = {"forgetful", "anyPayload", "byToken", "lastOnly", "recordsRefusals",
                      "dropsOnRefusal", "leaks", "renews"} \cup {"byOperation"}
  BY <1>0, Zenon DEF Habits
<1>8. Calls(name, order) = CheckExecutionEventSink(profile, order)
  <2>1. Calls("events", order) = CheckExecutionEventSink("provider-executed", order)
    BY Zenon DEF Calls
  <2>2. Calls("scheduled events", order) = CheckExecutionEventSink("participant-scheduled", order)
    BY Zenon DEF Calls
  <2> QED
    BY <1>0, <2>1, <2>2
<1> HIDE DEF profile
<1>9. /\ {"authority", "body", "ledger", "order"} \subseteq Range(s.gates)
      /\ ~Before(s, "ledger", "authority") /\ ~Before(s, "ledger", "body") /\ ~Before(s, "order", "ledger")
      /\ s.habit \notin {"forgetful", "byToken", "renews", "leaks", "dropsOnRefusal", "anyPayload",
                         "byOperation", "recordsRefusals"}
      /\ \A c \in invalidEventGrantMutations :
           <<"contest-started-event", c>> \notin s.forgets /\ <<"contest-result-event", c>> \notin s.forgets
      /\ \A part \in EventDigested(profile) \ {"terminalState", "eventLog"} : part \notin s.overlooks
  BY <1>1, <1>8, EventTells
<1>10. Untested(name) = {<<"habit", "lastOnly">>} \cup
         {<<"forgets", c[1], c[2]>> : c \in EventClaims(times)}
         \cup {<<"overlooks", part>> : part \in {"terminalState", "eventLog"}}
  BY UntestedByName
<1>11. \A p \in Precedence(name) : ~Before(s, p[2], p[1])
  BY <1>3, <1>9
<1>12. \A c \in s.forgets : <<"forgets", c[1], c[2]>> \in Untested(name)
  <2> SUFFICES ASSUME NEW c \in s.forgets PROVE c \in EventClaims(times)
    BY <1>10
  <2>1. PICK op \in {"contest-started-event", "contest-result-event"}, d \in Binding("contest-started-event") :
          c = <<op, d>>
    BY <1>1, <1>4 DEF EventClaims
  <2>2. d \notin invalidEventGrantMutations
    BY <1>9, <2>1
  <2>3. d \in times
    BY <1>5, <2>1, <2>2
  <2> QED
    BY <2>1, <2>3 DEF EventClaims
<1>13. \A part \in s.overlooks : <<"overlooks", part>> \in Untested(name)
  <2>1. \A part \in s.overlooks : part \in {"terminalState", "eventLog"}
    BY <1>1, <1>6, <1>9
  <2> QED
    BY <1>10, <2>1
<1>14. s.habit \in {"proper", "lastOnly"}
  BY <1>1, <1>7, <1>9
<1>15. \A g \in Gates(name) : g \in Range(s.gates) \/ <<"lacks", g>> \in Untested(name)
  BY <1>2, <1>9
<1> QED
  BY <1>11, <1>12, <1>13, <1>14, <1>15, OnlyUntested

\* So does the source suite.
LEMMA SourceCaught ==
  ASSUME "source" \in Suite, NEW s \in Specimen("source"), NEW order, NEW q \in State,
         Runs(s, Nothing, Calls("source", order), q)
  PROVE  Flaws("source", s) \subseteq Untested("source")
<1> DEFINE name == "source"
<1>0. name \in EventSuites \cup {"source"} /\ name \notin LaunchSuites /\ name \notin EventSuites
      /\ name = "source" /\ name # "verifier" /\ name # "authority" /\ name \in Suite /\ s \in Specimen(name)
      /\ Runs(s, Nothing, Calls(name, order), q)
  BY DEF LaunchSuites, EventSuites
<1>16. Untested(name) = {<<"habit", "lastOnly">>} \cup {<<"forgets", p, "competitionID">> : p \in SourcePurpose}
  BY UntestedByName
<1> HIDE DEF name
<1>1. /\ Ordered(s)
      /\ s.forgets \subseteq Claims(name) /\ s.overlooks \subseteq Parts(name)
      /\ s.habit \in {"proper"} \cup Habits(name)
  BY <1>0, SpecimenIs
<1>2. Gates(name) = {"authority", "body", "ledger", "references", "order"}
  BY <1>0, Zenon DEF Gates
<1>3. Precedence(name) = {<<"authority", "ledger">>, <<"body", "ledger">>, <<"ledger", "order">>}
  BY <1>0, Zenon DEF Precedence
<1>4. Claims(name) = UNION {{p} \X Binding(p) : p \in SourcePurpose}
  BY <1>0, Zenon DEF Claims
<1>5. ASSUME NEW p \in SourcePurpose
      PROVE  Binding(p) \subseteq sourceReplayGrantMutations(p) \cup {"competitionID"}
  <2>1. \/ p = "manifest-closure-plan" \/ p = "candidate-closure-validate-retain"
        \/ p = "artifact-disclosure-verify" \/ p = "artifact-publish"
    BY DEF SourcePurpose
  <2>2. Binding(p) = Envelope \cup Required(p) \cup {"competitionID"}
    <3>1. p # "contest-launch" /\ p \notin {"contest-started-event", "contest-result-event"}
      BY <2>1
    <3> QED
      BY <3>1, Zenon DEF Binding
  <2> DEFINE common == Envelope \cup {"providerID", "adapterID", "commandID", "typedPayloadDigest",
                 "transportContentType", "rawTransportDigest", "method", "resource",
                 "participantID", "participantVersionID"}
  <2>3. Identity \cup Route \cup Participant \subseteq common
    BY DEF Identity, Route, Participant
  <2>4. Required(p) \subseteq sourceReplayGrantMutations(p) /\ Envelope \subseteq sourceReplayGrantMutations(p)
    <3>1. CASE p = "manifest-closure-plan"
      <4>1. Required("manifest-closure-plan") = Identity \cup Route \cup (Participant \cup Repository \cup Manifest)
        BY Zenon DEF Required
      <4>2. sourceReplayGrantMutations("manifest-closure-plan") = common \cup
              {"repositoryNodeID", "commitOID", "manifestPath", "manifestEntryKind",
               "rawManifestBytesDigest", "manifestByteLimit"}
        BY Zenon DEF sourceReplayGrantMutations
      <4> QED
        BY <2>3, <3>1, <4>1, <4>2 DEF Repository, Manifest
    <3>2. CASE p = "candidate-closure-validate-retain"
      <4>1. Required("candidate-closure-validate-retain") =
              Identity \cup Route \cup (Participant \cup Repository \cup Closure \cup Candidate)
        BY Zenon DEF Required
      <4>2. sourceReplayGrantMutations("candidate-closure-validate-retain") = common \cup
              {"repositoryNodeID", "commitOID", "closurePlanID", "closurePlanDigest",
               "candidateTransferredBytesDigest", "aggregateByteLimit"}
        BY Zenon DEF sourceReplayGrantMutations
      <4> QED
        BY <2>3, <3>2, <4>1, <4>2 DEF Repository, Closure, Candidate
    <3>3. CASE p = "artifact-disclosure-verify"
      <4>1. Required("artifact-disclosure-verify") =
              Identity \cup Route \cup (Participant \cup Repository \cup Closure \cup Public \cup Artifact)
        BY Zenon DEF Required
      <4>2. sourceReplayGrantMutations("artifact-disclosure-verify") = common \cup
              {"repositoryNodeID", "commitOID", "closurePlanID", "closurePlanDigest",
               "publicCandidateTransferredBytesDigest", "aggregateByteLimit",
               "retentionReceiptID", "artifactDigest"}
        BY Zenon DEF sourceReplayGrantMutations
      <4> QED
        BY <2>3, <3>3, <4>1, <4>2 DEF Repository, Closure, Public, Artifact
    <3>4. CASE p = "artifact-publish"
      <4>1. Required("artifact-publish") = Identity \cup Route \cup (Participant \cup Artifact \cup Disclosure)
        BY Zenon DEF Required
      <4>2. sourceReplayGrantMutations("artifact-publish") = common \cup
              {"retentionReceiptID", "artifactDigest", "disclosureReceiptID", "disclosureRequestDigest"}
        BY Zenon DEF sourceReplayGrantMutations
      <4> QED
        BY <2>3, <3>4, <4>1, <4>2 DEF Artifact, Disclosure
    <3> QED
      BY <2>1, <3>1, <3>2, <3>3, <3>4
  <2> QED
    BY <2>2, <2>4
<1>6. Parts(name) = {"version", "files"}
  BY <1>0, Zenon DEF Parts
<1>7. Habits(name) = {"forgetful", "anyPayload", "byToken", "lastOnly", "recordsRefusals",
                      "dropsOnRefusal", "leaks", "renews"} \cup {"byOperation", "matchesAnything"}
  BY <1>0, Zenon DEF Habits
<1>8. Calls("source", order) = CheckSourceArtifactProvider(order)
  BY Zenon DEF Calls
<1>9. /\ {"authority", "body", "ledger", "references", "order"} \subseteq Range(s.gates)
      /\ ~Before(s, "ledger", "authority") /\ ~Before(s, "ledger", "body") /\ ~Before(s, "order", "ledger")
      /\ s.habit \notin {"forgetful", "byToken", "renews", "leaks", "dropsOnRefusal", "anyPayload",
                         "recordsRefusals", "byOperation", "matchesAnything"}
      /\ \A p \in SourcePurpose : \A c \in sourceReplayGrantMutations(p) : <<p, c>> \notin s.forgets
      /\ "version" \notin s.overlooks /\ "files" \notin s.overlooks
  BY <1>1, <1>8, SourceTells
<1>10. \A g \in Gates(name) : g \in Range(s.gates) \/ <<"lacks", g>> \in Untested(name)
  BY <1>2, <1>9
<1>11. \A p \in Precedence(name) : ~Before(s, p[2], p[1])
  BY <1>3, <1>9
<1>12. \A c \in s.forgets : <<"forgets", c[1], c[2]>> \in Untested(name)
  <2> SUFFICES ASSUME NEW c \in s.forgets PROVE <<"forgets", c[1], c[2]>> \in Untested(name)
    OBVIOUS
  <2>1. PICK p \in SourcePurpose : c \in {p} \X Binding(p)
    BY <1>1, <1>4
  <2>2. PICK d \in Binding(p) : c = <<p, d>>
    BY <2>1
  <2>3. d \notin sourceReplayGrantMutations(p)
    BY <1>9, <2>2
  <2>4. d = "competitionID"
    BY <1>5, <2>2, <2>3
  <2> QED
    BY <1>16, <2>2, <2>4
<1>13. \A part \in s.overlooks : <<"overlooks", part>> \in Untested(name)
  BY <1>1, <1>6, <1>9
<1>14. s.habit \in {"proper", "lastOnly"}
  BY <1>1, <1>7, <1>9
<1>15. Flaws(name, s) \subseteq Untested(name)
  BY <1>10, <1>11, <1>12, <1>13, <1>14, OnlyUntested
<1> QED
  BY <1>15 DEF name

\* So does the suite for verifiers ...
LEMMA VerifierCaught ==
  ASSUME "verifier" \in Suite, NEW s \in Specimen("verifier"), NEW order, NEW q \in State,
         Runs(s, Nothing, Calls("verifier", order), q)
  PROVE  Flaws("verifier", s) \subseteq Untested("verifier")
<1> DEFINE name == "verifier"
<1>0. name \notin EventSuites \cup {"source"} /\ name \notin LaunchSuites /\ name \notin EventSuites
      /\ name = "verifier" /\ name # "source" /\ name # "authority" /\ name \in Suite /\ s \in Specimen(name)
  BY DEF LaunchSuites, EventSuites
<1> HIDE DEF name
<1>1. /\ s.gates \in Seq(Gates(name)) /\ Ordered(s)
      /\ s.forgets \subseteq Claims(name) /\ s.overlooks \subseteq Parts(name)
      /\ s.habit \in {"proper"} \cup Habits(name)
  BY <1>0, SpecimenIs
<1>2. Gates(name) = {"authority", "ledger"}
  BY <1>0, Zenon DEF Gates
<1>3. Precedence(name) = {<<"ledger", "authority">>}
  BY <1>0, Zenon DEF Precedence
<1>4. Claims(name) = {"verify"} \X (untrusted \cup {"signature"})
  BY <1>0, Zenon DEF Claims
<1>5. Parts(name) = allGrantClaimMutations
  <2>1. Parts(name) = (Envelope \ {"tokenID"}) \cup Field
    BY <1>0, Zenon DEF Parts
  <2> QED
    BY <2>1 DEF allGrantClaimMutations
<1>6. Habits(name) = {"forgetful", "anyPayload"}
  BY <1>0, Zenon DEF Habits
<1>7. Calls("verifier", order) = CheckOperationGrantVerifier(order)
  BY Zenon DEF Calls
<1>8. /\ {"authority", "ledger"} \subseteq Range(s.gates) /\ ~Before(s, "authority", "ledger")
      /\ s.habit \notin {"forgetful", "anyPayload"}
      /\ \A c \in untrusted \cup {"signature"} : <<"verify", c>> \notin s.forgets
      /\ \A part \in allGrantClaimMutations : part \notin s.overlooks
  <2>1. s.gates \in Seq(Gates("verifier")) /\ Runs(s, Nothing, CheckOperationGrantVerifier(order), q)
    BY <1>0, <1>1, <1>7
  <2> QED
    BY <1>1, <2>1, VerifierTells
<1>9. \A g \in Gates(name) : g \in Range(s.gates) \/ <<"lacks", g>> \in Untested(name)
  BY <1>2, <1>8
<1>10. \A p \in Precedence(name) : ~Before(s, p[2], p[1])
  <2> DEFINE p == <<"ledger", "authority">>
  <2>1. p[1] = "ledger" /\ p[2] = "authority" /\ Precedence(name) = {p}
    BY <1>3
  <2> HIDE DEF p
  <2> QED
    BY <1>8, <2>1
<1>11. \A c \in s.forgets : <<"forgets", c[1], c[2]>> \in Untested(name)
  BY <1>1, <1>4, <1>8
<1>12. \A part \in s.overlooks : <<"overlooks", part>> \in Untested(name)
  BY <1>1, <1>5, <1>8
<1>13. s.habit \in {"proper", "lastOnly"}
  BY <1>1, <1>6, <1>8
<1>14. Flaws(name, s) \subseteq Untested(name)
  BY <1>9, <1>10, <1>11, <1>12, <1>13, OnlyUntested
<1> QED
  BY <1>14 DEF name

\* ... and the one for issuers.
LEMMA AuthorityCaught ==
  ASSUME "authority" \in Suite, NEW s \in Specimen("authority"), NEW order, NEW q \in State,
         Runs(s, Nothing, Calls("authority", order), q)
  PROVE  Flaws("authority", s) \subseteq Untested("authority")
<1> DEFINE name == "authority"
<1>0. name \notin EventSuites \cup {"source"} /\ name \notin LaunchSuites /\ name \notin EventSuites
      /\ name = "authority" /\ name # "source" /\ name # "verifier" /\ name \in Suite /\ s \in Specimen(name)
      /\ name # "launch" /\ name # "scheduled launch" /\ name # "events" /\ name # "scheduled events"
  BY DEF LaunchSuites, EventSuites
<1> HIDE DEF name
<1>1. /\ s.gates \in Seq(Gates(name)) /\ Ordered(s)
      /\ s.forgets \subseteq Claims(name) /\ s.overlooks \subseteq Parts(name)
      /\ s.habit \in {"proper"} \cup Habits(name)
  BY <1>0, SpecimenIs
<1>2. Gates(name) = {"authority"}
  BY <1>0, Zenon DEF Gates
<1>3. Precedence(name) = {}
  BY <1>0, Zenon DEF Precedence
<1>4. Claims(name) = Purpose \X operationGrantRequestMutations
  <2>1. Claims(name) = Purpose \X ({"purpose"} \cup Field)
    BY <1>0, Zenon DEF Claims
  <2> QED
    BY <2>1 DEF operationGrantRequestMutations
<1>5. Parts(name) = {}
  BY <1>0, Zenon DEF Parts
<1>6. Habits(name) = {}
  BY <1>0, Zenon DEF Habits
<1>7. Calls("authority", order) = CheckOperationGrantAuthority(order)
  BY Zenon DEF Calls
<1>8. /\ "authority" \in Range(s.gates)
      /\ \A purpose \in Purpose, f \in operationGrantRequestMutations : <<purpose, f>> \notin s.forgets
  <2>1. Nothing \in State
    BY NothingIs
  <2>2. s.gates \in Seq({"authority"}) /\ Runs(s, Nothing, CheckOperationGrantAuthority(order), q)
    BY <1>1, <1>2, <1>7
  <2> QED
    BY <1>1, <2>1, <2>2, RequestsBound
<1>9. \A g \in Gates(name) : g \in Range(s.gates) \/ <<"lacks", g>> \in Untested(name)
  BY <1>2, <1>8
<1>10. \A p \in Precedence(name) : ~Before(s, p[2], p[1])
  BY <1>3
<1>11. \A c \in s.forgets : <<"forgets", c[1], c[2]>> \in Untested(name)
  <2>1. ASSUME NEW c \in s.forgets PROVE FALSE
    <3>1. PICK u \in Purpose, f \in operationGrantRequestMutations : c = <<u, f>>
      BY <1>1, <1>4, <2>1
    <3> QED
      BY <1>8, <2>1, <3>1
  <2> QED
    BY <2>1
<1>12. \A part \in s.overlooks : <<"overlooks", part>> \in Untested(name)
  BY <1>1, <1>5
<1>13. s.habit \in {"proper", "lastOnly"}
  BY <1>1, <1>6
<1>14. Flaws(name, s) \subseteq Untested(name)
  BY <1>9, <1>10, <1>11, <1>12, <1>13, OnlyUntested
<1> QED
  BY <1>14 DEF name

\* Whatever the suite, a service that passes it has untested flaws only.
LEMMA SuiteCatches ==
  ASSUME NEW name \in Suite, NEW s \in Specimen(name), NEW order, NEW q \in State,
         Runs(s, Nothing, Calls(name, order), q)
  PROVE  Flaws(name, s) \subseteq Untested(name)
<1>1. name \in LaunchSuites \/ name \in EventSuites \/ name = "source" \/ name = "verifier" \/ name = "authority"
  BY SpecimenAssumption
<1> QED
  BY <1>1, LaunchCaught, EventsCaught, SourceCaught, VerifierCaught, AuthorityCaught

\* While nothing was reported, every call so far was answered rightly, one after the
\* other, and made the memories what they are.
CleanSoFar ==
  \E M \in [1 .. next -> State] :
    /\ M[1] = Nothing /\ M[next] = <<main, fresh>>
    /\ \A i \in 1 .. next - 1 : Answers(service, script[i], M[i], M[i + 1])
CleanInv ==
  /\ suite \in Suite /\ service \in Specimen(suite) /\ mapOrder \in Order
  /\ violations = {} => next \in 1 .. Len(script) + 1 /\ CleanSoFar

\* A clean examination starts with empty memories ...
LEMMA CleanStarts == Init => CleanInv
<1> SUFFICES ASSUME Init PROVE CleanInv
  OBVIOUS
<1>1. /\ suite \in Suite /\ service \in Specimen(suite) /\ mapOrder \in Order
      /\ next = 1 /\ main = Empty /\ fresh = Empty /\ violations = {}
  BY DEF Init
<1>2. script \in Seq(Fair)
  BY <1>1, ScriptIs, CallsFair
<1>3. <<main, fresh>> = Nothing /\ Nothing \in State
  BY <1>1, NothingIs DEF Nothing
<1>4. CleanSoFar
  <2> DEFINE M == [i \in 1 .. 1 |-> Nothing]
  <2>1. M \in [1 .. next -> State] /\ M[1] = Nothing /\ M[next] = <<main, fresh>> /\ 1 .. next - 1 = {}
    BY <1>1, <1>3
  <2> HIDE DEF M
  <2> QED
    BY <2>1 DEF CleanSoFar
<1>5. next \in 1 .. Len(script) + 1
  BY <1>1, <1>2
<1> QED
  BY <1>1, <1>4, <1>5 DEF CleanInv

\* ... and a right answer makes it longer by one call.
LEMMA CleanGoesOn == CleanInv /\ [Next]_vars => CleanInv'
<1> SUFFICES ASSUME CleanInv, [Next]_vars PROVE CleanInv'
  OBVIOUS
<1>1. suite' = suite /\ service' = service /\ mapOrder' = mapOrder
  BY DEF Next, CallMain, CallFresh, Judge, vars
<1>2. script' = script
  BY <1>1 DEF script, Script
<1>3. suite \in Suite /\ service \in Specimen(suite) /\ mapOrder \in Order
  BY DEF CleanInv
<1>4. script \in Seq(Fair) /\ Len(script) \in Nat
  BY <1>3, ScriptIs, CallsFair
<1>5. Ordered(service)
  BY <1>3, SpecimenIs
<1> SUFFICES ASSUME violations' = {} PROVE (next \in 1 .. Len(script) + 1 /\ CleanSoFar)'
  BY <1>1, <1>3 DEF CleanInv
<1>6. ASSUME violations = {}
      PROVE  /\ next \in 1 .. Len(script) + 1 /\ CleanSoFar /\ main \in Memory /\ fresh \in Memory
  <2>1. next \in 1 .. Len(script) + 1 /\ CleanSoFar
    BY <1>6 DEF CleanInv
  <2>2. PICK M \in [1 .. next -> State] : M[next] = <<main, fresh>>
    BY <2>1 DEF CleanSoFar
  <2>3. next \in 1 .. next
    BY <1>4, <2>1
  <2>4. <<main, fresh>> \in State
    BY <2>2, <2>3
  <2> QED
    BY <2>1, <2>4 DEF State
<1>7. ASSUME NEW call, NEW answer, next <= Len(script), call = script[next], Judge(call, answer)
      PROVE  /\ answer \in call.want /\ violations = {} /\ next' = next + 1
             /\ next \in 1 .. Len(script) /\ call \in Fair
  <2>1. violations = {}
    BY <1>7 DEF Judge
  <2>2. next \in 1 .. Len(script)
    BY <1>4, <1>6, <1>7, <2>1
  <2>3. answer \in call.want
    BY <1>7 DEF Judge
  <2>4. call \in Fair
    BY <1>4, <1>7, <2>2
  <2>5. answer \notin call.skips /\ answer \notin call.ends /\ answer \notin call.skips \ call.ends
    BY <2>3, <2>4 DEF Fair
  <2>6. Continue(call, answer) = next + 1
    BY <2>5, Zenon DEF Continue
  <2> QED
    BY <1>7, <2>1, <2>2, <2>3, <2>4, <2>6 DEF Judge
<1>8. ASSUME next <= Len(script), violations = {}, next' = next + 1, <<main', fresh'>> \in State,
             Answers(service, script[next], <<main, fresh>>, <<main', fresh'>>)
      PROVE  (next \in 1 .. Len(script) + 1 /\ CleanSoFar)'
  <2>1. PICK M \in [1 .. next -> State] :
          /\ M[1] = Nothing /\ M[next] = <<main, fresh>>
          /\ \A i \in 1 .. next - 1 : Answers(service, script[i], M[i], M[i + 1])
    BY <1>6, <1>8 DEF CleanSoFar
  <2>2. next \in Nat /\ next >= 1
    BY <1>4, <1>6, <1>8
  <2> DEFINE K == [i \in 1 .. next + 1 |-> IF i = next + 1 THEN <<main', fresh'>> ELSE M[i]]
  <2>3. /\ K \in [1 .. next + 1 -> State] /\ K[next + 1] = <<main', fresh'>>
        /\ \A i \in 1 .. next : K[i] = M[i]
    BY <1>8, <2>1, <2>2
  <2> HIDE DEF K
  <2>4. K[1] = Nothing
    BY <2>1, <2>2, <2>3
  <2>5. ASSUME NEW i \in 1 .. next PROVE Answers(service, script[i], K[i], K[i + 1])
    <3>1. CASE i = next
      BY <1>8, <2>1, <2>2, <2>3, <3>1
    <3>2. CASE i # next
      <4>1. i \in 1 .. next - 1 /\ i + 1 \in 1 .. next
        BY <2>2, <3>2
      <4> QED
        BY <2>1, <2>3, <4>1
    <3> QED
      BY <3>1, <3>2
  <2>6. next' - 1 = next
    BY <1>8, <2>2
  <2>7. CleanSoFar'
    BY <1>1, <1>2, <1>8, <2>3, <2>4, <2>5, <2>6 DEF CleanSoFar
  <2>8. next' \in 1 .. Len(script') + 1
    BY <1>2, <1>4, <1>8, <2>2
  <2> QED
    BY <2>7, <2>8
<1>9. CASE CallMain
  <2> DEFINE call == script[next]
             answer == Reply(service, main, call)
  <2>1. /\ next <= Len(script) /\ call.on = "main" /\ Judge(call, answer)
        /\ main' = Remembered(service, main, call, answer) /\ fresh' = fresh
    BY <1>9 DEF CallMain
  <2>2. /\ answer \in call.want /\ violations = {} /\ next' = next + 1 /\ call \in Fair
        /\ main \in Memory /\ fresh \in Memory
    BY <1>6, <1>7, <2>1
  <2> HIDE DEF call
  <2>3. main' \in Memory
    BY <1>5, <2>1, <2>2, RemembersMemory DEF Fair
  <2>4. Takes(service, call, main, main')
    BY <2>1, <2>2 DEF Takes
  <2> DEFINE p == <<main, fresh>>
             q == <<main', fresh'>>
  <2>5. p[1] = main /\ p[2] = fresh /\ q[1] = main' /\ q[2] = fresh' /\ q \in State
    BY <2>1, <2>2, <2>3 DEF State
  <2> HIDE DEF p, q, answer
  <2>6. Answers(service, call, p, q)
    BY <2>1, <2>4, <2>5 DEF Answers
  <2> QED
    BY <1>8, <2>1, <2>2, <2>5, <2>6 DEF call, p, q
<1>10. CASE CallFresh
  <2> DEFINE call == script[next]
             memory == IF call.on = "fresh" THEN Empty ELSE fresh
             answer == Reply(service, memory, call)
  <2>1. /\ next <= Len(script) /\ call.on # "main" /\ Judge(call, answer)
        /\ fresh' = Remembered(service, memory, call, answer) /\ main' = main
    BY <1>10 DEF CallFresh
  <2>2. /\ answer \in call.want /\ violations = {} /\ next' = next + 1 /\ call \in Fair
        /\ main \in Memory /\ fresh \in Memory
    BY <1>6, <1>7, <2>1
  <2>3. memory \in Memory
    <3>1. Empty \in Memory
      BY NothingIs DEF Nothing, State
    <3> QED
      BY <2>2, <3>1
  <2>4. (call.on = "fresh" => memory = Empty) /\ (call.on = "same" => memory = fresh)
    OBVIOUS
  <2> HIDE DEF call, memory
  <2>5. fresh' \in Memory
    BY <1>5, <2>1, <2>2, <2>3, RemembersMemory DEF Fair
  <2>6. Takes(service, call, memory, fresh')
    BY <2>1, <2>2 DEF Takes
  <2> DEFINE p == <<main, fresh>>
             q == <<main', fresh'>>
  <2>7. p[1] = main /\ p[2] = fresh /\ q[1] = main' /\ q[2] = fresh' /\ q \in State
    BY <2>1, <2>2, <2>5 DEF State
  <2> HIDE DEF p, q, answer
  <2>8. Answers(service, call, p, q)
    BY <2>1, <2>4, <2>6, <2>7 DEF Answers
  <2> QED
    BY <1>8, <2>1, <2>2, <2>7, <2>8 DEF call, p, q
<1>11. CASE UNCHANGED vars
  <2>1. next' = next /\ main' = main /\ fresh' = fresh /\ violations = {}
    BY <1>11 DEF vars
  <2>2. next \in 1 .. Len(script) + 1 /\ CleanSoFar
    BY <1>6, <2>1
  <2> QED
    BY <1>1, <1>2, <2>1, <2>2 DEF CleanSoFar
<1> QED
  BY <1>9, <1>10, <1>11 DEF Next

\* A finished examination that reported nothing is a clean run of the whole suite.
LEMMA CleanCatches == CleanInv => CatchesEveryFlaw
<1> SUFFICES ASSUME CleanInv, finished, violations = {} PROVE Flaws(suite, service) \subseteq Untested(suite)
  BY DEF CatchesEveryFlaw
<1>1. /\ suite \in Suite /\ service \in Specimen(suite) /\ mapOrder \in Order
      /\ next \in 1 .. Len(script) + 1 /\ CleanSoFar
  BY DEF CleanInv
<1>2. script = Calls(suite, mapOrder) /\ script \in Seq(Fair) /\ Len(script) \in Nat
  BY <1>1, ScriptIs, CallsFair
<1>3. next = Len(script) + 1 /\ next - 1 = Len(script) /\ next \in 1 .. next
  BY <1>1, <1>2 DEF finished
<1>4. PICK M \in [1 .. next -> State] :
        /\ M[1] = Nothing /\ M[next] = <<main, fresh>>
        /\ \A i \in 1 .. next - 1 : Answers(service, script[i], M[i], M[i + 1])
  BY <1>1 DEF CleanSoFar
<1>5. <<main, fresh>> \in State
  BY <1>3, <1>4
<1>6. Runs(service, Nothing, script, <<main, fresh>>)
  BY <1>3, <1>4 DEF Runs
<1> QED
  BY <1>1, <1>2, <1>5, <1>6, SuiteCatches

\* While a suite has reported nothing, its calls so far were all answered rightly, each
\* by the service that the calls before it left, and none of them was skipped.
THEOREM CleanExamination == Spec => []CleanInv
<1>1. Init => CleanInv
  BY CleanStarts
<1>2. CleanInv /\ [Next]_vars => CleanInv'
  BY CleanGoesOn
<1> QED
  BY <1>1, <1>2, PTL DEF Spec

\* No flaw escapes: a service that a suite of contract4competiostest comes to the end of
\* without a violation has no flaw a call of the suite is meant for; what earlier probes
\* left in its ledger, a skipped probe or a second flaw hide none.
THEOREM NoFlawEscapes == Spec => []CatchesEveryFlaw
<1>1. CleanInv => CatchesEveryFlaw
  BY CleanCatches
<1> QED
  BY <1>1, CleanExamination, PTL
=============================================================================
