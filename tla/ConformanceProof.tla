-------------------------- MODULE ConformanceProof --------------------------
(***************************************************************************)
(* The conformance suites raise no false alarm: a service whose flaws are  *)
(* all among those a suite has no call for passes it, whatever order its   *)
(* gates are in and whatever order Go visits the suite's maps in.          *)
(*                                                                         *)
(* An examination keeps, for every place in the script, a set of memories  *)
(* (of the main service and of the latest fresh one) that the place is     *)
(* reached with; from each of them the call at that place has a right      *)
(* answer and leads into the set of the next place. A sequence of calls    *)
(* clears X into Y when there are such sets from X to Y, and sequences     *)
(* that clear compose. What remains is to say of each call which gates can *)
(* stop it in such a memory, and that the first of them answers as the     *)
(* suite wants.                                                            *)
(***************************************************************************)

EXTENDS Conformance, FiniteSetTheorems, WellFoundedInduction, SequenceTheorems, TLAPS

\* Maps visited in any order.

\* A set of numbers has a least one: the sets 0..k are well-founded under inclusion.
LEMMA LeastNatural ==
  ASSUME NEW T \in SUBSET Nat, NEW n \in T
  PROVE  \E m \in T : \A k \in T : m <= k
<1> DEFINE I == {0..k : k \in T}
<1>1. I \subseteq FiniteSubsetsOf(Nat)
  <2> SUFFICES ASSUME NEW k \in T PROVE 0..k \in FiniteSubsetsOf(Nat)
    OBVIOUS
  <2>1. IsFiniteSet(0..k) /\ 0..k \subseteq Nat
    BY FS_Interval
  <2> QED
    BY <2>1 DEF FiniteSubsetsOf
<1>2. I # {}
  OBVIOUS
<1>3. PICK x \in I : \A y \in I : <<y, x>> \notin StrictSubsetOrdering(Nat)
  <2> DEFINE R == StrictSubsetOrdering(Nat)
             F == FiniteSubsetsOf(Nat)
  <2>1. IsWellFoundedOn(R, F)
    BY FS_StrictSubsetOrderingWellFounded
  <2> HIDE DEF I, R, F
  <2>2. \E x \in I : \A y \in I : ~(<<y, x>> \in R)
    BY <1>1, <1>2, <2>1, WFMin, ZenonT(30) DEF F
  <2> QED
    BY <2>2 DEF R
<1>4. PICK m \in T : x = 0..m
  OBVIOUS
<1>5. ASSUME NEW k \in T, k < m PROVE FALSE
  <2>1. 0..k \subseteq 0..m /\ m \in 0..m /\ m \notin 0..k
    BY <1>5
  <2>2. 0..k \in SUBSET Nat /\ 0..m \in SUBSET Nat
    OBVIOUS
  <2>3. 0..k # 0..m
    BY <2>1
  <2>4. <<0..k, 0..m>> \in StrictSubsetOrdering(Nat)
    BY <2>1, <2>2, <2>3 DEF StrictSubsetOrdering
  <2>5. 0..k \in I
    OBVIOUS
  <2> QED
    BY <1>3, <1>4, <2>4, <2>5
<1> QED
  BY <1>4, <1>5

\* A set with 0 and all successors holds every number.
LEMMA Induction ==
  ASSUME NEW S, 0 \in S, \A n \in Nat : n \in S => n + 1 \in S
  PROVE  Nat \subseteq S
<1> SUFFICES ASSUME NEW n \in Nat, n \notin S PROVE FALSE
  OBVIOUS
<1> DEFINE T == {k \in Nat : k \notin S}
<1>1. PICK m \in T : \A k \in T : m <= k
  BY LeastNatural
<1>2. m # 0 /\ m - 1 \in Nat /\ m - 1 < m
  OBVIOUS
<1>3. m - 1 \in S
  BY <1>1, <1>2
<1> QED
  BY <1>2, <1>3

\* One key's calls, and those of the keys that are left when it has been visited.
Joined(order, block, f, s) ==
  IF s = {} THEN <<>>
  ELSE block[Visited(order, block, s)] \o f[s \ {Visited(order, block, s)}]

\* One key fewer, after a visit.
LEMMA OneLess ==
  ASSUME NEW order, NEW block, IsFiniteSet(DOMAIN block), NEW s \in SUBSET (DOMAIN block), s # {}
  PROVE  /\ Visited(order, block, s) \in DOMAIN block
         /\ s \ {Visited(order, block, s)} \in SUBSET (DOMAIN block)
         /\ Cardinality(s) \in Nat /\ Cardinality(s) # 0
         /\ Cardinality(s \ {Visited(order, block, s)}) = Cardinality(s) - 1
<1>1. Visited(order, block, s) \in s
  BY DEF Visited
<1>2. IsFiniteSet(s)
  BY FS_Subset
<1>3. Cardinality(s) \in Nat /\ Cardinality(s) # 0
  BY <1>2, FS_CardinalityType, FS_EmptySet
<1> QED
  BY <1>1, <1>2, <1>3, FS_RemoveElement

\* The visit of all keys is well defined ...
LEMMA JoinDefined ==
  ASSUME NEW order, NEW block, IsFiniteSet(DOMAIN block)
  PROVE  \E f : f = [s \in SUBSET (DOMAIN block) |-> Joined(order, block, f, s)]
<1> DEFINE K == DOMAIN block
           Upto(n, f) == /\ f = [s \in SUBSET K |-> f[s]]
                         /\ \A s \in SUBSET K : Cardinality(s) <= n => f[s] = Joined(order, block, f, s)
           N == {n \in Nat : \E f : Upto(n, f)}
<1>0. \A s \in SUBSET K : Cardinality(s) \in Nat /\ Cardinality(s) <= Cardinality(K)
  BY FS_Subset, FS_CardinalityType
<1>1. 0 \in N
  <2> DEFINE g == [s \in SUBSET K |-> <<>>]
  <2>1. \A s \in SUBSET K : Cardinality(s) <= 0 => s = {}
    BY <1>0, FS_Subset, FS_EmptySet
  <2>2. Upto(0, g)
    BY <2>1 DEF Joined
  <2> QED
    BY <2>2
<1>2. ASSUME NEW n \in Nat, n \in N PROVE n + 1 \in N
  <2>1. PICK f : Upto(n, f)
    BY <1>2
  <2> DEFINE g == [s \in SUBSET K |-> IF Cardinality(s) <= n THEN f[s] ELSE Joined(order, block, f, s)]
  <2>2. \A s \in SUBSET K : Cardinality(s) <= n => g[s] = f[s]
    OBVIOUS
  <2>3. ASSUME NEW s \in SUBSET K, Cardinality(s) <= n + 1 PROVE g[s] = Joined(order, block, f, s)
    <3>1. CASE Cardinality(s) <= n
      BY <2>1, <3>1
    <3>2. CASE ~(Cardinality(s) <= n)
      BY <3>2
    <3> QED
      BY <3>1, <3>2
  <2>4. ASSUME NEW s \in SUBSET K, Cardinality(s) <= n + 1
        PROVE  Joined(order, block, g, s) = Joined(order, block, f, s)
    <3>1. CASE s = {}
      BY <3>1 DEF Joined
    <3>2. CASE s # {}
      <4>1. g[s \ {Visited(order, block, s)}] = f[s \ {Visited(order, block, s)}]
        <5>1. /\ s \ {Visited(order, block, s)} \in SUBSET K /\ Cardinality(s) \in Nat
              /\ Cardinality(s \ {Visited(order, block, s)}) = Cardinality(s) - 1
          BY <3>2, OneLess
        <5>2. Cardinality(s \ {Visited(order, block, s)}) <= n
          BY <2>4, <5>1
        <5> HIDE DEF g
        <5> QED
          BY <2>2, <5>1, <5>2
      <4> QED
        BY <3>2, <4>1 DEF Joined
    <3> QED
      BY <3>1, <3>2
  <2>5. g = [s \in SUBSET K |-> g[s]]
    OBVIOUS
  <2> HIDE DEF g
  <2>6. Upto(n + 1, g)
    BY <2>3, <2>4, <2>5
  <2> HIDE DEF Upto
  <2> QED
    BY <2>6
<1>3. Cardinality(K) \in N
  <2>1. Cardinality(K) \in Nat
    BY FS_CardinalityType
  <2>2. Nat \subseteq N
    <3> HIDE DEF N
    <3> QED
      BY <1>1, <1>2, Induction
  <2> QED
    BY <2>1, <2>2
<1>4. PICK f : Upto(Cardinality(K), f)
  BY <1>3
<1>5. \A s \in SUBSET K : f[s] = Joined(order, block, f, s)
  BY <1>0, <1>4
<1>6. f = [s \in SUBSET K |-> Joined(order, block, f, s)]
  BY <1>4, <1>5
<1> QED
  BY <1>6

\* ... and keeps whatever the empty sequence has and a concatenation passes on.
LEMMA EachKeeps ==
  ASSUME NEW order, NEW block, IsFiniteSet(DOMAIN block), NEW Q, <<>> \in Q,
         \A a, b \in Q : a \o b \in Q, \A k \in DOMAIN block : block[k] \in Q
  PROVE  Each(order, block) \in Q
<1> DEFINE K == DOMAIN block
           Fits(f) == f = [s \in SUBSET K |-> Joined(order, block, f, s)]
           iter == CHOOSE f : Fits(f)
<1>1. Fits(iter)
  BY JoinDefined
<1>2. Each(order, block) = iter[K]
  BY DEF Each, MapThenFoldSet, Joined
<1> HIDE DEF iter
<1>0. \A s \in SUBSET K : Cardinality(s) \in Nat
  BY FS_Subset, FS_CardinalityType
<1> DEFINE N == {n \in Nat : \A s \in SUBSET K : Cardinality(s) <= n => iter[s] \in Q}
<1>3. 0 \in N
  <2>1. \A s \in SUBSET K : Cardinality(s) <= 0 => s = {}
    BY <1>0, FS_Subset, FS_EmptySet
  <2>2. iter[{}] = <<>>
    BY <1>1 DEF Joined
  <2> QED
    BY <2>1, <2>2
<1>4. ASSUME NEW n \in Nat, n \in N PROVE n + 1 \in N
  <2> SUFFICES ASSUME NEW s \in SUBSET K, Cardinality(s) <= n + 1 PROVE iter[s] \in Q
    OBVIOUS
  <2>1. CASE s = {}
    BY <1>1, <2>1 DEF Joined
  <2>2. CASE s # {}
    <3>1. /\ Visited(order, block, s) \in K /\ s \ {Visited(order, block, s)} \in SUBSET K /\ Cardinality(s) \in Nat
          /\ Cardinality(s \ {Visited(order, block, s)}) = Cardinality(s) - 1
      BY <2>2, OneLess
    <3>2. iter[s \ {Visited(order, block, s)}] \in Q /\ block[Visited(order, block, s)] \in Q
      BY <1>4, <3>1
    <3>3. iter[s] = Joined(order, block, iter, s)
      BY <1>1
    <3> QED
      BY <2>2, <3>2, <3>3 DEF Joined
  <2> QED
    BY <2>1, <2>2
<1>5. Cardinality(K) \in N
  <2>1. Cardinality(K) \in Nat
    BY FS_CardinalityType
  <2> HIDE DEF N
  <2> QED
    BY <1>3, <1>4, <2>1, Induction
<1> QED
  BY <1>2, <1>5

-----------------------------------------------------------------------------
\* Sequences of calls, with the memories each call is reached with.

\* The words of the suites: operations, commands, parts, claims and facts.
Word ==
  Purpose \cup {"purpose", "verify", "signature", "unknownKey", "expired", "notActive"}
  \cup Field \cup Envelope
  \cup RequestParts("provider-executed") \cup RequestParts("participant-scheduled")
  \cup ResultParts("provider-executed") \cup ResultParts("participant-scheduled")
  \cup {"first", "fresh"} \cup {"nothing", "body", "policy"} \cup {"started", "ended"}
  \cup {"launch", "independent"}
  \cup {"start", "result", "bound", "late-failure", "late-cancellation", "late-start", "cancel", "failure"}
  \cup {"manifest", "candidate", "disclosure", "publication", "mismatch", "mismatch-publication",
        "wrong-path", "symlink", "submodule", "wrong-plan", "other-plan", "missing-disclosure",
        "version", "files", "path", "plan", "digest", "collision", "kept", "shown"}
  \cup {"good", "forged", "replayed", "bad", "token"}

\* What calls need: facts, and the disclosure of a version that nobody retains.
Need == Word \cup {"other-version"}

\* What a service remembers, what it is asked, and the calls of a suite.
Entry    == [op : Word, command : Word, body : SUBSET Word, token : Word]
Memory   == [ledger : SUBSET Entry, facts : SUBSET Word]
CallType == [op : Word, command : Word, body : SUBSET Word, outside : Word,
             needs : SUBSET Need, bars : SUBSET Word, gives : SUBSET Word,
             success : {"accepted", "mismatched"},
             on : {"main", "fresh", "same"}, off : SUBSET Word, token : Word,
             want : SUBSET Answer, skips : SUBSET Answer, ends : SUBSET Answer]
State == Memory \X Memory

\* Asked c in a memory of A, a service gives a right answer, the suite goes on with
\* its next call, and the memory is one of B.
Serves(s, c, A, B) ==
  \A m \in A : LET answer == Reply(s, m, c)
               IN  /\ answer \in c.want \ (c.skips \cup c.ends)
                   /\ Remembered(s, m, c, answer) \in B

\* The same of both memories a suite deals with.
Leads(s, c, X, Y) ==
  \A p \in X :
    LET m      == IF c.on = "main" THEN p[1] ELSE IF c.on = "fresh" THEN Empty ELSE p[2]
        answer == Reply(s, m, c)
        after  == Remembered(s, m, c, answer)
    IN  /\ answer \in c.want \ (c.skips \cup c.ends)
        /\ (IF c.on = "main" THEN <<after, p[2]>> ELSE <<p[1], after>>) \in Y

\* L says of every place in a sequence of calls which memories it is reached with.
Annotates(s, calls, L) ==
  /\ L \in [1 .. Len(calls) + 1 -> SUBSET State]
  /\ \A i \in 1 .. Len(calls) : Leads(s, calls[i], L[i], L[i + 1])

Clears(s, X, calls, Y) ==
  /\ calls \in Seq(CallType) /\ X \subseteq State
  /\ \E L : Annotates(s, calls, L) /\ X \subseteq L[1] /\ L[Len(calls) + 1] \subseteq Y

\* No calls.
LEMMA NothingToClear ==
  ASSUME NEW s, NEW X, X \subseteq State PROVE Clears(s, X, <<>>, X)
<1> DEFINE L == [i \in 1 .. 1 |-> X]
<1>1. Annotates(s, <<>>, L) /\ X \subseteq L[1] /\ L[Len(<<>>) + 1] \subseteq X
  BY DEF Annotates
<1> HIDE DEF L
<1> QED
  BY <1>1 DEF Clears

\* One call.
LEMMA OneClears ==
  ASSUME NEW s, NEW c \in CallType, NEW X, NEW Y, X \subseteq State, Y \subseteq State,
         Leads(s, c, X, Y)
  PROVE  Clears(s, X, <<c>>, Y)
<1> DEFINE L == [i \in 1 .. 2 |-> IF i = 1 THEN X ELSE Y]
<1>1. <<c>> \in Seq(CallType) /\ Len(<<c>>) = 1 /\ <<c>>[1] = c
  OBVIOUS
<1>2. L \in [1 .. 2 -> SUBSET State] /\ L[1] = X /\ L[2] = Y
  OBVIOUS
<1> HIDE DEF L
<1>3. Annotates(s, <<c>>, L)
  BY <1>1, <1>2 DEF Annotates
<1> QED
  BY <1>1, <1>2, <1>3 DEF Clears

\* From fewer memories into more.
LEMMA ClearsWider ==
  ASSUME NEW s, NEW calls, NEW X, NEW Y, NEW U, NEW V, Clears(s, X, calls, Y),
         U \subseteq X, Y \subseteq V
  PROVE  Clears(s, U, calls, V)
BY DEF Clears

\* One sequence after another: the second starts where the first ended.
LEMMA ClearsBoth ==
  ASSUME NEW s, NEW a, NEW b, NEW X, NEW Y, NEW Z, Clears(s, X, a, Y), Clears(s, Y, b, Z)
  PROVE  Clears(s, X, a \o b, Z)
<1>1. PICK K : Annotates(s, a, K) /\ X \subseteq K[1] /\ K[Len(a) + 1] \subseteq Y
  BY DEF Clears
<1>2. PICK L : Annotates(s, b, L) /\ Y \subseteq L[1] /\ L[Len(b) + 1] \subseteq Z
  BY DEF Clears
<1> DEFINE n == Len(a)
           k == Len(b)
           M == [i \in 1 .. n + k + 1 |-> IF i <= n THEN K[i] ELSE L[i - n]]
<1>3. a \in Seq(CallType) /\ b \in Seq(CallType) /\ X \subseteq State /\ n \in Nat /\ k \in Nat
  BY DEF Clears
<1>4. a \o b \in Seq(CallType) /\ Len(a \o b) = n + k
      /\ \A i \in 1 .. n + k : (a \o b)[i] = IF i <= n THEN a[i] ELSE b[i - n]
  BY <1>3
<1>5. M \in [1 .. n + k + 1 -> SUBSET State]
  BY <1>1, <1>2, <1>3 DEF Annotates
<1>6. ASSUME NEW i \in 1 .. n + k PROVE Leads(s, (a \o b)[i], M[i], M[i + 1])
  <2>1. CASE i < n
    <3>1. (a \o b)[i] = a[i] /\ M[i] = K[i] /\ M[i + 1] = K[i + 1] /\ i \in 1 .. n
      BY <1>3, <1>4, <2>1
    <3> QED
      BY <1>1, <3>1 DEF Annotates
  <2>2. CASE i = n
    <3>1. (a \o b)[i] = a[i] /\ M[i] = K[i] /\ M[i + 1] = L[1] /\ i \in 1 .. n
      BY <1>3, <1>4, <2>2
    <3>2. K[i + 1] \subseteq M[i + 1] /\ Leads(s, a[i], K[i], K[i + 1])
      BY <1>1, <1>2, <2>2, <3>1 DEF Annotates
    <3> QED
      BY <3>1, <3>2 DEF Leads
  <2>3. CASE i > n
    <3>1. (a \o b)[i] = b[i - n] /\ M[i] = L[i - n] /\ M[i + 1] = L[(i - n) + 1] /\ i - n \in 1 .. k
      BY <1>3, <1>4, <2>3
    <3> QED
      BY <1>2, <3>1 DEF Annotates
  <2> QED
    BY <1>3, <2>1, <2>2, <2>3
<1>7. X \subseteq M[1] /\ M[n + k + 1] \subseteq Z
  <2>1. CASE n = 0
    BY <1>1, <1>2, <1>3, <2>1
  <2>2. CASE n # 0
    BY <1>1, <1>2, <1>3, <2>2
  <2> QED
    BY <2>1, <2>2
<1> HIDE DEF M
<1>8. Annotates(s, a \o b, M)
  BY <1>4, <1>5, <1>6 DEF Annotates
<1> QED
  BY <1>3, <1>4, <1>7, <1>8 DEF Clears

\* A block for every key of a map, whatever order the keys are visited in.
LEMMA EachClears ==
  ASSUME NEW s, NEW X, X \subseteq State, NEW order, NEW block, IsFiniteSet(DOMAIN block),
         \A k \in DOMAIN block : Clears(s, X, block[k], X)
  PROVE  Clears(s, X, Each(order, block), X)
<1> DEFINE Q == {calls \in Seq(CallType) : Clears(s, X, calls, X)}
<1>1. <<>> \in Q
  BY NothingToClear
<1>2. \A a, b \in Q : a \o b \in Q
  <2> SUFFICES ASSUME NEW a \in Q, NEW b \in Q PROVE a \o b \in Q
    OBVIOUS
  <2>1. Clears(s, X, a \o b, X)
    BY ClearsBoth
  <2> QED
    BY <2>1 DEF Clears
<1>3. \A k \in DOMAIN block : block[k] \in Q
  BY DEF Clears
<1> HIDE DEF Q
<1>4. Each(order, block) \in Q
  BY <1>1, <1>2, <1>3, EachKeeps
<1> QED
  BY <1>4 DEF Q

\* A call to the main service leaves the fresh one as it is ...
LEMMA MainClears ==
  ASSUME NEW s, NEW c \in CallType, NEW A \in SUBSET Memory, NEW B \in SUBSET Memory,
         c.on = "main", Serves(s, c, A, B)
  PROVE  Clears(s, A \X Memory, <<c>>, B \X Memory)
<1>1. Leads(s, c, A \X Memory, B \X Memory)
  <2> SUFFICES ASSUME NEW p \in A \X Memory
               PROVE  LET answer == Reply(s, p[1], c)
                      IN  /\ answer \in c.want \ (c.skips \cup c.ends)
                          /\ <<Remembered(s, p[1], c, answer), p[2]>> \in B \X Memory
    BY DEF Leads
  <2>1. p[1] \in A /\ p[2] \in Memory
    OBVIOUS
  <2> QED
    BY <2>1 DEF Serves
<1> QED
  BY <1>1, OneClears DEF State

\* ... a call to a new service depends on neither ...
LEMMA FreshClears ==
  ASSUME NEW s, NEW c \in CallType, NEW A \in SUBSET Memory, NEW B \in SUBSET Memory,
         c.on = "fresh", Serves(s, c, {Empty}, B)
  PROVE  Clears(s, A \X Memory, <<c>>, A \X B)
<1>1. Leads(s, c, A \X Memory, A \X B)
  <2> SUFFICES ASSUME NEW p \in A \X Memory
               PROVE  LET answer == Reply(s, Empty, c)
                      IN  /\ answer \in c.want \ (c.skips \cup c.ends)
                          /\ <<p[1], Remembered(s, Empty, c, answer)>> \in A \X B
    BY DEF Leads
  <2>1. p[1] \in A
    OBVIOUS
  <2> QED
    BY <2>1 DEF Serves
<1> QED
  BY <1>1, OneClears DEF State

\* ... and a call to the service made last leaves the main one as it is.
LEMMA SameClears ==
  ASSUME NEW s, NEW c \in CallType, NEW A \in SUBSET Memory, NEW B \in SUBSET Memory,
         NEW D \in SUBSET Memory, c.on = "same", Serves(s, c, B, D)
  PROVE  Clears(s, A \X B, <<c>>, A \X D)
<1>1. Leads(s, c, A \X B, A \X D)
  <2> SUFFICES ASSUME NEW p \in A \X B
               PROVE  LET answer == Reply(s, p[2], c)
                      IN  /\ answer \in c.want \ (c.skips \cup c.ends)
                          /\ <<p[1], Remembered(s, p[2], c, answer)>> \in A \X D
    BY DEF Leads
  <2>1. p[1] \in A /\ p[2] \in B
    OBVIOUS
  <2> QED
    BY <2>1 DEF Serves
<1> QED
  BY <1>1, OneClears DEF State

-----------------------------------------------------------------------------
Gate == {"authority", "body", "ledger", "policy", "references", "order"}

\* Services without a bad habit that a suite has a call for.
Upright(s) == s.gates \in Seq(Gate) /\ s.habit \in {"proper", "lastOnly"}
Before(s, a, b) == \E i, j \in DOMAIN s.gates : i < j /\ s.gates[i] = a /\ s.gates[j] = b
Stopping(s, m, c) == {g \in Range(s.gates) : ~Passes(s, m, c, g)}

\* What an upright service answers: its gates decide.
LEMMA UprightReply ==
  ASSUME NEW s, NEW m, NEW c, Upright(s) PROVE Reply(s, m, c) = GatesAnswer(s, m, c)
<1>1. s.habit # "leaks" /\ s.habit # "renews"
  BY DEF Upright
<1> QED
  BY <1>1, Zenon DEF Reply

\* The stopping gate that none comes before answers.
LEMMA FirstGate ==
  ASSUME NEW s, NEW m, NEW c, Upright(s), NEW g \in Stopping(s, m, c),
         \A h \in Stopping(s, m, c) : h = g \/ ~Before(s, h, g)
  PROVE  Reply(s, m, c) = GateAnswer(s, m, c, g)
<1> DEFINE stops == {i \in DOMAIN s.gates : ~Passes(s, m, c, s.gates[i])}
<1>1. PICK j \in DOMAIN s.gates : s.gates[j] = g
  BY DEF Stopping, Range
<1>2. j \in stops /\ stops \subseteq Nat
  BY <1>1 DEF Stopping, Upright
<1>3. \E i \in stops : \A k \in stops : i <= k
  BY <1>2, LeastNatural
<1>4. Min(stops) \in stops /\ \A k \in stops : Min(stops) <= k
  BY <1>3 DEF Min
<1>5. Reply(s, m, c) = GateAnswer(s, m, c, s.gates[Min(stops)])
  <2>1. stops # {}
    BY <1>2
  <2> QED
    BY <2>1, UprightReply, Zenon DEF GatesAnswer
<1> HIDE DEF stops
<1>6. Min(stops) = j \/ Min(stops) < j
  BY <1>2, <1>4
<1>7. s.gates[Min(stops)] \in Stopping(s, m, c) /\ Min(stops) \in DOMAIN s.gates
  BY <1>4 DEF Stopping, Range, stops
<1>8. s.gates[Min(stops)] = g
  BY <1>1, <1>6, <1>7 DEF Before
<1> QED
  BY <1>5, <1>8

\* Of the gates that stop a call, one that is first answers.
LEMMA SomeGate ==
  ASSUME NEW s, NEW m, NEW c, Upright(s), Stopping(s, m, c) # {}
  PROVE  \E g \in Stopping(s, m, c) : Reply(s, m, c) = GateAnswer(s, m, c, g)
<1> DEFINE stops == {i \in DOMAIN s.gates : ~Passes(s, m, c, s.gates[i])}
<1>1. PICK j \in DOMAIN s.gates : ~Passes(s, m, c, s.gates[j])
  BY DEF Stopping, Range
<1>2. j \in stops /\ stops \subseteq Nat
  BY <1>1 DEF Upright
<1>3. \E i \in stops : \A k \in stops : i <= k
  BY <1>2, LeastNatural
<1>4. Min(stops) \in stops
  BY <1>3 DEF Min
<1>5. Reply(s, m, c) = GateAnswer(s, m, c, s.gates[Min(stops)])
  <2>1. stops # {}
    BY <1>2
  <2> QED
    BY <2>1, UprightReply, Zenon DEF GatesAnswer
<1> HIDE DEF stops
<1>6. s.gates[Min(stops)] \in Stopping(s, m, c)
  BY <1>4 DEF Stopping, Range, stops
<1> QED
  BY <1>5, <1>6

\* With no gate to stop it, a call succeeds.
LEMMA NoGate ==
  ASSUME NEW s, NEW m, NEW c, Upright(s), Stopping(s, m, c) = {}
  PROVE  Reply(s, m, c) = c.success
<1> DEFINE stops == {i \in DOMAIN s.gates : ~Passes(s, m, c, s.gates[i])}
<1>1. stops = {}
  BY DEF Stopping, Range
<1>2. s.habit # "matchesAnything"
  BY DEF Upright
<1> QED
  BY <1>1, <1>2, UprightReply, Zenon DEF GatesAnswer

\* What each gate answers to a call it stops.
LEMMA GateAnswers ==
  ASSUME NEW s, NEW m, NEW c
  PROVE  /\ GateAnswer(s, m, c, "authority") = "invalidGrant"
         /\ GateAnswer(s, m, c, "body") = "invalidGrant"
         /\ GateAnswer(s, m, c, "policy") = "refused"
         /\ GateAnswer(s, m, c, "references") = "invalidTransition"
         /\ GateAnswer(s, m, c, "order") = "invalidTransition"
         /\ (\E x \in Prior(s, m, c) : SamePayload(s, x, c)) => GateAnswer(s, m, c, "ledger") = "replayed"
         /\ (\A x \in Prior(s, m, c) : ~SamePayload(s, x, c)) =>
              GateAnswer(s, m, c, "ledger") = "commandConflict"
<1>1. \A x, y : x = y => y = x
  OBVIOUS
<1>2. GateAnswer(s, m, c, "authority") = "invalidGrant"
  BY Zenon DEF GateAnswer
<1>3. GateAnswer(s, m, c, "body") = "invalidGrant"
  BY Zenon DEF GateAnswer
<1>4. GateAnswer(s, m, c, "policy") = "refused"
  BY Zenon DEF GateAnswer
<1>5. GateAnswer(s, m, c, "order") = "invalidTransition" /\ GateAnswer(s, m, c, "references") = "invalidTransition"
  BY Zenon DEF GateAnswer
<1>6. GateAnswer(s, m, c, "ledger") = IF \E x \in Prior(s, m, c) : SamePayload(s, x, c)
                                      THEN "replayed" ELSE "commandConflict"
  BY Zenon DEF GateAnswer
<1> QED
  BY <1>2, <1>3, <1>4, <1>5, <1>6

\* Only a command that succeeds is remembered.
LEMMA UprightRemembers ==
  ASSUME NEW s, NEW m, NEW c, NEW answer, Upright(s)
  PROVE  /\ answer \notin {"accepted", "mismatched"} => Remembered(s, m, c, answer) = m
         /\ answer = "accepted" =>
              Remembered(s, m, c, answer) =
                [ledger |-> (IF s.habit = "lastOnly" THEN {} ELSE m.ledger) \cup {Record(c)},
                 facts  |-> m.facts \cup c.gives]
         /\ answer = "mismatched" =>
              Remembered(s, m, c, answer) =
                [ledger |-> (IF s.habit = "lastOnly" THEN {} ELSE m.ledger) \cup {Record(c)},
                 facts  |-> m.facts]
<1>1. s.habit # "recordsRefusals" /\ s.habit # "dropsOnRefusal"
  BY DEF Upright
<1>2. ASSUME answer \notin {"accepted", "mismatched"} PROVE Remembered(s, m, c, answer) = m
  BY <1>1, <1>2, Zenon DEF Remembered
<1>3. ASSUME answer \in {"accepted", "mismatched"}
      PROVE  Remembered(s, m, c, answer) =
                [ledger |-> (IF s.habit = "lastOnly" THEN {} ELSE m.ledger) \cup {Record(c)},
                 facts  |-> IF answer = "accepted" THEN m.facts \cup c.gives ELSE m.facts]
  <2>1. answer \notin Refusal
    BY <1>3 DEF Refusal
  <2> QED
    BY <1>1, <1>3, <2>1, Zenon DEF Remembered
<1>4. "mismatched" # "accepted"
  OBVIOUS
<1> QED
  BY <1>2, <1>3, <1>4

\* Memories that hold commands of C only, the entries K and no other under the
\* commands of K, all the facts of F, and none but those of G.
Knows(C, K, F, G) ==
  {m \in Memory : /\ \A x \in m.ledger : x.command \in C
                  /\ K \subseteq m.ledger
                  /\ \A x \in m.ledger, y \in K : x.command = y.command => x = y
                  /\ F \subseteq m.facts /\ m.facts \subseteq G}

\* Such memories are memories.
LEMMA KnowsMemory == \A C, K, F, G : Knows(C, K, F, G) \in SUBSET Memory
BY DEF Knows

\* An empty memory knows nothing.
LEMMA EmptyKnows == Empty \in Knows({}, {}, {}, {})
BY DEF Knows, Memory, Empty

\* What an upright service takes for an earlier call, and for the same payload.
LEMMA UprightPrior ==
  ASSUME NEW s, NEW m, NEW c, Upright(s)
  PROVE  /\ Prior(s, m, c) = {x \in m.ledger : x.command = c.command}
         /\ \A x : SamePayload(s, x, c) <=> (x.op = c.op /\ x.body \ s.overlooks = c.body \ s.overlooks)
<1>1. s.habit # "forgetful" /\ s.habit # "byToken" /\ s.habit # "byOperation" /\ s.habit # "anyPayload"
  BY DEF Upright
<1> QED
  BY <1>1 DEF Prior, SamePayload

\* One gate or the other asks for what a call needs.
LEMMA AskingGates == \A op : Asking(op) \in {"references", "order"}
BY DEF Asking

\* The authority, body and policy gates look at the call alone.
Bound(s, c)   == \A d \in c.off : <<c.op, d>> \in s.forgets
InTime(c, F, G) == c.needs \subseteq F /\ c.bars \cap G = {}
TooSoon(c, F, G) == ~(c.needs \subseteq G) \/ c.bars \cap F # {}

\* A gate can stop a call in such a memory for these reasons only.
LEMMA Stops ==
  ASSUME NEW s, NEW c, NEW C, NEW K, NEW F, NEW G, NEW m \in Knows(C, K, F, G),
         Upright(s), NEW g \in Stopping(s, m, c)
  PROVE  /\ g \in Gate
         /\ g = "authority" => ~Bound(s, c)
         /\ g = "body" => c.outside = "body"
         /\ g = "policy" => c.outside = "policy"
         /\ g = "ledger" => c.command \in C
         /\ g \in {"references", "order"} => g = Asking(c.op) /\ ~InTime(c, F, G)
<1>1. g \in Gate
  BY DEF Stopping, Range, Upright
<1>2. g = "ledger" => \E x \in m.ledger : x.command = c.command
  <2>1. g = "ledger" => g # Asking(c.op)
    BY AskingGates
  <2> QED
    BY <2>1, UprightPrior DEF Stopping, Passes
<1>3. ASSUME g \in {"references", "order"} PROVE g = Asking(c.op) /\ ~InTime(c, F, G)
  <2>1. g # "authority" /\ g # "body" /\ g # "policy" /\ g # "ledger"
    BY <1>3
  <2>2. g = Asking(c.op) /\ ~(c.needs \subseteq m.facts /\ c.bars \cap m.facts = {})
    BY <2>1 DEF Stopping, Passes
  <2> QED
    BY <2>2 DEF InTime, Knows
<1>4. g \in {"authority", "body", "policy"} => g # Asking(c.op)
  BY AskingGates
<1> QED
  BY <1>1, <1>2, <1>3, <1>4 DEF Stopping, Passes, Bound, Knows

\* A new command that no gate stops.
LEMMA Accepts ==
  ASSUME NEW s, NEW c \in CallType, NEW C, NEW K, NEW F, NEW G, Upright(s),
         Bound(s, c), c.outside \notin {"body", "policy"}, InTime(c, F, G), c.command \notin C,
         c.success \in c.want \ (c.skips \cup c.ends),
         NEW gained, gained = IF c.success = "accepted" THEN c.gives ELSE {}
  PROVE  Serves(s, c, Knows(C, K, F, G),
                Knows(C \cup {c.command}, {Record(c)}, F \cup gained, G \cup gained))
<1> SUFFICES ASSUME NEW m \in Knows(C, K, F, G)
             PROVE  /\ Reply(s, m, c) = c.success
                    /\ Remembered(s, m, c, c.success)
                         \in Knows(C \cup {c.command}, {Record(c)}, F \cup gained, G \cup gained)
  BY DEF Serves
<1>1. Stopping(s, m, c) = {}
  BY Stops DEF Gate
<1>2. Reply(s, m, c) = c.success
  BY <1>1, NoGate
<1>3. c.success \in {"accepted", "mismatched"} /\ c.gives \in SUBSET Word
  BY DEF CallType
<1>4. Record(c) \in Entry /\ Record(c).command = c.command
  BY DEF Record, Entry, CallType
<1> DEFINE L == (IF s.habit = "lastOnly" THEN {} ELSE m.ledger) \cup {Record(c)}
           D == m.facts \cup gained
<1>5. Remembered(s, m, c, c.success) = [ledger |-> L, facts |-> D]
  <2>1. CASE c.success = "accepted"
    <3>1. D = m.facts \cup c.gives
      BY <2>1
    <3> HIDE DEF D
    <3> QED
      BY <2>1, <3>1, UprightRemembers
  <2>2. CASE c.success # "accepted"
    <3>1. D = m.facts
      BY <2>2
    <3> HIDE DEF D
    <3> QED
      BY <1>3, <2>2, <3>1, UprightRemembers
  <2> QED
    BY <2>1, <2>2
<1>6. m \in Memory /\ m.ledger \in SUBSET Entry /\ m.facts \in SUBSET Word
      /\ (\A x \in m.ledger : x.command \in C) /\ F \subseteq m.facts /\ m.facts \subseteq G
  BY DEF Knows, Memory
<1>7. L \in SUBSET Entry /\ D \in SUBSET Word
  BY <1>3, <1>4, <1>6
<1>8. /\ \A x \in L : x.command \in C \cup {c.command}
      /\ {Record(c)} \subseteq L
      /\ \A x \in L, y \in {Record(c)} : x.command = y.command => x = y
  BY <1>4, <1>6
<1>9. F \cup gained \subseteq D /\ D \subseteq G \cup gained
  BY <1>6
<1> HIDE DEF L, D
<1>10. [ledger |-> L, facts |-> D] \in Knows(C \cup {c.command}, {Record(c)}, F \cup gained, G \cup gained)
  BY <1>7, <1>8, <1>9 DEF Knows, Memory
<1> QED
  BY <1>2, <1>5, <1>10

\* What no call of this kind changes: the memory.
LEMMA Declines ==
  ASSUME NEW s, NEW c, NEW A, Upright(s),
         \A m \in A : Reply(s, m, c) \in (c.want \ (c.skips \cup c.ends)) \ {"accepted", "mismatched"}
  PROVE  Serves(s, c, A, A)
<1> SUFFICES ASSUME NEW m \in A PROVE Remembered(s, m, c, Reply(s, m, c)) = m
  BY DEF Serves
<1> QED
  BY UprightRemembers

\* A known command, as it was.
LEMMA Replays ==
  ASSUME NEW s, NEW c, NEW C, NEW K, NEW F, NEW G, Upright(s), "ledger" \in Range(s.gates),
         Bound(s, c), c.outside # "body", ~Before(s, "policy", "ledger"),
         InTime(c, F, G) \/ ~Before(s, Asking(c.op), "ledger"),
         NEW r \in K, r.command = c.command, r.op = c.op, r.body = c.body,
         "replayed" \in c.want \ (c.skips \cup c.ends)
  PROVE  Serves(s, c, Knows(C, K, F, G), Knows(C, K, F, G))
<1> SUFFICES ASSUME NEW m \in Knows(C, K, F, G) PROVE Reply(s, m, c) = "replayed"
  BY Declines
<1>1. r \in Prior(s, m, c) /\ SamePayload(s, r, c)
  BY UprightPrior DEF Knows
<1>2. "ledger" \in Stopping(s, m, c)
  BY <1>1 DEF Stopping, Passes
<1>3. \A h \in Stopping(s, m, c) : h = "ledger" \/ ~Before(s, h, "ledger")
  BY Stops DEF Gate
<1> QED
  BY <1>1, <1>2, <1>3, FirstGate, GateAnswers

\* Another payload, or another operation, under a known command.
LEMMA Conflicts ==
  ASSUME NEW s, NEW c, NEW C, NEW K, NEW F, NEW G, Upright(s), "ledger" \in Range(s.gates),
         Bound(s, c), c.outside # "body", ~Before(s, "policy", "ledger"),
         InTime(c, F, G) \/ ~Before(s, Asking(c.op), "ledger"),
         NEW r \in K, r.command = c.command,
         r.op # c.op \/ r.body \ s.overlooks # c.body \ s.overlooks,
         "commandConflict" \in c.want \ (c.skips \cup c.ends)
  PROVE  Serves(s, c, Knows(C, K, F, G), Knows(C, K, F, G))
<1> SUFFICES ASSUME NEW m \in Knows(C, K, F, G) PROVE Reply(s, m, c) = "commandConflict"
  BY Declines
<1>1. r \in Prior(s, m, c) /\ \A x \in Prior(s, m, c) : x = r /\ ~SamePayload(s, x, c)
  BY UprightPrior DEF Knows
<1>2. "ledger" \in Stopping(s, m, c)
  BY <1>1 DEF Stopping, Passes
<1>3. \A h \in Stopping(s, m, c) : h = "ledger" \/ ~Before(s, h, "ledger")
  BY Stops DEF Gate
<1> QED
  BY <1>1, <1>2, <1>3, FirstGate, GateAnswers

\* A grant that does not bind the call.
LEMMA Unauthorized ==
  ASSUME NEW s, NEW c, NEW C, NEW K, NEW F, NEW G, Upright(s), "authority" \in Range(s.gates),
         ~Bound(s, c), c.outside \notin {"body", "policy"},
         c.command \notin C \/ ~Before(s, "ledger", "authority"),
         InTime(c, F, G) \/ ~Before(s, Asking(c.op), "authority"),
         "invalidGrant" \in c.want \ (c.skips \cup c.ends)
  PROVE  Serves(s, c, Knows(C, K, F, G), Knows(C, K, F, G))
<1> SUFFICES ASSUME NEW m \in Knows(C, K, F, G) PROVE Reply(s, m, c) = "invalidGrant"
  BY Declines
<1>1. "authority" \in Stopping(s, m, c)
  BY DEF Stopping, Passes, Bound
<1>2. \A h \in Stopping(s, m, c) : h = "authority" \/ ~Before(s, h, "authority")
  BY Stops DEF Gate
<1> QED
  BY <1>1, <1>2, FirstGate, GateAnswers

\* A payload that is not the execution's, the plan's or the candidate's.
LEMMA Unfit ==
  ASSUME NEW s, NEW c, NEW C, NEW K, NEW F, NEW G, Upright(s), "body" \in Range(s.gates),
         Bound(s, c), c.outside = "body",
         c.command \notin C \/ ~Before(s, "ledger", "body"),
         InTime(c, F, G) \/ ~Before(s, Asking(c.op), "body"),
         "invalidGrant" \in c.want \ (c.skips \cup c.ends)
  PROVE  Serves(s, c, Knows(C, K, F, G), Knows(C, K, F, G))
<1> SUFFICES ASSUME NEW m \in Knows(C, K, F, G) PROVE Reply(s, m, c) = "invalidGrant"
  BY Declines
<1>1. "body" \in Stopping(s, m, c)
  BY DEF Stopping, Passes
<1>2. \A h \in Stopping(s, m, c) : h = "body" \/ ~Before(s, h, "body")
  <2>1. "body" # "policy"
    OBVIOUS
  <2> QED
    BY <2>1, Stops DEF Gate
<1> QED
  BY <1>1, <1>2, FirstGate, GateAnswers

\* A call that comes before what it needs, or after what bars it.
LEMMA Untimely ==
  ASSUME NEW s, NEW c, NEW C, NEW K, NEW F, NEW G, Upright(s), Asking(c.op) \in Range(s.gates),
         Bound(s, c), c.outside \notin {"body", "policy"}, c.command \notin C, TooSoon(c, F, G),
         "invalidTransition" \in c.want \ (c.skips \cup c.ends)
  PROVE  Serves(s, c, Knows(C, K, F, G), Knows(C, K, F, G))
<1> SUFFICES ASSUME NEW m \in Knows(C, K, F, G) PROVE Reply(s, m, c) = "invalidTransition"
  BY Declines
<1>0. Asking(c.op) \in {"references", "order"}
  BY AskingGates
<1>1. Asking(c.op) \in Stopping(s, m, c)
  BY <1>0 DEF Stopping, Passes, TooSoon, Knows
<1>2. \A h \in Stopping(s, m, c) : h = Asking(c.op)
  BY Stops DEF Gate
<1> QED
  BY <1>0, <1>1, <1>2, FirstGate, GateAnswers

\* A game or a number of slots that the adapter does not play.
LEMMA Unplayable ==
  ASSUME NEW s, NEW c, NEW C, NEW K, NEW F, NEW G, Upright(s), "policy" \in Range(s.gates),
         Bound(s, c), c.outside = "policy", c.command \notin C, InTime(c, F, G),
         "refused" \in c.want \ (c.skips \cup c.ends)
  PROVE  Serves(s, c, Knows(C, K, F, G), Knows(C, K, F, G))
<1> SUFFICES ASSUME NEW m \in Knows(C, K, F, G) PROVE Reply(s, m, c) = "refused"
  BY Declines
<1>1. "policy" \in Stopping(s, m, c)
  BY DEF Stopping, Passes
<1>2. \A h \in Stopping(s, m, c) : h = "policy"
  <2>1. "body" # "policy"
    OBVIOUS
  <2> QED
    BY <2>1, Stops DEF Gate
<1> QED
  BY <1>1, <1>2, FirstGate, GateAnswers

-----------------------------------------------------------------------------
\* Calls in terms of the items they ask for, and short runs of calls.

Item == [op : Word, command : Word, body : SUBSET Word, outside : Word,
         needs : SUBSET Need, bars : SUBSET Word, gives : SUBSET Word,
         success : {"accepted", "mismatched"}]

\* c asks for item on a service, under a grant wrong in off; after an answer of
\* right the suite goes on.
Asks(c, on, item, off, right) ==
  /\ c \in CallType
  /\ c.op = item.op /\ c.command = item.command /\ c.body = item.body
  /\ c.outside = item.outside /\ c.needs = item.needs /\ c.bars = item.bars
  /\ c.gives = item.gives /\ c.success = item.success
  /\ c.on = on /\ c.off = off /\ c.want \ (c.skips \cup c.ends) = right

\* The calls are calls, whatever of them is set anew.
LEMMA CallIs ==
  ASSUME NEW on \in {"main", "fresh", "same"}, NEW item \in Item, NEW want \in SUBSET Answer
  PROVE  /\ Asks(Call(on, item, want), on, item, {}, want)
         /\ Call(on, item, want).want = want
         /\ Call(on, item, want).skips = {} /\ Call(on, item, want).ends = {}
<1> DEFINE c == Call(on, item, want)
<1>1. /\ c.op = item.op /\ c.command = item.command /\ c.body = item.body
      /\ c.outside = item.outside /\ c.needs = item.needs /\ c.bars = item.bars
      /\ c.gives = item.gives /\ c.success = item.success
      /\ c.on = on /\ c.off = {} /\ c.want = want /\ c.skips = {} /\ c.ends = {}
  BY DEF Call
<1>2. c \in CallType
  <2>1. /\ item.op \in Word /\ item.command \in Word /\ item.body \in SUBSET Word
        /\ item.outside \in Word /\ item.needs \in SUBSET Need /\ item.bars \in SUBSET Word
        /\ item.gives \in SUBSET Word /\ item.success \in {"accepted", "mismatched"}
    BY DEF Item
  <2>2. "fresh" \in Word
    BY DEF Word
  <2> QED
    BY <2>1, <2>2 DEF Call, CallType
<1> QED
  BY <1>1, <1>2 DEF Asks

\* A call with its token, grant, answers or consequences changed still asks for its item.
LEMMA SetAnew ==
  ASSUME NEW c, NEW on, NEW item, NEW off, NEW right, Asks(c, on, item, off, right)
  PROVE  /\ Asks([c EXCEPT !.token = "first"], on, item, off, right)
         /\ \A o \in SUBSET Word : Asks([c EXCEPT !.off = o], on, item, o, right)
         /\ \A stop \in SUBSET Answer :
              /\ Asks([c EXCEPT !.skips = stop], on, item, off, c.want \ (stop \cup c.ends))
              /\ Asks([c EXCEPT !.ends = stop], on, item, off, c.want \ (c.skips \cup stop))
         /\ \A want \in SUBSET Answer :
              Asks([c EXCEPT !.want = want], on, item, off, want \ (c.skips \cup c.ends))
<1>1. c \in CallType
  BY DEF Asks
<1>2. Asks([c EXCEPT !.token = "first"], on, item, off, right)
  <2>1. "first" \in Word
    BY DEF Word
  <2> QED
    BY <1>1, <2>1 DEF Asks, CallType
<1>3. ASSUME NEW o \in SUBSET Word PROVE Asks([c EXCEPT !.off = o], on, item, o, right)
  BY <1>1 DEF Asks, CallType
<1>4. ASSUME NEW stop \in SUBSET Answer
      PROVE  Asks([c EXCEPT !.skips = stop], on, item, off, c.want \ (stop \cup c.ends))
  BY <1>1 DEF Asks, CallType
<1>5. ASSUME NEW stop \in SUBSET Answer
      PROVE  Asks([c EXCEPT !.ends = stop], on, item, off, c.want \ (c.skips \cup stop))
  BY <1>1 DEF Asks, CallType
<1>6. ASSUME NEW want \in SUBSET Answer
      PROVE  Asks([c EXCEPT !.want = want], on, item, off, want \ (c.skips \cup c.ends))
  BY <1>1 DEF Asks, CallType
<1> QED
  BY <1>2, <1>3, <1>4, <1>5, <1>6

\* Call, ...
LEMMA CallAsks ==
  ASSUME NEW on \in {"main", "fresh", "same"}, NEW item \in Item, NEW want \in SUBSET Answer
  PROVE  /\ Asks(Call(on, item, want), on, item, {}, want)
         /\ Asks([Call(on, item, want) EXCEPT !.token = "first"], on, item, {}, want)
         /\ \A stop \in SUBSET Answer :
              /\ Asks([Call(on, item, want) EXCEPT !.skips = stop], on, item, {}, want \ stop)
              /\ Asks([Call(on, item, want) EXCEPT !.ends = stop], on, item, {}, want \ stop)
         /\ \A off \in SUBSET Word : Asks(Bad(on, item, off, want), on, item, off, want)
<1> DEFINE c == Call(on, item, want)
<1>1. Asks(c, on, item, {}, want) /\ c.want = want /\ c.skips = {} /\ c.ends = {}
  BY CallIs
<1> HIDE DEF c
<1>2. \A off : Bad(on, item, off, want) = [c EXCEPT !.off = off]
  BY DEF Bad, c
<1>3. /\ Asks([c EXCEPT !.token = "first"], on, item, {}, want)
      /\ \A stop \in SUBSET Answer :
           /\ Asks([c EXCEPT !.skips = stop], on, item, {}, want \ stop)
           /\ Asks([c EXCEPT !.ends = stop], on, item, {}, want \ stop)
      /\ \A off \in SUBSET Word : Asks([c EXCEPT !.off = off], on, item, off, want)
  <2>1. ASSUME NEW stop \in SUBSET Answer
        PROVE  /\ Asks([c EXCEPT !.skips = stop], on, item, {}, want \ stop)
               /\ Asks([c EXCEPT !.ends = stop], on, item, {}, want \ stop)
    <3>1. c.want \ (stop \cup c.ends) = want \ stop /\ c.want \ (c.skips \cup stop) = want \ stop
      BY <1>1
    <3>2. /\ Asks([c EXCEPT !.skips = stop], on, item, {}, c.want \ (stop \cup c.ends))
          /\ Asks([c EXCEPT !.ends = stop], on, item, {}, c.want \ (c.skips \cup stop))
      BY <1>1, SetAnew
    <3> QED
      BY <3>1, <3>2
  <2>2. Asks([c EXCEPT !.token = "first"], on, item, {}, want)
    BY <1>1, SetAnew
  <2>3. \A off \in SUBSET Word : Asks([c EXCEPT !.off = off], on, item, off, want)
    BY <1>1, SetAnew
  <2> QED
    BY <2>1, <2>2, <2>3
<1> QED
  BY <1>1, <1>2, <1>3 DEF c

\* ... Setup, ...
LEMMA SetupAsks ==
  ASSUME NEW on \in {"main", "fresh", "same"}, NEW item \in Item
  PROVE  /\ Asks(Setup(on, item), on, item, {}, {"accepted"})
         /\ Asks([Setup(on, item) EXCEPT !.want = Answer \ Refusal, !.skips = Refusal],
                 on, item, {}, Answer \ Refusal)
<1> DEFINE c == Call(on, item, {"accepted"})
<1>1. Asks(c, on, item, {}, {"accepted"}) /\ c.want = {"accepted"} /\ c.skips = {} /\ c.ends = {}
  BY CallIs DEF Answer
<1> HIDE DEF c
<1>2. Setup(on, item) = [c EXCEPT !.skips = Answer \ {"accepted"}]
  BY DEF Setup, c
<1>3. [Setup(on, item) EXCEPT !.want = Answer \ Refusal, !.skips = Refusal]
        = [c EXCEPT !.want = Answer \ Refusal, !.skips = Refusal]
  BY <1>1, <1>2 DEF Asks, CallType
<1>4. Asks([c EXCEPT !.want = Answer \ Refusal, !.skips = Refusal], on, item, {}, Answer \ Refusal)
  BY <1>1 DEF Asks, CallType, Answer
<1>5. Asks([c EXCEPT !.skips = Answer \ {"accepted"}], on, item, {}, {"accepted"})
  BY <1>1 DEF Asks, CallType, Answer
<1> QED
  BY <1>2, <1>3, <1>4, <1>5

\* ... and First.
LEMMA FirstAsks ==
  ASSUME NEW item \in Item
  PROVE  /\ Asks(First(item), "main", item, {}, {"accepted"})
         /\ Asks([First(item) EXCEPT !.ends = Answer \ {"accepted"}], "main", item, {}, {"accepted"})
         /\ Asks([First(item) EXCEPT !.want = Answer \ Refusal], "main", item, {}, Answer \ Refusal)
<1> DEFINE c == Call("main", item, {"accepted"})
           f == First(item)
<1>1. Asks(c, "main", item, {}, {"accepted"}) /\ c.want = {"accepted"} /\ c.skips = {} /\ c.ends = {}
  BY CallIs DEF Answer
<1> HIDE DEF c
<1>2. f = [c EXCEPT !.ends = Refusal, !.token = "first"]
  BY DEF First, c
<1>3. Asks(f, "main", item, {}, {"accepted"}) /\ f.want = {"accepted"} /\ f.skips = {} /\ f.ends = Refusal
  <2> DEFINE g == [c EXCEPT !.ends = Refusal]
  <2>1. c \in CallType
    BY <1>1 DEF Asks
  <2>2. Asks(g, "main", item, {}, {"accepted"}) /\ g.want = {"accepted"} /\ g.skips = {} /\ g.ends = Refusal
    BY <1>1, <2>1 DEF Asks, CallType, Answer, Refusal
  <2>3. f = [g EXCEPT !.token = "first"]
    BY <1>2, <2>1 DEF CallType
  <2> HIDE DEF g
  <2>4. g \in CallType
    BY <2>2 DEF Asks
  <2>5. Asks(f, "main", item, {}, {"accepted"})
    BY <2>2, <2>3, SetAnew
  <2>6. f.want = {"accepted"} /\ f.skips = {} /\ f.ends = Refusal
    BY <2>2, <2>3, <2>4 DEF CallType
  <2> QED
    BY <2>5, <2>6
<1> HIDE DEF f
<1>4. Asks([f EXCEPT !.ends = Answer \ {"accepted"}], "main", item, {}, {"accepted"})
  BY <1>3 DEF Asks, CallType, Answer
<1>5. Asks([f EXCEPT !.want = Answer \ Refusal], "main", item, {}, Answer \ Refusal)
  BY <1>3 DEF Asks, CallType, Answer
<1> QED
  BY <1>3, <1>4, <1>5 DEF f

\* Short sequences, put together.
LEMMA Pair == \A a, b : <<a>> \o <<b>> = <<a, b>>
<1> SUFFICES ASSUME NEW a, NEW b PROVE <<a>> \o <<b>> = <<a, b>>
  OBVIOUS
<1> DEFINE S == {a, b}
           x == <<a>> \o <<b>>
           y == <<a, b>>
<1>1. <<a>> \in Seq(S) /\ <<b>> \in Seq(S)
  OBVIOUS
<1>2. x \in Seq(S) /\ Len(x) = 2 /\ x[1] = a /\ x[2] = b
  BY <1>1
<1>3. y \in Seq(S) /\ Len(y) = 2 /\ y[1] = a /\ y[2] = b
  OBVIOUS
<1> HIDE DEF x, y
<1>4. x = y
  BY <1>2, <1>3, SeqEqual
<1> QED
  BY <1>4 DEF x, y

LEMMA Triple == \A a, b, c : <<a, b>> \o <<c>> = <<a, b, c>>
<1> SUFFICES ASSUME NEW a, NEW b, NEW c PROVE <<a, b>> \o <<c>> = <<a, b, c>>
  OBVIOUS
<1> DEFINE S == {a, b, c}
           x == <<a, b>> \o <<c>>
           y == <<a, b, c>>
<1>1. <<a, b>> \in Seq(S) /\ <<c>> \in Seq(S)
  OBVIOUS
<1>2. x \in Seq(S) /\ Len(x) = 3 /\ x[1] = a /\ x[2] = b /\ x[3] = c
  BY <1>1
<1>3. y \in Seq(S) /\ Len(y) = 3 /\ y[1] = a /\ y[2] = b /\ y[3] = c
  OBVIOUS
<1> HIDE DEF x, y
<1>4. x = y
  BY <1>2, <1>3, SeqEqual
<1> QED
  BY <1>4 DEF x, y

LEMMA Four == \A a, b, c, d : <<a, b, c>> \o <<d>> = <<a, b, c, d>>
<1> SUFFICES ASSUME NEW a, NEW b, NEW c, NEW d PROVE <<a, b, c>> \o <<d>> = <<a, b, c, d>>
  OBVIOUS
<1> DEFINE S == {a, b, c, d}
           x == <<a, b, c>> \o <<d>>
           y == <<a, b, c, d>>
<1>1. <<a, b, c>> \in Seq(S) /\ <<d>> \in Seq(S)
  OBVIOUS
<1>2. x \in Seq(S) /\ Len(x) = 4 /\ x[1] = a /\ x[2] = b /\ x[3] = c /\ x[4] = d
  BY <1>1
<1>3. y \in Seq(S) /\ Len(y) = 4 /\ y[1] = a /\ y[2] = b /\ y[3] = c /\ y[4] = d
  OBVIOUS
<1> HIDE DEF x, y
<1>4. x = y
  BY <1>2, <1>3, SeqEqual
<1> QED
  BY <1>4 DEF x, y

LEMMA Five == \A a, b, c, d, e : <<a, b, c, d>> \o <<e>> = <<a, b, c, d, e>>
<1> SUFFICES ASSUME NEW a, NEW b, NEW c, NEW d, NEW e PROVE <<a, b, c, d>> \o <<e>> = <<a, b, c, d, e>>
  OBVIOUS
<1> DEFINE S == {a, b, c, d, e}
           x == <<a, b, c, d>> \o <<e>>
           y == <<a, b, c, d, e>>
<1>1. <<a, b, c, d>> \in Seq(S) /\ <<e>> \in Seq(S)
  OBVIOUS
<1>2. x \in Seq(S) /\ Len(x) = 5 /\ x[1] = a /\ x[2] = b /\ x[3] = c /\ x[4] = d /\ x[5] = e
  BY <1>1
<1>3. y \in Seq(S) /\ Len(y) = 5 /\ y[1] = a /\ y[2] = b /\ y[3] = c /\ y[4] = d /\ y[5] = e
  OBVIOUS
<1> HIDE DEF x, y
<1>4. x = y
  BY <1>2, <1>3, SeqEqual
<1> QED
  BY <1>4 DEF x, y

-----------------------------------------------------------------------------
\* One more call, to the main service.
LEMMA ThenMain ==
  ASSUME NEW s, NEW X, NEW calls, NEW A \in SUBSET Memory, NEW B \in SUBSET Memory,
         Clears(s, X, calls, A \X Memory), NEW c \in CallType, c.on = "main", Serves(s, c, A, B)
  PROVE  Clears(s, X, calls \o <<c>>, B \X Memory)
BY MainClears, ClearsBoth

\* One more call, to the service made last.
LEMMA ThenSame ==
  ASSUME NEW s, NEW X, NEW calls, NEW A \in SUBSET Memory, NEW B \in SUBSET Memory,
         NEW D \in SUBSET Memory,
         Clears(s, X, calls, A \X B), NEW c \in CallType, c.on = "same", Serves(s, c, B, D)
  PROVE  Clears(s, X, calls \o <<c>>, A \X D)
BY SameClears, ClearsBoth

\* What the service made last remembers is of no matter to the rest.
LEMMA Forget ==
  ASSUME NEW s, NEW X, NEW calls, NEW A \in SUBSET Memory, NEW B \in SUBSET Memory,
         Clears(s, X, calls, A \X B)
  PROVE  Clears(s, X, calls, A \X Memory)
BY ClearsWider

\* Blocks on one fresh service.
LEMMA FreshPair ==
  ASSUME NEW s, NEW A \in SUBSET Memory, NEW B \in SUBSET Memory, NEW D \in SUBSET Memory,
         NEW a \in CallType, NEW b \in CallType, a.on = "fresh", b.on = "same",
         Serves(s, a, {Empty}, B), Serves(s, b, B, D)
  PROVE  Clears(s, A \X Memory, <<a, b>>, A \X D)
<1>1. Clears(s, A \X Memory, <<a>>, A \X B)
  BY FreshClears
<1>2. Clears(s, A \X Memory, <<a>> \o <<b>>, A \X D)
  BY <1>1, ThenSame
<1>3. <<a>> \o <<b>> = <<a, b>>
  BY Pair, Triple, Four
<1> QED
  BY <1>2, <1>3

LEMMA FreshTriple ==
  ASSUME NEW s, NEW A \in SUBSET Memory, NEW B \in SUBSET Memory, NEW D \in SUBSET Memory,
         NEW E \in SUBSET Memory, NEW a \in CallType, NEW b \in CallType, NEW c \in CallType,
         a.on = "fresh", b.on = "same", c.on = "same",
         Serves(s, a, {Empty}, B), Serves(s, b, B, D), Serves(s, c, D, E)
  PROVE  Clears(s, A \X Memory, <<a, b, c>>, A \X E)
<1>1. Clears(s, A \X Memory, <<a, b>> \o <<c>>, A \X E)
  BY FreshPair, ThenSame
<1>2. <<a, b>> \o <<c>> = <<a, b, c>>
  BY Pair, Triple, Four
<1> QED
  BY <1>1, <1>2

LEMMA FreshFour ==
  ASSUME NEW s, NEW A \in SUBSET Memory, NEW B \in SUBSET Memory, NEW D \in SUBSET Memory,
         NEW E \in SUBSET Memory, NEW H \in SUBSET Memory,
         NEW a \in CallType, NEW b \in CallType, NEW c \in CallType, NEW d \in CallType,
         a.on = "fresh", b.on = "same", c.on = "same", d.on = "same",
         Serves(s, a, {Empty}, B), Serves(s, b, B, D), Serves(s, c, D, E), Serves(s, d, E, H)
  PROVE  Clears(s, A \X Memory, <<a, b, c, d>>, A \X H)
<1>1. Clears(s, A \X Memory, <<a, b, c>>, A \X E)
  BY FreshTriple
<1>2. Clears(s, A \X Memory, <<a, b, c>> \o <<d>>, A \X H)
  BY <1>1, ThenSame
<1>3. <<a, b, c>> \o <<d>> = <<a, b, c, d>>
  BY Pair, Triple, Four
<1> QED
  BY <1>2, <1>3

\* Two calls to the main service.
LEMMA MainPair ==
  ASSUME NEW s, NEW A \in SUBSET Memory, NEW B \in SUBSET Memory, NEW D \in SUBSET Memory,
         NEW a \in CallType, NEW b \in CallType, a.on = "main", b.on = "main",
         Serves(s, a, A, B), Serves(s, b, B, D)
  PROVE  Clears(s, A \X Memory, <<a, b>>, D \X Memory)
<1>1. Clears(s, A \X Memory, <<a>> \o <<b>>, D \X Memory)
  BY MainClears, ThenMain
<1>2. <<a>> \o <<b>> = <<a, b>>
  BY Pair, Triple, Four
<1> QED
  BY <1>1, <1>2

LEMMA MainTriple ==
  ASSUME NEW s, NEW A \in SUBSET Memory, NEW B \in SUBSET Memory, NEW D \in SUBSET Memory,
         NEW E \in SUBSET Memory, NEW a \in CallType, NEW b \in CallType, NEW c \in CallType,
         a.on = "main", b.on = "main", c.on = "main",
         Serves(s, a, A, B), Serves(s, b, B, D), Serves(s, c, D, E)
  PROVE  Clears(s, A \X Memory, <<a, b, c>>, E \X Memory)
<1>1. Clears(s, A \X Memory, <<a, b>> \o <<c>>, E \X Memory)
  BY MainPair, ThenMain
<1>2. <<a, b>> \o <<c>> = <<a, b, c>>
  BY Pair, Triple, Four
<1> QED
  BY <1>1, <1>2

-----------------------------------------------------------------------------
\* A service whose flaws no call of the suite is meant for.
LEMMA Harmless ==
  ASSUME NEW name, NEW s, Flaws(name, s) \subseteq Untested(name)
  PROVE  /\ \A g \in Gates(name) : g \in Range(s.gates) \/ <<"lacks", g>> \in Untested(name)
         /\ \A p \in Precedence(name) : ~Before(s, p[2], p[1]) \/ <<"inverts", p[1], p[2]>> \in Untested(name)
         /\ \A c \in s.forgets : <<"forgets", c[1], c[2]>> \in Untested(name)
         /\ \A part \in s.overlooks : <<"overlooks", part>> \in Untested(name)
         /\ s.habit = "proper" \/ <<"habit", s.habit>> \in Untested(name)
<1>1. \A g \in Gates(name) \ Range(s.gates) : <<"lacks", g>> \in Flaws(name, s)
  BY DEF Flaws
<1>2. \A p \in Precedence(name) : Before(s, p[2], p[1]) => <<"inverts", p[1], p[2]>> \in Flaws(name, s)
  BY DEF Flaws, Before
<1>3. \A c \in s.forgets : <<"forgets", c[1], c[2]>> \in Flaws(name, s)
  BY DEF Flaws
<1>4. \A part \in s.overlooks : <<"overlooks", part>> \in Flaws(name, s)
  BY DEF Flaws
<1>5. s.habit # "proper" => <<"habit", s.habit>> \in Flaws(name, s)
  BY DEF Flaws
<1> QED
  BY <1>1, <1>2, <1>3, <1>4, <1>5

\* The flaws a suite has no call for, suite by suite.
LEMMA UntestedByName ==
  /\ Untested("launch") = {<<"habit", "lastOnly">>} \cup {<<"lacks", "policy">>}
  /\ Untested("scheduled launch") = {<<"habit", "lastOnly">>} \cup {<<"overlooks", "displayName">>}
  /\ \A name \in EventSuites : Untested(name) = {<<"habit", "lastOnly">>} \cup
         {<<"forgets", c[1], c[2]>> : c \in EventClaims({"tokenID", "issuedAt", "expiresAt"})}
         \cup {<<"overlooks", part>> : part \in {"terminalState", "eventLog"}}
  /\ Untested("source") = {<<"habit", "lastOnly">>} \cup
         {<<"forgets", p, "competitionID">> : p \in SourcePurpose}
  /\ Untested("verifier") = {<<"habit", "lastOnly">>}
  /\ Untested("authority") = {<<"habit", "lastOnly">>}
<1>1. Untested("launch") = {<<"habit", "lastOnly">>} \cup {<<"lacks", "policy">>}
  BY Zenon DEF Untested, EventSuites
<1>2. Untested("scheduled launch") = {<<"habit", "lastOnly">>} \cup {<<"overlooks", "displayName">>}
  BY Zenon DEF Untested, EventSuites
<1>3. ASSUME NEW name \in EventSuites
      PROVE Untested(name) = {<<"habit", "lastOnly">>} \cup
         ({<<"forgets", c[1], c[2]>> : c \in EventClaims({"tokenID", "issuedAt", "expiresAt"})}
         \cup {<<"overlooks", part>> : part \in {"terminalState", "eventLog"}})
  <2>1. name # "launch" /\ name # "scheduled launch" /\ name # "source"
    BY DEF EventSuites
  <2> QED
    BY <2>1, Zenon DEF Untested
<1>4. Untested("source") = {<<"habit", "lastOnly">>} \cup
         {<<"forgets", p, "competitionID">> : p \in SourcePurpose}
  BY Zenon DEF Untested, EventSuites
<1>5. Untested("verifier") = {<<"habit", "lastOnly">>} \cup {}
  BY Zenon DEF Untested, EventSuites
<1>6. Untested("authority") = {<<"habit", "lastOnly">>} \cup {}
  BY Zenon DEF Untested, EventSuites
<1> QED
  BY <1>1, <1>2, <1>3, <1>4, <1>5, <1>6

-----------------------------------------------------------------------------
\* Blocks that several suites share.

\* A few words are finitely many.
LEMMA FewFinite == \A a, b, c, d : IsFiniteSet({a, b, c, d})
<1> SUFFICES ASSUME NEW a, NEW b, NEW c, NEW d PROVE IsFiniteSet({a, b, c, d})
  OBVIOUS
<1>1. IsFiniteSet({a}) /\ IsFiniteSet({b}) /\ IsFiniteSet({c}) /\ IsFiniteSet({d})
  BY FS_Singleton
<1>2. IsFiniteSet({a} \cup {b}) /\ IsFiniteSet({c} \cup {d})
  BY <1>1, FS_Union
<1>3. IsFiniteSet(({a} \cup {b}) \cup ({c} \cup {d}))
  BY <1>2, FS_Union
<1>4. ({a} \cup {b}) \cup ({c} \cup {d}) = {a, b, c, d}
  OBVIOUS
<1> QED
  BY <1>3, <1>4

\* The grants tried on a known command: one claim changed, or the purpose.
LEMMA WrongGrantsFinite ==
  ASSUME NEW claims, IsFiniteSet(claims), NEW purpose, NEW foreign
  PROVE  IsFiniteSet({{c} : c \in claims} \cup CrossPurpose(purpose, foreign))
<1>1. IsFiniteSet({{c} : c \in claims})
  <2> DEFINE T == {{c} : c \in claims}
             f == [c \in claims |-> {c}]
  <2>1. f \in Surjection(claims, T)
    BY DEF Surjection
  <2> HIDE DEF f, T
  <2>2. IsFiniteSet(T)
    BY <2>1, FS_Surjection
  <2> QED
    BY <2>2 DEF T
<1>2. IsFiniteSet(CrossPurpose(purpose, foreign))
  <2> DEFINE x == {"purpose", "scope"}
             y == {"purpose", "scope"} \cup (Required(purpose) \ Required(foreign))
                                       \cup (Required(foreign) \ Required(purpose))
  <2>1. CrossPurpose(purpose, foreign) = {x, y}
    BY DEF CrossPurpose
  <2> HIDE DEF x, y
  <2>2. {x, y} = {x, y, y, y}
    OBVIOUS
  <2>3. IsFiniteSet({x, y, y, y})
    BY FewFinite
  <2> QED
    BY <2>1, <2>2, <2>3
<1> QED
  BY <1>1, <1>2, FS_Union

\* A purpose requires some of the fields of a grant.
LEMMA RequiredFields == \A purpose \in Purpose : Required(purpose) \subseteq Field
<1> SUFFICES ASSUME NEW purpose \in Purpose PROVE Required(purpose) \subseteq Field
  OBVIOUS
<1>1. \/ Required(purpose) = Identity \cup Route \cup (Participant \cup Repository \cup Manifest)
      \/ Required(purpose) = Identity \cup Route \cup (Participant \cup Repository \cup Closure \cup Candidate)
      \/ Required(purpose) = Identity \cup Route \cup (Participant \cup Artifact \cup Disclosure)
      \/ Required(purpose) = Identity \cup Route \cup
                               (Participant \cup Repository \cup Closure \cup Public \cup Artifact)
      \/ Required(purpose) = Identity \cup Route \cup Execution
      \/ Required(purpose) = Identity \cup Route \cup (Execution \cup Instance)
  BY Zenon DEF Required
<1> QED
  BY <1>1 DEF Field

\* A known command is replayed whatever wrong grants come in between.
LEMMA PopulatedClears ==
  ASSUME NEW s, NEW order, NEW item \in Item, NEW claims \in SUBSET Word, IsFiniteSet(claims),
         NEW foreign \in Purpose, item.op \in Purpose,
         NEW replayed \in SUBSET Answer, "replayed" \in replayed,
         Upright(s), "authority" \in Range(s.gates), "ledger" \in Range(s.gates),
         item.outside = "nothing", ~Before(s, "policy", "ledger"), ~Before(s, "ledger", "authority"),
         \A c \in claims \cup {"purpose"} : <<item.op, c>> \notin s.forgets,
         NEW C, NEW K, NEW F, NEW G,
         InTime(item, F, G) \/ (~Before(s, Asking(item.op), "ledger") /\ ~Before(s, Asking(item.op), "authority")),
         NEW r \in K, r.command = item.command, r.op = item.op, r.body = item.body
  PROVE  Clears(s, Knows(C, K, F, G) \X Memory, Populated(order, item, claims, foreign, replayed),
                Knows(C, K, F, G) \X Memory)
<1> DEFINE M == Knows(C, K, F, G)
           offs == {{c} : c \in claims} \cup CrossPurpose(item.op, foreign)
           block == [off \in offs |->
                       <<Bad("main", item, off, {"invalidGrant"}), Call("main", item, replayed)>>]
<1>1. M \in SUBSET Memory /\ M \X Memory \subseteq State
  BY KnowsMemory DEF State
<1>2. IsFiniteSet(DOMAIN block)
  BY WrongGrantsFinite
<1>3. ASSUME NEW off \in offs PROVE Clears(s, M \X Memory, block[off], M \X Memory)
  <2> DEFINE a == Bad("main", item, off, {"invalidGrant"})
             b == Call("main", item, replayed)
  <2>1. off \in SUBSET Word /\ \E c \in off : <<item.op, c>> \notin s.forgets
    <3>1. CASE off \in {{c} : c \in claims}
      BY <3>1
    <3>2. CASE off \in CrossPurpose(item.op, foreign)
      <4>1. "purpose" \in off
        BY <3>2 DEF CrossPurpose
      <4>2. {"purpose", "scope"} \subseteq Word
        BY DEF Word, Envelope
      <4>3. Required(item.op) \subseteq Field /\ Required(foreign) \subseteq Field /\ Field \subseteq Word
        BY RequiredFields DEF Word
      <4>4. off \subseteq Word
        BY <3>2, <4>2, <4>3 DEF CrossPurpose
      <4> QED
        BY <4>1, <4>4
    <3> QED
      BY <3>1, <3>2
  <2>2. Asks(a, "main", item, off, {"invalidGrant"}) /\ Asks(b, "main", item, {}, replayed)
    BY <2>1, CallAsks DEF Answer, Refusal
  <2> HIDE DEF a, b
  <2>3. Serves(s, a, M, M)
    <3>1. ~Bound(s, a) /\ a.outside \notin {"body", "policy"} /\ "invalidGrant" \in a.want \ (a.skips \cup a.ends)
      BY <2>1, <2>2 DEF Asks, Bound
    <3>2. InTime(a, F, G) \/ ~Before(s, Asking(a.op), "authority")
      BY <2>2 DEF Asks, InTime
    <3> QED
      BY <3>1, <3>2, Unauthorized
  <2>4. Serves(s, b, M, M)
    <3>1. /\ Bound(s, b) /\ b.outside # "body" /\ "replayed" \in b.want \ (b.skips \cup b.ends)
          /\ r.command = b.command /\ r.op = b.op /\ r.body = b.body
      BY <2>2 DEF Asks, Bound
    <3>2. InTime(b, F, G) \/ ~Before(s, Asking(b.op), "ledger")
      BY <2>2 DEF Asks, InTime
    <3> QED
      BY <3>1, <3>2, Replays
  <2>5. a \in CallType /\ b \in CallType /\ a.on = "main" /\ b.on = "main"
    BY <2>2 DEF Asks
  <2>6. Clears(s, M \X Memory, <<a, b>>, M \X Memory)
    BY <1>1, <2>3, <2>4, <2>5, MainPair
  <2> QED
    BY <2>6 DEF a, b
<1>4. Populated(order, item, claims, foreign, replayed) = Each(order, block)
  BY DEF Populated
<1> HIDE DEF block
<1>5. DOMAIN block = offs
  BY DEF block
<1>6. \A off \in DOMAIN block : Clears(s, M \X Memory, block[off], M \X Memory)
  BY <1>3, <1>5
<1> HIDE DEF M
<1>7. Clears(s, M \X Memory, Each(order, block), M \X Memory)
  BY <1>1, <1>2, <1>6, EachClears
<1> QED
  BY <1>4, <1>7 DEF M

\* A service that remembers nothing refuses a wrong grant and accepts a right one.
LEMMA RejectionsClear ==
  ASSUME NEW s, NEW order, NEW item \in Item, NEW claims \in SUBSET Word, IsFiniteSet(claims),
         Upright(s), "authority" \in Range(s.gates),
         item.outside = "nothing", item.needs = {}, item.success = "accepted",
         \A c \in claims : <<item.op, c>> \notin s.forgets, NEW A \in SUBSET Memory
  PROVE  Clears(s, A \X Memory, Rejections(order, item, claims), A \X Memory)
<1> DEFINE block == [c \in claims |-> <<Bad("fresh", item, {c}, Refusal), Call("same", item, {"accepted"})>>]
<1>1. A \X Memory \subseteq State
  BY DEF State
<1>2. DOMAIN block = claims
  OBVIOUS
<1>3. ASSUME NEW c \in claims PROVE Clears(s, A \X Memory, block[c], A \X Memory)
  <2> DEFINE a == Bad("fresh", item, {c}, Refusal)
             b == Call("same", item, {"accepted"})
             M == Knows({}, {}, {}, {})
             N == Knows({} \cup {b.command}, {Record(b)}, {} \cup b.gives, {} \cup b.gives)
  <2>1. Asks(a, "fresh", item, {c}, Refusal) /\ Asks(b, "same", item, {}, {"accepted"})
    BY CallAsks DEF Answer, Refusal
  <2> HIDE DEF a, b
  <2>2. Serves(s, a, M, M)
    <3>1. /\ ~Bound(s, a) /\ a.outside \notin {"body", "policy"}
          /\ "invalidGrant" \in a.want \ (a.skips \cup a.ends)
      BY <2>1 DEF Asks, Bound, Refusal
    <3>2. InTime(a, {}, {})
      BY <2>1 DEF Asks, InTime
    <3> QED
      BY <3>1, <3>2, Unauthorized
  <2>3. Serves(s, a, {Empty}, M)
    BY <2>2, EmptyKnows DEF Serves
  <2>4. Serves(s, b, M, N)
    <3>1. /\ Bound(s, b) /\ b.outside \notin {"body", "policy"}
          /\ b.success \in b.want \ (b.skips \cup b.ends) /\ b.success = "accepted"
      BY <2>1 DEF Asks, Bound
    <3>2. InTime(b, {}, {})
      BY <2>1 DEF Asks, InTime
    <3>3. b \in CallType
      BY <2>1 DEF Asks
    <3> QED
      BY <3>1, <3>2, <3>3, Accepts
  <2>5. M \in SUBSET Memory /\ N \in SUBSET Memory
    BY KnowsMemory
  <2> HIDE DEF M, N
  <2>6. Clears(s, A \X Memory, <<a, b>>, A \X N)
    BY <2>1, <2>3, <2>4, <2>5, FreshPair DEF Asks
  <2>7. Clears(s, A \X Memory, <<a, b>>, A \X Memory)
    BY <2>5, <2>6, Forget
  <2> QED
    BY <2>7 DEF a, b
<1>4. Rejections(order, item, claims) = Each(order, block)
  BY DEF Rejections
<1>5. \A c \in DOMAIN block : Clears(s, A \X Memory, block[c], A \X Memory)
  BY <1>2, <1>3
<1>6. IsFiniteSet(DOMAIN block)
  BY <1>2
<1> HIDE DEF block
<1>7. Clears(s, A \X Memory, Each(order, block), A \X Memory)
  BY <1>1, <1>5, <1>6, EachClears
<1> QED
  BY <1>4, <1>7

-----------------------------------------------------------------------------
\* The calls in terms of what they ask for.
LEMMA RecordOfItem ==
  ASSUME NEW c, NEW on, NEW item, NEW off, NEW right, Asks(c, on, item, off, right)
  PROVE  Record(c).op = item.op /\ Record(c).command = item.command /\ Record(c).body = item.body
BY DEF Asks, Record

\* The same for a call that asks for an item: accepted when new, ...
LEMMA ItemAccepted ==
  ASSUME NEW s, NEW c, NEW on, NEW item, NEW right, Asks(c, on, item, {}, right), Upright(s),
         item.outside = "nothing", item.success \in right,
         NEW C, NEW K, NEW F, NEW G, InTime(item, F, G), item.command \notin C,
         NEW D, D = C \cup {item.command},
         NEW gained, gained = IF item.success = "accepted" THEN item.gives ELSE {},
         NEW L, L = F \cup gained, NEW U, U = G \cup gained
  PROVE  Serves(s, c, Knows(C, K, F, G), Knows(D, {Record(c)}, L, U))
<1>1. /\ c \in CallType /\ Bound(s, c) /\ c.outside \notin {"body", "policy"} /\ InTime(c, F, G)
      /\ c.command \notin C /\ c.success \in c.want \ (c.skips \cup c.ends)
      /\ D = C \cup {c.command} /\ gained = IF c.success = "accepted" THEN c.gives ELSE {}
  BY DEF Asks, Bound, InTime
<1> QED
  BY <1>1, Accepts

\* ... replayed when known, ...
LEMMA ItemReplayed ==
  ASSUME NEW s, NEW c, NEW on, NEW item, NEW right, Asks(c, on, item, {}, right), Upright(s),
         "ledger" \in Range(s.gates), item.outside # "body", ~Before(s, "policy", "ledger"),
         "replayed" \in right, NEW C, NEW K, NEW F, NEW G,
         InTime(item, F, G) \/ ~Before(s, Asking(item.op), "ledger"),
         NEW r \in K, r.command = item.command, r.op = item.op, r.body = item.body
  PROVE  Serves(s, c, Knows(C, K, F, G), Knows(C, K, F, G))
<1>1. /\ Bound(s, c) /\ c.outside # "body" /\ "replayed" \in c.want \ (c.skips \cup c.ends)
      /\ r.command = c.command /\ r.op = c.op /\ r.body = c.body
  BY DEF Asks, Bound
<1>2. InTime(c, F, G) \/ ~Before(s, Asking(c.op), "ledger")
  BY DEF Asks, InTime
<1> QED
  BY <1>1, <1>2, Replays

\* ... in conflict under a command known for something else, ...
LEMMA ItemConflicts ==
  ASSUME NEW s, NEW c, NEW on, NEW item, NEW right, Asks(c, on, item, {}, right), Upright(s),
         "ledger" \in Range(s.gates), item.outside # "body", ~Before(s, "policy", "ledger"),
         "commandConflict" \in right, NEW C, NEW K, NEW F, NEW G,
         InTime(item, F, G) \/ ~Before(s, Asking(item.op), "ledger"),
         NEW r \in K, r.command = item.command,
         r.op # item.op \/ r.body \ s.overlooks # item.body \ s.overlooks
  PROVE  Serves(s, c, Knows(C, K, F, G), Knows(C, K, F, G))
<1>1. /\ Bound(s, c) /\ c.outside # "body" /\ "commandConflict" \in c.want \ (c.skips \cup c.ends)
      /\ r.command = c.command /\ (r.op # c.op \/ r.body \ s.overlooks # c.body \ s.overlooks)
  BY DEF Asks, Bound
<1>2. InTime(c, F, G) \/ ~Before(s, Asking(c.op), "ledger")
  BY DEF Asks, InTime
<1> QED
  BY <1>1, <1>2, Conflicts

\* ... refused under a wrong grant, ...
LEMMA ItemUnauthorized ==
  ASSUME NEW s, NEW c, NEW on, NEW item, NEW off, NEW right, Asks(c, on, item, off, right), Upright(s),
         "authority" \in Range(s.gates), \E d \in off : <<item.op, d>> \notin s.forgets,
         item.outside = "nothing", "invalidGrant" \in right,
         NEW C, NEW K, NEW F, NEW G, item.command \notin C \/ ~Before(s, "ledger", "authority"),
         InTime(item, F, G) \/ ~Before(s, Asking(item.op), "authority")
  PROVE  Serves(s, c, Knows(C, K, F, G), Knows(C, K, F, G))
<1>1. /\ ~Bound(s, c) /\ c.outside \notin {"body", "policy"}
      /\ "invalidGrant" \in c.want \ (c.skips \cup c.ends)
      /\ c.command \notin C \/ ~Before(s, "ledger", "authority")
  BY DEF Asks, Bound
<1>2. InTime(c, F, G) \/ ~Before(s, Asking(c.op), "authority")
  BY DEF Asks, InTime
<1> QED
  BY <1>1, <1>2, Unauthorized

\* ... refused for its body, ...
LEMMA ItemUnfit ==
  ASSUME NEW s, NEW c, NEW on, NEW item, NEW right, Asks(c, on, item, {}, right), Upright(s),
         "body" \in Range(s.gates), item.outside = "body", "invalidGrant" \in right,
         NEW C, NEW K, NEW F, NEW G, item.command \notin C \/ ~Before(s, "ledger", "body"),
         InTime(item, F, G) \/ ~Before(s, Asking(item.op), "body")
  PROVE  Serves(s, c, Knows(C, K, F, G), Knows(C, K, F, G))
<1>1. /\ Bound(s, c) /\ c.outside = "body" /\ "invalidGrant" \in c.want \ (c.skips \cup c.ends)
      /\ c.command \notin C \/ ~Before(s, "ledger", "body")
  BY DEF Asks, Bound
<1>2. InTime(c, F, G) \/ ~Before(s, Asking(c.op), "body")
  BY DEF Asks, InTime
<1> QED
  BY <1>1, <1>2, Unfit

\* ... refused out of turn, ...
LEMMA ItemUntimely ==
  ASSUME NEW s, NEW c, NEW on, NEW item, NEW right, Asks(c, on, item, {}, right), Upright(s),
         Asking(item.op) \in Range(s.gates), item.outside = "nothing", "invalidTransition" \in right,
         NEW C, NEW K, NEW F, NEW G, item.command \notin C, TooSoon(item, F, G)
  PROVE  Serves(s, c, Knows(C, K, F, G), Knows(C, K, F, G))
<1>1. /\ Bound(s, c) /\ c.outside \notin {"body", "policy"} /\ c.command \notin C
      /\ "invalidTransition" \in c.want \ (c.skips \cup c.ends) /\ Asking(c.op) \in Range(s.gates)
  BY DEF Asks, Bound
<1>2. TooSoon(c, F, G)
  BY DEF Asks, TooSoon
<1> QED
  BY <1>1, <1>2, Untimely

\* ... or refused for its game.
LEMMA ItemUnplayable ==
  ASSUME NEW s, NEW c, NEW on, NEW item, NEW right, Asks(c, on, item, {}, right), Upright(s),
         "policy" \in Range(s.gates), item.outside = "policy", "refused" \in right,
         NEW C, NEW K, NEW F, NEW G, item.command \notin C, InTime(item, F, G)
  PROVE  Serves(s, c, Knows(C, K, F, G), Knows(C, K, F, G))
<1>1. /\ Bound(s, c) /\ c.outside = "policy" /\ c.command \notin C /\ InTime(c, F, G)
      /\ "refused" \in c.want \ (c.skips \cup c.ends)
  BY DEF Asks, Bound, InTime
<1> QED
  BY <1>1, Unplayable

\* A fresh service knows nothing.
LEMMA FromEmpty ==
  ASSUME NEW s, NEW c, NEW B, Serves(s, c, Knows({}, {}, {}, {}), B) PROVE Serves(s, c, {Empty}, B)
BY EmptyKnows DEF Serves

-----------------------------------------------------------------------------
\* The launch suites.

\* The claims the suites try, and parts they change, are finitely many words.
LEMMA EnvelopeFinite == IsFiniteSet(Envelope) /\ Envelope \subseteq Word
<1>1. Envelope = {"issuer", "subject", "audience", "tokenType"} \cup {"scope", "purpose", "keyID", "tokenID"}
                 \cup {"issuedAt", "notBefore", "expiresAt", "expiresAt"}
  BY DEF Envelope
<1> QED
  BY <1>1, FewFinite, FS_Union DEF Word

\* What the suites for providers rely on in a service.
LaunchSound(s) ==
  /\ Upright(s) /\ {"authority", "body", "ledger"} \subseteq Range(s.gates)
  /\ \A op, g : ~Before(s, Asking(op), g)
  /\ ~Before(s, "ledger", "authority") /\ ~Before(s, "ledger", "body") /\ ~Before(s, "policy", "ledger")
  /\ \A op, c : <<op, c>> \notin s.forgets
  /\ s.overlooks \subseteq {"displayName"}

\* A service under a launch suite whose flaws are untested is sound.
LEMMA LaunchServices ==
  ASSUME NEW name \in LaunchSuites, NEW s, s.gates \in Seq(Gates(name)), Flaws(name, s) \subseteq Untested(name)
  PROVE  LaunchSound(s) /\ (name = "scheduled launch" => "policy" \in Range(s.gates))
<1>1. /\ \A g \in Gates(name) : g \in Range(s.gates) \/ <<"lacks", g>> \in Untested(name)
      /\ \A p \in Precedence(name) : ~Before(s, p[2], p[1]) \/ <<"inverts", p[1], p[2]>> \in Untested(name)
      /\ \A c \in s.forgets : <<"forgets", c[1], c[2]>> \in Untested(name)
      /\ \A part \in s.overlooks : <<"overlooks", part>> \in Untested(name)
      /\ s.habit = "proper" \/ <<"habit", s.habit>> \in Untested(name)
  BY Harmless
<1>0. name \notin EventSuites \cup {"source"} /\ name # "source" /\ name \notin EventSuites
      /\ name # "verifier" /\ name # "authority"
  BY DEF LaunchSuites, EventSuites
<1>2. Gates(name) = {"authority", "body", "ledger", "policy"}
  BY <1>0, Zenon DEF Gates
<1>3. Precedence(name) = {<<"authority", "ledger">>, <<"body", "ledger">>, <<"ledger", "policy">>}
  BY <1>0, Zenon DEF Precedence
<1>4. /\ \A x \in Untested(name) : \/ x = <<"habit", "lastOnly">> \/ x = <<"overlooks", "displayName">>
                                   \/ x = <<"lacks", "policy">> /\ name = "launch"
  BY UntestedByName DEF LaunchSuites
<1>5. s.habit \in {"proper", "lastOnly"} /\ Upright(s)
  BY <1>1, <1>2, <1>4 DEF Upright, Gate
<1>6. {"authority", "body", "ledger"} \subseteq Range(s.gates) /\ (name = "scheduled launch" => "policy" \in Range(s.gates))
  <2>1. \A g : <<"lacks", g>> \in Untested(name) => g = "policy" /\ name = "launch"
    BY <1>4
  <2>2. \A g \in Gates(name) : g \in Range(s.gates) \/ (g = "policy" /\ name = "launch")
    BY <1>1, <2>1
  <2>3. "scheduled launch" # "launch" /\ "authority" # "policy" /\ "body" # "policy" /\ "ledger" # "policy"
    OBVIOUS
  <2> QED
    BY <1>2, <2>2, <2>3
<1>7. ~Before(s, "ledger", "authority") /\ ~Before(s, "ledger", "body") /\ ~Before(s, "policy", "ledger")
  <2>1. \A a, b : <<"inverts", a, b>> \notin Untested(name)
    BY <1>4
  <2>2. \A p \in Precedence(name) : ~Before(s, p[2], p[1])
    BY <1>1, <2>1
  <2> QED
    BY <1>3, <2>2
<1>8. \A op, c : <<op, c>> \notin s.forgets
  BY <1>1, <1>4
<1>9. s.overlooks \subseteq {"displayName"}
  BY <1>1, <1>4
<1>10. \A op, g : ~Before(s, Asking(op), g)
  <2>1. \A i \in DOMAIN s.gates : s.gates[i] \notin {"references", "order"}
    BY <1>2
  <2> QED
    BY <2>1, AskingGates DEF Before
<1> QED
  BY <1>5, <1>6, <1>7, <1>8, <1>9, <1>10 DEF LaunchSound

\* The claims and the parts a launch suite changes are finitely many words.
LEMMA LaunchClaims == IsFiniteSet(invalidLaunchGrantMutations) /\ invalidLaunchGrantMutations \subseteq Word
<1>1. invalidLaunchGrantMutations =
        Envelope \cup {"providerID", "adapterID", "competitionID", "contestID"}
        \cup {"requestID", "providerInstanceID", "commandID", "typedPayloadDigest"}
        \cup {"transportContentType", "rawTransportDigest", "method", "resource"}
        \cup {"participantID", "participantID", "participantID", "participantID"}
  BY DEF invalidLaunchGrantMutations
<1>2. IsFiniteSet(invalidLaunchGrantMutations)
  BY <1>1, FewFinite, EnvelopeFinite, FS_Union
<1>3. invalidLaunchGrantMutations \subseteq Word
  BY DEF Word, Field, Identity, Route, Execution, Instance, Participant, invalidLaunchGrantMutations
<1> QED
  BY <1>2, <1>3

LEMMA LaunchPartsFinite ==
  \A profile : IsFiniteSet(requestPayloadMutations(profile)) /\ requestPayloadMutations(profile) \subseteq Word
<1> SUFFICES ASSUME NEW profile
             PROVE  IsFiniteSet(requestPayloadMutations(profile)) /\ requestPayloadMutations(profile) \subseteq Word
  OBVIOUS
<1> DEFINE base == {"id", "providerID", "adapterID", "competitionID"}
                   \cup {"contestID", "gameID", "rulesetVersion", "requestedPublicArtifacts"}
                   \cup {"callback", "profile", "slots", "slotEntry"}
                   \cup {"slotParticipant", "slotCount", "slotCount", "slotCount"}
           more == IF profile = "provider-executed"
                   THEN {"participantVersion", "artifactDigest", "configurationVersion", "configurationData"}
                        \cup {"notBefore", "deadline", "deadline", "deadline"}
                   ELSE {"startsAt", "displayName", "displayName", "displayName"}
<1>1. RequestParts(profile) = base \cup more
  BY DEF RequestParts
<1>2. IsFiniteSet(base)
  BY FewFinite, FS_Union
<1>3. IsFiniteSet(more)
  BY FewFinite, FS_Union
<1>4. RequestParts(profile) \subseteq Word
  BY DEF Word, RequestParts
<1> HIDE DEF base, more
<1>5. IsFiniteSet(RequestParts(profile))
  BY <1>1, <1>2, <1>3, FS_Union
<1>6. requestPayloadMutations(profile) \subseteq RequestParts(profile)
  BY DEF requestPayloadMutations
<1> QED
  BY <1>4, <1>5, <1>6, FS_Subset

\* What a launch suite asks for.
LEMMA LaunchItems ==
  ASSUME NEW command \in Word, NEW changed \in SUBSET Word
  PROVE  LET item == LaunchItem(command, changed)
         IN  /\ item \in Item /\ item.op = "contest-launch" /\ item.command = command /\ item.body = changed
             /\ item.needs = {} /\ item.bars = {} /\ item.gives = {} /\ item.success = "accepted"
             /\ changed \cap {"providerID", "adapterID"} # {} => item.outside = "body"
             /\ changed \cap {"providerID", "adapterID"} = {} /\ changed \cap {"gameID", "slotCount"} # {} =>
                  item.outside = "policy"
             /\ changed \cap {"providerID", "adapterID", "gameID", "slotCount"} = {} => item.outside = "nothing"
<1>1. changed \cap {"providerID", "adapterID"} # {} => LaunchOutside(changed) = "body"
  BY Zenon DEF LaunchOutside
<1>2. changed \cap {"providerID", "adapterID"} = {} /\ changed \cap {"gameID", "slotCount"} # {} =>
        LaunchOutside(changed) = "policy"
  BY Zenon DEF LaunchOutside
<1>3. changed \cap {"providerID", "adapterID"} = {} /\ changed \cap {"gameID", "slotCount"} = {} =>
        LaunchOutside(changed) = "nothing"
  BY Zenon DEF LaunchOutside
<1>4. LaunchOutside(changed) \in {"body", "policy", "nothing"}
  BY <1>1, <1>2, <1>3
<1>5. "contest-launch" \in Word /\ {"body", "policy", "nothing"} \subseteq Word
  BY DEF Word, Purpose
<1> DEFINE item == LaunchItem(command, changed)
<1>6. /\ item.op = "contest-launch" /\ item.command = command /\ item.body = changed
      /\ item.needs = {} /\ item.bars = {} /\ item.gives = {} /\ item.success = "accepted"
      /\ item.outside = LaunchOutside(changed)
  BY DEF LaunchItem
<1>7. item \in Item
  BY <1>4, <1>5 DEF LaunchItem, Item
<1>8. changed \cap {"providerID", "adapterID", "gameID", "slotCount"} = {} =>
        changed \cap {"providerID", "adapterID"} = {} /\ changed \cap {"gameID", "slotCount"} = {}
  OBVIOUS
<1> HIDE DEF item
<1> QED
  BY <1>1, <1>2, <1>3, <1>6, <1>7, <1>8 DEF item

\* The launch that is changed elsewhere, spelt out.
LEMMA LaunchIs ==
  /\ Launch \in Item /\ Launch.op = "contest-launch" /\ Launch.command = "launch" /\ Launch.body = {}
  /\ Launch.needs = {} /\ Launch.bars = {} /\ Launch.gives = {} /\ Launch.success = "accepted"
  /\ Launch.outside = "nothing"
<1>1. "launch" \in Word /\ {} \in SUBSET Word
  BY DEF Word
<1> QED
  BY <1>1, LaunchItems DEF Launch

\* One part of a known launch changed, on a fresh service.
LEMMA ChangedLaunchClears ==
  ASSUME NEW s, LaunchSound(s), NEW profile, NEW part \in requestPayloadMutations(profile),
         NEW A \in SUBSET Memory
  PROVE  Clears(s, A \X Memory, ChangedLaunch(part), A \X Memory)
<1> DEFINE other == LaunchItem("launch", {part})
           right == IF part \in {"providerID", "adapterID"} THEN {"invalidGrant", "leaked"} ELSE {"commandConflict"}
           a == Setup("fresh", Launch)
           b == Call("same", other, right)
           c == Call("same", Launch, {"replayed"})
           E == Knows({}, {}, {}, {})
           M == Knows({"launch"}, {Record(a)}, {}, {})
<1>1. part \in Word /\ part # "displayName" /\ "launch" \in Word
  BY LaunchPartsFinite DEF requestPayloadMutations, Word
<1>2. /\ other \in Item /\ other.op = "contest-launch" /\ other.command = "launch" /\ other.body = {part}
      /\ other.needs = {} /\ other.bars = {}
      /\ part \in {"providerID", "adapterID"} => other.outside = "body"
      /\ part \notin {"providerID", "adapterID"} => other.outside # "body"
  <2>1. part \in {"gameID", "slotCount"} \/ part \in {"providerID", "adapterID"}
        \/ part \notin {"providerID", "adapterID", "gameID", "slotCount"}
    OBVIOUS
  <2>2. {part} \in SUBSET Word
    BY <1>1
  <2> QED
    BY <1>1, <2>1, <2>2, LaunchItems
<1>3. /\ Asks(a, "fresh", Launch, {}, {"accepted"}) /\ Asks(b, "same", other, {}, right)
      /\ Asks(c, "same", Launch, {}, {"replayed"})
  <2>1. right \in SUBSET Answer /\ {"replayed"} \in SUBSET Answer
    BY DEF Answer, Refusal
  <2> HIDE DEF other, right
  <2> QED
    BY <1>2, <2>1, LaunchIs, SetupAsks, CallAsks
<1> HIDE DEF a, b, c, other
<1>4. Serves(s, a, E, M)
  <2>1. InTime(Launch, {}, {})
    BY LaunchIs DEF InTime
  <2>2. /\ {"launch"} = {} \cup {Launch.command} /\ Launch.command \notin {} /\ {} = {} \cup {}
        /\ {} = IF Launch.success = "accepted" THEN Launch.gives ELSE {}
        /\ Launch.outside = "nothing" /\ Launch.success \in {"accepted"} /\ Upright(s)
    BY LaunchIs DEF LaunchSound
  <2> QED
    BY <1>3, <2>1, <2>2, ItemAccepted, ZenonT(30)
<1>5. Record(a).op = "contest-launch" /\ Record(a).command = "launch" /\ Record(a).body = {}
  BY <1>3, LaunchIs, RecordOfItem
<1>6. Serves(s, b, M, M)
  <2>1. InTime(other, {}, {})
    BY <1>2 DEF InTime
  <2>2. CASE part \in {"providerID", "adapterID"}
    <3>1. "invalidGrant" \in right /\ other.outside = "body" /\ ~Before(s, "ledger", "body") /\ "body" \in Range(s.gates)
      BY <1>2, <2>2 DEF LaunchSound
    <3> HIDE DEF right
    <3> QED
      BY <1>3, <2>1, <3>1, ItemUnfit DEF LaunchSound
  <2>3. CASE part \notin {"providerID", "adapterID"}
    <3>1. "commandConflict" \in right /\ other.outside # "body"
      BY <1>2, <2>3
    <3>2. Record(a).body \ s.overlooks # other.body \ s.overlooks
      BY <1>1, <1>2, <1>5 DEF LaunchSound
    <3> HIDE DEF right
    <3> QED
      BY <1>2, <1>3, <1>5, <2>1, <3>1, <3>2, ItemConflicts DEF LaunchSound
  <2> QED
    BY <2>2, <2>3
<1>7. Serves(s, c, M, M)
  <2>1. InTime(Launch, {}, {})
    BY LaunchIs DEF InTime
  <2> QED
    BY <1>3, <1>5, <2>1, LaunchIs, ItemReplayed DEF LaunchSound
<1>8. E \in SUBSET Memory /\ M \in SUBSET Memory
  BY KnowsMemory
<1>9. Serves(s, a, {Empty}, M)
  BY <1>4, FromEmpty
<1> HIDE DEF E, M, right
<1>10. Clears(s, A \X Memory, <<a, b, c>>, A \X M)
  BY <1>3, <1>6, <1>7, <1>8, <1>9, FreshTriple DEF Asks
<1>11. Clears(s, A \X Memory, <<a, b, c>>, A \X Memory)
  BY <1>8, <1>10, Forget
<1> QED
  BY <1>11 DEF ChangedLaunch, a, b, c, other, right

\* A first command, and a later one that needs and gives nothing new.
LEMMA AcceptedAnew ==
  ASSUME NEW s, NEW c, NEW on, NEW item, NEW right, Asks(c, on, item, {}, right), Upright(s),
         item.outside = "nothing", item.success = "accepted", "accepted" \in right, item.needs = {}
  PROVE  Serves(s, c, Knows({}, {}, {}, {}), Knows({item.command}, {Record(c)}, item.gives, item.gives))
<1>1. InTime(item, {}, {})
  BY DEF InTime
<1>2. /\ {item.command} = {} \cup {item.command} /\ item.command \notin {} /\ item.gives = {} \cup item.gives
      /\ item.gives = IF item.success = "accepted" THEN item.gives ELSE {}
      /\ item.success \in right
  OBVIOUS
<1> QED
  BY <1>1, <1>2, ItemAccepted

\* A later command, on a service that knows the first.
LEMMA AcceptedNext ==
  ASSUME NEW s, NEW c, NEW on, NEW item, NEW right, Asks(c, on, item, {}, right), Upright(s),
         item.outside = "nothing", item.success = "accepted", "accepted" \in right,
         NEW C, NEW K, NEW F, NEW G, InTime(item, F, G), item.command \notin C
  PROVE  Serves(s, c, Knows(C, K, F, G),
                Knows(C \cup {item.command}, {Record(c)}, F \cup item.gives, G \cup item.gives))
<1>1. item.gives = (IF item.success = "accepted" THEN item.gives ELSE {}) /\ item.success \in right
  OBVIOUS
<1> QED
  BY <1>1, ItemAccepted

\* CheckExecutionProvider, for either kind of contest.
LEMMA CheckExecutionProviderClears ==
  ASSUME NEW s, LaunchSound(s), NEW profile, NEW order
  PROVE  Clears(s, Knows({}, {}, {}, {}) \X Memory, CheckExecutionProvider(profile, order), Memory \X Memory)
<1> DEFINE a == First(Launch)
           b == [Call("main", Launch, {"replayed"}) EXCEPT !.token = "first"]
           c == Call("main", Launch, {"replayed"})
           later == LaunchItem("independent", {"id"})
           d == Call("main", later, {"accepted"})
           known == Populated(order, Launch, invalidLaunchGrantMutations, "contest-started-event", {"replayed"})
           block == [part \in requestPayloadMutations(profile) |-> ChangedLaunch(part)]
           wrong == Rejections(order, Launch, invalidLaunchGrantMutations)
           E == Knows({}, {}, {}, {})
           M == Knows({"launch"}, {Record(a)}, {}, {})
           N == Knows({"launch", "independent"}, {Record(d)}, {}, {})
<1>1. /\ Asks(a, "main", Launch, {}, {"accepted"}) /\ Asks(b, "main", Launch, {}, {"replayed"})
      /\ Asks(c, "main", Launch, {}, {"replayed"})
  <2>1. {"replayed"} \in SUBSET Answer
    BY DEF Answer, Refusal
  <2> QED
    BY <2>1, LaunchIs, FirstAsks, CallAsks
<1>2. /\ later \in Item /\ later.command = "independent" /\ later.outside = "nothing"
      /\ later.needs = {} /\ later.bars = {} /\ later.gives = {} /\ later.success = "accepted"
  <2>1. "independent" \in Word /\ {"id"} \in SUBSET Word
    BY DEF Word, RequestParts
  <2> QED
    BY <2>1, LaunchItems
<1>3. Asks(d, "main", later, {}, {"accepted"})
  <2>1. {"accepted"} \in SUBSET Answer
    BY DEF Answer, Refusal
  <2> HIDE DEF later
  <2> QED
    BY <1>2, <2>1, CallAsks
<1> HIDE DEF a, b, c, d, later
<1>4. InTime(Launch, {}, {}) /\ InTime(later, {}, {})
  BY <1>2, LaunchIs DEF InTime
<1>5. Record(a).op = Launch.op /\ Record(a).command = Launch.command /\ Record(a).body = Launch.body
  BY <1>1, RecordOfItem
<1>6. Serves(s, a, E, M)
  BY <1>1, LaunchIs, AcceptedAnew DEF LaunchSound
<1>7. Serves(s, b, M, M) /\ Serves(s, c, M, M)
  BY <1>1, <1>4, <1>5, LaunchIs, ItemReplayed DEF LaunchSound
<1>8. Serves(s, d, M, N)
  <2>1. N = Knows({"launch"} \cup {later.command}, {Record(d)}, {} \cup later.gives, {} \cup later.gives)
    <3>1. {"launch", "independent"} = {"launch"} \cup {later.command} /\ {} = {} \cup later.gives
      BY <1>2
    <3> QED
      BY <3>1
  <2>2. later.command \notin {"launch"} /\ Upright(s)
    BY <1>2 DEF LaunchSound
  <2> HIDE DEF N
  <2> QED
    BY <1>2, <1>3, <1>4, <2>1, <2>2, AcceptedNext
<1>9. Clears(s, M \X Memory, known, M \X Memory)
  <2>1. /\ invalidLaunchGrantMutations \in SUBSET Word /\ IsFiniteSet(invalidLaunchGrantMutations)
        /\ "contest-started-event" \in Purpose /\ Launch.op \in Purpose /\ {"replayed"} \in SUBSET Answer
    BY LaunchClaims, LaunchIs DEF Purpose, Answer, Refusal
  <2>2. /\ Upright(s) /\ "authority" \in Range(s.gates) /\ "ledger" \in Range(s.gates)
        /\ ~Before(s, "policy", "ledger") /\ ~Before(s, "ledger", "authority")
        /\ \A x \in invalidLaunchGrantMutations \cup {"purpose"} : <<Launch.op, x>> \notin s.forgets
    BY DEF LaunchSound
  <2> QED
    BY <1>4, <1>5, <2>1, <2>2, LaunchIs, PopulatedClears
<1>10. E \in SUBSET Memory /\ M \in SUBSET Memory /\ N \in SUBSET Memory /\ Memory \in SUBSET Memory
  BY KnowsMemory
<1>11. \A A \in SUBSET Memory : Clears(s, A \X Memory, Each(order, block), A \X Memory)
  <2> SUFFICES ASSUME NEW A \in SUBSET Memory PROVE Clears(s, A \X Memory, Each(order, block), A \X Memory)
    OBVIOUS
  <2>1. IsFiniteSet(DOMAIN block) /\ A \X Memory \subseteq State
    BY LaunchPartsFinite DEF State
  <2>2. \A part \in DOMAIN block : Clears(s, A \X Memory, block[part], A \X Memory)
    BY ChangedLaunchClears
  <2> HIDE DEF block
  <2> QED
    BY <2>1, <2>2, EachClears
<1>12. Clears(s, Memory \X Memory, wrong, Memory \X Memory)
  <2>1. \A x \in invalidLaunchGrantMutations : <<Launch.op, x>> \notin s.forgets
    BY DEF LaunchSound
  <2> QED
    BY <2>1, LaunchClaims, LaunchIs, RejectionsClear DEF LaunchSound
<1>13. CheckExecutionProvider(profile, order) = <<a, b, c>> \o known \o Each(order, block) \o <<d>> \o wrong
  BY DEF CheckExecutionProvider, a, b, c, d, later
<1> HIDE DEF E, M, N, known, block, wrong
<1>14. Clears(s, E \X Memory, <<a, b, c>>, M \X Memory)
  BY <1>1, <1>6, <1>7, <1>10, MainTriple DEF Asks
<1>15. Clears(s, E \X Memory, <<a, b, c>> \o known, M \X Memory)
  BY <1>9, <1>14, ClearsBoth
<1>16. Clears(s, E \X Memory, <<a, b, c>> \o known \o Each(order, block), M \X Memory)
  BY <1>10, <1>11, <1>15, ClearsBoth
<1>17. Clears(s, E \X Memory, <<a, b, c>> \o known \o Each(order, block) \o <<d>>, N \X Memory)
  BY <1>3, <1>8, <1>10, <1>16, ThenMain DEF Asks
<1>18. Clears(s, E \X Memory, <<a, b, c>> \o known \o Each(order, block) \o <<d>>, Memory \X Memory)
  <2>1. N \X Memory \subseteq Memory \X Memory
    BY <1>10
  <2> QED
    BY <1>17, <2>1, ClearsWider
<1> QED
  BY <1>12, <1>13, <1>18, ClearsBoth DEF E

\* The policy suite, whatever the services remember.
LEMMA CheckPolicyClears ==
  ASSUME NEW s, LaunchSound(s), "policy" \in Range(s.gates), NEW order
  PROVE  Clears(s, Memory \X Memory, CheckParticipantScheduledProviderPolicy(order), Memory \X Memory)
<1> DEFINE parts == {"gameID", "adapterID", "slotCount"}
           right == Refusal \ {"leaked"}
           block == [part \in parts |->
                       <<Call("fresh", LaunchItem(part, {"id", part}), right), Call("same", Launch, {"accepted"})>>]
           c == Call("same", Launch, {"accepted"})
           E == Knows({}, {}, {}, {})
           M == Knows({"launch"}, {Record(c)}, {}, {})
<1>0. E \in SUBSET Memory /\ M \in SUBSET Memory /\ Memory \in SUBSET Memory
  BY KnowsMemory
<1>1. Asks(c, "same", Launch, {}, {"accepted"})
  BY LaunchIs, CallAsks DEF Answer, Refusal
<1>2. Serves(s, c, E, M)
  <2> HIDE DEF c
  <2> QED
    BY <1>1, LaunchIs, AcceptedAnew DEF LaunchSound
<1>3. ASSUME NEW a \in CallType, a.on = "fresh", Serves(s, a, E, E)
      PROVE  Clears(s, Memory \X Memory, <<a, c>>, Memory \X Memory)
  <2>1. Serves(s, a, {Empty}, E)
    BY <1>3, FromEmpty
  <2>2. c \in CallType /\ c.on = "same"
    BY <1>1 DEF Asks
  <2> HIDE DEF E, M, c
  <2>3. Clears(s, Memory \X Memory, <<a, c>>, Memory \X M)
    BY <1>0, <1>2, <1>3, <2>1, <2>2, FreshPair
  <2> QED
    BY <1>0, <2>3, Forget
<1>4. right \in SUBSET Answer /\ "refused" \in right /\ "invalidGrant" \in right
  BY DEF Answer, Refusal
<1>5. ASSUME NEW part \in parts PROVE Clears(s, Memory \X Memory, block[part], Memory \X Memory)
  <2> DEFINE item == LaunchItem(part, {"id", part})
             a == Call("fresh", item, right)
  <2>1. part \in Word /\ {"id", part} \in SUBSET Word
    BY DEF Word, RequestParts
  <2>2. /\ item \in Item /\ item.needs = {} /\ item.bars = {}
        /\ part = "adapterID" => item.outside = "body"
        /\ part # "adapterID" => item.outside = "policy"
    BY <2>1, LaunchItems
  <2> HIDE DEF item
  <2>3. Asks(a, "fresh", item, {}, right)
    <3> HIDE DEF right
    <3> QED
      BY <1>4, <2>2, CallAsks
  <2> HIDE DEF a, right, c
  <2>4. InTime(item, {}, {})
    BY <2>2 DEF InTime
  <2>5. Serves(s, a, E, E)
    <3>1. CASE part = "adapterID"
      <4>1. item.outside = "body" /\ "body" \in Range(s.gates) /\ ~Before(s, "ledger", "body") /\ Upright(s)
        BY <2>2, <3>1 DEF LaunchSound
      <4> QED
        BY <1>4, <2>3, <2>4, <4>1, ItemUnfit
    <3>2. CASE part # "adapterID"
      <4>1. item.outside = "policy" /\ item.command \notin {} /\ Upright(s)
        BY <2>2, <3>2 DEF LaunchSound
      <4> QED
        BY <1>4, <2>3, <2>4, <4>1, ItemUnplayable
    <3> QED
      BY <3>1, <3>2
  <2>6. a \in CallType /\ a.on = "fresh"
    BY <2>3 DEF Asks
  <2>7. Clears(s, Memory \X Memory, <<a, c>>, Memory \X Memory)
    BY <1>3, <2>5, <2>6
  <2> QED
    BY <2>7 DEF a, c, item
<1>6. Clears(s, Memory \X Memory, Each(order, block), Memory \X Memory)
  <2>1. DOMAIN block = parts /\ Memory \X Memory \subseteq State
    BY DEF State
  <2>2. IsFiniteSet(parts)
    <3>1. parts = {"gameID", "adapterID", "slotCount", "slotCount"}
      OBVIOUS
    <3> HIDE DEF parts
    <3> QED
      BY <3>1, FewFinite
  <2>3. \A part \in DOMAIN block : Clears(s, Memory \X Memory, block[part], Memory \X Memory)
    BY <1>5, <2>1
  <2>4. IsFiniteSet(DOMAIN block)
    BY <2>1, <2>2
  <2> HIDE DEF block, parts
  <2> QED
    BY <2>1, <2>3, <2>4, EachClears
<1> DEFINE wrong == Bad("fresh", Launch, {"purpose", "scope"}, right)
<1>7. Asks(wrong, "fresh", Launch, {"purpose", "scope"}, right)
  <2>1. {"purpose", "scope"} \in SUBSET Word
    BY DEF Word, Envelope
  <2> HIDE DEF right
  <2> QED
    BY <1>4, <2>1, LaunchIs, CallAsks
<1>8. Clears(s, Memory \X Memory, <<wrong, c>>, Memory \X Memory)
  <2> HIDE DEF wrong, right, c
  <2>1. InTime(Launch, {}, {})
    BY LaunchIs DEF InTime
  <2>2. \E x \in {"purpose", "scope"} : <<Launch.op, x>> \notin s.forgets
    BY DEF LaunchSound
  <2>3. Serves(s, wrong, E, E)
    BY <1>4, <1>7, <2>1, <2>2, LaunchIs, ItemUnauthorized DEF LaunchSound
  <2> QED
    BY <1>3, <1>7, <2>3 DEF Asks
<1>9. CheckParticipantScheduledProviderPolicy(order) = Each(order, block) \o <<wrong, c>>
  BY DEF CheckParticipantScheduledProviderPolicy
<1> HIDE DEF block, wrong, c
<1> QED
  BY <1>6, <1>8, <1>9, ClearsBoth

-----------------------------------------------------------------------------
\* The suites for verifiers and for issuers of grants.

LEMMA FieldFinite == IsFiniteSet(Field) /\ Field \subseteq Word
<1>1. Field =
        {"providerID", "adapterID", "commandID", "typedPayloadDigest"}
        \cup {"transportContentType", "rawTransportDigest", "method", "resource"}
        \cup {"competitionID", "contestID", "requestID", "providerInstanceID"}
        \cup {"participantID", "participantVersionID", "repositoryNodeID", "commitOID"}
        \cup {"manifestPath", "manifestEntryKind", "rawManifestBytesDigest", "manifestByteLimit"}
        \cup {"closurePlanID", "closurePlanDigest", "aggregateByteLimit", "candidateTransferredBytesDigest"}
        \cup {"publicCandidateTransferredBytesDigest", "retentionReceiptID", "artifactDigest",
              "disclosureReceiptID"}
        \cup {"disclosureRequestDigest", "disclosureRequestDigest", "disclosureRequestDigest",
              "disclosureRequestDigest"}
  BY DEF Field, Identity, Route, Execution, Instance, Participant, Repository, Manifest, Closure,
         Candidate, Public, Artifact, Disclosure
<1>4. IsFiniteSet(Field)
  BY <1>1, FewFinite, FS_Union
<1> QED
  BY <1>4 DEF Word

\* What the suites for grants ask for.
LEMMA GrantItems ==
  ASSUME NEW op \in Word, NEW id \in Word, NEW changed \in SUBSET Word
  PROVE  LET item == GrantItem(op, id, changed)
         IN  /\ item \in Item /\ item.op = op /\ item.command = id /\ item.body = changed
             /\ item.outside = "nothing" /\ item.needs = {} /\ item.bars = {} /\ item.gives = {}
             /\ item.success = "accepted"
<1>1. "nothing" \in Word
  BY DEF Word
<1> QED
  BY <1>1 DEF GrantItem, Item

\* What the suites for verifiers and for issuers rely on.
VerifierSound(s) ==
  /\ Upright(s) /\ Range(s.gates) = {"authority", "ledger"} /\ ~Before(s, "authority", "ledger")
  /\ \A op, c : <<op, c>> \notin s.forgets
  /\ s.overlooks = {}
AuthoritySound(s) ==
  /\ Upright(s) /\ Range(s.gates) = {"authority"}
  /\ \A op, c : <<op, c>> \notin s.forgets

\* A verifier whose flaws are untested is sound ...
LEMMA VerifierServices ==
  ASSUME NEW s, s.gates \in Seq(Gates("verifier")), Flaws("verifier", s) \subseteq Untested("verifier")
  PROVE  VerifierSound(s)
<1>1. /\ \A g \in Gates("verifier") : g \in Range(s.gates) \/ <<"lacks", g>> \in Untested("verifier")
      /\ \A p \in Precedence("verifier") :
           ~Before(s, p[2], p[1]) \/ <<"inverts", p[1], p[2]>> \in Untested("verifier")
      /\ \A c \in s.forgets : <<"forgets", c[1], c[2]>> \in Untested("verifier")
      /\ \A part \in s.overlooks : <<"overlooks", part>> \in Untested("verifier")
      /\ s.habit = "proper" \/ <<"habit", s.habit>> \in Untested("verifier")
  BY Harmless
<1>0. "verifier" \notin LaunchSuites /\ "verifier" \notin EventSuites \cup {"source"}
      /\ "verifier" \notin EventSuites
  BY DEF LaunchSuites, EventSuites
<1>2. Gates("verifier") = {"authority", "ledger"}
  BY <1>0, Zenon DEF Gates
<1>3. Precedence("verifier") = {<<"ledger", "authority">>}
  BY <1>0, Zenon DEF Precedence
<1>4. Untested("verifier") = {<<"habit", "lastOnly">>}
  BY UntestedByName
<1>5. s.habit \in {"proper", "lastOnly"} /\ Upright(s)
  BY <1>1, <1>2, <1>4 DEF Upright, Gate
<1>6. Range(s.gates) = {"authority", "ledger"}
  <2>1. \A g : <<"lacks", g>> \notin Untested("verifier")
    BY <1>4
  <2>2. Range(s.gates) \subseteq {"authority", "ledger"}
    BY <1>2 DEF Range
  <2> QED
    BY <1>1, <1>2, <2>1, <2>2
<1>7. ~Before(s, "authority", "ledger")
  <2>1. \A a, b : <<"inverts", a, b>> \notin Untested("verifier")
    BY <1>4
  <2>2. \A p \in Precedence("verifier") : ~Before(s, p[2], p[1])
    BY <1>1, <2>1
  <2> DEFINE q == <<"ledger", "authority">>
  <2>3. q[1] = "ledger" /\ q[2] = "authority" /\ q \in Precedence("verifier")
    BY <1>3
  <2> HIDE DEF q
  <2> QED
    BY <2>2, <2>3
<1>8. \A op, c : <<op, c>> \notin s.forgets
  BY <1>1, <1>4
<1>9. s.overlooks = {}
  BY <1>1, <1>4
<1> QED
  BY <1>5, <1>6, <1>7, <1>8, <1>9 DEF VerifierSound

\* ... and so is an issuer.
LEMMA AuthorityServices ==
  ASSUME NEW s, s.gates \in Seq(Gates("authority")), Flaws("authority", s) \subseteq Untested("authority")
  PROVE  AuthoritySound(s)
<1>1. /\ \A g \in Gates("authority") : g \in Range(s.gates) \/ <<"lacks", g>> \in Untested("authority")
      /\ \A c \in s.forgets : <<"forgets", c[1], c[2]>> \in Untested("authority")
      /\ s.habit = "proper" \/ <<"habit", s.habit>> \in Untested("authority")
  BY Harmless
<1>0. "authority" \notin LaunchSuites /\ "authority" \notin EventSuites \cup {"source"} /\ "authority" # "verifier"
  BY DEF LaunchSuites, EventSuites
<1>2. Gates("authority") = {"authority"}
  BY <1>0, Zenon DEF Gates
<1>4. Untested("authority") = {<<"habit", "lastOnly">>}
  BY UntestedByName
<1>5. s.habit \in {"proper", "lastOnly"} /\ Upright(s)
  BY <1>1, <1>2, <1>4 DEF Upright, Gate
<1>6. Range(s.gates) = {"authority"}
  <2>1. \A g : <<"lacks", g>> \notin Untested("authority")
    BY <1>4
  <2>2. Range(s.gates) \subseteq {"authority"}
    BY <1>2 DEF Range
  <2> QED
    BY <1>1, <1>2, <2>1, <2>2
<1>7. \A op, c : <<op, c>> \notin s.forgets
  BY <1>1, <1>4
<1> QED
  BY <1>5, <1>6, <1>7 DEF AuthoritySound

-----------------------------------------------------------------------------
\* Other claims under a used token ID conflict, whatever is wrong with them.
LEMMA ConflictsUntrusted ==
  ASSUME NEW s, VerifierSound(s), NEW c, NEW C, NEW K, NEW F, NEW G,
         NEW r \in K, r.command = c.command, r.body # c.body,
         "commandConflict" \in c.want \ (c.skips \cup c.ends)
  PROVE  Serves(s, c, Knows(C, K, F, G), Knows(C, K, F, G))
<1> SUFFICES ASSUME NEW m \in Knows(C, K, F, G) PROVE Reply(s, m, c) = "commandConflict"
  BY Declines DEF VerifierSound
<1>1. r \in Prior(s, m, c) /\ \A x \in Prior(s, m, c) : x = r /\ ~SamePayload(s, x, c)
  <2>1. r.body \ s.overlooks = r.body /\ c.body \ s.overlooks = c.body
    BY DEF VerifierSound
  <2>2. r \in Prior(s, m, c) /\ \A x \in Prior(s, m, c) : x = r
    BY UprightPrior DEF Knows, VerifierSound
  <2>3. ~SamePayload(s, r, c)
    BY <2>1, UprightPrior DEF VerifierSound
  <2> QED
    BY <2>2, <2>3
<1>2. "ledger" \in Stopping(s, m, c)
  BY <1>1 DEF Stopping, Passes, VerifierSound
<1>3. \A h \in Stopping(s, m, c) : h = "ledger" \/ ~Before(s, h, "ledger")
  BY DEF Stopping, VerifierSound
<1> QED
  BY <1>1, <1>2, <1>3, FirstGate, GateAnswers DEF VerifierSound

\* A sound verifier has no order or policy gate before another.
LEMMA VerifierGates ==
  ASSUME NEW s, VerifierSound(s)
  PROVE  /\ Upright(s) /\ "authority" \in Range(s.gates) /\ "ledger" \in Range(s.gates)
         /\ \A g : ~Before(s, "order", g) /\ ~Before(s, "policy", g)
<1>1. \A i \in DOMAIN s.gates : s.gates[i] \in {"authority", "ledger"}
  BY DEF VerifierSound, Range
<1> QED
  BY <1>1 DEF VerifierSound, Before

\* A used token ID with one claim changed.
LEMMA ReusedTokenIDClears ==
  ASSUME NEW s, VerifierSound(s), NEW claim \in Word, NEW A \in SUBSET Memory
  PROVE  Clears(s, A \X Memory, ReusedTokenID(claim), A \X Memory)
<1> DEFINE item == Verify("replayed", {})
           other == Verify("replayed", {claim})
           off == {claim} \cap untrusted
           a == [Call("fresh", item, Verified) EXCEPT !.skips = Refusal]
           b == Bad("same", other, off, {"commandConflict"})
           E == Knows({}, {}, {}, {})
           M == Knows({"replayed"}, {Record(a)}, {}, {})
<1>1. /\ item \in Item /\ item.command = "replayed" /\ item.body = {} /\ item.outside = "nothing"
      /\ item.needs = {} /\ item.gives = {} /\ item.success = "accepted"
      /\ other \in Item /\ other.command = "replayed" /\ other.body = {claim}
  <2>1. "verify" \in Word /\ "replayed" \in Word /\ {} \in SUBSET Word /\ {claim} \in SUBSET Word
    BY DEF Word
  <2> QED
    BY <2>1, GrantItems DEF Verify
<1>2. off \in SUBSET Word
  OBVIOUS
<1>3. /\ Asks(a, "fresh", item, {}, Verified \ Refusal)
      /\ Asks(b, "same", other, off, {"commandConflict"})
  <2>1. /\ Verified \in SUBSET Answer /\ Refusal \in SUBSET Answer
        /\ {"commandConflict"} \in SUBSET Answer
    BY DEF Verified, Answer, Refusal
  <2> HIDE DEF item, other, off
  <2> QED
    BY <1>1, <1>2, <2>1, CallAsks
<1>4. "accepted" \in Verified \ Refusal
  BY DEF Verified, Answer, Refusal
<1> HIDE DEF a, b, item, other, off
<1>5. Serves(s, a, E, M)
  BY <1>1, <1>3, <1>4, AcceptedAnew, VerifierGates
<1>6. Serves(s, b, M, M)
  <2>1. Record(a).command = "replayed" /\ Record(a).body = {}
    BY <1>1, <1>3, RecordOfItem
  <2>2. b.command = "replayed" /\ b.body # {} /\ "commandConflict" \in b.want \ (b.skips \cup b.ends)
    BY <1>1, <1>3 DEF Asks
  <2> QED
    BY <2>1, <2>2, ConflictsUntrusted
<1>7. E \in SUBSET Memory /\ M \in SUBSET Memory
  BY KnowsMemory
<1>8. Serves(s, a, {Empty}, M)
  BY <1>5, FromEmpty
<1> HIDE DEF E, M
<1>9. Clears(s, A \X Memory, <<a, b>>, A \X M)
  BY <1>3, <1>6, <1>7, <1>8, FreshPair DEF Asks
<1>10. Clears(s, A \X Memory, <<a, b>>, A \X Memory)
  BY <1>7, <1>9, Forget
<1> QED
  BY <1>10 DEF ReusedTokenID, a, b, item, other, off

\* CheckOperationGrantVerifier.
LEMMA CheckOperationGrantVerifierClears ==
  ASSUME NEW s, VerifierSound(s), NEW order
  PROVE  Clears(s, Knows({}, {}, {}, {}) \X Memory, CheckOperationGrantVerifier(order), Memory \X Memory)
<1> DEFINE good == Verify("good", {})
           forged == Verify("forged", {})
           new == Verify("fresh", {})
           a == [First(good) EXCEPT !.want = Verified]
           b == Call("main", good, Verified)
           c == Bad("main", forged, {"signature"}, Refusal)
           d == Call("main", new, Verified)
           reused == [x \in allGrantClaimMutations |-> ReusedTokenID(x)]
           bad == [x \in untrusted |-> <<Bad("fresh", Verify("bad", {x}), {x}, Refusal)>>]
           E == Knows({}, {}, {}, {})
           M == Knows({"good"}, {Record(a)}, {}, {})
           N == Knows({"good"} \cup {"fresh"}, {Record(d)}, {} \cup {}, {} \cup {})
<1>0. E \in SUBSET Memory /\ M \in SUBSET Memory /\ N \in SUBSET Memory /\ Memory \in SUBSET Memory
  BY KnowsMemory
<1>1. /\ good \in Item /\ good.op = "verify" /\ good.command = "good" /\ good.body = {}
      /\ good.outside = "nothing" /\ good.needs = {} /\ good.bars = {} /\ good.gives = {} /\ good.success = "accepted"
      /\ forged \in Item /\ forged.command = "forged" /\ forged.outside = "nothing"
      /\ forged.needs = {} /\ forged.bars = {}
      /\ new \in Item /\ new.command = "fresh" /\ new.outside = "nothing"
      /\ new.needs = {} /\ new.bars = {} /\ new.gives = {} /\ new.success = "accepted"
  <2>1. /\ "verify" \in Word /\ "good" \in Word /\ "forged" \in Word /\ "fresh" \in Word
        /\ {} \in SUBSET Word
    BY DEF Word
  <2> QED
    BY <2>1, GrantItems DEF Verify
<1>2. /\ Verified \in SUBSET Answer /\ Refusal \in SUBSET Answer /\ Verified = Answer \ Refusal
      /\ "accepted" \in Verified /\ "replayed" \in Verified /\ "invalidGrant" \in Refusal
  BY DEF Verified, Answer, Refusal
<1>3. /\ Asks(a, "main", good, {}, Verified) /\ Asks(b, "main", good, {}, Verified)
      /\ Asks(c, "main", forged, {"signature"}, Refusal) /\ Asks(d, "main", new, {}, Verified)
  <2>1. {"signature"} \in SUBSET Word
    BY DEF Word
  <2> HIDE DEF good, forged, new
  <2>2. Asks([First(good) EXCEPT !.want = Answer \ Refusal], "main", good, {}, Answer \ Refusal)
    BY <1>1, FirstAsks
  <2>3. Asks(a, "main", good, {}, Verified)
    BY <1>2, <2>2
  <2> QED
    BY <1>1, <1>2, <2>1, <2>3, CallAsks
<1> HIDE DEF a, b, c, d, good, forged, new
<1>4. InTime(good, {}, {}) /\ InTime(forged, {}, {}) /\ InTime(new, {}, {})
  BY <1>1 DEF InTime
<1>5. Serves(s, a, E, M)
  BY <1>1, <1>2, <1>3, AcceptedAnew, VerifierGates
<1>6. Serves(s, b, M, M)
  <2>1. Record(a).op = good.op /\ Record(a).command = good.command /\ Record(a).body = good.body
    BY <1>3, RecordOfItem
  <2> QED
    BY <1>1, <1>2, <1>3, <1>4, <2>1, ItemReplayed, VerifierGates
<1>7. Serves(s, c, M, M)
  <2>1. (\E x \in {"signature"} : <<forged.op, x>> \notin s.forgets) /\ forged.command \notin {"good"}
    BY <1>1 DEF VerifierSound
  <2> QED
    BY <1>1, <1>2, <1>3, <1>4, <2>1, ItemUnauthorized, VerifierGates
<1>8. Serves(s, d, M, N)
  <2>1. N = Knows({"good"} \cup {new.command}, {Record(d)}, {} \cup new.gives, {} \cup new.gives)
    BY <1>1
  <2>2. new.command \notin {"good"}
    BY <1>1
  <2> HIDE DEF N
  <2> QED
    BY <1>1, <1>2, <1>3, <1>4, <2>1, <2>2, AcceptedNext, VerifierGates
<1>9. Clears(s, M \X Memory, Each(order, reused), M \X Memory)
  <2>1. IsFiniteSet(allGrantClaimMutations) /\ allGrantClaimMutations \subseteq Word
    <3>1. allGrantClaimMutations \subseteq Envelope \cup Field
      BY DEF allGrantClaimMutations
    <3>2. IsFiniteSet(Envelope \cup Field)
      BY EnvelopeFinite, FieldFinite, FS_Union
    <3> QED
      BY <3>1, <3>2, EnvelopeFinite, FieldFinite, FS_Subset
  <2>2. \A x \in DOMAIN reused : Clears(s, M \X Memory, reused[x], M \X Memory)
    <3> HIDE DEF M
    <3> QED
      BY <1>0, <2>1, ReusedTokenIDClears
  <2>3. IsFiniteSet(DOMAIN reused) /\ M \X Memory \subseteq State
    BY <1>0, <2>1 DEF State
  <2> HIDE DEF reused, M
  <2> QED
    BY <2>2, <2>3, EachClears
<1>10. Clears(s, Memory \X Memory, Each(order, bad), Memory \X Memory)
  <2>1. ASSUME NEW x \in untrusted PROVE Clears(s, Memory \X Memory, bad[x], Memory \X Memory)
    <3> DEFINE item == Verify("bad", {x})
               e == Bad("fresh", item, {x}, Refusal)
    <3>1. {x} \in SUBSET Word /\ "bad" \in Word /\ "verify" \in Word
      BY DEF untrusted, Word, Envelope
    <3>2. /\ item \in Item /\ item.op = "verify" /\ item.outside = "nothing"
          /\ item.needs = {} /\ item.bars = {}
      BY <3>1, GrantItems DEF Verify
    <3> HIDE DEF item
    <3>3. Asks(e, "fresh", item, {x}, Refusal)
      BY <1>2, <3>1, <3>2, CallAsks
    <3> HIDE DEF e
    <3>4. InTime(item, {}, {}) /\ item.command \notin {} /\ \E y \in {x} : <<item.op, y>> \notin s.forgets
      BY <3>2 DEF InTime, VerifierSound
    <3>5. Serves(s, e, E, E)
      BY <1>2, <3>2, <3>3, <3>4, ItemUnauthorized, VerifierGates
    <3>6. Serves(s, e, {Empty}, E)
      BY <3>5, FromEmpty
    <3> HIDE DEF E
    <3>7. Clears(s, Memory \X Memory, <<e>>, Memory \X E)
      BY <1>0, <3>3, <3>6, FreshClears DEF Asks
    <3>8. Clears(s, Memory \X Memory, <<e>>, Memory \X Memory)
      BY <1>0, <3>7, Forget
    <3> QED
      BY <3>8 DEF e, item
  <2>2. IsFiniteSet(untrusted)
    <3>1. untrusted = {"unknownKey", "expired", "notActive", "issuer"}
                      \cup {"audience", "tokenType", "tokenType", "tokenType"}
      BY DEF untrusted
    <3> QED
      BY <3>1, FewFinite, FS_Union
  <2>3. \A x \in DOMAIN bad : Clears(s, Memory \X Memory, bad[x], Memory \X Memory)
    BY <2>1
  <2>4. IsFiniteSet(DOMAIN bad) /\ Memory \X Memory \subseteq State
    BY <2>2 DEF State
  <2> HIDE DEF bad
  <2> QED
    BY <2>3, <2>4, EachClears
<1>11. CheckOperationGrantVerifier(order) = <<a, b, c>> \o Each(order, reused) \o <<d>> \o Each(order, bad)
  BY DEF CheckOperationGrantVerifier, a, b, c, d, good, forged, new
<1> HIDE DEF E, M, N, reused, bad
<1>12. Clears(s, E \X Memory, <<a, b, c>>, M \X Memory)
  BY <1>0, <1>3, <1>5, <1>6, <1>7, MainTriple DEF Asks
<1>13. Clears(s, E \X Memory, <<a, b, c>> \o Each(order, reused), M \X Memory)
  BY <1>9, <1>12, ClearsBoth
<1>14. Clears(s, E \X Memory, <<a, b, c>> \o Each(order, reused) \o <<d>>, N \X Memory)
  BY <1>0, <1>3, <1>8, <1>13, ThenMain DEF Asks
<1>15. Clears(s, E \X Memory, <<a, b, c>> \o Each(order, reused) \o <<d>>, Memory \X Memory)
  <2>1. N \X Memory \subseteq Memory \X Memory
    BY <1>0
  <2> QED
    BY <1>14, <2>1, ClearsWider
<1> QED
  BY <1>10, <1>11, <1>15, ClearsBoth DEF E

-----------------------------------------------------------------------------
\* An upright service remembers a memory.
LEMMA RememberedIsMemory ==
  ASSUME NEW s, Upright(s), NEW m \in Memory, NEW c \in CallType, NEW answer
  PROVE  Remembered(s, m, c, answer) \in Memory
<1> DEFINE L == (IF s.habit = "lastOnly" THEN {} ELSE m.ledger) \cup {Record(c)}
<1>1. L \in SUBSET Entry /\ m.facts \in SUBSET Word /\ m.facts \cup c.gives \in SUBSET Word
  <2>1. Record(c) \in Entry
    BY DEF Record, CallType, Entry
  <2> QED
    BY <2>1 DEF Memory, CallType
<1>2. CASE answer = "accepted"
  <2>1. Remembered(s, m, c, answer) = [ledger |-> L, facts |-> m.facts \cup c.gives]
    BY <1>2, UprightRemembers
  <2> HIDE DEF L
  <2> QED
    BY <1>1, <2>1 DEF Memory
<1>3. CASE answer = "mismatched"
  <2>1. Remembered(s, m, c, answer) = [ledger |-> L, facts |-> m.facts]
    BY <1>3, UprightRemembers
  <2> HIDE DEF L
  <2> QED
    BY <1>1, <2>1 DEF Memory
<1>4. CASE answer \notin {"accepted", "mismatched"}
  BY <1>4, UprightRemembers
<1> QED
  BY <1>2, <1>3, <1>4

\* An issuer judges each request by itself.
LEMMA IssuerServes ==
  ASSUME NEW s, AuthoritySound(s), NEW c, NEW on, NEW item, NEW off, NEW right,
         Asks(c, on, item, off, right), item.success = "accepted"
  PROVE  /\ off = {} /\ "accepted" \in right => Serves(s, c, Memory, Memory)
         /\ off # {} /\ "invalidGrant" \in right => Serves(s, c, Memory, Memory)
<1>1. c \in CallType /\ Upright(s) /\ c.off = off /\ c.success = "accepted" /\ c.want \ (c.skips \cup c.ends) = right
  BY DEF Asks, AuthoritySound
<1>2. \A m : \A g \in Stopping(s, m, c) : g = "authority" /\ off # {}
  BY <1>1, AskingGates DEF Stopping, Passes, AuthoritySound
<1>3. ASSUME off = {} PROVE \A m : Reply(s, m, c) = "accepted"
  <2> TAKE m
  <2>1. Stopping(s, m, c) = {}
    BY <1>2, <1>3
  <2> QED
    BY <1>1, <2>1, NoGate
<1>4. ASSUME off # {} PROVE \A m : Reply(s, m, c) = "invalidGrant"
  <2> TAKE m
  <2>1. "authority" \in Stopping(s, m, c)
    BY <1>1, <1>4 DEF Stopping, Passes, AuthoritySound
  <2>2. \A h \in Stopping(s, m, c) : h = "authority" \/ ~Before(s, h, "authority")
    BY <1>2
  <2> QED
    BY <1>1, <2>1, <2>2, FirstGate, GateAnswers
<1>5. \A answer : \A m \in Memory : Remembered(s, m, c, answer) \in Memory
  BY <1>1, RememberedIsMemory
<1> QED
  BY <1>1, <1>3, <1>4, <1>5 DEF Serves

\* CheckOperationGrantAuthority.
LEMMA CheckOperationGrantAuthorityClears ==
  ASSUME NEW s, AuthoritySound(s), NEW order
  PROVE  Clears(s, Memory \X Memory, CheckOperationGrantAuthority(order), Memory \X Memory)
<1> DEFINE item(p) == GrantItem(p, "token", {})
           wrong(p) == [f \in operationGrantRequestMutations |-> <<Bad("same", item(p), {f}, Refusal)>>]
           block == [p \in Purpose |->
                       <<Setup("fresh", item(p)), Call("same", item(p), {"accepted"})>> \o Each(order, wrong(p))]
<1>0. {"accepted"} \in SUBSET Answer /\ Refusal \in SUBSET Answer /\ "invalidGrant" \in Refusal
      /\ Memory \in SUBSET Memory /\ Memory \X Memory \subseteq State /\ Empty \in Memory
  BY EmptyKnows DEF Answer, Refusal, State, Knows
<1>1. ASSUME NEW p \in Purpose PROVE Clears(s, Memory \X Memory, block[p], Memory \X Memory)
  <2> DEFINE i == item(p)
             a == Setup("fresh", i)
             b == Call("same", i, {"accepted"})
  <2>1. i \in Item /\ i.success = "accepted"
    <3>1. p \in Word /\ "token" \in Word /\ {} \in SUBSET Word
      BY DEF Word
    <3> QED
      BY <3>1, GrantItems
  <2> HIDE DEF i
  <2>2. Asks(a, "fresh", i, {}, {"accepted"}) /\ Asks(b, "same", i, {}, {"accepted"})
    BY <1>0, <2>1, SetupAsks, CallAsks
  <2> HIDE DEF a, b
  <2>3. Serves(s, a, Memory, Memory) /\ Serves(s, b, Memory, Memory)
    BY <2>1, <2>2, IssuerServes
  <2>4. Serves(s, a, {Empty}, Memory)
    BY <1>0, <2>3 DEF Serves
  <2>5. Clears(s, Memory \X Memory, <<a, b>>, Memory \X Memory)
    BY <1>0, <2>2, <2>3, <2>4, FreshPair DEF Asks
  <2> DEFINE inner == [f \in operationGrantRequestMutations |-> <<Bad("same", i, {f}, Refusal)>>]
  <2>6. ASSUME NEW f \in operationGrantRequestMutations
        PROVE  Clears(s, Memory \X Memory, inner[f], Memory \X Memory)
    <3> DEFINE c == Bad("same", i, {f}, Refusal)
    <3>1. {f} \in SUBSET Word
      BY FieldFinite DEF operationGrantRequestMutations, Word
    <3>2. Asks(c, "same", i, {f}, Refusal)
      BY <1>0, <2>1, <3>1, CallAsks
    <3> HIDE DEF c
    <3>3. Serves(s, c, Memory, Memory)
      BY <1>0, <2>1, <3>2, IssuerServes
    <3>4. Clears(s, Memory \X Memory, <<c>>, Memory \X Memory)
      BY <1>0, <3>2, <3>3, SameClears DEF Asks
    <3> QED
      BY <3>4 DEF c
  <2>7. IsFiniteSet(DOMAIN inner)
    BY FieldFinite, FS_Singleton, FS_Union DEF operationGrantRequestMutations
  <2>8. \A f \in DOMAIN inner : Clears(s, Memory \X Memory, inner[f], Memory \X Memory)
    BY <2>6
  <2>9. block[p] = <<a, b>> \o Each(order, inner)
    BY DEF a, b, i
  <2> HIDE DEF inner, block
  <2>10. Clears(s, Memory \X Memory, Each(order, inner), Memory \X Memory)
    BY <1>0, <2>7, <2>8, EachClears
  <2> QED
    BY <2>5, <2>9, <2>10, ClearsBoth
<1>2. IsFiniteSet(Purpose)
  <2>1. Purpose = {"manifest-closure-plan", "candidate-closure-validate-retain", "artifact-publish",
                   "artifact-disclosure-verify"}
                  \cup {"contest-launch", "contest-started-event", "contest-result-event", "contest-result-event"}
    BY DEF Purpose
  <2> QED
    BY <2>1, FewFinite, FS_Union
<1>3. DOMAIN block = Purpose /\ \A p \in DOMAIN block : Clears(s, Memory \X Memory, block[p], Memory \X Memory)
  BY <1>1
<1>4. CheckOperationGrantAuthority(order) = Each(order, block)
  BY DEF CheckOperationGrantAuthority
<1> HIDE DEF block
<1> QED
  BY <1>0, <1>2, <1>3, <1>4, EachClears

-----------------------------------------------------------------------------
\* The event suites.

LEMMA Six == \A a, b, c, d, e, f : <<a, b, c>> \o <<d, e, f>> = <<a, b, c, d, e, f>>
<1> SUFFICES ASSUME NEW a, NEW b, NEW c, NEW d, NEW e, NEW f
             PROVE  <<a, b, c>> \o <<d, e, f>> = <<a, b, c, d, e, f>>
  OBVIOUS
<1> DEFINE S == {a, b, c, d, e, f}
           x == <<a, b, c>> \o <<d, e, f>>
           y == <<a, b, c, d, e, f>>
<1>1. <<a, b, c>> \in Seq(S) /\ <<d, e, f>> \in Seq(S)
  OBVIOUS
<1>2. /\ x \in Seq(S) /\ Len(x) = 6 /\ x[1] = a /\ x[2] = b /\ x[3] = c
      /\ x[4] = d /\ x[5] = e /\ x[6] = f
  BY <1>1
<1>3. /\ y \in Seq(S) /\ Len(y) = 6 /\ y[1] = a /\ y[2] = b /\ y[3] = c
      /\ y[4] = d /\ y[5] = e /\ y[6] = f
  OBVIOUS
<1> HIDE DEF x, y
<1>4. x = y
  BY <1>2, <1>3, SeqEqual
<1> QED
  BY <1>4 DEF x, y

\* What the suites for event sinks rely on.
EventSound(s) ==
  /\ Upright(s) /\ {"authority", "body", "ledger", "order"} \subseteq Range(s.gates)
  /\ \A g : ~Before(s, "policy", g)
  /\ ~Before(s, "ledger", "authority") /\ ~Before(s, "ledger", "body")
  /\ \A op : \A g \in {"ledger", "authority", "body"} : ~Before(s, Asking(op), g)
  /\ \A op, c : <<op, c>> \in s.forgets => c \in {"tokenID", "issuedAt", "expiresAt"}
  /\ s.overlooks \subseteq {"terminalState", "eventLog"}

\* An event sink whose flaws are untested is sound.
LEMMA EventServices ==
  ASSUME NEW name \in EventSuites, NEW s, s.gates \in Seq(Gates(name)), Flaws(name, s) \subseteq Untested(name)
  PROVE  EventSound(s)
<1>1. /\ \A g \in Gates(name) : g \in Range(s.gates) \/ <<"lacks", g>> \in Untested(name)
      /\ \A p \in Precedence(name) : ~Before(s, p[2], p[1]) \/ <<"inverts", p[1], p[2]>> \in Untested(name)
      /\ \A c \in s.forgets : <<"forgets", c[1], c[2]>> \in Untested(name)
      /\ \A part \in s.overlooks : <<"overlooks", part>> \in Untested(name)
      /\ s.habit = "proper" \/ <<"habit", s.habit>> \in Untested(name)
  BY Harmless
<1>0. name \in EventSuites \cup {"source"} /\ name \notin LaunchSuites /\ name # "source"
      /\ name # "verifier" /\ name # "authority"
  BY DEF LaunchSuites, EventSuites
<1>2. Gates(name) = {"authority", "body", "ledger", "order"}
  BY <1>0, Zenon DEF Gates
<1>3. Precedence(name) = {<<"authority", "ledger">>, <<"body", "ledger">>, <<"ledger", "order">>}
  BY <1>0, Zenon DEF Precedence
<1>4. \A x \in Untested(name) :
        \/ x = <<"habit", "lastOnly">>
        \/ \E c \in EventClaims({"tokenID", "issuedAt", "expiresAt"}) : x = <<"forgets", c[1], c[2]>>
        \/ \E part \in {"terminalState", "eventLog"} : x = <<"overlooks", part>>
  <2>1. Untested(name) = {<<"habit", "lastOnly">>} \cup
         {<<"forgets", c[1], c[2]>> : c \in EventClaims({"tokenID", "issuedAt", "expiresAt"})}
         \cup {<<"overlooks", part>> : part \in {"terminalState", "eventLog"}}
    BY UntestedByName
  <2> QED
    BY <2>1
<1>5. s.habit \in {"proper", "lastOnly"} /\ Upright(s)
  <2>1. <<"habit", s.habit>> \in Untested(name) => s.habit = "lastOnly"
    BY <1>4
  <2> QED
    BY <1>1, <1>2, <2>1 DEF Upright, Gate
<1>6. {"authority", "body", "ledger", "order"} \subseteq Range(s.gates)
  <2>1. \A g : <<"lacks", g>> \notin Untested(name)
    BY <1>4
  <2> QED
    BY <1>1, <1>2, <2>1
<1>7. ~Before(s, "ledger", "authority") /\ ~Before(s, "ledger", "body") /\ ~Before(s, "order", "ledger")
  <2>1. \A a, b : <<"inverts", a, b>> \notin Untested(name)
    BY <1>4
  <2>2. \A p \in Precedence(name) : ~Before(s, p[2], p[1])
    BY <1>1, <2>1
  <2> QED
    BY <1>3, <2>2
<1>8. ASSUME NEW g \in {"authority", "body"} PROVE ~Before(s, "order", g)
  <2> SUFFICES ASSUME Before(s, "order", g) PROVE FALSE
    OBVIOUS
  <2>1. PICK i, j \in DOMAIN s.gates : i < j /\ s.gates[i] = "order" /\ s.gates[j] = g
    BY DEF Before
  <2>2. PICK k \in DOMAIN s.gates : s.gates[k] = "ledger"
    BY <1>6 DEF Range
  <2>3. i \in Nat /\ j \in Nat /\ k \in Nat /\ k # j /\ k # i
    BY <1>5, <2>1, <2>2 DEF Upright
  <2>4. ~(k < j)
    BY <1>7, <2>1, <2>2 DEF Before
  <2>5. ~(i < k)
    BY <1>7, <2>1, <2>2 DEF Before
  <2> QED
    BY <2>1, <2>3, <2>4, <2>5
<1>12. \A op : \A g \in {"ledger", "authority", "body"} : ~Before(s, Asking(op), g)
  <2>1. \A g : ~Before(s, "references", g)
    BY <1>2 DEF Before
  <2> QED
    BY <1>7, <1>8, <2>1, AskingGates
<1>9. \A op, c : <<op, c>> \in s.forgets => c \in {"tokenID", "issuedAt", "expiresAt"}
  <2> SUFFICES ASSUME NEW op, NEW c, <<op, c>> \in s.forgets PROVE c \in {"tokenID", "issuedAt", "expiresAt"}
    OBVIOUS
  <2>1. <<"forgets", op, c>> \in Untested(name)
    BY <1>1
  <2>2. PICK d \in EventClaims({"tokenID", "issuedAt", "expiresAt"}) : <<"forgets", op, c>> = <<"forgets", d[1], d[2]>>
    BY <1>4, <2>1
  <2> QED
    BY <2>2 DEF EventClaims
<1>10. s.overlooks \subseteq {"terminalState", "eventLog"}
  <2>1. \A part : <<"overlooks", part>> \in Untested(name) => part \in {"terminalState", "eventLog"}
    BY <1>4
  <2> QED
    BY <1>1, <2>1
<1>11. \A g : ~Before(s, "policy", g)
  BY <1>2 DEF Before
<1> QED
  BY <1>5, <1>6, <1>7, <1>9, <1>10, <1>11, <1>12 DEF EventSound

\* The claims and the parts an event suite changes are finitely many words.
LEMMA EventClaimsFinite ==
  /\ IsFiniteSet(invalidEventGrantMutations) /\ invalidEventGrantMutations \subseteq Word
  /\ \A c \in invalidEventGrantMutations \cup {"purpose"} : c \notin {"tokenID", "issuedAt", "expiresAt"}
<1>1. invalidEventGrantMutations \subseteq Envelope \cup Field
  BY DEF invalidEventGrantMutations, Field, Identity, Route, Execution, Instance, Participant
<1>2. IsFiniteSet(Envelope \cup Field)
  BY EnvelopeFinite, FieldFinite, FS_Union
<1>3. \A c \in invalidEventGrantMutations \cup {"purpose"} : c \notin {"tokenID", "issuedAt", "expiresAt"}
  BY DEF invalidEventGrantMutations
<1> QED
  BY <1>1, <1>2, <1>3, EnvelopeFinite, FieldFinite, FS_Subset

LEMMA EventPartsFinite ==
  /\ IsFiniteSet(StartParts) /\ StartParts \subseteq Word
  /\ \A profile : /\ IsFiniteSet(resultEventPayloadMutations(profile))
                  /\ resultEventPayloadMutations(profile) \subseteq Word
  /\ \A profile : \A part \in StartParts \cup resultEventPayloadMutations(profile) :
       part \notin {"terminalState", "eventLog"}
<1>1. StartParts = {"competitionID", "contestID", "requestID", "providerID"}
                   \cup {"adapterID", "providerInstanceID", "id", "occurredAt"}
                   \cup {"kind", "kind", "kind", "kind"}
  BY DEF StartParts, eventIdentity
<1>2. IsFiniteSet(StartParts)
  BY <1>1, FewFinite, FS_Union
<1>3. ASSUME NEW profile
      PROVE  /\ IsFiniteSet(resultEventPayloadMutations(profile))
             /\ resultEventPayloadMutations(profile) \subseteq Word
  <2> DEFINE own == {"placementSlot", "placementEntry", "rank", "status"}
                    \cup {"replay", "replay", "replay", "replay"}
             more == IF profile = "provider-executed"
                     THEN {"configurationDigest", "runtimeDigest", "rulesDigest", "limitDigest"}
                          \cup {"seedDigest", "eventLogDigest", "executionDigest", "artifacts"}
                     ELSE {"profileEvidence", "terminalState", "eventLog", "eventLog"}
  <2>1. ResultParts(profile) = StartParts \cup own \cup more
    BY DEF ResultParts, Provenance
  <2>2. IsFiniteSet(own)
    BY FewFinite, FS_Union
  <2>3. IsFiniteSet(more)
    BY FewFinite, FS_Union
  <2>4. ResultParts(profile) \subseteq Word
    BY DEF ResultParts, Word
  <2> HIDE DEF own, more
  <2>5. IsFiniteSet(ResultParts(profile))
    BY <1>2, <2>1, <2>2, <2>3, FS_Union
  <2>6. resultEventPayloadMutations(profile) \subseteq ResultParts(profile)
    BY DEF resultEventPayloadMutations
  <2> QED
    BY <2>4, <2>5, <2>6, FS_Subset
<1>4. StartParts \subseteq Word
  BY DEF ResultParts, Word
<1>5. \A profile : \A part \in StartParts \cup resultEventPayloadMutations(profile) :
       part \notin {"terminalState", "eventLog"}
  BY <1>1 DEF resultEventPayloadMutations
<1> QED
  BY <1>2, <1>3, <1>4, <1>5

Kind == {"started", "completed", "failed", "cancelled"}
Identified == eventIdentity \cup resultRequestBinding

\* What an event suite asks for.
LEMMA EventItems ==
  ASSUME NEW kind \in Kind,
         NEW command \in Word, NEW changed \in SUBSET Word
  PROVE  LET item == EventItem(kind, command, changed)
         IN  /\ item \in Item /\ item.op \in {"contest-started-event", "contest-result-event"}
             /\ item.command = command /\ item.body = changed /\ item.success = "accepted"
             /\ changed \cap Identified = {} => item.outside = "nothing"
             /\ changed \cap Identified # {} => item.outside = "body"
             /\ kind = "started" =>
                  /\ item.op = "contest-started-event" /\ item.needs = {}
                  /\ item.bars = {"started", "ended"} /\ item.gives = {"started"}
             /\ kind # "started" =>
                  /\ item.op = "contest-result-event" /\ item.bars = {"ended"} /\ item.gives = {"ended"}
             /\ kind = "completed" => item.needs = {"started"}
             /\ kind # "completed" => item.needs = {}
<1> DEFINE item == EventItem(kind, command, changed)
<1>1. /\ item.op = IF kind = "started" THEN "contest-started-event" ELSE "contest-result-event"
      /\ item.command = command /\ item.body = changed /\ item.success = "accepted"
      /\ item.outside = IF changed \cap Identified # {} THEN "body" ELSE "nothing"
      /\ item.needs = {k \in {"started"} : kind = "completed"}
      /\ item.bars = {"ended"} \cup {k \in {"started"} : kind = "started"}
      /\ item.gives = IF kind = "started" THEN {"started"} ELSE {"ended"}
  BY DEF EventItem, Identified
<1>2. /\ {"contest-started-event", "contest-result-event", "body", "nothing", "started", "ended"} \subseteq Word
  BY DEF Word, Purpose
<1>9. Word \subseteq Need
  BY DEF Need
<1>3. /\ item.op \in Word /\ item.outside \in Word /\ item.needs \in SUBSET Need
      /\ item.bars \in SUBSET Word /\ item.gives \in SUBSET Word
  BY <1>1, <1>2, <1>9
<1>4. item = [op |-> item.op, command |-> item.command, body |-> item.body, outside |-> item.outside,
              needs |-> item.needs, bars |-> item.bars, gives |-> item.gives, success |-> item.success]
  BY DEF EventItem
<1> HIDE DEF item
<1>5. item \in Item
  BY <1>1, <1>3, <1>4 DEF Item
<1>6. /\ kind = "started" => item.bars = {"started", "ended"}
      /\ kind # "started" => item.bars = {"ended"}
      /\ kind = "completed" => item.needs = {"started"}
      /\ kind # "completed" => item.needs = {}
  BY <1>1
<1>7. /\ item.op \in {"contest-started-event", "contest-result-event"}
      /\ item.command = command /\ item.body = changed /\ item.success = "accepted"
      /\ changed \cap Identified = {} => item.outside = "nothing"
      /\ changed \cap Identified # {} => item.outside = "body"
      /\ kind = "started" => item.op = "contest-started-event" /\ item.gives = {"started"}
      /\ kind # "started" => item.op = "contest-result-event" /\ item.gives = {"ended"}
  BY <1>1
<1>8. kind = "started" => item.needs = {}
  BY <1>6
<1> QED
  BY <1>5, <1>6, <1>7, <1>8 DEF item

\* Events come too early or too late.
LEMMA AskingEvents == \A op \in {"contest-started-event", "contest-result-event"} : Asking(op) = "order"
BY DEF Asking

\* The start and the result, spelt out.
LEMMA StartAndResult ==
  /\ Start \in Item /\ Start.op = "contest-started-event" /\ Start.command = "start" /\ Start.body = {}
  /\ Start.outside = "nothing" /\ Start.needs = {} /\ Start.bars = {"started", "ended"}
  /\ Start.gives = {"started"} /\ Start.success = "accepted"
  /\ Result \in Item /\ Result.op = "contest-result-event" /\ Result.command = "result" /\ Result.body = {}
  /\ Result.outside = "nothing" /\ Result.needs = {"started"} /\ Result.bars = {"ended"}
  /\ Result.gives = {"ended"} /\ Result.success = "accepted"
  /\ Asking(Start.op) = "order" /\ Asking(Result.op) = "order"
<1>1. "start" \in Word /\ "result" \in Word /\ {} \in SUBSET Word /\ {} \cap Identified = {}
      /\ "started" \in Kind /\ "completed" \in Kind
  BY DEF Word, Kind
<1>2. /\ Start.op = "contest-started-event" /\ Start.needs = {}
      /\ Start.bars = {"started", "ended"} /\ Start.gives = {"started"}
  BY <1>1, EventItems DEF Start
<1>3. Start \in Item /\ Start.command = "start" /\ Start.body = {} /\ Start.success = "accepted"
  BY <1>1, EventItems DEF Start
<1>4. Start.outside = "nothing"
  BY <1>1, EventItems DEF Start
<1>5. /\ Result.op = "contest-result-event" /\ Result.needs = {"started"}
      /\ Result.bars = {"ended"} /\ Result.gives = {"ended"}
  BY <1>1, EventItems DEF Result
<1>6. Result \in Item /\ Result.command = "result" /\ Result.body = {} /\ Result.success = "accepted"
  BY <1>1, EventItems DEF Result
<1>7. Result.outside = "nothing"
  BY <1>1, EventItems DEF Result
<1>8. Asking(Start.op) = "order" /\ Asking(Result.op) = "order"
  BY <1>2, <1>5, AskingEvents
<1> QED
  BY <1>2, <1>3, <1>4, <1>5, <1>6, <1>7, <1>8

\* An event with one part changed.
LEMMA EventItemOfPart ==
  ASSUME NEW kind \in Kind, NEW command \in Word, NEW part \in Word
  PROVE  LET item == EventItem(kind, command, {part})
         IN  /\ item \in Item /\ item.command = command /\ item.body = {part}
             /\ part \notin Identified => item.outside = "nothing"
             /\ part \in Identified => item.outside = "body"
<1>1. {part} \in SUBSET Word
  OBVIOUS
<1>2. /\ part \notin Identified => {part} \cap Identified = {}
      /\ part \in Identified => {part} \cap Identified # {}
  OBVIOUS
<1> QED
  BY <1>1, <1>2, EventItems

\* How an event of a known command is answered that is changed in one part.
Verdict(part) == IF part \in Identified THEN {"invalidGrant", "leaked"} ELSE {"commandConflict"}

\* The changed event, on a sink that knows the event as it was.
LEMMA ChangedServes ==
  ASSUME NEW s, EventSound(s), NEW kind \in Kind, NEW command \in Word, NEW part \in Word,
         part \notin s.overlooks,
         NEW r, r.command = command, r.body = {}
  PROVE  /\ Call("same", EventItem(kind, command, {part}), Verdict(part)) \in CallType
         /\ Call("same", EventItem(kind, command, {part}), Verdict(part)).on = "same"
         /\ \A C, K, F, G : r \in K =>
              Serves(s, Call("same", EventItem(kind, command, {part}), Verdict(part)), Knows(C, K, F, G), Knows(C, K, F, G))
<1> DEFINE item == EventItem(kind, command, {part})
           c == Call("same", item, Verdict(part))
<1>2. /\ item \in Item /\ item.command = command /\ item.body = {part}
      /\ part \notin Identified => item.outside = "nothing"
      /\ part \in Identified => item.outside = "body"
  BY EventItemOfPart
<1>4. Asks(c, "same", item, {}, Verdict(part))
  <2>1. Verdict(part) \in SUBSET Answer
    BY DEF Verdict, Answer, Refusal
  <2> HIDE DEF item
  <2> QED
    BY <1>2, <2>1, CallAsks
<1> HIDE DEF item, c
<1>5. ASSUME NEW C, NEW K, NEW F, NEW G, r \in K
      PROVE  Serves(s, c, Knows(C, K, F, G), Knows(C, K, F, G))
  <2>1. CASE part \in Identified
    <3>1. "invalidGrant" \in Verdict(part) /\ item.outside = "body"
      BY <1>2, <2>1 DEF Verdict
    <3>2. /\ Upright(s) /\ "body" \in Range(s.gates) /\ ~Before(s, "ledger", "body")
          /\ ~Before(s, Asking(item.op), "body")
      BY DEF EventSound
    <3> QED
      BY <1>4, <3>1, <3>2, ItemUnfit
  <2>2. CASE part \notin Identified
    <3>1. "commandConflict" \in Verdict(part) /\ item.outside # "body"
      BY <1>2, <2>2 DEF Verdict
    <3>2. /\ Upright(s) /\ "ledger" \in Range(s.gates) /\ ~Before(s, "policy", "ledger")
          /\ ~Before(s, Asking(item.op), "ledger")
      BY DEF EventSound
    <3>3. r.body \ s.overlooks # item.body \ s.overlooks
      BY <1>2
    <3> QED
      BY <1>2, <1>4, <1>5, <3>1, <3>2, <3>3, ItemConflicts
  <2> QED
    BY <2>1, <2>2
<1> QED
  BY <1>4, <1>5 DEF Asks, c, item

\* No sound sink overlooks a part the suite changes.
LEMMA NotOverlooked ==
  ASSUME NEW s, EventSound(s), NEW profile, NEW part \in StartParts \cup resultEventPayloadMutations(profile)
  PROVE  part \in Word /\ part \notin s.overlooks
<1>1. part \notin {"terminalState", "eventLog"} /\ part \in Word
  BY EventPartsFinite
<1> QED
  BY <1>1 DEF EventSound

\* The changed event is refused.
LEMMA ChangedRefused ==
  ASSUME NEW s, EventSound(s), NEW kind \in Kind, NEW command \in Word, NEW part \in Word,
         part \notin s.overlooks, NEW r, r.command = command, r.body = {}
  PROVE  /\ Changed(kind, command, part) \in CallType /\ Changed(kind, command, part).on = "same"
         /\ \A C, K, F, G : r \in K =>
              Serves(s, Changed(kind, command, part), Knows(C, K, F, G), Knows(C, K, F, G))
<1> DEFINE as == IF part = "kind" THEN "failed" ELSE kind
<1>1. as \in Kind
  BY DEF Kind
<1>2. Changed(kind, command, part) = Call("same", EventItem(as, command, {part}), Verdict(part))
  BY DEF Changed, Identified, Verdict
<1> HIDE DEF as
<1>3. /\ Call("same", EventItem(as, command, {part}), Verdict(part)) \in CallType
      /\ Call("same", EventItem(as, command, {part}), Verdict(part)).on = "same"
      /\ \A C, K, F, G : r \in K =>
           Serves(s, Call("same", EventItem(as, command, {part}), Verdict(part)), Knows(C, K, F, G), Knows(C, K, F, G))
  BY <1>1, ChangedServes
<1> QED
  BY <1>2, <1>3, Zenon

\* The start and the result of an execution.
Started(a) == Knows({"start"}, {Record(a)}, {"started"}, {"started"})
Ended(b) == Knows({"start"} \cup {"result"}, {Record(b)}, {"started"} \cup {"ended"}, {"started"} \cup {"ended"})

\* The main sink takes the start, its retry, the result and its retry in turn.
LEMMA Lifecycle ==
  ASSUME NEW s, EventSound(s)
  PROVE  /\ \A a, on, right : Asks(a, on, Start, {}, right) /\ "accepted" \in right =>
              Serves(s, a, Knows({}, {}, {}, {}), Started(a))
         /\ \A a, b, on, right, ona, righta :
              Asks(a, ona, Start, {}, righta) /\ Asks(b, on, Start, {}, right) /\ "replayed" \in right =>
                Serves(s, b, Started(a), Started(a))
         /\ \A a, b, on, right : Asks(b, on, Result, {}, right) /\ "accepted" \in right =>
              Serves(s, b, Started(a), Ended(b))
         /\ \A b, c, on, right, onb, rightb :
              Asks(b, onb, Result, {}, rightb) /\ Asks(c, on, Result, {}, right) /\ "replayed" \in right =>
                Serves(s, c, Ended(b), Ended(b))
<1>1. /\ Upright(s) /\ "ledger" \in Range(s.gates) /\ ~Before(s, "policy", "ledger")
      /\ ~Before(s, Asking(Start.op), "ledger") /\ ~Before(s, Asking(Result.op), "ledger")
  BY DEF EventSound
<1>2. ASSUME NEW a, NEW on, NEW right, Asks(a, on, Start, {}, right), "accepted" \in right
      PROVE  Serves(s, a, Knows({}, {}, {}, {}), Started(a))
  <2>1. Serves(s, a, Knows({}, {}, {}, {}), Knows({Start.command}, {Record(a)}, Start.gives, Start.gives))
    BY <1>1, <1>2, StartAndResult, AcceptedAnew
  <2> QED
    BY <2>1, StartAndResult DEF Started
<1>3. ASSUME NEW a, NEW b, NEW on, NEW right, NEW ona, NEW righta, Asks(a, ona, Start, {}, righta),
             Asks(b, on, Start, {}, right), "replayed" \in right
      PROVE  Serves(s, b, Started(a), Started(a))
  <2>1. Record(a).op = Start.op /\ Record(a).command = Start.command /\ Record(a).body = Start.body
    BY <1>3, RecordOfItem
  <2>2. \A C, K, F, G : Record(a) \in K => Serves(s, b, Knows(C, K, F, G), Knows(C, K, F, G))
    BY <1>1, <1>3, <2>1, StartAndResult, ItemReplayed, ZenonT(60)
  <2> QED
    BY <2>2 DEF Started
<1>4. ASSUME NEW a, NEW b, NEW on, NEW right, Asks(b, on, Result, {}, right), "accepted" \in right
      PROVE  Serves(s, b, Started(a), Ended(b))
  <2>1. InTime(Result, {"started"}, {"started"}) /\ Result.command \notin {"start"}
    BY StartAndResult DEF InTime
  <2>2. Serves(s, b, Knows({"start"}, {Record(a)}, {"started"}, {"started"}),
               Knows({"start"} \cup {Result.command}, {Record(b)}, {"started"} \cup Result.gives,
                     {"started"} \cup Result.gives))
    BY <1>1, <1>4, <2>1, StartAndResult, AcceptedNext
  <2> QED
    BY <2>2, StartAndResult DEF Started, Ended
<1>5. ASSUME NEW b, NEW c, NEW on, NEW right, NEW onb, NEW rightb, Asks(b, onb, Result, {}, rightb),
             Asks(c, on, Result, {}, right), "replayed" \in right
      PROVE  Serves(s, c, Ended(b), Ended(b))
  <2>1. Record(b).op = Result.op /\ Record(b).command = Result.command /\ Record(b).body = Result.body
    BY <1>5, RecordOfItem
  <2>2. \A C, K, F, G : Record(b) \in K => Serves(s, c, Knows(C, K, F, G), Knows(C, K, F, G))
    BY <1>1, <1>5, <2>1, StartAndResult, ItemReplayed, ZenonT(60)
  <2> QED
    BY <2>2 DEF Ended
<1> QED
  BY <1>2, <1>3, <1>4, <1>5

\* What a sink remembers of them is a memory.
LEMMA LifecycleMemory ==
  /\ \A a : Started(a) \in SUBSET Memory /\ Ended(a) \in SUBSET Memory
  /\ Knows({}, {}, {}, {}) \in SUBSET Memory /\ Memory \in SUBSET Memory
BY KnowsMemory DEF Started, Ended

\* The calls of an event suite about its start and its result.
LEMMA EventCalls ==
  ASSUME NEW on \in {"main", "fresh", "same"}
  PROVE  /\ Asks(Call(on, Start, {"accepted"}), on, Start, {}, {"accepted"})
         /\ Asks(Call(on, Start, {"replayed"}), on, Start, {}, {"replayed"})
         /\ Asks([Call(on, Start, {"replayed"}) EXCEPT !.token = "first"], on, Start, {}, {"replayed"})
         /\ Asks(Call(on, Start, {"invalidTransition"}), on, Start, {}, {"invalidTransition"})
         /\ Asks(Call(on, Result, {"accepted"}), on, Result, {}, {"accepted"})
         /\ Asks(Call(on, Result, {"replayed"}), on, Result, {}, {"replayed"})
         /\ Asks(Call(on, Result, {"invalidTransition"}), on, Result, {}, {"invalidTransition"})
         /\ Asks(Setup(on, Start), on, Start, {}, {"accepted"})
         /\ Asks(Setup(on, Result), on, Result, {}, {"accepted"})
<1>1. /\ {"accepted"} \in SUBSET Answer /\ {"replayed"} \in SUBSET Answer
      /\ {"invalidTransition"} \in SUBSET Answer
  BY DEF Answer, Refusal
<1>2. Start \in Item /\ Result \in Item
  BY StartAndResult
<1>3. /\ Asks(Setup(on, Start), on, Start, {}, {"accepted"})
      /\ Asks(Setup(on, Result), on, Result, {}, {"accepted"})
  BY <1>2, SetupAsks
<1>4. ASSUME NEW item \in {Start, Result}
      PROVE  /\ Asks(Call(on, item, {"accepted"}), on, item, {}, {"accepted"})
             /\ Asks(Call(on, item, {"replayed"}), on, item, {}, {"replayed"})
             /\ Asks([Call(on, item, {"replayed"}) EXCEPT !.token = "first"], on, item, {}, {"replayed"})
             /\ Asks(Call(on, item, {"invalidTransition"}), on, item, {}, {"invalidTransition"})
  <2>1. item \in Item
    BY <1>2
  <2>2. Asks(Call(on, item, {"accepted"}), on, item, {}, {"accepted"})
    BY <1>1, <2>1, CallAsks
  <2>3. Asks(Call(on, item, {"replayed"}), on, item, {}, {"replayed"})
    BY <1>1, <2>1, CallAsks
  <2>5. Asks([Call(on, item, {"replayed"}) EXCEPT !.token = "first"], on, item, {}, {"replayed"})
    BY <1>1, <2>1, CallAsks
  <2>4. Asks(Call(on, item, {"invalidTransition"}), on, item, {}, {"invalidTransition"})
    BY <1>1, <2>1, CallAsks
  <2> QED
    BY <2>2, <2>3, <2>4, <2>5
<1> QED
  BY <1>2, <1>3, <1>4

\* One part of a known start changed, on a fresh sink.
LEMMA ChangedStartClears ==
  ASSUME NEW s, EventSound(s), NEW part \in StartParts, NEW A \in SUBSET Memory
  PROVE  Clears(s, A \X Memory, ChangedStart(part), A \X Memory)
<1> DEFINE a == Setup("fresh", Start)
           b == Changed("started", "start", part)
           c == Call("same", Start, {"replayed"})
           d == Call("same", Result, {"accepted"})
<1>1. /\ Asks(a, "fresh", Start, {}, {"accepted"}) /\ Asks(c, "same", Start, {}, {"replayed"})
      /\ Asks(d, "same", Result, {}, {"accepted"})
  BY EventCalls
<1>2. b \in CallType /\ b.on = "same" /\ Serves(s, b, Started(a), Started(a))
  <2>1. part \in Word /\ part \notin s.overlooks
    BY NotOverlooked
  <2>2. "start" \in Word /\ "started" \in Kind
    BY DEF Word, Kind
  <2> HIDE DEF a
  <2>3. Record(a).command = "start" /\ Record(a).body = {}
    BY <1>1, RecordOfItem, StartAndResult
  <2>4. /\ b \in CallType /\ b.on = "same"
        /\ \A C, K, F, G : Record(a) \in K => Serves(s, b, Knows(C, K, F, G), Knows(C, K, F, G))
    BY <2>1, <2>2, <2>3, ChangedRefused
  <2> HIDE DEF b
  <2> QED
    BY <2>4 DEF Started
<1> HIDE DEF a, b, c, d
<1>3. /\ Serves(s, a, Knows({}, {}, {}, {}), Started(a)) /\ Serves(s, c, Started(a), Started(a))
      /\ Serves(s, d, Started(a), Ended(d))
  BY <1>1, Lifecycle
<1>4. Serves(s, a, {Empty}, Started(a))
  BY <1>3, FromEmpty
<1>5. Clears(s, A \X Memory, <<a, b, c, d>>, A \X Ended(d))
  BY <1>1, <1>2, <1>3, <1>4, LifecycleMemory, FreshFour DEF Asks
<1>6. Clears(s, A \X Memory, <<a, b, c, d>>, A \X Memory)
  BY <1>5, LifecycleMemory, Forget
<1> QED
  BY <1>6 DEF ChangedStart, a, b, c, d

\* One part of a known result changed, on a fresh sink.
LEMMA ChangedResultClears ==
  ASSUME NEW s, EventSound(s), NEW profile, NEW part \in resultEventPayloadMutations(profile),
         NEW A \in SUBSET Memory
  PROVE  Clears(s, A \X Memory, ChangedResult(part), A \X Memory)
<1> DEFINE a == Setup("fresh", Start)
           b == Setup("same", Result)
           c == Changed("completed", "result", part)
           d == Call("same", Result, {"replayed"})
<1>1. /\ Asks(a, "fresh", Start, {}, {"accepted"}) /\ Asks(b, "same", Result, {}, {"accepted"})
      /\ Asks(d, "same", Result, {}, {"replayed"})
  BY EventCalls
<1>2. c \in CallType /\ c.on = "same" /\ Serves(s, c, Ended(b), Ended(b))
  <2>1. part \in Word /\ part \notin s.overlooks
    BY NotOverlooked
  <2>2. "result" \in Word /\ "completed" \in Kind
    BY DEF Word, Kind
  <2> HIDE DEF b
  <2>3. Record(b).command = "result" /\ Record(b).body = {}
    BY <1>1, RecordOfItem, StartAndResult
  <2>4. /\ c \in CallType /\ c.on = "same"
        /\ \A C, K, F, G : Record(b) \in K => Serves(s, c, Knows(C, K, F, G), Knows(C, K, F, G))
    BY <2>1, <2>2, <2>3, ChangedRefused
  <2> HIDE DEF c
  <2> QED
    BY <2>4 DEF Ended
<1> HIDE DEF a, b, c, d
<1>3. /\ Serves(s, a, Knows({}, {}, {}, {}), Started(a)) /\ Serves(s, b, Started(a), Ended(b))
      /\ Serves(s, d, Ended(b), Ended(b))
  BY <1>1, Lifecycle
<1>4. Serves(s, a, {Empty}, Started(a))
  BY <1>3, FromEmpty
<1>5. Clears(s, A \X Memory, <<a, b, c, d>>, A \X Ended(b))
  BY <1>1, <1>2, <1>3, <1>4, LifecycleMemory, FreshFour DEF Asks
<1>6. Clears(s, A \X Memory, <<a, b, c, d>>, A \X Memory)
  BY <1>5, LifecycleMemory, Forget
<1> QED
  BY <1>6 DEF ChangedResult, a, b, c, d

\* A result that does not fit its execution, on a fresh sink.
LEMMA MisfitClears ==
  ASSUME NEW s, EventSound(s), NEW part \in resultRequestBinding, NEW A \in SUBSET Memory
  PROVE  Clears(s, A \X Memory, Misfit(part), A \X Memory)
<1> DEFINE item == EventItem("completed", "bound", {"id", part})
           a == [Setup("fresh", Start) EXCEPT !.want = Answer \ Refusal, !.skips = Refusal]
           b == Call("same", item, Refusal)
           c == Call("same", Result, {"accepted"})
<1>1. item \in Item /\ item.outside = "body"
  <2>1. "bound" \in Word /\ {"id", part} \in SUBSET Word /\ {"id", part} \cap Identified # {}
        /\ "completed" \in Kind
    BY DEF Kind, Word, ResultParts, StartParts, Provenance, resultRequestBinding, Identified
  <2> QED
    BY <2>1, EventItems
<1> HIDE DEF item
<1>2. /\ Asks(a, "fresh", Start, {}, Answer \ Refusal) /\ Asks(b, "same", item, {}, Refusal)
      /\ Asks(c, "same", Result, {}, {"accepted"})
  <2>1. Refusal \in SUBSET Answer
    BY DEF Answer
  <2> QED
    BY <1>1, <2>1, StartAndResult, SetupAsks, CallAsks, EventCalls
<1> HIDE DEF a, b, c
<1>3. Serves(s, a, Knows({}, {}, {}, {}), Started(a)) /\ Serves(s, c, Started(a), Ended(c))
  <2>1. "accepted" \in Answer \ Refusal
    BY DEF Answer, Refusal
  <2> QED
    BY <1>2, <2>1, Lifecycle
<1>4. Serves(s, b, Started(a), Started(a))
  <2>1. /\ Upright(s) /\ "body" \in Range(s.gates) /\ ~Before(s, "ledger", "body")
        /\ ~Before(s, Asking(item.op), "body") /\ "invalidGrant" \in Refusal
    BY DEF EventSound, Refusal
  <2> QED
    BY <1>1, <1>2, <2>1, ItemUnfit DEF Started
<1>5. Serves(s, a, {Empty}, Started(a))
  BY <1>3, FromEmpty
<1>6. Clears(s, A \X Memory, <<a, b, c>>, A \X Ended(c))
  BY <1>2, <1>3, <1>4, <1>5, LifecycleMemory, FreshTriple DEF Asks
<1>7. Clears(s, A \X Memory, <<a, b, c>>, A \X Memory)
  BY <1>6, LifecycleMemory, Forget
<1> QED
  BY <1>7 DEF Misfit, a, b, c, item

\* A result before its start; then the first start and its exact retries.
LEMMA EventOpeningClears ==
  ASSUME NEW s, EventSound(s)
  PROVE  Clears(s, Knows({}, {}, {}, {}) \X Memory,
                <<Call("fresh", Result, {"invalidTransition"}), Call("same", Start, {"accepted"}),
                  Call("same", Result, {"accepted"}),
                  [First(Start) EXCEPT !.ends = Answer \ {"accepted"}],
                  [Call("main", Start, {"replayed"}) EXCEPT !.token = "first"],
                  Call("main", Start, {"replayed"})>>,
                Started([First(Start) EXCEPT !.ends = Answer \ {"accepted"}]) \X Memory)
<1> DEFINE E == Knows({}, {}, {}, {})
           a == Call("fresh", Result, {"invalidTransition"})
           b == Call("same", Start, {"accepted"})
           c == Call("same", Result, {"accepted"})
           d == [First(Start) EXCEPT !.ends = Answer \ {"accepted"}]
           e == [Call("main", Start, {"replayed"}) EXCEPT !.token = "first"]
           f == Call("main", Start, {"replayed"})
<1>1. /\ Asks(a, "fresh", Result, {}, {"invalidTransition"}) /\ Asks(b, "same", Start, {}, {"accepted"})
      /\ Asks(c, "same", Result, {}, {"accepted"})
      /\ Asks(e, "main", Start, {}, {"replayed"}) /\ Asks(f, "main", Start, {}, {"replayed"})
  BY EventCalls
<1>2. Asks(d, "main", Start, {}, {"accepted"})
  BY StartAndResult, FirstAsks
<1> HIDE DEF a, b, c, d, e, f
<1>3. Serves(s, a, E, E)
  <2>1. TooSoon(Result, {}, {})
    BY StartAndResult DEF TooSoon
  <2>2. Upright(s) /\ Asking(Result.op) \in Range(s.gates)
    BY StartAndResult DEF EventSound
  <2> QED
    BY <1>1, <2>1, <2>2, StartAndResult, ItemUntimely
<1>4. Serves(s, b, E, Started(b)) /\ Serves(s, c, Started(b), Ended(c))
  BY <1>1, Lifecycle
<1>5. Serves(s, d, E, Started(d)) /\ Serves(s, e, Started(d), Started(d)) /\ Serves(s, f, Started(d), Started(d))
  BY <1>1, <1>2, Lifecycle
<1>6. E \in SUBSET Memory
  BY LifecycleMemory
<1>7. Serves(s, a, {Empty}, E)
  BY <1>3, FromEmpty
<1>8. Clears(s, E \X Memory, <<a, b, c>>, E \X Memory)
  <2>1. Clears(s, E \X Memory, <<a, b, c>>, E \X Ended(c))
    <3> HIDE DEF E
    <3> QED
      BY <1>1, <1>4, <1>6, <1>7, LifecycleMemory, FreshTriple DEF Asks
  <2> QED
    BY <1>6, <2>1, LifecycleMemory, Forget
<1>9. Clears(s, E \X Memory, <<d, e, f>>, Started(d) \X Memory)
  <2> HIDE DEF E
  <2> QED
    BY <1>1, <1>2, <1>5, <1>6, LifecycleMemory, MainTriple DEF Asks
<1>10. Clears(s, E \X Memory, <<a, b, c>> \o <<d, e, f>>, Started(d) \X Memory)
  BY <1>8, <1>9, ClearsBoth
<1>11. <<a, b, c>> \o <<d, e, f>> = <<a, b, c, d, e, f>>
  BY Six, SMT

<1> QED
  BY <1>10, <1>11, Zenon DEF E, a, b, c, d, e, f

\* The wrong grants of a start and of a result the sink knows.
LEMMA EventsKnownClear ==
  ASSUME NEW s, EventSound(s), NEW order
  PROVE  /\ \A a, on, right : Asks(a, on, Start, {}, right) =>
              Clears(s, Started(a) \X Memory,
                     Populated(order, Start, invalidEventGrantMutations, "contest-result-event", {"replayed"}),
                     Started(a) \X Memory)
         /\ \A b, on, right : Asks(b, on, Result, {}, right) =>
              Clears(s, Ended(b) \X Memory,
                     Populated(order, Result, invalidEventGrantMutations, "contest-started-event", {"replayed"}),
                     Ended(b) \X Memory)
<1>1. /\ invalidEventGrantMutations \in SUBSET Word /\ IsFiniteSet(invalidEventGrantMutations)
      /\ "contest-started-event" \in Purpose /\ "contest-result-event" \in Purpose
      /\ Start.op \in Purpose /\ Result.op \in Purpose /\ {"replayed"} \in SUBSET Answer
  BY EventClaimsFinite, StartAndResult DEF Purpose, Answer, Refusal
<1>2. /\ Upright(s) /\ "authority" \in Range(s.gates) /\ "ledger" \in Range(s.gates)
      /\ ~Before(s, "policy", "ledger") /\ ~Before(s, "ledger", "authority")
      /\ \A op : ~Before(s, Asking(op), "ledger") /\ ~Before(s, Asking(op), "authority")
  BY DEF EventSound
<1>3. /\ \A x \in invalidEventGrantMutations \cup {"purpose"} : <<Start.op, x>> \notin s.forgets
      /\ \A x \in invalidEventGrantMutations \cup {"purpose"} : <<Result.op, x>> \notin s.forgets
  BY EventClaimsFinite DEF EventSound
<1>4. ASSUME NEW a, NEW on, NEW right, Asks(a, on, Start, {}, right)
      PROVE  Clears(s, Started(a) \X Memory,
                    Populated(order, Start, invalidEventGrantMutations, "contest-result-event", {"replayed"}),
                    Started(a) \X Memory)
  <2>1. Record(a).op = Start.op /\ Record(a).command = Start.command /\ Record(a).body = Start.body
    BY <1>4, RecordOfItem
  <2> QED
    BY <1>1, <1>2, <1>3, <2>1, StartAndResult, PopulatedClears DEF Started
<1>5. ASSUME NEW b, NEW on, NEW right, Asks(b, on, Result, {}, right)
      PROVE  Clears(s, Ended(b) \X Memory,
                    Populated(order, Result, invalidEventGrantMutations, "contest-started-event", {"replayed"}),
                    Ended(b) \X Memory)
  <2>1. Record(b).op = Result.op /\ Record(b).command = Result.command /\ Record(b).body = Result.body
    BY <1>5, RecordOfItem
  <2>2. \A C, K, F, G : Record(b) \in K =>
          Clears(s, Knows(C, K, F, G) \X Memory,
                 Populated(order, Result, invalidEventGrantMutations, "contest-started-event", {"replayed"}),
                 Knows(C, K, F, G) \X Memory)
    BY <1>1, <1>2, <1>3, <2>1, StartAndResult, PopulatedClears
  <2> QED
    BY <2>2 DEF Ended
<1> QED
  BY <1>4, <1>5

\* Blocks on fresh sinks, whatever the main one knows.
LEMMA EventBlocksClear ==
  ASSUME NEW s, EventSound(s), NEW profile, NEW order, NEW A \in SUBSET Memory
  PROVE  /\ Clears(s, A \X Memory, Each(order, [part \in StartParts |-> ChangedStart(part)]), A \X Memory)
         /\ Clears(s, A \X Memory, Rejections(order, Start, invalidEventGrantMutations), A \X Memory)
         /\ Clears(s, A \X Memory,
                   Each(order, [part \in resultEventPayloadMutations(profile) |-> ChangedResult(part)]), A \X Memory)
         /\ Clears(s, A \X Memory,
                   Each(order, [part \in {"placementEntry", IF profile = "provider-executed"
                                          THEN "artifacts" ELSE "profileEvidence"} |-> Misfit(part)]), A \X Memory)
<1>0. A \X Memory \subseteq State
  BY DEF State
<1>1. Clears(s, A \X Memory, Each(order, [part \in StartParts |-> ChangedStart(part)]), A \X Memory)
  <2> DEFINE block == [part \in StartParts |-> ChangedStart(part)]
  <2>1. IsFiniteSet(DOMAIN block)
    BY EventPartsFinite
  <2>2. \A part \in DOMAIN block : Clears(s, A \X Memory, block[part], A \X Memory)
    BY ChangedStartClears
  <2> HIDE DEF block
  <2>3. Clears(s, A \X Memory, Each(order, block), A \X Memory)
    BY <1>0, <2>1, <2>2, EachClears
  <2> QED
    BY <2>3 DEF block
<1>2. Clears(s, A \X Memory,
             Each(order, [part \in resultEventPayloadMutations(profile) |-> ChangedResult(part)]), A \X Memory)
  <2> DEFINE block == [part \in resultEventPayloadMutations(profile) |-> ChangedResult(part)]
  <2>1. IsFiniteSet(DOMAIN block)
    BY EventPartsFinite
  <2>2. \A part \in DOMAIN block : Clears(s, A \X Memory, block[part], A \X Memory)
    BY ChangedResultClears
  <2> HIDE DEF block
  <2>3. Clears(s, A \X Memory, Each(order, block), A \X Memory)
    BY <1>0, <2>1, <2>2, EachClears
  <2> QED
    BY <2>3 DEF block
<1>3. Clears(s, A \X Memory,
             Each(order, [part \in {"placementEntry", IF profile = "provider-executed"
                                    THEN "artifacts" ELSE "profileEvidence"} |-> Misfit(part)]), A \X Memory)
  <2> DEFINE own == IF profile = "provider-executed" THEN "artifacts" ELSE "profileEvidence"
             parts == {"placementEntry", own}
             block == [part \in parts |-> Misfit(part)]
  <2>1. parts \subseteq resultRequestBinding
    BY DEF resultRequestBinding
  <2>2. parts = {"placementEntry", own, own, own}
    OBVIOUS
  <2>3. IsFiniteSet(parts)
    <3> HIDE DEF own, parts
    <3> QED
      BY <2>2, FewFinite
  <2>4. DOMAIN block = parts
    OBVIOUS
  <2>5. \A part \in parts : Clears(s, A \X Memory, block[part], A \X Memory)
    <3>1. \A part \in parts : block[part] = Misfit(part)
      OBVIOUS
    <3> HIDE DEF parts, block
    <3> QED
      BY <2>1, <3>1, MisfitClears
  <2> HIDE DEF parts, block
  <2>6. Clears(s, A \X Memory, Each(order, block), A \X Memory)
    BY <1>0, <2>3, <2>4, <2>5, EachClears
  <2> QED
    BY <2>6 DEF block, parts, own
<1>4. Clears(s, A \X Memory, Rejections(order, Start, invalidEventGrantMutations), A \X Memory)
  <2>1. \A x \in invalidEventGrantMutations : <<Start.op, x>> \notin s.forgets
    BY EventClaimsFinite DEF EventSound
  <2> QED
    BY <2>1, EventClaimsFinite, StartAndResult, RejectionsClear DEF EventSound
<1> QED
  BY <1>1, <1>2, <1>3, <1>4

\* What comes too late, and executions that end before they start.
LEMMA EventClosingClears ==
  ASSUME NEW s, EventSound(s), NEW z
  PROVE  Clears(s, Ended(z) \X Memory,
                <<Call("main", Aborted("failed", "late-failure"), {"invalidTransition"}),
                  Call("main", Aborted("cancelled", "late-cancellation"), {"invalidTransition"}),
                  Call("main", EventItem("started", "late-start", {"id"}), {"invalidTransition"}),
                  Call("fresh", Aborted("cancelled", "cancel"), {"accepted"}),
                  Call("same", Start, {"invalidTransition"}),
                  Call("fresh", Aborted("failed", "failure"), {"accepted"})>>,
                Memory \X Memory)
<1> DEFINE failure == Aborted("failed", "late-failure")
           cancellation == Aborted("cancelled", "late-cancellation")
           start == EventItem("started", "late-start", {"id"})
           cancelled == Aborted("cancelled", "cancel")
           failed == Aborted("failed", "failure")
           a == Call("main", failure, {"invalidTransition"})
           b == Call("main", cancellation, {"invalidTransition"})
           c == Call("main", start, {"invalidTransition"})
           d == Call("fresh", cancelled, {"accepted"})
           e == Call("same", Start, {"invalidTransition"})
           f == Call("fresh", failed, {"accepted"})
           M == Knows({"cancel"}, {Record(d)}, {"ended"}, {"ended"})
<1>0. {"accepted"} \in SUBSET Answer /\ {"invalidTransition"} \in SUBSET Answer
  BY DEF Answer, Refusal
<1>1. /\ {"kind"} \in SUBSET Word /\ {"id"} \in SUBSET Word
      /\ {"kind"} \cap Identified = {} /\ {"id"} \cap Identified = {}
  BY DEF Word, ResultParts, StartParts, Identified, eventIdentity, resultRequestBinding
<1>2. /\ "failed" \in Kind /\ "cancelled" \in Kind /\ "started" \in Kind
      /\ "late-failure" \in Word /\ "late-cancellation" \in Word /\ "late-start" \in Word
      /\ "cancel" \in Word /\ "failure" \in Word
  BY DEF Kind, Word
<1>3. ASSUME NEW kind \in Kind, NEW command \in Word, NEW changed \in SUBSET Word, changed \cap Identified = {}
      PROVE  LET item == EventItem(kind, command, changed)
             IN  /\ item \in Item /\ item.command = command /\ item.outside = "nothing"
                 /\ item.success = "accepted" /\ "ended" \in item.bars
                 /\ item.op \in {"contest-started-event", "contest-result-event"}
                 /\ kind \in {"failed", "cancelled"} => item.needs = {} /\ item.bars = {"ended"} /\ item.gives = {"ended"}
  BY <1>3, EventItems
<1>4. /\ failure \in Item /\ failure.command = "late-failure" /\ failure.outside = "nothing" /\ "ended" \in failure.bars
      /\ cancellation \in Item /\ cancellation.command = "late-cancellation"
      /\ cancellation.outside = "nothing" /\ "ended" \in cancellation.bars
      /\ {failure.op, cancellation.op} \subseteq {"contest-started-event", "contest-result-event"}
  BY <1>1, <1>2, <1>3 DEF Aborted
<1>5. start \in Item /\ start.command = "late-start" /\ start.outside = "nothing" /\ "ended" \in start.bars
      /\ start.op \in {"contest-started-event", "contest-result-event"}
  BY <1>1, <1>2, <1>3
<1>6. /\ cancelled \in Item /\ cancelled.command = "cancel" /\ cancelled.outside = "nothing"
      /\ cancelled.success = "accepted" /\ cancelled.needs = {} /\ cancelled.gives = {"ended"}
      /\ failed \in Item /\ failed.command = "failure" /\ failed.outside = "nothing"
      /\ failed.success = "accepted" /\ failed.needs = {} /\ failed.gives = {"ended"}
  BY <1>1, <1>2, <1>3 DEF Aborted
<1> HIDE DEF failure, cancellation, start, cancelled, failed
<1>7. /\ Asks(a, "main", failure, {}, {"invalidTransition"})
      /\ Asks(b, "main", cancellation, {}, {"invalidTransition"})
      /\ Asks(c, "main", start, {}, {"invalidTransition"})
      /\ Asks(d, "fresh", cancelled, {}, {"accepted"}) /\ Asks(f, "fresh", failed, {}, {"accepted"})
      /\ Asks(e, "same", Start, {}, {"invalidTransition"})
  BY <1>0, <1>4, <1>5, <1>6, StartAndResult, CallAsks
<1> HIDE DEF a, b, c, d, e, f
<1>8. ASSUME NEW x, NEW item, Asks(x, "main", item, {}, {"invalidTransition"}), item.outside = "nothing",
             "ended" \in item.bars, item.command \notin {"start", "result"},
             item.op \in {"contest-started-event", "contest-result-event"}
      PROVE  Serves(s, x, Ended(z), Ended(z))
  <2>1. item.command \notin {"start"} \cup {"result"} /\ TooSoon(item, {"started"} \cup {"ended"}, {"started"} \cup {"ended"})
    BY <1>8 DEF TooSoon
  <2>2. Upright(s) /\ Asking(item.op) \in Range(s.gates)
    BY <1>8, AskingEvents DEF EventSound
  <2>3. \A C, K, F, G : item.command \notin C /\ TooSoon(item, F, G) => Serves(s, x, Knows(C, K, F, G), Knows(C, K, F, G))
    BY <1>8, <2>2, ItemUntimely
  <2> QED
    BY <2>1, <2>3 DEF Ended
<1>9. Serves(s, a, Ended(z), Ended(z)) /\ Serves(s, b, Ended(z), Ended(z)) /\ Serves(s, c, Ended(z), Ended(z))
  BY <1>4, <1>5, <1>7, <1>8
<1>10. Serves(s, d, Knows({}, {}, {}, {}), M)
  <2>1. Serves(s, d, Knows({}, {}, {}, {}), Knows({cancelled.command}, {Record(d)}, cancelled.gives, cancelled.gives))
    <3> HIDE DEF M
    <3> QED
      BY <1>6, <1>7, AcceptedAnew DEF EventSound
  <2> QED
    BY <1>6, <2>1
<1>11. Serves(s, e, M, M)
  <2>1. Start.command \notin {"cancel"} /\ TooSoon(Start, {"ended"}, {"ended"})
    BY StartAndResult DEF TooSoon
  <2>2. Upright(s) /\ Asking(Start.op) \in Range(s.gates)
    BY StartAndResult DEF EventSound
  <2> QED
    BY <1>7, <2>1, <2>2, StartAndResult, ItemUntimely
<1>12. Serves(s, f, Knows({}, {}, {}, {}), Knows({"failure"}, {Record(f)}, {"ended"}, {"ended"}))
  <2>1. Serves(s, f, Knows({}, {}, {}, {}), Knows({failed.command}, {Record(f)}, failed.gives, failed.gives))
    BY <1>6, <1>7, AcceptedAnew DEF EventSound
  <2> QED
    BY <1>6, <2>1
<1>13. Serves(s, d, {Empty}, M) /\ Serves(s, f, {Empty}, Knows({"failure"}, {Record(f)}, {"ended"}, {"ended"}))
  BY <1>10, <1>12, FromEmpty
<1>14. M \in SUBSET Memory /\ Knows({"failure"}, {Record(f)}, {"ended"}, {"ended"}) \in SUBSET Memory
  BY KnowsMemory
<1> HIDE DEF M
<1>15. Clears(s, Ended(z) \X Memory, <<a, b, c>>, Ended(z) \X Memory)
  BY <1>7, <1>9, LifecycleMemory, MainTriple DEF Asks
<1>16. Clears(s, Ended(z) \X Memory, <<d, e>>, Ended(z) \X Memory)
  <2>1. Clears(s, Ended(z) \X Memory, <<d, e>>, Ended(z) \X M)
    BY <1>7, <1>11, <1>13, <1>14, LifecycleMemory, FreshPair DEF Asks
  <2> QED
    BY <1>14, <2>1, LifecycleMemory, Forget
<1>17. Clears(s, Ended(z) \X Memory, <<f>>, Ended(z) \X Memory)
  <2>1. Clears(s, Ended(z) \X Memory, <<f>>, Ended(z) \X Knows({"failure"}, {Record(f)}, {"ended"}, {"ended"}))
    BY <1>7, <1>13, <1>14, LifecycleMemory, FreshClears DEF Asks
  <2> QED
    BY <1>14, <2>1, LifecycleMemory, Forget
<1>18. <<a, b, c>> \o (<<d, e>> \o <<f>>) = <<a, b, c, d, e, f>>
  <2>1. <<d, e>> \o <<f>> = <<d, e, f>>
    BY Triple, Zenon
  <2>2. <<a, b, c>> \o <<d, e, f>> = <<a, b, c, d, e, f>>
    BY Six, SMT
  <2> QED
    BY <2>1, <2>2, Zenon
<1>19. Clears(s, Ended(z) \X Memory, <<a, b, c>> \o (<<d, e>> \o <<f>>), Ended(z) \X Memory)
  BY <1>15, <1>16, <1>17, ClearsBoth
<1>20. Clears(s, Ended(z) \X Memory, <<a, b, c, d, e, f>>, Memory \X Memory)
  <2>1. Ended(z) \X Memory \subseteq Memory \X Memory
    BY LifecycleMemory
  <2>2. Clears(s, Ended(z) \X Memory, <<a, b, c, d, e, f>>, Ended(z) \X Memory)
    BY <1>18, <1>19, Zenon
  <2> QED
    BY <2>1, <2>2, ClearsWider
<1> QED
  BY <1>20, Zenon DEF a, b, c, d, e, f, failure, cancellation, start, cancelled, failed

\* CheckExecutionEventSink, for either kind of contest.
LEMMA CheckExecutionEventSinkClears ==
  ASSUME NEW s, EventSound(s), NEW profile, NEW order
  PROVE  Clears(s, Knows({}, {}, {}, {}) \X Memory, CheckExecutionEventSink(profile, order), Memory \X Memory)
<1> DEFINE E == Knows({}, {}, {}, {})
           first == [First(Start) EXCEPT !.ends = Answer \ {"accepted"}]
           opening == <<Call("fresh", Result, {"invalidTransition"}), Call("same", Start, {"accepted"}),
                        Call("same", Result, {"accepted"}),
                        first,
                        [Call("main", Start, {"replayed"}) EXCEPT !.token = "first"],
                        Call("main", Start, {"replayed"})>>
           starts == Populated(order, Start, invalidEventGrantMutations, "contest-result-event", {"replayed"})
           changedStarts == Each(order, [part \in StartParts |-> ChangedStart(part)])
           rejections == Rejections(order, Start, invalidEventGrantMutations)
           d == Call("main", Result, {"accepted"})
           results == Populated(order, Result, invalidEventGrantMutations, "contest-started-event", {"replayed"})
           e == Call("main", Result, {"replayed"})
           changedResults == Each(order, [part \in resultEventPayloadMutations(profile) |-> ChangedResult(part)])
           misfits == Each(order, [part \in {"placementEntry", IF profile = "provider-executed"
                                             THEN "artifacts" ELSE "profileEvidence"} |-> Misfit(part)])
           closing == <<Call("main", Aborted("failed", "late-failure"), {"invalidTransition"}),
                        Call("main", Aborted("cancelled", "late-cancellation"), {"invalidTransition"}),
                        Call("main", EventItem("started", "late-start", {"id"}), {"invalidTransition"}),
                        Call("fresh", Aborted("cancelled", "cancel"), {"accepted"}),
                        Call("same", Start, {"invalidTransition"}),
                        Call("fresh", Aborted("failed", "failure"), {"accepted"})>>
<1>1. /\ Asks(d, "main", Result, {}, {"accepted"}) /\ Asks(e, "main", Result, {}, {"replayed"})
  BY EventCalls
<1>2. Asks(first, "main", Start, {}, {"accepted"})
  BY StartAndResult, FirstAsks
<1>3. Clears(s, E \X Memory, opening, Started(first) \X Memory)
  BY EventOpeningClears, Zenon
<1>4. Clears(s, Ended(d) \X Memory, closing, Memory \X Memory)
  BY EventClosingClears, Zenon
<1>5. /\ \A A \in SUBSET Memory : Clears(s, A \X Memory, changedStarts, A \X Memory)
      /\ \A A \in SUBSET Memory : Clears(s, A \X Memory, rejections, A \X Memory)
      /\ \A A \in SUBSET Memory : Clears(s, A \X Memory, changedResults, A \X Memory)
      /\ \A A \in SUBSET Memory : Clears(s, A \X Memory, misfits, A \X Memory)
  BY EventBlocksClear, Zenon
<1>6. CheckExecutionEventSink(profile, order) =
        opening \o starts \o changedStarts \o rejections \o <<d>> \o results \o <<e>>
        \o changedResults \o misfits \o closing
  BY Zenon DEF CheckExecutionEventSink
<1> HIDE DEF first, opening, starts, changedStarts, rejections, d, results, e, changedResults, misfits, closing
<1>7. Clears(s, Started(first) \X Memory, starts, Started(first) \X Memory)
  BY <1>2, EventsKnownClear DEF starts
<1>8. Clears(s, Ended(d) \X Memory, results, Ended(d) \X Memory)
  BY <1>1, EventsKnownClear DEF results
<1>9. Serves(s, d, Started(first), Ended(d)) /\ Serves(s, e, Ended(d), Ended(d))
  BY <1>1, <1>2, Lifecycle
<1>10. /\ Clears(s, Started(first) \X Memory, <<d>>, Ended(d) \X Memory)
       /\ Clears(s, Ended(d) \X Memory, <<e>>, Ended(d) \X Memory)
  BY <1>1, <1>9, LifecycleMemory, MainClears DEF Asks
<1> DEFINE S == Started(first)
           N == Ended(d)
<1>11. S \in SUBSET Memory /\ N \in SUBSET Memory
  BY LifecycleMemory
<1> HIDE DEF E, S, N
<1>12. /\ Clears(s, E \X Memory, opening, S \X Memory)
       /\ Clears(s, S \X Memory, starts, S \X Memory)
       /\ Clears(s, S \X Memory, changedStarts, S \X Memory)
       /\ Clears(s, S \X Memory, rejections, S \X Memory)
       /\ Clears(s, S \X Memory, <<d>>, N \X Memory)
       /\ Clears(s, N \X Memory, results, N \X Memory)
       /\ Clears(s, N \X Memory, <<e>>, N \X Memory)
       /\ Clears(s, N \X Memory, changedResults, N \X Memory)
       /\ Clears(s, N \X Memory, misfits, N \X Memory)
       /\ Clears(s, N \X Memory, closing, Memory \X Memory)
  BY <1>3, <1>4, <1>5, <1>7, <1>8, <1>10, <1>11, Zenon DEF S, N
<1>13. Clears(s, E \X Memory, opening \o starts \o changedStarts \o rejections \o <<d>>, N \X Memory)
  <2>1. Clears(s, E \X Memory, opening \o starts, S \X Memory)
    BY <1>12, ClearsBoth
  <2>2. Clears(s, E \X Memory, opening \o starts \o changedStarts, S \X Memory)
    BY <1>12, <2>1, ClearsBoth
  <2>3. Clears(s, E \X Memory, opening \o starts \o changedStarts \o rejections, S \X Memory)
    BY <1>12, <2>2, ClearsBoth
  <2> QED
    BY <1>12, <2>3, ClearsBoth
<1>14. Clears(s, E \X Memory, opening \o starts \o changedStarts \o rejections \o <<d>> \o results \o <<e>>, N \X Memory)
  <2>1. Clears(s, E \X Memory, opening \o starts \o changedStarts \o rejections \o <<d>> \o results, N \X Memory)
    BY <1>12, <1>13, ClearsBoth
  <2> QED
    BY <1>12, <2>1, ClearsBoth
<1> DEFINE before == opening \o starts \o changedStarts \o rejections \o <<d>> \o results \o <<e>>
<1> HIDE DEF before
<1>15. Clears(s, E \X Memory, before \o changedResults \o misfits, N \X Memory)
  <2>1. Clears(s, E \X Memory, before \o changedResults, N \X Memory)
    BY <1>12, <1>14, ClearsBoth DEF before
  <2> QED
    BY <1>12, <2>1, ClearsBoth
<1>16. Clears(s, E \X Memory, before \o changedResults \o misfits \o closing, Memory \X Memory)
  BY <1>12, <1>15, ClearsBoth
<1> QED
  BY <1>6, <1>16 DEF E, before

-----------------------------------------------------------------------------
\* The source suite.

\* What the suite for source providers relies on.
SourceSound(s) ==
  /\ Upright(s) /\ {"authority", "body", "ledger", "references", "order"} \subseteq Range(s.gates)
  /\ \A g : ~Before(s, "policy", g)
  /\ ~Before(s, "ledger", "authority") /\ ~Before(s, "ledger", "body") /\ ~Before(s, "order", "ledger")
  /\ \A op, c : <<op, c>> \in s.forgets => c = "competitionID"
  /\ s.overlooks = {}

\* A source provider whose flaws are untested is sound.
LEMMA SourceServices ==
  ASSUME NEW s, s.gates \in Seq(Gates("source")), Flaws("source", s) \subseteq Untested("source")
  PROVE  SourceSound(s)
<1> DEFINE name == "source"
<1>1. /\ \A g \in Gates(name) : g \in Range(s.gates) \/ <<"lacks", g>> \in Untested(name)
      /\ \A p \in Precedence(name) : ~Before(s, p[2], p[1]) \/ <<"inverts", p[1], p[2]>> \in Untested(name)
      /\ \A c \in s.forgets : <<"forgets", c[1], c[2]>> \in Untested(name)
      /\ \A part \in s.overlooks : <<"overlooks", part>> \in Untested(name)
      /\ s.habit = "proper" \/ <<"habit", s.habit>> \in Untested(name)
  BY Harmless
<1>0. name \in EventSuites \cup {"source"} /\ name \notin LaunchSuites /\ name \notin EventSuites
      /\ name = "source"
  BY DEF LaunchSuites, EventSuites
<1>4. \A x \in Untested(name) :
        \/ x = <<"habit", "lastOnly">>
        \/ \E p \in SourcePurpose : x = <<"forgets", p, "competitionID">>
  <2>1. Untested(name) = {<<"habit", "lastOnly">>} \cup
         {<<"forgets", p, "competitionID">> : p \in SourcePurpose}
    BY UntestedByName
  <2> QED
    BY <2>1
<1> HIDE DEF name
<1>2. Gates(name) = {"authority", "body", "ledger", "references", "order"}
  BY <1>0, Zenon DEF Gates
<1>3. Precedence(name) = {<<"authority", "ledger">>, <<"body", "ledger">>, <<"ledger", "order">>}
  BY <1>0, Zenon DEF Precedence
<1>5. s.habit \in {"proper", "lastOnly"} /\ Upright(s)
  <2>1. <<"habit", s.habit>> \in Untested(name) => s.habit = "lastOnly"
    BY <1>4
  <2>2. s.gates \in Seq(Gates(name))
    BY <1>0
  <2> QED
    BY <1>1, <1>2, <2>1, <2>2 DEF Upright, Gate
<1>6. {"authority", "body", "ledger", "references", "order"} \subseteq Range(s.gates)
  <2>1. \A g : <<"lacks", g>> \notin Untested(name)
    BY <1>4
  <2> QED
    BY <1>1, <1>2, <2>1
<1>7. ~Before(s, "ledger", "authority") /\ ~Before(s, "ledger", "body") /\ ~Before(s, "order", "ledger")
  <2>1. \A a, b : <<"inverts", a, b>> \notin Untested(name)
    BY <1>4
  <2>2. \A p \in Precedence(name) : ~Before(s, p[2], p[1])
    BY <1>1, <2>1
  <2> QED
    BY <1>3, <2>2
<1>9. \A op, c : <<op, c>> \in s.forgets => c = "competitionID"
  <2> SUFFICES ASSUME NEW op, NEW c, <<op, c>> \in s.forgets PROVE c = "competitionID"
    OBVIOUS
  <2>1. <<"forgets", op, c>> \in Untested(name)
    BY <1>1
  <2> QED
    BY <1>4, <2>1
<1>10. s.overlooks = {}
  <2>1. \A part : <<"overlooks", part>> \notin Untested(name)
    BY <1>4
  <2> QED
    BY <1>1, <2>1
<1>11. \A g : ~Before(s, "policy", g)
  <2>1. s.gates \in Seq({"authority", "body", "ledger", "references", "order"})
    BY <1>0, <1>2
  <2> QED
    BY <2>1 DEF Before
<1> QED
  BY <1>5, <1>6, <1>7, <1>9, <1>10, <1>11 DEF SourceSound

\* The claims the source suite changes are finitely many words.
LEMMA SourceClaimsFinite ==
  \A p \in SourcePurpose :
    /\ IsFiniteSet(sourceReplayGrantMutations(p)) /\ sourceReplayGrantMutations(p) \subseteq Word
    /\ \A c \in sourceReplayGrantMutations(p) \cup {"purpose"} : c # "competitionID"
<1> SUFFICES ASSUME NEW p \in SourcePurpose
             PROVE  /\ IsFiniteSet(sourceReplayGrantMutations(p)) /\ sourceReplayGrantMutations(p) \subseteq Word
                    /\ \A c \in sourceReplayGrantMutations(p) \cup {"purpose"} : c # "competitionID"
  OBVIOUS
<1> DEFINE common == Envelope \cup {"providerID", "adapterID", "commandID", "typedPayloadDigest",
                 "transportContentType", "rawTransportDigest", "method", "resource",
                 "participantID", "participantVersionID"}
           plan == {"repositoryNodeID", "commitOID", "manifestPath", "manifestEntryKind",
                    "rawManifestBytesDigest", "manifestByteLimit"}
           retain == {"repositoryNodeID", "commitOID", "closurePlanID", "closurePlanDigest",
                      "candidateTransferredBytesDigest", "aggregateByteLimit"}
           disclose == {"repositoryNodeID", "commitOID", "closurePlanID", "closurePlanDigest",
                        "publicCandidateTransferredBytesDigest", "aggregateByteLimit",
                        "retentionReceiptID", "artifactDigest"}
           publish == {"retentionReceiptID", "artifactDigest", "disclosureReceiptID", "disclosureRequestDigest"}
<1>1. \/ sourceReplayGrantMutations(p) = common \cup plan
      \/ sourceReplayGrantMutations(p) = common \cup retain
      \/ sourceReplayGrantMutations(p) = common \cup disclose
      \/ sourceReplayGrantMutations(p) = common \cup publish
  <2>1. \/ p = "manifest-closure-plan" \/ p = "candidate-closure-validate-retain"
        \/ p = "artifact-disclosure-verify" \/ p = "artifact-publish"
    BY DEF SourcePurpose
  <2> QED
    BY <2>1, Zenon DEF sourceReplayGrantMutations
<1>2. common \cup plan \cup retain \cup disclose \cup publish \subseteq Envelope \cup Field
  BY DEF Field, Identity, Route, Participant, Repository, Manifest, Closure, Candidate, Public, Artifact,
         Disclosure
<1>3. "competitionID" \notin common \cup plan \cup retain \cup disclose \cup publish
  BY DEF Envelope
<1> HIDE DEF common, plan, retain, disclose, publish
<1>4. /\ sourceReplayGrantMutations(p) \subseteq Envelope \cup Field
      /\ "competitionID" \notin sourceReplayGrantMutations(p)
  BY <1>1, <1>2, <1>3
<1>5. IsFiniteSet(Envelope \cup Field)
  BY EnvelopeFinite, FieldFinite, FS_Union
<1> QED
  BY <1>4, <1>5, EnvelopeFinite, FieldFinite, FS_Subset

\* An item of the source suite: an accepted command is a fact.
Sourced(i, op, command, body, outside, needs, success) ==
  /\ i \in Item /\ i.op = op /\ i.command = command /\ i.body = body /\ i.outside = outside
  /\ i.needs = needs /\ i.bars = {} /\ i.gives = {command} /\ i.success = success

\* What the source suite asks for ...
LEMMA SourceItems ==
  ASSUME NEW command \in Word, NEW changed \in SUBSET Word, NEW plan \in Word, NEW candidate \in Word
  PROVE  /\ Sourced(Plan(command, changed), "manifest-closure-plan", command, changed, "nothing", {}, "accepted")
         /\ Sourced(Retain(command, changed, plan), "candidate-closure-validate-retain", command, changed,
                    "nothing", {plan}, "accepted")
         /\ \A success \in {"accepted", "mismatched"} : (success = "mismatched" <=> "files" \in changed) =>
              Sourced(Disclose(command, changed, plan, candidate), "artifact-disclosure-verify", command, changed,
                      "nothing", {plan, candidate}, success)
         /\ Sourced(Publish(command, changed, plan), "artifact-publish", command, changed, "nothing",
                    {plan}, "accepted")
         /\ Sourced(Publish(command, changed, "other-version"), "artifact-publish", command, changed, "nothing",
                    {"other-version"}, "accepted")
<1>1. "nothing" \in Word /\ Purpose \subseteq Word /\ "manifest-closure-plan" \in Purpose
      /\ "candidate-closure-validate-retain" \in Purpose /\ "artifact-disclosure-verify" \in Purpose
      /\ "artifact-publish" \in Purpose
  BY DEF Word, Purpose
<1>2. ASSUME NEW op \in Purpose, NEW needs \in SUBSET Need
      PROVE  Sourced(SourceItem(op, command, changed, needs), op, command, changed, "nothing", needs, "accepted")
  BY <1>1, <1>2 DEF SourceItem, Sourced, Item
<1>3. /\ {} \in SUBSET Need /\ {plan} \in SUBSET Need /\ {plan, candidate} \in SUBSET Need
      /\ {"other-version"} \in SUBSET Need
  BY DEF Need
<1>4. ASSUME NEW i, NEW op, NEW needs, NEW success \in {"accepted", "mismatched"},
             Sourced(i, op, command, changed, "nothing", needs, "accepted")
      PROVE  Sourced([i EXCEPT !.success = success], op, command, changed, "nothing", needs, success)
  BY <1>4 DEF Sourced, Item
<1>5. ASSUME NEW success \in {"accepted", "mismatched"}, success = "mismatched" <=> "files" \in changed
      PROVE  Sourced(Disclose(command, changed, plan, candidate), "artifact-disclosure-verify", command, changed,
                     "nothing", {plan, candidate}, success)
  <2> DEFINE i == SourceItem("artifact-disclosure-verify", command, changed, {plan, candidate})
  <2>1. success = IF "files" \in changed THEN "mismatched" ELSE "accepted"
    BY <1>5
  <2>2. Disclose(command, changed, plan, candidate) = [i EXCEPT !.success = success]
    BY <2>1, Zenon DEF Disclose
  <2>3. Sourced(i, "artifact-disclosure-verify", command, changed, "nothing", {plan, candidate}, "accepted")
    <3> DEFINE op == "artifact-disclosure-verify"
               needs == {plan, candidate}
    <3>1. op \in Purpose /\ needs \in SUBSET Need
      BY <1>1, <1>3
    <3> HIDE DEF op, needs
    <3>2. Sourced(SourceItem(op, command, changed, needs), op, command, changed, "nothing", needs, "accepted")
      BY <1>2, <3>1
    <3> QED
      BY <3>2 DEF op, needs
  <2> HIDE DEF i
  <2>4. Sourced([i EXCEPT !.success = success], "artifact-disclosure-verify", command, changed, "nothing",
                {plan, candidate}, success)
    <3> DEFINE op == "artifact-disclosure-verify"
               needs == {plan, candidate}
    <3>1. Sourced(i, op, command, changed, "nothing", needs, "accepted")
      BY <2>3
    <3> HIDE DEF op, needs
    <3>2. Sourced([i EXCEPT !.success = success], op, command, changed, "nothing", needs, success)
      BY <1>4, <1>5, <3>1, Zenon
    <3> QED
      BY <3>2 DEF op, needs
  <2> QED
    BY <2>2, <2>4, Zenon
<1>6. Sourced(Plan(command, changed), "manifest-closure-plan", command, changed, "nothing", {}, "accepted")
  BY <1>1, <1>2, <1>3 DEF Plan
<1>7. Sourced(Retain(command, changed, plan), "candidate-closure-validate-retain", command, changed,
              "nothing", {plan}, "accepted")
  BY <1>1, <1>2, <1>3 DEF Retain
<1>8. Sourced(Publish(command, changed, plan), "artifact-publish", command, changed, "nothing", {plan}, "accepted")
  BY <1>1, <1>2, <1>3 DEF Publish
<1>9. Sourced(Publish(command, changed, "other-version"), "artifact-publish", command, changed, "nothing",
              {"other-version"}, "accepted")
  BY <1>1, <1>2, <1>3 DEF Publish
<1> QED
  BY <1>5, <1>6, <1>7, <1>8, <1>9

\* ... and the same with a body that does not fit.
LEMMA OutsideItems ==
  ASSUME NEW i, NEW op, NEW command, NEW body, NEW needs, NEW success,
         Sourced(i, op, command, body, "nothing", needs, success)
  PROVE  Sourced(Outside(i), op, command, body, "body", needs, success)
<1>1. "body" \in Word
  BY DEF Word
<1> QED
  BY <1>1 DEF Outside, Sourced, Item

\* What a sound source provider makes of a call: accepted when new, ...
LEMMA SourceAccepts ==
  ASSUME NEW s, SourceSound(s), NEW c, NEW on, NEW i, NEW right, Asks(c, on, i, {}, right),
         NEW op, NEW command, NEW body, NEW needs,
         Sourced(i, op, command, body, "nothing", needs, "accepted"), "accepted" \in right,
         NEW C, NEW K, NEW F, NEW G, needs \subseteq F, command \notin C
  PROVE  Serves(s, c, Knows(C, K, F, G),
                Knows(C \cup {command}, {Record(c)}, F \cup {command}, G \cup {command}))
<1>1. InTime(i, F, G) /\ i.command \notin C
  BY DEF InTime, Sourced
<1>2. Serves(s, c, Knows(C, K, F, G),
             Knows(C \cup {i.command}, {Record(c)}, F \cup i.gives, G \cup i.gives))
  BY <1>1, AcceptedNext DEF SourceSound, Sourced
<1> QED
  BY <1>2 DEF Sourced

\* ... replayed when known, ...
LEMMA SourceReplays ==
  ASSUME NEW s, SourceSound(s), NEW c, NEW on, NEW i, NEW right, Asks(c, on, i, {}, right),
         NEW op, NEW command, NEW body, NEW needs, NEW success,
         Sourced(i, op, command, body, "nothing", needs, success), "replayed" \in right,
         NEW C, NEW K, NEW F, NEW G, needs \subseteq F,
         NEW r \in K, r.command = command, r.op = op, r.body = body
  PROVE  Serves(s, c, Knows(C, K, F, G), Knows(C, K, F, G))
<1>1. InTime(i, F, G) /\ i.outside # "body" /\ r.command = i.command /\ r.op = i.op /\ r.body = i.body
  BY DEF InTime, Sourced
<1>2. Upright(s) /\ "ledger" \in Range(s.gates) /\ ~Before(s, "policy", "ledger")
  BY DEF SourceSound
<1> QED
  BY <1>1, <1>2, ItemReplayed

\* ... in conflict under a command known for something else, ...
LEMMA SourceConflicts ==
  ASSUME NEW s, SourceSound(s), NEW c, NEW on, NEW i, NEW right, Asks(c, on, i, {}, right),
         NEW op, NEW command, NEW body, NEW needs, NEW success,
         Sourced(i, op, command, body, "nothing", needs, success), "commandConflict" \in right,
         NEW C, NEW K, NEW F, NEW G,
         needs \subseteq F \/ ~Before(s, Asking(op), "ledger"),
         NEW r \in K, r.command = command, r.op # op \/ r.body # body
  PROVE  Serves(s, c, Knows(C, K, F, G), Knows(C, K, F, G))
<1>1. /\ InTime(i, F, G) \/ ~Before(s, Asking(i.op), "ledger")
      /\ i.outside # "body" /\ r.command = i.command
  BY DEF InTime, Sourced
<1>2. Upright(s) /\ "ledger" \in Range(s.gates) /\ ~Before(s, "policy", "ledger")
  BY DEF SourceSound
<1>3. r.op # i.op \/ r.body \ s.overlooks # i.body \ s.overlooks
  <2>1. \A X : X \ s.overlooks = X
    BY DEF SourceSound
  <2> QED
    BY <2>1 DEF Sourced
<1> QED
  BY <1>1, <1>2, <1>3, ItemConflicts

\* ... refused for its body, ...
LEMMA SourceUnfit ==
  ASSUME NEW s, SourceSound(s), NEW c, NEW on, NEW i, Asks(c, on, i, {}, Refusal),
         NEW op, NEW command, NEW body, NEW needs, NEW success,
         Sourced(i, op, command, body, "body", needs, success),
         NEW C, NEW K, NEW F, NEW G, needs \subseteq F
  PROVE  Serves(s, c, Knows(C, K, F, G), Knows(C, K, F, G))
<1>1. InTime(i, F, G) /\ i.outside = "body" /\ "invalidGrant" \in Refusal
  BY DEF InTime, Sourced, Refusal
<1>2. Upright(s) /\ "body" \in Range(s.gates) /\ ~Before(s, "ledger", "body")
  BY DEF SourceSound
<1> QED
  BY <1>1, <1>2, ItemUnfit

\* ... refused out of turn.
LEMMA SourceUntimely ==
  ASSUME NEW s, SourceSound(s), NEW c, NEW on, NEW i, Asks(c, on, i, {}, Refusal),
         NEW op, NEW command, NEW body, NEW needs, NEW success,
         Sourced(i, op, command, body, "nothing", needs, success),
         NEW C, NEW K, NEW F, NEW G, command \notin C, ~(needs \subseteq G)
  PROVE  Serves(s, c, Knows(C, K, F, G), Knows(C, K, F, G))
<1>1. TooSoon(i, F, G) /\ i.outside = "nothing" /\ i.command \notin C /\ "invalidTransition" \in Refusal
  BY DEF TooSoon, Sourced, Refusal
<1>2. Upright(s) /\ Asking(i.op) \in Range(s.gates)
  BY AskingGates DEF SourceSound
<1> QED
  BY <1>1, <1>2, ItemUntimely

\* A known source command is replayed whatever wrong grants come in between.
LEMMA SourcePopulated ==
  ASSUME NEW s, SourceSound(s), NEW order, NEW i, NEW op \in SourcePurpose, NEW command, NEW body, NEW needs,
         Sourced(i, op, command, body, "nothing", needs, "accepted"),
         NEW claims, claims = sourceReplayGrantMutations(i.op), NEW foreign \in Purpose,
         NEW replayed \in SUBSET Answer, "replayed" \in replayed,
         NEW C, NEW K, NEW F, NEW G, needs \subseteq F,
         NEW r \in K, r.command = command, r.op = op, r.body = body
  PROVE  Clears(s, Knows(C, K, F, G) \X Memory, Populated(order, i, claims, foreign, replayed),
                Knows(C, K, F, G) \X Memory)
<1>1. InTime(i, F, G) /\ i.op = op /\ r.command = i.command /\ r.op = i.op /\ r.body = i.body
      /\ i \in Item /\ i.outside = "nothing"
  BY DEF InTime, Sourced
<1>2. Upright(s) /\ "ledger" \in Range(s.gates) /\ ~Before(s, "policy", "ledger")
      /\ "authority" \in Range(s.gates) /\ ~Before(s, "ledger", "authority")
  BY DEF SourceSound
<1>3. claims \in SUBSET Word /\ IsFiniteSet(claims)
      /\ \A c \in claims \cup {"purpose"} : <<i.op, c>> \notin s.forgets
  BY <1>1, SourceClaimsFinite DEF SourceSound
<1>4. op \in Purpose
  BY DEF SourcePurpose, Purpose
<1> QED
  BY <1>1, <1>2, <1>3, <1>4, PopulatedClears

\* Five calls to the main service.
LEMMA MainFive ==
  ASSUME NEW s, NEW A \in SUBSET Memory, NEW B \in SUBSET Memory, NEW D \in SUBSET Memory,
         NEW a \in CallType, NEW b \in CallType, NEW c \in CallType, NEW d \in CallType, NEW e \in CallType,
         a.on = "main", b.on = "main", c.on = "main", d.on = "main", e.on = "main",
         Serves(s, a, A, A), Serves(s, b, A, B), Serves(s, c, B, B), Serves(s, d, B, D), Serves(s, e, D, D)
  PROVE  Clears(s, A \X Memory, <<a, b, c, d, e>>, D \X Memory)
<1>1. Clears(s, A \X Memory, <<a, b, c>>, B \X Memory)
  BY MainTriple
<1>2. Clears(s, A \X Memory, <<a, b, c>> \o <<d>>, D \X Memory)
  BY <1>1, ThenMain
<1>3. Clears(s, A \X Memory, <<a, b, c, d>>, D \X Memory)
  BY <1>2, Four
<1>4. Clears(s, A \X Memory, <<a, b, c, d>> \o <<e>>, D \X Memory)
  BY <1>3, ThenMain
<1> QED
  BY <1>4, Five

\* Five calls to one fresh service.
LEMMA FreshFive ==
  ASSUME NEW s, NEW A \in SUBSET Memory, NEW B \in SUBSET Memory, NEW D \in SUBSET Memory,
         NEW E \in SUBSET Memory, NEW H \in SUBSET Memory,
         NEW a \in CallType, NEW b \in CallType, NEW c \in CallType, NEW d \in CallType, NEW e \in CallType,
         a.on = "fresh", b.on = "same", c.on = "same", d.on = "same", e.on = "same",
         Serves(s, a, {Empty}, B), Serves(s, b, B, D), Serves(s, c, D, E), Serves(s, d, E, H), Serves(s, e, H, H)
  PROVE  Clears(s, A \X Memory, <<a, b, c, d, e>>, A \X H)
<1>1. Clears(s, A \X Memory, <<a, b, c, d>>, A \X H)
  BY FreshFour
<1>2. Clears(s, A \X Memory, <<a, b, c, d>> \o <<e>>, A \X H)
  BY <1>1, ThenSame
<1> QED
  BY <1>2, Five

\* The four commands that the suite leads a provider through.
LEMMA SourceFixtures ==
  /\ Sourced(Manifest0, "manifest-closure-plan", "manifest", {}, "nothing", {}, "accepted")
  /\ Sourced(Candidate0, "candidate-closure-validate-retain", "candidate", {}, "nothing", {"manifest"}, "accepted")
  /\ Sourced(Disclosure0, "artifact-disclosure-verify", "disclosure", {}, "nothing", {"manifest", "candidate"},
             "accepted")
  /\ Sourced(Publication0, "artifact-publish", "publication", {}, "nothing", {"disclosure"}, "accepted")
<1>1. /\ "manifest" \in Word /\ "candidate" \in Word /\ "disclosure" \in Word /\ "publication" \in Word
      /\ {} \in SUBSET Word /\ "files" \notin {} /\ "accepted" \in {"accepted", "mismatched"}
      /\ "accepted" # "mismatched"
  BY DEF Word
<1>2. Sourced(Manifest0, "manifest-closure-plan", "manifest", {}, "nothing", {}, "accepted")
  BY <1>1, SourceItems DEF Manifest0
<1>3. Sourced(Candidate0, "candidate-closure-validate-retain", "candidate", {}, "nothing", {"manifest"}, "accepted")
  BY <1>1, SourceItems DEF Candidate0
<1>4. Sourced(Publication0, "artifact-publish", "publication", {}, "nothing", {"disclosure"}, "accepted")
  BY <1>1, SourceItems DEF Publication0
<1>5. Sourced(Disclosure0, "artifact-disclosure-verify", "disclosure", {}, "nothing", {"manifest", "candidate"},
              "accepted")
  BY <1>1, SourceItems DEF Disclosure0
<1> QED
  BY <1>2, <1>3, <1>4, <1>5

\* After the plan, and after the retention.
Planned(a) == Knows({"manifest"}, {Record(a)}, {"manifest"}, {"manifest"})
Kept(b) == Knows({"manifest"} \cup {"candidate"}, {Record(b)}, {"manifest"} \cup {"candidate"},
                 {"manifest"} \cup {"candidate"})

\* The calls of the suite, by the items they ask for.
LEMMA SourceCalls ==
  ASSUME NEW i \in Item
  PROVE  /\ \A on \in {"main", "fresh", "same"} :
              /\ Asks(Call(on, i, Refusal), on, i, {}, Refusal)
              /\ Asks(Call(on, i, {"commandConflict"}), on, i, {}, {"commandConflict"})
              /\ Asks(Call(on, i, {"accepted"}), on, i, {}, {"accepted"})
              /\ Asks(Call(on, i, {"replayed"}), on, i, {}, {"replayed"})
              /\ Asks(Call(on, i, Matched), on, i, {}, Matched)
              /\ Asks(Call(on, i, SameMatch), on, i, {}, SameMatch)
         /\ Asks(First(i), "main", i, {}, {"accepted"})
<1>1. /\ {"accepted"} \in SUBSET Answer /\ {"replayed"} \in SUBSET Answer
      /\ {"commandConflict"} \in SUBSET Answer /\ Refusal \in SUBSET Answer
      /\ Matched \in SUBSET Answer /\ SameMatch \in SUBSET Answer
  BY DEF Answer, Refusal, Matched, SameMatch
<1>2. Asks(First(i), "main", i, {}, {"accepted"})
  BY FirstAsks
<1>3. ASSUME NEW on \in {"main", "fresh", "same"}, NEW want \in SUBSET Answer
      PROVE  Asks(Call(on, i, want), on, i, {}, want)
  BY <1>3, CallAsks
<1> QED
  BY <1>1, <1>2, <1>3

\* The plan, its replays and its conflicts.
LEMMA PlanCallsClear ==
  ASSUME NEW s, SourceSound(s), NEW order
  PROVE  Clears(s, Knows({}, {}, {}, {}) \X Memory, PlanCalls(order), Planned(First(Manifest0)) \X Memory)
<1> DEFINE E == Knows({}, {}, {}, {})
           kinds == {"symlink", "submodule"}
           block == [kind \in kinds |-> <<Call("main", Outside(Plan("manifest", {kind})), Refusal)>>]
           a == First(Manifest0)
           b == Call("main", Manifest0, {"replayed"})
           known == Populated(order, Manifest0, sourceReplayGrantMutations(Manifest0.op), Candidate0.op, {"replayed"})
           c == Call("main", Outside(Manifest0), Refusal)
           other == Plan("manifest", {"version"})
           d == Call("main", other, {"commandConflict"})
           M == Planned(a)
<1>0. E \in SUBSET Memory /\ M \in SUBSET Memory
  BY KnowsMemory DEF Planned
<1>1. /\ "manifest" \in Word /\ {"version"} \in SUBSET Word /\ {"symlink"} \in SUBSET Word
      /\ {"submodule"} \in SUBSET Word /\ "candidate" \in Word
  BY DEF Word
<1>2. Clears(s, E \X Memory, Each(order, block), E \X Memory)
  <2>1. kinds = {"symlink", "submodule", "submodule", "submodule"} /\ DOMAIN block = kinds
    OBVIOUS
  <2>2. IsFiniteSet(kinds)
    BY <2>1, FewFinite
  <2>3. ASSUME NEW kind \in kinds PROVE Clears(s, E \X Memory, block[kind], E \X Memory)
    <3> DEFINE item == Outside(Plan("manifest", {kind}))
               call == Call("main", item, Refusal)
    <3>1. Sourced(Plan("manifest", {kind}), "manifest-closure-plan", "manifest", {kind}, "nothing", {}, "accepted")
      <4>1. {kind} \in SUBSET Word
        BY <1>1
      <4> HIDE DEF kinds
      <4> QED
        BY <1>1, <4>1, SourceItems
    <3>2. Sourced(item, "manifest-closure-plan", "manifest", {kind}, "body", {}, "accepted")
      BY <3>1, OutsideItems
    <3>3. item \in Item
      BY <3>2 DEF Sourced
    <3> HIDE DEF item
    <3>4. Asks(call, "main", item, {}, Refusal)
      BY <3>3, SourceCalls
    <3> HIDE DEF call
    <3>5. Serves(s, call, E, E)
      <4>1. {} \subseteq {}
        OBVIOUS
      <4> QED
        BY <3>2, <3>4, <4>1, SourceUnfit
    <3>6. Clears(s, E \X Memory, <<call>>, E \X Memory)
      BY <1>0, <3>4, <3>5, MainClears DEF Asks
    <3> QED
      BY <3>6 DEF call, item
  <2>4. IsFiniteSet(DOMAIN block) /\ \A kind \in DOMAIN block : Clears(s, E \X Memory, block[kind], E \X Memory)
    BY <2>1, <2>2, <2>3
  <2>5. E \X Memory \subseteq State
    BY <1>0 DEF State
  <2> HIDE DEF block, kinds, E
  <2> QED
    BY <2>4, <2>5, EachClears
<1>3. /\ Sourced(Manifest0, "manifest-closure-plan", "manifest", {}, "nothing", {}, "accepted")
      /\ Candidate0.op = "candidate-closure-validate-retain" /\ Manifest0 \in Item
  BY SourceFixtures DEF Sourced
<1>4. Sourced(Outside(Manifest0), "manifest-closure-plan", "manifest", {}, "body", {}, "accepted")
  BY <1>3, OutsideItems
<1>5. Sourced(other, "manifest-closure-plan", "manifest", {"version"}, "nothing", {}, "accepted")
  BY <1>1, SourceItems
<1>6. PlanCalls(order) = Each(order, block) \o <<a, b>> \o known \o <<c, d>>
  BY Zenon DEF PlanCalls
<1> HIDE DEF other, block
<1>7. /\ Asks(a, "main", Manifest0, {}, {"accepted"}) /\ Asks(b, "main", Manifest0, {}, {"replayed"})
      /\ Asks(c, "main", Outside(Manifest0), {}, Refusal) /\ Asks(d, "main", other, {}, {"commandConflict"})
  <2>1. Outside(Manifest0) \in Item /\ other \in Item
    BY <1>4, <1>5 DEF Sourced
  <2> QED
    BY <1>3, <2>1, SourceCalls
<1>8. Record(a).op = "manifest-closure-plan" /\ Record(a).command = "manifest" /\ Record(a).body = {}
  BY <1>3, <1>7, RecordOfItem DEF Sourced
<1> HIDE DEF a, b, c, d
<1>9. Serves(s, a, E, M)
  <2>1. Serves(s, a, E, Knows({} \cup {"manifest"}, {Record(a)}, {} \cup {"manifest"}, {} \cup {"manifest"}))
    BY <1>3, <1>7, SourceAccepts
  <2>2. {} \cup {"manifest"} = {"manifest"}
    OBVIOUS
  <2> QED
    BY <2>1, <2>2 DEF Planned
<1>10. Serves(s, b, M, M)
  BY <1>3, <1>7, <1>8, SourceReplays DEF Planned
<1>11. Serves(s, c, M, M)
  BY <1>4, <1>7, SourceUnfit DEF Planned
<1>12. Serves(s, d, M, M)
  <2>1. {"version"} # {}
    OBVIOUS
  <2> QED
    BY <1>5, <1>7, <1>8, <2>1, SourceConflicts DEF Planned
<1>13. Clears(s, M \X Memory, known, M \X Memory)
  <2>1. /\ "manifest-closure-plan" \in SourcePurpose /\ Candidate0.op \in Purpose
        /\ {"replayed"} \in SUBSET Answer
    BY <1>3 DEF SourcePurpose, Purpose, Answer
  <2> QED
    BY <1>3, <1>8, <2>1, SourcePopulated DEF Planned
<1> HIDE DEF E, M, known
<1>14. Clears(s, E \X Memory, <<a, b>>, M \X Memory) /\ Clears(s, M \X Memory, <<c, d>>, M \X Memory)
  BY <1>0, <1>7, <1>9, <1>10, <1>11, <1>12, MainPair DEF Asks
<1>15. Clears(s, E \X Memory, Each(order, block) \o <<a, b>>, M \X Memory)
  BY <1>2, <1>14, ClearsBoth
<1>16. Clears(s, E \X Memory, Each(order, block) \o <<a, b>> \o known, M \X Memory)
  BY <1>13, <1>15, ClearsBoth
<1>17. Clears(s, E \X Memory, Each(order, block) \o <<a, b>> \o known \o <<c, d>>, M \X Memory)
  BY <1>14, <1>16, ClearsBoth
<1> QED
  BY <1>6, <1>17 DEF E, M, a

\* The retention, the same.
LEMMA RetentionCallsClear ==
  ASSUME NEW s, SourceSound(s), NEW order, NEW z, NEW on, NEW right, Asks(z, on, Manifest0, {}, right)
  PROVE  Clears(s, Planned(z) \X Memory, RetentionCalls(order), Kept(First(Candidate0)) \X Memory)
<1> DEFINE taken == Retain("manifest", {}, "manifest")
           a == Call("main", taken, {"commandConflict"})
           b == First(Candidate0)
           c == Call("main", Candidate0, {"replayed"})
           known == Populated(order, Candidate0, sourceReplayGrantMutations(Candidate0.op), Manifest0.op, {"replayed"})
           d == Call("main", Outside(Candidate0), Refusal)
           other == Retain("candidate", {"files"}, "manifest")
           e == Call("main", other, {"commandConflict"})
           path == Outside(Retain("wrong-path", {"path"}, "manifest"))
           f == Call("main", path, Refusal)
           link == Outside(Retain("symlink", {"kind"}, "manifest"))
           g == Call("main", link, Refusal)
           plan == Retain("wrong-plan", {"plan"}, "other-plan")
           h == Call("main", plan, Refusal)
           M == Planned(z)
           N == Kept(b)
           op == "candidate-closure-validate-retain"
           needs == {"manifest"}
<1>0. M \in SUBSET Memory /\ N \in SUBSET Memory
  BY KnowsMemory DEF Planned, Kept
<1>1. /\ "manifest" \in Word /\ "candidate" \in Word /\ "wrong-path" \in Word /\ "symlink" \in Word
      /\ "wrong-plan" \in Word /\ "other-plan" \in Word
      /\ {"files"} \in SUBSET Word /\ {"path"} \in SUBSET Word /\ {"kind"} \in SUBSET Word
      /\ {"plan"} \in SUBSET Word /\ {} \in SUBSET Word
  <2>1. "kind" \in Word
    BY DEF Word, ResultParts, StartParts
  <2> QED
    BY <2>1 DEF Word
<1>2. /\ Sourced(Candidate0, op, "candidate", {}, "nothing", needs, "accepted")
      /\ Manifest0.op = "manifest-closure-plan" /\ Candidate0 \in Item
  BY SourceFixtures DEF Sourced
<1>3. Sourced(taken, op, "manifest", {}, "nothing", needs, "accepted")
  BY <1>1, SourceItems
<1>4. Sourced(Outside(Candidate0), op, "candidate", {}, "body", needs, "accepted")
  BY <1>2, OutsideItems
<1>5. Sourced(other, op, "candidate", {"files"}, "nothing", needs, "accepted")
  BY <1>1, SourceItems
<1>6. Sourced(path, op, "wrong-path", {"path"}, "body", needs, "accepted")
  <2>1. Sourced(Retain("wrong-path", {"path"}, "manifest"), op, "wrong-path", {"path"}, "nothing", needs, "accepted")
    BY <1>1, SourceItems
  <2> QED
    BY <2>1, OutsideItems
<1>7. Sourced(link, op, "symlink", {"kind"}, "body", needs, "accepted")
  <2>1. Sourced(Retain("symlink", {"kind"}, "manifest"), op, "symlink", {"kind"}, "nothing", needs, "accepted")
    BY <1>1, SourceItems
  <2> QED
    BY <2>1, OutsideItems
<1>8. Sourced(plan, op, "wrong-plan", {"plan"}, "nothing", {"other-plan"}, "accepted")
  BY <1>1, SourceItems
<1>9. RetentionCalls(order) = <<a, b, c>> \o known \o <<d, e, f, g, h>>
  BY Zenon DEF RetentionCalls
<1> HIDE DEF taken, other, path, link, plan
<1>10. /\ Asks(a, "main", taken, {}, {"commandConflict"}) /\ Asks(b, "main", Candidate0, {}, {"accepted"})
       /\ Asks(c, "main", Candidate0, {}, {"replayed"})
       /\ Asks(d, "main", Outside(Candidate0), {}, Refusal) /\ Asks(e, "main", other, {}, {"commandConflict"})
       /\ Asks(f, "main", path, {}, Refusal) /\ Asks(g, "main", link, {}, Refusal)
       /\ Asks(h, "main", plan, {}, Refusal)
  <2>1. /\ taken \in Item /\ Outside(Candidate0) \in Item /\ other \in Item /\ path \in Item /\ link \in Item
        /\ plan \in Item
    BY <1>3, <1>4, <1>5, <1>6, <1>7, <1>8 DEF Sourced
  <2> QED
    BY <1>2, <2>1, SourceCalls
<1>11. Record(z).op = "manifest-closure-plan" /\ Record(z).command = "manifest"
  BY SourceFixtures, RecordOfItem DEF Sourced
<1>12. Record(b).op = op /\ Record(b).command = "candidate" /\ Record(b).body = {}
  BY <1>2, <1>10, RecordOfItem DEF Sourced
<1> HIDE DEF a, b, c, d, e, f, g, h
<1>13. Serves(s, a, M, M)
  <2>1. Record(z).op # op
    BY <1>11
  <2> QED
    BY <1>3, <1>10, <1>11, <2>1, SourceConflicts DEF Planned
<1>14. Serves(s, b, M, N)
  <2>1. "candidate" \notin {"manifest"} /\ {"manifest"} \subseteq {"manifest"}
    OBVIOUS
  <2> QED
    BY <1>2, <1>10, <2>1, SourceAccepts DEF Planned, Kept
<1> DEFINE F == {"manifest"} \cup {"candidate"}
<1>15. needs \subseteq F /\ ~({"other-plan"} \subseteq F) /\ "wrong-plan" \notin F
  OBVIOUS
<1> DEFINE K == {Record(b)}
<1>16. N = Knows(F, K, F, F) /\ Record(b) \in K
  BY DEF Kept
<1>24. op \in SourcePurpose
  BY DEF SourcePurpose
<1> HIDE DEF F, K, N, op, needs
<1>17. Serves(s, c, N, N)
  <2>1. ASSUME NEW r \in K, r.op = op, r.command = "candidate", r.body = {}
        PROVE  Serves(s, c, Knows(F, K, F, F), Knows(F, K, F, F))
    BY <1>2, <1>10, <1>15, <2>1, SourceReplays
  <2> QED
    BY <1>12, <1>16, <2>1
<1>18. Serves(s, d, N, N) /\ Serves(s, f, N, N) /\ Serves(s, g, N, N)
  <2>1. ASSUME NEW x, NEW i, NEW command, NEW body, Asks(x, "main", i, {}, Refusal),
               Sourced(i, op, command, body, "body", needs, "accepted")
        PROVE  Serves(s, x, N, N)
    BY <1>15, <1>16, <2>1, SourceUnfit
  <2> QED
    BY <1>4, <1>6, <1>7, <1>10, <2>1
<1>19. Serves(s, e, N, N)
  <2>1. Record(b).body # {"files"}
    BY <1>12
  <2> QED
    BY <1>5, <1>10, <1>12, <1>15, <1>16, <2>1, SourceConflicts
<1>20. Serves(s, h, N, N)
  BY <1>8, <1>10, <1>15, <1>16, SourceUntimely
<1>21. Clears(s, N \X Memory, known, N \X Memory)
  <2>1. /\ Manifest0.op \in Purpose /\ {"replayed"} \in SUBSET Answer
    BY <1>2 DEF SourcePurpose, Purpose, Answer
  <2> QED
    BY <1>2, <1>12, <1>24, <1>15, <1>16, <2>1, SourcePopulated, ZenonT(60)
<1> HIDE DEF M, known
<1>22. Clears(s, M \X Memory, <<a, b, c>>, N \X Memory)
  BY <1>0, <1>10, <1>13, <1>14, <1>17, MainTriple DEF Asks
<1>23. Clears(s, N \X Memory, <<d, e, f, g, h>>, N \X Memory)
  BY <1>0, <1>10, <1>18, <1>19, <1>20, MainFive DEF Asks
<1>25. Clears(s, M \X Memory, <<a, b, c>> \o known \o <<d, e, f, g, h>>, N \X Memory)
  BY <1>21, <1>22, <1>23, ClearsBoth
<1> QED
  BY <1>9, <1>25 DEF M, N, b

\* Between the two disclosures that are refused for their plan and accepted: either
\* of them may be known, as it was accepted.
Both  == {"manifest"} \cup {"candidate"}
Probe == {"id", "digest"}
Early == Both \cup Probe
Probed ==
  {m \in Memory : /\ \A x \in m.ledger : x.command \in Early
                  /\ \A x \in m.ledger : x.command \in Probe =>
                       x.op = "artifact-disclosure-verify" /\ x.body = {}
                  /\ Both \subseteq m.facts /\ m.facts \subseteq Early}

\* No gate but the ledger and the one that asks for its needs can stop such a call.
LEMMA SourceStops ==
  ASSUME NEW s, SourceSound(s), NEW c, NEW on, NEW i, NEW right, Asks(c, on, i, {}, right),
         NEW op, NEW command, NEW body, NEW needs, NEW success,
         Sourced(i, op, command, body, "nothing", needs, success), NEW m, NEW g \in Stopping(s, m, c)
  PROVE  g = "ledger" \/ (g = Asking(op) /\ ~(needs \subseteq m.facts))
<1>1. /\ c.op = op /\ c.off = {} /\ c.outside = "nothing" /\ c.needs = needs /\ c.bars = {}
  BY DEF Asks, Sourced
<1>2. g \in Gate /\ ~Passes(s, m, c, g)
  BY DEF Stopping, SourceSound, Upright, Range
<1> QED
  BY <1>1, <1>2, AskingGates DEF Passes, Gate

\* A call whose needs are not met is stopped by that gate.
LEMMA SourceLate ==
  ASSUME NEW s, SourceSound(s), NEW c, NEW on, NEW i, NEW right, Asks(c, on, i, {}, right),
         NEW op, NEW command, NEW body, NEW needs, NEW success,
         Sourced(i, op, command, body, "nothing", needs, success), NEW m, ~(needs \subseteq m.facts)
  PROVE  Asking(op) \in Stopping(s, m, c)
<1>1. c.needs = needs /\ c.op = op /\ Asking(op) \in Range(s.gates)
  BY AskingGates DEF Asks, Sourced, SourceSound
<1> QED
  BY <1>1 DEF Stopping, Passes

\* A sound source provider tells earlier calls by their command, and takes them for the
\* same payload when operation and body are the same.
LEMMA SourceKnown ==
  ASSUME NEW s, SourceSound(s), NEW c, NEW on, NEW i, NEW right, Asks(c, on, i, {}, right), NEW m
  PROVE  /\ Prior(s, m, c) = {x \in m.ledger : x.command = i.command}
         /\ (\E x \in m.ledger : x.command = i.command) <=> "ledger" \in Stopping(s, m, c)
         /\ \A x : SamePayload(s, x, c) <=> x.op = i.op /\ x.body = i.body
<1>0. Upright(s) /\ "ledger" \in Range(s.gates) /\ \A X : X \ s.overlooks = X
  BY DEF SourceSound
<1>1. c.command = i.command /\ c.op = i.op /\ c.body = i.body
  BY DEF Asks
<1>2. Prior(s, m, c) = {x \in m.ledger : x.command = c.command}
  BY <1>0, UprightPrior
<1>3. \A x : SamePayload(s, x, c) <=> (x.op = c.op /\ x.body \ s.overlooks = c.body \ s.overlooks)
  BY <1>0, UprightPrior
<1>4. \A x : SamePayload(s, x, c) <=> x.op = i.op /\ x.body = i.body
  BY <1>0, <1>1, <1>3
<1>5. (\E x \in m.ledger : x.command = i.command) <=> "ledger" \in Stopping(s, m, c)
  <2>1. "ledger" # Asking(c.op)
    BY AskingGates
  <2> QED
    BY <1>0, <1>1, <1>2, <2>1 DEF Stopping, Passes
<1>6. Prior(s, m, c) = {x \in m.ledger : x.command = i.command}
  BY <1>1, <1>2
<1> QED
  BY <1>4, <1>5, <1>6

\* One probe.
LEMMA ProbeClears ==
  ASSUME NEW s, SourceSound(s), NEW part \in Probe
  PROVE  Clears(s, Probed \X Memory,
                <<Call("main", Disclose(part, {part}, "other-plan", "candidate"), Refusal),
                  Call("main", Disclose(part, {}, "manifest", "candidate"), Matched)>>, Probed \X Memory)
<1> DEFINE op == "artifact-disclosure-verify"
           foreign == {"other-plan", "candidate"}
           own == {"manifest", "candidate"}
           wrong == Disclose(part, {part}, "other-plan", "candidate")
           right == Disclose(part, {}, "manifest", "candidate")
           a == Call("main", wrong, Refusal)
           b == Call("main", right, Matched)
<1>1. /\ part \in Word /\ {part} \in SUBSET Word /\ {} \in SUBSET Word /\ "manifest" \in Word
      /\ "candidate" \in Word /\ "other-plan" \in Word
      /\ "files" \notin {part} /\ "files" \notin {} /\ "accepted" \in {"accepted", "mismatched"}
      /\ "accepted" # "mismatched"
  <2>1. "id" \in Word /\ "digest" \in Word
    BY DEF Word, RequestParts, ResultParts, StartParts
  <2> QED
    BY <2>1 DEF Probe, Word
<1>2. Sourced(wrong, op, part, {part}, "nothing", foreign, "accepted")
  BY <1>1, SourceItems
<1>3. Sourced(right, op, part, {}, "nothing", own, "accepted")
  BY <1>1, SourceItems
<1>4. "other-plan" \notin Early /\ "other-plan" \in foreign /\ own = Both /\ part \in Early
  BY DEF Both, Early, Probe
<1> HIDE DEF wrong, right, foreign, own
<1>5. Asks(a, "main", wrong, {}, Refusal) /\ Asks(b, "main", right, {}, Matched)
  <2>1. wrong \in Item /\ right \in Item
    BY <1>2, <1>3 DEF Sourced
  <2> QED
    BY <2>1, SourceCalls
<1> HIDE DEF a, b
<1>6. Serves(s, a, Probed, Probed)
  <2>1. ASSUME NEW m \in Probed PROVE Reply(s, m, a) \in Refusal \ {"accepted", "mismatched"}
    <3>1. ~(foreign \subseteq m.facts)
      BY <1>4 DEF Probed
    <3>2. /\ Asking(op) \in Stopping(s, m, a)
          /\ Prior(s, m, a) = {x \in m.ledger : x.command = part}
          /\ \A x : SamePayload(s, x, a) <=> x.op = op /\ x.body = {part}
      <4>1. Asking(op) \in Stopping(s, m, a)
        BY <1>2, <1>5, <3>1, SourceLate
      <4>2. wrong.op = op /\ wrong.command = part /\ wrong.body = {part}
        BY <1>2 DEF Sourced
      <4>3. /\ Prior(s, m, a) = {x \in m.ledger : x.command = wrong.command}
            /\ \A x : SamePayload(s, x, a) <=> x.op = wrong.op /\ x.body = wrong.body
        BY <1>5, SourceKnown
      <4> HIDE DEF op
      <4> QED
        BY <4>1, <4>2, <4>3
    <3>3. PICK g \in Stopping(s, m, a) : Reply(s, m, a) = GateAnswer(s, m, a, g)
      BY <3>2, SomeGate DEF SourceSound
    <3>4. g = "ledger" \/ g = Asking(op)
      BY <1>2, <1>5, SourceStops
    <3>5. \A x \in Prior(s, m, a) : ~SamePayload(s, x, a)
      <4>1. \A x \in Prior(s, m, a) : x.body = {}
        BY <3>2 DEF Probed
      <4> QED
        BY <3>2, <4>1
    <3>6. Reply(s, m, a) = "commandConflict" \/ Reply(s, m, a) = "invalidTransition"
      BY <3>3, <3>4, <3>5, AskingGates, GateAnswers
    <3> QED
      BY <3>6 DEF Refusal
  <2>2. a.want \ (a.skips \cup a.ends) = Refusal
    BY <1>5 DEF Asks
  <2> QED
    BY <2>1, <2>2, Declines DEF SourceSound
<1>7. Serves(s, b, Probed, Probed)
  <2> SUFFICES ASSUME NEW m \in Probed
               PROVE  /\ Reply(s, m, b) \in b.want \ (b.skips \cup b.ends)
                      /\ Remembered(s, m, b, Reply(s, m, b)) \in Probed
    BY DEF Serves
  <2>1. b.want \ (b.skips \cup b.ends) = Matched /\ "accepted" \in Matched /\ "replayed" \in Matched
    BY <1>5 DEF Asks, Matched
  <2>2. own \subseteq m.facts
    BY <1>4 DEF Probed
  <2>3. \A g \in Stopping(s, m, b) : g = "ledger"
    BY <1>3, <1>5, <2>2, SourceStops
  <2>4. /\ (\E x \in m.ledger : x.command = part) <=> "ledger" \in Stopping(s, m, b)
        /\ Prior(s, m, b) = {x \in m.ledger : x.command = part}
        /\ \A x : SamePayload(s, x, b) <=> x.op = op /\ x.body = {}
    <3>1. right.op = op /\ right.command = part /\ right.body = {}
      BY <1>3 DEF Sourced
    <3>2. /\ (\E x \in m.ledger : x.command = right.command) <=> "ledger" \in Stopping(s, m, b)
          /\ Prior(s, m, b) = {x \in m.ledger : x.command = right.command}
          /\ \A x : SamePayload(s, x, b) <=> x.op = right.op /\ x.body = right.body
      BY <1>5, SourceKnown
    <3> HIDE DEF op
    <3> QED
      BY <3>1, <3>2
  <2>5. CASE \E x \in m.ledger : x.command = part
    <3>1. Reply(s, m, b) = GateAnswer(s, m, b, "ledger")
      BY <2>3, <2>4, <2>5, SomeGate DEF SourceSound
    <3>2. \E x \in Prior(s, m, b) : SamePayload(s, x, b)
      BY <2>4, <2>5 DEF Probed
    <3>3. Reply(s, m, b) = "replayed"
      BY <3>1, <3>2, GateAnswers
    <3>4. Remembered(s, m, b, Reply(s, m, b)) = m
      BY <3>3, UprightRemembers DEF SourceSound
    <3> QED
      BY <2>1, <3>3, <3>4
  <2>6. CASE ~\E x \in m.ledger : x.command = part
    <3>1. Stopping(s, m, b) = {}
      BY <2>3, <2>4, <2>6
    <3>2. Reply(s, m, b) = "accepted"
      BY <1>3, <1>5, <3>1, NoGate DEF SourceSound, Asks, Sourced
    <3>3. Remembered(s, m, b, Reply(s, m, b)) =
            [ledger |-> (IF s.habit = "lastOnly" THEN {} ELSE m.ledger) \cup {Record(b)},
             facts  |-> m.facts \cup b.gives]
      BY <3>2, UprightRemembers DEF SourceSound
    <3>4. Record(b) \in Entry /\ Record(b).op = op /\ Record(b).command = part /\ Record(b).body = {}
          /\ b.gives = {part}
      BY <1>3, <1>5 DEF Record, Asks, Sourced, CallType, Entry
    <3> DEFINE ledger == (IF s.habit = "lastOnly" THEN {} ELSE m.ledger) \cup {Record(b)}
    <3>5. m.ledger \in SUBSET Entry /\ m.facts \in SUBSET Word
      BY DEF Probed, Memory
    <3>6. ledger \in SUBSET Entry /\ \A x \in ledger : x = Record(b) \/ x \in m.ledger
      BY <3>4, <3>5
    <3> HIDE DEF ledger
    <3>7. /\ \A x \in ledger : x.command \in Early
          /\ \A x \in ledger : x.command \in Probe => x.op = "artifact-disclosure-verify" /\ x.body = {}
      BY <1>4, <3>4, <3>6 DEF Probed
    <3>8. /\ Both \subseteq m.facts \cup {part} /\ m.facts \cup {part} \subseteq Early
          /\ m.facts \cup {part} \in SUBSET Word
      BY <1>1, <1>4, <3>5 DEF Probed
    <3>9. [ledger |-> ledger, facts |-> m.facts \cup {part}] \in Probed
      BY <3>6, <3>7, <3>8 DEF Probed, Memory
    <3> QED
      BY <2>1, <3>2, <3>3, <3>4, <3>9 DEF ledger
  <2> QED
    BY <2>5, <2>6
<1>8. Probed \in SUBSET Memory
  BY DEF Probed
<1> HIDE DEF op
<1>9. Clears(s, Probed \X Memory, <<a, b>>, Probed \X Memory)
  BY <1>5, <1>6, <1>7, <1>8, MainPair DEF Asks
<1> QED
  BY <1>9 DEF a, b, wrong, right

\* Both of them, in either order.
LEMMA ProbesClear ==
  ASSUME NEW s, SourceSound(s), NEW order
  PROVE  Clears(s, Probed \X Memory,
                Each(order, [part \in {"id", "digest"} |->
                    <<Call("main", Disclose(part, {part}, "other-plan", "candidate"), Refusal),
                      Call("main", Disclose(part, {}, "manifest", "candidate"), Matched)>>]), Probed \X Memory)
<1> DEFINE block == [part \in Probe |->
                    <<Call("main", Disclose(part, {part}, "other-plan", "candidate"), Refusal),
                      Call("main", Disclose(part, {}, "manifest", "candidate"), Matched)>>]
<1>1. Probe = {"id", "digest", "digest", "digest"}
  BY DEF Probe
<1>2. IsFiniteSet(DOMAIN block)
  BY <1>1, FewFinite
<1>3. \A part \in DOMAIN block : Clears(s, Probed \X Memory, block[part], Probed \X Memory)
  BY ProbeClears
<1>4. Probed \X Memory \subseteq State
  BY DEF Probed, State
<1> HIDE DEF block
<1>5. Clears(s, Probed \X Memory, Each(order, block), Probed \X Memory)
  BY <1>2, <1>3, <1>4, EachClears
<1> QED
  BY <1>5, Zenon DEF block, Probe

\* What the probes leave.
LEMMA AroundProbes ==
  /\ \A b : Kept(b) \subseteq Probed
  /\ Probed \subseteq Knows(Early, {}, Both, Early)
<1>1. ASSUME NEW b, NEW m \in Kept(b) PROVE m \in Probed
  <2>1. /\ m \in Memory /\ \A x \in m.ledger : x.command \in Both
        /\ Both \subseteq m.facts /\ m.facts \subseteq Both
    BY <1>1 DEF Kept, Knows, Both
  <2>2. Both \subseteq Early /\ Both \cap Probe = {}
    BY DEF Both, Early, Probe
  <2> QED
    BY <2>1, <2>2 DEF Probed
<1>2. Probed \subseteq Knows(Early, {}, Both, Early)
  BY DEF Probed, Knows
<1> QED
  BY <1>1, <1>2

\* A disclosure that does not match, on a provider that matches.
LEMMA SourceMismatches ==
  ASSUME NEW s, SourceSound(s), NEW c, NEW on, NEW i, NEW right, Asks(c, on, i, {}, right),
         NEW op, NEW command, NEW body, NEW needs,
         Sourced(i, op, command, body, "nothing", needs, "mismatched"), "mismatched" \in right,
         NEW C, NEW K, NEW F, NEW G, needs \subseteq F, command \notin C
  PROVE  Serves(s, c, Knows(C, K, F, G), Knows(C \cup {command}, {Record(c)}, F, G))
<1> DEFINE D == C \cup {i.command}
           gained == IF i.success = "accepted" THEN i.gives ELSE {}
<1>1. InTime(i, F, G) /\ i.command \notin C /\ i.outside = "nothing" /\ i.success \in right
  BY DEF InTime, Sourced
<1>2. F = F \cup gained /\ G = G \cup gained /\ D = C \cup {command}
  BY DEF Sourced
<1>3. D = C \cup {i.command} /\ gained = IF i.success = "accepted" THEN i.gives ELSE {}
  OBVIOUS
<1> HIDE DEF D, gained
<1>4. Serves(s, c, Knows(C, K, F, G), Knows(D, {Record(c)}, F, G))
  BY <1>1, <1>2, <1>3, ItemAccepted DEF SourceSound
<1> QED
  BY <1>2, <1>4

\* After the disclosure that did not match, the one that did, and the publication.
Mismatched(c) == Knows(Early \cup {"mismatch"}, {Record(c)}, Both, Early)
Disclosed(c) == Knows((Early \cup {"mismatch"}) \cup {"disclosure"}, {Record(c)},
                      Both \cup {"disclosure"}, Early \cup {"disclosure"})
Published(c) == Knows(((Early \cup {"mismatch"}) \cup {"disclosure"}) \cup {"publication"}, {Record(c)},
                      (Both \cup {"disclosure"}) \cup {"publication"},
                      (Early \cup {"disclosure"}) \cup {"publication"})

\* The disclosure: mismatched, then matched, its replays and its conflicts.
LEMMA DisclosureCallsClear ==
  ASSUME NEW s, SourceSound(s), NEW order, NEW z, NEW on, NEW ok, Asks(z, on, Candidate0, {}, ok)
  PROVE  Clears(s, Kept(z) \X Memory, DisclosureCalls(order),
                Disclosed(Call("main", Disclosure0, Matched)) \X Memory)
<1> DEFINE op == "artifact-disclosure-verify"
           own == {"manifest", "candidate"}
           missing == {"missing-disclosure"}
           unmatched == {"mismatch"}
           taken == Disclose("candidate", {}, "manifest", "candidate")
           a == Call("main", taken, {"commandConflict"})
           block == [part \in {"id", "digest"} |->
                    <<Call("main", Disclose(part, {part}, "other-plan", "candidate"), Refusal),
                      Call("main", Disclose(part, {}, "manifest", "candidate"), Matched)>>]
           early == Publish("publication", {"disclosure"}, "missing-disclosure")
           b == Call("main", early, Refusal)
           differs == Disclose("mismatch", {"files"}, "manifest", "candidate")
           c == [Call("main", differs, {"mismatched"}) EXCEPT !.ends = Answer \ {"mismatched"}]
           private == Publish("mismatch-publication", {}, "mismatch")
           d == Call("main", private, Refusal)
           e == Call("main", Disclosure0, Matched)
           f == Call("main", Disclosure0, SameMatch)
           known == Populated(order, Disclosure0, sourceReplayGrantMutations(Disclosure0.op), Candidate0.op, SameMatch)
           M == Kept(z)
           W == Knows(Early, {}, Both, Early)
           X == Mismatched(c)
           N == Disclosed(e)
<1>0. M \in SUBSET Memory /\ W \in SUBSET Memory /\ X \in SUBSET Memory /\ N \in SUBSET Memory
      /\ Probed \in SUBSET Memory
  BY KnowsMemory DEF Kept, Mismatched, Disclosed, Probed
<1>1. /\ "manifest" \in Word /\ "candidate" \in Word /\ "mismatch" \in Word /\ "publication" \in Word
      /\ "missing-disclosure" \in Word /\ "mismatch-publication" \in Word
      /\ {"files"} \in SUBSET Word /\ {"disclosure"} \in SUBSET Word /\ {} \in SUBSET Word
      /\ "files" \in {"files"} /\ "files" \notin {}
      /\ "accepted" \in {"accepted", "mismatched"} /\ "mismatched" \in {"accepted", "mismatched"}
      /\ "accepted" # "mismatched"
  BY DEF Word
<1>2. /\ Sourced(Disclosure0, op, "disclosure", {}, "nothing", own, "accepted")
      /\ Candidate0.op = "candidate-closure-validate-retain" /\ Candidate0.command = "candidate"
      /\ Disclosure0 \in Item
  BY SourceFixtures DEF Sourced
<1>3. Sourced(taken, op, "candidate", {}, "nothing", own, "accepted")
  BY <1>1, SourceItems
<1>4. Sourced(early, "artifact-publish", "publication", {"disclosure"}, "nothing", missing, "accepted")
  BY <1>1, SourceItems
<1>5. Sourced(differs, op, "mismatch", {"files"}, "nothing", own, "mismatched")
  BY <1>1, SourceItems
<1>6. Sourced(private, "artifact-publish", "mismatch-publication", {}, "nothing", unmatched, "accepted")
  BY <1>1, SourceItems
<1>7. DisclosureCalls(order) = <<a>> \o Each(order, block) \o <<b, c, d, e, f>> \o known
  BY Zenon DEF DisclosureCalls
<1>8. /\ own \subseteq Both /\ ~(missing \subseteq Early) /\ ~(unmatched \subseteq Early)
      /\ "publication" \notin Early /\ "mismatch" \notin Early
      /\ "mismatch-publication" \notin Early \cup {"mismatch"} /\ "disclosure" \notin Early \cup {"mismatch"}
      /\ own \subseteq Both \cup {"disclosure"}
  BY DEF Both, Early, Probe
<1>9. op # "candidate-closure-validate-retain" /\ op \in SourcePurpose /\ Candidate0.op \in Purpose
  BY <1>2 DEF SourcePurpose, Purpose
<1> HIDE DEF taken, early, differs, private, op, own, missing, unmatched
<1>10. /\ Asks(a, "main", taken, {}, {"commandConflict"}) /\ Asks(b, "main", early, {}, Refusal)
       /\ Asks(d, "main", private, {}, Refusal) /\ Asks(e, "main", Disclosure0, {}, Matched)
       /\ Asks(f, "main", Disclosure0, {}, SameMatch)
  <2>1. taken \in Item /\ early \in Item /\ private \in Item
    BY <1>3, <1>4, <1>6 DEF Sourced
  <2> QED
    BY <1>2, <2>1, SourceCalls
<1>11. Asks(c, "main", differs, {}, {"mismatched"})
  <2>1. differs \in Item
    BY <1>5 DEF Sourced
  <2>2. {"mismatched"} \in SUBSET Answer /\ Answer \ {"mismatched"} \in SUBSET Answer
        /\ {"mismatched"} \ (Answer \ {"mismatched"}) = {"mismatched"}
    BY DEF Answer
  <2>3. Asks(c, "main", differs, {}, {"mismatched"} \ (Answer \ {"mismatched"}))
    BY <2>1, <2>2, CallAsks
  <2> QED
    BY <2>2, <2>3, Zenon
<1>12. Record(z).op = Candidate0.op /\ Record(z).command = "candidate"
  BY <1>2, RecordOfItem
<1>13. Record(e).op = op /\ Record(e).command = "disclosure" /\ Record(e).body = {}
  BY <1>2, <1>10, RecordOfItem DEF Sourced
<1>14. Clears(s, Probed \X Memory, Each(order, block), Probed \X Memory)
  BY ProbesClear, Zenon
<1> HIDE DEF a, b, c, d, e, f, block
<1>15. Serves(s, a, M, M)
  <2> DEFINE C == {"manifest"} \cup {"candidate"}
             K == {Record(z)}
  <2>1. Record(z) \in K /\ Record(z).op # op /\ own \subseteq C /\ M = Knows(C, K, C, C)
    BY <1>2, <1>8, <1>9, <1>12 DEF Kept, Both
  <2>2. "commandConflict" \in {"commandConflict"}
    OBVIOUS
  <2> HIDE DEF C, K, M
  <2> QED
    BY <1>3, <1>10, <1>12, <2>1, <2>2, SourceConflicts
<1>16. Serves(s, b, W, W)
  BY <1>4, <1>8, <1>10, SourceUntimely
<1>17. Serves(s, c, W, X)
  <2>1. "mismatched" \in {"mismatched"}
    OBVIOUS
  <2> QED
    BY <1>5, <1>8, <1>11, <2>1, SourceMismatches DEF Mismatched
<1>18. Serves(s, d, X, X)
  BY <1>6, <1>8, <1>10, SourceUntimely DEF Mismatched
<1>19. Serves(s, e, X, N)
  <2>1. "accepted" \in Matched
    BY DEF Matched
  <2> QED
    BY <1>2, <1>8, <1>10, <2>1, SourceAccepts DEF Mismatched, Disclosed
<1> DEFINE C == (Early \cup {"mismatch"}) \cup {"disclosure"}
           K == {Record(e)}
           F == Both \cup {"disclosure"}
           G == Early \cup {"disclosure"}
<1>20. N = Knows(C, K, F, G) /\ Record(e) \in K /\ own \subseteq F /\ "replayed" \in SameMatch
       /\ SameMatch \in SUBSET Answer
  BY <1>8 DEF Disclosed, SameMatch, Answer
<1> HIDE DEF C, K, F, G, M, W, X, N
<1>21. Serves(s, f, N, N)
  BY <1>2, <1>10, <1>13, <1>20, SourceReplays
<1>22. Clears(s, N \X Memory, known, N \X Memory)
  <2> DEFINE r == Record(e)
             foreign == Candidate0.op
             i == Disclosure0
  <2>1. /\ Sourced(i, op, "disclosure", {}, "nothing", own, "accepted")
        /\ op \in SourcePurpose /\ foreign \in Purpose /\ SameMatch \in SUBSET Answer /\ "replayed" \in SameMatch
        /\ own \subseteq F /\ r \in K /\ r.command = "disclosure" /\ r.op = op /\ r.body = {}
    BY <1>2, <1>9, <1>13, <1>20
  <2>2. known = Populated(order, i, sourceReplayGrantMutations(i.op), foreign, SameMatch)
    OBVIOUS
  <2> HIDE DEF r, foreign, i, known
  <2>3. Clears(s, Knows(C, K, F, G) \X Memory,
               Populated(order, i, sourceReplayGrantMutations(i.op), foreign, SameMatch), Knows(C, K, F, G) \X Memory)
    BY <2>1, SourcePopulated, ZenonT(60)
  <2> QED
    BY <1>20, <2>2, <2>3
<1> HIDE DEF known
<1>23. Clears(s, M \X Memory, <<a>>, Probed \X Memory)
  <2>1. Clears(s, M \X Memory, <<a>>, M \X Memory)
    BY <1>0, <1>10, <1>15, MainClears DEF Asks
  <2>2. M \X Memory \subseteq Probed \X Memory
    BY AroundProbes DEF M
  <2> QED
    BY <2>1, <2>2, ClearsWider
<1>24. Clears(s, Probed \X Memory, Each(order, block), W \X Memory)
  <2>1. Probed \X Memory \subseteq W \X Memory
    BY AroundProbes DEF W
  <2> QED
    BY <1>14, <2>1, ClearsWider
<1>25. Clears(s, W \X Memory, <<b, c, d, e, f>>, N \X Memory)
  BY <1>0, <1>10, <1>11, <1>16, <1>17, <1>18, <1>19, <1>21, MainFive DEF Asks
<1>26. Clears(s, M \X Memory, <<a>> \o Each(order, block) \o <<b, c, d, e, f>> \o known, N \X Memory)
  <2>1. Clears(s, M \X Memory, <<a>> \o Each(order, block), W \X Memory)
    BY <1>23, <1>24, ClearsBoth
  <2>2. Clears(s, M \X Memory, <<a>> \o Each(order, block) \o <<b, c, d, e, f>>, N \X Memory)
    BY <1>25, <2>1, ClearsBoth
  <2> QED
    BY <1>22, <2>2, ClearsBoth
<1> QED
  BY <1>7, <1>26 DEF M, N, e

\* The publication, the same.
LEMMA PublicationCallsClear ==
  ASSUME NEW s, SourceSound(s), NEW order, NEW z, NEW on, NEW ok, Asks(z, on, Disclosure0, {}, ok)
  PROVE  Clears(s, Disclosed(z) \X Memory, PublicationCalls(order),
                Published(Call("main", Publication0, {"accepted"})) \X Memory)
<1> DEFINE op == "artifact-publish"
           disclose == "artifact-disclosure-verify"
           own == {"disclosure"}
           both == {"manifest", "candidate"}
           taken == Publish("disclosure", {}, "disclosure")
           a == Call("main", taken, {"commandConflict"})
           differs == Disclose("disclosure", {"files"}, "manifest", "candidate")
           b == Call("main", differs, {"commandConflict"})
           c == Call("main", Publication0, {"accepted"})
           d == Call("main", Publication0, {"replayed"})
           known == Populated(order, Publication0, sourceReplayGrantMutations(Publication0.op), Disclosure0.op,
                              {"replayed"})
           foreign == {"other-version"}
           other == Publish("publication", {"version"}, "other-version")
           e == Call("main", other, {"commandConflict"})
           plan == Plan("publication", {})
           f == Call("main", plan, {"commandConflict"})
           M == Disclosed(z)
           N == Published(c)
           conflict == {"commandConflict"}
<1>0. M \in SUBSET Memory /\ N \in SUBSET Memory
  BY KnowsMemory DEF Disclosed, Published
<1>1. /\ "manifest" \in Word /\ "candidate" \in Word /\ "disclosure" \in Word /\ "publication" \in Word
      /\ {"files"} \in SUBSET Word /\ {"version"} \in SUBSET Word /\ {} \in SUBSET Word
      /\ "files" \in {"files"} /\ "mismatched" \in {"accepted", "mismatched"}
  BY DEF Word
<1>2. /\ Sourced(Publication0, op, "publication", {}, "nothing", own, "accepted")
      /\ Disclosure0.op = disclose /\ Disclosure0.command = "disclosure" /\ Disclosure0.body = {}
      /\ Publication0 \in Item
  BY SourceFixtures DEF Sourced
<1>3. Sourced(taken, op, "disclosure", {}, "nothing", own, "accepted")
  BY <1>1, SourceItems
<1>4. Sourced(differs, disclose, "disclosure", {"files"}, "nothing", both, "mismatched")
  BY <1>1, SourceItems
<1>5. Sourced(other, op, "publication", {"version"}, "nothing", foreign, "accepted")
  BY <1>1, SourceItems
<1>6. Sourced(plan, "manifest-closure-plan", "publication", {}, "nothing", {}, "accepted")
  BY <1>1, SourceItems
<1>7. PublicationCalls(order) = <<a, b, c, d>> \o known \o <<e, f>>
  BY Zenon DEF PublicationCalls
<1>26. Asking(op) = "order"
  BY DEF Asking
<1>8. /\ op # disclose /\ op # "manifest-closure-plan" /\ op \in SourcePurpose /\ disclose \in Purpose
      /\ "commandConflict" \in conflict
  BY DEF SourcePurpose, Purpose
<1>9. /\ own \subseteq Both \cup {"disclosure"} /\ both \subseteq Both \cup {"disclosure"}
      /\ own \subseteq (Both \cup {"disclosure"}) \cup {"publication"}
      /\ "publication" \notin (Early \cup {"mismatch"}) \cup {"disclosure"}
  BY DEF Both, Early, Probe
<1> HIDE DEF taken, differs, other, plan, op, disclose, own, both, foreign
<1>10. /\ Asks(a, "main", taken, {}, conflict) /\ Asks(b, "main", differs, {}, conflict)
       /\ Asks(c, "main", Publication0, {}, {"accepted"}) /\ Asks(d, "main", Publication0, {}, {"replayed"})
       /\ Asks(e, "main", other, {}, conflict) /\ Asks(f, "main", plan, {}, conflict)
  <2>1. taken \in Item /\ differs \in Item /\ other \in Item /\ plan \in Item
    BY <1>3, <1>4, <1>5, <1>6 DEF Sourced
  <2> QED
    BY <1>2, <2>1, SourceCalls
<1>11. Record(z).op = disclose /\ Record(z).command = "disclosure" /\ Record(z).body = {}
  BY <1>2, RecordOfItem
<1>12. Record(c).op = op /\ Record(c).command = "publication" /\ Record(c).body = {}
  BY <1>2, <1>10, RecordOfItem DEF Sourced
<1> HIDE DEF a, b, c, d, e, f, conflict
<1> DEFINE C == (Early \cup {"mismatch"}) \cup {"disclosure"}
           F == Both \cup {"disclosure"}
           G == Early \cup {"disclosure"}
           K == {Record(z)}
           L == {Record(c)}
<1>13. /\ M = Knows(C, K, F, G) /\ Record(z) \in K /\ Record(c) \in L
       /\ N = Knows(C \cup {"publication"}, L, F \cup {"publication"}, G \cup {"publication"})
  BY DEF Disclosed, Published
<1>14. /\ own \subseteq F /\ both \subseteq F /\ own \subseteq F \cup {"publication"} /\ "publication" \notin C
       /\ {} \subseteq F \cup {"publication"}
  BY <1>9
<1>15. Serves(s, c, M, N)
  <2>1. "accepted" \in {"accepted"}
    OBVIOUS
  <2> HIDE DEF C, F, G, K, M, N
  <2> QED
    BY <1>2, <1>10, <1>13, <1>14, <2>1, SourceAccepts DEF L
<1> DEFINE D == C \cup {"publication"}
           H == F \cup {"publication"}
           I == G \cup {"publication"}
<1>16. N = Knows(D, L, H, I) /\ own \subseteq H /\ {} \subseteq H
  BY <1>13, <1>14
<1> HIDE DEF C, F, G, K, L, M, N, D, H, I
<1>17. Serves(s, a, M, M)
  BY <1>3, <1>8, <1>10, <1>11, <1>13, <1>14, SourceConflicts
<1>18. Serves(s, b, M, M)
  <2>1. Record(z).body # {"files"}
    BY <1>11
  <2> QED
    BY <1>4, <1>8, <1>10, <1>11, <1>13, <1>14, <2>1, SourceConflicts
<1>19. Serves(s, d, N, N)
  <2> DEFINE r == Record(c)
             i == Publication0
             right == {"replayed"}
  <2>1. /\ Sourced(i, op, "publication", {}, "nothing", own, "accepted")
        /\ Asks(d, "main", i, {}, right) /\ "replayed" \in right
        /\ own \subseteq H /\ r \in L /\ r.command = "publication" /\ r.op = op /\ r.body = {}
    BY <1>2, <1>10, <1>12, <1>13, <1>16
  <2> HIDE DEF r, i, right
  <2>2. Serves(s, d, Knows(D, L, H, I), Knows(D, L, H, I))
    BY <2>1, SourceReplays
  <2> QED
    BY <1>16, <2>2
<1>20. Serves(s, e, N, N)
  <2>1. Record(c).body # {"version"} /\ ~Before(s, Asking(op), "ledger")
    BY <1>12, <1>26 DEF SourceSound
  <2> QED
    BY <1>5, <1>8, <1>10, <1>12, <1>13, <1>16, <2>1, SourceConflicts
<1>21. Serves(s, f, N, N)
  <2>1. Record(c).op # "manifest-closure-plan"
    BY <1>8, <1>12
  <2> QED
    BY <1>6, <1>8, <1>10, <1>12, <1>13, <1>16, <2>1, SourceConflicts
<1>22. Clears(s, N \X Memory, known, N \X Memory)
  <2> DEFINE r == Record(c)
             target == Disclosure0.op
             i == Publication0
             replayed == {"replayed"}
  <2>1. /\ Sourced(i, op, "publication", {}, "nothing", own, "accepted")
        /\ op \in SourcePurpose /\ target \in Purpose /\ replayed \in SUBSET Answer /\ "replayed" \in replayed
        /\ own \subseteq H /\ r \in L /\ r.command = "publication" /\ r.op = op /\ r.body = {}
    BY <1>2, <1>8, <1>12, <1>13, <1>16 DEF Answer
  <2>2. known = Populated(order, i, sourceReplayGrantMutations(i.op), target, replayed)
    OBVIOUS
  <2> HIDE DEF r, target, i, known, replayed
  <2>3. Clears(s, Knows(D, L, H, I) \X Memory,
               Populated(order, i, sourceReplayGrantMutations(i.op), target, replayed), Knows(D, L, H, I) \X Memory)
    BY <2>1, SourcePopulated, ZenonT(60)
  <2> QED
    BY <1>16, <2>2, <2>3
<1> HIDE DEF known
<1>23. Clears(s, M \X Memory, <<a, b, c, d>>, N \X Memory)
  <2>1. Clears(s, M \X Memory, <<a, b, c>>, N \X Memory)
    BY <1>0, <1>10, <1>15, <1>17, <1>18, MainTriple DEF Asks
  <2>2. Clears(s, M \X Memory, <<a, b, c>> \o <<d>>, N \X Memory)
    BY <1>0, <1>10, <1>19, <2>1, ThenMain DEF Asks
  <2> QED
    BY <2>2, Four
<1>24. Clears(s, N \X Memory, <<e, f>>, N \X Memory)
  BY <1>0, <1>10, <1>20, <1>21, MainPair DEF Asks
<1>25. Clears(s, M \X Memory, <<a, b, c, d>> \o known \o <<e, f>>, N \X Memory)
  <2>1. Clears(s, M \X Memory, <<a, b, c, d>> \o known, N \X Memory)
    BY <1>22, <1>23, ClearsBoth
  <2> QED
    BY <1>24, <2>1, ClearsBoth
<1> QED
  BY <1>7, <1>25 DEF M, N, c

\* The item of an operation under the command that two operations are to share.
Collision(p, plan) ==
  CASE p = "manifest-closure-plan" -> Plan("collision", {})
    [] p = "candidate-closure-validate-retain" -> Retain("collision", {}, plan)
    [] p = "artifact-disclosure-verify" -> Disclose("collision", {}, "plan", "kept")
    [] p = "artifact-publish" -> Publish("collision", {}, "shown")

\* Two operations under one command, either after its setup.
LEMMA CollisionItems ==
  ASSUME NEW p \in SourcePurpose, NEW plan \in Word
  PROVE  \E needs : /\ Sourced(Collision(p, plan), p, "collision", {}, "nothing", needs, "accepted")
                    /\ needs \subseteq {plan} \cup {"plan", "kept", "shown"}
                    /\ p = "manifest-closure-plan" => needs = {}
<1>1. /\ "collision" \in Word /\ "plan" \in Word /\ "kept" \in Word /\ "shown" \in Word /\ {} \in SUBSET Word
      /\ "files" \notin {} /\ "accepted" \in {"accepted", "mismatched"} /\ "accepted" # "mismatched"
  BY DEF Word
<1>2. CASE p = "manifest-closure-plan"
  <2>1. Collision(p, plan) = Plan("collision", {})
    BY <1>2, Zenon DEF Collision
  <2>2. Sourced(Plan("collision", {}), "manifest-closure-plan", "collision", {}, "nothing", {}, "accepted")
    BY <1>1, SourceItems
  <2> QED
    BY <1>2, <2>1, <2>2
<1>3. CASE p = "candidate-closure-validate-retain"
  <2>0. p # "manifest-closure-plan" /\ p # "artifact-disclosure-verify" /\ p # "artifact-publish"
    BY <1>3
  <2>1. Collision(p, plan) = Retain("collision", {}, plan)
    BY <1>3, <2>0, Zenon DEF Collision
  <2>2. Sourced(Retain("collision", {}, plan), "candidate-closure-validate-retain", "collision", {}, "nothing",
                {plan}, "accepted")
    BY <1>1, SourceItems
  <2> QED
    BY <1>3, <2>1, <2>2
<1>4. CASE p = "artifact-disclosure-verify"
  <2>0. p # "manifest-closure-plan" /\ p # "candidate-closure-validate-retain" /\ p # "artifact-publish"
    BY <1>4
  <2>1. Collision(p, plan) = Disclose("collision", {}, "plan", "kept")
    BY <1>4, <2>0, Zenon DEF Collision
  <2>2. Sourced(Disclose("collision", {}, "plan", "kept"), "artifact-disclosure-verify", "collision", {}, "nothing",
                {"plan", "kept"}, "accepted")
    BY <1>1, SourceItems
  <2> QED
    BY <1>4, <2>1, <2>2
<1>5. CASE p = "artifact-publish"
  <2>0. p # "manifest-closure-plan" /\ p # "candidate-closure-validate-retain" /\ p # "artifact-disclosure-verify"
    BY <1>5
  <2>1. Collision(p, plan) = Publish("collision", {}, "shown")
    BY <1>5, <2>0, Zenon DEF Collision
  <2>2. Sourced(Publish("collision", {}, "shown"), "artifact-publish", "collision", {}, "nothing",
                {"shown"}, "accepted")
    BY <1>1, SourceItems
  <2> QED
    BY <1>5, <2>1, <2>2
<1> QED
  BY <1>2, <1>3, <1>4, <1>5 DEF SourcePurpose

\* The calls that set up a collision, spelt out, and the collision.
LEMMA LedgerPairIs ==
  ASSUME NEW first, NEW second
  PROVE  LET plan == IF first = "manifest-closure-plan" THEN "collision" ELSE "plan"
             Ready(on, i) == [Call(on, i, Answer \ Refusal) EXCEPT !.skips = Refusal]
         IN  LedgerPair(first, second) =
               <<Ready("fresh", Plan("plan", {})), Ready("same", Retain("kept", {}, "plan")),
                 Setup("same", Disclose("shown", {}, "plan", "kept")),
                 Ready("same", Collision(first, plan)),
                 Call("same", Collision(second, plan), {"commandConflict"})>>
BY Zenon DEF LedgerPair, Collision

\* One operation under the command of another, on a fresh provider.
LEMMA LedgerPairClears ==
  ASSUME NEW s, SourceSound(s), NEW first \in SourcePurpose, NEW second \in SourcePurpose, first # second,
         NEW A \in SUBSET Memory
  PROVE  Clears(s, A \X Memory, LedgerPair(first, second), A \X Memory)
<1> DEFINE plan == IF first = "manifest-closure-plan" THEN "collision" ELSE "plan"
           Ready(on, i) == [Call(on, i, Answer \ Refusal) EXCEPT !.skips = Refusal]
           ok == Answer \ Refusal
           conflict == {"commandConflict"}
           i1 == Plan("plan", {})
           i2 == Retain("kept", {}, "plan")
           i3 == Disclose("shown", {}, "plan", "kept")
           i4 == Collision(first, plan)
           i5 == Collision(second, plan)
           a == Ready("fresh", i1)
           b == Ready("same", i2)
           c == Setup("same", i3)
           d == Ready("same", i4)
           e == Call("same", i5, conflict)
           one == {"plan"}
           two == {"plan", "kept"}
           C1 == {} \cup {"plan"}
           C2 == C1 \cup {"kept"}
           C3 == C2 \cup {"shown"}
           C4 == C3 \cup {"collision"}
<1>1. /\ "plan" \in Word /\ "kept" \in Word /\ "shown" \in Word /\ "collision" \in Word /\ {} \in SUBSET Word
      /\ "files" \notin {} /\ "accepted" \in {"accepted", "mismatched"} /\ "accepted" # "mismatched"
      /\ plan \in Word
  BY DEF Word
<1>2. LedgerPair(first, second) = <<a, b, c, d, e>>
  BY LedgerPairIs, Zenon
<1>3. Sourced(i1, "manifest-closure-plan", "plan", {}, "nothing", {}, "accepted")
  BY <1>1, SourceItems
<1>4. Sourced(i2, "candidate-closure-validate-retain", "kept", {}, "nothing", one, "accepted")
  BY <1>1, SourceItems
<1>5. Sourced(i3, "artifact-disclosure-verify", "shown", {}, "nothing", two, "accepted")
  BY <1>1, SourceItems
<1>6. PICK mine : /\ Sourced(i4, first, "collision", {}, "nothing", mine, "accepted") /\ mine \subseteq C3
  <2> HIDE DEF plan
  <2>1. PICK mine : /\ Sourced(i4, first, "collision", {}, "nothing", mine, "accepted")
                    /\ mine \subseteq {plan} \cup {"plan", "kept", "shown"}
                    /\ first = "manifest-closure-plan" => mine = {}
    BY <1>1, CollisionItems
  <2>2. first # "manifest-closure-plan" => plan = "plan"
    BY DEF plan
  <2>3. mine \subseteq C3
    BY <2>1, <2>2
  <2> QED
    BY <2>1, <2>3
<1>7. PICK hers : /\ Sourced(i5, second, "collision", {}, "nothing", hers, "accepted") /\ hers \subseteq C4
  <2>0. plan = "plan" \/ plan = "collision"
    OBVIOUS
  <2> HIDE DEF plan
  <2>1. PICK hers : /\ Sourced(i5, second, "collision", {}, "nothing", hers, "accepted")
                    /\ hers \subseteq {plan} \cup {"plan", "kept", "shown"}
    BY <1>1, CollisionItems
  <2>3. hers \subseteq C4
    BY <2>0, <2>1
  <2> QED
    BY <2>1, <2>3
<1>8. /\ one \subseteq C1 /\ two \subseteq C2 /\ "plan" \notin {} /\ "kept" \notin C1 /\ "shown" \notin C2
      /\ "collision" \notin C3 /\ {} \subseteq {}
  OBVIOUS
<1> HIDE DEF i1, i2, i3, i4, i5, one, two, plan
<1>9. /\ ok \in SUBSET Answer /\ Refusal \in SUBSET Answer /\ ok \ Refusal = ok /\ "accepted" \in ok
      /\ conflict \in SUBSET Answer /\ "commandConflict" \in conflict
  BY DEF Answer, Refusal
<1>10. /\ Asks(a, "fresh", i1, {}, ok) /\ Asks(b, "same", i2, {}, ok) /\ Asks(d, "same", i4, {}, ok)
  <2>1. ASSUME NEW on \in {"main", "fresh", "same"}, NEW i \in Item
        PROVE  Asks([Call(on, i, ok) EXCEPT !.skips = Refusal], on, i, {}, ok)
    <3> HIDE DEF ok
    <3>1. Asks([Call(on, i, ok) EXCEPT !.skips = Refusal], on, i, {}, ok \ Refusal)
      BY <1>9, <2>1, CallAsks
    <3> QED
      BY <1>9, <3>1, Zenon
  <2>2. i1 \in Item /\ i2 \in Item /\ i4 \in Item
    BY <1>3, <1>4, <1>6 DEF Sourced
  <2> QED
    BY <2>1, <2>2
<1>11. Asks(c, "same", i3, {}, {"accepted"}) /\ Asks(e, "same", i5, {}, conflict)
  <2>1. i3 \in Item /\ i5 \in Item
    BY <1>5, <1>7 DEF Sourced
  <2> HIDE DEF conflict
  <2> QED
    BY <1>9, <2>1, SetupAsks, CallAsks
<1>12. Record(d).op = first /\ Record(d).command = "collision"
  BY <1>6, <1>10, RecordOfItem DEF Sourced
<1> HIDE DEF a, b, c, d, e, ok, conflict
<1> DEFINE E == Knows({}, {}, {}, {})
           M1 == Knows(C1, {Record(a)}, C1, C1)
           M2 == Knows(C2, {Record(b)}, C2, C2)
           M3 == Knows(C3, {Record(c)}, C3, C3)
           K == {Record(d)}
           M4 == Knows(C4, K, C4, C4)
<1>13. Serves(s, a, E, M1)
  <2> HIDE DEF C2, C3, C4
  <2> QED
    BY <1>3, <1>8, <1>9, <1>10, SourceAccepts
<1>14. Serves(s, b, M1, M2)
  <2> HIDE DEF C1, C3, C4
  <2> QED
    BY <1>4, <1>8, <1>9, <1>10, SourceAccepts
<1>15. Serves(s, c, M2, M3)
  <2>1. "accepted" \in {"accepted"}
    OBVIOUS
  <2> HIDE DEF C1, C2, C4
  <2> QED
    BY <1>5, <1>8, <1>11, <2>1, SourceAccepts
<1>16. Serves(s, d, M3, M4)
  <2> HIDE DEF C1, C2, C3
  <2> QED
    BY <1>6, <1>8, <1>9, <1>10, SourceAccepts
<1>17. Serves(s, e, M4, M4)
  <2>1. Record(d) \in K /\ Record(d).op # second
    BY <1>12
  <2> HIDE DEF C1, C2, C3, C4, K
  <2> QED
    BY <1>7, <1>9, <1>11, <1>12, <2>1, SourceConflicts
<1>18. Serves(s, a, {Empty}, M1)
  <2> HIDE DEF M1
  <2> QED
    BY <1>13, FromEmpty
<1>19. M1 \in SUBSET Memory /\ M2 \in SUBSET Memory /\ M3 \in SUBSET Memory /\ M4 \in SUBSET Memory
  BY KnowsMemory
<1> HIDE DEF C1, C2, C3, C4, K, M1, M2, M3, M4
<1>20. Clears(s, A \X Memory, <<a, b, c, d, e>>, A \X M4)
  BY <1>10, <1>11, <1>14, <1>15, <1>16, <1>17, <1>18, <1>19, FreshFive DEF Asks
<1> QED
  BY <1>2, <1>19, <1>20, Forget

\* CheckSourceArtifactProvider.
LEMMA CheckSourceArtifactProviderClears ==
  ASSUME NEW s, SourceSound(s), NEW order
  PROVE  Clears(s, Knows({}, {}, {}, {}) \X Memory, CheckSourceArtifactProvider(order), Memory \X Memory)
<1> DEFINE E == Knows({}, {}, {}, {})
           pairs == {p \in SourcePurpose \X SourcePurpose : p[1] # p[2]}
           block == [pair \in pairs |-> LedgerPair(pair[1], pair[2])]
           a == First(Manifest0)
           b == First(Candidate0)
           c == Call("main", Disclosure0, Matched)
           d == Call("main", Publication0, {"accepted"})
<1>1. /\ Asks(a, "main", Manifest0, {}, {"accepted"}) /\ Asks(b, "main", Candidate0, {}, {"accepted"})
      /\ Asks(c, "main", Disclosure0, {}, Matched)
  <2>1. Manifest0 \in Item /\ Candidate0 \in Item /\ Disclosure0 \in Item
    BY SourceFixtures DEF Sourced
  <2> QED
    BY <2>1, SourceCalls
<1> HIDE DEF a, b, c, d
<1>2. Clears(s, E \X Memory, PlanCalls(order), Planned(a) \X Memory)
  BY PlanCallsClear DEF a
<1>3. Clears(s, Planned(a) \X Memory, RetentionCalls(order), Kept(b) \X Memory)
  BY <1>1, RetentionCallsClear DEF b
<1>4. Clears(s, Kept(b) \X Memory, DisclosureCalls(order), Disclosed(c) \X Memory)
  BY <1>1, DisclosureCallsClear DEF c
<1>5. Clears(s, Disclosed(c) \X Memory, PublicationCalls(order), Published(d) \X Memory)
  BY <1>1, PublicationCallsClear DEF d
<1>6. Clears(s, Memory \X Memory, Each(order, block), Memory \X Memory)
  <2>1. Memory \X Memory \subseteq State
    BY DEF State
  <2>2. SourcePurpose = {"manifest-closure-plan", "candidate-closure-validate-retain",
                         "artifact-disclosure-verify", "artifact-publish"}
    BY DEF SourcePurpose
  <2>3. IsFiniteSet(SourcePurpose)
    BY <2>2, FewFinite
  <2>4. IsFiniteSet(SourcePurpose \X SourcePurpose)
    BY <2>3, FS_Product
  <2>5. IsFiniteSet(DOMAIN block)
    BY <2>4, FS_Subset
  <2>6. ASSUME NEW pair \in pairs PROVE Clears(s, Memory \X Memory, block[pair], Memory \X Memory)
    <3>1. pair[1] \in SourcePurpose /\ pair[2] \in SourcePurpose /\ pair[1] # pair[2]
      BY <2>6
    <3>2. block[pair] = LedgerPair(pair[1], pair[2])
      BY <2>6
    <3> HIDE DEF block
    <3> QED
      BY <3>1, <3>2, LedgerPairClears
  <2>7. DOMAIN block = pairs
    OBVIOUS
  <2> HIDE DEF block, pairs
  <2> QED
    BY <2>1, <2>5, <2>6, <2>7, EachClears
<1>7. CheckSourceArtifactProvider(order) =
        PlanCalls(order) \o RetentionCalls(order) \o DisclosureCalls(order) \o PublicationCalls(order)
        \o Each(order, block)
  BY Zenon DEF CheckSourceArtifactProvider
<1> HIDE DEF block, E
<1>8. Clears(s, E \X Memory, PlanCalls(order) \o RetentionCalls(order), Kept(b) \X Memory)
  BY <1>2, <1>3, ClearsBoth
<1>9. Clears(s, E \X Memory, PlanCalls(order) \o RetentionCalls(order) \o DisclosureCalls(order), Disclosed(c) \X Memory)
  BY <1>4, <1>8, ClearsBoth
<1>10. Clears(s, E \X Memory, PlanCalls(order) \o RetentionCalls(order) \o DisclosureCalls(order)
                 \o PublicationCalls(order), Published(d) \X Memory)
  BY <1>5, <1>9, ClearsBoth
<1>11. Published(d) \X Memory \subseteq Memory \X Memory
  BY KnowsMemory DEF Published
<1>12. Clears(s, E \X Memory, PlanCalls(order) \o RetentionCalls(order) \o DisclosureCalls(order)
                 \o PublicationCalls(order), Memory \X Memory)
  BY <1>10, <1>11, ClearsWider
<1> QED
  BY <1>6, <1>7, <1>12, ClearsBoth DEF E

-----------------------------------------------------------------------------
\* All suites, and the examination.

\* The whole of a suite, on a service whose flaws no call is meant for.
LEMMA SuiteClears ==
  ASSUME NEW name \in Suite, NEW s \in Specimen(name), Flaws(name, s) \subseteq Untested(name), NEW o
  PROVE  Clears(s, Knows({}, {}, {}, {}) \X Memory, Calls(name, o), Memory \X Memory)
<1> DEFINE E == Knows({}, {}, {}, {})
<1>1. /\ name \in LaunchSuites \cup EventSuites \cup {"source", "verifier", "authority"}
      /\ s.gates \in Seq(Gates(name))
  BY SpecimenAssumption
<1>2. E \X Memory \subseteq Memory \X Memory
  BY KnowsMemory
<1>3. /\ "launch" \in LaunchSuites /\ "scheduled launch" \in LaunchSuites
      /\ "events" \in EventSuites /\ "scheduled events" \in EventSuites
  BY DEF LaunchSuites, EventSuites
<1> HIDE DEF E
<1>4. CASE name = "launch"
  <2>0. name # "scheduled launch" /\ name # "events" /\ name # "scheduled events" /\ name # "source"
        /\ name # "verifier" /\ name # "authority"
    BY <1>4
  <2>1. Calls(name, o) = CheckExecutionProvider("provider-executed", o)
    BY <1>4, <2>0, Zenon DEF Calls
  <2>2. LaunchSound(s)
    BY <1>1, <1>3, <1>4, LaunchServices
  <2> QED
    BY <2>1, <2>2, CheckExecutionProviderClears
<1>5. CASE name = "scheduled launch"
  <2>0. name # "launch" /\ name # "events" /\ name # "scheduled events" /\ name # "source"
        /\ name # "verifier" /\ name # "authority"
    BY <1>5
  <2>1. Calls(name, o) = CheckExecutionProvider("participant-scheduled", o)
                         \o CheckParticipantScheduledProviderPolicy(o)
    BY <1>5, <2>0, Zenon DEF Calls
  <2>2. LaunchSound(s) /\ "policy" \in Range(s.gates)
    BY <1>1, <1>3, <1>5, LaunchServices
  <2>3. Clears(s, E \X Memory, CheckExecutionProvider("participant-scheduled", o), Memory \X Memory)
    BY <2>2, CheckExecutionProviderClears DEF E
  <2>4. Clears(s, Memory \X Memory, CheckParticipantScheduledProviderPolicy(o), Memory \X Memory)
    BY <2>2, CheckPolicyClears
  <2> QED
    BY <2>1, <2>3, <2>4, ClearsBoth DEF E
<1>6. CASE name = "events"
  <2>0. name # "launch" /\ name # "scheduled launch" /\ name # "scheduled events" /\ name # "source"
        /\ name # "verifier" /\ name # "authority"
    BY <1>6
  <2>1. Calls(name, o) = CheckExecutionEventSink("provider-executed", o)
    BY <1>6, <2>0, Zenon DEF Calls
  <2>2. EventSound(s)
    BY <1>1, <1>3, <1>6, EventServices
  <2> QED
    BY <2>1, <2>2, CheckExecutionEventSinkClears
<1>7. CASE name = "scheduled events"
  <2>0. name # "launch" /\ name # "scheduled launch" /\ name # "events" /\ name # "source"
        /\ name # "verifier" /\ name # "authority"
    BY <1>7
  <2>1. Calls(name, o) = CheckExecutionEventSink("participant-scheduled", o)
    BY <1>7, <2>0, Zenon DEF Calls
  <2>2. EventSound(s)
    BY <1>1, <1>3, <1>7, EventServices
  <2> QED
    BY <2>1, <2>2, CheckExecutionEventSinkClears
<1>8. CASE name = "source"
  <2>0. name # "launch" /\ name # "scheduled launch" /\ name # "events" /\ name # "scheduled events"
        /\ name # "verifier" /\ name # "authority"
    BY <1>8
  <2>1. Calls(name, o) = CheckSourceArtifactProvider(o)
    BY <1>8, <2>0, Zenon DEF Calls
  <2>2. SourceSound(s)
    BY <1>1, <1>8, SourceServices
  <2> QED
    BY <2>1, <2>2, CheckSourceArtifactProviderClears
<1>9. CASE name = "verifier"
  <2>0. name # "launch" /\ name # "scheduled launch" /\ name # "events" /\ name # "scheduled events"
        /\ name # "source" /\ name # "authority"
    BY <1>9
  <2>1. Calls(name, o) = CheckOperationGrantVerifier(o)
    BY <1>9, <2>0, Zenon DEF Calls
  <2>2. VerifierSound(s)
    BY <1>1, <1>9, VerifierServices
  <2> QED
    BY <2>1, <2>2, CheckOperationGrantVerifierClears
<1>10. CASE name = "authority"
  <2>0. name # "launch" /\ name # "scheduled launch" /\ name # "events" /\ name # "scheduled events"
        /\ name # "source" /\ name # "verifier"
    BY <1>10
  <2>1. Calls(name, o) = CheckOperationGrantAuthority(o)
    BY <1>10, <2>0, Zenon DEF Calls
  <2>2. AuthoritySound(s)
    BY <1>1, <1>10, AuthorityServices
  <2>3. Clears(s, Memory \X Memory, CheckOperationGrantAuthority(o), Memory \X Memory)
    BY <2>2, CheckOperationGrantAuthorityClears
  <2> QED
    BY <1>2, <2>1, <2>3, ClearsWider DEF E
<1> QED
  BY <1>1, <1>4, <1>5, <1>6, <1>7, <1>8, <1>9, <1>10 DEF LaunchSuites, EventSuites

\* What holds throughout an examination: no violation so far, and the next call is
\* reached with memories its annotation allows for.
Examined ==
  /\ suite \in Suite /\ service \in Specimen(suite) /\ mapOrder \in Order
  /\ script \in Seq(CallType)
  /\ violations = {}
  /\ \E L : /\ Annotates(service, script, L)
            /\ next \in 1 .. Len(script) + 1
            /\ <<main, fresh>> \in L[next]
ConformanceInv == Flaws(suite, service) \subseteq Untested(suite) => Examined

\* The script is the calls of the suite.
LEMMA ScriptIs ==
  ASSUME suite \in Suite, mapOrder \in Order
  PROVE  script = Calls(suite, mapOrder)
<1> DEFINE fits(x) == x.suite = suite /\ x.order = mapOrder
           mine == [suite |-> suite, order |-> mapOrder, calls |-> Calls(suite, mapOrder)]
<1>1. mine \in Script /\ fits(mine)
  BY DEF Script
<1>2. ASSUME NEW x \in Script, fits(x) PROVE x.calls = Calls(suite, mapOrder)
  <2>1. PICK name \in Suite, o \in Order : x = [suite |-> name, order |-> o, calls |-> Calls(name, o)]
    BY <1>2 DEF Script
  <2> QED
    BY <1>2, <2>1
<1>3. script = (CHOOSE x \in Script : fits(x)).calls
  BY DEF script
<1> DEFINE chosen == CHOOSE x \in Script : fits(x)
<1>4. chosen \in Script /\ fits(chosen)
  <2> HIDE DEF mine, fits
  <2> QED
    BY <1>1
<1> QED
  BY <1>2, <1>3, <1>4

\* An examination starts with empty memories.
LEMMA ExaminationStarts == Init => ConformanceInv
<1> SUFFICES ASSUME Init, Flaws(suite, service) \subseteq Untested(suite) PROVE Examined
  BY DEF ConformanceInv
<1>1. /\ suite \in Suite /\ service \in Specimen(suite) /\ mapOrder \in Order
      /\ next = 1 /\ main = Empty /\ fresh = Empty /\ violations = {}
  BY DEF Init
<1>2. script = Calls(suite, mapOrder)
  BY <1>1, ScriptIs
<1>3. Clears(service, Knows({}, {}, {}, {}) \X Memory, Calls(suite, mapOrder), Memory \X Memory)
  BY <1>1, SuiteClears
<1>4. script \in Seq(CallType)
        /\ \E L : Annotates(service, script, L) /\ Knows({}, {}, {}, {}) \X Memory \subseteq L[1]
  BY <1>2, <1>3 DEF Clears
<1>5. PICK L : Annotates(service, script, L) /\ Knows({}, {}, {}, {}) \X Memory \subseteq L[1]
  BY <1>4
<1>6. <<main, fresh>> \in Knows({}, {}, {}, {}) \X Memory
  BY <1>1, EmptyKnows DEF Knows
<1>7. <<main, fresh>> \in L[next]
  BY <1>1, <1>5, <1>6
<1>8. next \in 1 .. Len(script) + 1
  BY <1>1, <1>4
<1> QED
  BY <1>1, <1>4, <1>5, <1>7, <1>8 DEF Examined

\* The next call is answered rightly, and the suite goes on with the one after it.
LEMMA ExaminationGoesOn == ConformanceInv /\ [Next]_vars => ConformanceInv'
<1> SUFFICES ASSUME ConformanceInv, [Next]_vars, (Flaws(suite, service) \subseteq Untested(suite))' PROVE Examined'
  BY DEF ConformanceInv
<1>1. suite' = suite /\ service' = service /\ mapOrder' = mapOrder
  BY DEF Next, CallMain, CallFresh, Judge, vars
<1>2. script' = script
  BY <1>1 DEF script, Script
<1>3. Examined
  BY <1>1 DEF ConformanceInv
<1>4. PICK L : Annotates(service, script, L) /\ next \in 1 .. Len(script) + 1 /\ <<main, fresh>> \in L[next]
  BY <1>3 DEF Examined
<1>5. Len(script) \in Nat /\ next \in Nat
  BY <1>3, <1>4 DEF Examined
<1>6. ASSUME NEW call, NEW answer, Judge(call, answer), next <= Len(script),
             answer \in call.want \ (call.skips \cup call.ends), <<main, fresh>>' \in L[next + 1]
      PROVE  Examined'
  <2>1. answer \notin call.ends /\ answer \notin call.skips \ call.ends /\ answer \in call.want
    BY <1>6
  <2>2. Continue(call, answer) = next + 1
    BY <2>1, Zenon DEF Continue
  <2>3. violations' = {}
    BY <1>3, <1>6, <2>1 DEF Judge, Examined
  <2>4. next' = next + 1 /\ next + 1 \in 1 .. Len(script) + 1
    BY <1>5, <1>6, <2>2 DEF Judge
  <2>5. \E M : /\ Annotates(service, script, M) /\ next' \in 1 .. Len(script) + 1 /\ <<main, fresh>>' \in M[next']
    BY <1>4, <1>6, <2>4
  <2> QED
    BY <1>1, <1>2, <1>3, <2>3, <2>5 DEF Examined
<1>7. ASSUME next <= Len(script) PROVE Leads(service, script[next], L[next], L[next + 1])
  <2>1. next \in 1 .. Len(script)
    BY <1>4, <1>5, <1>7
  <2> QED
    BY <1>4, <2>1 DEF Annotates
<1>8. CASE CallMain
  <2> DEFINE call == script[next]
             answer == Reply(service, main, call)
  <2>1. /\ next <= Len(script) /\ call.on = "main" /\ Judge(call, answer)
        /\ main' = Remembered(service, main, call, answer) /\ fresh' = fresh
    BY <1>8 DEF CallMain
  <2>2. Leads(service, call, L[next], L[next + 1])
    BY <1>7, <2>1
  <2> HIDE DEF call
  <2>3. /\ answer \in call.want \ (call.skips \cup call.ends)
        /\ <<Remembered(service, main, call, answer), fresh>> \in L[next + 1]
    BY <1>4, <2>1, <2>2 DEF Leads
  <2> HIDE DEF answer
  <2>4. <<main', fresh'>> \in L[next + 1]
    BY <2>1, <2>3
  <2> QED
    BY <1>6, <2>1, <2>3, <2>4
<1>9. CASE CallFresh
  <2> DEFINE call == script[next]
             memory == IF call.on = "fresh" THEN Empty ELSE fresh
             answer == Reply(service, memory, call)
  <2>1. /\ next <= Len(script) /\ call.on # "main" /\ Judge(call, answer)
        /\ fresh' = Remembered(service, memory, call, answer) /\ main' = main
    BY <1>9 DEF CallFresh
  <2>2. Leads(service, call, L[next], L[next + 1])
    BY <1>7, <2>1
  <2> HIDE DEF call
  <2>3. /\ answer \in call.want \ (call.skips \cup call.ends)
        /\ <<main, Remembered(service, memory, call, answer)>> \in L[next + 1]
    BY <1>4, <2>1, <2>2 DEF Leads
  <2> HIDE DEF answer
  <2>4. <<main', fresh'>> \in L[next + 1]
    BY <2>1, <2>3
  <2> QED
    BY <1>6, <2>1, <2>3, <2>4
<1>10. CASE UNCHANGED vars
  <2>1. next' = next /\ main' = main /\ fresh' = fresh /\ violations' = violations
    BY <1>10 DEF vars
  <2>2. \E M : /\ Annotates(service, script, M) /\ next' \in 1 .. Len(script) + 1 /\ <<main', fresh'>> \in M[next']
    BY <1>4, <2>1
  <2> QED
    BY <1>1, <1>2, <1>3, <2>1, <2>2 DEF Examined
<1> QED
  BY <1>8, <1>9, <1>10 DEF Next

\* A suite that examines a service with untested flaws only reaches each of its calls
\* (launch, event, source and grant suites of contract4competiostest) with memories from
\* which that call is answered as the suite wants, and reports nothing.
THEOREM ConformanceInvariance == Spec => []ConformanceInv
<1>1. Init => ConformanceInv
  BY ExaminationStarts
<1>2. ConformanceInv /\ [Next]_vars => ConformanceInv'
  BY ExaminationGoesOn
<1> QED
  BY <1>1, <1>2, PTL DEF Spec

\* No false alarm: whichever gates a service runs first and whichever order Go ranges
\* over the mutation maps in, a suite reports no violation of a service whose only
\* flaws are those no call of the suite is meant for.
THEOREM NoFalseAlarm == Spec => []AlarmsOnlyForFlaws
<1>1. ConformanceInv => AlarmsOnlyForFlaws
  BY DEF ConformanceInv, Examined, AlarmsOnlyForFlaws
<1> QED
  BY <1>1, ConformanceInvariance, PTL

====
