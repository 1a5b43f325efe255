--------------------------- MODULE MemoryVerifier ---------------------------
(***************************************************************************)
(* The verifier over MemoryReplayStore: one process, one map under a       *)
(* mutex, swept of expired entries at the start of every Seen.  Seen reads *)
(* the clock again, after the parse judged the token's window.             *)
(***************************************************************************)
EXTENDS GrantVerifier

VARIABLES seen,      \* MemoryReplayStore.seen: jti -> expiresAt, as a set of entries
          granted,   \* history: grants answered for each token ID by this process
          early      \* history: those whose Seen read a clock before the token's expiry

vars == <<now, tokens, flight, outcome, seen, granted, early>>
storeVars == <<seen, granted, early>>

\* The histories tell none, one and several apart, and count no further.
Several == 2
CountUp(n) == IF n < Several THEN n + 1 ELSE Several

Entry == [jti : TokenID, expiresAt : Int]

TypeOK == /\ VerifierTypeOK
          /\ seen \subseteq Entry
          /\ granted \in [TokenID -> 0 .. Several]
          /\ early \in [TokenID -> 0 .. Several]

Init == /\ VerifierInit
        /\ seen = {}
        /\ granted = [j \in TokenID |-> 0]
        /\ early = [j \in TokenID |-> 0]

\* Faulty: an entry is swept a tick before its token expires.
SweptEarly(t) == {e \in seen : e.expiresAt > t + 1}

\* Faulty: nothing is swept.
SweptNever(t) == {e \in seen : t = t}

\* Faulty: the whole map is reset.
SweptAll(t) == {e \in seen : t # t}

\* sweepLocked: entries whose expiresAt is not after the reading are deleted.
Swept(t) == {e \in seen : e.expiresAt > t}

\* Faulty: an entry is stored under the key ID of its token.
SeenByKey(f) ==
  /\ \E t \in Reading :
       /\ \A e \in Swept(t) : e.jti # f.token.jti
       /\ seen' = Swept(t) \cup {[jti |-> f.token.kid, expiresAt |-> f.token.exp]}
  /\ Answer(f, "accepted")
  /\ UNCHANGED <<now, tokens, granted, early>>

Seen(f) ==
  LET j == f.token.jti
  IN  /\ \E t \in Reading :
           \/ /\ \E e \in Swept(t) : e.jti = j
              /\ seen' = Swept(t)
              /\ Answer(f, "conflict")
              /\ UNCHANGED <<granted, early>>
           \/ /\ \A e \in Swept(t) : e.jti # j
              /\ seen' = Swept(t) \cup {[jti |-> j, expiresAt |-> f.token.exp]}
              /\ Answer(f, "accepted")
              /\ granted' = [granted EXCEPT ![j] = CountUp(@)]
              /\ early' = [early EXCEPT ![j] = IF t < f.token.exp THEN CountUp(@) ELSE @]
      /\ UNCHANGED <<now, tokens>>

\* The process restarts with an empty map: the store is not durable.
Restart == /\ Abandon(Caller)
           /\ seen' = {}
           /\ granted' = [j \in TokenID |-> 0]
           /\ early' = [j \in TokenID |-> 0]
           /\ UNCHANGED <<now, tokens>>

Next == \/ \E j \in TokenID, k \in Key, p \in Purpose : Issue(j, k, p) /\ UNCHANGED storeVars
        \/ \E c \in Caller, tok \in tokens : Present(c, tok) /\ UNCHANGED storeVars
        \/ \E f \in flight : Seen(f)
        \/ Restart
        \/ Tick /\ UNCHANGED storeVars

Spec == Init /\ [][Next]_vars

-----------------------------------------------------------------------------
\* Within one process, of the presentations that reach Seen before the token
\* expires only one is granted, whatever else was swept meanwhile
\* (replay_memory.go:43-49).
SingleUseBeforeExpiry == \A j \in TokenID : early[j] <= 1

\* A call leaves at most one expired entry behind, its own: entries do not pile
\* up over the life of the process (replay_memory.go:29-33, 44).
SweepKeepsUp ==
  [][ seen' # seen => \A a, b \in seen' :
        a.expiresAt <= now /\ b.expiresAt <= now => a = b ]_vars

\* Once an entry is swept "there is no unexpired token that could carry that
\* jti again" (replay_memory.go:29-33): no token ID is granted twice by one
\* process.
SweptNeverReappears == \A j \in TokenID : granted[j] <= 1
=============================================================================
