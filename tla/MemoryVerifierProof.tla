------------------------ MODULE MemoryVerifierProof ------------------------
(***************************************************************************)
(* Theorems about MemoryVerifier, for every number of callers, tokens and  *)
(* keys and every leeway, in one process whose clock does not go back.     *)
(***************************************************************************)
EXTENDS MemoryVerifier, TLAPS

\* All readings are of one clock.
OneClock == Skew = 0

\* A token is known by its ID.
TokensDistinct == \A a, b \in tokens : a.jti = b.jti => a = b

FlightsIssued == \A f \in flight : f.token \in tokens

\* An entry carries the expiry of its token.
EntriesTrue == \A e \in seen : \E tok \in tokens : tok.jti = e.jti /\ tok.exp = e.expiresAt

\* What was granted in time is remembered until it has expired.
GrantedRemembered ==
  \A j \in TokenID : early[j] > 0 =>
    \E tok \in tokens : /\ tok.jti = j
                        /\ now >= tok.exp \/ \E e \in seen : e.jti = j

\* The inductive invariant.
IInv == /\ TypeOK /\ TokensDistinct /\ FlightsIssued
        /\ EntriesTrue /\ GrantedRemembered
        /\ SingleUseBeforeExpiry

-----------------------------------------------------------------------------
LEMMA CountUpType ==
  ASSUME NEW n \in 0 .. Several PROVE CountUp(n) \in 0 .. Several /\ (n = 0 => CountUp(n) = 1)
BY DEF CountUp, Several

\* Nothing is issued at first.
LEMMA InitIInv == Init => IInv
BY DEF Init, VerifierInit, IInv, TypeOK, VerifierTypeOK, Outcome, Several, TokensDistinct,
       FlightsIssued, EntriesTrue, GrantedRemembered, SingleUseBeforeExpiry

\* The signed claims are a token whatever the issuer's clock reads.
LEMMA SignedTokenType ==
  ASSUME NEW j \in TokenID, NEW k \in Key, NEW p \in Purpose, NEW t \in Int
  PROVE  SignedToken(j, k, p, t) \in Token /\ SignedToken(j, k, p, t).jti = j
<1>1. Second \in Int /\ Second > 0 /\ TokenLifetime \in Int
  BY WindowAssumption
<1>2. \A u \in Int : NumericDate(u) \in Int
  BY <1>1 DEF NumericDate
<1>3. t + TokenLifetime \in Int
  BY <1>1
<1> QED
  BY <1>2, <1>3 DEF SignedToken, Token

\* A fresh token stands beside what there is.
LEMMA IssueStep ==
  ASSUME IInv, NEW j \in TokenID, NEW k \in Key, NEW p \in Purpose,
         Issue(j, k, p), UNCHANGED storeVars
  PROVE  IInv'
<1> USE DEF IInv
<1>1. PICK t \in Reading : tokens' = tokens \cup {SignedToken(j, k, p, t)}
  BY DEF Issue
<1>2. t \in Int
  BY <1>1, VerifierAssumption DEF Reading, TypeOK, VerifierTypeOK
<1> DEFINE new == SignedToken(j, k, p, t)
<1>3. new \in Token /\ new.jti = j
  BY <1>2, SignedTokenType
<1> HIDE DEF new
<1>4. tokens' = tokens \cup {new}
  BY <1>1 DEF new
<1>5. /\ UNCHANGED <<now, flight, outcome, seen, granted, early>>
      /\ \A tok \in tokens : tok.jti # j
  BY DEF Issue, storeVars
<1>6. TypeOK'
  BY <1>3, <1>4, <1>5 DEF TypeOK, VerifierTypeOK
<1>7. TokensDistinct'
  BY <1>3, <1>4, <1>5 DEF TokensDistinct
<1>8. FlightsIssued' /\ EntriesTrue' /\ GrantedRemembered' /\ SingleUseBeforeExpiry'
  BY <1>4, <1>5 DEF FlightsIssued, EntriesTrue, GrantedRemembered, SingleUseBeforeExpiry
<1> QED
  BY <1>6, <1>7, <1>8

\* A presentation adds at most its flight.
LEMMA PresentStep ==
  ASSUME IInv, NEW c \in Caller, NEW tok \in tokens, Present(c, tok), UNCHANGED storeVars
  PROVE  IInv'
<1> USE DEF IInv
<1> DEFINE new == [caller |-> c, token |-> tok, since |-> now, step |-> "get", attempt |-> 1]
<1>1. UNCHANGED <<now, tokens, seen, granted, early>>
  BY DEF Present, storeVars
<1>2. PICK t \in Reading :
        /\ outcome' = [outcome EXCEPT ![c] = Verdict(tok, t)]
        /\ flight' = IF Verdict(tok, t) = "pending" THEN flight \cup {new} ELSE flight
  BY DEF Present
<1>3. Verdict(tok, t) \in Outcome
  BY DEF Verdict, Outcome
<1>4. new \in Flight /\ new.token = tok
  BY DEF Flight, TypeOK, VerifierTypeOK
<1>5. TypeOK'
  BY <1>1, <1>2, <1>3, <1>4 DEF TypeOK, VerifierTypeOK
<1>6. FlightsIssued'
  BY <1>1, <1>2, <1>4 DEF FlightsIssued
<1> QED
  BY <1>1, <1>5, <1>6 DEF TokensDistinct, EntriesTrue, GrantedRemembered, SingleUseBeforeExpiry

\* What the sweep drops has expired.
LEMMA SweptIsExpired ==
  ASSUME IInv, NEW tok \in tokens, NEW e \in seen, e.jti = tok.jti, e \notin Swept(now)
  PROVE  now >= tok.exp
<1>1. tok.exp = e.expiresAt
  BY DEF IInv, EntriesTrue, TokensDistinct
<1>2. e.expiresAt \in Int /\ now \in Int
  BY DEF IInv, TypeOK, VerifierTypeOK, Entry
<1> QED
  BY <1>1, <1>2 DEF Swept

\* An answer ends its flight.
LEMMA AnswerStep ==
  ASSUME IInv, NEW f \in flight, NEW o \in Outcome, Answer(f, o), UNCHANGED <<now, tokens>>
  PROVE  VerifierTypeOK' /\ TokensDistinct' /\ FlightsIssued'
BY DEF IInv, Answer, TypeOK, VerifierTypeOK, TokensDistinct, FlightsIssued

\* Seen grants a token in time only if no entry of it was ever there to be swept.
LEMMA SeenStep ==
  ASSUME OneClock, IInv, NEW f \in flight, Seen(f)
  PROVE  IInv'
<1> USE DEF IInv
<1> DEFINE j == f.token.jti
           new == [jti |-> j, expiresAt |-> f.token.exp]
<1>1. UNCHANGED <<now, tokens>>
  BY DEF Seen
<1>2. Reading = {now}
  BY DEF OneClock, Reading, TypeOK, VerifierTypeOK
<1>3. f.token \in tokens /\ f.token \in Token /\ j \in TokenID /\ new \in Entry
  BY DEF TypeOK, VerifierTypeOK, FlightsIssued, Token, Entry
<1>4. CASE /\ seen' = Swept(now) /\ Answer(f, "conflict")
           /\ UNCHANGED <<granted, early>>
  <2>1. VerifierTypeOK' /\ TokensDistinct' /\ FlightsIssued'
    BY <1>1, <1>4, AnswerStep DEF Outcome
  <2>2. Swept(now) \subseteq seen
    BY DEF Swept
  <2>3. TypeOK' /\ EntriesTrue' /\ SingleUseBeforeExpiry'
    BY <1>1, <1>4, <2>1, <2>2 DEF TypeOK, EntriesTrue, SingleUseBeforeExpiry
  <2>4. GrantedRemembered'
    BY <1>1, <1>4, SweptIsExpired DEF GrantedRemembered
  <2> QED
    BY <2>1, <2>3, <2>4
<1>5. CASE /\ \A e \in Swept(now) : e.jti # j
           /\ seen' = Swept(now) \cup {new} /\ Answer(f, "accepted")
           /\ granted' = [granted EXCEPT ![j] = CountUp(@)]
           /\ early' = [early EXCEPT ![j] = IF now < f.token.exp THEN CountUp(@) ELSE @]
  <2> HIDE DEF new, j
  <2>1. VerifierTypeOK' /\ TokensDistinct' /\ FlightsIssued'
    BY <1>1, <1>5, AnswerStep DEF Outcome
  <2>2. Swept(now) \subseteq seen
    BY DEF Swept
  <2>3. new.jti = j /\ new.expiresAt = f.token.exp
    BY DEF new
  <2>4. TypeOK'
    BY <1>3, <1>5, <2>1, <2>2, CountUpType DEF TypeOK
  <2>5. EntriesTrue'
    BY <1>1, <1>3, <1>5, <2>2, <2>3 DEF EntriesTrue, j
  <2>6. early[j] > 0 => ~(now < f.token.exp)
    <3> SUFFICES ASSUME early[j] > 0 PROVE ~(now < f.token.exp)
      OBVIOUS
    <3>1. PICK tok \in tokens : tok.jti = j /\ (now >= tok.exp \/ \E e \in seen : e.jti = j)
      BY <1>3 DEF GrantedRemembered
    <3>2. tok = f.token
      BY <1>3, <3>1 DEF TokensDistinct, j
    <3>3. now >= tok.exp
      BY <1>5, <3>1, SweptIsExpired
    <3> QED
      BY <1>3, <3>2, <3>3 DEF TypeOK, VerifierTypeOK, Token
  <2>7. SingleUseBeforeExpiry'
    <3>1. early[j] \in 0 .. Several
      BY <1>3 DEF TypeOK
    <3>2. early'[j] <= 1
      BY <1>3, <1>5, <2>6, <3>1, CountUpType DEF TypeOK, SingleUseBeforeExpiry, Several
    <3> QED
      BY <1>3, <1>5, <3>2 DEF TypeOK, SingleUseBeforeExpiry
  <2>8. GrantedRemembered'
    <3> SUFFICES ASSUME NEW i \in TokenID, early'[i] > 0
                 PROVE  \E tok \in tokens : /\ tok.jti = i
                                            /\ now >= tok.exp \/ \E e \in seen' : e.jti = i
      BY <1>1 DEF GrantedRemembered
    <3>1. CASE i = j
      BY <1>3, <1>5, <2>3, <3>1 DEF j
    <3>2. CASE i # j
      <4>1. early[i] > 0
        BY <1>5, <3>2 DEF TypeOK
      <4> QED
        BY <1>5, <4>1, SweptIsExpired DEF GrantedRemembered
    <3> QED
      BY <3>1, <3>2
  <2> QED
    BY <2>1, <2>4, <2>5, <2>7, <2>8
<1> QED
  BY <1>2, <1>4, <1>5 DEF Seen

\* An empty map and empty histories.
LEMMA RestartStep ==
  ASSUME IInv, Restart PROVE IInv'
BY DEF IInv, Restart, Abandon, TypeOK, VerifierTypeOK, Outcome, Several, TokensDistinct,
       FlightsIssued, EntriesTrue, GrantedRemembered, SingleUseBeforeExpiry

\* Time only goes on.
LEMMA TickStep ==
  ASSUME IInv, Tick, UNCHANGED storeVars PROVE IInv'
<1>1. now' = now + 1 /\ now \in Int /\ UNCHANGED <<tokens, flight, outcome, seen, granted, early>>
  BY DEF IInv, Tick, storeVars, TypeOK, VerifierTypeOK
<1>2. \A tok \in tokens : now >= tok.exp => now' >= tok.exp
  BY <1>1 DEF IInv, TypeOK, VerifierTypeOK, Token
<1> QED
  BY <1>1, <1>2 DEF IInv, TypeOK, VerifierTypeOK, TokensDistinct, FlightsIssued, EntriesTrue,
                    GrantedRemembered, SingleUseBeforeExpiry

\* Whatever is issued, presented, swept or forgotten in a restart.
THEOREM Invariance == ASSUME OneClock PROVE Spec => []IInv
<1>1. IInv /\ [Next]_vars => IInv'
  <2> SUFFICES ASSUME IInv, [Next]_vars PROVE IInv'
    OBVIOUS
  <2>1. CASE UNCHANGED vars
    BY <2>1 DEF vars, IInv, TypeOK, VerifierTypeOK, TokensDistinct, FlightsIssued, EntriesTrue,
                GrantedRemembered, SingleUseBeforeExpiry
  <2>2. ASSUME NEW j \in TokenID, NEW k \in Key, NEW p \in Purpose,
               Issue(j, k, p), UNCHANGED storeVars
        PROVE  IInv'
    BY <2>2, IssueStep
  <2>3. ASSUME NEW c \in Caller, NEW tok \in tokens, Present(c, tok), UNCHANGED storeVars
        PROVE  IInv'
    BY <2>3, PresentStep
  <2>4. ASSUME NEW f \in flight, Seen(f) PROVE IInv'
    BY <2>4, SeenStep
  <2>5. CASE Restart
    BY <2>5, RestartStep
  <2>6. CASE Tick /\ UNCHANGED storeVars
    BY <2>6, TickStep
  <2> QED
    BY <2>1, <2>2, <2>3, <2>4, <2>5, <2>6 DEF Next
<1> QED
  BY <1>1, InitIInv, PTL DEF Spec

\* Type correctness: entries, flights and histories are what their names say.
THEOREM TypeCorrect == ASSUME OneClock PROVE Spec => []TypeOK
<1>1. IInv => TypeOK
  BY DEF IInv
<1> QED
  BY <1>1, Invariance, PTL

\* One grant of a token before its expiry, whatever the sweep removed
\* (SingleUseBeforeExpiry).
THEOREM SingleUseInTime == ASSUME OneClock PROVE Spec => []SingleUseBeforeExpiry
<1>1. IInv => SingleUseBeforeExpiry
  BY DEF IInv
<1> QED
  BY <1>1, Invariance, PTL

\* The map is left with one expired entry at most by each call (SweepKeepsUp).
THEOREM MapStaysSwept == ASSUME OneClock PROVE Spec => SweepKeepsUp
<1> DEFINE Kept == seen' # seen => \A a, b \in seen' : a.expiresAt <= now /\ b.expiresAt <= now => a = b
<1>1. IInv /\ [Next]_vars => [Kept]_vars
  <2> SUFFICES ASSUME IInv, Next, seen' # seen PROVE Kept
    OBVIOUS
  <2>1. CASE Restart
    BY <2>1 DEF Restart
  <2>2. ASSUME NEW f \in flight, Seen(f) PROVE Kept
    <3>1. Reading = {now} /\ now \in Int /\ seen \subseteq Entry
      BY DEF OneClock, Reading, IInv, TypeOK, VerifierTypeOK
    <3>2. \A e \in Swept(now) : ~(e.expiresAt <= now)
      BY <3>1 DEF Swept, Entry
    <3>3. \/ seen' = Swept(now)
          \/ seen' = Swept(now) \cup {[jti |-> f.token.jti, expiresAt |-> f.token.exp]}
      BY <2>2, <3>1 DEF Seen
    <3> QED
      BY <3>2, <3>3
  <2>3. Restart \/ \E f \in flight : Seen(f)
    BY DEF Next, storeVars
  <2> HIDE DEF Kept
  <2> QED
    BY <2>1, <2>2, <2>3
<1> HIDE DEF Kept
<1>2. Spec => [][Kept]_vars
  BY <1>1, Invariance, PTL DEF Spec
<1> QED
  BY <1>2 DEF SweepKeepsUp, Kept
=============================================================================
