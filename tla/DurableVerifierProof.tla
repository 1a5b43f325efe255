----------------------- MODULE DurableVerifierProof -----------------------
(***************************************************************************)
(* Theorems about DurableVerifier, for every number of callers, tokens and *)
(* keys, every leeway, skew and retry bound.                               *)
(***************************************************************************)
EXTENDS DurableVerifier, TLAPS

\* A token is known by its ID.
TokensDistinct == \A a, b \in tokens : a.jti = b.jti => a = b

\* What passed the gates passed them no longer than MaxFlight ago.
FlightsAdmitted ==
  \A f \in flight : /\ f.token \in tokens
                    /\ f.token.kid \in TrustedKeys
                    /\ f.token.purpose \in Purposes
                    /\ f.since - Skew < f.token.exp + Leeway
                    /\ now <= f.since + MaxFlight

\* Only IDs of issued tokens are burned.
BurnedIssued == \A j \in burned : \E tok \in tokens : tok.jti = j

\* A record belongs to a burned ID and carries the expiry of its token.
RecordsTrue == \A r \in store : /\ r.jti \in burned
                                /\ \E tok \in tokens : tok.jti = r.jti /\ tok.exp = r.expiresAt

\* A record is missing only once it was old enough to be reclaimed.
MissingIsOld ==
  \A tok \in tokens :
    tok.jti \in burned /\ ~Recorded(tok.jti) => now + Skew >= tok.exp + Grace

\* Nothing is granted that was not burned.
GrantedBurned == \A j \in TokenID : granted[j] > 0 => j \in burned

\* The inductive invariant.
IInv == /\ TypeOK
        /\ TokensDistinct
        /\ FlightsAdmitted
        /\ BurnedIssued
        /\ RecordsTrue
        /\ MissingIsOld
        /\ GrantedBurned
        /\ RefusalBurnsNothing

-----------------------------------------------------------------------------
\* The signed claims are a token whatever the issuer's clock reads.
LEMMA SignedTokenType ==
  ASSUME NEW j \in TokenID, NEW k \in Key, NEW p \in Purpose, NEW t \in Int
  PROVE  /\ SignedToken(j, k, p, t) \in Token
         /\ SignedToken(j, k, p, t).jti = j
<1>1. Second \in Int /\ Second > 0 /\ TokenLifetime \in Int
  BY WindowAssumption
<1>2. \A u \in Int : NumericDate(u) \in Int
  BY <1>1 DEF NumericDate
<1>3. t + TokenLifetime \in Int
  BY <1>1
<1> QED
  BY <1>2, <1>3 DEF SignedToken, Token

\* A call still in flight has its token's record in reach: if the record of a
\* burned token is gone, no verification that passed its window can remain.
LEMMA InFlightRecorded ==
  ASSUME IInv, KeepsLongEnough, NEW f \in flight, f.token.jti \in burned
  PROVE  Recorded(f.token.jti)
<1>1. /\ f.token \in tokens
      /\ f.since - Skew < f.token.exp + Leeway
      /\ now <= f.since + MaxFlight
  BY DEF IInv, FlightsAdmitted
<1>2. /\ f.since \in Int /\ f.token.exp \in Int /\ now \in Int
      /\ Skew \in Int /\ Leeway \in Int /\ MaxFlight \in Int /\ Grace \in Int
  BY WindowAssumption, VerifierAssumption, StoreAssumption
     DEF IInv, TypeOK, VerifierTypeOK, Flight, Token
<1>3. ~(now + Skew >= f.token.exp + Grace)
  BY <1>1, <1>2 DEF KeepsLongEnough
<1> QED
  BY <1>1, <1>3 DEF IInv, MissingIsOld

\* The invariant holds before anything is issued.
LEMMA InitIInv == Init => IInv
<1> SUFFICES ASSUME Init PROVE IInv
  OBVIOUS
<1>1. TypeOK
  BY DEF Init, VerifierInit, TypeOK, VerifierTypeOK, Outcome
<1> QED
  BY <1>1 DEF Init, VerifierInit, IInv, TokensDistinct, FlightsAdmitted, BurnedIssued,
              RecordsTrue, MissingIsOld, GrantedBurned, RefusalBurnsNothing

-----------------------------------------------------------------------------
\* Actions that leave tokens, the store and the histories alone preserve the
\* part of the invariant that speaks of them.
LEMMA StoreUntouched ==
  ASSUME IInv, UNCHANGED <<now, tokens, store, burned, granted>>
  PROVE  /\ TokensDistinct' /\ BurnedIssued' /\ RecordsTrue' /\ MissingIsOld'
         /\ GrantedBurned' /\ RefusalBurnsNothing'
         /\ now' \in Int /\ tokens' \subseteq Token
         /\ store' \subseteq Record /\ burned' \subseteq TokenID /\ granted' \in [TokenID -> Nat]
BY DEF IInv, TokensDistinct, BurnedIssued, RecordsTrue, MissingIsOld, GrantedBurned,
       RefusalBurnsNothing, TypeOK, VerifierTypeOK, Recorded

\* A fresh token disturbs no record: its ID was never issued, hence never burned.
LEMMA IssueStep ==
  ASSUME IInv, NEW j \in TokenID, NEW k \in Key, NEW p \in Purpose,
         Issue(j, k, p), UNCHANGED storeVars
  PROVE  IInv'
<1> USE DEF IInv
<1>1. PICK t \in Reading : tokens' = tokens \cup {SignedToken(j, k, p, t)}
  BY DEF Issue
<1>2. t \in Int
  BY <1>1, VerifierAssumption DEF Reading, TypeOK, VerifierTypeOK
<1> DEFINE new == SignedToken(j, k, p, t)
<1>3. new \in Token /\ new.jti = j
  BY <1>2, SignedTokenType
<1> HIDE DEF new
<1>4. tokens' = tokens \cup {new}
  BY <1>1 DEF new
<1>5. /\ UNCHANGED <<now, flight, outcome, store, burned, granted>>
      /\ \A tok \in tokens : tok.jti # j
  BY DEF Issue, storeVars
<1>6. j \notin burned
  BY <1>5 DEF BurnedIssued
<1>7. TypeOK'
  BY <1>3, <1>4, <1>5 DEF TypeOK, VerifierTypeOK
<1>8. TokensDistinct'
  BY <1>3, <1>4, <1>5 DEF TokensDistinct
<1>9. FlightsAdmitted' /\ BurnedIssued' /\ RecordsTrue'
  BY <1>4, <1>5 DEF FlightsAdmitted, BurnedIssued, RecordsTrue
<1>10. MissingIsOld' /\ RefusalBurnsNothing'
  BY <1>3, <1>4, <1>5, <1>6 DEF MissingIsOld, RefusalBurnsNothing, Recorded
<1>11. GrantedBurned'
  BY <1>5 DEF GrantedBurned
<1> QED
  BY <1>7, <1>8, <1>9, <1>10, <1>11

\* A presentation that passes the gates starts a flight within the window; one that does
\* not changes only what its caller was told.
LEMMA PresentStep ==
  ASSUME IInv, NEW c \in Caller, NEW tok \in tokens, Present(c, tok), UNCHANGED storeVars
  PROVE  IInv'
<1> USE DEF IInv
<1>1. UNCHANGED <<now, tokens, store, burned, granted>>
  BY DEF Present, storeVars
<1>2. PICK t \in Reading :
        /\ outcome' = [outcome EXCEPT ![c] = Verdict(tok, t)]
        /\ flight' = IF Verdict(tok, t) = "pending"
                     THEN flight \cup {[caller |-> c, token |-> tok, since |-> now,
                                        step |-> "get", attempt |-> 1]}
                     ELSE flight
  BY DEF Present
<1>3. Verdict(tok, t) \in Outcome
  BY DEF Verdict, Outcome
<1> DEFINE new == [caller |-> c, token |-> tok, since |-> now, step |-> "get", attempt |-> 1]
<1>4. new \in Flight
  BY DEF Flight, TypeOK, VerifierTypeOK
<1>5. TypeOK'
  BY <1>1, <1>2, <1>3, <1>4, StoreUntouched DEF TypeOK, VerifierTypeOK
<1>6. Verdict(tok, t) = "pending" => /\ tok.kid \in TrustedKeys
                                    /\ tok.purpose \in Purposes
                                    /\ ~Expired(tok, t)
  BY DEF Verdict
<1>7. t \in Int /\ t >= now - Skew /\ now \in Int /\ MaxFlight \in Nat
      /\ tok.exp \in Int /\ Leeway \in Int /\ Skew \in Int
  BY VerifierAssumption, WindowAssumption DEF Reading, TypeOK, VerifierTypeOK, Token
<1>8. Verdict(tok, t) = "pending" =>
        /\ new.token \in tokens /\ new.token.kid \in TrustedKeys /\ new.token.purpose \in Purposes
        /\ new.since - Skew < new.token.exp + Leeway
        /\ now <= new.since + MaxFlight
  BY <1>6, <1>7 DEF Expired
<1>9. FlightsAdmitted'
  BY <1>1, <1>2, <1>8 DEF FlightsAdmitted
<1> QED
  BY <1>1, <1>5, <1>9, StoreUntouched

\* A body that runs again is the same verification, of the same age.
LEMMA RerunType ==
  ASSUME IInv, NEW f \in flight, Rerun(f)
  PROVE  /\ flight' \subseteq Flight
         /\ \A g \in flight' : \E h \in flight : g.token = h.token /\ g.since = h.since
<1>1. f \in Flight /\ flight \subseteq Flight
  BY DEF IInv, TypeOK, VerifierTypeOK
<1>2. f.attempt + 1 \in Nat
  BY <1>1 DEF Flight
<1>3. [f EXCEPT !.step = "get", !.attempt = f.attempt + 1] \in Flight
  BY <1>1, <1>2 DEF Flight
<1> QED
  BY <1>1, <1>3 DEF Rerun, Flight

\* The read of the transaction writes nothing.
LEMMA TxGetStep ==
  ASSUME IInv, NEW f \in flight, TxGet(f)
  PROVE  IInv'
<1> USE DEF IInv
<1>1. UNCHANGED <<now, tokens, store, burned, granted>>
  BY DEF TxGet
<1>2. f \in Flight
  BY DEF TypeOK, VerifierTypeOK
<1>3. TypeOK'
  <2>1. CASE Answer(f, "conflict") \/ Answer(f, "failed")
    BY <1>1, <1>2, <2>1, StoreUntouched DEF Answer, TypeOK, VerifierTypeOK, Outcome, Flight
  <2>2. CASE flight' = (flight \ {f}) \cup {[f EXCEPT !.step = "set"]} /\ UNCHANGED outcome
    <3>1. [f EXCEPT !.step = "set"] \in Flight
      BY <1>2 DEF Flight
    <3> QED
      BY <1>1, <2>2, <3>1, StoreUntouched DEF TypeOK, VerifierTypeOK
  <2> QED
    BY <2>1, <2>2 DEF TxGet
<1>4. \A g \in flight' : \E h \in flight : g.token = h.token /\ g.since = h.since
  BY <1>2 DEF TxGet, Answer, Flight
<1>5. FlightsAdmitted'
  BY <1>1, <1>4 DEF FlightsAdmitted
<1> QED
  BY <1>1, <1>3, <1>5, StoreUntouched

\* A refused commit writes nothing, whether it is retried or given up.
LEMMA TxAbortStep ==
  ASSUME IInv, NEW f \in flight, TxAbort(f)
  PROVE  IInv'
<1> USE DEF IInv
<1>1. UNCHANGED <<now, tokens, store, burned, granted>>
  BY DEF TxAbort
<1>2. f \in Flight
  BY DEF TypeOK, VerifierTypeOK
<1>3. TypeOK'
  <2>1. CASE Answer(f, "failed")
    BY <1>1, <1>2, <2>1, StoreUntouched DEF Answer, TypeOK, VerifierTypeOK, Outcome, Flight
  <2>2. CASE Rerun(f)
    BY <1>1, <2>2, RerunType, StoreUntouched DEF Rerun, TypeOK, VerifierTypeOK
  <2> QED
    BY <2>1, <2>2 DEF TxAbort
<1>4. \A g \in flight' : \E h \in flight : g.token = h.token /\ g.since = h.since
  BY <1>2, RerunType DEF TxAbort, Answer, Flight
<1>5. FlightsAdmitted'
  BY <1>1, <1>4 DEF FlightsAdmitted
<1> QED
  BY <1>1, <1>3, <1>5, StoreUntouched

\* A commit burns the ID of a token that passed every gate and records its expiry.
LEMMA TxCommitStep ==
  ASSUME IInv, NEW f \in flight, TxCommit(f)
  PROVE  IInv'
<1> USE DEF IInv
<1> DEFINE j == f.token.jti
           new == [jti |-> j, expiresAt |-> f.token.exp]
<1>1. f \in Flight /\ f.token \in tokens /\ f.token \in Token /\ j \in TokenID
  BY DEF TypeOK, VerifierTypeOK, FlightsAdmitted, Flight, Token
<1>2. /\ UNCHANGED <<now, tokens>>
      /\ store' = store \cup {new}
      /\ burned' = burned \cup {j}
      /\ ~Recorded(j)
  BY DEF TxCommit
<1>5. granted' \in {granted, [granted EXCEPT ![j] = @ + 1]}
  BY DEF TxCommit
<1>3. /\ flight' \subseteq Flight
      /\ \A g \in flight' : \E h \in flight : g.token = h.token /\ g.since = h.since
      /\ outcome' \in [Caller -> Outcome]
  <2>1. CASE Answer(f, "accepted") \/ Answer(f, "failed")
    BY <2>1 DEF Answer, TypeOK, VerifierTypeOK, Outcome
  <2>2. CASE Rerun(f)
    BY <2>2, RerunType DEF Rerun, TypeOK, VerifierTypeOK
  <2> QED
    BY <2>1, <2>2 DEF TxCommit
<1>6. TypeOK'
  <2>1. new \in Record
    BY <1>1 DEF Record, Token
  <2>2. granted' \in [TokenID -> Nat]
    BY <1>1, <1>5 DEF TypeOK
  <2> QED
    BY <1>1, <1>2, <1>3, <2>1, <2>2 DEF TypeOK, VerifierTypeOK
<1>7. TokensDistinct' /\ FlightsAdmitted' /\ BurnedIssued'
  BY <1>1, <1>2, <1>3 DEF TokensDistinct, FlightsAdmitted, BurnedIssued
<1>8. RecordsTrue'
  BY <1>1, <1>2 DEF RecordsTrue
<1>9. MissingIsOld'
  <2>1. Recorded(j)'
    <3>1. new \in store' /\ new.jti = j
      BY <1>2
    <3> HIDE DEF new, j
    <3> QED
      BY <3>1 DEF Recorded
  <2>2. \A i \in TokenID : i # j => (Recorded(i)' <=> Recorded(i))
    BY <1>2 DEF Recorded
  <2>3. \A tok \in tokens : tok.jti \in TokenID
    BY DEF TypeOK, VerifierTypeOK, Token
  <2> QED
    BY <1>2, <2>1, <2>2, <2>3 DEF MissingIsOld
<1>10. GrantedBurned'
  BY <1>1, <1>2, <1>5 DEF GrantedBurned, TypeOK
<1>11. RefusalBurnsNothing'
  BY <1>1, <1>2 DEF RefusalBurnsNothing, FlightsAdmitted, TokensDistinct
<1> QED
  BY <1>6, <1>7, <1>8, <1>9, <1>10, <1>11

\* What the cleanup takes was old enough to be taken.
LEMMA ReclaimStep ==
  ASSUME IInv, NEW r \in store, Reclaim(r)
  PROVE  IInv'
<1> USE DEF IInv
<1>1. /\ UNCHANGED <<now, tokens, flight, outcome, burned, granted>>
      /\ store' = store \ {r}
  BY DEF Reclaim
<1>2. r.expiresAt \in Int /\ now \in Int /\ Skew \in Int /\ Grace \in Int
  BY VerifierAssumption, StoreAssumption DEF TypeOK, VerifierTypeOK, Record
<1>3. now + Skew >= r.expiresAt + Grace
  BY <1>2 DEF Reclaim, Reading
<1>4. TypeOK'
  BY <1>1 DEF TypeOK, VerifierTypeOK
<1>5. MissingIsOld'
  <2> SUFFICES ASSUME NEW tok \in tokens, tok.jti \in burned, ~(Recorded(tok.jti)')
               PROVE  now + Skew >= tok.exp + Grace
    BY <1>1 DEF MissingIsOld, Recorded
  <2>1. CASE Recorded(tok.jti)
    <3>1. tok.jti = r.jti
      BY <1>1, <2>1 DEF Recorded
    <3>2. tok.exp = r.expiresAt
      BY <3>1 DEF RecordsTrue, TokensDistinct
    <3> QED
      BY <1>3, <3>2
  <2>2. CASE ~Recorded(tok.jti)
    BY <2>2 DEF MissingIsOld
  <2> QED
    BY <2>1, <2>2
<1> QED
  BY <1>1, <1>4, <1>5 DEF TokensDistinct, FlightsAdmitted, BurnedIssued, RecordsTrue,
                          GrantedBurned, RefusalBurnsNothing

\* A restart only takes flights away.
LEMMA RestartStep ==
  ASSUME IInv, Restart
  PROVE  IInv'
<1> USE DEF IInv
<1>1. UNCHANGED <<now, tokens, store, burned, granted>> /\ flight' \subseteq flight
  BY DEF Restart, Abandon
<1>2. TypeOK'
  BY <1>1, StoreUntouched DEF Restart, Abandon, TypeOK, VerifierTypeOK, Outcome
<1> QED
  BY <1>1, <1>2, StoreUntouched DEF FlightsAdmitted

\* Time passes no flight that is as old as a flight may get.
LEMMA TickStep ==
  ASSUME IInv, Tick, UNCHANGED storeVars
  PROVE  IInv'
<1> USE DEF IInv
<1>1. UNCHANGED <<tokens, flight, outcome, store, burned, granted>> /\ now' = now + 1
  BY DEF Tick, storeVars
<1>2. TypeOK'
  BY <1>1 DEF TypeOK, VerifierTypeOK
<1>3. FlightsAdmitted'
  <2> SUFFICES ASSUME NEW f \in flight PROVE now' <= f.since + MaxFlight
    BY <1>1 DEF FlightsAdmitted
  <2>1. now < f.since + MaxFlight /\ now \in Int /\ f.since \in Int /\ MaxFlight \in Int
    BY VerifierAssumption DEF Tick, TypeOK, VerifierTypeOK, Flight
  <2> QED
    BY <1>1, <2>1
<1>4. MissingIsOld'
  <2> SUFFICES ASSUME NEW tok \in tokens, tok.jti \in burned, ~Recorded(tok.jti)
               PROVE  now' + Skew >= tok.exp + Grace
    BY <1>1 DEF MissingIsOld, Recorded
  <2>1. now + Skew >= tok.exp + Grace
    BY DEF MissingIsOld
  <2>2. now \in Int /\ Skew \in Int /\ tok.exp \in Int /\ Grace \in Int
    BY VerifierAssumption, StoreAssumption DEF TypeOK, VerifierTypeOK, Token
  <2> QED
    BY <1>1, <2>1, <2>2
<1> QED
  BY <1>1, <1>2, <1>3, <1>4 DEF TokensDistinct, BurnedIssued, RecordsTrue,
                                GrantedBurned, RefusalBurnsNothing

\* Every step preserves the invariant.
LEMMA NextIInv == ASSUME IInv, [Next]_vars PROVE IInv'
<1>1. CASE \E j \in TokenID, k \in Key, p \in Purpose : Issue(j, k, p) /\ UNCHANGED storeVars
  BY <1>1, IssueStep
<1>2. CASE \E c \in Caller, tok \in tokens : Present(c, tok) /\ UNCHANGED storeVars
  BY <1>2, PresentStep
<1>3. CASE \E f \in flight : Seen(f)
  BY <1>3, TxGetStep, TxCommitStep, TxAbortStep DEF Seen
<1>4. CASE \E r \in store : Reclaim(r)
  BY <1>4, ReclaimStep
<1>5. CASE Restart
  BY <1>5, RestartStep
<1>6. CASE Tick /\ UNCHANGED storeVars
  BY <1>6, TickStep
<1>7. CASE UNCHANGED vars
  <2>1. UNCHANGED <<now, tokens, store, burned, granted>> /\ UNCHANGED <<flight, outcome>>
    BY <1>7 DEF vars
  <2> QED
    BY <2>1, StoreUntouched DEF IInv, TypeOK, VerifierTypeOK, FlightsAdmitted
<1> QED
  BY <1>1, <1>2, <1>3, <1>4, <1>5, <1>6, <1>7 DEF Next

-----------------------------------------------------------------------------
\* The invariant holds however long the cleanup keeps its records.
THEOREM Invariance == Spec => []IInv
<1> QED
  BY InitIInv, NextIInv, PTL DEF Spec

\* Every reachable state is well typed.
THEOREM TypeCorrect == Spec => []TypeOK
<1>1. IInv => TypeOK
  BY DEF IInv
<1> QED
  BY <1>1, Invariance, PTL

\* A refused presentation never uses up a token ID (verifier.go:133-136).
THEOREM RefusalsBurnNothing == Spec => []RefusalBurnsNothing
<1>1. IInv => RefusalBurnsNothing
  BY DEF IInv
<1> QED
  BY <1>1, Invariance, PTL

\* If the cleanup keeps a record for the leeway, the longest verification and
\* two clocks' skew past the expiry it carries, no record is gone while its
\* token could still pass (replay_dalgo.go:18-22).
THEOREM RecordsOutliveTokens ==
  ASSUME KeepsLongEnough PROVE Spec => []RecordOutlivesToken
<1>1. IInv => RecordOutlivesToken
  <2> SUFFICES ASSUME IInv, NEW tok \in tokens, tok.jti \in burned, ~Recorded(tok.jti)
               PROVE  /\ \A t \in Reading : Expired(tok, t)
                      /\ \A f \in flight : f.token # tok
    BY DEF RecordOutlivesToken
  <2>1. now + Skew >= tok.exp + Grace
    BY DEF IInv, MissingIsOld
  <2>2. /\ now \in Int /\ tok.exp \in Int /\ Skew \in Nat
        /\ Leeway \in Nat /\ MaxFlight \in Nat /\ Grace \in Nat
    BY WindowAssumption, VerifierAssumption, StoreAssumption
       DEF IInv, TypeOK, VerifierTypeOK, Token
  <2>3. ASSUME NEW t \in Reading PROVE Expired(tok, t)
    BY <2>1, <2>2 DEF Reading, Expired, KeepsLongEnough
  <2>4. ASSUME NEW f \in flight PROVE f.token # tok
    BY InFlightRecorded
  <2> QED
    BY <2>3, <2>4
<1> QED
  BY <1>1, Invariance, PTL

-----------------------------------------------------------------------------
\* The commit finds the record missing, so by InFlightRecorded its token ID was
\* never burned before: it is the one step of the promise.
LEMMA CommitConsumes ==
  ASSUME KeepsLongEnough, IInv, NEW f \in flight, TxCommit(f)
  PROVE  /\ f.token.jti \in TokenID
         /\ Promise!Consume(f.token.jti)
<1>1. f.token.jti \in TokenID
  BY DEF IInv, TypeOK, VerifierTypeOK, Flight, Token
<1>2. f.token.jti \notin burned
  BY InFlightRecorded DEF TxCommit
<1> QED
  BY <1>1, <1>2 DEF TxCommit, Promise!Consume

\* Every step consumes one unused token ID or leaves the promise's state alone.
LEMMA StepKeepsPromise ==
  ASSUME KeepsLongEnough, IInv, [Next]_vars
  PROVE  \/ \E j \in TokenID : Promise!Consume(j)
         \/ UNCHANGED <<burned, granted>>
<1>1. CASE \E f \in flight : TxCommit(f)
  BY <1>1, CommitConsumes
<1>2. CASE ~ \E f \in flight : TxCommit(f)
  BY <1>2 DEF Next, vars, storeVars, Seen, TxGet, TxAbort, Reclaim, Restart
<1> QED
  BY <1>1, <1>2

\* DalgoReplayStore, with its attempts, lost answers, crashes and cleanup,
\* implements the single-use promise of the ReplayStore interface.
THEOREM StoreKeepsPromise == ASSUME KeepsLongEnough PROVE Spec => KeepsPromise
<1>1. Init => Promise!Init
  BY DEF Init, Promise!Init
<1>2. IInv /\ [Next]_vars => [Promise!Next]_(Promise!vars)
  BY StepKeepsPromise DEF Promise!Next, Promise!vars
<1> QED
  BY <1>1, <1>2, Invariance, PTL DEF Spec, KeepsPromise, Promise!Spec

\* Together with GrantedBurned, the part of the invariant that needs the cleanup
\* window.
LEMMA SingleUseStep ==
  ASSUME KeepsLongEnough, IInv, SingleUse, [Next]_vars
  PROVE  SingleUse'
<1>1. CASE UNCHANGED <<burned, granted>>
  BY <1>1 DEF SingleUse
<1>2. ASSUME NEW j \in TokenID, Promise!Consume(j)
      PROVE  SingleUse'
  <2>1. granted[j] = 0 /\ granted \in [TokenID -> Nat]
    BY <1>2 DEF IInv, TypeOK, GrantedBurned, Promise!Consume
  <2> QED
    BY <1>2, <2>1 DEF SingleUse, Promise!Consume
<1> QED
  BY <1>1, <1>2, StepKeepsPromise

\* No token ID is answered with a second grant (replay.go:8-10).
THEOREM SingleUseHolds == ASSUME KeepsLongEnough PROVE Spec => []SingleUse
<1>1. Init => SingleUse
  BY DEF Init, SingleUse
<1> QED
  BY <1>1, SingleUseStep, Invariance, PTL DEF Spec

-----------------------------------------------------------------------------
\* The leeway covers two clocks that are off in opposite directions.
LeewayCoversSkew == Leeway >= 2 * Skew

\* No token starts later than any clock could read by now.
StartsByNow == \A tok \in tokens : tok.nbf <= now + Skew

\* A fresh token starts at its issuer's reading, cut to a whole second.
LEMMA SignedByNow ==
  ASSUME IInv, NEW j \in TokenID, NEW k \in Key, NEW p \in Purpose, NEW t \in Reading
  PROVE  SignedToken(j, k, p, t).nbf <= now + Skew
<1>1. Second \in Int /\ Second > 0
  BY WindowAssumption
<1>2. t \in Int /\ now \in Int /\ Skew \in Int /\ t <= now + Skew
  BY VerifierAssumption DEF Reading, IInv, TypeOK, VerifierTypeOK
<1>3. NumericDate(t) \in Int /\ NumericDate(t) <= t
  BY <1>1, <1>2 DEF NumericDate
<1> QED
  BY <1>2, <1>3 DEF SignedToken

LEMMA StartsByNowStep ==
  ASSUME IInv, StartsByNow, [Next]_vars PROVE StartsByNow'
<1>1. CASE UNCHANGED tokens /\ now' >= now
  <2> SUFFICES ASSUME NEW tok \in tokens PROVE tok.nbf <= now' + Skew
    BY <1>1 DEF StartsByNow
  <2>1. tok.nbf \in Int /\ now \in Int /\ now' \in Int /\ Skew \in Int
    BY VerifierAssumption, NextIInv DEF IInv, TypeOK, VerifierTypeOK, Token
  <2> QED
    BY <1>1, <2>1 DEF StartsByNow
<1>2. ASSUME NEW j \in TokenID, NEW k \in Key, NEW p \in Purpose, Issue(j, k, p)
      PROVE  StartsByNow'
  <2>1. PICK t \in Reading : tokens' = tokens \cup {SignedToken(j, k, p, t)}
    BY <1>2 DEF Issue
  <2> QED
    BY <1>2, <2>1, SignedByNow DEF Issue, StartsByNow
<1>3. now \in Int
  BY DEF IInv, TypeOK, VerifierTypeOK
<1>4. \/ \E j \in TokenID, k \in Key, p \in Purpose : Issue(j, k, p)
      \/ UNCHANGED <<now, tokens>>
      \/ Tick
  BY DEF Next, Present, Seen, TxGet, TxCommit, TxAbort, Reclaim, Restart, vars
<1>5. CASE UNCHANGED <<now, tokens>>
  BY <1>1, <1>3, <1>5
<1>6. CASE Tick
  BY <1>1, <1>3, <1>6 DEF Tick
<1> QED
  BY <1>2, <1>4, <1>5, <1>6

\* A token whose start no clock can still be before passes the window's first gate.
LEMMA NotTooEarly ==
  ASSUME LeewayCoversSkew, IInv, StartsByNow, NEW tok \in tokens, NEW t \in Reading
  PROVE  Verdict(tok, t) # "tooEarly"
<1>1. t \in Int /\ t >= now - Skew /\ now \in Int /\ tok.nbf \in Int /\ Skew \in Int /\ Leeway \in Int
  BY WindowAssumption, VerifierAssumption DEF Reading, IInv, TypeOK, VerifierTypeOK, Token
<1>2. tok.nbf <= now + Skew
  BY DEF StartsByNow
<1>3. ~TooEarly(tok, t)
  BY <1>1, <1>2 DEF TooEarly, LeewayCoversSkew
<1> QED
  BY <1>3 DEF Verdict

LEMMA NeverTooEarlyStep ==
  ASSUME LeewayCoversSkew, IInv, StartsByNow, NeverTooEarly, [Next]_vars
  PROVE  NeverTooEarly'
<1>1. CASE UNCHANGED outcome
  BY <1>1 DEF NeverTooEarly
<1>2. ASSUME NEW c \in Caller, NEW tok \in tokens, Present(c, tok) PROVE NeverTooEarly'
  <2>1. PICK t \in Reading : outcome' = [outcome EXCEPT ![c] = Verdict(tok, t)]
    BY <1>2 DEF Present
  <2>2. Verdict(tok, t) # "tooEarly"
    BY NotTooEarly
  <2> QED
    BY <2>1, <2>2 DEF NeverTooEarly, IInv, TypeOK, VerifierTypeOK
<1>3. ASSUME NEW f \in flight, NEW o \in {"accepted", "conflict", "failed"}, Answer(f, o)
      PROVE  NeverTooEarly'
  BY <1>3 DEF Answer, NeverTooEarly, IInv, TypeOK, VerifierTypeOK
<1>4. CASE Restart
  BY <1>4 DEF Restart, Abandon, NeverTooEarly
<1> QED
  BY <1>1, <1>2, <1>3, <1>4
     DEF Next, Issue, Seen, TxGet, TxCommit, TxAbort, Rerun, Reclaim, Tick, vars

\* However the issuer's clock and the verifiers' are off, a token can be used the
\* moment it is issued (NeverTooEarly).
THEOREM UsableAtOnce == ASSUME LeewayCoversSkew PROVE Spec => []NeverTooEarly
<1>1. Init => StartsByNow /\ NeverTooEarly
  BY DEF Init, VerifierInit, StartsByNow, NeverTooEarly
<1> QED
  BY <1>1, StartsByNowStep, NeverTooEarlyStep, Invariance, PTL DEF Spec
=============================================================================
