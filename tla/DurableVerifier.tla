-------------------------- MODULE DurableVerifier --------------------------
(***************************************************************************)
(* The verifier over DalgoReplayStore: Seen is a serializable              *)
(* check-then-insert transaction over a database shared by every process.  *)
(* The transaction reads, then commits or is retried; a commit can succeed *)
(* without its answer reaching the driver, which may then run the body     *)
(* again over what it just wrote.  Records are reclaimed by an operator's  *)
(* cleanup, Grace ticks after the expiry they carry.                       *)
(***************************************************************************)
EXTENDS GrantVerifier

CONSTANTS Attempts,   \* dalgoReplayTransactionAttempts
          Grace       \* how long after ExpiresAt a record is kept

ASSUME StoreAssumption == /\ Attempts \in Nat \ {0}
                          /\ Grace \in Nat

VARIABLES store,    \* the competiosGrantReplay collection
          burned,   \* history: token IDs ever recorded
          granted   \* history: how often each token ID was answered with a grant

vars == <<now, tokens, flight, outcome, store, burned, granted>>
storeVars == <<store, burned, granted>>

Record == [jti : TokenID, expiresAt : Int]
Recorded(j) == \E r \in store : r.jti = j

TypeOK == /\ VerifierTypeOK
          /\ store \subseteq Record
          /\ burned \subseteq TokenID
          /\ granted \in [TokenID -> Nat]

Init == /\ VerifierInit
        /\ store = {}
        /\ burned = {}
        /\ granted = [j \in TokenID |-> 0]

\* tx.Get: an existing record is a replay, an absent one leads to tx.Set, and any
\* other error ends the call.
TxGet(f) ==
  /\ f.step = "get"
  /\ \/ Recorded(f.token.jti) /\ Answer(f, "conflict")
     \/ Answer(f, "failed")
     \/ /\ ~Recorded(f.token.jti)
        /\ flight' = (flight \ {f}) \cup {[f EXCEPT !.step = "set"]}
        /\ UNCHANGED outcome
  /\ UNCHANGED <<now, tokens, store, burned, granted>>

\* Faulty: the insert trusts the earlier read, without a transaction.
TxCommitUnserialized(f) ==
  LET j == f.token.jti
  IN  /\ f.step = "set"
      /\ store' = store \cup {[jti |-> j, expiresAt |-> f.token.exp]}
      /\ burned' = burned \cup {j}
      /\ Answer(f, "accepted")
      /\ granted' = [granted EXCEPT ![j] = @ + 1]
      /\ UNCHANGED <<now, tokens>>

\* Faulty: the record carries the start of the token's window.
TxCommitFromStart(f) ==
  LET j == f.token.jti
  IN  /\ f.step = "set"
      /\ ~Recorded(j)
      /\ store' = store \cup {[jti |-> j, expiresAt |-> f.token.nbf]}
      /\ burned' = burned \cup {j}
      /\ Answer(f, "accepted")
      /\ granted' = [granted EXCEPT ![j] = @ + 1]
      /\ UNCHANGED <<now, tokens>>

\* The driver runs the body of the transaction again.
Rerun(f) == /\ f.attempt < Attempts
            /\ flight' = (flight \ {f}) \cup {[f EXCEPT !.step = "get", !.attempt = @ + 1]}
            /\ UNCHANGED outcome

(***************************************************************************)
(* The transaction commits: serializability makes what it read still true. *)
(* The caller gets nil.  When the answer is lost on the way, it gets an    *)
(* error, or the body runs again and finds the record of its own first run.*)
(***************************************************************************)
TxCommit(f) ==
  LET j == f.token.jti
  IN  /\ f.step = "set"
      /\ ~Recorded(j)
      /\ store' = store \cup {[jti |-> j, expiresAt |-> f.token.exp]}
      /\ burned' = burned \cup {j}
      /\ \/ Answer(f, "accepted") /\ granted' = [granted EXCEPT ![j] = @ + 1]
         \/ (Answer(f, "failed") \/ Rerun(f)) /\ UNCHANGED granted
      /\ UNCHANGED <<now, tokens>>

\* Faulty: attempts are counted down, so they are never spent.
TxAbortCountsDown(f) ==
  /\ f.step = "set"
  /\ \/ /\ f.attempt < Attempts
        /\ flight' = (flight \ {f}) \cup {[f EXCEPT !.step = "get", !.attempt = @ - 1]}
        /\ UNCHANGED outcome
     \/ f.attempt >= Attempts /\ Answer(f, "failed")
  /\ UNCHANGED <<now, tokens, store, burned, granted>>

\* Faulty: a refused commit is retried without counting the attempt.
TxAbortForever(f) ==
  /\ f.step = "set"
  /\ flight' = (flight \ {f}) \cup {[f EXCEPT !.step = "get"]}
  /\ UNCHANGED <<now, tokens, outcome, store, burned, granted>>

\* The database refuses the commit (contention): the body runs again, or the
\* attempts are spent and Seen returns the error.
TxAbort(f) ==
  /\ f.step = "set"
  /\ Rerun(f) \/ (f.attempt >= Attempts /\ Answer(f, "failed"))
  /\ UNCHANGED <<now, tokens, store, burned, granted>>

Seen(f) == TxGet(f) \/ TxCommit(f) \/ TxAbort(f)

\* A process restarts; the collection survives it.
Restart == /\ \E S \in SUBSET {f.caller : f \in flight} : S # {} /\ Abandon(S)
           /\ UNCHANGED <<now, tokens, store, burned, granted>>

\* Faulty: a record is reclaimed at the expiry it carries.
ReclaimAtExpiry(r) == /\ \E t \in Reading : t >= r.expiresAt
                      /\ store' = store \ {r}
                      /\ UNCHANGED <<now, tokens, flight, outcome, burned, granted>>

\* The periodic cleanup the record's ExpiresAt is there for.
Reclaim(r) == /\ \E t \in Reading : t >= r.expiresAt + Grace
              /\ store' = store \ {r}
              /\ UNCHANGED <<now, tokens, flight, outcome, burned, granted>>

Next == \/ \E j \in TokenID, k \in Key, p \in Purpose : Issue(j, k, p) /\ UNCHANGED storeVars
        \/ \E c \in Caller, tok \in tokens : Present(c, tok) /\ UNCHANGED storeVars
        \/ \E f \in flight : Seen(f)
        \/ \E r \in store : Reclaim(r)
        \/ Restart
        \/ Tick /\ UNCHANGED storeVars

Spec == Init /\ [][Next]_vars

\* The goroutine of a call in flight is scheduled until the call returns.
Step(c) == \E f \in flight : f.caller = c /\ Seen(f)
FairSpec == Spec /\ \A c \in Caller : WF_vars(Step(c))

-----------------------------------------------------------------------------
\* No token ID is ever answered with a second grant, by whichever callers,
\* across crashes, retries, lost commits and cleanup (replay.go:8-10).
SingleUse == \A j \in TokenID : granted[j] <= 1

\* A record is never gone while its token could still pass the verifier, or
\* while a verification of it that passed is still on its way to the store
\* (replay_dalgo.go:18-22).
RecordOutlivesToken ==
  \A tok \in tokens :
    tok.jti \in burned /\ ~Recorded(tok.jti) =>
      /\ \A t \in Reading : Expired(tok, t)
      /\ \A f \in flight : f.token # tok

\* How long the cleanup must keep a record for RecordOutlivesToken to hold: past
\* the leeway, the longest verification in flight and two hosts' clock skew.
KeepsLongEnough == Grace >= Leeway + MaxFlight + 2 * Skew

\* Only a token of this direction, signed by a key it trusts and for a purpose
\* it permits, uses up its token ID: a refused presentation burns nothing
\* (verifier.go:133-136).
RefusalBurnsNothing ==
  \A tok \in tokens :
    tok.jti \in burned => tok.kid \in TrustedKeys /\ tok.purpose \in Purposes

\* Every verification returns to its caller or dies with its process.
EveryCallReturns == \A c \in Caller : outcome[c] = "pending" ~> outcome[c] # "pending"

\* The store implements the promise of the ReplayStore interface.
Promise == INSTANCE ReplayPromise WITH consumed <- burned
KeepsPromise == Promise!Spec

\* The contract's own sentence about ErrTokenReplayConflict: a token ID reused
\* with different claims (contract.go:25, grant_conformance.go:34-36).
ConflictMeansChangedClaims ==
  \A c \in Caller : outcome[c] = "conflict" =>
    \E a, b \in tokens : a.jti = b.jti /\ a # b
=============================================================================
