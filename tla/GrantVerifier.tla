--------------------------- MODULE GrantVerifier ---------------------------
(***************************************************************************)
(* Issuing and verifying operation grants (package grants) up to the       *)
(* replay store, which DurableVerifier and MemoryVerifier add.  Every      *)
(* caller is one VerifyOperationGrant call in flight: the parse and its    *)
(* gates are one step, made at one reading of the clock; the replay store  *)
(* is consulted in later steps, when time and other callers have moved.    *)
(***************************************************************************)
EXTENDS GrantWindow

CONSTANTS TokenID,       \* jti values newTokenID can draw
          Key, Purpose,
          Signs,         \* for each key, the purposes of the direction that signs with it
          TrustedKeys,   \* keys of the verifying Direction: Key and Trusted
          Purposes,      \* Direction.Purposes of the verifying Direction
          Caller,        \* concurrent verifications
          Skew,          \* bound: a host clock differs from now by at most this
          MaxFlight,     \* bound: ticks a verification lasts before its host gives it up
          MaxTime        \* bound: the last tick

ASSUME VerifierAssumption ==
  /\ TrustedKeys \subseteq Key
  /\ Purposes \subseteq Purpose
  /\ Signs \in [Key -> SUBSET Purpose]
  /\ Skew \in Nat
  /\ MaxFlight \in Nat
  /\ MaxTime \in Nat

VARIABLES now,       \* true time
          tokens,    \* signed tokens in circulation
          flight,    \* verifications that passed every gate, now at the replay store
          outcome    \* what each caller's latest verification returned

\* The readings a host clock can give (Direction.now, MemoryReplayStore.nowFunc).
Reading == (now - Skew) .. (now + Skew)

Token == [jti : TokenID, kid : Key, purpose : Purpose, nbf : Int, exp : Int]
Flight == [caller : Caller, token : Token, since : Int, step : {"get", "set"}, attempt : Nat]
Outcome == {"none", "pending", "accepted", "conflict", "failed", "lost",
            "unknownKey", "expired", "tooEarly", "notPermitted"}

VerifierTypeOK == /\ now \in Int
                  /\ tokens \subseteq Token
                  /\ flight \subseteq Flight
                  /\ outcome \in [Caller -> Outcome]

VerifierInit == /\ now = 0
                /\ tokens = {}
                /\ flight = {}
                /\ outcome = [c \in Caller |-> "none"]

\* The signed claims.
SignedToken(j, k, p, t) == [jti |-> j, kid |-> k, purpose |-> p,
                            nbf |-> NumericDate(t),
                            exp |-> NumericDate(t + TokenLifetime)]

(***************************************************************************)
(* IssueOperationGrant: the direction signing with k permits p, the token  *)
(* ID is fresh (128 random bits) and the window starts at the issuer's     *)
(* reading of its clock.                                                   *)
(***************************************************************************)
Issue(j, k, p) ==
  /\ p \in Signs[k]
  /\ \A tok \in tokens : tok.jti # j
  /\ \E t \in Reading : tokens' = tokens \cup {SignedToken(j, k, p, t)}
  /\ UNCHANGED <<now, flight, outcome>>

\* Faulty: no purpose gate.
VerdictUngated(tok, t) ==
  CASE tok.kid \notin TrustedKeys -> "unknownKey"
    [] tok.kid \in TrustedKeys /\ Expired(tok, t) -> "expired"
    [] tok.kid \in TrustedKeys /\ ~Expired(tok, t) /\ TooEarly(tok, t) -> "tooEarly"
    [] OTHER -> "pending"

(***************************************************************************)
(* The gates of VerifyOperationGrant in their order: the kid resolves to a *)
(* trusted key, the window holds at reading t, the direction permits the   *)
(* purpose.                                                                *)
(***************************************************************************)
Verdict(tok, t) ==
  CASE tok.kid \notin TrustedKeys -> "unknownKey"
    [] tok.kid \in TrustedKeys /\ Expired(tok, t) -> "expired"
    [] tok.kid \in TrustedKeys /\ ~Expired(tok, t) /\ TooEarly(tok, t) -> "tooEarly"
    [] tok.kid \in TrustedKeys /\ ~Expired(tok, t) /\ ~TooEarly(tok, t)
         /\ tok.purpose \notin Purposes -> "notPermitted"
    [] OTHER -> "pending"

Idle(c) == \A f \in flight : f.caller # c

Present(c, tok) ==
  /\ Idle(c)
  /\ \E t \in Reading :
       LET verdict == Verdict(tok, t)
       IN  /\ outcome' = [outcome EXCEPT ![c] = verdict]
           /\ flight' = IF verdict = "pending"
                        THEN flight \cup {[caller |-> c, token |-> tok, since |-> now,
                                           step |-> "get", attempt |-> 1]}
                        ELSE flight
  /\ UNCHANGED <<now, tokens>>

\* VerifyOperationGrant returns to its caller.
Answer(f, o) == /\ flight' = flight \ {f}
                /\ outcome' = [outcome EXCEPT ![f.caller] = o]

\* The processes running the callers in S die, and their verifications with them.
Abandon(S) == /\ flight' = {f \in flight : f.caller \notin S}
              /\ outcome' = [c \in Caller |-> IF c \in S /\ ~Idle(c) THEN "lost" ELSE outcome[c]]

(***************************************************************************)
(* Time passes; a host gives up a request before it is older than          *)
(* MaxFlight, so it cannot be overtaken by more than that.                 *)
(***************************************************************************)
Tick == /\ now < MaxTime
        /\ \A f \in flight : now < f.since + MaxFlight
        /\ now' = now + 1
        /\ UNCHANGED <<tokens, flight, outcome>>

\* Under clock skew no wider than the leeway allows, a token is usable the
\* moment it is issued: no verifier ever answers that it is not yet valid
\* (Direction.Leeway, direction.go:76-79).
NeverTooEarly == \A c \in Caller : outcome[c] # "tooEarly"
=============================================================================
